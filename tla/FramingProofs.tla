---------------------------- MODULE FramingProofs ----------------------------
(***************************************************************************)
(* The cursor loops stay inside their buffer and keep their records apart, *)
(* for buffers, counts, headers and sector sizes of any size.              *)
(***************************************************************************)
EXTENDS Framing, WellFoundedInduction, TLAPS

LoopKinds == {"array", "xattr", "ref", "lzo"}

Rec == [at : Nat, size : Nat]

(* RecordsApart is not inductive: the next record is behind the others     *)
(* because the cursor is.                                                  *)
BehindCursor ==
  status = "running" =>
    /\ cur >= call.start
    /\ \A i \in DOMAIN out : out[i].at + out[i].size <= cur

FramingInv == TypeOK /\ RecordsApart /\ BehindCursor

-----------------------------------------------------------------------------
(* Products of lengths are lengths. *)
LEMMA ProductIsNat ==
  ASSUME NEW a \in Nat, NEW b \in Nat
  PROVE  a * b \in Nat
  BY SMT

(* Whatever the loop finds at an offset is a header: what was laid there,  *)
(* or stray bytes.                                                         *)
LEMMA HeadersTyped ==
  ASSUME IsCall(call), call.kind \in LoopKinds, NEW p \in Nat, NEW h \in HeadersAt(p)
  PROVE  h.len \in Nat /\ h.extra \in Nat
  <1>1. call.laid \in Seq([at : Nat, size : Nat, head : Header])
    BY DEF IsCall, LoopKinds, IsLaid
  <1>2. CASE h \in Garbage
    BY <1>2, GarbageAssumption DEF Header
  <1>3. CASE h \notin Garbage
    <2>1. PICK i \in DOMAIN call.laid : h = call.laid[i].head
      BY <1>3 DEF HeadersAt
    <2> DEFINE S == [at : Nat, size : Nat, head : Header]
    <2>2. call.laid[i].head \in Header
      <3>1. \A x \in S : x.head \in Header
        OBVIOUS
      <3> HIDE DEF S
      <3>2. call.laid \in Seq(S)
        BY <1>1 DEF S
      <3>3. call.laid[i] \in S
        BY <3>2, <2>1
      <3> QED BY <3>1, <3>3
    <2> QED BY <2>1, <2>2 DEF Header
  <1> QED BY <1>2, <1>3

(* Skipping the padding never moves the cursor back. *)
LEMMA AlignedForward ==
  ASSUME NEW p \in Nat, NEW s \in Nat \ {0}
  PROVE  Aligned(p, s) \in Nat /\ Aligned(p, s) >= p
  <1>1. p % s \in 0 .. s - 1
    OBVIOUS
  <1> DEFINE r == p % s
  <1>2. r \in Int /\ 0 <= r /\ r < s
    BY <1>1
  <1> HIDE DEF r
  <1>3. (IF r + LzoLen > s THEN p + (s - r) ELSE p) >= p
        /\ (IF r + LzoLen > s THEN p + (s - r) ELSE p) \in Nat
    BY <1>2, SizesAssumption
  <1> QED BY <1>3 DEF Aligned, r

(* A record behind the cursor and inside the region keeps the invariant,   *)
(* and the loop goes on from the end of it or further.                     *)
LEMMA PushKeepsApart ==
  ASSUME FramingInv, status = "running",
         NEW at \in Nat, NEW size \in Nat, NEW next \in Nat,
         cur <= at, at + size <= next,
         at + size <= call.len,
         call.kind = "array" => at + size <= call.start + call.declared,
         Push(at, size, next),
         produced' \in 0 .. call.cap
  PROVE  FramingInv'
  <1> DEFINE r == [at |-> at, size |-> size]
  <1>1. /\ out \in Seq(Rec) /\ out' = Append(out, r) /\ r \in Rec
        /\ cur' = next /\ call' = call /\ status' = status
        /\ cur \in Nat /\ call.start \in Nat /\ cur >= call.start
        /\ call.len \in Nat /\ call.declared \in Nat
    BY DEF FramingInv, TypeOK, BehindCursor, Push, Rec, IsCall
  <1>2. /\ out' \in Seq(Rec)
        /\ DOMAIN out' = DOMAIN out \cup {Len(out) + 1}
        /\ \A i \in DOMAIN out : out'[i] = out[i] /\ out[i] \in Rec /\ i < Len(out) + 1 /\ i \in Nat
        /\ out'[Len(out) + 1] = r
        /\ Len(out) \in Nat
    BY <1>1
  <1>3. TypeOK'
    BY <1>1, <1>2 DEF FramingInv, TypeOK, IsCall, Rec
  <1>4. BehindCursor'
    <2>1. \A i \in DOMAIN out : out[i].at + out[i].size <= cur
      BY DEF FramingInv, BehindCursor
    <2>2. \A i \in DOMAIN out : out[i].at + out[i].size \in Nat
      BY <1>2 DEF Rec
    <2>3. \A i \in DOMAIN out : out'[i].at + out'[i].size <= next
      BY <1>1, <1>2, <2>1, <2>2
    <2>4. out'[Len(out) + 1].at + out'[Len(out) + 1].size <= next
      BY <1>2
    <2>5. next >= call.start
      BY <1>1
    <2> QED BY <1>1, <1>2, <2>3, <2>4, <2>5 DEF BehindCursor
  <1>5. RecordsApart'
    <2>1. \A i \in DOMAIN out' :
            /\ out'[i].at >= call.start
            /\ out'[i].at + out'[i].size <= call.len
            /\ call.kind = "array" => out'[i].at + out'[i].size <= call.start + call.declared
      <3>1. at >= call.start
        BY <1>1
      <3> QED BY <1>2, <3>1 DEF FramingInv, RecordsApart
    <2>2. ASSUME NEW i \in DOMAIN out', NEW j \in DOMAIN out', i < j
          PROVE  out'[i].at + out'[i].size <= out'[j].at
      <3>1. i \in DOMAIN out
        BY <1>2, <2>2
      <3>2. CASE j \in DOMAIN out
        BY <1>2, <2>2, <3>1, <3>2 DEF FramingInv, RecordsApart
      <3>3. CASE j = Len(out) + 1
        <4>1. out[i].at + out[i].size <= cur /\ out[i].at + out[i].size \in Nat
          BY <1>2, <3>1 DEF FramingInv, BehindCursor, Rec
        <4> QED BY <1>1, <1>2, <3>1, <3>3, <4>1
      <3> QED BY <1>2, <3>2, <3>3
    <2> QED BY <1>1, <2>1, <2>2 DEF RecordsApart
  <1> QED BY <1>3, <1>4, <1>5 DEF FramingInv

(* Leaving a loop keeps the records. *)
LEMMA LeaveKeeps ==
  ASSUME FramingInv, NEW result \in {"ok", "err"}, Leave(result)
  PROVE  FramingInv'
  BY DEF FramingInv, TypeOK, RecordsApart, BehindCursor, Leave, IsCall

(* Records of a fixed size lie one behind the other, and as many as fit    *)
(* end in the buffer.                                                      *)
LEMMA FixedFits ==
  ASSUME NEW n \in Nat, NEW size \in Nat \ {0}, NEW i \in 1 .. (n \div size)
  PROVE  (i - 1) * size \in Nat /\ (i - 1) * size + size <= n
  <1> DEFINE q == n \div size
  <1>1. q \in Nat /\ n = size * q + (n % size) /\ n % size \in Nat
    OBVIOUS
  <1>2. size * q <= n
    <2>1. size * q \in Nat
      BY <1>1, ProductIsNat
    <2> QED BY <1>1, <2>1
  <1>3. i \in Nat /\ i >= 1 /\ q - i \in Nat
    BY <1>1
  <1> HIDE DEF q
  <1>4. (q - i) * size \in Nat /\ (i - 1) * size \in Nat
    BY <1>3, ProductIsNat
  <1>5. (i - 1) * size + size + (q - i) * size = size * q
    BY <1>1, <1>3
  <1> QED BY <1>1, <1>2, <1>3, <1>4, <1>5, ProductIsNat

(* Two places of a counted table (parse_items, parse_key_ptrs) are apart. *)
LEMMA FixedApart ==
  ASSUME NEW size \in Nat, NEW i \in Nat \ {0}, NEW j \in Nat, i < j
  PROVE  (i - 1) * size + size <= (j - 1) * size
  <1>1. (j - 1 - i) * size \in Nat /\ (i - 1) * size \in Nat
    BY ProductIsNat
  <1>2. (i - 1) * size + size + (j - 1 - i) * size = (j - 1) * size
    OBVIOUS
  <1>3. (j - 1) * size \in Nat
    BY ProductIsNat
  <1> QED BY <1>1, <1>2, <1>3

-----------------------------------------------------------------------------
(* One lemma per kind of loop. *)
LEMMA ArrayKeeps ==
  ASSUME FramingInv, ArrayEntry
  PROVE  FramingInv'
  <1>1. PICK h \in HeadersAt(cur) :
          cur + EntrySize(h) <= ArrayEnd /\ Push(cur, EntrySize(h), cur + EntrySize(h))
    BY DEF ArrayEntry
  <1>2. /\ cur \in Nat /\ IsCall(call) /\ call.kind = "array" /\ status = "running"
        /\ {call.start, call.declared, call.len} \subseteq Nat
        /\ produced' \in 0 .. call.cap
    BY DEF FramingInv, TypeOK, ArrayEntry, Running, IsCall
  <1>3. h.len \in Nat
    BY <1>2, HeadersTyped DEF LoopKinds
  <1>4. h.len * StripeSize \in Nat /\ EntryHeader \in Nat
    BY <1>3, ProductIsNat, SizesAssumption
  <1>5. EntrySize(h) \in Nat
    BY <1>4 DEF EntrySize
  <1>6. cur + EntrySize(h) <= call.len /\ cur + EntrySize(h) <= call.start + call.declared
    BY <1>1, <1>2, <1>5 DEF ArrayEnd, Least
  <1> QED BY <1>1, <1>2, <1>5, <1>6, PushKeepsApart

(* The loop of list_xattrs pays for its step. *)
LEMMA XattrKeeps ==
  ASSUME FramingInv, XattrRecord
  PROVE  FramingInv'
  <1>1. PICK h \in HeadersAt(cur) :
          WholeRecord(h, XattrSize(h)) /\ Push(cur, XattrSize(h), cur + XattrSize(h))
    BY DEF XattrRecord
  <1>2. /\ cur \in Nat /\ IsCall(call) /\ call.kind = "xattr" /\ status = "running"
        /\ produced' \in 0 .. call.cap
    BY DEF FramingInv, TypeOK, XattrRecord, Running
  <1>3. h.len \in Nat /\ h.extra \in Nat
    BY <1>2, HeadersTyped DEF LoopKinds
  <1>4. XattrSize(h) \in Nat
    BY <1>3, SizesAssumption DEF XattrSize, Failed
  <1>5. cur + XattrSize(h) <= call.len
    BY <1>1 DEF WholeRecord
  <1> QED BY <1>1, <1>2, <1>4, <1>5, PushKeepsApart

(* The loop of list_inode_refs pays for its step. *)
LEMMA RefKeeps ==
  ASSUME FramingInv, RefRecord
  PROVE  FramingInv'
  <1>1. PICK h \in HeadersAt(cur) :
          WholeRecord(h, RefSize(h)) /\ Push(cur, RefSize(h), cur + RefSize(h))
    BY DEF RefRecord
  <1>2. /\ cur \in Nat /\ IsCall(call) /\ call.kind = "ref" /\ status = "running"
        /\ produced' \in 0 .. call.cap
    BY DEF FramingInv, TypeOK, RefRecord, Running
  <1>3. h.len \in Nat
    BY <1>2, HeadersTyped DEF LoopKinds
  <1>4. RefSize(h) \in Nat
    BY <1>3, SizesAssumption DEF RefSize
  <1>5. cur + RefSize(h) <= call.len
    BY <1>1 DEF WholeRecord
  <1> QED BY <1>1, <1>2, <1>4, <1>5, PushKeepsApart

(* A segment starts behind the padding and is cut at the end of the        *)
(* source; the cursor moves by the declared length all the same.           *)
LEMMA LzoKeeps ==
  ASSUME FramingInv, LzoSegment
  PROVE  FramingInv'
  <1>1. /\ cur \in Nat /\ IsCall(call) /\ call.kind = "lzo" /\ status = "running"
        /\ {call.len, call.cap, call.sector} \subseteq Nat
        /\ produced \in 0 .. call.cap
    BY DEF FramingInv, TypeOK, LzoSegment, SegmentPending, Running, IsCall
  <1>2. SectorSize \in Nat \ {0}
    BY <1>1 DEF SectorSize
  <1>3. HeaderPos \in Nat /\ HeaderPos >= cur
    BY <1>1, <1>2, AlignedForward DEF HeaderPos
  <1> PICK h \in HeadersAt(HeaderPos) :
        \E n \in Decoded(h) \ {Failed} :
          /\ produced' = produced + Least(call.cap - produced, n)
          /\ Push(HeaderPos, SegmentSize(h), HeaderPos + LzoLen + h.len)
    BY DEF LzoSegment
  <1>4. PICK n \in Decoded(h) \ {Failed} :
          /\ produced' = produced + Least(call.cap - produced, n)
          /\ Push(HeaderPos, SegmentSize(h), HeaderPos + LzoLen + h.len)
    OBVIOUS
  <1>5. h.len \in Nat /\ h.extra \in Nat
    BY <1>1, <1>3, HeadersTyped DEF LoopKinds
  <1>6. n \in Nat
    <2>1. CASE SegmentSize(h) < LzoLen + h.len
      BY <1>4, <1>5, <2>1 DEF Decoded, Failed
    <2>2. CASE ~(SegmentSize(h) < LzoLen + h.len)
      BY <1>4, <1>5, <2>2 DEF Decoded, Failed
    <2> QED BY <2>1, <2>2
  <1>7. produced' \in 0 .. call.cap
    BY <1>1, <1>4, <1>6 DEF Least
  <1>8. HeaderPos + LzoLen <= call.len /\ LzoLen \in Nat
    BY <1>1, <1>3, SizesAssumption DEF LzoSegment, HeaderMissing
  <1>9. SegmentSize(h) \in Nat /\ HeaderPos + SegmentSize(h) <= call.len
        /\ HeaderPos + SegmentSize(h) <= HeaderPos + LzoLen + h.len
    BY <1>1, <1>3, <1>5, <1>8 DEF SegmentSize, Least
  <1>10. HeaderPos + LzoLen + h.len \in Nat
    BY <1>3, <1>5, <1>8
  <1> QED BY <1>1, <1>3, <1>4, <1>7, <1>9, <1>10, PushKeepsApart

(* The counted loops lay their records side by side within the buffer. *)
LEMMA FixedKeeps ==
  ASSUME FramingInv, Fixed
  PROVE  FramingInv'
  <1> DEFINE size == FixedSize[call.kind]
             avail == IF call.start <= call.len THEN call.len - call.start ELSE 0
             take == Capped(call.declared, avail, size)
             At(i) == call.start + (i - 1) * size
  <1>1. /\ out' = [i \in 1 .. take |-> [at |-> At(i), size |-> size]]
        /\ status' = "ok" /\ call' = call /\ cur' = cur /\ produced' = produced
        /\ call.kind \in {"items", "ptrs", "stripes"}
        /\ {call.start, call.declared, call.len} \subseteq Nat
    BY DEF Fixed, FixedSize, FramingInv, TypeOK, IsCall
  <1>2. size \in Nat \ {0}
    BY <1>1, SizesAssumption DEF FixedSize
  <1>3. avail \in Nat
    BY <1>1
  <1> HIDE DEF size
  <1>4. avail \div size \in Nat
    BY <1>2, <1>3
  <1>5. take \in Nat /\ take <= avail \div size
    BY <1>1, <1>4 DEF Capped, Least
  <1> HIDE DEF take
  <1>6. ASSUME NEW i \in 1 .. take
        PROVE  At(i) \in Nat /\ At(i) >= call.start /\ At(i) + size <= call.len
    <2>1. i \in 1 .. (avail \div size)
      BY <1>4, <1>5
    <2>2. (i - 1) * size \in Nat /\ (i - 1) * size + size <= avail
      BY <1>2, <1>3, <2>1, FixedFits
    <2>3. call.start + avail <= call.len \/ avail = 0
      BY <1>1
    <2>4. avail # 0
      BY <1>2, <2>2
    <2>5. PICK a : a = (i - 1) * size
      OBVIOUS
    <2>6. a \in Nat /\ a + size <= avail /\ call.start + avail <= call.len
      BY <2>2, <2>3, <2>4, <2>5
    <2> HIDE DEF avail
    <2>7. call.start + a \in Nat /\ call.start + a >= call.start /\ call.start + a + size <= call.len
      BY <1>1, <1>2, <1>3, <2>6
    <2> QED BY <2>5, <2>7
  <1>7. ASSUME NEW i \in 1 .. take, NEW j \in 1 .. take, i < j
        PROVE  At(i) + size <= At(j)
    <2>1. (i - 1) * size + size <= (j - 1) * size
      BY <1>2, <1>5, <1>7, FixedApart
    <2>2. (i - 1) * size \in Nat /\ (j - 1) * size \in Nat
      BY <1>2, <1>5, ProductIsNat
    <2> DEFINE a == (i - 1) * size
               b == (j - 1) * size
    <2>3. a \in Nat /\ b \in Nat /\ a + size <= b /\ size \in Nat /\ call.start \in Nat
      BY <1>1, <1>2, <2>1, <2>2
    <2> HIDE DEF a, b
    <2>4. call.start + a + size <= call.start + b
      BY <2>3
    <2> QED BY <2>4 DEF a, b
  <1> HIDE DEF At
  <1>8. out' \in Seq(Rec) /\ DOMAIN out' = 1 .. take
    BY <1>1, <1>2, <1>5, <1>6 DEF Rec
  <1>9. TypeOK'
    BY <1>1, <1>8 DEF FramingInv, TypeOK, IsCall, Rec
  <1>10. RecordsApart'
    BY <1>1, <1>6, <1>7, <1>8 DEF RecordsApart
  <1> QED BY <1>1, <1>9, <1>10 DEF FramingInv, BehindCursor

-----------------------------------------------------------------------------
(* Every loop, and every way out of one, keeps the invariant. *)
LEMMA StepKeeps ==
  FramingInv /\ [Next]_vars => FramingInv'
  <1> SUFFICES ASSUME FramingInv, [Next]_vars
               PROVE  FramingInv'
    OBVIOUS
  <1>1. CASE ArrayEntry
    BY <1>1, ArrayKeeps
  <1>2. CASE XattrRecord
    BY <1>2, XattrKeeps
  <1>3. CASE RefRecord
    BY <1>3, RefKeeps
  <1>4. CASE Fixed
    BY <1>4, FixedKeeps
  <1>5. CASE LzoSegment
    BY <1>5, LzoKeeps
  <1>6. CASE ArrayStop \/ XattrStop \/ RefStop \/ LzoStop \/ LzoFails
    <2>1. PICK result \in {"ok", "err"} : Leave(result)
      BY <1>6 DEF ArrayStop, XattrStop, RefStop, LzoStop, LzoFails
    <2> QED BY <2>1, LeaveKeeps
  <1>7. CASE UNCHANGED vars
    BY <1>7 DEF FramingInv, TypeOK, RecordsApart, BehindCursor, IsCall, vars
  <1> QED BY <1>1, <1>2, <1>3, <1>4, <1>5, <1>6, <1>7 DEF Next

(* FramingInv holds throughout every one of the loops. *)
LEMMA InvHolds == Spec => []FramingInv
  <1>1. Init => FramingInv
    <2> SUFFICES ASSUME Init PROVE FramingInv
      OBVIOUS
    <2>1. IsCall(call)
      BY CallsAssumption DEF Init
    <2>2. out = <<>> /\ DOMAIN out = {}
      BY DEF Init
    <2>3. TypeOK
      BY <2>1 DEF Init, TypeOK, IsCall
    <2> QED BY <2>1, <2>2, <2>3 DEF Init, FramingInv, RecordsApart, BehindCursor, IsCall
  <1> QED BY <1>1, StepKeeps, PTL DEF Spec

(* The loops' variables keep their shapes for every buffer, and            *)
(* decompress_lzo_btrfs never holds more than cap bytes.                   *)
THEOREM TypeCorrect == Spec => []TypeOK
  BY InvHolds, PTL DEF FramingInv

(* For every buffer, header and declared count, parse_array, list_xattrs,  *)
(* list_inode_refs, parse_items, parse_key_ptrs, Chunk::parse and the LZO  *)
(* loop read no byte outside their buffer and none for two records.        *)
THEOREM LoopsKeepRecordsApart == Spec => []RecordsApart
  BY InvHolds, PTL DEF FramingInv
-----------------------------------------------------------------------------
(* What the writer laid is what the loops read back.                       *)

(* A non-empty set of naturals has a least element. *)
LEMMA LeastLemma ==
  ASSUME NEW S \in SUBSET Nat, S # {}
  PROVE  \E x \in S : \A y \in S : x <= y
  <1> DEFINE R == {p \in Nat \X Nat : p[1] < p[2]}
  <1>1. IsWellFoundedOn(R, Nat)
    BY NatLessThanWellFounded, Zenon DEF OpToRel
  <1>2. \A x, y \in Nat : y < x => <<y, x>> \in R
    OBVIOUS
  <1> HIDE DEF R
  <1>3. PICK x \in S : \A y \in S : ~(<<y, x>> \in R)
    BY <1>1, WFMin
  <1>4. ASSUME NEW y \in S PROVE x <= y
    <2>1. x \in Nat /\ y \in Nat /\ ~(y < x)
      BY <1>2, <1>3
    <2> QED BY <2>1
  <1> QED BY <1>4

(* A set of naturals that holds 0 and does not pass N has a greatest       *)
(* element.                                                                *)
LEMMA GreatestLemma ==
  ASSUME NEW N \in Nat, NEW S \in SUBSET (0 .. N), S # {}
  PROVE  Max(S) \in S /\ \A y \in S : y <= Max(S)
  <1> DEFINE T == {k \in Nat : \E x \in S : k = N - x}
  <1>1. \A x \in S : x \in Nat /\ x <= N /\ N - x \in T
    OBVIOUS
  <1>2. T \in SUBSET Nat /\ T # {}
    BY <1>1
  <1> HIDE DEF T
  <1>3. PICK m \in T : \A k \in T : m <= k
    BY <1>2, LeastLemma
  <1>4. PICK x \in S : m = N - x
    BY <1>3 DEF T
  <1>5. \A y \in S : x >= y
    BY <1>1, <1>3, <1>4
  <1>6. \A x1 \in S : x1 \in Int
    BY <1>1
  <1> QED BY <1>5, <1>6 DEF Max

(* The end of what a loop may read is an offset, within the buffer. *)
LEMMA RegionTyped ==
  ASSUME IsCall(call), call.kind \in LoopKinds
  PROVE  /\ Region \in Nat /\ Region <= call.len
         /\ call.kind = "array" => Region = ArrayEnd
         /\ call.kind \in {"xattr", "ref"} => Region = call.len
         /\ call.kind = "lzo" => Total \in Nat /\ Region = Least(Total, call.len)
  <1>1. {call.len, call.start, call.declared} \subseteq Nat /\ LzoLen \in Nat
    BY SizesAssumption DEF IsCall
  <1>2. Total \in Nat /\ ArrayEnd \in Nat /\ ArrayEnd <= call.len
    BY <1>1 DEF Total, DeclaredTotal, ArrayEnd, Least
  <1>3. Least(Total, call.len) \in Nat /\ Least(Total, call.len) <= call.len
    BY <1>1, <1>2 DEF Least
  <1> QED BY <1>1, <1>2, <1>3 DEF Region, LoopKinds

(* The fields of a laid record, and that none is empty. *)
LEMMA LaidTyped ==
  ASSUME NEW c, IsCall(c), c.kind \in LoopKinds, NEW i \in DOMAIN c.laid
  PROVE  /\ c.laid[i].at \in Nat /\ c.laid[i].size \in Nat \ {0}
         /\ c.laid[i].head.len \in Nat /\ c.laid[i].head.extra \in Nat
         /\ c.laid[i].at = LaidFrom(c.kind, LaidEnd(c, i - 1), c.sector)
         /\ c.laid[i].size = LaidSize(c.kind, c.laid[i].head)
         /\ Writable(c, c.laid[i].head)
         /\ i \in 1 .. Len(c.laid) /\ Len(c.laid) \in Nat
  <1> DEFINE S == [at : Nat, size : Nat, head : Header]
  <1>1. /\ c.laid \in Seq(S)
        /\ c.laid[i].at = LaidFrom(c.kind, LaidEnd(c, i - 1), c.sector)
        /\ c.laid[i].size = LaidSize(c.kind, c.laid[i].head)
        /\ Writable(c, c.laid[i].head)
    BY DEF IsCall, IsLaid, LoopKinds
  <1>2. \A x \in S : x.at \in Nat /\ x.size \in Nat /\ x.head.len \in Nat /\ x.head.extra \in Nat
    BY DEF Header
  <1> HIDE DEF S
  <1>3. c.laid[i] \in S /\ i \in 1 .. Len(c.laid) /\ Len(c.laid) \in Nat
    BY <1>1
  <1> PICK h : h = c.laid[i].head
    OBVIOUS
  <1>4. h.len \in Nat /\ h.extra \in Nat
    BY <1>2, <1>3
  <1>5. h.len * StripeSize \in Nat
    BY <1>4, ProductIsNat, SizesAssumption
  <1>6. LaidSize(c.kind, h) # 0
    <2>1. /\ EntryHeader + h.len * StripeSize # 0 /\ DirPrefix + h.len + h.extra # 0
          /\ RefPrefix + h.len # 0 /\ LzoLen + h.len # 0
      <3>1. \A a \in Nat \ {0}, b, d \in Nat : a + b # 0 /\ a + b + d # 0
        OBVIOUS
      <3> QED BY <1>4, <1>5, <3>1, SizesAssumption
    <2> QED BY <2>1 DEF LaidSize, LoopKinds
  <1> QED BY <1>1, <1>2, <1>3, <1>6

(* Padding never moves a record back, and the LZO loop skips exactly the   *)
(* padding the writer left.                                                *)
LEMMA LaidFromForward ==
  ASSUME NEW kind, NEW p \in Nat, NEW s \in Nat, kind = "lzo" => LzoLen <= s
  PROVE  /\ LaidFrom(kind, p, s) \in Nat /\ LaidFrom(kind, p, s) >= p
         /\ kind # "lzo" => LaidFrom(kind, p, s) = p
         /\ kind = "lzo" => LaidFrom(kind, p, s) = Aligned(p, s)
  <1>1. CASE kind # "lzo"
    BY <1>1 DEF LaidFrom
  <1>2. CASE kind = "lzo"
    <2>1. s \in Nat \ {0} /\ LzoLen \in Nat
      BY <1>2, SizesAssumption
    <2>2. PICK r, q : r = p % s /\ q = p \div s
      OBVIOUS
    <2>3. r \in 0 .. s - 1 /\ q \in Nat /\ p = s * q + r
      BY <2>1, <2>2
    <2>4. s * q \in Nat /\ (q + 1) * s = s * q + s
      BY <2>1, <2>3, ProductIsNat
    <2>5. (q + 1) * s = p + (s - r)
      BY <2>1, <2>3, <2>4
    <2>6. LaidFrom(kind, p, s) = Aligned(p, s)
      BY <1>2, <2>1, <2>2, <2>3, <2>5 DEF LaidFrom, Aligned
    <2> QED BY <1>2, <2>1, <2>6, AlignedForward
  <1> QED BY <1>1, <1>2

(* The first i records end at an offset, and the next starts there or      *)
(* behind the padding.                                                     *)
LEMMA LaidEndLemma ==
  ASSUME NEW c, IsCall(c), c.kind \in LoopKinds, NEW i \in 0 .. Len(c.laid)
  PROVE  /\ LaidEnd(c, i) \in Nat
         /\ i < Len(c.laid) =>
              /\ i + 1 \in DOMAIN c.laid
              /\ c.laid[i + 1].at >= LaidEnd(c, i)
              /\ c.kind # "lzo" => c.laid[i + 1].at = LaidEnd(c, i)
              /\ c.kind = "lzo" => LzoLen <= c.sector /\ c.laid[i + 1].at = Aligned(LaidEnd(c, i), c.sector)
              /\ LaidEnd(c, i + 1) = c.laid[i + 1].at + c.laid[i + 1].size
  <1>1. c.laid \in Seq([at : Nat, size : Nat, head : Header]) /\ c.start \in Nat /\ c.sector \in Nat
    BY DEF IsCall, IsLaid, LoopKinds
  <1>2. Len(c.laid) \in Nat /\ DOMAIN c.laid = 1 .. Len(c.laid)
    BY <1>1
  <1>3. LaidEnd(c, i) \in Nat
    <2>1. CASE i = 0
      BY <1>1, <2>1 DEF LaidEnd
    <2>2. CASE i # 0
      <3>1. i \in DOMAIN c.laid
        BY <1>2, <2>2
      <3>2. c.laid[i].at \in Nat /\ c.laid[i].size \in Nat
        BY <3>1, LaidTyped
      <3> QED BY <2>2, <3>2 DEF LaidEnd
    <2> QED BY <2>1, <2>2
  <1>4. ASSUME i < Len(c.laid)
        PROVE  /\ i + 1 \in DOMAIN c.laid
               /\ c.laid[i + 1].at >= LaidEnd(c, i)
               /\ c.kind # "lzo" => c.laid[i + 1].at = LaidEnd(c, i)
               /\ c.kind = "lzo" => LzoLen <= c.sector /\ c.laid[i + 1].at = Aligned(LaidEnd(c, i), c.sector)
               /\ LaidEnd(c, i + 1) = c.laid[i + 1].at + c.laid[i + 1].size
    <2>1. i + 1 \in DOMAIN c.laid /\ (i + 1) - 1 = i /\ i + 1 # 0
      BY <1>2, <1>4
    <2>2. /\ c.laid[i + 1].at = LaidFrom(c.kind, LaidEnd(c, i), c.sector)
          /\ Writable(c, c.laid[i + 1].head)
      BY <2>1, LaidTyped
    <2>3. c.kind = "lzo" => LzoLen <= c.sector
      BY <2>2 DEF Writable
    <2>4. PICK p, t : p = LaidEnd(c, i) /\ t = c.sector
      OBVIOUS
    <2>5. /\ LaidFrom(c.kind, p, t) >= p
          /\ c.kind # "lzo" => LaidFrom(c.kind, p, t) = p
          /\ c.kind = "lzo" => LaidFrom(c.kind, p, t) = Aligned(p, t)
      <3>1. p \in Nat /\ t \in Nat /\ (c.kind = "lzo" => LzoLen <= t)
        BY <1>1, <1>3, <2>3, <2>4
      <3> QED BY <3>1, LaidFromForward
    <2>6. LaidEnd(c, i + 1) = c.laid[i + 1].at + c.laid[i + 1].size
      BY <2>1 DEF LaidEnd
    <2> QED BY <2>1, <2>2, <2>3, <2>4, <2>5, <2>6
  <1> QED BY <1>3, <1>4

(* A record ends before every later one starts. *)
LEMMA LaidApart ==
  ASSUME NEW c, IsCall(c), c.kind \in LoopKinds,
         NEW i \in DOMAIN c.laid, NEW j \in DOMAIN c.laid, i < j
  PROVE  c.laid[i].at + c.laid[i].size <= c.laid[j].at
  <1> DEFINE E == c.laid[i].at + c.laid[i].size
             Bad == {k \in DOMAIN c.laid : i < k /\ ~(E <= c.laid[k].at)}
  <1>1. Len(c.laid) \in Nat /\ DOMAIN c.laid = 1 .. Len(c.laid)
    <2>1. c.laid \in Seq([at : Nat, size : Nat, head : Header])
      BY DEF IsCall, IsLaid, LoopKinds
    <2> QED BY <2>1
  <1>2. E \in Nat
    BY LaidTyped
  <1> SUFFICES ASSUME Bad # {} PROVE FALSE
    OBVIOUS
  <1>3. PICK k \in Bad : \A y \in Bad : k <= y
    <2>1. Bad \in SUBSET Nat
      BY <1>1
    <2> HIDE DEF Bad
    <2> QED BY <2>1, LeastLemma
  <1>4. k \in DOMAIN c.laid /\ i < k /\ ~(E <= c.laid[k].at)
    BY <1>3
  <1>5. k - 1 \in DOMAIN c.laid /\ k - 1 \in 0 .. Len(c.laid) /\ k - 1 < Len(c.laid) /\ k - 1 # 0
        /\ (k - 1) + 1 = k /\ ~(k <= k - 1)
    BY <1>1, <1>4
  <1>6. c.laid[k].at >= LaidEnd(c, k - 1)
    BY <1>5, LaidEndLemma
  <1>7. LaidEnd(c, k - 1) = c.laid[k - 1].at + c.laid[k - 1].size
    BY <1>5 DEF LaidEnd
  <1>8. /\ c.laid[k - 1].at \in Nat /\ c.laid[k - 1].size \in Nat /\ c.laid[k].at \in Nat
    BY <1>4, <1>5, LaidTyped
  <1>9. CASE k - 1 = i
    BY <1>2, <1>4, <1>6, <1>7, <1>8, <1>9
  <1>10. CASE k - 1 # i
    <2>1. i < k - 1 /\ k - 1 \notin Bad
      BY <1>1, <1>3, <1>4, <1>5, <1>10
    <2>2. E <= c.laid[k - 1].at
      BY <1>5, <2>1
    <2> HIDE DEF E
    <2> QED BY <1>2, <1>4, <1>6, <1>7, <1>8, <2>2
  <1> QED BY <1>9, <1>10

(* At the place of an undamaged record the loop reads its header. *)
LEMMA HeaderRead ==
  ASSUME IsCall(call), call.kind \in LoopKinds, NEW i \in DOMAIN call.laid, i # call.damaged
  PROVE  HeadersAt(call.laid[i].at) = {call.laid[i].head}
  <1> DEFINE Laid == {j \in DOMAIN call.laid : call.laid[j].at = call.laid[i].at /\ j # call.damaged}
  <1>1. Len(call.laid) \in Nat /\ DOMAIN call.laid = 1 .. Len(call.laid)
    BY DEF IsCall, IsLaid, LoopKinds
  <1>2. ASSUME NEW j \in DOMAIN call.laid, j # i PROVE call.laid[j].at # call.laid[i].at
    <2>1. /\ call.laid[i].at \in Nat /\ call.laid[i].size \in Nat \ {0}
          /\ call.laid[j].at \in Nat /\ call.laid[j].size \in Nat \ {0}
      BY LaidTyped
    <2>2. CASE i < j
      <3>1. call.laid[i].at + call.laid[i].size <= call.laid[j].at
        BY <2>2, LaidApart
      <3> QED BY <2>1, <3>1
    <2>3. CASE j < i
      <3>1. call.laid[j].at + call.laid[j].size <= call.laid[i].at
        BY <2>3, LaidApart
      <3> QED BY <2>1, <3>1
    <2> QED BY <1>1, <1>2, <2>2, <2>3
  <1>3. Laid = {i}
    BY <1>2
  <1> QED BY <1>3 DEF HeadersAt
-----------------------------------------------------------------------------
(* WrittenIsReadBack speaks of finished loops.  While a loop runs, its     *)
(* cursor is at the end of the records it has read, as long as these are   *)
(* the intact ones, and behind all of those afterwards.                    *)
ReadInOrder ==
  \A i \in 1 .. Len(out) :
    i <= IntactCount => out[i].at = call.laid[i].at /\ out[i].size = call.laid[i].size

CursorAtNext ==
  status = "running" =>
    /\ Len(out) <= IntactCount => cur = LaidEnd(call, Len(out))
    /\ Len(out) >= IntactCount => cur >= LaidEnd(call, IntactCount)

WholeBuffer == call.damaged = 0 /\ Region <= AllLaidEnd /\ call.kind # "lzo"

ReadAll ==
  /\ status = "ok" => Len(out) >= IntactCount \/ (call.kind = "lzo" /\ produced = call.cap)
  /\ status = "err" => IntactCount < Len(call.laid) \/ Region > AllLaidEnd

ReadPart ==
  /\ call.kind \in LoopKinds =>
       /\ ReadInOrder
       /\ CursorAtNext
       /\ WholeBuffer => Len(out) <= IntactCount
       /\ ReadAll
  /\ status = "err" => call.kind = "lzo"

(* IntactCount is the length of the longest intact run from the start. *)
LEMMA IntactFacts ==
  ASSUME IsCall(call), call.kind \in LoopKinds
  PROVE  /\ IntactCount \in 0 .. Len(call.laid) /\ IntactCount \in Nat /\ Len(call.laid) \in Nat
         /\ Intact(IntactCount)
         /\ IntactCount < Len(call.laid) => ~Intact(IntactCount + 1)
  <1> DEFINE S == {k \in 0 .. Len(call.laid) : Intact(k)}
  <1>1. Len(call.laid) \in Nat
    <2>1. call.laid \in Seq([at : Nat, size : Nat, head : Header])
      BY DEF IsCall, IsLaid, LoopKinds
    <2> QED BY <2>1
  <1>2. 0 \in S
    BY <1>1 DEF Intact
  <1>3. S \in SUBSET (0 .. Len(call.laid)) /\ S # {} /\ IntactCount = Max(S)
    BY <1>2 DEF IntactCount
  <1>4. \A k \in 0 .. Len(call.laid) : k \in S <=> Intact(k)
    OBVIOUS
  <1> HIDE DEF S
  <1>5. IntactCount \in S /\ \A y \in S : y <= IntactCount
    BY <1>1, <1>3, GreatestLemma
  <1>6. IntactCount \in 0 .. Len(call.laid)
    BY <1>3, <1>5
  <1>7. ASSUME IntactCount < Len(call.laid) PROVE ~Intact(IntactCount + 1)
    <2>1. IntactCount + 1 \in 0 .. Len(call.laid) /\ ~(IntactCount + 1 <= IntactCount)
      BY <1>1, <1>6, <1>7
    <2> QED BY <1>4, <1>5, <2>1
  <1> QED BY <1>1, <1>4, <1>5, <1>6, <1>7

(* The first record that is not intact is damaged or not wholly there. *)
LEMMA FirstBroken ==
  ASSUME IsCall(call), call.kind \in LoopKinds, NEW n, n = IntactCount, n < Len(call.laid)
  PROVE  \/ n + 1 = call.damaged
         \/ ~(call.laid[n + 1].at + call.laid[n + 1].size <= Region)
  <1>1. n \in Nat /\ Intact(n) /\ ~Intact(n + 1)
    BY IntactFacts
  <1>2. PICK i \in 1 .. n + 1 :
          ~(i # call.damaged /\ call.laid[i].at + call.laid[i].size <= Region)
    BY <1>1 DEF Intact
  <1>3. i \notin 1 .. n
    BY <1>1, <1>2 DEF Intact
  <1>4. i = n + 1
    BY <1>1, <1>2, <1>3
  <1> QED BY <1>2, <1>4

(* A loop that has not yet read all intact records stands before the next  *)
(* one, and what it finds there is its header.                             *)
LEMMA NextIntact ==
  ASSUME FramingInv, ReadPart, status = "running", call.kind \in LoopKinds,
         NEW k, k = Len(out), k < IntactCount
  PROVE  /\ k \in 0 .. Len(call.laid) /\ k < Len(call.laid) /\ k + 1 \in DOMAIN call.laid
         /\ cur = LaidEnd(call, k)
         /\ call.laid[k + 1].at + call.laid[k + 1].size <= Region
         /\ HeadersAt(call.laid[k + 1].at) = {call.laid[k + 1].head}
  <1>1. IsCall(call) /\ k \in Nat
    BY DEF FramingInv, TypeOK
  <1>2. IntactCount \in 0 .. Len(call.laid) /\ Len(call.laid) \in Nat /\ Intact(IntactCount)
    BY <1>1, IntactFacts
  <1>3. k \in 0 .. Len(call.laid) /\ k < Len(call.laid) /\ k + 1 \in 1 .. IntactCount /\ k <= IntactCount
    BY <1>1, <1>2
  <1>4. cur = LaidEnd(call, k)
    BY <1>3 DEF ReadPart, CursorAtNext
  <1>5. k + 1 # call.damaged /\ call.laid[k + 1].at + call.laid[k + 1].size <= Region
    BY <1>2, <1>3 DEF Intact
  <1>6. k + 1 \in DOMAIN call.laid
    BY <1>1, <1>3, LaidEndLemma
  <1> QED BY <1>1, <1>3, <1>4, <1>5, <1>6, HeaderRead

(* What a call's intact records are does not change. *)
LEMMA FrozenCall ==
  ASSUME call' = call
  PROVE  /\ IntactCount' = IntactCount /\ Region' = Region /\ AllLaidEnd' = AllLaidEnd
         /\ \A i : LaidEnd(call, i)' = LaidEnd(call, i)
         /\ WholeBuffer' = WholeBuffer
  <1>1. Region' = Region
    BY DEF Region, ArrayEnd, Total, DeclaredTotal
  <1>2. \A k : Intact(k)' = Intact(k)
    BY <1>1 DEF Intact
  <1>3. IntactCount' = IntactCount
    BY <1>2 DEF IntactCount
  <1>4. AllLaidEnd' = AllLaidEnd
    BY DEF AllLaidEnd
  <1>5. WholeBuffer' = WholeBuffer
    BY <1>1, <1>4 DEF WholeBuffer
  <1> QED BY <1>1, <1>3, <1>4, <1>5

(* A turn of a loop that reads the next intact record, or that reads       *)
(* something else once there is none, keeps the invariant.                 *)
LEMMA PushReads ==
  ASSUME FramingInv, ReadPart, status = "running", call.kind \in LoopKinds,
         NEW at \in Nat, NEW size \in Nat, NEW next \in Nat, cur <= next,
         Push(at, size, next),
         Len(out) < IntactCount =>
           /\ at = call.laid[Len(out) + 1].at
           /\ size = call.laid[Len(out) + 1].size
           /\ next = LaidEnd(call, Len(out) + 1),
         WholeBuffer => Len(out) < IntactCount
  PROVE  ReadPart'
  <1> DEFINE r == [at |-> at, size |-> size]
  <1>1. /\ out \in Seq(Rec) /\ out' = Append(out, r) /\ r \in Rec
        /\ cur' = next /\ call' = call /\ status' = status /\ cur \in Nat
        /\ IsCall(call)
    BY DEF FramingInv, TypeOK, Push, Rec
  <1>2. PICK k : k = Len(out)
    OBVIOUS
  <1>3. /\ k \in Nat /\ Len(out') = k + 1
        /\ \A i \in 1 .. k : out'[i] = out[i]
        /\ out'[k + 1] = r
    BY <1>1, <1>2
  <1>4. /\ IntactCount' = IntactCount /\ Region' = Region /\ AllLaidEnd' = AllLaidEnd
        /\ \A i : LaidEnd(call, i)' = LaidEnd(call, i)
        /\ WholeBuffer' = WholeBuffer
    BY <1>1, FrozenCall
  <1>5. PICK n : n = IntactCount
    OBVIOUS
  <1>6. n \in Nat /\ n \in 0 .. Len(call.laid)
    BY <1>1, <1>5, IntactFacts
  <1>7. LaidEnd(call, n) \in Nat
    BY <1>1, <1>6, LaidEndLemma
  <1>8. ReadInOrder'
    <2> SUFFICES ASSUME NEW i \in 1 .. k + 1, i <= n
                 PROVE  out'[i].at = call.laid[i].at /\ out'[i].size = call.laid[i].size
      BY <1>1, <1>3, <1>4, <1>5 DEF ReadInOrder
    <2>1. CASE i \in 1 .. k
      BY <1>2, <1>3, <1>5, <2>1 DEF ReadPart, ReadInOrder
    <2>2. CASE i = k + 1
      BY <1>2, <1>3, <1>5, <1>6, <2>2
    <2> QED BY <1>3, <2>1, <2>2
  <1>9. CursorAtNext'
    <2> SUFFICES /\ k + 1 <= n => next = LaidEnd(call, k + 1)
                 /\ k + 1 >= n => next >= LaidEnd(call, n)
      BY <1>1, <1>3, <1>4, <1>5 DEF CursorAtNext
    <2>1. ASSUME k + 1 <= n PROVE next = LaidEnd(call, k + 1)
      BY <1>2, <1>3, <1>5, <1>6, <2>1
    <2>2. ASSUME k + 1 >= n PROVE next >= LaidEnd(call, n)
      <3>1. CASE k + 1 = n
        BY <1>7, <2>1, <3>1, <1>6
      <3>2. CASE k + 1 # n
        <4>1. k >= n
          BY <1>3, <1>6, <2>2, <3>2
        <4>2. cur >= LaidEnd(call, n)
          BY <1>2, <1>5, <4>1 DEF ReadPart, CursorAtNext
        <4> QED BY <1>1, <1>7, <4>2
      <3> QED BY <3>1, <3>2
    <2> QED BY <2>1, <2>2
  <1>10. (WholeBuffer => Len(out) <= IntactCount)'
    <2>1. k < n => k + 1 <= n
      BY <1>3, <1>6
    <2> QED BY <1>2, <1>3, <1>4, <1>5, <2>1
  <1>11. ReadAll' /\ status' # "err"
    BY <1>1 DEF ReadAll
  <1> QED BY <1>1, <1>8, <1>9, <1>10, <1>11 DEF ReadPart

(* Leaving a loop keeps the invariant when it leaves nothing unread. *)
LEMMA LeaveReads ==
  ASSUME ReadPart, status = "running", NEW result \in {"ok", "err"}, Leave(result),
         result = "ok" => Len(out) >= IntactCount \/ (call.kind = "lzo" /\ produced = call.cap),
         result = "err" =>
           call.kind = "lzo" /\ (IntactCount < Len(call.laid) \/ Region > AllLaidEnd)
  PROVE  ReadPart'
  <1>1. call' = call /\ out' = out /\ produced' = produced /\ cur' = cur /\ status' = result
    BY DEF Leave
  <1>2. /\ IntactCount' = IntactCount /\ Region' = Region /\ AllLaidEnd' = AllLaidEnd
        /\ WholeBuffer' = WholeBuffer
    BY <1>1, FrozenCall
  <1>3. CASE call.kind \in LoopKinds
    <2>1. ReadInOrder'
      BY <1>1, <1>2, <1>3 DEF ReadPart, ReadInOrder
    <2>2. CursorAtNext'
      BY <1>1 DEF CursorAtNext
    <2>3. (WholeBuffer => Len(out) <= IntactCount)'
      BY <1>1, <1>2, <1>3 DEF ReadPart
    <2>4. ReadAll'
      BY <1>1, <1>2 DEF ReadAll
    <2> QED BY <1>1, <2>1, <2>2, <2>3, <2>4 DEF ReadPart
  <1>4. CASE call.kind \notin LoopKinds
    BY <1>1, <1>4 DEF ReadPart
  <1> QED BY <1>3, <1>4

(* A buffer of packed records that ends with its last record, or inside a  *)
(* record, has no room for more than the intact ones.                      *)
LEMMA NoRoom ==
  ASSUME FramingInv, ReadPart, status = "running", call.kind \in LoopKinds, WholeBuffer,
         NEW h \in HeadersAt(cur), cur + LaidSize(call.kind, h) <= Region
  PROVE  Len(out) < IntactCount
  <1>1. IsCall(call) /\ cur \in Nat /\ Len(out) \in Nat
    BY DEF FramingInv, TypeOK
  <1>2. PICK n : n = IntactCount
    OBVIOUS
  <1>3. n \in Nat /\ n \in 0 .. Len(call.laid) /\ Len(call.laid) \in Nat /\ Len(out) <= n
    BY <1>1, <1>2, IntactFacts DEF ReadPart
  <1> SUFFICES ASSUME Len(out) = n PROVE FALSE
    BY <1>1, <1>2, <1>3
  <1>4. cur = LaidEnd(call, n)
    BY <1>2, <1>3 DEF ReadPart, CursorAtNext
  <1>5. h.len \in Nat /\ h.extra \in Nat
    BY <1>1, HeadersTyped
  <1>6. Region \in Nat /\ Region <= AllLaidEnd /\ call.damaged = 0 /\ call.kind # "lzo"
    BY <1>1, RegionTyped DEF WholeBuffer
  <1>7. CASE n < Len(call.laid)
    <2>1. n + 1 \in DOMAIN call.laid /\ call.laid[n + 1].at = cur
      BY <1>1, <1>3, <1>4, <1>6, <1>7, LaidEndLemma
    <2>2. n + 1 # call.damaged
      BY <1>3, <1>6
    <2>3. h = call.laid[n + 1].head
      BY <1>1, <2>1, <2>2, HeaderRead
    <2>4. call.laid[n + 1].size = LaidSize(call.kind, h)
      BY <1>1, <2>1, <2>3, LaidTyped
    <2> QED BY <1>1, <1>2, <1>7, <2>1, <2>2, <2>4, FirstBroken
  <1>8. CASE n = Len(call.laid)
    <2>1. Region <= cur
      BY <1>4, <1>6, <1>8 DEF AllLaidEnd
    <2>2. LaidSize(call.kind, h) \in Nat \ {0}
      <3>1. h.len * StripeSize \in Nat
        BY <1>5, ProductIsNat, SizesAssumption
      <3>2. \A a \in Nat \ {0}, b, d \in Nat : a + b \in Nat \ {0} /\ a + b + d \in Nat \ {0}
        OBVIOUS
      <3>3. /\ EntryHeader + h.len * StripeSize \in Nat \ {0}
            /\ DirPrefix + h.len + h.extra \in Nat \ {0}
            /\ RefPrefix + h.len \in Nat \ {0}
        BY <1>5, <3>1, <3>2, SizesAssumption
      <3> QED BY <1>6, <3>3 DEF LaidSize, LoopKinds
    <2> QED BY <1>1, <1>6, <2>1, <2>2
  <1> QED BY <1>3, <1>7, <1>8

(* Before the next intact record there is a header to read. *)
LEMMA PickHeader ==
  ASSUME FramingInv, ReadPart, status = "running", call.kind \in LoopKinds,
         Len(out) < IntactCount
  PROVE  HeadersAt(IF call.kind = "lzo" THEN HeaderPos ELSE cur) # {}
  <1>1. PICK k : k = Len(out)
    OBVIOUS
  <1>2. IsCall(call) /\ call.sector \in Nat
    BY DEF FramingInv, TypeOK, IsCall
  <1>3. /\ k \in 0 .. Len(call.laid) /\ k < Len(call.laid)
        /\ cur = LaidEnd(call, k)
        /\ HeadersAt(call.laid[k + 1].at) = {call.laid[k + 1].head}
    BY <1>1, NextIntact
  <1>4. CASE call.kind # "lzo"
    <2>1. call.laid[k + 1].at = cur
      BY <1>2, <1>3, <1>4, LaidEndLemma
    <2> QED BY <1>3, <1>4, <2>1
  <1>5. CASE call.kind = "lzo"
    <2>1. LzoLen <= call.sector /\ call.laid[k + 1].at = Aligned(cur, call.sector)
      BY <1>2, <1>3, <1>5, LaidEndLemma
    <2>2. SectorSize = call.sector
      BY <1>2, <2>1, SizesAssumption DEF SectorSize
    <2>3. call.laid[k + 1].at = HeaderPos
      BY <2>1, <2>2 DEF HeaderPos
    <2> QED BY <1>3, <1>5, <2>3
  <1> QED BY <1>4, <1>5

(* The loop over packed records: the next record is the intact one.        *)
LEMMA PackedFinds ==
  ASSUME FramingInv, ReadPart, status = "running", call.kind \in LoopKinds \ {"lzo"},
         Len(out) < IntactCount, NEW h \in HeadersAt(cur)
  PROVE  /\ call.laid[Len(out) + 1].at = cur
         /\ call.laid[Len(out) + 1].size = LaidSize(call.kind, h)
         /\ LaidEnd(call, Len(out) + 1) = cur + LaidSize(call.kind, h)
         /\ cur + LaidSize(call.kind, h) <= Region
         /\ Writable(call, h) /\ h.len \in Nat /\ h.extra \in Nat
  <1>1. PICK k : k = Len(out)
    OBVIOUS
  <1>2. IsCall(call) /\ call.kind \in LoopKinds /\ call.kind # "lzo"
    BY DEF FramingInv, TypeOK
  <1>3. /\ k \in 0 .. Len(call.laid) /\ k < Len(call.laid) /\ k + 1 \in DOMAIN call.laid
        /\ cur = LaidEnd(call, k)
        /\ call.laid[k + 1].at + call.laid[k + 1].size <= Region
        /\ HeadersAt(call.laid[k + 1].at) = {call.laid[k + 1].head}
    BY <1>1, <1>2, NextIntact
  <1>4. /\ call.laid[k + 1].at = cur
        /\ LaidEnd(call, k + 1) = call.laid[k + 1].at + call.laid[k + 1].size
    BY <1>2, <1>3, LaidEndLemma
  <1>5. h = call.laid[k + 1].head
    BY <1>3, <1>4
  <1>6. /\ call.laid[k + 1].size = LaidSize(call.kind, h) /\ Writable(call, h)
        /\ h.len \in Nat /\ h.extra \in Nat
    BY <1>2, <1>3, <1>5, LaidTyped
  <1> QED BY <1>1, <1>3, <1>4, <1>5, <1>6

(* A turn of the array, xattr or ref loop reads what was laid. *)
LEMMA PackedReads ==
  ASSUME FramingInv, ReadPart, status = "running", call.kind \in LoopKinds \ {"lzo"},
         NEW h \in HeadersAt(cur), NEW size \in Nat, size = LaidSize(call.kind, h),
         cur + size <= Region, Push(cur, size, cur + size)
  PROVE  ReadPart'
  <1>1. cur \in Nat /\ cur + size \in Nat /\ cur <= cur + size
    BY DEF FramingInv, TypeOK
  <1>2. Len(out) < IntactCount =>
          /\ cur = call.laid[Len(out) + 1].at
          /\ size = call.laid[Len(out) + 1].size
          /\ cur + size = LaidEnd(call, Len(out) + 1)
    BY PackedFinds
  <1>3. WholeBuffer => Len(out) < IntactCount
    BY NoRoom
  <1> QED BY <1>1, <1>2, <1>3, PushReads

(* parse_array. *)
LEMMA ArrayReads ==
  ASSUME FramingInv, ReadPart, ArrayEntry \/ ArrayStop
  PROVE  ReadPart'
  <1>1. /\ cur \in Nat /\ IsCall(call) /\ call.kind = "array" /\ status = "running"
        /\ call.kind \in LoopKinds /\ call.kind \in LoopKinds \ {"lzo"}
        /\ Len(out) \in Nat
    BY DEF FramingInv, TypeOK, ArrayEntry, ArrayStop, Running, LoopKinds
  <1>2. Region = ArrayEnd /\ Region \in Nat
    BY <1>1, RegionTyped
  <1>3. \A h \in HeadersAt(cur) : EntrySize(h) \in Nat /\ EntrySize(h) = LaidSize(call.kind, h)
                                  /\ EntrySize(h) >= EntryHeader
    <2> SUFFICES ASSUME NEW h \in HeadersAt(cur)
                 PROVE  EntrySize(h) \in Nat /\ EntrySize(h) = LaidSize(call.kind, h)
                        /\ EntrySize(h) >= EntryHeader
      OBVIOUS
    <2>1. h.len * StripeSize \in Nat /\ EntryHeader \in Nat
      BY <1>1, HeadersTyped, ProductIsNat, SizesAssumption
    <2> QED BY <1>1, <2>1 DEF EntrySize, LaidSize
  <1>4. CASE ArrayEntry
    <2>1. PICK h \in HeadersAt(cur) :
            cur + EntrySize(h) <= ArrayEnd /\ Push(cur, EntrySize(h), cur + EntrySize(h))
      BY <1>4 DEF ArrayEntry
    <2> QED BY <1>1, <1>2, <1>3, <2>1, PackedReads
  <1>5. CASE ArrayStop
    <2>1. Len(out) >= IntactCount
      <3> SUFFICES ASSUME Len(out) < IntactCount PROVE FALSE
        BY <1>1, IntactFacts
      <3>1. HeadersAt(cur) # {}
        BY <1>1, PickHeader
      <3>2. \A h \in HeadersAt(cur) : cur + EntrySize(h) <= ArrayEnd
        BY <1>1, <1>2, <1>3, PackedFinds
      <3>3. cur + EntryHeader <= ArrayEnd
        BY <1>1, <1>2, <1>3, <3>1, <3>2, SizesAssumption
      <3>4. ArrayEnd \in Nat
        BY <1>2
      <3> QED BY <1>1, <1>3, <1>5, <3>2, <3>3, <3>4, SizesAssumption DEF ArrayStop
    <2> QED BY <1>1, <1>5, <2>1, LeaveReads DEF ArrayStop
  <1> QED BY <1>4, <1>5

(* list_xattrs over one item. *)
LEMMA XattrReads ==
  ASSUME FramingInv, ReadPart, XattrRecord \/ XattrStop
  PROVE  ReadPart'
  <1>1. /\ cur \in Nat /\ IsCall(call) /\ call.kind = "xattr" /\ status = "running"
        /\ call.kind \in LoopKinds /\ call.kind \in LoopKinds \ {"lzo"}
        /\ Len(out) \in Nat
    BY DEF FramingInv, TypeOK, XattrRecord, XattrStop, Running, LoopKinds
  <1>2. Region = call.len /\ Region \in Nat
    BY <1>1, RegionTyped
  <1>3. \A h \in HeadersAt(cur) : XattrSize(h) \in Nat /\ XattrSize(h) = LaidSize(call.kind, h)
                                  /\ XattrSize(h) >= DirPrefix
    <2> SUFFICES ASSUME NEW h \in HeadersAt(cur)
                 PROVE  XattrSize(h) \in Nat /\ XattrSize(h) = LaidSize(call.kind, h)
                        /\ XattrSize(h) >= DirPrefix
      OBVIOUS
    <2>1. h.len \in Nat /\ h.extra \in Nat /\ DirPrefix \in Nat
      BY <1>1, HeadersTyped, SizesAssumption
    <2> QED BY <1>1, <2>1 DEF XattrSize, LaidSize
  <1>4. CASE XattrRecord
    <2>1. PICK h \in HeadersAt(cur) :
            WholeRecord(h, XattrSize(h)) /\ Push(cur, XattrSize(h), cur + XattrSize(h))
      BY <1>4 DEF XattrRecord
    <2> QED BY <1>1, <1>2, <1>3, <2>1, PackedReads DEF WholeRecord
  <1>5. CASE XattrStop
    <2>1. Len(out) >= IntactCount
      <3> SUFFICES ASSUME Len(out) < IntactCount PROVE FALSE
        BY <1>1, IntactFacts
      <3>1. HeadersAt(cur) # {}
        BY <1>1, PickHeader
      <3>2. \A h \in HeadersAt(cur) : WholeRecord(h, XattrSize(h)) /\ cur + XattrSize(h) <= call.len
        BY <1>1, <1>2, <1>3, PackedFinds DEF WholeRecord, Writable
      <3>3. cur + DirPrefix <= call.len
        BY <1>1, <1>2, <1>3, <3>1, <3>2, SizesAssumption
      <3> QED BY <1>1, <1>2, <1>5, <3>2, <3>3, SizesAssumption DEF XattrStop
    <2> QED BY <1>1, <1>5, <2>1, LeaveReads DEF XattrStop
  <1> QED BY <1>4, <1>5

(* list_inode_refs over one item. *)
LEMMA RefReads ==
  ASSUME FramingInv, ReadPart, RefRecord \/ RefStop
  PROVE  ReadPart'
  <1>1. /\ cur \in Nat /\ IsCall(call) /\ call.kind = "ref" /\ status = "running"
        /\ call.kind \in LoopKinds /\ call.kind \in LoopKinds \ {"lzo"}
        /\ Len(out) \in Nat
    BY DEF FramingInv, TypeOK, RefRecord, RefStop, Running, LoopKinds
  <1>2. Region = call.len /\ Region \in Nat
    BY <1>1, RegionTyped
  <1>3. \A h \in HeadersAt(cur) : RefSize(h) \in Nat /\ RefSize(h) = LaidSize(call.kind, h)
                                  /\ RefSize(h) >= RefPrefix
    <2> SUFFICES ASSUME NEW h \in HeadersAt(cur)
                 PROVE  RefSize(h) \in Nat /\ RefSize(h) = LaidSize(call.kind, h)
                        /\ RefSize(h) >= RefPrefix
      OBVIOUS
    <2>1. h.len \in Nat /\ RefPrefix \in Nat
      BY <1>1, HeadersTyped, SizesAssumption
    <2> QED BY <1>1, <2>1 DEF RefSize, LaidSize
  <1>4. CASE RefRecord
    <2>1. PICK h \in HeadersAt(cur) :
            WholeRecord(h, RefSize(h)) /\ Push(cur, RefSize(h), cur + RefSize(h))
      BY <1>4 DEF RefRecord
    <2> QED BY <1>1, <1>2, <1>3, <2>1, PackedReads DEF WholeRecord
  <1>5. CASE RefStop
    <2>1. Len(out) >= IntactCount
      <3> SUFFICES ASSUME Len(out) < IntactCount PROVE FALSE
        BY <1>1, IntactFacts
      <3>1. HeadersAt(cur) # {}
        BY <1>1, PickHeader
      <3>2. \A h \in HeadersAt(cur) : WholeRecord(h, RefSize(h)) /\ cur + RefSize(h) <= call.len
        BY <1>1, <1>2, <1>3, PackedFinds DEF WholeRecord, Writable
      <3>3. cur + RefPrefix <= call.len
        BY <1>1, <1>2, <1>3, <3>1, <3>2, SizesAssumption
      <3> QED BY <1>1, <1>2, <1>5, <3>2, <3>3, SizesAssumption DEF RefStop
    <2> QED BY <1>1, <1>5, <2>1, LeaveReads DEF RefStop
  <1> QED BY <1>4, <1>5

(* The LZO loop: the next segment is the intact one, whole, and decodes to *)
(* what was compressed.                                                    *)
LEMMA LzoFinds ==
  ASSUME FramingInv, ReadPart, status = "running", call.kind = "lzo",
         Len(out) < IntactCount, NEW h \in HeadersAt(HeaderPos)
  PROVE  /\ call.laid[Len(out) + 1].at = HeaderPos
         /\ call.laid[Len(out) + 1].size = LzoLen + h.len
         /\ LaidEnd(call, Len(out) + 1) = HeaderPos + LzoLen + h.len
         /\ HeaderPos + LzoLen + h.len <= Region
         /\ h.len \in Nat \ {0} /\ h.extra \in Nat /\ h.extra <= SectorSize
  <1>1. PICK k : k = Len(out)
    OBVIOUS
  <1>2. IsCall(call) /\ call.kind \in LoopKinds /\ call.sector \in Nat
    BY DEF FramingInv, TypeOK, IsCall, LoopKinds
  <1>3. /\ k \in 0 .. Len(call.laid) /\ k < Len(call.laid) /\ k + 1 \in DOMAIN call.laid
        /\ cur = LaidEnd(call, k)
        /\ call.laid[k + 1].at + call.laid[k + 1].size <= Region
        /\ HeadersAt(call.laid[k + 1].at) = {call.laid[k + 1].head}
    BY <1>1, <1>2, NextIntact
  <1>4. /\ LzoLen <= call.sector
        /\ call.laid[k + 1].at = Aligned(cur, call.sector)
        /\ LaidEnd(call, k + 1) = call.laid[k + 1].at + call.laid[k + 1].size
    BY <1>2, <1>3, LaidEndLemma
  <1>5. SectorSize = call.sector
    BY <1>2, <1>4, SizesAssumption DEF SectorSize
  <1>6. call.laid[k + 1].at = HeaderPos
    BY <1>4, <1>5 DEF HeaderPos
  <1>7. h = call.laid[k + 1].head
    BY <1>3, <1>6
  <1>8. /\ call.laid[k + 1].size = LaidSize(call.kind, h) /\ Writable(call, h)
        /\ h.len \in Nat /\ h.extra \in Nat /\ call.laid[k + 1].at \in Nat
    BY <1>2, <1>3, <1>7, LaidTyped
  <1>9. call.laid[k + 1].size = LzoLen + h.len
    BY <1>8 DEF LaidSize
  <1>10. HeaderPos + (LzoLen + h.len) = HeaderPos + LzoLen + h.len
    BY <1>6, <1>8, SizesAssumption
  <1> QED BY <1>1, <1>3, <1>4, <1>5, <1>6, <1>8, <1>9, <1>10 DEF Writable

(* decompress_lzo_btrfs. *)
LEMMA LzoReads ==
  ASSUME FramingInv, ReadPart, LzoSegment \/ LzoFails \/ LzoStop
  PROVE  ReadPart'
  <1>1. /\ cur \in Nat /\ IsCall(call) /\ call.kind = "lzo" /\ status = "running"
        /\ call.kind \in LoopKinds /\ Len(out) \in Nat
        /\ {call.len, call.cap, call.sector} \subseteq Nat /\ produced \in 0 .. call.cap
        /\ LzoLen \in Nat \ {0} /\ SegSlack \in Nat
    BY SizesAssumption
       DEF FramingInv, TypeOK, IsCall, LzoSegment, LzoFails, LzoStop, SegmentPending, Running, LoopKinds
  <1>2. /\ Region \in Nat /\ Total \in Nat /\ Region <= call.len /\ Region <= Total
        /\ Region = Least(Total, call.len)
    <2>1. Region \in Nat /\ Total \in Nat /\ Region = Least(Total, call.len)
      BY <1>1, RegionTyped
    <2> QED BY <1>1, <2>1 DEF Least
  <1>3. SectorSize \in Nat \ {0}
    BY <1>1 DEF SectorSize
  <1>4. HeaderPos \in Nat /\ HeaderPos >= cur
    BY <1>1, <1>3, AlignedForward DEF HeaderPos
  <1>5. \A h \in HeadersAt(HeaderPos) : h.len \in Nat /\ h.extra \in Nat
    BY <1>1, <1>4, HeadersTyped
  <1>6. ASSUME Len(out) < IntactCount, NEW h \in HeadersAt(HeaderPos)
        PROVE  /\ ~HeaderMissing /\ HeaderPos < Total
               /\ SegmentSize(h) = LzoLen + h.len
               /\ Decoded(h) = {h.extra} /\ h.extra # Failed /\ h.len # 0
    <2>1. /\ HeaderPos + LzoLen + h.len <= Region
          /\ h.len \in Nat \ {0} /\ h.extra \in Nat /\ h.extra <= SectorSize
      BY <1>1, <1>6, LzoFinds
    <2>2. ~HeaderMissing /\ HeaderPos < Total
      BY <1>1, <1>2, <1>4, <2>1 DEF HeaderMissing
    <2>3. SegmentSize(h) = LzoLen + h.len
      <3>1. LzoLen + h.len <= call.len - HeaderPos
        BY <1>1, <1>2, <1>4, <2>1
      <3>2. LzoLen + h.len \in Int /\ call.len - HeaderPos \in Int
        BY <1>1, <1>4, <2>1
      <3>3. \A a, b \in Int : a <= b => Least(a, b) = a
        BY DEF Least
      <3> QED BY <3>1, <3>2, <3>3 DEF SegmentSize
    <2>4. ~(h.extra > SectorSize + SegSlack) /\ ~(SegmentSize(h) < LzoLen + h.len)
      BY <1>1, <1>3, <2>1, <2>3
    <2> QED BY <2>1, <2>2, <2>3, <2>4 DEF Decoded, Failed
  <1>7. CASE LzoSegment
    <2>1. PICK h \in HeadersAt(HeaderPos) :
            Push(HeaderPos, SegmentSize(h), HeaderPos + LzoLen + h.len)
      BY <1>7 DEF LzoSegment
    <2>2. h.len \in Nat
      BY <1>5
    <2>3. ~HeaderMissing
      BY <1>7 DEF LzoSegment
    <2>4. SegmentSize(h) \in Nat /\ HeaderPos + LzoLen + h.len \in Nat
          /\ cur <= HeaderPos + LzoLen + h.len
      BY <1>1, <1>4, <2>2, <2>3 DEF SegmentSize, Least, HeaderMissing
    <2>5. Len(out) < IntactCount =>
            /\ HeaderPos = call.laid[Len(out) + 1].at
            /\ SegmentSize(h) = call.laid[Len(out) + 1].size
            /\ HeaderPos + LzoLen + h.len = LaidEnd(call, Len(out) + 1)
      BY <1>1, <1>6, LzoFinds
    <2>6. ~WholeBuffer
      BY <1>1 DEF WholeBuffer
    <2> QED BY <1>1, <1>4, <2>1, <2>4, <2>5, <2>6, PushReads
  <1>8. CASE LzoFails
    <2>1. PICK h \in HeadersAt(HeaderPos) : h.len # 0 /\ Failed \in Decoded(h)
      BY <1>8 DEF LzoFails
    <2>2. ~(Len(out) < IntactCount)
      BY <1>6, <2>1
    <2>3. PICK n : n = IntactCount
      OBVIOUS
    <2>4. n \in 0 .. Len(call.laid) /\ n \in Nat /\ Len(call.laid) \in Nat
      BY <1>1, <2>3, IntactFacts
    <2>5. n < Len(call.laid) \/ Region > AllLaidEnd
      <3> SUFFICES ASSUME n = Len(call.laid), ~(Region > AllLaidEnd) PROVE FALSE
        BY <2>4
      <3>1. Len(out) >= n
        BY <1>1, <2>2, <2>3, <2>4
      <3>2. cur >= AllLaidEnd
        BY <1>1, <2>3, <3>1 DEF ReadPart, CursorAtNext, AllLaidEnd
      <3>3. AllLaidEnd \in Nat
        BY <1>1, <2>4, LaidEndLemma DEF AllLaidEnd
      <3>4. cur >= Region
        BY <1>1, <1>2, <3>2, <3>3
      <3>5. cur < Total /\ ~HeaderMissing
        BY <1>8 DEF LzoFails, SegmentPending
      <3>6. cur >= call.len
        BY <1>1, <1>2, <3>4, <3>5 DEF Least
      <3>7. HeaderPos + LzoLen > call.len
        BY <1>1, <1>4, <3>6
      <3> QED BY <3>5, <3>7 DEF HeaderMissing
    <2> QED BY <1>1, <1>8, <2>3, <2>5, LeaveReads DEF LzoFails
  <1>9. CASE LzoStop
    <2>1. Len(out) >= IntactCount \/ produced = call.cap
      <3> SUFFICES ASSUME Len(out) < IntactCount, produced # call.cap PROVE FALSE
        BY <1>1, IntactFacts
      <3>1. HeadersAt(HeaderPos) # {}
        BY <1>1, PickHeader
      <3>2. PICK h0 \in HeadersAt(HeaderPos) : TRUE
        BY <3>1
      <3>3. ~HeaderMissing /\ HeaderPos < Total
        BY <1>6, <3>2
      <3>4. SegmentPending
        BY <1>1, <1>2, <1>4, <3>3 DEF SegmentPending, Running
      <3>5. \A h \in HeadersAt(HeaderPos) : h.len # 0
        BY <1>6
      <3> QED BY <1>9, <3>3, <3>4, <3>5 DEF LzoStop
    <2> QED BY <1>1, <1>9, <2>1, LeaveReads DEF LzoStop
  <1> QED BY <1>7, <1>8, <1>9

(* The counted tables have no part in it. *)
LEMMA FixedReads ==
  ASSUME Fixed
  PROVE  ReadPart'
  BY DEF Fixed, FixedSize, ReadPart, LoopKinds

(* Every turn of every loop reads what was laid. *)
LEMMA StepReads ==
  FramingInv /\ ReadPart /\ [Next]_vars => ReadPart'
  <1> SUFFICES ASSUME FramingInv, ReadPart, [Next]_vars
               PROVE  ReadPart'
    OBVIOUS
  <1>1. CASE ArrayEntry \/ ArrayStop
    BY <1>1, ArrayReads
  <1>2. CASE XattrRecord \/ XattrStop
    BY <1>2, XattrReads
  <1>3. CASE RefRecord \/ RefStop
    BY <1>3, RefReads
  <1>4. CASE Fixed
    BY <1>4, FixedReads
  <1>5. CASE LzoSegment \/ LzoFails \/ LzoStop
    BY <1>5, LzoReads
  <1>6. CASE UNCHANGED vars
    <2>1. call' = call /\ out' = out /\ produced' = produced /\ cur' = cur /\ status' = status
      BY <1>6 DEF vars
    <2>2. /\ IntactCount' = IntactCount /\ Region' = Region /\ AllLaidEnd' = AllLaidEnd
          /\ \A i : LaidEnd(call, i)' = LaidEnd(call, i)
          /\ WholeBuffer' = WholeBuffer
      BY <2>1, FrozenCall
    <2> QED BY <2>1, <2>2 DEF ReadPart, ReadInOrder, CursorAtNext, ReadAll
  <1> QED BY <1>1, <1>2, <1>3, <1>4, <1>5, <1>6 DEF Next

(* No loop has read anything yet. *)
LEMMA ReadsFromStart == Init => ReadPart
  <1> SUFFICES ASSUME Init PROVE ReadPart
    OBVIOUS
  <1>1. IsCall(call) /\ out = <<>> /\ Len(out) = 0 /\ cur = call.start /\ status = "running"
    BY CallsAssumption DEF Init
  <1>2. ASSUME call.kind \in LoopKinds
        PROVE  ReadInOrder /\ CursorAtNext /\ Len(out) <= IntactCount
    <2>1. IntactCount \in Nat
      BY <1>1, <1>2, IntactFacts
    <2>2. call.start \in Nat /\ LaidEnd(call, 0) = call.start
      BY <1>1 DEF IsCall, LaidEnd
    <2>3. ReadInOrder
      BY <1>1 DEF ReadInOrder
    <2>4. 0 >= IntactCount => IntactCount = 0
      BY <2>1
    <2>5. CursorAtNext
      BY <1>1, <2>2, <2>4 DEF CursorAtNext
    <2> QED BY <1>1, <2>1, <2>3, <2>5
  <1> QED BY <1>1, <1>2 DEF ReadPart, ReadAll

(* For every buffer, every record length and every damaged header,         *)
(* parse_array, list_xattrs, list_inode_refs and the LZO loop read back    *)
(* each record that stands in front of the first damaged or cut one, at    *)
(* its place; add none to an undamaged buffer; and fail on no whole frame. *)
THEOREM WrittenComesBack == Spec => []WrittenIsReadBack
  <1>1. FramingInv /\ ReadPart => WrittenIsReadBack
    <2> SUFFICES ASSUME FramingInv, ReadPart PROVE WrittenIsReadBack
      OBVIOUS
    <2>1. IsCall(call) /\ Len(out) \in Nat
      BY DEF FramingInv, TypeOK
    <2>2. call.kind \in LoopKinds \/ call.kind \in DOMAIN FixedSize
      BY <2>1 DEF IsCall, Kinds, LoopKinds, FixedSize
    <2>3. CASE call.kind \in LoopKinds
      <3>1. IntactCount \in Nat
        BY <2>1, <2>3, IntactFacts
      <3>2. ASSUME status = "ok"
            PROVE  /\ Len(out) >= IntactCount \/ (call.kind = "lzo" /\ produced = call.cap)
                   /\ WholeBuffer => Len(out) = IntactCount
        BY <2>1, <2>3, <3>1, <3>2 DEF ReadPart, ReadAll, WholeBuffer
      <3>3. \A i \in 1 .. Least(Len(out), IntactCount) :
              out[i].at = call.laid[i].at /\ out[i].size = call.laid[i].size
        <4>1. \A i \in 1 .. Least(Len(out), IntactCount) : i \in 1 .. Len(out) /\ i <= IntactCount
          BY <2>1, <3>1 DEF Least
        <4> QED BY <2>3, <4>1 DEF ReadPart, ReadInOrder
      <3>4. status = "err" => IntactCount < Len(call.laid) \/ Region > AllLaidEnd
        BY <2>3 DEF ReadPart, ReadAll
      <3> QED BY <3>2, <3>3, <3>4 DEF WrittenIsReadBack, WholeBuffer
    <2>4. CASE call.kind \in DOMAIN FixedSize
      BY <2>4 DEF ReadPart, WrittenIsReadBack, FixedSize
    <2> QED BY <2>2, <2>3, <2>4
  <1> QED BY <1>1, InvHolds, ReadsFromStart, StepReads, PTL DEF Spec

-----------------------------------------------------------------------------
(* That the loops end follows, with their fairness, from this: call.len    *)
(* minus the cursor is a number that every turn but the last lowers.       *)
TurnAdvances ==
  status = "running" /\ status' = "running" => cur < call.len /\ cur < cur'

(* No header makes a turn of a loop that neither ends it nor moves the     *)
(* cursor on, from inside the buffer: a buffer of n bytes costs at most    *)
(* n + 1 turns, zero lengths and lengths past the end included.            *)
THEOREM TurnsAreBounded == Spec => [][TurnAdvances]_vars
  <1>1. FramingInv /\ [Next]_vars => [TurnAdvances]_vars
    <2> SUFFICES ASSUME FramingInv, Next, status = "running", status' = "running"
                 PROVE  cur < call.len /\ cur < cur'
      BY DEF TurnAdvances
    <2>1. IsCall(call) /\ cur \in Nat /\ call.len \in Nat /\ call.start \in Nat /\ call.declared \in Nat
      BY DEF FramingInv, TypeOK, IsCall
    <2>2. \A a \in Nat \ {0}, b, d, p \in Nat :
            /\ a + b \in Nat \ {0} /\ a + b + d \in Nat \ {0}
            /\ p + (a + b) <= call.len => p < call.len /\ p < p + (a + b)
            /\ p + (a + b + d) <= call.len => p < call.len /\ p < p + (a + b + d)
      BY <2>1
    <2>3. CASE ArrayEntry
      <3>1. PICK h \in HeadersAt(cur) :
              cur + EntrySize(h) <= ArrayEnd /\ Push(cur, EntrySize(h), cur + EntrySize(h))
        BY <2>3 DEF ArrayEntry
      <3>2. h.len \in Nat
        BY <2>1, <2>3, HeadersTyped DEF ArrayEntry, Running, LoopKinds
      <3>3. h.len * StripeSize \in Nat /\ EntryHeader \in Nat \ {0}
        BY <3>2, ProductIsNat, SizesAssumption
      <3>4. EntrySize(h) \in Nat
        BY <2>2, <3>3 DEF EntrySize
      <3>5. cur + EntrySize(h) <= call.len
        BY <2>1, <3>1, <3>4 DEF ArrayEnd, Least
      <3> QED BY <2>1, <2>2, <3>1, <3>3, <3>5 DEF EntrySize, Push
    <2>4. CASE XattrRecord
      <3>1. PICK h \in HeadersAt(cur) :
              WholeRecord(h, XattrSize(h)) /\ Push(cur, XattrSize(h), cur + XattrSize(h))
        BY <2>4 DEF XattrRecord
      <3>2. h.len \in Nat /\ h.extra \in Nat /\ DirPrefix \in Nat \ {0}
        BY <2>1, <2>4, HeadersTyped, SizesAssumption DEF XattrRecord, Running, LoopKinds
      <3> QED BY <2>1, <2>2, <3>1, <3>2 DEF XattrSize, WholeRecord, Push
    <2>5. CASE RefRecord
      <3>1. PICK h \in HeadersAt(cur) :
              WholeRecord(h, RefSize(h)) /\ Push(cur, RefSize(h), cur + RefSize(h))
        BY <2>5 DEF RefRecord
      <3>2. h.len \in Nat /\ RefPrefix \in Nat \ {0}
        BY <2>1, <2>5, HeadersTyped, SizesAssumption DEF RefRecord, Running, LoopKinds
      <3> QED BY <2>1, <2>2, <3>1, <3>2 DEF RefSize, WholeRecord, Push
    <2>6. CASE LzoSegment
      <3>1. SectorSize \in Nat \ {0} /\ call.kind = "lzo"
        BY <2>1, <2>6 DEF SectorSize, IsCall, LzoSegment, SegmentPending, Running
      <3>2. HeaderPos \in Nat /\ HeaderPos >= cur
        BY <2>1, <3>1, AlignedForward DEF HeaderPos
      <3>3. PICK h \in HeadersAt(HeaderPos) : Push(HeaderPos, SegmentSize(h), HeaderPos + LzoLen + h.len)
        BY <2>6 DEF LzoSegment
      <3>4. h.len \in Nat /\ LzoLen \in Nat \ {0}
        BY <2>1, <3>1, <3>2, HeadersTyped, SizesAssumption DEF LoopKinds
      <3>5. HeaderPos + LzoLen <= call.len
        BY <2>1, <2>6, <3>2, <3>4 DEF LzoSegment, HeaderMissing
      <3>6. cur' = HeaderPos + LzoLen + h.len
        BY <3>3 DEF Push
      <3> QED BY <2>1, <3>2, <3>4, <3>5, <3>6
    <2> QED
      BY <2>3, <2>4, <2>5, <2>6
         DEF Next, ArrayStop, XattrStop, RefStop, Fixed, LzoFails, LzoStop, Leave
  <1> QED BY <1>1, InvHolds, PTL DEF Spec
=============================================================================
