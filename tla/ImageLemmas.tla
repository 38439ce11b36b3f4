------------------------------ MODULE ImageLemmas ------------------------------
(* Facts about stacks and about BtrfsImage's lookups that the proofs use.   *)
EXTENDS BtrfsImage, Reachability, SequenceTheorems, WellFoundedInduction, TLAPS

(* What the Vec operations of the walks do to the set of addresses a       *)
(* sequence holds, and what Reachable owes to its definition.              *)

(* Popping takes the last element and leaves the others (Vec::pop). *)
LEMMA PopLemma ==
  ASSUME NEW A, NEW s \in Seq(A), s # <<>>
  PROVE  /\ Len(s) \in Nat \ {0}
         /\ s[Len(s)] \in A
         /\ SubSeq(s, 1, Len(s) - 1) \in Seq(A)
         /\ Len(SubSeq(s, 1, Len(s) - 1)) = Len(s) - 1
         /\ Range(s) = Range(SubSeq(s, 1, Len(s) - 1)) \cup {s[Len(s)]}
  <1> DEFINE t == SubSeq(s, 1, Len(s) - 1)
  <1>1. Len(s) \in Nat \ {0} /\ s[Len(s)] \in A
    OBVIOUS
  <1>a. \A i \in 1 .. Len(s) - 1 : s[i] \in A
    BY <1>1
  <1>b. /\ t \in Seq(A)
        /\ Len(t) = IF 1 <= Len(s) - 1 THEN (Len(s) - 1) - 1 + 1 ELSE 0
        /\ \A i \in 1 .. (Len(s) - 1) - 1 + 1 : t[i] = s[1 + i - 1]
    BY <1>1, <1>a, SubSeqProperties
  <1> HIDE DEF t
  <1>c. Len(t) = Len(s) - 1
    <2>1. \A n \in Nat \ {0} : (IF 1 <= n - 1 THEN (n - 1) - 1 + 1 ELSE 0) = n - 1
      OBVIOUS
    <2> QED
      BY <1>1, <1>b, <2>1
  <1>d. ASSUME NEW i \in 1 .. Len(t) PROVE t[i] = s[i]
    <2>1. i \in 1 .. (Len(s) - 1) - 1 + 1 /\ 1 + i - 1 = i
      BY <1>1, <1>c
    <2>2. t[i] = s[1 + i - 1]
      BY <1>b, <2>1
    <2> QED
      BY <2>1, <2>2
  <1>2. t \in Seq(A) /\ Len(t) = Len(s) - 1 /\ \A i \in 1 .. Len(t) : t[i] = s[i]
    BY <1>b, <1>c, <1>d
  <1>3. Range(s) = {s[i] : i \in 1 .. Len(s)} /\ Range(t) = {t[i] : i \in 1 .. Len(t)}
    BY <1>2, RangeEquality
  <1>4. 1 .. Len(s) = (1 .. Len(t)) \cup {Len(s)}
    BY <1>1, <1>2
  <1>5. Range(s) = Range(t) \cup {s[Len(s)]}
    BY <1>2, <1>3, <1>4
  <1> QED
    BY <1>1, <1>2, <1>5 DEF t

(* Pushing adds one element (Vec::push). *)
LEMMA PushLemma ==
  ASSUME NEW A, NEW s \in Seq(A), NEW x \in A
  PROVE  /\ Append(s, x) \in Seq(A)
         /\ Range(Append(s, x)) = Range(s) \cup {x}
  <1> DEFINE t == Append(s, x)
  <1>1. t \in Seq(A) /\ Len(t) = Len(s) + 1 /\ t[Len(t)] = x
        /\ \A i \in 1 .. Len(s) : t[i] = s[i]
    OBVIOUS
  <1>2. Range(s) = {s[i] : i \in 1 .. Len(s)} /\ Range(t) = {t[i] : i \in 1 .. Len(t)}
    BY <1>1, RangeEquality
  <1>3. 1 .. Len(t) = (1 .. Len(s)) \cup {Len(t)}
    BY <1>1
  <1> HIDE DEF t
  <1>4. Range(t) = Range(s) \cup {x}
    BY <1>1, <1>2, <1>3
  <1> QED
    BY <1>1, <1>4 DEF t

(* Iterating over a sequence takes its head and leaves the tail. *)
LEMMA TakeLemma ==
  ASSUME NEW A, NEW s \in Seq(A), s # <<>>
  PROVE  /\ Head(s) \in A
         /\ Tail(s) \in Seq(A)
         /\ Range(s) = {Head(s)} \cup Range(Tail(s))
  <1> DEFINE t == Tail(s)
  <1>1. Head(s) \in A /\ Head(s) = s[1] /\ t \in Seq(A) /\ Len(t) = Len(s) - 1
        /\ Len(s) \in Nat \ {0} /\ \A i \in 1 .. Len(t) : t[i] = s[i + 1]
    OBVIOUS
  <1>2. Range(s) = {s[i] : i \in 1 .. Len(s)} /\ Range(t) = {t[i] : i \in 1 .. Len(t)}
    BY <1>1, RangeEquality
  <1>3. \A i \in 1 .. Len(s) : i = 1 \/ (i - 1 \in 1 .. Len(t) /\ t[i - 1] = s[i])
    BY <1>1
  <1>4. \A i \in 1 .. Len(t) : i + 1 \in 1 .. Len(s) /\ t[i] = s[i + 1]
    BY <1>1
  <1>5. 1 \in 1 .. Len(s)
    BY <1>1
  <1> HIDE DEF t
  <1>6. Range(s) = {s[1]} \cup Range(t)
    BY <1>2, <1>3, <1>4, <1>5
  <1> QED
    BY <1>1, <1>6 DEF t

(* Appending one vector to another (Vec::extend). *)
LEMMA ExtendLemma ==
  ASSUME NEW A, NEW s \in Seq(A), NEW t \in Seq(A)
  PROVE  /\ s \o t \in Seq(A)
         /\ Range(s \o t) = Range(s) \cup Range(t)
  BY RangeConcatenation

(* The elements of a sequence over A are in A; only <<>> has none. *)
LEMMA RangeLemma ==
  ASSUME NEW A, NEW s \in Seq(A)
  PROVE  Range(s) \subseteq A /\ (s = <<>> <=> Range(s) = {})
  <1>1. Range(s) = {s[i] : i \in 1 .. Len(s)} /\ Range(s) \subseteq A
    BY RangeEquality, RangeOfSeq
  <1>2. CASE s = <<>>
    BY <1>1, <1>2
  <1>3. CASE s # <<>>
    <2>1. 1 \in 1 .. Len(s)
      BY <1>3
    <2> QED
      BY <1>1, <1>3, <2>1
  <1> QED
    BY <1>2, <1>3

(* A closed set holds everything reachable. *)
LEMMA ReachableLeast ==
  ASSUME NEW U, NEW roots, NEW edges, NEW S \in SUBSET U, Closed(S, roots, edges)
  PROVE  Reachable(U, roots, edges) \subseteq S
  BY DEF Reachable

(* What is reachable holds the roots and follows every edge: with          *)
(* ReachableLeast, it is the least closed set.                             *)
LEMMA ReachableClosed ==
  ASSUME NEW U, NEW roots \in SUBSET U, NEW edges \in SUBSET (U \X U)
  PROVE  /\ Reachable(U, roots, edges) \in SUBSET U
         /\ Closed(Reachable(U, roots, edges), roots, edges)
  BY DEF Reachable, Closed

-----------------------------------------------------------------------------
(* The lookups.                                                            *)

(* The order of the naturals, as a set of pairs, has no infinite descent. *)
LEMMA LessThanWellFounded == IsWellFoundedOn({p \in Nat \X Nat : p[1] < p[2]}, Nat)
  BY NatLessThanWellFounded, Zenon DEF OpToRel

(* A non-empty set of naturals has a least element: the first entry of a   *)
(* search exists.                                                          *)
LEMMA MinLemma ==
  ASSUME NEW S \in SUBSET Nat, S # {}
  PROVE  Min(S) \in S /\ \A y \in S : Min(S) <= y
  <1> DEFINE R == {p \in Nat \X Nat : p[1] < p[2]}
  <1>1. IsWellFoundedOn(R, Nat)
    BY LessThanWellFounded
  <1>2. \A x, y \in Nat : y < x => <<y, x>> \in R
    OBVIOUS
  <1> HIDE DEF R
  <1>3. PICK x \in S : \A y \in S : ~(<<y, x>> \in R)
    BY <1>1, WFMin
  <1>4. ASSUME NEW y \in S PROVE x <= y
    <2>1. x \in Nat /\ y \in Nat
      OBVIOUS
    <2>2. ~(y < x)
      BY <1>2, <1>3, <2>1
    <2> QED
      BY <2>1, <2>2
  <1> QED
    BY <1>4 DEF Min

(* FirstStripe and SysChunkLookup answer an address or None. *)
LEMMA SysChunkType ==
  ASSUME NEW c \in Chunk, NEW l \in Addr
  PROVE  /\ SysChunkLookup(c, l) \in Addr \cup {None}
         /\ Covers(c, l) => FirstStripe(c, l) \in Addr \cup {None}
  <1>1. /\ MaxU64 \in Nat
        /\ c.logical_start \in Addr
        /\ c.length \in Addr
        /\ c.stripes \in Seq(Addr)
        /\ l \in Nat
    BY WidthAssumption DEF Chunk, Addr
  <1>2. ASSUME Covers(c, l) PROVE FirstStripe(c, l) \in Addr \cup {None}
    <2>1. CASE c.stripes = <<>>
      BY <2>1 DEF FirstStripe
    <2>2. CASE c.stripes # <<>>
      <3>1. c.stripes[1] \in Addr
        BY <1>1, <2>2
      <3>2. l - c.logical_start \in Nat
        BY <1>1, <1>2 DEF Covers, Addr
      <3> QED
        BY <1>1, <2>2, <3>1, <3>2 DEF FirstStripe, CheckedAdd, Addr
    <2> QED
      BY <2>1, <2>2
  <1> QED
    BY <1>2 DEF SysChunkLookup

(* So does a lookup in a whole chunk map, where the first entry that       *)
(* covers the address decides.                                             *)
LEMMA MapLookupFirst ==
  ASSUME NEW m \in Seq(Chunk), NEW l \in Addr, MapLookup(m, l) # None
  PROVE  \E i \in DOMAIN m :
           /\ MapLookup(m, l) = SysChunkLookup(m[i], l)
           /\ Covers(m[i], l) /\ ~Overflows(m[i])
           /\ \A j \in DOMAIN m : j < i => ~Covers(m[j], l) /\ ~Overflows(m[j])
  <1> DEFINE Stops == {i \in DOMAIN m : Overflows(m[i]) \/ Covers(m[i], l)}
             k == Min(Stops)
  <1>1. DOMAIN m \subseteq Nat
    OBVIOUS
  <1>2. Stops # {} /\ ~Overflows(m[k]) /\ MapLookup(m, l) = FirstStripe(m[k], l)
    BY DEF MapLookup
  <1>3. k \in Stops /\ \A j \in Stops : k <= j
    BY <1>1, <1>2, MinLemma
  <1>4. k \in DOMAIN m /\ Covers(m[k], l)
    BY <1>2, <1>3
  <1> HIDE DEF k
  <1>5. \A j \in DOMAIN m : j < k => j \notin Stops
    <2> HIDE DEF Stops
    <2> QED
      BY <1>1, <1>3, <1>4
  <1>6. MapLookup(m, l) = SysChunkLookup(m[k], l)
    BY <1>2, <1>4 DEF SysChunkLookup
  <1> QED
    BY <1>2, <1>4, <1>5, <1>6 DEF k

(* ChunkMap::logical_to_physical answers None or an address. *)
LEMMA MapLookupType ==
  ASSUME NEW m \in Seq(Chunk), NEW l \in Addr
  PROVE  MapLookup(m, l) \in Addr \cup {None}
  <1>1. CASE MapLookup(m, l) = None
    BY <1>1
  <1>2. CASE MapLookup(m, l) # None
    <2>1. PICK i \in DOMAIN m : MapLookup(m, l) = SysChunkLookup(m[i], l)
      BY <1>2, MapLookupFirst
    <2>2. m[i] \in Chunk
      OBVIOUS
    <2> QED
      BY <2>1, <2>2, SysChunkType
  <1> QED
    BY <1>1, <1>2

(* The fallback of read_node (find_map over the sys_chunk_array) agrees    *)
(* with the bootstrap ChunkMap of walk wherever the latter answers.        *)
LEMMA FallbackAgrees ==
  ASSUME NEW m \in Seq(Chunk), NEW l \in Addr, MapLookup(m, l) # None
  PROVE  SysLookup(m, l) = MapLookup(m, l)
  <1> DEFINE Hits == {i \in DOMAIN m : SysChunkLookup(m[i], l) # None}
  <1>1. PICK i \in DOMAIN m :
           /\ MapLookup(m, l) = SysChunkLookup(m[i], l)
           /\ \A j \in DOMAIN m : j < i => ~Covers(m[j], l)
    BY MapLookupFirst
  <1>2. i \in Hits /\ DOMAIN m \subseteq Nat
    BY <1>1
  <1>3. Min(Hits) \in Hits /\ \A j \in Hits : Min(Hits) <= j
    BY <1>2, MinLemma
  <1>4. ASSUME NEW j \in Hits PROVE ~(j < i)
    BY <1>1 DEF SysChunkLookup
  <1>5. Min(Hits) = i
    <2>1. Min(Hits) <= i /\ ~(Min(Hits) < i)
      BY <1>2, <1>3, <1>4
    <2> QED
      BY <1>2, <1>3, <2>1
  <1> QED
    BY <1>1, <1>2, <1>5 DEF SysLookup

(* The search of the sys_chunk_array in read_node answers None or an       *)
(* address.                                                                *)
LEMMA SysLookupType ==
  ASSUME NEW m \in Seq(Chunk), NEW l \in Addr
  PROVE  SysLookup(m, l) \in Addr \cup {None}
  <1> DEFINE Hits == {i \in DOMAIN m : SysChunkLookup(m[i], l) # None}
  <1>1. CASE Hits = {}
    BY <1>1 DEF SysLookup
  <1>2. CASE Hits # {}
    <2>1. Min(Hits) \in Hits
      BY <1>2, MinLemma
    <2>2. m[Min(Hits)] \in Chunk
      BY <2>1
    <2> QED
      BY <1>2, <2>2, SysChunkType DEF SysLookup
  <1> QED
    BY <1>1, <1>2

(* Whatever read_node returns is a node of the image. *)
LEMMA ReadableNode ==
  ASSUME NEW img, IsImage(img), NEW m \in Seq(Chunk), NEW l \in Addr, Readable(img, m, l)
  PROVE  /\ Translate(img, m, l) \in 0 .. img.len
         /\ IsNode(NodeAt(img, m, l))
         /\ key_ptrs(NodeAt(img, m, l)) \in Seq(Addr)
         /\ chunk_items(NodeAt(img, m, l)) \in Seq(Chunk)
  <1>1. img.sb.sys_chunks \in Seq(Chunk) /\ img.len \in Nat /\ img.sb.nodesize \in Nat
    BY DEF IsImage, IsSuperblock
  <1>2. Translate(img, m, l) \in Addr
    BY <1>1, MapLookupType, SysLookupType DEF Translate, Readable
  <1>3. Translate(img, m, l) \in 0 .. img.len
    BY <1>1, <1>2, WidthAssumption DEF Readable, InImage, Addr
  <1>4. IsNode(NodeAt(img, m, l))
    BY <1>3 DEF IsImage, NodeAt
  <1> QED
    BY <1>3, <1>4 DEF IsNode, key_ptrs, chunk_items
=============================================================================
