------------------------------ MODULE BtrfsImage ------------------------------
(***************************************************************************)
(* The raw image as the reader sees it, and the one lookup everything else *)
(* stands on: logical address -> physical byte -> parsed node.             *)
(*                                                                         *)
(* An image is a record                                                    *)
(*    len    number of bytes (in address units)                            *)
(*    nodes  what Node::parse makes of the nodesize bytes that start at    *)
(*           each physical offset                                          *)
(*    sb     the parsed superblock                                         *)
(* Addresses are the u64 range 0..MaxU64, so that checked and saturating   *)
(* additions meet their limit.  The image never changes: the program is    *)
(* read-only, and every state machine of the project leaves it alone.      *)
(***************************************************************************)
EXTENDS Integers, Sequences, Functions, FiniteSetsExt

CONSTANTS
  MaxU64,      \* u64::MAX, the largest address
  HeaderSize   \* the 101-byte node header: a shorter block does not parse

ASSUME WidthAssumption == MaxU64 \in Nat \ {0}
ASSUME HeaderAssumption == HeaderSize \in Nat \ {0}

Addr == 0 .. MaxU64

(* Option::None of a lookup; no address is negative. *)
None == -1

CheckedAdd(a, b) == IF a + b <= MaxU64 THEN a + b ELSE None

-----------------------------------------------------------------------------
(* Chunks: a logical span and the physical start of each stripe.  The      *)
(* device id is carried along by the code and never used on a single       *)
(* device, so it is left out.                                              *)

Chunk == [logical_start : Addr, length : Addr, stripes : Seq(Addr)]

Overflows(c) == c.logical_start + c.length > MaxU64

Covers(c, logical) ==
  /\ c.logical_start <= logical
  /\ logical < c.logical_start + c.length

(* The covering chunk's first stripe (the first mirror of a DUP pair). *)
FirstStripe(c, logical) ==
  IF c.stripes = <<>> THEN None
  ELSE CheckedAdd(c.stripes[1], logical - c.logical_start)

(* ChunkMap::logical_to_physical: entries are tried in order; the first    *)
(* entry that covers the address decides, and so does, with None, the      *)
(* first entry whose end does not fit in 64 bits.                          *)
MapLookup(entries, logical) ==
  LET Stops == {i \in DOMAIN entries : Overflows(entries[i]) \/ Covers(entries[i], logical)}
      e == entries[Min(Stops)]
  IN IF Stops = {} THEN None
     ELSE IF Overflows(e) THEN None ELSE FirstStripe(e, logical)

(* SysChunk::logical_to_physical: one entry of the sys_chunk_array. *)
SysChunkLookup(c, logical) ==
  IF Overflows(c) \/ ~Covers(c, logical) THEN None ELSE FirstStripe(c, logical)

(* The find_map over sb.sys_chunks in read_node: an entry that answers     *)
(* None is passed over.                                                    *)
SysLookup(chunks, logical) ==
  LET Hits == {i \in DOMAIN chunks : SysChunkLookup(chunks[i], logical) # None}
  IN IF Hits = {} THEN None ELSE SysChunkLookup(chunks[Min(Hits)], logical)

-----------------------------------------------------------------------------
(* Nodes.  A node carries its header and either items or key pointers; the *)
(* accessors of the other shape yield nothing.  `intact` says that the     *)
(* stored digest is the one the filesystem's own checksum gives the block  *)
(* after its 32-byte csum field: header and body are both covered.         *)

IsNode(n) ==
  /\ n.level \in Nat
  /\ n.bytenr \in Addr
  /\ n.intact \in BOOLEAN
  /\ n.ptrs \in Seq(Addr)
  /\ n.chunks \in Seq(Chunk)

is_leaf(n) == n.level = 0

key_ptrs(n) == IF is_leaf(n) THEN <<>> ELSE n.ptrs

chunk_items(n) == IF is_leaf(n) THEN n.chunks ELSE <<>>

leaf_items(n) == IF is_leaf(n) THEN n.items ELSE <<>>

(* One slot of btrfs_root_backup[4]. *)
RootBackup == [tree_root : Addr, tree_root_gen : Nat, fs_root : Addr, fs_root_gen : Nat]

IsSuperblock(sb) ==
  /\ sb.chunk_root \in Addr
  /\ sb.root \in Addr
  /\ sb.nodesize \in Nat
  /\ sb.csum_type \in {"crc32c", "other"}
  /\ sb.sys_chunks \in Seq(Chunk)
  /\ sb.backups \in Seq(RootBackup)

IsImage(img) ==
  /\ img.len \in Nat
  /\ img.nodes = [p \in 0 .. img.len |-> img.nodes[p]]
  /\ \A p \in 0 .. img.len : IsNode(img.nodes[p])
  /\ IsSuperblock(img.sb)

(* image.get(start .. start.saturating_add(nodesize)) is Some. *)
InImage(img, phys) == phys + img.sb.nodesize <= img.len

(* Node::parse returns Ok: the block holds at least a header. *)
Parses(img) == img.sb.nodesize >= HeaderSize

(* Node::crc_valid = Some(true): Node::parse checks every block as crc32c, *)
(* whatever csum_type the superblock names, and the digest of another      *)
(* checksum is not the crc32c of the block.                                *)
CrcValid(img, n) == n.intact /\ img.sb.csum_type = "crc32c"

-----------------------------------------------------------------------------
(* read_node: the chunk map first, the sys_chunk_array as a fallback, then *)
(* the bounds check and the parse.  Readable is "returns Ok", NodeAt the   *)
(* node it returns.                                                        *)

(* Mutant: no fallback to the sys_chunk_array. *)
TranslateMapOnly(img, map, logical) == MapLookup(map, logical)

Translate(img, map, logical) ==
  LET phys == MapLookup(map, logical)
  IN IF phys # None THEN phys ELSE SysLookup(img.sb.sys_chunks, logical)

Readable(img, map, logical) ==
  LET phys == Translate(img, map, logical)
  IN phys # None /\ InImage(img, phys) /\ Parses(img)

NodeAt(img, map, logical) == img.nodes[Translate(img, map, logical)]
=============================================================================
