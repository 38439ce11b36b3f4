-------------------------------- MODULE FsTree --------------------------------
(***************************************************************************)
(* Where the FS_TREE is found: through the ROOT_ITEM in the root tree, and *)
(* through the four backup slots of the superblock.  A leaf's items are    *)
(* records with objectid, key_type and offset, and what the item holds.    *)
(***************************************************************************)
EXTENDS BtrfsImage

FsTreeObjectid == 5          \* FS_TREE_OBJECTID
OrphanObjectid == MaxU64 - 4  \* ORPHAN_OBJECTID, -5 as a u64

(* What the program relies on in the items of the nodes: their keys are    *)
(* u64s, and so is the bytenr a ROOT_ITEM holds.                           *)
HasItems(img) ==
  \A p \in 0 .. img.len :
    LET items == img.nodes[p].items
    IN /\ DOMAIN items \subseteq Nat
       /\ \A i \in DOMAIN items :
            /\ items[i].offset \in Addr
            /\ items[i].key_type = "ROOT_ITEM" => items[i].bytenr \in Addr

(* The FS_TREE ROOT_ITEMs among the items of the node at sb.root. *)
FsRootItems(img, map) ==
  LET items == leaf_items(NodeAt(img, map, img.sb.root))
  IN {i \in DOMAIN items : items[i].objectid = FsTreeObjectid /\ items[i].key_type = "ROOT_ITEM"}

(* fs_tree_root: the bytenr of the first one, or None when the node cannot *)
(* be read, is not a leaf or has no such item.                             *)
fs_tree_root(img, map) ==
  IF ~Readable(img, map, img.sb.root) \/ FsRootItems(img, map) = {} THEN None
  ELSE leaf_items(NodeAt(img, map, img.sb.root))[Min(FsRootItems(img, map))].bytenr
=============================================================================
