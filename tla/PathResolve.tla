----------------------------- MODULE PathResolve -----------------------------
(***************************************************************************)
(* What the FS_TREE readers make of one leaf: inodes, directories,         *)
(* extended attributes, names, and the resolution of a path.               *)
(*                                                                         *)
(* A leaf is the sequence of its items.  An INODE_ITEM has `mode`, `size`, *)
(* `nlink` and, for the content of the file, what read_file_from_leaf      *)
(* returns for it.  An XATTR_ITEM or INODE_REF has `recs`, the well-formed *)
(* records its data starts with (module Framing).  A DIR_ITEM or DIR_INDEX *)
(* has `recs` too, and only the first counts: its name is what the data    *)
(* holds of it, and `recs` is empty if even the fixed part is missing.     *)
(***************************************************************************)
EXTENDS FsTree, SequencesExt

CONSTANTS
  Lossy,     \* String::from_utf8_lossy: what a name on disk is shown as
  RootDir    \* FS_TREE_ROOT_DIR_OBJECTID, 256

ASSUME LossyAssumption == Lossy = [n \in DOMAIN Lossy |-> Lossy[n]]
ASSUME RootDirAssumption == RootDir \in Addr

ItemsOf(leaf, objectid, type) ==
  {i \in DOMAIN leaf : leaf[i].objectid = objectid /\ leaf[i].key_type = type}

(* read_inode: the first INODE_ITEM; HasInode is "returns Some". *)
HasInode(leaf, objectid) == ItemsOf(leaf, objectid, "INODE_ITEM") # {}
read_inode(leaf, objectid) == leaf[Min(ItemsOf(leaf, objectid, "INODE_ITEM"))]

is_dir(inode) == inode.mode = "dir"

(* parse_dir_item: only the first record of the item, names in place of    *)
(* bytes.                                                                  *)
parse_dir_item(it) ==
  [name |-> Lossy[it.recs[1].name], child |-> it.recs[1].child, item_type |-> it.recs[1].type]

(* Mutant: the DIR_INDEX items are not looked at. *)
NamesChildByItem(it, dir) == it.objectid = dir /\ it.key_type = "DIR_ITEM" /\ it.recs # <<>>

NamesChild(it, dir) ==
  it.objectid = dir /\ it.key_type \in {"DIR_ITEM", "DIR_INDEX"} /\ it.recs # <<>>

(* A list that a loop over the leaf collects is a function on the places   *)
(* its elements were read from, which have the order of the list.          *)

(* list_dir: by the item; an entry with the name and the child of an       *)
(* earlier one is dropped.                                                 *)
list_dir(leaf, dir) ==
  LET Naming == {i \in DOMAIN leaf : NamesChild(leaf[i], dir)}
      Same(i, j) == LET e == parse_dir_item(leaf[i])
                        f == parse_dir_item(leaf[j])
                    IN e.name = f.name /\ e.child = f.child
  IN [i \in {k \in Naming : ~\E j \in Naming : j < k /\ Same(j, k)} |-> parse_dir_item(leaf[i])]

(* The records packed in an inode's items of one type: item and record. *)
Places(leaf, objectid, type) ==
  UNION {{i} \X DOMAIN leaf[i].recs : i \in ItemsOf(leaf, objectid, type)}

Before(p, q) == p[1] < q[1] \/ (p[1] = q[1] /\ p[2] < q[2])

(* Where in the list the element from place p stands, counted from 0. *)
IndexOf(list, p) == Cardinality({q \in DOMAIN list : Before(q, p)})

(* list_xattrs: every record of every XATTR_ITEM of the inode. *)
list_xattrs(leaf, objectid) ==
  [p \in Places(leaf, objectid, "XATTR_ITEM") |->
     LET r == leaf[p[1]].recs[p[2]] IN [name |-> Lossy[r.name], value |-> r.value]]

(* list_inode_refs: every name, with the directory from the item's key. *)
list_inode_refs(leaf, objectid) ==
  [p \in Places(leaf, objectid, "INODE_REF") |->
     [parent |-> leaf[p[1]].offset, name |-> Lossy[leaf[p[1]].recs[p[2]].name]]]

(* The first entry of the directory with this name; None if there is none. *)
ChildNamed(leaf, dir, name) ==
  LET entries == list_dir(leaf, dir)
      Hits == {i \in DOMAIN entries : entries[i].name = name}
  IN IF Hits = {} THEN None ELSE entries[Min(Hits)].child

(* read_by_path: the objectid the path leads to, or None.  The path is the *)
(* sequence of its non-empty components.                                   *)
read_by_path(leaf, path) ==
  LET Existing(id) == IF id # None /\ HasInode(leaf, id) THEN id ELSE None
      at[n \in 0 .. Len(path)] ==
        IF n = 0 THEN Existing(RootDir)
        ELSE IF at[n - 1] = None \/ ~is_dir(read_inode(leaf, at[n - 1])) THEN None
        ELSE Existing(ChildNamed(leaf, at[n - 1], path[n]))
  IN at[Len(path)]
=============================================================================
