---------------------------- MODULE ContentStore ----------------------------
(***************************************************************************)
(* Objects, trees and stores (rex/src/storage/store.rs and entry.rs).       *)
(*                                                                          *)
(* An object is its bytes: a blob, or the encoding of a tree, which records *)
(* kind, hash and size of every entry.  An object stands for its own hash.  *)
(* A store is the set of objects that `get` can read in it.  A node is what *)
(* a path of the filesystem leads to.  A file that a tool leaves is a blob: *)
(* that its bytes happen to encode a tree is not modelled.                  *)
(***************************************************************************)
EXTENDS Integers, Sequences, FiniteSets, SequencesExt

Blob(bytes, len) == [is |-> "Blob", bytes |-> bytes, len |-> len]
TreeOf(entries) == [is |-> "Tree", entries |-> entries]

File(object) == [is |-> "file", object |-> object]
Dir(children) == [is |-> "dir", children |-> children]
Symlink == [is |-> "symlink"]
Special == [is |-> "special"]

\* The number of bytes of an object: of a tree, what the encoding takes.
Length(o) == IF o.is = "Blob" THEN o.len ELSE 1 + Cardinality(DOMAIN o.entries)

\* Maps keep their names in order.
NamesOf(f) == SetToSortSeq(DOMAIN f, LAMBDA a, b : a < b)

SumOver(f) == FoldSeq(LAMBDA n, sum : sum + f[n].size, 0, NamesOf(f))

-----------------------------------------------------------------------------
(* Store.                                                                    *)

Failed(why) == [ok |-> FALSE, why |-> why]

GetTree(store, o) ==
  IF o \notin store THEN Failed("NotFound")
  ELSE IF o.is = "Blob" THEN Failed("NotADirectory")
  ELSE [ok |-> TRUE, entries |-> o.entries]

\* The size an entry records: of a tree, its encoding and all below it.
EntrySize(kind, o) ==
  IF kind = "Tree" THEN Length(o) + SumOver(o.entries) ELSE Length(o)

\* What put_tree stores for the children it is given, [kind, hash] by name.
EncodeTree(creations) ==
  TreeOf([n \in DOMAIN creations |->
            [kind |-> creations[n].kind, hash |-> creations[n].hash,
             size |-> EntrySize(creations[n].kind, creations[n].hash)]])

\* put_tree looks every child up, and parses those it is told are trees.
CanPutTree(store, creations) ==
  \A n \in DOMAIN creations :
    /\ creations[n].hash \in store
    /\ creations[n].kind = "Tree" => creations[n].hash.is = "Tree"

\* remote_object_size: -1 when the object cannot be inspected.
RemoteObjectSize(store, o, kind) ==
  IF o \notin store \/ (kind = "Tree" /\ o.is = "Blob") THEN -1
  ELSE EntrySize(kind, o)
=============================================================================
