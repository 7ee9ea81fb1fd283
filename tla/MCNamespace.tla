---------------------------- MODULE MCNamespace ----------------------------
(***************************************************************************)
(* Namespace for TLC, in seven settings that let different operations race.  *)
(* A behaviour is one of one setting.                                      *)
(***************************************************************************)
EXTENDS Namespace

CONSTANTS t1, t2

(* A directory (inode 2) with one file (inode 3). *)
SmallTree == {<<1, 1, 2>>, <<2, 2, 3>>}

(* Nested directories; the file has a link in each of them. *)
NestedTree == {<<1, 1, 2>>, <<2, 1, 3>>, <<2, 2, 4>>, <<3, 1, 4>>}

(* Nested directories, the inner one empty. *)
EmptyTree == {<<1, 1, 2>>, <<2, 1, 3>>}

(* An empty directory beside one with a file of two links. *)
CopyTree == {<<1, 1, 2>>, <<1, 2, 3>>, <<2, 1, 4>>, <<2, 2, 4>>}

Setting(name, ops1, ops2, tree, dirs, names, ids, lookups, xattr, batch) ==
    [name |-> name, OpsOf |-> t1 :> ops1 @@ t2 :> ops2, Tree |-> tree, Dirs |-> 1 .. dirs,
     Name |-> 1 .. names, Id |-> 1 .. ids, MaxLookups |-> lookups,
     MaxXattr |-> xattr, Batch |-> batch]

NamespaceSettings ==
    {Setting("kernel", {"lookup", "create", "link", "unlink", "rename", "forget",
                           "destroy"}, {"unlink"}, SmallTree, 2, 2, 4, 1, 3, 2),
     Setting("xattr", {"lookup", "setxattr", "unlink", "forget", "destroy"},
                          {"forget"}, SmallTree, 2, 2, 3, 2, 3, 2),
     Setting("miscount", {"lookup", "removexattr", "unlink", "forget"},
                          {"setxattr", "write", "fail"}, SmallTree, 2, 2, 3, 1, 2, 2),
     Setting("remove", {"rmtree"}, {"lookup", "create", "forget"},
                          NestedTree, 3, 2, 5, 1, 2, 2),
     Setting("lock", {"lock"}, {"lookup", "rename"}, NestedTree, 3, 2, 4, 1, 3, 1),
     Setting("lock new", {"lock"}, {"lookup", "create", "rename"},
                          EmptyTree, 3, 2, 4, 1, 3, 1),
     Setting("copy", {"lookup", "copy"}, {"link", "setxattr"},
                          CopyTree, 3, 3, 7, 2, 2, 1)}
=============================================================================
