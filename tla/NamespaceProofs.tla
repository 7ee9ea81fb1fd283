--------------------------- MODULE NamespaceProofs ---------------------------
(***************************************************************************)
(* Proofs about module Namespace, for every number of handlers, inodes and *)
(* names, in the settings where the requests come from the kernel: all     *)
(* operations except the commands s3qlrm and s3qlcp, and removexattr,      *)
(* which loses references of names (fs.py:336).                            *)
(*                                                                         *)
(* The three invariants of the run depend on each other.  An inode may be  *)
(* deleted when its refcount is zero because the refcounts are exact       *)
(* (Counted); the entries that are looked up exist because no inode with   *)
(* an entry in it or of it has refcount zero (Linked); the inode forget    *)
(* deletes is still the one it looked at before it waited for the cache,   *)
(* because nobody can name an inode that is neither linked nor open        *)
(* (Opened, Handlers).                                                     *)
(***************************************************************************)
EXTENDS Namespace, FiniteSetTheorems, TLAPS

\* Nobody uses s3qlrm, s3qlcp or removexattr.
KernelOnly == ~Does("rmtree") /\ ~Does("copy") /\ ~Does("removexattr")

\* What the database holds.
Columns == {"names", "contents", "inodes", "refcount", "locked", "dirs", "xattrs", "next"}

Tables(d) ==
    /\ DOMAIN d = Columns
    /\ d.names \in [Name -> Nat]
    /\ d.contents \subseteq Entries /\ IsFiniteSet(d.contents)
    /\ d.inodes \subseteq Id /\ Root \in d.inodes
    /\ d.refcount \in [Id -> Int]
    /\ d.dirs \subseteq Id /\ Root \in d.dirs
    /\ d.xattrs \subseteq Id \X Name /\ IsFiniteSet(d.xattrs)
    /\ d.next \in Nat

Types ==
    /\ config \in Settings
    /\ open_inodes \in [Id -> Nat] /\ kernel \in [Id -> Nat]
    /\ DOMAIN task = Task

\* The refcounts.
LinkCount(c, i) == Cardinality({e \in c : e.inode = i})
NameCount(c, n) == Cardinality({e \in c : e.name = n})
AttrCount(x, n) == Cardinality({a \in x : a[2] = n})

Counted(d) ==
    /\ \A i \in d.inodes \ {Root} : d.refcount[i] = LinkCount(d.contents, i)
    /\ d.refcount[Root] = 1
    /\ \A n \in Name :
          /\ d.names[n] >= NameCount(d.contents, n) + AttrCount(d.xattrs, n)
          /\ ~Does("setxattr") => d.names[n] = NameCount(d.contents, n)
    /\ ~Does("setxattr") => d.xattrs = {}

\* The tree.
Linked(d, gone) ==
    /\ \A e \in d.contents : /\ e.parent \in d.inodes /\ d.refcount[e.parent] > 0
                             /\ e.inode \in d.inodes \ {Root}
    /\ \A e, f \in d.contents : e.parent = f.parent /\ e.name = f.name => e = f
    /\ \A i \in d.inodes : i < d.next
    /\ \A i \in d.inodes \cap d.dirs : d.refcount[i] = 0 => i \in gone

Sound(d, gone) == Tables(d) /\ Counted(d) /\ Linked(d, gone) /\ Id \subseteq Nat

\* The inodes that are open, or about to be deleted.
Drops(t, i) == task[t].pc = "drop" /\ task[t].list[1][1] = i

Opened ==
    /\ \A i \in Id : kernel[i] <= open_inodes[i]
    /\ \A i \in Id : open_inodes[i] > 0 => i \in db.inodes
    /\ \A i \in db.inodes : db.refcount[i] = 0 =>
          open_inodes[i] > 0 \/ \E t \in Task : Drops(t, i)

\* What the handlers are doing.
Fresh(l) == \A j, k \in 1 .. Len(l) : l[j][1] = l[k][1] => j = k

\* A lookup that forget is going to drop.
Owed(item) == item[2] >= 1 /\ open_inodes[item[1]] >= item[2] + kernel[item[1]]

ForgetOK(t) ==
    task[t].pc \in {"forget", "drop"} =>
        /\ task[t] = [pc |-> task[t].pc, list |-> task[t].list]
        /\ task[t].list \in Seq(Id \X Nat) /\ Fresh(task[t].list)
        /\ task[t].pc = "forget" =>
              /\ running = t
              /\ \A j \in 1 .. Len(task[t].list) : Owed(task[t].list[j])
              /\ state # "unmounting" =>
                    \A j \in 1 .. Len(task[t].list) - 1 : db.refcount[task[t].list[j][1]] > 0
        /\ task[t].pc = "drop" =>
              /\ task[t].list # <<>>
              /\ \A j \in 2 .. Len(task[t].list) : Owed(task[t].list[j])
              /\ state # "unmounting" => Len(task[t].list) = 1
              /\ task[t].list[1][1] \in db.inodes
              /\ db.refcount[task[t].list[1][1]] = 0
              /\ open_inodes[task[t].list[1][1]] = 0

Handlers ==
    /\ state # "crashed"
    /\ \A t \in Task : /\ "pc" \in DOMAIN task[t]
                       /\ task[t].pc \in {"idle", "write", "lock", "forget", "drop"}
                       /\ ForgetOK(t)
    /\ \A t, u \in Task : \A i \in Id : Drops(t, i) /\ Drops(u, i) => t = u
    /\ state = "unmounting" =>
          /\ \A i \in Id : kernel[i] = 0
          /\ \A t, u \in Task : task[t] # Idle /\ task[u] # Idle => t = u
          /\ \A t \in Task : task[t].pc \in {"idle", "forget", "drop"}
          /\ \A i \in Id : open_inodes[i] > 0 =>
                \E t \in Task : /\ task[t].pc \in {"forget", "drop"}
                                /\ \E j \in 1 .. Len(task[t].list) :
                                      task[t].list[j] = <<i, open_inodes[i]>>

Inv == Types /\ Sound(db, dead) /\ Opened /\ Handlers

-----------------------------------------------------------------------------
(* Counting.                                                               *)

LEMMA LinkCountType ==
  ASSUME NEW c, IsFiniteSet(c), NEW i
  PROVE  /\ LinkCount(c, i) \in Nat
         /\ LinkCount(c, i) = 0 <=> \A e \in c : e.inode # i
<1>1. {e \in c : e.inode = i} \in SUBSET c
  OBVIOUS
<1>2. IsFiniteSet({e \in c : e.inode = i})
  BY <1>1, FS_Subset
<1> QED  BY <1>2, FS_CardinalityType, FS_EmptySet DEF LinkCount

LEMMA NameCountType ==
  ASSUME NEW c, IsFiniteSet(c), NEW n
  PROVE  /\ NameCount(c, n) \in Nat
         /\ NameCount(c, n) = 0 <=> \A e \in c : e.name # n
<1>1. {e \in c : e.name = n} \in SUBSET c
  OBVIOUS
<1>2. IsFiniteSet({e \in c : e.name = n})
  BY <1>1, FS_Subset
<1> QED  BY <1>2, FS_CardinalityType, FS_EmptySet DEF NameCount

LEMMA AttrCountType ==
  ASSUME NEW x, IsFiniteSet(x), NEW n
  PROVE  /\ AttrCount(x, n) \in Nat
         /\ AttrCount(x, n) = 0 <=> \A a \in x : a[2] # n
<1>1. {a \in x : a[2] = n} \in SUBSET x
  OBVIOUS
<1>2. IsFiniteSet({a \in x : a[2] = n})
  BY <1>1, FS_Subset
<1> QED  BY <1>2, FS_CardinalityType, FS_EmptySet DEF AttrCount

\* An entry more.
LEMMA EntryAdded ==
  ASSUME NEW c, IsFiniteSet(c), NEW e, e \notin c
  PROVE  /\ IsFiniteSet(c \cup {e})
         /\ \A i : LinkCount(c \cup {e}, i) =
                     IF e.inode = i THEN LinkCount(c, i) + 1 ELSE LinkCount(c, i)
         /\ \A n : NameCount(c \cup {e}, n) =
                     IF e.name = n THEN NameCount(c, n) + 1 ELSE NameCount(c, n)
<1>1. ASSUME NEW i
      PROVE  LinkCount(c \cup {e}, i) =
               IF e.inode = i THEN LinkCount(c, i) + 1 ELSE LinkCount(c, i)
  <2> DEFINE S == {f \in c : f.inode = i}
  <2>1. IsFiniteSet(S)
    <3>1. S \in SUBSET c
      OBVIOUS
    <3> QED  BY <3>1, FS_Subset
  <2>2. e \notin S
    OBVIOUS
  <2>3. CASE e.inode = i
    <3>1. {f \in c \cup {e} : f.inode = i} = S \cup {e}
      BY <2>3
    <3> QED  BY <2>1, <2>2, <2>3, <3>1, FS_AddElement DEF LinkCount
  <2>4. CASE e.inode # i
    <3>1. {f \in c \cup {e} : f.inode = i} = S
      BY <2>4
    <3> QED  BY <2>4, <3>1 DEF LinkCount
  <2> QED  BY <2>3, <2>4
<1>2. ASSUME NEW n
      PROVE  NameCount(c \cup {e}, n) =
               IF e.name = n THEN NameCount(c, n) + 1 ELSE NameCount(c, n)
  <2> DEFINE S == {f \in c : f.name = n}
  <2>1. IsFiniteSet(S)
    <3>1. S \in SUBSET c
      OBVIOUS
    <3> QED  BY <3>1, FS_Subset
  <2>2. e \notin S
    OBVIOUS
  <2>3. CASE e.name = n
    <3>1. {f \in c \cup {e} : f.name = n} = S \cup {e}
      BY <2>3
    <3> QED  BY <2>1, <2>2, <2>3, <3>1, FS_AddElement DEF NameCount
  <2>4. CASE e.name # n
    <3>1. {f \in c \cup {e} : f.name = n} = S
      BY <2>4
    <3> QED  BY <2>4, <3>1 DEF NameCount
  <2> QED  BY <2>3, <2>4
<1> QED  BY <1>1, <1>2, FS_AddElement

\* An entry less.
LEMMA EntryRemoved ==
  ASSUME NEW c, IsFiniteSet(c), NEW e \in c
  PROVE  /\ IsFiniteSet(c \ {e})
         /\ \A i : LinkCount(c \ {e}, i) =
                     IF e.inode = i THEN LinkCount(c, i) - 1 ELSE LinkCount(c, i)
         /\ \A n : NameCount(c \ {e}, n) =
                     IF e.name = n THEN NameCount(c, n) - 1 ELSE NameCount(c, n)
<1>1. IsFiniteSet(c \ {e}) /\ e \notin c \ {e} /\ (c \ {e}) \cup {e} = c
  BY FS_RemoveElement
<1>2. PICK r : r = c \ {e}
  OBVIOUS
<1>3. /\ IsFiniteSet(r) /\ e \notin r /\ r \cup {e} = c
  BY <1>1, <1>2
<1>4. /\ \A i : LinkCount(c, i) =
                  IF e.inode = i THEN LinkCount(r, i) + 1 ELSE LinkCount(r, i)
      /\ \A n : NameCount(c, n) =
                  IF e.name = n THEN NameCount(r, n) + 1 ELSE NameCount(r, n)
  BY <1>3, EntryAdded
<1>5. (\A i : LinkCount(r, i) \in Nat) /\ \A n : NameCount(r, n) \in Nat
  BY <1>3, LinkCountType, NameCountType
<1>6. \A i : LinkCount(r, i) =
               IF e.inode = i THEN LinkCount(c, i) - 1 ELSE LinkCount(c, i)
  BY <1>4, <1>5
<1>7. \A n : NameCount(r, n) =
               IF e.name = n THEN NameCount(c, n) - 1 ELSE NameCount(c, n)
  BY <1>4, <1>5
<1> QED  BY <1>1, <1>2, <1>6, <1>7

\* An attribute more, and all attributes of an inode less.
LEMMA AttrAdded ==
  ASSUME NEW x, IsFiniteSet(x), NEW i, NEW m
  PROVE  /\ IsFiniteSet(x \cup {<<i, m>>})
         /\ \A n : AttrCount(x \cup {<<i, m>>}, n) <=
                     IF m = n THEN AttrCount(x, n) + 1 ELSE AttrCount(x, n)
<1>1. ASSUME NEW n
      PROVE  AttrCount(x \cup {<<i, m>>}, n) <=
               IF m = n THEN AttrCount(x, n) + 1 ELSE AttrCount(x, n)
  <2> DEFINE S == {a \in x : a[2] = n}
  <2>1. IsFiniteSet(S)
    <3>1. S \in SUBSET x
      OBVIOUS
    <3> QED  BY <3>1, FS_Subset
  <2>2. Cardinality(S) \in Nat
    BY <2>1, FS_CardinalityType
  <2>3. CASE m = n
    <3>1. {a \in x \cup {<<i, m>>} : a[2] = n} = S \cup {<<i, m>>}
      BY <2>3
    <3>2. Cardinality(S \cup {<<i, m>>}) \in {Cardinality(S), Cardinality(S) + 1}
      BY <2>1, FS_AddElement
    <3>3. AttrCount(x \cup {<<i, m>>}, n) = Cardinality(S \cup {<<i, m>>}) /\ AttrCount(x, n) = Cardinality(S)
      BY <3>1 DEF AttrCount
    <3> HIDE DEF S
    <3> QED  BY <2>2, <2>3, <3>2, <3>3
  <2>4. CASE m # n
    <3>1. {a \in x \cup {<<i, m>>} : a[2] = n} = S
      BY <2>4
    <3> QED  BY <2>2, <2>4, <3>1 DEF AttrCount
  <2> QED  BY <2>3, <2>4
<1> QED  BY <1>1, FS_AddElement

OtherAttrs(x, i) == {a \in x : a[1] # i}

LEMMA AttrsRemoved ==
  ASSUME NEW x \in SUBSET (Id \X Name), IsFiniteSet(x), NEW i
  PROVE  /\ IsFiniteSet(OtherAttrs(x, i))
         /\ \A n : AttrCount(OtherAttrs(x, i), n) =
                     IF <<i, n>> \in x THEN AttrCount(x, n) - 1 ELSE AttrCount(x, n)
<1> USE DEF OtherAttrs
<1>1. ASSUME NEW n
      PROVE  AttrCount({a \in x : a[1] # i}, n) =
               IF <<i, n>> \in x THEN AttrCount(x, n) - 1 ELSE AttrCount(x, n)
  <2> DEFINE S == {a \in x : a[2] = n}
  <2>1. IsFiniteSet(S)
    <3>1. S \in SUBSET x
      OBVIOUS
    <3> QED  BY <3>1, FS_Subset
  <2>2. {a \in {b \in x : b[1] # i} : a[2] = n} = S \ {<<i, n>>}
    <3>1. \A a \in x : a = <<a[1], a[2]>>
      OBVIOUS
    <3> QED  BY <3>1
  <2>3. <<i, n>> \in S <=> <<i, n>> \in x
    OBVIOUS
  <2> QED  BY <2>1, <2>2, <2>3, FS_RemoveElement DEF AttrCount
<1>2. {a \in x : a[1] # i} \in SUBSET x
  OBVIOUS
<1> QED  BY <1>1, <1>2, FS_Subset

\* The parts of an entry.
LEMMA EntryParts ==
  /\ \A e \in Entries : /\ e.parent \in Id /\ e.name \in Name /\ e.inode \in Id
                        /\ e = Entry(e.parent, e.name, e.inode)
  /\ \A p \in Id, n \in Name, i \in Id : Entry(p, n, i) \in Entries
  /\ \A p, n, i : /\ Entry(p, n, i).parent = p /\ Entry(p, n, i).name = n
                  /\ Entry(p, n, i).inode = i
BY DEF Entries, Entry

-----------------------------------------------------------------------------
(* The tables stay sound.                                                  *)

LEMMA SoundCreate ==
  ASSUME NEW d, NEW gone, Sound(d, gone), NEW p \in d.inodes, NEW n \in Name,
         NEW dir \in BOOLEAN, d.next \in Id, d.refcount[p] > 0,
         ~\E e \in d.contents : e.parent = p /\ e.name = n,
         NEW r, r = AddEntry(create_inode(d, dir, 1), p, n, d.next)
  PROVE  /\ Sound(r, gone) /\ r.inodes = d.inodes \cup {d.next}
         /\ r.refcount = [d.refcount EXCEPT ![d.next] = 1]
<1> DEFINE ent == Entry(p, n, d.next)
<1>2. /\ DOMAIN r = Columns
      /\ r.inodes = d.inodes \cup {d.next} /\ r.xattrs = d.xattrs
      /\ r.refcount = [d.refcount EXCEPT ![d.next] = 1]
      /\ r.dirs = IF dir THEN d.dirs \cup {d.next} ELSE d.dirs
      /\ r.next = d.next + 1
      /\ r.names = [d.names EXCEPT ![n] = @ + 1]
      /\ r.contents = d.contents \cup {ent}
  <2>1. DOMAIN d = Columns
    BY DEF Sound, Tables
  <2> QED  BY <2>1 DEF Columns, AddEntry, _add_name, create_inode
<1>3. /\ ent \notin d.contents /\ ent \in Entries
      /\ ent.parent = p /\ ent.name = n /\ ent.inode = d.next
  <2>1. ent.parent = p /\ ent.name = n /\ ent.inode = d.next
    BY EntryParts
  <2>2. ent \in Entries
    BY EntryParts DEF Sound, Tables
  <2> QED  BY <2>1, <2>2
<1> HIDE DEF ent
<1>4. /\ IsFiniteSet(r.contents)
      /\ \A i : LinkCount(r.contents, i) =
                  IF d.next = i THEN LinkCount(d.contents, i) + 1 ELSE LinkCount(d.contents, i)
      /\ \A k : NameCount(r.contents, k) =
                  IF n = k THEN NameCount(d.contents, k) + 1 ELSE NameCount(d.contents, k)
  <2>1. IsFiniteSet(d.contents)
    BY DEF Sound, Tables
  <2>2. /\ IsFiniteSet(d.contents \cup {ent})
        /\ \A i : LinkCount(d.contents \cup {ent}, i) =
                    IF ent.inode = i THEN LinkCount(d.contents, i) + 1 ELSE LinkCount(d.contents, i)
        /\ \A k : NameCount(d.contents \cup {ent}, k) =
                    IF ent.name = k THEN NameCount(d.contents, k) + 1 ELSE NameCount(d.contents, k)
    BY <1>3, <2>1, EntryAdded
  <2> QED  BY <1>2, <1>3, <2>2
<1>5. Tables(r)
  BY <1>2, <1>3, <1>4 DEF Sound, Tables
<1>6. d.next \notin d.inodes /\ d.next # Root
  BY DEF Sound, Tables, Linked
<1>7. LinkCount(d.contents, d.next) = 0
  BY <1>6, LinkCountType DEF Sound, Tables, Linked
<1>8. Counted(r)
  <2>1. \A i \in r.inodes \ {Root} : r.refcount[i] = LinkCount(r.contents, i)
    BY <1>2, <1>4, <1>6, <1>7 DEF Sound, Tables, Counted
  <2>2. r.refcount[Root] = 1
    BY <1>2, <1>6 DEF Sound, Tables, Counted
  <2>3. ASSUME NEW k \in Name
        PROVE  /\ r.names[k] >= NameCount(r.contents, k) + AttrCount(r.xattrs, k)
               /\ ~Does("setxattr") => r.names[k] = NameCount(r.contents, k)
    <3>1. NameCount(d.contents, k) \in Nat /\ AttrCount(d.xattrs, k) \in Nat
      BY NameCountType, AttrCountType DEF Sound, Tables
    <3>2. d.names[k] \in Nat /\ r.names[k] = IF n = k THEN d.names[k] + 1 ELSE d.names[k]
      BY <1>2 DEF Sound, Tables
    <3>3. /\ d.names[k] >= NameCount(d.contents, k) + AttrCount(d.xattrs, k)
          /\ ~Does("setxattr") => d.names[k] = NameCount(d.contents, k)
      BY DEF Sound, Counted
    <3>4. /\ NameCount(r.contents, k) =
               IF n = k THEN NameCount(d.contents, k) + 1 ELSE NameCount(d.contents, k)
          /\ r.xattrs = d.xattrs
      BY <1>2, <1>4
    <3> QED  BY <3>1, <3>2, <3>3, <3>4
  <2>4. ~Does("setxattr") => r.xattrs = {}
    BY <1>2 DEF Sound, Counted
  <2> QED  BY <2>1, <2>2, <2>3, <2>4 DEF Counted
<1>9. Linked(r, gone)
  <2>1. \A e \in r.contents : /\ e.parent \in r.inodes /\ r.refcount[e.parent] > 0
                              /\ e.inode \in r.inodes \ {Root}
    BY <1>2, <1>3, <1>6 DEF Sound, Tables, Linked
  <2>2. \A e, f \in r.contents : e.parent = f.parent /\ e.name = f.name => e = f
    BY <1>2, <1>3 DEF Sound, Linked
  <2>3. \A i \in r.inodes : i < r.next
    <3>1. \A i \in d.inodes : i < d.next /\ i \in Nat
      BY DEF Sound, Tables, Linked
    <3>2. d.next \in Nat
      BY DEF Sound, Tables
    <3> QED  BY <1>2, <3>1, <3>2
  <2>4. \A i \in r.inodes \cap r.dirs : r.refcount[i] = 0 => i \in gone
    BY <1>2, <1>6 DEF Sound, Tables, Linked
  <2> QED  BY <2>1, <2>2, <2>3, <2>4 DEF Linked
<1> QED  BY <1>2, <1>5, <1>8, <1>9 DEF Sound

\* What link and setxattr do.
Linking(d, p, n, i) == [AddEntry(d, p, n, i) EXCEPT !.refcount[i] = @ + 1]
Attaching(d, i, n) == [_add_name(d, n) EXCEPT !.xattrs = @ \cup {<<i, n>>}]

LEMMA SoundLink ==
  ASSUME NEW d, NEW gone, Sound(d, gone), NEW p \in d.inodes, NEW n \in Name,
         NEW l \in d.inodes \ {Root}, d.refcount[p] > 0,
         ~\E e \in d.contents : e.parent = p /\ e.name = n, NEW r
  PROVE  r = Linking(d, p, n, l) =>
           /\ Sound(r, gone) /\ r.inodes = d.inodes
           /\ r.refcount = [d.refcount EXCEPT ![l] = @ + 1]
<1>a. SUFFICES ASSUME r = Linking(d, p, n, l)
               PROVE  /\ Sound(r, gone) /\ r.inodes = d.inodes
                      /\ r.refcount = [d.refcount EXCEPT ![l] = @ + 1]
  OBVIOUS
<1> DEFINE ent == Entry(p, n, l)
<1>0. DOMAIN d = Columns /\ IsFiniteSet(d.contents)
  BY DEF Sound, Tables
<1>1. /\ DOMAIN r = Columns
      /\ r.inodes = d.inodes /\ r.xattrs = d.xattrs /\ r.dirs = d.dirs /\ r.next = d.next
      /\ r.refcount = [d.refcount EXCEPT ![l] = @ + 1]
      /\ r.names = [d.names EXCEPT ![n] = @ + 1]
      /\ r.contents = d.contents \cup {ent}
  BY <1>0, <1>a DEF Columns, Linking, AddEntry, _add_name
<1>2. ent.parent = p /\ ent.name = n /\ ent.inode = l
  BY EntryParts
<1>3. ent \notin d.contents /\ ent \in Entries
  BY <1>2, EntryParts DEF Sound, Tables
<1> HIDE DEF ent
<1>4. /\ IsFiniteSet(r.contents)
      /\ \A i : LinkCount(r.contents, i) =
                  IF l = i THEN LinkCount(d.contents, i) + 1 ELSE LinkCount(d.contents, i)
      /\ \A k : NameCount(r.contents, k) =
                  IF n = k THEN NameCount(d.contents, k) + 1 ELSE NameCount(d.contents, k)
  <2>1. /\ IsFiniteSet(d.contents \cup {ent})
        /\ \A i : LinkCount(d.contents \cup {ent}, i) =
                    IF ent.inode = i THEN LinkCount(d.contents, i) + 1 ELSE LinkCount(d.contents, i)
        /\ \A k : NameCount(d.contents \cup {ent}, k) =
                    IF ent.name = k THEN NameCount(d.contents, k) + 1 ELSE NameCount(d.contents, k)
    BY <1>0, <1>3, EntryAdded
  <2> QED  BY <1>1, <1>2, <2>1
<1>5. Tables(r)
  <2>1. d.names \in [Name -> Nat] /\ d.refcount \in [Id -> Int] /\ l \in Id
    BY DEF Sound, Tables
  <2>2. r.names \in [Name -> Nat]
    BY <1>1, <2>1
  <2>3. d.refcount[l] + 1 \in Int
    BY <2>1
  <2>4. r.refcount \in [Id -> Int]
    BY <1>1, <2>1, <2>3
  <2> QED  BY <1>1, <1>3, <1>4, <2>2, <2>4 DEF Sound, Tables
<1>6. Counted(r)
  <2>1. \A i \in r.inodes \ {Root} : r.refcount[i] = LinkCount(r.contents, i)
    BY <1>1, <1>4 DEF Sound, Tables, Counted
  <2>2. r.refcount[Root] = 1
    BY <1>1 DEF Sound, Tables, Counted
  <2>3. ASSUME NEW k \in Name
        PROVE  /\ r.names[k] >= NameCount(r.contents, k) + AttrCount(r.xattrs, k)
               /\ ~Does("setxattr") => r.names[k] = NameCount(r.contents, k)
    <3>1. NameCount(d.contents, k) \in Nat /\ AttrCount(d.xattrs, k) \in Nat
      BY NameCountType, AttrCountType DEF Sound, Tables
    <3>2. d.names[k] \in Nat /\ r.names[k] = IF n = k THEN d.names[k] + 1 ELSE d.names[k]
      BY <1>1 DEF Sound, Tables
    <3>3. /\ d.names[k] >= NameCount(d.contents, k) + AttrCount(d.xattrs, k)
          /\ ~Does("setxattr") => d.names[k] = NameCount(d.contents, k)
      BY DEF Sound, Counted
    <3>4. /\ NameCount(r.contents, k) =
               IF n = k THEN NameCount(d.contents, k) + 1 ELSE NameCount(d.contents, k)
          /\ r.xattrs = d.xattrs
      BY <1>1, <1>4
    <3> QED  BY <3>1, <3>2, <3>3, <3>4
  <2>4. ~Does("setxattr") => r.xattrs = {}
    BY <1>1 DEF Sound, Counted
  <2> QED  BY <2>1, <2>2, <2>3, <2>4 DEF Counted
<1>7. d.refcount[l] \in Nat
  <2>1. LinkCount(d.contents, l) \in Nat
    BY <1>0, LinkCountType
  <2> QED  BY <2>1 DEF Sound, Counted
<1>8. \A i \in Id : r.refcount[i] = IF i = l THEN d.refcount[i] + 1 ELSE d.refcount[i]
  BY <1>1 DEF Sound, Tables
<1>9. Linked(r, gone)
  <2>1. \A e \in r.contents : /\ e.parent \in r.inodes /\ r.refcount[e.parent] > 0
                              /\ e.inode \in r.inodes \ {Root}
    BY <1>1, <1>2, <1>7, <1>8 DEF Sound, Tables, Linked
  <2>2. \A e, f \in r.contents : e.parent = f.parent /\ e.name = f.name => e = f
    BY <1>1, <1>2 DEF Sound, Linked
  <2>3. \A i \in r.inodes \cap r.dirs : r.refcount[i] = 0 => i \in gone
    BY <1>1, <1>7, <1>8 DEF Sound, Tables, Linked
  <2> QED  BY <1>1, <2>1, <2>2, <2>3 DEF Sound, Linked
<1> QED  BY <1>1, <1>5, <1>6, <1>9 DEF Sound

LEMMA SoundUnlink ==
  ASSUME NEW d, NEW gone, Sound(d, gone), NEW e \in d.contents, Children(d, e.inode) = {}, NEW r
  PROVE  r = RemoveEntry(d, e.parent, e.name, e.inode) =>
           /\ Sound(r, gone \cup ({e.inode} \cap d.dirs)) /\ r.inodes = d.inodes
           /\ r.refcount = [d.refcount EXCEPT ![e.inode] = @ - 1]
<1>a. SUFFICES ASSUME r = RemoveEntry(d, e.parent, e.name, e.inode)
               PROVE  /\ Sound(r, gone \cup ({e.inode} \cap d.dirs)) /\ r.inodes = d.inodes
                      /\ r.refcount = [d.refcount EXCEPT ![e.inode] = @ - 1]
  OBVIOUS
<1>0. DOMAIN d = Columns /\ IsFiniteSet(d.contents)
  BY DEF Sound, Tables
<1>1. /\ DOMAIN r = Columns
      /\ r.inodes = d.inodes /\ r.xattrs = d.xattrs /\ r.dirs = d.dirs /\ r.next = d.next
      /\ r.refcount = [d.refcount EXCEPT ![e.inode] = @ - 1]
      /\ r.names = [d.names EXCEPT ![e.name] = @ - 1]
      /\ r.contents = {f \in d.contents : ~(f.parent = e.parent /\ f.name = e.name)}
  BY <1>0, <1>a DEF Columns, RemoveEntry, _del_name
<1>2. r.contents = d.contents \ {e}
  BY <1>1 DEF Sound, Linked
<1>3. e.parent \in Id /\ e.name \in Name /\ e.inode \in Id
  BY EntryParts DEF Sound, Tables
<1>4. /\ IsFiniteSet(r.contents)
      /\ \A i : LinkCount(r.contents, i) =
                  IF e.inode = i THEN LinkCount(d.contents, i) - 1 ELSE LinkCount(d.contents, i)
      /\ \A k : NameCount(r.contents, k) =
                  IF e.name = k THEN NameCount(d.contents, k) - 1 ELSE NameCount(d.contents, k)
  BY <1>0, <1>2, EntryRemoved
<1>5. \A k \in Name :
        /\ NameCount(d.contents, k) \in Nat /\ AttrCount(d.xattrs, k) \in Nat
        /\ d.names[k] \in Nat
        /\ d.names[k] >= NameCount(d.contents, k) + AttrCount(d.xattrs, k)
        /\ ~Does("setxattr") => d.names[k] = NameCount(d.contents, k)
        /\ r.names[k] = IF e.name = k THEN d.names[k] - 1 ELSE d.names[k]
  BY <1>1, NameCountType, AttrCountType DEF Sound, Tables, Counted
<1>6. NameCount(d.contents, e.name) # 0
  BY <1>0, NameCountType
<1>7. Tables(r)
  <2>1. r.names \in [Name -> Nat]
    <3>1. d.names[e.name] - 1 \in Nat
      <4>1. /\ NameCount(d.contents, e.name) \in Nat /\ AttrCount(d.xattrs, e.name) \in Nat
            /\ d.names[e.name] \in Nat
            /\ d.names[e.name] >= NameCount(d.contents, e.name) + AttrCount(d.xattrs, e.name)
        BY <1>3, <1>5
      <4> QED  BY <1>6, <4>1
    <3>2. d.names \in [Name -> Nat]
      BY DEF Sound, Tables
    <3>3. r.names = [d.names EXCEPT ![e.name] = d.names[e.name] - 1]
      BY <1>1
    <3> QED  BY <1>3, <3>1, <3>2, <3>3
  <2>2. r.refcount \in [Id -> Int]
    <3>1. d.refcount \in [Id -> Int]
      BY DEF Sound, Tables
    <3>2. r.refcount = [d.refcount EXCEPT ![e.inode] = d.refcount[e.inode] - 1]
      BY <1>1
    <3> QED  BY <1>3, <3>1, <3>2
  <2> QED  BY <1>1, <1>2, <1>4, <2>1, <2>2 DEF Sound, Tables
<1>8. Counted(r)
  <2>1. \A i \in r.inodes \ {Root} : r.refcount[i] = LinkCount(r.contents, i)
    BY <1>1, <1>4 DEF Sound, Tables, Counted
  <2>2. r.refcount[Root] = 1
    BY <1>1 DEF Sound, Tables, Counted, Linked
  <2>3. ASSUME NEW k \in Name
        PROVE  /\ r.names[k] >= NameCount(r.contents, k) + AttrCount(r.xattrs, k)
               /\ ~Does("setxattr") => r.names[k] = NameCount(r.contents, k)
    BY <1>1, <1>4, <1>5
  <2>4. ~Does("setxattr") => r.xattrs = {}
    BY <1>1 DEF Sound, Counted
  <2> QED  BY <2>1, <2>2, <2>3, <2>4 DEF Counted
<1>9. \A i \in Id : r.refcount[i] = IF i = e.inode THEN d.refcount[i] - 1 ELSE d.refcount[i]
  BY <1>1 DEF Sound, Tables
<1>10. Linked(r, gone \cup ({e.inode} \cap d.dirs))
  <2>1. \A f \in d.contents : f.parent # e.inode
    BY DEF Children
  <2>2. \A f \in r.contents : /\ f.parent \in r.inodes /\ r.refcount[f.parent] > 0
                              /\ f.inode \in r.inodes \ {Root}
    BY <1>1, <1>2, <1>9, <2>1 DEF Sound, Tables, Linked
  <2>3. \A f, g \in r.contents : f.parent = g.parent /\ f.name = g.name => f = g
    BY <1>2 DEF Sound, Linked
  <2>4. \A i \in r.inodes \cap r.dirs :
          r.refcount[i] = 0 => i \in gone \cup ({e.inode} \cap d.dirs)
    BY <1>1, <1>9 DEF Sound, Tables, Linked
  <2>5. \A i \in r.inodes : i < r.next
    BY <1>1 DEF Sound, Linked
  <2> QED  BY <2>2, <2>3, <2>4, <2>5 DEF Linked
<1> QED  BY <1>1, <1>7, <1>8, <1>10 DEF Sound

\* The names that are counted, put together for the lemmas below.
LEMMA NamesStay ==
  ASSUME NEW d, NEW gone, Sound(d, gone), NEW k \in Name
  PROVE  /\ NameCount(d.contents, k) \in Nat /\ AttrCount(d.xattrs, k) \in Nat
         /\ d.names[k] \in Nat
         /\ d.names[k] >= NameCount(d.contents, k) + AttrCount(d.xattrs, k)
         /\ ~Does("setxattr") => d.names[k] = NameCount(d.contents, k)
BY NameCountType, AttrCountType DEF Sound, Tables, Counted

LEMMA SoundRename ==
  ASSUME NEW d, NEW gone, Sound(d, gone), NEW e \in d.contents, NEW q \in d.inodes,
         NEW m \in Name, d.refcount[q] > 0,
         ~\E f \in d.contents : f.parent = q /\ f.name = m, NEW r
  PROVE  r = _rename(d, e.parent, e.name, q, m, e.inode) =>
           Sound(r, gone) /\ r.inodes = d.inodes /\ r.refcount = d.refcount
<1>a. SUFFICES ASSUME r = _rename(d, e.parent, e.name, q, m, e.inode)
               PROVE  Sound(r, gone) /\ r.inodes = d.inodes /\ r.refcount = d.refcount
  OBVIOUS
<1> DEFINE ent == Entry(q, m, e.inode)
<1>0. DOMAIN d = Columns /\ IsFiniteSet(d.contents)
  BY DEF Sound, Tables
<1>b. /\ e.parent \in Id /\ e.name \in Name /\ e.inode \in Id
      /\ e = Entry(e.parent, e.name, e.inode)
  BY EntryParts DEF Sound, Tables
<1>1. /\ DOMAIN r = Columns
      /\ r.inodes = d.inodes /\ r.xattrs = d.xattrs /\ r.dirs = d.dirs /\ r.next = d.next
      /\ r.refcount = d.refcount
      /\ r.names = [[d.names EXCEPT ![m] = @ + 1] EXCEPT ![e.name] = @ - 1]
      /\ r.contents = (d.contents \ {Entry(e.parent, e.name, e.inode)}) \cup {ent}
  BY <1>0, <1>a DEF Columns, _rename, _add_name, _del_name
<1>2. ent.parent = q /\ ent.name = m /\ ent.inode = e.inode
  BY EntryParts
<1>3. ent \notin d.contents /\ ent \in Entries
  BY <1>b, <1>2, EntryParts DEF Sound, Tables
<1> HIDE DEF ent
<1>4. PICK c : c = d.contents \ {e}
  OBVIOUS
<1>5. r.contents = c \cup {ent} /\ ent \notin c
  BY <1>b, <1>1, <1>3, <1>4
<1>6. /\ IsFiniteSet(c)
      /\ \A i : LinkCount(c, i) =
                  IF e.inode = i THEN LinkCount(d.contents, i) - 1 ELSE LinkCount(d.contents, i)
      /\ \A k : NameCount(c, k) =
                  IF e.name = k THEN NameCount(d.contents, k) - 1 ELSE NameCount(d.contents, k)
  BY <1>0, <1>4, EntryRemoved
<1>7. /\ IsFiniteSet(c \cup {ent})
      /\ \A i : LinkCount(c \cup {ent}, i) =
                  IF ent.inode = i THEN LinkCount(c, i) + 1 ELSE LinkCount(c, i)
      /\ \A k : NameCount(c \cup {ent}, k) =
                  IF ent.name = k THEN NameCount(c, k) + 1 ELSE NameCount(c, k)
  BY <1>5, <1>6, EntryAdded
<1>8. ASSUME NEW i  PROVE LinkCount(r.contents, i) = LinkCount(d.contents, i)
  <2>1. LinkCount(d.contents, i) \in Nat
    BY <1>0, LinkCountType
  <2>2. LinkCount(c, i) = IF e.inode = i THEN LinkCount(d.contents, i) - 1
                          ELSE LinkCount(d.contents, i)
    BY <1>6
  <2>3. LinkCount(r.contents, i) = IF e.inode = i THEN LinkCount(c, i) + 1 ELSE LinkCount(c, i)
    BY <1>2, <1>5, <1>7
  <2> QED  BY <2>1, <2>2, <2>3
<1>9. ASSUME NEW k \in Name
      PROVE  /\ r.names[k] \in Nat
             /\ r.names[k] >= NameCount(r.contents, k) + AttrCount(r.xattrs, k)
             /\ ~Does("setxattr") => r.names[k] = NameCount(r.contents, k)
  <2>1. /\ NameCount(d.contents, k) \in Nat /\ AttrCount(d.xattrs, k) \in Nat
        /\ d.names[k] \in Nat
        /\ d.names[k] >= NameCount(d.contents, k) + AttrCount(d.xattrs, k)
        /\ ~Does("setxattr") => d.names[k] = NameCount(d.contents, k)
    BY NamesStay
  <2>2. /\ e.name = k => NameCount(d.contents, k) # 0
        /\ r.xattrs = d.xattrs
        /\ NameCount(c, k) = IF e.name = k THEN NameCount(d.contents, k) - 1
                             ELSE NameCount(d.contents, k)
        /\ NameCount(r.contents, k) = IF m = k THEN NameCount(c, k) + 1 ELSE NameCount(c, k)
    <3>1. e.name = k => NameCount(d.contents, k) # 0
      BY <1>0, NameCountType
    <3>2. NameCount(c, k) = IF e.name = k THEN NameCount(d.contents, k) - 1
                            ELSE NameCount(d.contents, k)
      BY <1>6
    <3>3. NameCount(r.contents, k) = IF m = k THEN NameCount(c, k) + 1 ELSE NameCount(c, k)
      BY <1>2, <1>5, <1>7
    <3> QED  BY <1>1, <3>1, <3>2, <3>3
  <2>3. d.names \in [Name -> Nat]
    BY DEF Sound, Tables
  <2>4. r.names[k] = (d.names[k] + (IF m = k THEN 1 ELSE 0)) - (IF e.name = k THEN 1 ELSE 0)
    <3>1. PICK g : g = [d.names EXCEPT ![m] = @ + 1]
      OBVIOUS
    <3>2. DOMAIN g = Name /\ g[k] = d.names[k] + (IF m = k THEN 1 ELSE 0)
      BY <2>1, <2>3, <3>1
    <3>3. r.names = [g EXCEPT ![e.name] = @ - 1]
      BY <1>1, <3>1
    <3>4. CASE e.name = k
      BY <1>b, <2>1, <3>2, <3>3, <3>4
    <3>5. CASE e.name # k
      <4>1. r.names[k] = g[k]
        BY <1>b, <3>2, <3>3, <3>5
      <4> QED  BY <2>1, <3>2, <3>5, <4>1
    <3> QED  BY <3>4, <3>5
  <2>5. CASE e.name = k
    BY <2>1, <2>2, <2>4, <2>5
  <2>6. CASE e.name # k
    BY <2>1, <2>2, <2>4, <2>6
  <2> QED  BY <2>5, <2>6
<1>10. Tables(r)
  <2>1. r.names \in [Name -> Nat]
    <3>1. DOMAIN r.names = Name /\ r.names = [k \in DOMAIN r.names |-> r.names[k]]
      BY <1>1 DEF Sound, Tables
    <3> QED  BY <1>9, <3>1
  <2>2. r.contents \subseteq Entries /\ IsFiniteSet(r.contents)
    <3>1. d.contents \subseteq Entries
      BY DEF Sound, Tables
    <3> QED  BY <1>3, <1>4, <1>5, <1>7, <3>1
  <2> QED  BY <1>1, <2>1, <2>2 DEF Sound, Tables
<1>11. Counted(r)
  BY <1>1, <1>8, <1>9 DEF Sound, Counted
<1>12. Linked(r, gone)
  <2>1. \A f \in r.contents : /\ f.parent \in r.inodes /\ r.refcount[f.parent] > 0
                              /\ f.inode \in r.inodes \ {Root}
    BY <1>1, <1>2, <1>4, <1>5 DEF Sound, Linked
  <2>2. \A f, g \in r.contents : f.parent = g.parent /\ f.name = g.name => f = g
    BY <1>2, <1>4, <1>5 DEF Sound, Linked
  <2> QED  BY <1>1, <2>1, <2>2 DEF Sound, Linked
<1> QED  BY <1>1, <1>10, <1>11, <1>12 DEF Sound

LEMMA SoundReplace ==
  ASSUME NEW d, NEW gone, Sound(d, gone), NEW e \in d.contents, NEW f \in d.contents,
         f.inode # e.inode, Children(d, f.inode) = {}, NEW r
  PROVE  r = _replace(d, e.parent, e.name, f.parent, f.name, e.inode, f.inode) =>
           /\ Sound(r, gone \cup ({f.inode} \cap d.dirs)) /\ r.inodes = d.inodes
           /\ r.refcount = [d.refcount EXCEPT ![f.inode] = @ - 1]
<1>a. SUFFICES ASSUME r = _replace(d, e.parent, e.name, f.parent, f.name, e.inode, f.inode)
               PROVE  /\ Sound(r, gone \cup ({f.inode} \cap d.dirs)) /\ r.inodes = d.inodes
                      /\ r.refcount = [d.refcount EXCEPT ![f.inode] = @ - 1]
  OBVIOUS
<1> DEFINE ent == Entry(f.parent, f.name, e.inode)
<1>0. DOMAIN d = Columns /\ IsFiniteSet(d.contents)
  BY DEF Sound, Tables
<1>b. /\ e.parent \in Id /\ e.name \in Name /\ e.inode \in Id
      /\ e = Entry(e.parent, e.name, e.inode)
      /\ f.parent \in Id /\ f.name \in Name /\ f.inode \in Id
      /\ f = Entry(f.parent, f.name, f.inode)
  BY EntryParts DEF Sound, Tables
<1>1. /\ DOMAIN r = Columns
      /\ r.inodes = d.inodes /\ r.xattrs = d.xattrs /\ r.dirs = d.dirs /\ r.next = d.next
      /\ r.refcount = [d.refcount EXCEPT ![f.inode] = @ - 1]
      /\ r.names = [d.names EXCEPT ![e.name] = @ - 1]
      /\ r.contents = ((d.contents \ {Entry(f.parent, f.name, f.inode)}) \cup {ent})
                          \ {Entry(e.parent, e.name, e.inode)}
  BY <1>0, <1>a DEF Columns, _replace, _del_name
<1>2. ent.parent = f.parent /\ ent.name = f.name /\ ent.inode = e.inode
  BY EntryParts
<1>3. ent \notin d.contents /\ ent \in Entries /\ ent # e /\ e # f
  <2>1. ent \in Entries
    BY <1>b, EntryParts
  <2>2. ent \notin d.contents
    BY <1>2 DEF Sound, Linked
  <2> QED  BY <2>1, <2>2
<1> HIDE DEF ent
<1>4. PICK c : c = d.contents \ {f}
  OBVIOUS
<1>5. PICK g : g = c \cup {ent}
  OBVIOUS
<1>6. r.contents = g \ {e} /\ e \in g /\ ent \notin c
  BY <1>b, <1>1, <1>3, <1>4, <1>5
<1>7. /\ IsFiniteSet(c)
      /\ \A i : LinkCount(c, i) =
                  IF f.inode = i THEN LinkCount(d.contents, i) - 1 ELSE LinkCount(d.contents, i)
      /\ \A k : NameCount(c, k) =
                  IF f.name = k THEN NameCount(d.contents, k) - 1 ELSE NameCount(d.contents, k)
  BY <1>0, <1>4, EntryRemoved
<1>8. /\ IsFiniteSet(g)
      /\ \A i : LinkCount(g, i) =
                  IF ent.inode = i THEN LinkCount(c, i) + 1 ELSE LinkCount(c, i)
      /\ \A k : NameCount(g, k) =
                  IF ent.name = k THEN NameCount(c, k) + 1 ELSE NameCount(c, k)
  <2>1. /\ IsFiniteSet(c \cup {ent})
        /\ \A i : LinkCount(c \cup {ent}, i) =
                    IF ent.inode = i THEN LinkCount(c, i) + 1 ELSE LinkCount(c, i)
        /\ \A k : NameCount(c \cup {ent}, k) =
                    IF ent.name = k THEN NameCount(c, k) + 1 ELSE NameCount(c, k)
    BY <1>6, <1>7, EntryAdded
  <2> QED  BY <1>5, <2>1
<1>9. /\ IsFiniteSet(g \ {e})
      /\ \A i : LinkCount(g \ {e}, i) =
                  IF e.inode = i THEN LinkCount(g, i) - 1 ELSE LinkCount(g, i)
      /\ \A k : NameCount(g \ {e}, k) =
                  IF e.name = k THEN NameCount(g, k) - 1 ELSE NameCount(g, k)
  BY <1>6, <1>8, EntryRemoved
<1>10. ASSUME NEW i
       PROVE  LinkCount(r.contents, i) =
                IF f.inode = i THEN LinkCount(d.contents, i) - 1 ELSE LinkCount(d.contents, i)
  <2>1. LinkCount(d.contents, i) \in Nat
    BY <1>0, LinkCountType
  <2>2. LinkCount(c, i) = IF f.inode = i THEN LinkCount(d.contents, i) - 1
                          ELSE LinkCount(d.contents, i)
    BY <1>7
  <2>3. LinkCount(g, i) = IF e.inode = i THEN LinkCount(c, i) + 1 ELSE LinkCount(c, i)
    BY <1>2, <1>8
  <2>4. LinkCount(r.contents, i) = IF e.inode = i THEN LinkCount(g, i) - 1 ELSE LinkCount(g, i)
    BY <1>6, <1>9
  <2> QED  BY <2>1, <2>2, <2>3, <2>4
<1>11. ASSUME NEW k \in Name
       PROVE  /\ r.names[k] \in Nat
              /\ r.names[k] >= NameCount(r.contents, k) + AttrCount(r.xattrs, k)
              /\ ~Does("setxattr") => r.names[k] = NameCount(r.contents, k)
  <2>1. /\ NameCount(d.contents, k) \in Nat /\ AttrCount(d.xattrs, k) \in Nat
        /\ d.names[k] \in Nat
        /\ d.names[k] >= NameCount(d.contents, k) + AttrCount(d.xattrs, k)
        /\ ~Does("setxattr") => d.names[k] = NameCount(d.contents, k)
    BY NamesStay
  <2>2. e.name = k => NameCount(d.contents, k) # 0
    BY <1>0, NameCountType
  <2>3. NameCount(r.contents, k) =
          IF e.name = k THEN NameCount(d.contents, k) - 1 ELSE NameCount(d.contents, k)
    <3>1. NameCount(c, k) = IF f.name = k THEN NameCount(d.contents, k) - 1
                            ELSE NameCount(d.contents, k)
      BY <1>7
    <3>2. NameCount(g, k) = IF f.name = k THEN NameCount(c, k) + 1 ELSE NameCount(c, k)
      BY <1>2, <1>8
    <3>3. NameCount(r.contents, k) = IF e.name = k THEN NameCount(g, k) - 1 ELSE NameCount(g, k)
      BY <1>6, <1>9
    <3> QED  BY <2>1, <3>1, <3>2, <3>3
  <2>4. d.names \in [Name -> Nat]
    BY DEF Sound, Tables
  <2>5. r.names[k] = (IF e.name = k THEN d.names[k] - 1 ELSE d.names[k]) /\ r.xattrs = d.xattrs
    BY <1>b, <1>1, <2>4
  <2> QED  BY <2>1, <2>2, <2>3, <2>5
<1>12. Tables(r)
  <2>1. r.names \in [Name -> Nat]
    <3>1. DOMAIN r.names = Name /\ r.names = [k \in DOMAIN r.names |-> r.names[k]]
      BY <1>1 DEF Sound, Tables
    <3> QED  BY <1>11, <3>1
  <2>2. r.contents \subseteq Entries /\ IsFiniteSet(r.contents)
    <3>1. d.contents \subseteq Entries
      BY DEF Sound, Tables
    <3> QED  BY <1>3, <1>4, <1>5, <1>6, <1>9, <3>1
  <2>3. r.refcount \in [Id -> Int]
    <3>1. d.refcount \in [Id -> Int]
      BY DEF Sound, Tables
    <3>2. r.refcount = [d.refcount EXCEPT ![f.inode] = d.refcount[f.inode] - 1]
      BY <1>1
    <3> QED  BY <1>b, <3>1, <3>2
  <2> QED  BY <1>1, <2>1, <2>2, <2>3 DEF Sound, Tables
<1>13. /\ \A i \in Id : r.refcount[i] = IF i = f.inode THEN d.refcount[i] - 1 ELSE d.refcount[i]
       /\ f.inode # Root
  BY <1>1 DEF Sound, Tables, Linked
<1>14. Counted(r)
  <2>1. \A i \in r.inodes \ {Root} : r.refcount[i] = LinkCount(r.contents, i)
    <3> SUFFICES ASSUME NEW i \in r.inodes \ {Root}
                 PROVE  r.refcount[i] = LinkCount(r.contents, i)
      OBVIOUS
    <3>1. i \in Id /\ i \in d.inodes \ {Root}
      BY <1>1 DEF Sound, Tables
    <3>2. d.refcount[i] = LinkCount(d.contents, i)
      BY <3>1 DEF Sound, Counted
    <3> QED  BY <1>10, <1>13, <3>1, <3>2
  <2>2. r.refcount[Root] = 1
    BY <1>13 DEF Sound, Tables, Counted
  <2>3. ~Does("setxattr") => r.xattrs = {}
    BY <1>1 DEF Sound, Counted
  <2> QED  BY <1>11, <2>1, <2>2, <2>3 DEF Counted
<1>15. Linked(r, gone \cup ({f.inode} \cap d.dirs))
  <2>1. \A h \in d.contents : h.parent # f.inode
    BY DEF Children
  <2>2. \A h \in r.contents : h = ent \/ h \in d.contents \ {f}
    BY <1>4, <1>5, <1>6
  <2>3. \A h \in r.contents : /\ h.parent \in r.inodes /\ r.refcount[h.parent] > 0
                              /\ h.inode \in r.inodes \ {Root}
    <3>1. \A h \in d.contents : /\ h.parent \in r.inodes /\ r.refcount[h.parent] > 0
                                /\ h.inode \in r.inodes \ {Root}
      BY <1>1, <1>13, <2>1 DEF Sound, Tables, Linked
    <3> QED  BY <1>2, <2>2, <3>1
  <2>4. \A h, l \in r.contents : h.parent = l.parent /\ h.name = l.name => h = l
    BY <1>2, <2>2 DEF Sound, Linked
  <2>5. \A i \in r.inodes \cap r.dirs :
          r.refcount[i] = 0 => i \in gone \cup ({f.inode} \cap d.dirs)
    BY <1>1, <1>13 DEF Sound, Tables, Linked
  <2>6. \A i \in r.inodes : i < r.next
    BY <1>1 DEF Sound, Linked
  <2> QED  BY <2>3, <2>4, <2>5, <2>6 DEF Linked
<1> QED  BY <1>1, <1>12, <1>14, <1>15 DEF Sound

LEMMA SoundDelete ==
  ASSUME NEW d, NEW gone, Sound(d, gone), NEW i \in d.inodes, d.refcount[i] = 0, NEW r
  PROVE  r = DeleteInode(d, i) =>
           Sound(r, gone) /\ r.inodes = d.inodes \ {i} /\ r.refcount = d.refcount
<1>a. SUFFICES ASSUME r = DeleteInode(d, i)
               PROVE  Sound(r, gone) /\ r.inodes = d.inodes \ {i} /\ r.refcount = d.refcount
  OBVIOUS
<1>0. DOMAIN d = Columns /\ IsFiniteSet(d.contents) /\ IsFiniteSet(d.xattrs)
  BY DEF Sound, Tables
<1>1. /\ DOMAIN r = Columns /\ r.contents = d.contents /\ r.inodes = d.inodes \ {i}
      /\ r.names = [n \in Name |-> IF <<i, n>> \in d.xattrs /\ d.names[n] > 0
                                   THEN d.names[n] - 1 ELSE d.names[n]]
      /\ r.refcount = d.refcount /\ r.dirs = d.dirs /\ r.next = d.next
      /\ r.xattrs = {x \in d.xattrs : x[1] # i}
  BY <1>0, <1>a DEF Columns, DeleteInode
<1>2. i # Root
  BY DEF Sound, Counted
<1>3. /\ IsFiniteSet(r.xattrs)
      /\ \A n : AttrCount(r.xattrs, n) =
                  IF <<i, n>> \in d.xattrs THEN AttrCount(d.xattrs, n) - 1
                  ELSE AttrCount(d.xattrs, n)
  <2>1. d.xattrs \in SUBSET (Id \X Name)
    BY DEF Sound, Tables
  <2>2. r.xattrs = OtherAttrs(d.xattrs, i)
    BY <1>1 DEF OtherAttrs
  <2> QED  BY <1>0, <2>1, <2>2, AttrsRemoved
<1>4. ASSUME NEW k \in Name
      PROVE  /\ r.names[k] \in Nat
             /\ r.names[k] >= NameCount(r.contents, k) + AttrCount(r.xattrs, k)
             /\ ~Does("setxattr") => r.names[k] = NameCount(r.contents, k)
  <2>1. /\ NameCount(d.contents, k) \in Nat /\ AttrCount(d.xattrs, k) \in Nat
        /\ d.names[k] \in Nat
        /\ d.names[k] >= NameCount(d.contents, k) + AttrCount(d.xattrs, k)
        /\ ~Does("setxattr") => d.names[k] = NameCount(d.contents, k)
    BY NamesStay
  <2>2. <<i, k>> \in d.xattrs => AttrCount(d.xattrs, k) # 0
    <3>1. AttrCount(d.xattrs, k) = 0 => \A a \in d.xattrs : a[2] # k
      BY <1>0, AttrCountType
    <3> QED  BY <3>1
  <2>3. ~Does("setxattr") => d.xattrs = {}
    BY DEF Sound, Counted
  <2>4. r.contents = d.contents
    BY <1>1
  <2>5. r.names[k] = IF <<i, k>> \in d.xattrs /\ d.names[k] > 0 THEN d.names[k] - 1 ELSE d.names[k]
    BY <1>1
  <2>6. AttrCount(r.xattrs, k) =
          IF <<i, k>> \in d.xattrs THEN AttrCount(d.xattrs, k) - 1 ELSE AttrCount(d.xattrs, k)
    BY <1>3
  <2>7. CASE <<i, k>> \in d.xattrs
    <3>1. d.names[k] > 0
      BY <2>1, <2>2, <2>7
    <3>2. Does("setxattr")
      BY <2>3, <2>7
    <3> QED  BY <2>1, <2>2, <2>4, <2>5, <2>6, <2>7, <3>1, <3>2
  <2>8. CASE <<i, k>> \notin d.xattrs
    BY <2>1, <2>4, <2>5, <2>6, <2>8
  <2> QED  BY <2>7, <2>8
<1>5. Tables(r)
  <2>1. r.names \in [Name -> Nat]
    <3>1. DOMAIN r.names = Name /\ r.names = [k \in DOMAIN r.names |-> r.names[k]]
      BY <1>1
    <3> QED  BY <1>4, <3>1
  <2>2. r.xattrs \subseteq Id \X Name
    <3>1. d.xattrs \subseteq Id \X Name
      BY DEF Sound, Tables
    <3> QED  BY <1>1, <3>1
  <2> QED  BY <1>1, <1>2, <1>3, <2>1, <2>2 DEF Sound, Tables
<1>6. Counted(r)
  BY <1>1, <1>4 DEF Sound, Counted
<1>7. \A e \in d.contents : e.parent # i /\ e.inode # i
  <2>1. LinkCount(d.contents, i) = 0
    BY <1>2 DEF Sound, Counted
  <2>2. \A e \in d.contents : e.inode # i
    BY <1>0, <2>1, LinkCountType
  <2>3. \A e \in d.contents : e.parent # i
    BY DEF Sound, Linked
  <2> QED  BY <2>2, <2>3
<1>8. Linked(r, gone)
  BY <1>1, <1>7 DEF Sound, Linked
<1> QED  BY <1>1, <1>5, <1>6, <1>8 DEF Sound

LEMMA SoundAttr ==
  ASSUME NEW d, NEW gone, Sound(d, gone), NEW i \in Id, NEW n \in Name, Does("setxattr"), NEW r
  PROVE  r = Attaching(d, i, n) =>
           Sound(r, gone) /\ r.inodes = d.inodes /\ r.refcount = d.refcount
<1>a. SUFFICES ASSUME r = Attaching(d, i, n)
               PROVE  Sound(r, gone) /\ r.inodes = d.inodes /\ r.refcount = d.refcount
  OBVIOUS
<1>0. DOMAIN d = Columns /\ IsFiniteSet(d.xattrs)
  BY DEF Sound, Tables
<1>1. /\ DOMAIN r = Columns /\ r.contents = d.contents /\ r.inodes = d.inodes
      /\ r.names = [d.names EXCEPT ![n] = @ + 1]
      /\ r.refcount = d.refcount /\ r.dirs = d.dirs /\ r.next = d.next
      /\ r.xattrs = d.xattrs \cup {<<i, n>>}
  BY <1>0, <1>a DEF Columns, Attaching, _add_name
<1>2. /\ IsFiniteSet(r.xattrs)
      /\ \A k : AttrCount(r.xattrs, k) <=
                  IF n = k THEN AttrCount(d.xattrs, k) + 1 ELSE AttrCount(d.xattrs, k)
  <2>1. /\ IsFiniteSet(d.xattrs \cup {<<i, n>>})
        /\ \A k : AttrCount(d.xattrs \cup {<<i, n>>}, k) <=
                    IF n = k THEN AttrCount(d.xattrs, k) + 1 ELSE AttrCount(d.xattrs, k)
    BY <1>0, AttrAdded
  <2>2. r.xattrs = d.xattrs \cup {<<i, n>>}
    BY <1>1
  <2> QED  BY <2>1, <2>2
<1>3. ASSUME NEW k \in Name
      PROVE  /\ r.names[k] \in Nat
             /\ r.names[k] >= NameCount(r.contents, k) + AttrCount(r.xattrs, k)
  <2>1. /\ NameCount(d.contents, k) \in Nat /\ AttrCount(d.xattrs, k) \in Nat
        /\ d.names[k] \in Nat
        /\ d.names[k] >= NameCount(d.contents, k) + AttrCount(d.xattrs, k)
    BY NamesStay
  <2>2. AttrCount(r.xattrs, k) \in Nat
    BY <1>2, AttrCountType
  <2>3. d.names \in [Name -> Nat]
    BY DEF Sound, Tables
  <2>4. r.names[k] = IF n = k THEN d.names[k] + 1 ELSE d.names[k]
    BY <1>1, <2>3
  <2>5. AttrCount(r.xattrs, k) <= IF n = k THEN AttrCount(d.xattrs, k) + 1 ELSE AttrCount(d.xattrs, k)
    BY <1>2
  <2>6. r.contents = d.contents
    BY <1>1
  <2> QED  BY <2>1, <2>2, <2>4, <2>5, <2>6
<1>4. Tables(r)
  <2>1. r.names \in [Name -> Nat]
    <3>1. DOMAIN r.names = Name /\ r.names = [k \in DOMAIN r.names |-> r.names[k]]
      BY <1>1 DEF Sound, Tables
    <3> QED  BY <1>3, <3>1
  <2>2. r.xattrs \subseteq Id \X Name
    <3>1. d.xattrs \subseteq Id \X Name
      BY DEF Sound, Tables
    <3> QED  BY <1>1, <3>1
  <2> QED  BY <1>1, <1>2, <2>1, <2>2 DEF Sound, Tables
<1>5. Counted(r)
  BY <1>1, <1>3 DEF Sound, Counted
<1>6. Linked(r, gone)
  BY <1>1 DEF Sound, Linked
<1> QED  BY <1>1, <1>4, <1>5, <1>6 DEF Sound

-----------------------------------------------------------------------------
(* The handlers.                                                           *)

\* Nobody is in the middle of forget, and nobody unmounts.
Calm(t) ==
    /\ state # "unmounting"
    /\ task[t].pc \notin {"forget", "drop"}
    /\ \A u \in Task \ {t} : task[u].pc # "forget"

\* An inode that is neither linked nor open.
Unwanted(i) == i \in db.inodes /\ db.refcount[i] = 0 /\ open_inodes[i] = 0

(* A handler takes a step in calm: the inodes that wait for their deletion *)
(* are left alone, so the other handlers are not disturbed.                *)
LEMMA CalmStep ==
  ASSUME Inv, NEW t \in Task, Calm(t), UNCHANGED config,
         DOMAIN task' = Task, \A u \in Task \ {t} : task'[u] = task[u],
         state' \notin {"crashed", "unmounting"},
         "pc" \in DOMAIN task'[t], task'[t].pc \in {"idle", "write", "lock", "forget"},
         ForgetOK(t)',
         \A i \in Id : Unwanted(i) => Unwanted(i)',
         db'.inodes \subseteq Id,
         \A i \in Id : kernel'[i] <= open_inodes'[i],
         \A i \in Id : open_inodes'[i] > 0 => i \in db'.inodes,
         \A i \in db'.inodes : db'.refcount[i] = 0 => open_inodes'[i] > 0 \/ Unwanted(i)
  PROVE  Opened' /\ Handlers'
<1>1. ASSUME NEW u \in Task \ {t}
      PROVE  /\ "pc" \in DOMAIN task'[u] /\ task'[u].pc \in {"idle", "write", "lock", "drop"}
             /\ task'[u] = task[u]
  BY DEF Inv, Handlers, Calm
<1>2. ASSUME NEW u \in Task \ {t}, task[u].pc = "drop"
      PROVE  /\ task[u] = [pc |-> task[u].pc, list |-> task[u].list]
             /\ task[u].list \in Seq(Id \X Nat) /\ Fresh(task[u].list)
             /\ task[u].list # <<>> /\ Len(task[u].list) = 1
             /\ task[u].list[1][1] \in Id /\ Unwanted(task[u].list[1][1])
  <2>1. ForgetOK(u)
    BY DEF Inv, Handlers
  <2>2. db.inodes \subseteq Id
    BY DEF Inv, Sound, Tables
  <2> QED  BY <1>2, <2>1, <2>2 DEF ForgetOK, Calm, Unwanted
<1>3. ASSUME NEW u \in Task \ {t}  PROVE ForgetOK(u)'
  <2>1. CASE task[u].pc = "drop"
    <3>1. PICK l : l = task[u].list
      OBVIOUS
    <3>2. /\ task'[u] = [pc |-> "drop", list |-> l]
          /\ l \in Seq(Id \X Nat) /\ Fresh(l) /\ l # <<>> /\ Len(l) = 1
          /\ l[1][1] \in db'.inodes /\ db'.refcount[l[1][1]] = 0 /\ open_inodes'[l[1][1]] = 0
      BY <1>1, <1>2, <2>1, <3>1 DEF Unwanted
    <3>3. \A j \in 2 .. Len(l) : FALSE
      BY <3>2
    <3>4. task'[u].pc = "drop" /\ task'[u].list = l /\ Id' = Id
      BY <3>2 DEF Id
    <3> QED  BY <3>2, <3>3, <3>4 DEF ForgetOK, Fresh
  <2>2. CASE task[u].pc # "drop"
    BY <1>1, <2>2 DEF ForgetOK
  <2> QED  BY <2>1, <2>2
<1>4. ASSUME NEW u \in Task, NEW i \in Id, Drops(u, i)'
      PROVE  u # t /\ Drops(u, i)
  BY <1>1, <1>4 DEF Drops
<1>5. \A u, v \in Task : \A i \in Id' : Drops(u, i)' /\ Drops(v, i)' => u = v
  BY <1>4 DEF Inv, Handlers, Id
<1>6. Handlers'
  BY <1>1, <1>3, <1>5 DEF Handlers
<1>7. ASSUME NEW i \in db'.inodes, Unwanted(i)  PROVE \E u \in Task : Drops(u, i)'
  <2>1. PICK u \in Task : Drops(u, i)
    BY <1>7 DEF Inv, Opened, Unwanted
  <2>2. u # t
    BY <2>1 DEF Drops, Calm
  <2> QED  BY <1>1, <2>1, <2>2 DEF Drops
<1>8. Opened'
  BY <1>7 DEF Opened, Id
<1> QED  BY <1>6, <1>8

LEMMA SameSetting ==
  ASSUME UNCHANGED config
  PROVE  /\ Id' = Id /\ Name' = Name /\ (\A op : Does(op)' = Does(op)) /\ Entries' = Entries
         /\ Sound(db', dead') => Sound(db, dead)'
<1>1. /\ Id' = Id /\ Name' = Name /\ OpsOf' = OpsOf /\ Entries' = Entries
      /\ (\A op : Does(op)' = Does(op))
  BY DEF Id, Name, OpsOf, Entries, Does
<1>2. Tables(db') => Tables(db)'
  BY <1>1 DEF Tables
<1>3. Counted(db') => Counted(db)'
  BY <1>1 DEF Counted
<1>4. Linked(db', dead') => Linked(db, dead)'
  BY <1>1 DEF Linked
<1> QED  BY <1>1, <1>2, <1>3, <1>4 DEF Sound

\* The kernel names inodes that exist.
LEMMA HeldExists ==
  ASSUME Inv, NEW p \in Id, Held(p)
  PROVE  p \in db.inodes
BY DEF Inv, Held, Types, Opened, Sound, Tables

\* An entry's inode exists and is linked.
LEMMA EntryExists ==
  ASSUME Inv, NEW e \in db.contents
  PROVE  /\ e.parent \in Id /\ e.name \in Name /\ e.inode \in Id
         /\ e.inode \in db.inodes \ {Root} /\ e.parent \in db.inodes
         /\ db.refcount[e.inode] > 0 /\ db.names[e.name] > 0
<1>1. /\ Sound(db, dead) /\ IsFiniteSet(db.contents) /\ db.contents \subseteq Entries
  BY DEF Inv, Sound, Tables
<1>2. e.parent \in Id /\ e.name \in Name /\ e.inode \in Id
  BY <1>1, EntryParts
<1>3. e.inode \in db.inodes \ {Root} /\ e.parent \in db.inodes
  BY <1>1 DEF Sound, Linked
<1>4. db.refcount[e.inode] = LinkCount(db.contents, e.inode)
  BY <1>1, <1>3 DEF Sound, Counted
<1>5. LinkCount(db.contents, e.inode) \in Nat /\ LinkCount(db.contents, e.inode) # 0
  BY <1>1, LinkCountType
<1>6. NameCount(db.contents, e.name) # 0
  BY <1>1, NameCountType
<1>7. /\ NameCount(db.contents, e.name) \in Nat /\ AttrCount(db.xattrs, e.name) \in Nat
      /\ db.names[e.name] \in Nat
      /\ db.names[e.name] >= NameCount(db.contents, e.name) + AttrCount(db.xattrs, e.name)
  BY <1>1, <1>2, NamesStay
<1> QED  BY <1>2, <1>3, <1>4, <1>5, <1>6, <1>7

\* A request comes when nobody is in the middle of forget.
LEMMA RequestCalm ==
  ASSUME Inv, NEW t \in Task, NEW op, Request(op, t)
  PROVE  /\ Calm(t) /\ state \notin {"crashed", "unmounting"} /\ task[t] = Idle
         /\ running = NoTask /\ Does(op)
<1>1. task[t] = Idle /\ running = NoTask /\ state \notin {"crashed", "unmounting"} /\ op \in OpsOf[t]
  BY DEF Request
<1>2. ASSUME NEW u \in Task  PROVE task[u].pc # "forget"
  <2>1. ForgetOK(u)
    BY DEF Inv, Handlers
  <2> QED  BY <1>1, <2>1, NamespaceAssumption DEF ForgetOK
<1>3. task[t].pc = "idle"
  BY <1>1 DEF Idle
<1> QED  BY <1>1, <1>2, <1>3 DEF Calm, Does

\* A step that leaves the tasks and the tables alone.
LEMMA IdleStep ==
  ASSUME Inv, NEW t \in Task, Calm(t), UNCHANGED <<config, task, running, state>>,
         Sound(db', dead'),
         open_inodes' \in [Id -> Nat], kernel' \in [Id -> Nat],
         \A i \in Id : Unwanted(i) => Unwanted(i)',
         \A i \in Id : kernel'[i] <= open_inodes'[i],
         \A i \in Id : open_inodes'[i] > 0 => i \in db'.inodes,
         \A i \in db'.inodes : db'.refcount[i] = 0 => open_inodes'[i] > 0 \/ Unwanted(i)
  PROVE  Inv'
<1>1. DOMAIN task' = Task /\ (\A u \in Task \ {t} : task'[u] = task[u])
  BY DEF Inv, Types
<1>2. /\ state' \notin {"crashed", "unmounting"}
      /\ "pc" \in DOMAIN task'[t] /\ task'[t].pc \in {"idle", "write", "lock", "forget"}
  BY DEF Inv, Handlers, Calm
<1>3. ForgetOK(t)'
  BY DEF Calm, ForgetOK
<1>4. db'.inodes \subseteq Id
  BY DEF Sound, Tables
<1>5. Opened' /\ Handlers'
  BY <1>1, <1>2, <1>3, <1>4, CalmStep
<1>6. Types'
  BY <1>1, SameSetting DEF Inv, Types
<1> QED  BY <1>5, <1>6, SameSetting DEF Inv

\* Locking does not touch the other columns.
LEMMA SoundLocked ==
  ASSUME NEW d, NEW gone, Sound(d, gone), NEW L, NEW r
  PROVE  r = [d EXCEPT !.locked = L] =>
           Sound(r, gone) /\ r.inodes = d.inodes /\ r.refcount = d.refcount
<1>a. SUFFICES ASSUME r = [d EXCEPT !.locked = L]
               PROVE  Sound(r, gone) /\ r.inodes = d.inodes /\ r.refcount = d.refcount
  OBVIOUS
<1>1. DOMAIN d = Columns
  BY DEF Sound, Tables
<1>2. /\ DOMAIN r = Columns /\ r.names = d.names /\ r.contents = d.contents
      /\ r.inodes = d.inodes /\ r.refcount = d.refcount /\ r.dirs = d.dirs
      /\ r.xattrs = d.xattrs /\ r.next = d.next
  BY <1>1, <1>a DEF Columns
<1>3. Tables(r)
  BY <1>2 DEF Sound, Tables
<1>4. Counted(r)
  BY <1>2 DEF Sound, Counted
<1>5. Linked(r, gone)
  BY <1>2 DEF Sound, Linked
<1> QED  BY <1>2, <1>3, <1>4, <1>5 DEF Sound

\* A handler that only changes its own state, and locks.
LEMMA OwnStep ==
  ASSUME Inv, NEW t \in Task, Calm(t), UNCHANGED <<config, open_inodes, kernel, dead>>,
         state' \notin {"crashed", "unmounting"},
         Sound(db', dead), db'.inodes = db.inodes, db'.refcount = db.refcount,
         DOMAIN task' = Task, \A u \in Task \ {t} : task'[u] = task[u],
         "pc" \in DOMAIN task'[t], task'[t].pc \in {"idle", "write", "lock"}
  PROVE  Inv'
<1>1. ForgetOK(t)'
  BY DEF ForgetOK
<1>2. \A i \in Id : Unwanted(i) => Unwanted(i)'
  BY DEF Unwanted
<1>3. db'.inodes \subseteq Id
  BY DEF Inv, Sound, Tables
<1>4. \A i \in Id : kernel'[i] <= open_inodes'[i] /\ (open_inodes'[i] > 0 => i \in db'.inodes)
  BY DEF Inv, Opened
<1>5. \A i \in db'.inodes : db'.refcount[i] = 0 => open_inodes'[i] > 0 \/ Unwanted(i)
  <2>1. \A i \in db.inodes : open_inodes[i] \in Nat
    BY DEF Inv, Types, Sound, Tables
  <2> QED  BY <2>1 DEF Unwanted
<1>6. Opened' /\ Handlers'
  BY <1>1, <1>2, <1>3, <1>4, <1>5, CalmStep
<1>7. Types'
  BY SameSetting DEF Inv, Types
<1> QED  BY <1>6, <1>7, SameSetting DEF Inv

-----------------------------------------------------------------------------
(* One lemma per operation.                                                *)

\* An inode that is looked up counts as open.
LEMMA ReplyStep ==
  ASSUME Inv, NEW t \in Task, Calm(t), UNCHANGED <<config, task, running, state>>,
         Sound(db', dead'), NEW i \in Id, Reply(i), i \in db'.inodes, ~Unwanted(i),
         db.inodes \subseteq db'.inodes, db'.inodes \subseteq db.inodes \cup {i},
         \A j \in db.inodes \ {i} : db'.refcount[j] = db.refcount[j]
  PROVE  Inv'
<1>1. open_inodes \in [Id -> Nat] /\ kernel \in [Id -> Nat] /\ db'.inodes \subseteq Id
  BY DEF Inv, Types, Sound, Tables
<1>2. open_inodes' \in [Id -> Nat] /\ kernel' \in [Id -> Nat]
  BY <1>1 DEF Reply
<1>3. /\ open_inodes'[i] = open_inodes[i] + 1 /\ kernel'[i] = kernel[i] + 1
      /\ \A j \in Id \ {i} : open_inodes'[j] = open_inodes[j] /\ kernel'[j] = kernel[j]
  BY <1>1 DEF Reply
<1>4. \A j \in Id : Unwanted(j) => Unwanted(j)'
  BY <1>3 DEF Unwanted
<1>5. \A j \in Id : kernel'[j] <= open_inodes'[j] /\ (open_inodes'[j] > 0 => j \in db'.inodes)
  BY <1>1, <1>3 DEF Inv, Opened
<1>6. \A j \in db'.inodes : db'.refcount[j] = 0 => open_inodes'[j] > 0 \/ Unwanted(j)
  BY <1>1, <1>3 DEF Unwanted
<1> QED  BY <1>2, <1>4, <1>5, <1>6, IdleStep

LEMMA LookupKeeps ==
  ASSUME Inv, NEW t \in Task, NEW p \in Id, NEW n \in Name, _lookup(t, p, n), UNCHANGED config
  PROVE  Inv'
<1>1. Calm(t)
  BY RequestCalm DEF _lookup
<1>2. PICK e \in db.contents :
        IF e.inode \in db.inodes
        THEN Reply(e.inode) /\ UNCHANGED <<db, others, task, running, state>>
        ELSE Crash
  BY DEF _lookup, Lookups
<1>3. e.inode \in Id /\ e.inode \in db.inodes /\ db.refcount[e.inode] > 0
  BY EntryExists
<1>4. Reply(e.inode) /\ UNCHANGED <<db, dead, task, running, state>>
  BY <1>2, <1>3 DEF others
<1>5. Sound(db', dead') /\ ~Unwanted(e.inode)
  BY <1>3, <1>4 DEF Inv, Unwanted
<1>6. /\ e.inode \in db'.inodes /\ db.inodes \subseteq db'.inodes
      /\ db'.inodes \subseteq db.inodes \cup {e.inode}
      /\ \A j \in db.inodes \ {e.inode} : db'.refcount[j] = db.refcount[j]
  BY <1>3, <1>4
<1> QED  BY <1>1, <1>3, <1>4, <1>5, <1>6, ReplyStep

LEMMA CreateKeeps ==
  ASSUME Inv, NEW t \in Task, NEW p \in Id, NEW n \in Name, NEW dir \in BOOLEAN,
         _create(t, p, n, dir), UNCHANGED config
  PROVE  Inv'
<1>1. Calm(t) /\ p \in db.inodes
  BY RequestCalm, HeldExists DEF _create
<1>2. PICK m : m = db.next
  OBVIOUS
<1>3. /\ db' = AddEntry(create_inode(db, dir, 1), p, n, db.next) /\ Reply(m) /\ m \in Id
      /\ UNCHANGED <<dead, task, running, state>>
  BY <1>2 DEF _create, others
<1>4. Sound(db', dead) /\ db'.inodes = db.inodes \cup {m} /\ db'.refcount = [db.refcount EXCEPT ![m] = 1]
  BY <1>1, <1>2, <1>3, SoundCreate DEF _create, Inv
<1>5. m \notin db.inodes
  BY <1>2 DEF Inv, Sound, Tables, Linked
<1>6. \A j \in db.inodes \ {m} : db'.refcount[j] = db.refcount[j]
  BY <1>4 DEF Inv, Sound, Tables
<1>7. ~Unwanted(m)
  BY <1>5 DEF Unwanted
<1> QED  BY <1>1, <1>3, <1>4, <1>6, <1>7, ReplyStep

LEMMA LinkKeeps ==
  ASSUME Inv, NEW t \in Task, NEW i \in Id, NEW p \in Id, NEW n \in Name,
         link(t, i, p, n), UNCHANGED config
  PROVE  Inv'
<1>1. Calm(t) /\ p \in db.inodes /\ i \in db.inodes
  BY RequestCalm, HeldExists DEF link
<1>2. i # Root
  BY DEF link, Inv, Sound, Tables
<1>3. /\ db' = Linking(db, p, n, i) /\ Reply(i)
      /\ UNCHANGED <<dead, task, running, state>>
      /\ db.refcount[p] > 0 /\ ~\E e \in db.contents : e.parent = p /\ e.name = n
  BY DEF link, Linking, others
<1>4. Sound(db', dead) /\ db'.inodes = db.inodes /\ db'.refcount = [db.refcount EXCEPT ![i] = @ + 1]
  BY <1>1, <1>2, <1>3, SoundLink DEF Inv
<1>5. \A j \in db.inodes \ {i} : db'.refcount[j] = db.refcount[j]
  BY <1>4 DEF Inv, Sound, Tables
<1>6. ~Unwanted(i)
  BY <1>2 DEF link, Held, Unwanted, Inv, Opened, Types
<1> QED  BY <1>1, <1>3, <1>4, <1>5, <1>6, ReplyStep

LEMMA SetxattrKeeps ==
  ASSUME Inv, NEW t \in Task, NEW i \in Id, NEW n \in Name, setxattr(t, i, n), UNCHANGED config
  PROVE  Inv'
<1>1. Calm(t) /\ Does("setxattr") /\ state \notin {"crashed", "unmounting"}
  BY RequestCalm DEF setxattr
<1>2. /\ db' = Attaching(db, i, n)
      /\ UNCHANGED <<open_inodes, kernel, dead, task, running, state>>
  BY DEF setxattr, Attaching, others
<1>3. Sound(db', dead) /\ db'.inodes = db.inodes /\ db'.refcount = db.refcount
  BY <1>1, <1>2, SoundAttr DEF Inv
<1>4. /\ DOMAIN task' = Task /\ (\A u \in Task \ {t} : task'[u] = task[u])
      /\ "pc" \in DOMAIN task'[t] /\ task'[t].pc \in {"idle", "write", "lock"}
  BY <1>1, <1>2 DEF Inv, Types, Handlers, Calm
<1> QED  BY <1>1, <1>2, <1>3, <1>4, OwnStep

\* The entries of a directory that are told to the kernel.
Sent(p, last, i) == Cardinality({e \in Children(db, p) :
                        e.name <= last /\ db.names[e.name] > 0 /\ e.inode = i})

LEMMA ReaddirKeeps ==
  ASSUME Inv, NEW t \in Task, NEW p \in Id, NEW n \in Name, readdir(t, p, n), UNCHANGED config
  PROVE  Inv'
<1>1. Calm(t) /\ open_inodes \in [Id -> Nat] /\ kernel \in [Id -> Nat]
  BY RequestCalm DEF readdir, Inv, Types
<1>2. ASSUME NEW i \in Id
      PROVE  /\ Sent(p, n, i) \in Nat
             /\ Sent(p, n, i) > 0 => i \in db.inodes /\ db.refcount[i] > 0
  <2> DEFINE S == {e \in Children(db, p) : e.name <= n /\ db.names[e.name] > 0 /\ e.inode = i}
  <2>1. S \in SUBSET db.contents /\ IsFiniteSet(db.contents)
    BY DEF Children, Inv, Sound, Tables
  <2>2. IsFiniteSet(S)
    BY <2>1, FS_Subset
  <2>3. Cardinality(S) \in Nat /\ (Cardinality(S) = 0 <=> S = {})
    BY <2>2, FS_CardinalityType, FS_EmptySet
  <2>4. \A e \in S : e.inode = i /\ i \in db.inodes /\ db.refcount[i] > 0
    BY <2>1, EntryExists
  <2>5. Sent(p, n, i) = Cardinality(S)
    BY DEF Sent
  <2> HIDE DEF S
  <2> QED  BY <2>3, <2>4, <2>5
<1>3. /\ kernel' = [i \in Id |-> kernel[i] + Sent(p, n, i)]
      /\ open_inodes' = [i \in Id |-> open_inodes[i] + Sent(p, n, i)]
      /\ UNCHANGED <<db, dead, task, running, state>>
  <2>1. ~\E i \in Id : Sent(p, n, i) > 0 /\ i \notin db.inodes
    BY <1>2
  <2> QED  BY <2>1 DEF readdir, Sent, others
<1>4. open_inodes' \in [Id -> Nat] /\ kernel' \in [Id -> Nat]
  BY <1>1, <1>2, <1>3
<1>5. \A i \in Id : kernel'[i] = kernel[i] + Sent(p, n, i) /\ open_inodes'[i] = open_inodes[i] + Sent(p, n, i)
  BY <1>3
<1>6. \A i \in Id : kernel'[i] <= open_inodes'[i] /\ (open_inodes'[i] > 0 => i \in db'.inodes)
  BY <1>1, <1>2, <1>3, <1>5 DEF Inv, Opened
<1>7. \A i \in Id : Unwanted(i) => Unwanted(i)'
  <2>1. \A i \in Id : Unwanted(i) => Sent(p, n, i) = 0
    BY <1>2 DEF Unwanted
  <2> QED  BY <2>1, <1>3, <1>5 DEF Unwanted
<1>8. \A i \in db'.inodes : db'.refcount[i] = 0 => open_inodes'[i] > 0 \/ Unwanted(i)
  <2>1. db.inodes \subseteq Id
    BY DEF Inv, Sound, Tables
  <2> QED  BY <1>1, <1>2, <1>3, <1>5, <2>1 DEF Unwanted
<1>9. Sound(db', dead')
  BY <1>3 DEF Inv
<1> QED  BY <1>1, <1>3, <1>4, <1>6, <1>7, <1>8, <1>9, IdleStep

\* A handler that waits for the cache, or at a checkpoint, finds calm.
LEMMA WorkCalm ==
  ASSUME Inv, NEW t \in Task, task[t].pc \in {"write", "lock"}, running \in {NoTask, t}
  PROVE  Calm(t) /\ state \notin {"crashed", "unmounting"}
<1>1. state \notin {"crashed", "unmounting"}
  BY DEF Inv, Handlers
<1>2. ASSUME NEW u \in Task \ {t}  PROVE task[u].pc # "forget"
  <2>1. ForgetOK(u)
    BY DEF Inv, Handlers
  <2> QED  BY <2>1, NamespaceAssumption DEF ForgetOK
<1> QED  BY <1>1, <1>2 DEF Calm

LEMMA WriteKeeps ==
  ASSUME Inv, NEW t \in Task, NEW i \in Id, UNCHANGED config,
         write(t, i) \/ write_end(t)
  PROVE  Inv'
<1>1. Calm(t) /\ state \notin {"crashed", "unmounting"}
  BY RequestCalm, WorkCalm DEF write, write_end
<1>2. UNCHANGED <<db, open_inodes, kernel, dead, state>>
  BY DEF write, write_end, others
<1>3. /\ DOMAIN task' = Task /\ (\A u \in Task \ {t} : task'[u] = task[u])
      /\ "pc" \in DOMAIN task'[t] /\ task'[t].pc \in {"idle", "write", "lock"}
  BY DEF Inv, Types, write, write_end, Idle
<1>4. Sound(db', dead)
  BY <1>2 DEF Inv
<1> QED  BY <1>1, <1>2, <1>3, <1>4, OwnStep

LEMMA FailsafeKeeps ==
  ASSUME Inv, EnterFailsafe, UNCHANGED config
  PROVE  Inv'
<1>1. PICK t \in Task : Request("fail", t)
  BY DEF EnterFailsafe
<1>2. Calm(t) /\ task[t] = Idle
  BY <1>1, RequestCalm
<1>3. UNCHANGED <<db, open_inodes, kernel, dead, task>> /\ state' \notin {"crashed", "unmounting"}
  BY DEF EnterFailsafe, others
<1>4. /\ DOMAIN task' = Task /\ (\A u \in Task \ {t} : task'[u] = task[u])
      /\ "pc" \in DOMAIN task'[t] /\ task'[t].pc \in {"idle", "write", "lock"}
  BY <1>2, <1>3 DEF Inv, Types, Idle
<1>5. Sound(db', dead)
  BY <1>3 DEF Inv
<1> QED  BY <1>2, <1>3, <1>4, <1>5, OwnStep

\* Any step of lock_tree.
LEMMA LockStep ==
  ASSUME Inv, NEW t \in Task, Calm(t), state \notin {"crashed", "unmounting"},
         UNCHANGED <<config, open_inodes, kernel, dead, state>>,
         NEW L, db' = [db EXCEPT !.locked = L],
         DOMAIN task' = Task, \A u \in Task \ {t} : task'[u] = task[u],
         "pc" \in DOMAIN task'[t], task'[t].pc \in {"idle", "lock"}
  PROVE  Inv'
<1>1. Sound(db', dead) /\ db'.inodes = db.inodes /\ db'.refcount = db.refcount
  BY SoundLocked DEF Inv
<1> QED  BY <1>1, OwnStep

LEMMA LockKeeps ==
  ASSUME Inv, NEW t \in Task, NEW i \in Id, UNCHANGED config,
         lock_tree(t, i) \/ lock_tree_dir(t) \/ lock_tree_end(t)
  PROVE  Inv'
<1>1. DOMAIN task = Task /\ "pc" \in DOMAIN task[t]
  BY DEF Inv, Types, Handlers
<1>2. CASE lock_tree(t, i)
  <2>1. Calm(t) /\ state \notin {"crashed", "unmounting"}
    BY <1>2, RequestCalm DEF lock_tree
  <2>2. /\ UNCHANGED <<open_inodes, kernel, dead, state>>
        /\ DOMAIN task' = Task /\ (\A u \in Task \ {t} : task'[u] = task[u])
        /\ "pc" \in DOMAIN task'[t] /\ task'[t].pc = "lock"
    BY <1>1, <1>2 DEF lock_tree, others
  <2>3. db' = [db EXCEPT !.locked = @ \cup {i}]
    BY <1>2 DEF lock_tree
  <2> QED  BY <2>1, <2>2, <2>3, LockStep
<1>3. CASE lock_tree_dir(t)
  <2>1. Calm(t) /\ state \notin {"crashed", "unmounting"}
    BY <1>3, WorkCalm DEF lock_tree_dir
  <2>2. UNCHANGED <<open_inodes, kernel, dead, state>> /\ task[t].pc = "lock"
    BY <1>3 DEF lock_tree_dir, others
  <2>3. \E L : db' = [db EXCEPT !.locked = L]
    BY <1>3 DEF lock_tree_dir
  <2>4. \E q : task' = [task EXCEPT ![t].queue = q]
    BY <1>3 DEF lock_tree_dir
  <2>5. /\ DOMAIN task' = Task /\ (\A u \in Task \ {t} : task'[u] = task[u])
        /\ "pc" \in DOMAIN task'[t] /\ task'[t].pc = "lock"
    BY <1>1, <2>2, <2>4
  <2> QED  BY <2>1, <2>2, <2>3, <2>5, LockStep
<1>4. CASE lock_tree_end(t)
  <2>1. Calm(t) /\ state \notin {"crashed", "unmounting"}
    BY <1>4, WorkCalm DEF lock_tree_end
  <2>2. /\ UNCHANGED <<db, open_inodes, kernel, dead, state>>
        /\ DOMAIN task' = Task /\ (\A u \in Task \ {t} : task'[u] = task[u])
        /\ "pc" \in DOMAIN task'[t] /\ task'[t].pc \in {"idle", "write", "lock"}
    BY <1>1, <1>4 DEF lock_tree_end, Idle
  <2>3. Sound(db', dead) /\ db'.inodes = db.inodes /\ db'.refcount = db.refcount
    BY <2>2 DEF Inv
  <2> QED  BY <2>1, <2>2, <2>3, OwnStep
<1> QED  BY <1>2, <1>3, <1>4

\* A handler goes on to forget the lookups in list l, which it counted.
LEMMA ForgetStep ==
  ASSUME Inv, NEW t \in Task, Calm(t), UNCHANGED <<config, state>>, Sound(db', dead'),
         open_inodes' \in [Id -> Nat], kernel' \in [Id -> Nat],
         NEW l \in Seq(Id \X Nat), task' = [task EXCEPT ![t] = Forgetting(l)], running' = t,
         Fresh(l),
         \A j \in 1 .. Len(l) : Owed(l[j])',
         \A j \in 1 .. Len(l) - 1 : db'.refcount[l[j][1]] > 0,
         \A i \in Id : Unwanted(i) => Unwanted(i)',
         \A i \in Id : kernel'[i] <= open_inodes'[i],
         \A i \in Id : open_inodes'[i] > 0 => i \in db'.inodes,
         \A i \in db'.inodes : db'.refcount[i] = 0 => open_inodes'[i] > 0 \/ Unwanted(i)
  PROVE  Inv'
<1>1. /\ DOMAIN task' = Task /\ (\A u \in Task \ {t} : task'[u] = task[u])
      /\ task'[t] = [pc |-> "forget", list |-> l]
  BY DEF Inv, Types, Forgetting
<1>2. /\ state' \notin {"crashed", "unmounting"}
      /\ "pc" \in DOMAIN task'[t] /\ task'[t].pc = "forget" /\ task'[t].list = l
  BY <1>1 DEF Inv, Handlers, Calm
<1>3. ForgetOK(t)'
  <2>1. Id' = Id
    BY SameSetting
  <2> QED  BY <1>1, <1>2, <2>1 DEF ForgetOK, Fresh
<1>4. db'.inodes \subseteq Id
  BY DEF Sound, Tables
<1>5. Opened' /\ Handlers'
  BY <1>1, <1>2, <1>3, <1>4, CalmStep
<1>6. Types'
  BY <1>1, SameSetting DEF Inv, Types
<1> QED  BY <1>5, <1>6, SameSetting DEF Inv

LEMMA ForgetKeeps ==
  ASSUME Inv, NEW t \in Task, forget(t), UNCHANGED config
  PROVE  Inv'
<1>1. PICK i \in Id : \E n \in 1 .. kernel[i] :
        /\ Request("forget", t)
        /\ kernel' = [kernel EXCEPT ![i] = @ - n]
        /\ task' = [task EXCEPT ![t] = Forgetting(<< <<i, n>> >>)]
        /\ running' = t
        /\ UNCHANGED <<db, open_inodes, dead, state>>
  BY DEF forget, others
<1>2. PICK n \in 1 .. kernel[i] :
        /\ Request("forget", t)
        /\ kernel' = [kernel EXCEPT ![i] = @ - n]
        /\ task' = [task EXCEPT ![t] = Forgetting(<< <<i, n>> >>)]
        /\ running' = t
        /\ UNCHANGED <<db, open_inodes, dead, state>>
  BY <1>1
<1>3. Calm(t) /\ open_inodes \in [Id -> Nat] /\ kernel \in [Id -> Nat]
  BY <1>2, RequestCalm DEF Inv, Types
<1>4. /\ n \in Nat /\ n >= 1 /\ kernel[i] >= n
      /\ kernel' \in [Id -> Nat] /\ open_inodes' \in [Id -> Nat]
      /\ kernel'[i] = kernel[i] - n
      /\ \A j \in Id : kernel'[j] <= kernel[j]
  BY <1>2, <1>3
<1>5. PICK l : l = << <<i, n>> >>
  OBVIOUS
<1>6. l \in Seq(Id \X Nat) /\ Len(l) = 1 /\ l[1] = <<i, n>> /\ Fresh(l)
  BY <1>4, <1>5 DEF Fresh
<1>7. \A j \in 1 .. Len(l) : Owed(l[j])'
  <2>1. open_inodes[i] >= kernel[i] /\ open_inodes[i] \in Nat /\ kernel[i] \in Nat
    BY <1>3 DEF Inv, Opened
  <2> QED  BY <1>2, <1>4, <1>6, <2>1 DEF Owed
<1>8. \A j \in 1 .. Len(l) - 1 : db'.refcount[l[j][1]] > 0
  BY <1>6
<1>9. /\ \A j \in Id : Unwanted(j) => Unwanted(j)'
      /\ \A j \in Id : kernel'[j] <= open_inodes'[j]
      /\ \A j \in Id : open_inodes'[j] > 0 => j \in db'.inodes
      /\ \A j \in db'.inodes : db'.refcount[j] = 0 => open_inodes'[j] > 0 \/ Unwanted(j)
  <2>1. db.inodes \subseteq Id
    BY DEF Inv, Sound, Tables
  <2>2. \A j \in Id : kernel'[j] <= open_inodes'[j]
    <3>1. \A j \in Id : kernel[j] <= open_inodes[j] /\ kernel'[j] <= kernel[j]
      BY <1>4 DEF Inv, Opened
    <3> QED  BY <1>2, <1>3, <1>4, <3>1
  <2> QED  BY <1>2, <1>3, <2>1, <2>2 DEF Inv, Opened, Unwanted
<1>10. Sound(db', dead')
  BY <1>2 DEF Inv
<1> QED  BY <1>2, <1>3, <1>4, <1>5, <1>6, <1>7, <1>8, <1>9, <1>10, ForgetStep

\* The inode of an entry is opened, and may lose a link.
LEMMA OpenOne ==
  ASSUME Inv, NEW e \in db.contents,
         open_inodes' = [open_inodes EXCEPT ![e.inode] = @ + 1], UNCHANGED kernel,
         db'.inodes = db.inodes,
         \A i \in db.inodes \ {e.inode} : db'.refcount[i] = db.refcount[i]
  PROVE  /\ open_inodes' \in [Id -> Nat] /\ kernel' \in [Id -> Nat]
         /\ open_inodes'[e.inode] >= 1 + kernel'[e.inode]
         /\ \A i \in Id : Unwanted(i) => Unwanted(i)'
         /\ \A i \in Id : kernel'[i] <= open_inodes'[i]
         /\ \A i \in Id : open_inodes'[i] > 0 => i \in db'.inodes
         /\ \A i \in db'.inodes : db'.refcount[i] = 0 => open_inodes'[i] > 0 \/ Unwanted(i)
<1>1. PICK o : o = e.inode
  OBVIOUS
<1>2. o \in Id /\ o \in db.inodes /\ db.refcount[o] > 0
  BY <1>1, EntryExists
<1>3. open_inodes \in [Id -> Nat] /\ kernel \in [Id -> Nat] /\ db.inodes \subseteq Id
  BY DEF Inv, Types, Sound, Tables
<1>4. /\ open_inodes' \in [Id -> Nat] /\ open_inodes'[o] = open_inodes[o] + 1
      /\ \A i \in Id \ {o} : open_inodes'[i] = open_inodes[i]
  BY <1>1, <1>2, <1>3
<1>5. \A i \in Id : kernel[i] <= open_inodes[i] /\ (open_inodes[i] > 0 => i \in db.inodes)
  BY DEF Inv, Opened
<1>6. \A i \in Id : Unwanted(i) => Unwanted(i)'
  BY <1>1, <1>2, <1>3, <1>4 DEF Unwanted
<1>7. \A i \in db'.inodes : db'.refcount[i] = 0 => open_inodes'[i] > 0 \/ Unwanted(i)
  BY <1>1, <1>2, <1>3, <1>4 DEF Unwanted
<1>8. \A i \in Id : kernel'[i] <= open_inodes'[i] /\ (open_inodes'[i] > 0 => i \in db'.inodes)
  BY <1>2, <1>3, <1>4, <1>5
<1>9. open_inodes'[o] >= 1 + kernel'[o]
  BY <1>2, <1>3, <1>4, <1>5
<1> QED  BY <1>1, <1>3, <1>4, <1>6, <1>7, <1>8, <1>9

LEMMA UnlinkKeeps ==
  ASSUME Inv, NEW t \in Task, NEW p \in Id, NEW n \in Name, unlink(t, p, n), UNCHANGED config
  PROVE  Inv'
<1>1. Calm(t)
  BY RequestCalm DEF unlink
<1>2. PICK e \in db.contents :
         /\ e.parent = p /\ e.name = n
         /\ IF e.inode \notin db.inodes THEN Crash
            ELSE /\ open_inodes' = [open_inodes EXCEPT ![e.inode] = @ + 1]
                 /\ IF p \in db.locked \/ Children(db, e.inode) # {}
                    THEN UNCHANGED <<db, dead, task, running>>
                    ELSE /\ db' = RemoveEntry(db, p, n, e.inode)
                         /\ dead' = dead \cup ({e.inode} \cap db.dirs)
                         /\ task' = [task EXCEPT
                                ![t] = Forgetting(<< <<e.inode, 1>> >>)]
                         /\ running' = t
                 /\ UNCHANGED <<kernel, content, sealed, state>>
  BY DEF unlink, Lookups
<1>3. e.inode \in Id /\ e.inode \in db.inodes /\ db.refcount[e.inode] > 0
  BY EntryExists
<1>4. open_inodes' = [open_inodes EXCEPT ![e.inode] = @ + 1] /\ UNCHANGED <<kernel, state>>
  BY <1>2, <1>3
<1>5. CASE p \in db.locked \/ Children(db, e.inode) # {}
  <2>1. UNCHANGED <<db, dead, task, running>>
    BY <1>2, <1>3, <1>5
  <2>2. Sound(db', dead')
    BY <2>1 DEF Inv
  <2>3. db'.inodes = db.inodes /\ \A i \in db.inodes \ {e.inode} : db'.refcount[i] = db.refcount[i]
    BY <2>1
  <2> QED  BY <1>1, <1>4, <2>1, <2>2, <2>3, OpenOne, IdleStep
<1>6. CASE ~(p \in db.locked \/ Children(db, e.inode) # {})
  <2>1. /\ db' = RemoveEntry(db, e.parent, e.name, e.inode)
        /\ dead' = dead \cup ({e.inode} \cap db.dirs)
        /\ task' = [task EXCEPT ![t] = Forgetting(<< <<e.inode, 1>> >>)]
        /\ running' = t
    BY <1>2, <1>3, <1>6
  <2>2. /\ Sound(db', dead') /\ db'.inodes = db.inodes
        /\ db'.refcount = [db.refcount EXCEPT ![e.inode] = @ - 1]
    BY <1>6, <2>1, SoundUnlink DEF Inv
  <2>3. \A i \in db.inodes \ {e.inode} : db'.refcount[i] = db.refcount[i]
    BY <2>2 DEF Inv, Sound, Tables
  <2>4. PICK l : l = << <<e.inode, 1>> >>
    OBVIOUS
  <2>5. l \in Seq(Id \X Nat) /\ Len(l) = 1 /\ l[1] = <<e.inode, 1>> /\ Fresh(l)
    BY <1>3, <2>4 DEF Fresh
  <2>6. /\ open_inodes' \in [Id -> Nat] /\ kernel' \in [Id -> Nat]
        /\ open_inodes'[e.inode] >= 1 + kernel'[e.inode]
        /\ \A i \in Id : Unwanted(i) => Unwanted(i)'
        /\ \A i \in Id : kernel'[i] <= open_inodes'[i]
        /\ \A i \in Id : open_inodes'[i] > 0 => i \in db'.inodes
        /\ \A i \in db'.inodes : db'.refcount[i] = 0 => open_inodes'[i] > 0 \/ Unwanted(i)
    BY <1>4, <2>2, <2>3, OpenOne
  <2>7. \A j \in 1 .. Len(l) : Owed(l[j])'
    BY <2>5, <2>6 DEF Owed
  <2>8. \A j \in 1 .. Len(l) - 1 : db'.refcount[l[j][1]] > 0
    BY <2>5
  <2> QED  BY <1>1, <1>4, <2>1, <2>2, <2>4, <2>5, <2>6, <2>7, <2>8, ForgetStep
<1> QED  BY <1>5, <1>6

\* Two inodes with entries are opened, and the second may lose a link.
LEMMA OpenTwo ==
  ASSUME Inv, NEW e \in db.contents, NEW f \in db.contents, e.inode # f.inode,
         open_inodes' = [open_inodes EXCEPT ![e.inode] = @ + 1, ![f.inode] = @ + 1],
         UNCHANGED kernel, db'.inodes = db.inodes,
         \A i \in db.inodes \ {f.inode} : db'.refcount[i] = db.refcount[i]
  PROVE  /\ open_inodes' \in [Id -> Nat] /\ kernel' \in [Id -> Nat]
         /\ open_inodes'[e.inode] >= 1 + kernel'[e.inode]
         /\ open_inodes'[f.inode] >= 1 + kernel'[f.inode]
         /\ \A i \in Id : Unwanted(i) => Unwanted(i)'
         /\ \A i \in Id : kernel'[i] <= open_inodes'[i]
         /\ \A i \in Id : open_inodes'[i] > 0 => i \in db'.inodes
         /\ \A i \in db'.inodes : db'.refcount[i] = 0 => open_inodes'[i] > 0 \/ Unwanted(i)
<1>1. PICK o : o = e.inode
  OBVIOUS
<1>2. PICK v : v = f.inode
  OBVIOUS
<1>3. /\ o \in Id /\ o \in db.inodes /\ db.refcount[o] > 0
      /\ v \in Id /\ v \in db.inodes /\ db.refcount[v] > 0 /\ o # v
  BY <1>1, <1>2, EntryExists
<1>4. open_inodes \in [Id -> Nat] /\ kernel \in [Id -> Nat] /\ db.inodes \subseteq Id
  BY DEF Inv, Types, Sound, Tables
<1>5. /\ open_inodes' \in [Id -> Nat]
      /\ open_inodes'[o] = open_inodes[o] + 1 /\ open_inodes'[v] = open_inodes[v] + 1
      /\ \A i \in Id \ {o, v} : open_inodes'[i] = open_inodes[i]
  BY <1>1, <1>2, <1>3, <1>4
<1>6. \A i \in Id : kernel[i] <= open_inodes[i] /\ (open_inodes[i] > 0 => i \in db.inodes)
  BY DEF Inv, Opened
<1>7. \A i \in Id : Unwanted(i) => Unwanted(i)'
  BY <1>1, <1>2, <1>3, <1>4, <1>5 DEF Unwanted
<1>8. \A i \in db'.inodes : db'.refcount[i] = 0 => open_inodes'[i] > 0 \/ Unwanted(i)
  BY <1>1, <1>2, <1>3, <1>4, <1>5 DEF Unwanted
<1>9. \A i \in Id : kernel'[i] <= open_inodes'[i] /\ (open_inodes'[i] > 0 => i \in db'.inodes)
  BY <1>3, <1>4, <1>5, <1>6
<1>10. open_inodes'[o] >= 1 + kernel'[o] /\ open_inodes'[v] >= 1 + kernel'[v]
  BY <1>3, <1>4, <1>5, <1>6
<1> QED  BY <1>1, <1>2, <1>4, <1>5, <1>7, <1>8, <1>9, <1>10

\* The two ways of rename.
RenameFree(t, e, q, m) ==
    /\ db' = _rename(db, e.parent, e.name, q, m, e.inode)
    /\ open_inodes' = [open_inodes EXCEPT ![e.inode] = @ + 1]
    /\ task' = [task EXCEPT ![t] = Forgetting(<< <<e.inode, 1>> >>)]
    /\ running' = t
    /\ UNCHANGED <<dead, kernel, state>>

RenameOnto(t, e, f) ==
    /\ f.inode # e.inode
    /\ open_inodes' = [open_inodes EXCEPT ![e.inode] = @ + 1, ![f.inode] = @ + 1]
    /\ IF Children(db, f.inode) # {}
       THEN UNCHANGED <<db, dead, task, running>>
       ELSE /\ db' = _replace(db, e.parent, e.name, f.parent, f.name, e.inode, f.inode)
            /\ task' = [task EXCEPT ![t] = Forgetting(<< <<e.inode, 1>>, <<f.inode, 1>> >>)]
            /\ dead' = dead \cup ({f.inode} \cap db.dirs)
            /\ running' = t
    /\ UNCHANGED <<kernel, state>>

LEMMA RenameFreeKeeps ==
  ASSUME Inv, NEW t \in Task, Calm(t), UNCHANGED config, NEW e \in db.contents,
         NEW q \in db.inodes, db.refcount[q] > 0, NEW m \in Name,
         ~\E f \in db.contents : f.parent = q /\ f.name = m, RenameFree(t, e, q, m)
  PROVE  Inv'
<1>1. e.inode \in Id /\ e.inode \in db.inodes /\ db.refcount[e.inode] > 0
  BY EntryExists
<1>2. Sound(db', dead') /\ db'.inodes = db.inodes /\ db'.refcount = db.refcount
  BY SoundRename DEF Inv, RenameFree
<1>3. PICK l : l = << <<e.inode, 1>> >>
  OBVIOUS
<1>4. l \in Seq(Id \X Nat) /\ Len(l) = 1 /\ l[1] = <<e.inode, 1>> /\ Fresh(l)
  BY <1>1, <1>3 DEF Fresh
<1>5. /\ open_inodes' \in [Id -> Nat] /\ kernel' \in [Id -> Nat]
      /\ open_inodes'[e.inode] >= 1 + kernel'[e.inode]
      /\ \A i \in Id : Unwanted(i) => Unwanted(i)'
      /\ \A i \in Id : kernel'[i] <= open_inodes'[i]
      /\ \A i \in Id : open_inodes'[i] > 0 => i \in db'.inodes
      /\ \A i \in db'.inodes : db'.refcount[i] = 0 => open_inodes'[i] > 0 \/ Unwanted(i)
  BY <1>2, OpenOne DEF RenameFree
<1>6. \A j \in 1 .. Len(l) : Owed(l[j])'
  BY <1>4, <1>5 DEF Owed
<1>7. \A j \in 1 .. Len(l) - 1 : db'.refcount[l[j][1]] > 0
  BY <1>4
<1>8. task' = [task EXCEPT ![t] = Forgetting(l)] /\ running' = t /\ UNCHANGED state
  BY <1>3 DEF RenameFree
<1> QED  BY <1>2, <1>4, <1>5, <1>6, <1>7, <1>8, ForgetStep

LEMMA RenameOntoKeeps ==
  ASSUME Inv, NEW t \in Task, Calm(t), UNCHANGED config, NEW e \in db.contents,
         NEW f \in db.contents, RenameOnto(t, e, f)
  PROVE  Inv'
<1>1. /\ e.inode \in Id /\ e.inode \in db.inodes /\ db.refcount[e.inode] > 0
      /\ f.inode \in Id /\ f.inode \in db.inodes
  BY EntryExists
<1>2. /\ open_inodes' = [open_inodes EXCEPT ![e.inode] = @ + 1, ![f.inode] = @ + 1]
      /\ e.inode # f.inode /\ UNCHANGED <<kernel, state>>
  BY DEF RenameOnto
<1>3. CASE Children(db, f.inode) # {}
  <2>1. UNCHANGED <<db, dead, task, running>>
    BY <1>3 DEF RenameOnto
  <2>2. Sound(db', dead')
    BY <2>1 DEF Inv
  <2>3. db'.inodes = db.inodes /\ \A i \in db.inodes \ {f.inode} : db'.refcount[i] = db.refcount[i]
    BY <2>1
  <2> QED  BY <1>2, <2>1, <2>2, <2>3, OpenTwo, IdleStep
<1>4. CASE Children(db, f.inode) = {}
  <2>1. /\ db' = _replace(db, e.parent, e.name, f.parent, f.name, e.inode, f.inode)
        /\ task' = [task EXCEPT ![t] = Forgetting(<< <<e.inode, 1>>, <<f.inode, 1>> >>)]
        /\ dead' = dead \cup ({f.inode} \cap db.dirs)
        /\ running' = t
    BY <1>4 DEF RenameOnto
  <2>2. /\ Sound(db', dead') /\ db'.inodes = db.inodes
        /\ db'.refcount = [db.refcount EXCEPT ![f.inode] = @ - 1]
    BY <1>2, <1>4, <2>1, SoundReplace DEF Inv
  <2>3. \A i \in db.inodes \ {f.inode} : db'.refcount[i] = db.refcount[i]
    BY <2>2 DEF Inv, Sound, Tables
  <2>4. PICK l : l = << <<e.inode, 1>>, <<f.inode, 1>> >>
    OBVIOUS
  <2>5. /\ l \in Seq(Id \X Nat) /\ Len(l) = 2
        /\ l[1] = <<e.inode, 1>> /\ l[2] = <<f.inode, 1>>
    BY <1>1, <2>4
  <2>6. Fresh(l) /\ \A j \in 1 .. Len(l) - 1 : db'.refcount[l[j][1]] > 0
    BY <1>1, <1>2, <2>3, <2>5 DEF Fresh
  <2>7. /\ open_inodes' \in [Id -> Nat] /\ kernel' \in [Id -> Nat]
        /\ open_inodes'[e.inode] >= 1 + kernel'[e.inode]
        /\ open_inodes'[f.inode] >= 1 + kernel'[f.inode]
        /\ \A i \in Id : Unwanted(i) => Unwanted(i)'
        /\ \A i \in Id : kernel'[i] <= open_inodes'[i]
        /\ \A i \in Id : open_inodes'[i] > 0 => i \in db'.inodes
        /\ \A i \in db'.inodes : db'.refcount[i] = 0 => open_inodes'[i] > 0 \/ Unwanted(i)
    BY <1>2, <2>2, <2>3, OpenTwo
  <2>8. \A j \in 1 .. Len(l) : Owed(l[j])'
    BY <2>5, <2>7 DEF Owed
  <2> QED  BY <1>2, <2>1, <2>2, <2>4, <2>5, <2>6, <2>7, <2>8, ForgetStep
<1> QED  BY <1>3, <1>4

LEMMA RenameKeeps ==
  ASSUME Inv, NEW t \in Task, NEW p \in Id, NEW n \in Name, NEW q \in Id, NEW m \in Name,
         rename(t, p, n, q, m), UNCHANGED config
  PROVE  Inv'
<1>1. Calm(t) /\ q \in db.inodes
  BY RequestCalm DEF rename
<1>2. db.refcount[q] > 0
  <2>1. /\ IsFiniteSet(db.contents) /\ db.refcount[Root] = 1
        /\ \A i \in db.inodes \ {Root} : db.refcount[i] = LinkCount(db.contents, i)
        /\ \A i \in db.inodes \cap db.dirs : db.refcount[i] = 0 => i \in dead
    BY DEF Inv, Sound, Tables, Counted, Linked
  <2>2. LinkCount(db.contents, q) \in Nat
    BY <2>1, LinkCountType
  <2>3. db.refcount[q] # 0
    BY <2>1 DEF rename
  <2> QED  BY <1>1, <2>1, <2>2, <2>3
<1>3. PICK e \in db.contents :
        /\ e.parent = p /\ e.name = n
        /\ \/ Lookups(db, q, m) = {} /\ RenameFree(t, e, q, m)
           \/ \E f \in Lookups(db, q, m) : RenameOnto(t, e, f)
  <2>1. PICK e \in Lookups(db, p, n) :
        LET old == e.inode
            targets == Lookups(db, q, m)
        IN  /\ \/ /\ targets = {}
                  /\ db' = _rename(db, p, n, q, m, old)
                  /\ open_inodes' = [open_inodes EXCEPT ![old] = @ + 1]
                  /\ task' = [task EXCEPT ![t] = Forgetting(<< <<old, 1>> >>)]
                  /\ running' = t
                  /\ UNCHANGED dead
               \/ \E f \in targets :
                    /\ f.inode # old
                    /\ open_inodes' = [open_inodes EXCEPT ![old] = @ + 1,
                                                          ![f.inode] = @ + 1]
                    /\ IF Children(db, f.inode) # {}
                       THEN UNCHANGED <<db, dead, task, running>>
                       ELSE /\ db' = _replace(db, p, n, q, m, old, f.inode)
                            /\ task' = [task EXCEPT ![t] =
                                   Forgetting(<< <<old, 1>>, <<f.inode, 1>> >>)]
                            /\ dead' = dead \cup ({f.inode} \cap db.dirs)
                            /\ running' = t
            /\ UNCHANGED <<kernel, content, sealed, state>>
    BY DEF rename
  <2>2. e \in db.contents /\ e.parent = p /\ e.name = n
    BY <2>1 DEF Lookups
  <2>3. \A f \in Lookups(db, q, m) : f.parent = q /\ f.name = m
    BY DEF Lookups
  <2> QED  BY <2>1, <2>2, <2>3 DEF RenameFree, RenameOnto
<1>4. CASE Lookups(db, q, m) = {} /\ RenameFree(t, e, q, m)
  <2>1. ~\E f \in db.contents : f.parent = q /\ f.name = m
    BY <1>4, EntryExists DEF Lookups
  <2> QED  BY <1>1, <1>2, <1>4, <2>1, RenameFreeKeeps
<1>5. CASE \E f \in Lookups(db, q, m) : RenameOnto(t, e, f)
  <2>1. PICK f \in db.contents : RenameOnto(t, e, f)
    BY <1>5 DEF Lookups
  <2> QED  BY <1>1, <2>1, RenameOntoKeeps
<1> QED  BY <1>3, <1>4, <1>5

-----------------------------------------------------------------------------
(* forget and destroy.                                                     *)

\* Nobody else is in forget, unless he waits for one inode while mounted.
Alone(t) == \A u \in Task \ {t} : /\ task[u].pc # "forget"
                                  /\ state = "unmounting" => task[u] = Idle

LEMMA BusyStep ==
  ASSUME Inv, NEW t \in Task, Alone(t), UNCHANGED config,
         DOMAIN task' = Task, \A u \in Task \ {t} : task'[u] = task[u],
         state' # "crashed", "pc" \in DOMAIN task'[t],
         task'[t].pc \in {"idle", "forget", "drop"}, ForgetOK(t)', db'.inodes \subseteq Id,
         \A i \in Id : Unwanted(i) /\ ~Drops(t, i) => Unwanted(i)',
         \A i \in Id : kernel'[i] <= open_inodes'[i],
         \A i \in Id : open_inodes'[i] > 0 => i \in db'.inodes,
         \A i \in db'.inodes : db'.refcount[i] = 0 =>
            open_inodes'[i] > 0 \/ (Unwanted(i) /\ ~Drops(t, i)) \/ Drops(t, i)',
         \A i \in Id : Drops(t, i)' => ~Unwanted(i) \/ Drops(t, i),
         state' = "unmounting" =>
            /\ \A u \in Task \ {t} : task[u] = Idle
            /\ \A i \in Id : kernel'[i] = 0
            /\ \A i \in Id : open_inodes'[i] > 0 =>
                  /\ task'[t].pc \in {"forget", "drop"}
                  /\ \E j \in 1 .. Len(task'[t].list) : task'[t].list[j] = <<i, open_inodes'[i]>>
  PROVE  Opened' /\ Handlers'
<1>1. ASSUME NEW u \in Task \ {t}
      PROVE  /\ "pc" \in DOMAIN task'[u] /\ task'[u].pc \in {"idle", "write", "lock", "drop"}
             /\ task'[u] = task[u]
  BY DEF Inv, Handlers, Alone
<1>2. ASSUME NEW u \in Task \ {t}, task[u].pc = "drop"
      PROVE  /\ task[u] = [pc |-> task[u].pc, list |-> task[u].list]
             /\ task[u].list \in Seq(Id \X Nat) /\ Fresh(task[u].list)
             /\ task[u].list # <<>> /\ Len(task[u].list) = 1
             /\ task[u].list[1][1] \in Id /\ Unwanted(task[u].list[1][1])
             /\ Drops(u, task[u].list[1][1])
             /\ ~Drops(t, task[u].list[1][1])
  <2>1. ForgetOK(u)
    BY DEF Inv, Handlers
  <2>2. db.inodes \subseteq Id
    BY DEF Inv, Sound, Tables
  <2>3. state # "unmounting"
    BY <1>2 DEF Alone, Idle
  <2>4. /\ task[u] = [pc |-> task[u].pc, list |-> task[u].list]
        /\ task[u].list \in Seq(Id \X Nat) /\ Fresh(task[u].list)
        /\ task[u].list # <<>> /\ Len(task[u].list) = 1
        /\ task[u].list[1][1] \in Id /\ Unwanted(task[u].list[1][1])
    BY <1>2, <2>1, <2>2, <2>3 DEF ForgetOK, Unwanted
  <2>5. Drops(u, task[u].list[1][1])
    BY <1>2 DEF Drops
  <2>6. ~Drops(t, task[u].list[1][1])
    BY <2>4, <2>5 DEF Inv, Handlers
  <2> QED  BY <2>4, <2>5, <2>6
<1>3. ASSUME NEW u \in Task \ {t}  PROVE ForgetOK(u)'
  <2>1. CASE task[u].pc = "drop"
    <3>1. PICK l : l = task[u].list
      OBVIOUS
    <3>2. /\ task'[u] = [pc |-> "drop", list |-> l]
          /\ l \in Seq(Id \X Nat) /\ Fresh(l) /\ l # <<>> /\ Len(l) = 1
          /\ l[1][1] \in db'.inodes /\ db'.refcount[l[1][1]] = 0 /\ open_inodes'[l[1][1]] = 0
      BY <1>1, <1>2, <2>1, <3>1 DEF Unwanted
    <3>3. \A j \in 2 .. Len(l) : FALSE
      BY <3>2
    <3>4. task'[u].pc = "drop" /\ task'[u].list = l /\ Id' = Id
      BY <3>2 DEF Id
    <3> QED  BY <3>2, <3>3, <3>4 DEF ForgetOK, Fresh
  <2>2. CASE task[u].pc # "drop"
    BY <1>1, <2>2 DEF ForgetOK
  <2> QED  BY <2>1, <2>2
<1>4. ASSUME NEW u \in Task \ {t}, NEW i \in Id
      PROVE  /\ Drops(u, i)' <=> Drops(u, i)
             /\ Drops(u, i) => Unwanted(i) /\ ~Drops(t, i)
  <2>1. Drops(u, i)' <=> Drops(u, i)
    BY DEF Drops
  <2>2. Drops(u, i) => task[u].pc = "drop" /\ task[u].list[1][1] = i
    BY DEF Drops
  <2> QED  BY <1>2, <2>1, <2>2
<1>5. \A u, v \in Task : \A i \in Id' : Drops(u, i)' /\ Drops(v, i)' => u = v
  <2>1. \A u, v \in Task : \A i \in Id : Drops(u, i) /\ Drops(v, i) => u = v
    BY DEF Inv, Handlers
  <2> QED  BY <1>4, <2>1, SameSetting
<1>6. Handlers'
  <2>1. \A u \in Task : /\ "pc" \in DOMAIN task'[u]
                        /\ task'[u].pc \in {"idle", "write", "lock", "forget", "drop"}
                        /\ ForgetOK(u)'
    BY <1>1, <1>3
  <2>2. ASSUME state' = "unmounting"
        PROVE  /\ \A i \in Id : kernel'[i] = 0
               /\ \A u, v \in Task : task'[u] # Idle /\ task'[v] # Idle => u = v
               /\ \A u \in Task : task'[u].pc \in {"idle", "forget", "drop"}
               /\ \A i \in Id : open_inodes'[i] > 0 =>
                     \E u \in Task : /\ task'[u].pc \in {"forget", "drop"}
                                     /\ \E j \in 1 .. Len(task'[u].list) :
                                           task'[u].list[j] = <<i, open_inodes'[i]>>
    <3>1. \A u \in Task \ {t} : task'[u] = Idle /\ task'[u].pc = "idle"
      BY <2>2 DEF Idle
    <3>2. \A u, v \in Task : task'[u] # Idle /\ task'[v] # Idle => u = v
      BY <3>1
    <3>3. \A u \in Task : task'[u].pc \in {"idle", "forget", "drop"}
      BY <3>1
    <3>4. ASSUME NEW i \in Id, open_inodes'[i] > 0
          PROVE  \E u \in Task : /\ task'[u].pc \in {"forget", "drop"}
                                 /\ \E j \in 1 .. Len(task'[u].list) :
                                       task'[u].list[j] = <<i, open_inodes'[i]>>
      BY <2>2, <3>4
    <3> QED  BY <2>2, <3>2, <3>3, <3>4
  <2>3. Idle' = Idle /\ Id' = Id
    BY SameSetting DEF Idle
  <2> QED  BY <1>5, <2>1, <2>2, <2>3 DEF Handlers
<1>7. ASSUME NEW i \in db'.inodes, Unwanted(i), ~Drops(t, i)
      PROVE  \E u \in Task : Drops(u, i)'
  <2>1. PICK u \in Task : Drops(u, i)
    BY <1>7 DEF Inv, Opened, Unwanted
  <2> QED  BY <1>4, <1>7, <2>1
<1>8. Opened'
  BY <1>7 DEF Opened, Id
<1> QED  BY <1>6, <1>8

LEMMA ForgetAlone ==
  ASSUME Inv, NEW t \in Task,
         \/ task[t].pc = "forget" /\ running = t
         \/ task[t].pc = "drop" /\ running = NoTask
  PROVE  Alone(t)
<1>1. ASSUME NEW u \in Task \ {t}  PROVE task[u].pc # "forget"
  <2>1. ForgetOK(u)
    BY DEF Inv, Handlers
  <2> QED  BY <2>1, NamespaceAssumption DEF ForgetOK
<1>2. ASSUME NEW u \in Task \ {t}, state = "unmounting"  PROVE task[u] = Idle
  BY <1>2 DEF Inv, Handlers, Idle
<1> QED  BY <1>1, <1>2 DEF Alone

\* What is known of a handler in forget.
Forgets(t, l) ==
    /\ l \in Seq(Id \X Nat) /\ Fresh(l) /\ task[t] = [pc |-> "forget", list |-> l]
    /\ \A j \in 1 .. Len(l) : /\ l[j] \in Id \X Nat /\ Owed(l[j])
                              /\ l[j][1] \in Id /\ l[j][2] \in Nat
                              /\ open_inodes[l[j][1]] > 0 /\ l[j][1] \in db.inodes
    /\ state # "unmounting" => \A j \in 1 .. Len(l) - 1 : db.refcount[l[j][1]] > 0
    /\ state = "unmounting" =>
          \A i \in Id : open_inodes[i] > 0 => \E j \in 1 .. Len(l) : l[j] = <<i, open_inodes[i]>>

LEMMA InForget ==
  ASSUME Inv, NEW t \in Task, task[t].pc = "forget", NEW l, l = task[t].list
  PROVE  Forgets(t, l)
<1>1. /\ l \in Seq(Id \X Nat) /\ Fresh(l) /\ task[t] = [pc |-> "forget", list |-> l]
      /\ \A j \in 1 .. Len(l) : Owed(l[j])
      /\ state # "unmounting" => \A j \in 1 .. Len(l) - 1 : db.refcount[l[j][1]] > 0
  <2>1. ForgetOK(t)
    BY DEF Inv, Handlers
  <2> QED  BY <2>1 DEF ForgetOK
<1>2. ASSUME NEW j \in 1 .. Len(l)
      PROVE  /\ l[j] \in Id \X Nat
             /\ l[j][1] \in Id /\ l[j][2] \in Nat
             /\ open_inodes[l[j][1]] > 0 /\ l[j][1] \in db.inodes
  <2>1. l[j] \in Id \X Nat /\ l[j][1] \in Id /\ l[j][2] \in Nat
    BY <1>1
  <2>2. /\ open_inodes[l[j][1]] \in Nat /\ kernel[l[j][1]] \in Nat
        /\ open_inodes[l[j][1]] > 0 => l[j][1] \in db.inodes
    BY <2>1 DEF Inv, Types, Opened
  <2>3. l[j][2] >= 1 /\ open_inodes[l[j][1]] >= l[j][2] + kernel[l[j][1]]
    BY <1>1 DEF Owed
  <2> QED  BY <2>1, <2>2, <2>3
<1>3. ASSUME state = "unmounting", NEW i \in Id, open_inodes[i] > 0
      PROVE  \E j \in 1 .. Len(l) : l[j] = <<i, open_inodes[i]>>
  <2>1. PICK u \in Task : /\ task[u].pc \in {"forget", "drop"}
                          /\ \E j \in 1 .. Len(task[u].list) :
                                task[u].list[j] = <<i, open_inodes[i]>>
    BY <1>3 DEF Inv, Handlers
  <2>2. u = t
    <3>1. task[u] # Idle /\ task[t] # Idle
      BY <2>1 DEF Idle
    <3> QED  BY <1>3, <3>1 DEF Inv, Handlers
  <2> QED  BY <2>1, <2>2
<1> QED  BY <1>1, <1>2, <1>3 DEF Forgets

\* The rest of a list of lookups.
LEMMA ListTail ==
  ASSUME NEW T, NEW l \in Seq(T), l # <<>>, Fresh(l)
  PROVE  /\ Len(l) \in Nat /\ Len(l) >= 1 /\ 1 \in 1 .. Len(l)
         /\ Head(l) = l[1]
         /\ Tail(l) \in Seq(T) /\ Len(Tail(l)) = Len(l) - 1
         /\ \A j \in 1 .. Len(Tail(l)) : /\ Tail(l)[j] = l[j + 1] /\ j + 1 \in 2 .. Len(l)
                                         /\ j + 1 \in 1 .. Len(l) /\ l[j + 1][1] # l[1][1]
         /\ Fresh(Tail(l))
         /\ \A j \in 2 .. Len(l) : /\ j - 1 \in 1 .. Len(Tail(l)) /\ Tail(l)[j - 1] = l[j]
                                   /\ l[j][1] # l[1][1]
<1>1. /\ Len(l) \in Nat /\ Len(l) >= 1 /\ Head(l) = l[1]
      /\ Tail(l) \in Seq(T) /\ Len(Tail(l)) = Len(l) - 1
      /\ \A j \in 1 .. Len(Tail(l)) : Tail(l)[j] = l[j + 1]
  OBVIOUS
<1>2. \A j \in 1 .. Len(Tail(l)) : j + 1 \in 2 .. Len(l) /\ j + 1 \in 1 .. Len(l)
  BY <1>1
<1>3. \A j \in 2 .. Len(l) : l[j][1] # l[1][1] /\ j - 1 \in 1 .. Len(Tail(l)) /\ (j - 1) + 1 = j
  BY <1>1 DEF Fresh
<1>4. Fresh(Tail(l))
  <2>1. PICK r : r = Tail(l)
    OBVIOUS
  <2>2. \A j \in 1 .. Len(r) : r[j] = l[j + 1] /\ j + 1 \in 1 .. Len(l) /\ j \in Int
    BY <1>1, <1>2, <2>1
  <2>3. \A j, k \in 1 .. Len(l) : l[j][1] = l[k][1] => j = k
    BY DEF Fresh
  <2>4. ASSUME NEW j \in 1 .. Len(r), NEW k \in 1 .. Len(r), r[j][1] = r[k][1]
        PROVE  j = k
    <3>1. j + 1 = k + 1
      BY <2>2, <2>3, <2>4
    <3> QED  BY <2>2, <3>1
  <2> QED  BY <2>1, <2>4 DEF Fresh
<1> QED  BY <1>1, <1>2, <1>3, <1>4

\* The inode at the head of the list loses lookups; it goes or the list does.
LEMMA ForgetOneKeeps ==
  ASSUME Inv, NEW t \in Task, forget_one(t), UNCHANGED config
  PROVE  Inv'
<1>1. PICK l : l = task[t].list
  OBVIOUS
<1>2. task[t].pc = "forget" /\ l # <<>> /\ running = t
  BY <1>1 DEF forget_one
<1>3. /\ l \in Seq(Id \X Nat) /\ Fresh(l) /\ task[t] = [pc |-> "forget", list |-> l]
      /\ \A j \in 1 .. Len(l) : /\ l[j] \in Id \X Nat /\ Owed(l[j])
                                /\ l[j][1] \in Id /\ l[j][2] \in Nat
                                /\ open_inodes[l[j][1]] > 0 /\ l[j][1] \in db.inodes
      /\ state # "unmounting" =>
            \A j \in 1 .. Len(l) - 1 : db.refcount[l[j][1]] > 0
      /\ state = "unmounting" =>
            \A i \in Id : open_inodes[i] > 0 => \E j \in 1 .. Len(l) : l[j] = <<i, open_inodes[i]>>
  <2>1. Forgets(t, l)
    BY <1>1, <1>2, InForget
  <2> QED  BY <2>1 DEF Forgets
<1>4. /\ Len(l) \in Nat /\ Len(l) >= 1 /\ 1 \in 1 .. Len(l)
      /\ Head(l) = l[1]
      /\ Tail(l) \in Seq(Id \X Nat) /\ Len(Tail(l)) = Len(l) - 1
      /\ \A j \in 1 .. Len(Tail(l)) : /\ Tail(l)[j] = l[j + 1] /\ j + 1 \in 2 .. Len(l)
                                      /\ j + 1 \in 1 .. Len(l) /\ l[j + 1][1] # l[1][1]
      /\ Fresh(Tail(l))
      /\ \A j \in 2 .. Len(l) : /\ j - 1 \in 1 .. Len(Tail(l)) /\ Tail(l)[j - 1] = l[j]
                                /\ l[j][1] # l[1][1]
  BY <1>2, <1>3, ListTail
<1>5. PICK i : i = l[1][1]
  OBVIOUS
<1>6. PICK n : n = l[1][2]
  OBVIOUS
<1>7. /\ i \in Id /\ n \in Nat /\ n >= 1 /\ i \in db.inodes
      /\ open_inodes[i] >= n + kernel[i] /\ l[1] = <<i, n>>
  BY <1>3, <1>4, <1>5, <1>6 DEF Owed
<1>8. /\ open_inodes' = [open_inodes EXCEPT ![i] = @ - n]
      /\ IF open_inodes[i] = n /\ db.refcount[i] = 0
         THEN /\ task' = [task EXCEPT ![t].pc = "drop"]
              /\ running' = NoTask
         ELSE /\ task' = [task EXCEPT ![t].list = Tail(@)]
              /\ UNCHANGED running
      /\ UNCHANGED <<db, kernel, dead, state>>
  BY <1>1, <1>4, <1>5, <1>6, <1>7 DEF forget_one, Forgotten, others
<1>9. open_inodes \in [Id -> Nat] /\ kernel \in [Id -> Nat] /\ db.inodes \subseteq Id /\ DOMAIN task = Task
  BY DEF Inv, Types, Sound, Tables
<1>10. /\ open_inodes' \in [Id -> Nat] /\ open_inodes'[i] = open_inodes[i] - n
       /\ open_inodes'[i] >= kernel[i] /\ open_inodes[i] > 0
       /\ \A j \in Id \ {i} : open_inodes'[j] = open_inodes[j]
  BY <1>7, <1>8, <1>9
<1>11. Alone(t)
  BY <1>2, ForgetAlone
<1>12. ASSUME NEW j \in 2 .. Len(l)  PROVE Owed(l[j])'
  <2>1. j \in 1 .. Len(l) /\ l[j][1] # i
    BY <1>4, <1>5
  <2>2. l[j][1] \in Id /\ Owed(l[j])
    BY <1>3, <2>1
  <2> QED  BY <1>8, <1>10, <2>1, <2>2 DEF Owed
<1>13. /\ \A j \in Id : Unwanted(j) => Unwanted(j)'
       /\ \A j \in Id : kernel'[j] <= open_inodes'[j]
       /\ \A j \in Id : open_inodes'[j] > 0 => j \in db'.inodes
  <2>1. \A j \in Id : kernel[j] <= open_inodes[j] /\ (open_inodes[j] > 0 => j \in db.inodes)
    BY DEF Inv, Opened
  <2>2. \A j \in Id : Unwanted(j) => Unwanted(j)'
    BY <1>8, <1>9, <1>10 DEF Unwanted
  <2> QED  BY <1>7, <1>8, <1>9, <1>10, <2>1, <2>2
<1>14. \A j \in db'.inodes : db'.refcount[j] = 0 => open_inodes'[j] > 0 \/ Unwanted(j) \/ j = i
  BY <1>8, <1>9, <1>10 DEF Unwanted
<1>15. \A j \in Id : ~Drops(t, j)
  BY <1>2 DEF Drops
<1>16. ASSUME state = "unmounting"
       PROVE  /\ \A u \in Task \ {t} : task[u] = Idle
              /\ \A j \in Id : kernel'[j] = 0
              /\ \A j \in Id : open_inodes'[j] > 0 =>
                    \E k \in 2 .. Len(l) : l[k] = <<j, open_inodes'[j]>>
  <2>1. (\A u \in Task \ {t} : task[u] = Idle) /\ \A j \in Id : kernel'[j] = 0
    BY <1>8, <1>11, <1>16 DEF Alone, Inv, Handlers
  <2>2. ASSUME NEW j \in Id, open_inodes'[j] > 0
        PROVE  \E k \in 2 .. Len(l) : l[k] = <<j, open_inodes'[j]>>
    <3>1. open_inodes[j] > 0
      BY <1>10, <2>2
    <3>2. PICK k \in 1 .. Len(l) : l[k] = <<j, open_inodes[j]>>
      BY <1>3, <1>16, <3>1
    <3>3. k # 1
      BY <1>7, <1>9, <1>10, <2>2, <3>2
    <3>4. k \in 2 .. Len(l) /\ j # i
      BY <1>4, <1>5, <3>2, <3>3
    <3> QED  BY <1>10, <3>2, <3>4
  <2> QED  BY <2>1, <2>2
<1>17. CASE open_inodes[i] = n /\ db.refcount[i] = 0
  <2>1. /\ task' = [task EXCEPT ![t].pc = "drop"] /\ running' = NoTask
    BY <1>8, <1>17
  <2>2. /\ DOMAIN task' = Task /\ (\A u \in Task \ {t} : task'[u] = task[u])
        /\ task'[t] = [pc |-> "drop", list |-> l]
    BY <1>3, <1>9, <2>1
  <2>3. "pc" \in DOMAIN task'[t] /\ task'[t].pc = "drop" /\ task'[t].list = l
    BY <2>2
  <2>4. open_inodes'[i] = 0
    BY <1>7, <1>9, <1>10, <1>17
  <2>5. state # "unmounting" => Len(l) = 1
    <3>1. ASSUME state # "unmounting", Len(l) # 1  PROVE FALSE
      <4>1. 1 \in 1 .. Len(l) - 1
        BY <1>4, <3>1
      <4>2. db.refcount[l[1][1]] > 0
        BY <1>3, <3>1, <4>1
      <4> QED  BY <1>5, <1>17, <4>2
    <3> QED  BY <3>1
  <2>6. ForgetOK(t)'
    <3>1. Id' = Id /\ db' = db /\ state' = state
      BY <1>8, SameSetting
    <3> QED  BY <1>2, <1>3, <1>5, <1>7, <1>12, <1>17, <2>2, <2>3, <2>4, <2>5, <3>1 DEF ForgetOK, Fresh
  <2>7. \A j \in Id : Drops(t, j)' <=> j = i
    BY <1>5, <2>3 DEF Drops
  <2>8. \A j \in db'.inodes : db'.refcount[j] = 0 =>
            open_inodes'[j] > 0 \/ (Unwanted(j) /\ ~Drops(t, j)) \/ Drops(t, j)'
    BY <1>7, <1>8, <1>9, <1>14, <1>15, <2>7
  <2>9. \A j \in Id : Drops(t, j)' => ~Unwanted(j) \/ Drops(t, j)
    BY <1>9, <1>10, <2>7 DEF Unwanted
  <2>10. state' # "crashed" /\ db'.inodes \subseteq Id
    BY <1>8, <1>9 DEF Inv, Handlers
  <2>11. ASSUME state' = "unmounting"
         PROVE  /\ \A u \in Task \ {t} : task[u] = Idle
                /\ \A j \in Id : kernel'[j] = 0
                /\ \A j \in Id : open_inodes'[j] > 0 =>
                      /\ task'[t].pc \in {"forget", "drop"}
                      /\ \E k \in 1 .. Len(task'[t].list) : task'[t].list[k] = <<j, open_inodes'[j]>>
    <3>1. state = "unmounting" /\ \A k \in 2 .. Len(l) : k \in 1 .. Len(l)
      BY <1>4, <1>8, <2>11
    <3> QED  BY <1>16, <2>3, <3>1
  <2>12. Opened' /\ Handlers'
    BY <1>11, <1>13, <2>2, <2>3, <2>6, <2>8, <2>9, <2>10, <2>11, BusyStep
  <2>13. Types' /\ Sound(db', dead')
    BY <1>8, <1>9, <1>10, <2>2, SameSetting DEF Inv, Types
  <2> QED  BY <2>12, <2>13, SameSetting DEF Inv
<1>18. CASE ~(open_inodes[i] = n /\ db.refcount[i] = 0)
  <2>1. task' = [task EXCEPT ![t].list = Tail(@)] /\ running' = t
    BY <1>2, <1>8, <1>18
  <2>2. PICK r : r = Tail(l)
    OBVIOUS
  <2>3. /\ DOMAIN task' = Task /\ (\A u \in Task \ {t} : task'[u] = task[u])
        /\ task'[t] = [pc |-> "forget", list |-> r]
    <3>1. /\ DOMAIN task' = Task /\ (\A u \in Task \ {t} : task'[u] = task[u])
          /\ task'[t] = [task[t] EXCEPT !.list = Tail(task[t].list)]
      BY <1>9, <2>1
    <3>2. task[t] = [pc |-> "forget", list |-> l] /\ Tail(task[t].list) = r
      BY <1>1, <1>3, <2>2
    <3>3. task'[t] = [task[t] EXCEPT !.list = r]
      BY <3>1, <3>2
    <3>4. task'[t] = [pc |-> "forget", list |-> r]
      BY <3>2, <3>3
    <3> QED  BY <3>1, <3>4
  <2>4. "pc" \in DOMAIN task'[t] /\ task'[t].pc = "forget" /\ task'[t].list = r
    BY <2>3
  <2>5. \A j \in 1 .. Len(r) : Owed(r[j])'
    <3>1. \A j \in 1 .. Len(r) : r[j] = l[j + 1] /\ j + 1 \in 2 .. Len(l)
      BY <1>4, <2>2
    <3>2. \A j \in 1 .. Len(r) : Owed(l[j + 1])'
      BY <1>12, <3>1
    <3> QED  BY <3>1, <3>2 DEF Owed
  <2>6. state # "unmounting" => \A j \in 1 .. Len(r) - 1 : db.refcount[r[j][1]] > 0
    <3>1. \A j \in 1 .. Len(r) - 1 : r[j] = l[j + 1] /\ j + 1 \in 1 .. Len(l) - 1
      BY <1>4, <2>2
    <3> QED  BY <1>3, <3>1
  <2>7. ForgetOK(t)'
    <3>1. Id' = Id /\ db' = db /\ state' = state /\ r \in Seq(Id \X Nat) /\ Fresh(r)
      BY <1>4, <1>8, <2>2, SameSetting
    <3>2. task'[t] = [pc |-> task'[t].pc, list |-> task'[t].list]
      BY <2>3
    <3> QED  BY <2>1, <2>4, <2>5, <2>6, <3>1, <3>2 DEF ForgetOK
  <2>8. \A j \in Id : ~Drops(t, j)'
    BY <2>4 DEF Drops
  <2>9. \A j \in db'.inodes : db'.refcount[j] = 0 =>
            open_inodes'[j] > 0 \/ (Unwanted(j) /\ ~Drops(t, j)) \/ Drops(t, j)'
    <3>1. db.refcount[i] = 0 => open_inodes'[i] > 0
      BY <1>7, <1>9, <1>10, <1>18
    <3> QED  BY <1>8, <1>9, <1>14, <1>15, <3>1
  <2>10. state' # "crashed" /\ db'.inodes \subseteq Id
    BY <1>8, <1>9 DEF Inv, Handlers
  <2>11. ASSUME state' = "unmounting"
         PROVE  /\ \A u \in Task \ {t} : task[u] = Idle
                /\ \A j \in Id : kernel'[j] = 0
                /\ \A j \in Id : open_inodes'[j] > 0 =>
                      /\ task'[t].pc \in {"forget", "drop"}
                      /\ \E k \in 1 .. Len(task'[t].list) : task'[t].list[k] = <<j, open_inodes'[j]>>
    <3>1. state = "unmounting" /\ \A k \in 2 .. Len(l) : k - 1 \in 1 .. Len(r) /\ r[k - 1] = l[k]
      BY <1>4, <1>8, <2>2, <2>11
    <3> QED  BY <1>16, <2>4, <3>1
  <2>12. Opened' /\ Handlers'
    BY <1>11, <1>13, <2>3, <2>4, <2>7, <2>8, <2>9, <2>10, <2>11, BusyStep
  <2>13. Types' /\ Sound(db', dead')
    BY <1>8, <1>9, <1>10, <2>3, SameSetting DEF Inv, Types
  <2> QED  BY <2>12, <2>13, SameSetting DEF Inv
<1> QED  BY <1>17, <1>18

\* The inode that forget has waited for is deleted.
LEMMA ForgetDropKeeps ==
  ASSUME Inv, NEW t \in Task, forget_drop(t), UNCHANGED config
  PROVE  Inv'
<1>1. PICK l : l = task[t].list
  OBVIOUS
<1>2. task[t].pc = "drop" /\ running = NoTask
  BY DEF forget_drop
<1>3. /\ l \in Seq(Id \X Nat) /\ Fresh(l) /\ l # <<>>
      /\ \A j \in 2 .. Len(l) : Owed(l[j])
      /\ state # "unmounting" => Len(l) = 1
      /\ l[1][1] \in db.inodes /\ db.refcount[l[1][1]] = 0 /\ open_inodes[l[1][1]] = 0
  <2>1. ForgetOK(t)
    BY DEF Inv, Handlers
  <2> QED  BY <1>1, <1>2, <2>1 DEF ForgetOK
<1>4. /\ Len(l) \in Nat /\ Len(l) >= 1 /\ Head(l) = l[1]
      /\ Tail(l) \in Seq(Id \X Nat) /\ Len(Tail(l)) = Len(l) - 1
      /\ \A j \in 1 .. Len(Tail(l)) : Tail(l)[j] = l[j + 1] /\ j + 1 \in 2 .. Len(l)
      /\ Fresh(Tail(l))
      /\ \A j \in 2 .. Len(l) : j - 1 \in 1 .. Len(Tail(l)) /\ Tail(l)[j - 1] = l[j]
  BY <1>3, ListTail
<1>5. PICK r : r = Tail(l)
  OBVIOUS
<1>6. PICK i : i = l[1][1]
  OBVIOUS
<1>7. i \in db.inodes /\ i \in Id /\ db.refcount[i] = 0 /\ open_inodes[i] = 0
  BY <1>3, <1>6 DEF Inv, Sound, Tables
<1>8. /\ db' = DeleteInode(db, i)
      /\ task' = [task EXCEPT ![t] = Forgetting(r)]
      /\ running' = t
      /\ UNCHANGED <<open_inodes, kernel, dead, state>>
  BY <1>1, <1>4, <1>5, <1>6, <1>7 DEF forget_drop, others
<1>9. Sound(db', dead) /\ db'.inodes = db.inodes \ {i} /\ db'.refcount = db.refcount
  BY <1>7, <1>8, SoundDelete DEF Inv
<1>10. /\ DOMAIN task' = Task /\ (\A u \in Task \ {t} : task'[u] = task[u])
       /\ task'[t] = [pc |-> "forget", list |-> r]
  BY <1>8 DEF Inv, Types, Forgetting
<1>11. "pc" \in DOMAIN task'[t] /\ task'[t].pc = "forget" /\ task'[t].list = r
  BY <1>10
<1>12. \A j \in 1 .. Len(r) : Owed(r[j])'
  <2>1. \A j \in 1 .. Len(r) : Owed(r[j])
    BY <1>3, <1>4, <1>5
  <2> QED  BY <1>8, <2>1 DEF Owed
<1>13. state # "unmounting" => \A j \in 1 .. Len(r) - 1 : FALSE
  BY <1>3, <1>4, <1>5
<1>14. ForgetOK(t)'
  <2>1. Id' = Id /\ state' = state /\ r \in Seq(Id \X Nat) /\ Fresh(r)
    BY <1>4, <1>5, <1>8, SameSetting
  <2>2. task'[t] = [pc |-> task'[t].pc, list |-> task'[t].list]
    BY <1>10
  <2> QED  BY <1>8, <1>11, <1>12, <1>13, <2>1, <2>2 DEF ForgetOK
<1>15. Alone(t)
  BY <1>2, ForgetAlone
<1>16. \A j \in Id : Drops(t, j) <=> j = i
  BY <1>1, <1>2, <1>6 DEF Drops
<1>17. \A j \in Id : ~Drops(t, j)'
  BY <1>11 DEF Drops
<1>18. \A j \in Id : Unwanted(j) /\ ~Drops(t, j) => Unwanted(j)'
  BY <1>8, <1>9, <1>16 DEF Unwanted
<1>19. \A j \in Id : kernel'[j] <= open_inodes'[j] /\ (open_inodes'[j] > 0 => j \in db'.inodes)
  BY <1>7, <1>8, <1>9 DEF Inv, Opened
<1>20. \A j \in db'.inodes : db'.refcount[j] = 0 =>
           open_inodes'[j] > 0 \/ (Unwanted(j) /\ ~Drops(t, j)) \/ Drops(t, j)'
  <2>1. \A j \in db.inodes : j \in Id /\ open_inodes[j] \in Nat
    BY DEF Inv, Types, Sound, Tables
  <2> QED  BY <1>8, <1>9, <1>16, <2>1 DEF Unwanted
<1>21. state' # "crashed" /\ db'.inodes \subseteq Id
  BY <1>8, <1>9 DEF Inv, Handlers, Sound, Tables
<1>22. ASSUME state' = "unmounting"
       PROVE  /\ \A u \in Task \ {t} : task[u] = Idle
              /\ \A j \in Id : kernel'[j] = 0
              /\ \A j \in Id : open_inodes'[j] > 0 =>
                    /\ task'[t].pc \in {"forget", "drop"}
                    /\ \E k \in 1 .. Len(task'[t].list) : task'[t].list[k] = <<j, open_inodes'[j]>>
  <2>1. (\A u \in Task \ {t} : task[u] = Idle) /\ \A j \in Id : kernel'[j] = 0
    BY <1>8, <1>15, <1>22 DEF Alone, Inv, Handlers
  <2>2. ASSUME NEW j \in Id, open_inodes'[j] > 0
        PROVE  \E k \in 1 .. Len(r) : r[k] = <<j, open_inodes'[j]>>
    <3>1. open_inodes[j] > 0
      BY <1>8, <2>2
    <3>2. PICK u \in Task : /\ task[u].pc \in {"forget", "drop"}
                            /\ \E k \in 1 .. Len(task[u].list) :
                                  task[u].list[k] = <<j, open_inodes[j]>>
      BY <1>8, <1>22, <3>1 DEF Inv, Handlers
    <3>3. u = t
      BY <2>1, <3>2 DEF Idle
    <3>4. PICK k \in 1 .. Len(l) : l[k] = <<j, open_inodes[j]>>
      BY <1>1, <3>2, <3>3
    <3>5. j # i
      BY <1>7, <3>1
    <3>6. k \in 2 .. Len(l)
      BY <1>4, <1>6, <3>4, <3>5
    <3> QED  BY <1>4, <1>5, <1>8, <3>4, <3>6
  <2> QED  BY <1>11, <2>1, <2>2
<1>23. Opened' /\ Handlers'
  BY <1>10, <1>11, <1>14, <1>15, <1>17, <1>18, <1>19, <1>20, <1>21, <1>22, BusyStep
<1>24. Types' /\ Sound(db', dead')
  BY <1>8, <1>9, <1>10, SameSetting DEF Inv, Types
<1> QED  BY <1>23, <1>24, SameSetting DEF Inv

LEMMA ForgetEndKeeps ==
  ASSUME Inv, NEW t \in Task, forget_end(t), UNCHANGED config
  PROVE  Inv'
<1>1. /\ task[t].pc = "forget" /\ task[t].list = <<>> /\ running = t
      /\ task' = [task EXCEPT ![t] = Idle]
      /\ UNCHANGED <<db, open_inodes, kernel, dead, state>>
  BY DEF forget_end, others
<1>2. /\ DOMAIN task' = Task /\ (\A u \in Task \ {t} : task'[u] = task[u])
      /\ task'[t] = Idle /\ "pc" \in DOMAIN task'[t] /\ task'[t].pc = "idle"
  BY <1>1 DEF Inv, Types, Idle
<1>3. ForgetOK(t)'
  BY <1>2 DEF ForgetOK
<1>4. Alone(t)
  BY <1>1, ForgetAlone
<1>5. \A j \in Id : ~Drops(t, j) /\ ~Drops(t, j)'
  BY <1>1, <1>2 DEF Drops
<1>6. /\ \A j \in Id : Unwanted(j) => Unwanted(j)'
      /\ \A j \in Id : kernel'[j] <= open_inodes'[j] /\ (open_inodes'[j] > 0 => j \in db'.inodes)
      /\ db'.inodes \subseteq Id /\ state' # "crashed"
  BY <1>1 DEF Unwanted, Inv, Opened, Sound, Tables, Handlers
<1>7. \A j \in db'.inodes : db'.refcount[j] = 0 =>
          open_inodes'[j] > 0 \/ (Unwanted(j) /\ ~Drops(t, j)) \/ Drops(t, j)'
  <2>1. \A j \in db.inodes : j \in Id /\ open_inodes[j] \in Nat
    BY DEF Inv, Types, Sound, Tables
  <2> QED  BY <1>1, <1>5, <2>1 DEF Unwanted
<1>8. ASSUME state' = "unmounting"
      PROVE  /\ \A u \in Task \ {t} : task[u] = Idle
             /\ \A j \in Id : kernel'[j] = 0
             /\ \A j \in Id : ~(open_inodes'[j] > 0)
  <2>1. (\A u \in Task \ {t} : task[u] = Idle) /\ \A j \in Id : kernel'[j] = 0
    BY <1>1, <1>4, <1>8 DEF Alone, Inv, Handlers
  <2>2. PICK l : l = task[t].list
    OBVIOUS
  <2>3. Forgets(t, l)
    BY <1>1, <2>2, InForget
  <2>4. \A j \in 1 .. Len(l) : FALSE
    BY <1>1, <2>2
  <2> QED  BY <1>1, <1>8, <2>1, <2>3, <2>4 DEF Forgets
<1>9. Opened' /\ Handlers'
  BY <1>2, <1>3, <1>4, <1>5, <1>6, <1>7, <1>8, BusyStep
<1>10. Types' /\ Sound(db', dead')
  BY <1>1, <1>2, SameSetting DEF Inv, Types
<1> QED  BY <1>9, <1>10, SameSetting DEF Inv

\* The lookups that are left when the file system is unmounted, as a list.
Left == {j \in Id : open_inodes[j] # 0}
Leftover == {<<i, open_inodes[i]>> : i \in Left}

LEMMA LeftoverList ==
  ASSUME Inv, NEW l, l = SetToSeq(Leftover)
  PROVE  /\ l \in Seq(Id \X Nat) /\ Fresh(l)
         /\ \A j \in 1 .. Len(l) : l[j][1] \in Id /\ l[j][2] = open_inodes[l[j][1]] /\ l[j][2] >= 1
         /\ \A i \in Id : open_inodes[i] > 0 => \E j \in 1 .. Len(l) : l[j] = <<i, open_inodes[i]>>
<1>1. IsFiniteSet(Left)
  <2>1. /\ db.next \in Nat /\ Id \subseteq Nat /\ db.inodes \subseteq Id
        /\ \A i \in db.inodes : i < db.next
    BY DEF Inv, Sound, Tables, Linked
  <2>2. /\ open_inodes \in [Id -> Nat]
        /\ \A i \in Id : open_inodes[i] > 0 => i \in db.inodes
    BY DEF Inv, Types, Opened
  <2>3. Left \in SUBSET Nat /\ \A i \in Left : i <= db.next
    BY <2>1, <2>2 DEF Left
  <2> QED  BY <2>1, <2>3, FS_BoundedSetOfNaturals
<1>2. IsFiniteSet(Leftover)
  <2>1. PICK f : f = [i \in Left |-> <<i, open_inodes[i]>>]
    OBVIOUS
  <2>2. f \in Surjection(Left, Leftover)
    BY <2>1 DEF Surjection, Leftover
  <2> QED  BY <1>1, <2>2, FS_Surjection
<1>3. PICK c : c = Cardinality(Leftover)
  OBVIOUS
<1>4. c \in Nat /\ Bijection(1 .. c, Leftover) # {}
  BY <1>2, <1>3, FS_CardinalityType DEF ExistsBijection
<1>5. \E f \in [1 .. c -> Leftover] : IsInjective(f)
  BY <1>4 DEF Bijection, Injection
<1>6. l = CHOOSE f \in [1 .. c -> Leftover] : IsInjective(f)
  BY <1>3 DEF SetToSeq
<1>7. l \in [1 .. c -> Leftover] /\ IsInjective(l)
  BY <1>5, <1>6
<1>8. l \in Surjection(1 .. c, Leftover)
  <2>1. l \in Injection(1 .. c, Leftover)
    BY <1>7 DEF Injection
  <2>2. Cardinality(1 .. c) = c
    <3>1. Cardinality(1 .. c) = IF 1 > c THEN 0 ELSE c - 1 + 1
      BY <1>4, FS_Interval
    <3> QED  BY <1>4, <3>1
  <2> QED  BY <1>2, <1>3, <2>1, <2>2, FS_Injection
<1>9. \A x \in Leftover : /\ x \in Id \X Nat /\ x[1] \in Id /\ x[2] = open_inodes[x[1]]
                          /\ x[2] >= 1 /\ x = <<x[1], open_inodes[x[1]]>>
  <2>1. \A i \in Left : i \in Id /\ open_inodes[i] \in Nat /\ open_inodes[i] >= 1
    BY DEF Left, Inv, Types
  <2> QED  BY <2>1 DEF Leftover
<1>10. l \in Seq(Id \X Nat) /\ Len(l) = c
  <2>1. l \in [1 .. c -> Id \X Nat]
    BY <1>7, <1>9
  <2> QED  BY <1>4, <2>1
<1>11. \A j \in 1 .. c : l[j] \in Leftover
  BY <1>7
<1>12. \A j \in 1 .. Len(l) : l[j][1] \in Id /\ l[j][2] = open_inodes[l[j][1]] /\ l[j][2] >= 1
  BY <1>9, <1>10, <1>11
<1>13. Fresh(l)
  <2>1. ASSUME NEW j \in 1 .. c, NEW k \in 1 .. c, l[j][1] = l[k][1]  PROVE j = k
    <3>1. l[j] = <<l[j][1], open_inodes[l[j][1]]>> /\ l[k] = <<l[k][1], open_inodes[l[k][1]]>>
      BY <1>9, <1>11
    <3>2. l[j] = l[k]
      BY <2>1, <3>1
    <3> QED  BY <1>7, <3>2 DEF IsInjective
  <2> QED  BY <1>10, <2>1 DEF Fresh
<1>14. ASSUME NEW i \in Id, open_inodes[i] > 0
       PROVE  \E j \in 1 .. Len(l) : l[j] = <<i, open_inodes[i]>>
  <2>1. <<i, open_inodes[i]>> \in Leftover
    BY <1>14 DEF Leftover, Left
  <2> QED  BY <1>8, <1>10, <2>1 DEF Surjection
<1> QED  BY <1>10, <1>12, <1>13, <1>14

LEMMA DestroyKeeps ==
  ASSUME Inv, NEW t \in Task, destroy(t), UNCHANGED config
  PROVE  Inv'
<1>1. PICK l : l = SetToSeq(Leftover)
  OBVIOUS
<1>2. /\ \A u \in Task : task[u] = Idle
      /\ state' = "unmounting"
      /\ kernel' = [i \in Id |-> 0]
      /\ task' = [task EXCEPT ![t] = Forgetting(l)]
      /\ running' = t
      /\ UNCHANGED <<db, open_inodes, dead>>
  BY <1>1 DEF destroy, Leftover, Left, others
<1>3. /\ l \in Seq(Id \X Nat) /\ Fresh(l)
      /\ \A j \in 1 .. Len(l) : l[j][1] \in Id /\ l[j][2] = open_inodes[l[j][1]] /\ l[j][2] >= 1
      /\ \A i \in Id : open_inodes[i] > 0 => \E j \in 1 .. Len(l) : l[j] = <<i, open_inodes[i]>>
  BY <1>1, LeftoverList
<1>4. open_inodes \in [Id -> Nat] /\ db.inodes \subseteq Id /\ kernel' \in [Id -> Nat]
  BY <1>2 DEF Inv, Types, Sound, Tables
<1>5. /\ DOMAIN task' = Task /\ (\A u \in Task \ {t} : task'[u] = task[u])
      /\ task'[t] = [pc |-> "forget", list |-> l]
  BY <1>2 DEF Inv, Types, Forgetting
<1>6. "pc" \in DOMAIN task'[t] /\ task'[t].pc = "forget" /\ task'[t].list = l
  BY <1>5
<1>7. \A j \in 1 .. Len(l) : Owed(l[j])'
  BY <1>2, <1>3, <1>4 DEF Owed
<1>8. ForgetOK(t)'
  <2>1. Id' = Id
    BY SameSetting
  <2>2. task'[t] = [pc |-> task'[t].pc, list |-> task'[t].list]
    BY <1>5
  <2> QED  BY <1>2, <1>3, <1>6, <1>7, <2>1, <2>2 DEF ForgetOK
<1>9. Alone(t) /\ \A u \in Task : task[u].pc = "idle"
  BY <1>2 DEF Alone, Idle
<1>10. \A j \in Id : ~Drops(t, j) /\ ~Drops(t, j)'
  BY <1>6, <1>9 DEF Drops
<1>11. /\ \A j \in Id : Unwanted(j) => Unwanted(j)'
       /\ \A j \in Id : kernel'[j] <= open_inodes'[j]
       /\ \A j \in Id : open_inodes'[j] > 0 => j \in db'.inodes
  BY <1>2, <1>4 DEF Unwanted, Inv, Opened
<1>12. \A j \in db'.inodes : db'.refcount[j] = 0 =>
           open_inodes'[j] > 0 \/ (Unwanted(j) /\ ~Drops(t, j)) \/ Drops(t, j)'
  BY <1>2, <1>4, <1>10 DEF Unwanted
<1>13. Opened' /\ Handlers'
  <2>1. state' # "crashed" /\ db'.inodes \subseteq Id
    BY <1>2, <1>4
  <2>2. /\ \A u \in Task \ {t} : task[u] = Idle
        /\ \A j \in Id : kernel'[j] = 0
        /\ \A j \in Id : open_inodes'[j] > 0 =>
              /\ task'[t].pc \in {"forget", "drop"}
              /\ \E k \in 1 .. Len(task'[t].list) : task'[t].list[k] = <<j, open_inodes'[j]>>
    BY <1>2, <1>3, <1>6
  <2> QED  BY <1>5, <1>6, <1>8, <1>9, <1>10, <1>11, <1>12, <2>1, <2>2, BusyStep
<1>14. Types' /\ Sound(db', dead')
  BY <1>2, <1>4, <1>5, SameSetting DEF Inv, Types
<1> QED  BY <1>13, <1>14, SameSetting DEF Inv

-----------------------------------------------------------------------------
(* The invariant.                                                          *)

\* The tree at mount time.
LEMMA InitSound ==
  ASSUME Init
  PROVE  Sound(db, dead)
<1>1. PICK s \in Settings : s = config
  BY DEF Init
<1>2. /\ Id \subseteq Nat /\ Name \subseteq Nat /\ Root \in Id
      /\ Tree \subseteq Id \X Name \X Id /\ IsFiniteSet(Tree)
      /\ Dirs \subseteq Id /\ Root \in Dirs
      /\ \A e, f \in Tree : e[1] = f[1] /\ e[2] = f[2] => e = f
      /\ \A e \in Tree : e[3] # Root /\ (e[1] # Root => \E f \in Tree : f[3] = e[1])
      /\ \E m \in {Root} \cup {e[3] : e \in Tree} :
            \A i \in {Root} \cup {e[3] : e \in Tree} : m >= i
  BY <1>1, NamespaceAssumption DEF Id, Name, Tree, Dirs
<1>3. PICK c : c = TreeEntries
  OBVIOUS
<1>4. PICK all : all = {Root} \cup {e[3] : e \in Tree}
  OBVIOUS
<1>5. /\ DOMAIN db = Columns
      /\ db.names = [n \in Name |-> NameCount(c, n) + AttrCount({}, n)]
      /\ db.contents = c /\ db.inodes = all
      /\ db.refcount = [i \in Id |-> IF i = Root THEN 1 ELSE LinkCount(c, i)]
      /\ db.dirs = Dirs /\ db.xattrs = {}
      /\ db.next = 1 + Max(all)
  BY <1>3, <1>4 DEF Init, Columns, Uses, Links, LinkCount, NameCount, AttrCount
<1>6. \A e \in c : \E x \in Tree : e.parent = x[1] /\ e.name = x[2] /\ e.inode = x[3]
  BY <1>3 DEF TreeEntries, Entry
<1>7. \A x \in Tree : Entry(x[1], x[2], x[3]) \in c /\ Entry(x[1], x[2], x[3]).inode = x[3]
  BY <1>3 DEF TreeEntries, Entry
<1>8. c \subseteq Entries
  <2>1. \A x \in Tree : x[1] \in Id /\ x[2] \in Name /\ x[3] \in Id
    BY <1>2
  <2>2. \A x \in Tree : Entry(x[1], x[2], x[3]) \in Entries
    BY <2>1, EntryParts
  <2> QED  BY <1>3, <2>2 DEF TreeEntries
<1>9. IsFiniteSet(c)
  <2>1. PICK f : f = [x \in Tree |-> Entry(x[1], x[2], x[3])]
    OBVIOUS
  <2>2. f \in Surjection(Tree, c)
    BY <1>3, <2>1 DEF Surjection, TreeEntries
  <2> QED  BY <1>2, <2>2, FS_Surjection
<1>10. IsFiniteSet({}) /\ \A n : AttrCount({}, n) = 0
  BY FS_EmptySet, AttrCountType
<1>11. /\ \A i : LinkCount(c, i) \in Nat /\ (LinkCount(c, i) = 0 <=> \A e \in c : e.inode # i)
       /\ \A n : NameCount(c, n) \in Nat
  BY <1>9, LinkCountType, NameCountType
<1>12. all \subseteq Id /\ Root \in all
  <2>1. \A x \in Tree : x[3] \in Id
    BY <1>2
  <2> QED  BY <1>2, <1>4, <2>1
<1>13. Max(all) \in Nat /\ \A i \in all : i < 1 + Max(all)
  <2>1. \E m \in all : \A i \in all : m >= i
    BY <1>2, <1>4
  <2>2. Max(all) \in all /\ \A i \in all : Max(all) >= i
    BY <2>1 DEF Max
  <2>3. \A i \in all : i \in Nat
    BY <1>2, <1>12
  <2>4. PICK m : m = Max(all)
    OBVIOUS
  <2> QED  BY <2>2, <2>3, <2>4
<1>14. \A i \in all : i # Root => LinkCount(c, i) > 0
  <2>1. ASSUME NEW i \in all, i # Root  PROVE LinkCount(c, i) > 0
    <3>1. PICK x \in Tree : i = x[3]
      BY <1>4, <2>1
    <3>2. \E e \in c : e.inode = i
      BY <1>7, <3>1
    <3> QED  BY <1>11, <3>2
  <2> QED  BY <2>1
<1>15. Tables(db)
  <2>1. db.names \in [Name -> Nat]
    BY <1>5, <1>10, <1>11
  <2>2. db.refcount \in [Id -> Int]
    BY <1>5, <1>11
  <2>3. db.next \in Nat
    BY <1>5, <1>13
  <2>4. db.xattrs \subseteq Id \X Name /\ IsFiniteSet(db.xattrs)
    BY <1>5, <1>10
  <2> QED  BY <1>2, <1>5, <1>8, <1>9, <1>12, <2>1, <2>2, <2>3, <2>4 DEF Tables
<1>16. Counted(db)
  <2>1. \A i \in db.inodes \ {Root} : db.refcount[i] = LinkCount(db.contents, i)
    BY <1>5, <1>12
  <2>2. db.refcount[Root] = 1
    BY <1>2, <1>5
  <2>3. \A n \in Name : /\ db.names[n] = NameCount(db.contents, n) + AttrCount(db.xattrs, n)
                        /\ db.names[n] = NameCount(db.contents, n)
    BY <1>5, <1>10, <1>11
  <2>4. \A n \in Name : db.names[n] \in Nat
    BY <1>15 DEF Tables
  <2> QED  BY <1>5, <2>1, <2>2, <2>3, <2>4 DEF Counted
<1>17. Linked(db, dead)
  <2>1. ASSUME NEW e \in c
        PROVE  /\ e.parent \in all /\ db.refcount[e.parent] > 0
               /\ e.inode \in all \ {Root}
    <3>1. PICK x \in Tree : e.parent = x[1] /\ e.inode = x[3]
      BY <1>6
    <3>2. e.inode \in all \ {Root}
      BY <1>2, <1>4, <3>1
    <3>3. e.parent \in all
      BY <1>2, <1>4, <3>1
    <3>4. db.refcount[e.parent] > 0
      BY <1>5, <1>12, <1>14, <3>3
    <3> QED  BY <3>2, <3>3, <3>4
  <2>2. ASSUME NEW e \in c, NEW f \in c, e.parent = f.parent, e.name = f.name  PROVE e = f
    <3>1. PICK x \in Tree : e.parent = x[1] /\ e.name = x[2] /\ e.inode = x[3]
      BY <1>6
    <3>2. PICK y \in Tree : f.parent = y[1] /\ f.name = y[2] /\ f.inode = y[3]
      BY <1>6
    <3>3. e.inode = f.inode
      BY <1>2, <2>2, <3>1, <3>2
    <3> QED  BY <1>8, <2>2, <3>3, EntryParts
  <2>3. \A i \in all : db.refcount[i] # 0
    BY <1>5, <1>12, <1>14
  <2> QED  BY <1>5, <1>13, <2>1, <2>2, <2>3 DEF Linked
<1> QED  BY <1>2, <1>15, <1>16, <1>17 DEF Sound

LEMMA InitInv ==
  ASSUME Init
  PROVE  Inv
<1>1. Sound(db, dead)
  BY InitSound
<1>2. Root \in db.inodes /\ Root \in Id
  BY <1>1 DEF Sound, Tables
<1>3. /\ config \in Settings /\ state = "mounted" /\ task = [t \in Task |-> Idle]
      /\ open_inodes = [i \in Id |-> IF i = Root THEN 1 ELSE 0]
      /\ kernel = [i \in Id |-> 0] /\ dead = {}
  BY DEF Init
<1>4. Types
  BY <1>3 DEF Types
<1>5. \A t \in Task : task[t].pc = "idle" /\ "pc" \in DOMAIN task[t]
  BY <1>3 DEF Idle
<1>6. Handlers
  BY <1>3, <1>5 DEF Handlers, ForgetOK, Drops
<1>7. ASSUME NEW i \in db.inodes  PROVE db.refcount[i] # 0
  <2>1. PICK all : all = {Root} \cup {e[3] : e \in Tree}
    OBVIOUS
  <2>2. PICK c : c = TreeEntries
    OBVIOUS
  <2>3. /\ db.inodes = all /\ db.contents = c /\ IsFiniteSet(c) /\ db.refcount[Root] = 1
        /\ i # Root => db.refcount[i] = LinkCount(c, i)
    BY <1>1, <2>1, <2>2 DEF Init, Sound, Tables, Counted
  <2>4. i # Root => \E e \in c : e.inode = i
    <3>1. \A x \in Tree : Entry(x[1], x[2], x[3]) \in c /\ Entry(x[1], x[2], x[3]).inode = x[3]
      BY <2>2 DEF TreeEntries, Entry
    <3> QED  BY <2>1, <2>3, <3>1
  <2> QED  BY <2>3, <2>4, LinkCountType
<1>8. Opened
  BY <1>2, <1>3, <1>7 DEF Opened
<1> QED  BY <1>1, <1>4, <1>6, <1>8 DEF Inv

LEMMA NextKeeps ==
  ASSUME Inv, KernelOnly, Next, UNCHANGED config
  PROVE  Inv'
<1>1. CASE EnterFailsafe
  BY <1>1, FailsafeKeeps
<1>2. ASSUME NEW t \in Task, NEW p \in Id, NEW n \in Name,
             \/ _lookup(t, p, n) \/ readdir(t, p, n)
             \/ \E dir \in BOOLEAN : _create(t, p, n, dir)
             \/ \E i \in Id : link(t, i, p, n)
             \/ setxattr(t, p, n)
             \/ unlink(t, p, n)
             \/ \E q \in Id, m \in Name : rename(t, p, n, q, m)
      PROVE  Inv'
  BY <1>2, LookupKeeps, ReaddirKeeps, CreateKeeps, LinkKeeps, SetxattrKeeps, UnlinkKeeps, RenameKeeps
<1>3. ASSUME NEW t \in Task, NEW p \in Id, NEW n \in Name,
             removexattr(t, p, n) \/ remove_tree(t, p, n) \/ \E j \in Id : copy_tree(t, p, j)
      PROVE  FALSE
  BY <1>3, RequestCalm DEF removexattr, remove_tree, copy_tree, KernelOnly
<1>4. ASSUME NEW t \in Task, NEW i \in Id, write(t, i) \/ lock_tree(t, i)  PROVE Inv'
  BY <1>4, WriteKeeps, LockKeeps
<1>5. ASSUME NEW t \in Task, write_end(t) \/ lock_tree_dir(t) \/ lock_tree_end(t)  PROVE Inv'
  <2>1. Root \in Id
    BY DEF Inv, Sound, Tables
  <2> QED  BY <1>5, <2>1, WriteKeeps, LockKeeps
<1>6. ASSUME NEW t \in Task,
             forget(t) \/ forget_one(t) \/ forget_drop(t) \/ forget_end(t) \/ destroy(t)
      PROVE  Inv'
  BY <1>6, ForgetKeeps, ForgetOneKeeps, ForgetDropKeeps, ForgetEndKeeps, DestroyKeeps
<1>7. ASSUME NEW t \in Task,
             \/ remove_tree_dir(t) \/ remove_tree_entry(t) \/ remove_tree_drop(t)
             \/ remove_tree_next(t) \/ remove_tree_top(t)
             \/ copy_tree_entry(t) \/ copy_tree_flush(t) \/ copy_tree_next(t)
             \/ copy_tree_end(t)
      PROVE  FALSE
  <2>1. task[t].pc \in {"idle", "write", "lock", "forget", "drop"}
    BY DEF Inv, Handlers
  <2> QED  BY <1>7, <2>1 DEF remove_tree_dir, remove_tree_entry, remove_tree_drop,
             remove_tree_next, remove_tree_top, copy_tree_entry, copy_tree_flush,
             copy_tree_next, copy_tree_end
<1>8. ASSUME NEW t \in Task, NEW i \in Id, NEW j \in Id, copy_tree(t, i, j)  PROVE FALSE
  BY <1>8, RequestCalm DEF copy_tree, KernelOnly
<1> QED  BY <1>1, <1>2, <1>3, <1>4, <1>5, <1>6, <1>7, <1>8 DEF Next

\* The invariant holds throughout, whatever the handlers do.
LEMMA NamespaceInvariant == Spec /\ KernelOnly => [](Inv /\ KernelOnly)
<1>1. Init => Inv
  BY InitInv
<1>2. Inv /\ KernelOnly /\ [Next /\ UNCHANGED config]_vars => Inv' /\ KernelOnly'
  <2>1. ASSUME Inv, KernelOnly, Next, UNCHANGED config  PROVE Inv' /\ KernelOnly'
    BY <2>1, NextKeeps, SameSetting DEF KernelOnly
  <2>2. ASSUME Inv, KernelOnly, UNCHANGED vars  PROVE Inv' /\ KernelOnly'
    <3>1. UNCHANGED <<config, db, open_inodes, kernel, dead, task, running, state>>
      BY <2>2 DEF vars
    <3>2. KernelOnly'
      BY <2>2, <3>1, SameSetting DEF KernelOnly
    <3>3. Sound(db, dead)' /\ Types'
      BY <2>2, <3>1, SameSetting DEF Inv, Types
    <3>4. Opened'
      BY <2>2, <3>1 DEF Inv, Opened, Drops, Id
    <3>5. Handlers'
      <4>1. \A t \in Task : ForgetOK(t)'
        BY <2>2, <3>1 DEF Inv, Handlers, ForgetOK, Owed, Id
      <4> QED  BY <2>2, <3>1, <4>1 DEF Inv, Handlers, Drops, Id, Idle
    <3> QED  BY <3>2, <3>3, <3>4, <3>5 DEF Inv
  <2> QED  BY <2>1, <2>2
<1> QED  BY <1>1, <1>2, PTL DEF Spec

-----------------------------------------------------------------------------
(* The theorems.                                                           *)

(* While only the kernel sends requests, no handler ever meets a row that  *)
(* has gone, however the handlers' waits for the cache are interleaved and *)
(* however many there are: the KeyError of the inode cache, which would    *)
(* end the event loop, does not occur (_lookup, unlink, rename and forget, *)
(* fs.py:139-167, 541-619, 642-676, 1157-1183).                            *)
THEOREM NoRowMissing == Spec /\ KernelOnly => []NeverCrashes
<1>1. Inv => NeverCrashes
  BY DEF Inv, Handlers, NeverCrashes
<1> QED  BY <1>1, NamespaceInvariant, PTL

(* After every step of create, link, unlink, rename, setxattr and forget   *)
(* an inode's refcount is the number of its directory entries, and a name  *)
(* has at least as many references as entries and attributes (_add_name,   *)
(* _del_name, _remove, _replace and forget count them in different places, *)
(* fs.py:313-327, 572-619, 678-802, 997-1029, 1157-1183).                  *)
THEOREM CountsStayTrue == Spec /\ KernelOnly => []CountsExact
<1>1. Inv => CountsExact
  <2>1. ASSUME Inv  PROVE LinkCountExact
    BY <2>1 DEF Inv, Sound, Counted, LinkCountExact, Links, LinkCount
  <2>2. ASSUME Inv, NEW n \in Name
        PROVE  /\ db.names[n] >= Uses(db, n)
               /\ ~Does("setxattr") => db.names[n] = Uses(db, n)
    <3>1. Uses(db, n) = NameCount(db.contents, n) + AttrCount(db.xattrs, n)
      BY DEF Uses, NameCount, AttrCount
    <3>2. /\ NameCount(db.contents, n) \in Nat /\ db.names[n] \in Nat
          /\ db.names[n] >= NameCount(db.contents, n) + AttrCount(db.xattrs, n)
          /\ ~Does("setxattr") => db.names[n] = NameCount(db.contents, n)
      BY <2>2, NamesStay DEF Inv
    <3>3. ~Does("setxattr") => AttrCount(db.xattrs, n) = 0
      <4>1. IsFiniteSet(db.xattrs) /\ (~Does("setxattr") => db.xattrs = {})
        BY <2>2 DEF Inv, Sound, Tables, Counted
      <4> QED  BY <4>1, AttrCountType
    <3> QED  BY <3>1, <3>2, <3>3
  <2> QED  BY <2>1, <2>2 DEF CountsExact, NamesCounted
<1> QED  BY <1>1, NamespaceInvariant, PTL

(* forget deletes an inode only when neither the kernel nor an entry       *)
(* refers to it, although it looks before it waits for cache.remove and    *)
(* deletes after it; and when unmounting is over no inode without an entry *)
(* is left, not even those whose lookup a failing unlink or rename has     *)
(* leaked (fs.py:568, 572-619, 1157-1183).                                 *)
THEOREM InodesLiveAsLongAsWanted == Spec /\ KernelOnly => []InodeLives
<1>1. Inv => InodeLives
  <2>1. ASSUME Inv  PROVE InodeKept
    <3>1. \A i \in Id : kernel[i] > 0 => i \in db.inodes
      BY <2>1 DEF Inv, Types, Opened
    <3>2. \A e \in db.contents : {e.parent, e.inode} \subseteq db.inodes
      BY <2>1, EntryExists
    <3> QED  BY <3>1, <3>2 DEF InodeKept
  <2>2. ASSUME Inv, state = "unmounting", \A t \in Task : task[t] = Idle, NEW i \in db.inodes
        PROVE  db.refcount[i] > 0
    <3>1. \A t \in Task : task[t].pc = "idle"
      BY <2>2 DEF Idle
    <3>2. i \in Id /\ open_inodes[i] \in Nat
      BY <2>2 DEF Inv, Types, Sound, Tables
    <3>3. ~(open_inodes[i] > 0)
      BY <2>2, <3>1, <3>2 DEF Inv, Handlers
    <3>4. db.refcount[i] # 0
      BY <2>2, <3>1, <3>3 DEF Inv, Opened, Drops
    <3>5. IsFiniteSet(db.contents) /\ db.refcount[Root] = 1
      BY <2>2 DEF Inv, Sound, Tables, Counted
    <3>6. i # Root => db.refcount[i] = LinkCount(db.contents, i)
      BY <2>2 DEF Inv, Sound, Counted
    <3>7. LinkCount(db.contents, i) \in Nat
      BY <3>5, LinkCountType
    <3> QED  BY <3>4, <3>5, <3>6, <3>7
  <2> QED  BY <2>1, <2>2 DEF InodeLives, CleanUnmount
<1> QED  BY <1>1, NamespaceInvariant, PTL
=============================================================================
