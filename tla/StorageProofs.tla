---------------------------- MODULE StorageProofs ----------------------------
(***************************************************************************)
(* What the backend that encrypts and the local backend promise, for every *)
(* number of processes, keys and pieces, and every setting.                *)
(***************************************************************************)
EXTENDS MCStorage, SequenceTheorems, TLAPS

-----------------------------------------------------------------------------
(***************************************************************************)
(* The backend that encrypts (ComprEnc).  The argument rests on the nonce: *)
(* what was encrypted with a nonce is the data written at the time in it   *)
(* (Genuine), so a signature, which names the key, the metadata and the    *)
(* nonce, stands for a triple that was stored (Known), also while the call *)
(* that made it is under way or after it was killed.  What the storage     *)
(* returns does not matter, because all of that is invariant under it.     *)
(***************************************************************************)
\* What a process does.
Procs ==
    [op: {"idle"}]
    \cup [op: {"write"}, src: Key, dest: Key, meta: CE!Metas, body: CE!Bodies]
    \cup [op: {"copy"}, src: Key, dest: Key, rename: BOOLEAN, meta: CE!Metas \cup {None}]
    \cup [op: {"delete"}, src: Key, dest: Key]

Types ==
    /\ config \in ComprEncSettings
    /\ store \in [Key -> CE!Objects \cup {None}]
    /\ past \in [meta: SUBSET CE!Metas, body: SUBSET CE!Bodies]
    /\ time \in Nat /\ updates \in Nat
    /\ proc \in [Process -> Procs]

\* Metadata as the backend makes it, and data as it was encrypted; e says if
\* there is a passphrase.
Signed(meta, e) ==
    IF e THEN /\ meta.enc /\ meta.nonce \in CE!Nonces /\ meta.oid \in Key
              /\ meta.sig = CE!checksum_basic_mapping(meta.oid, meta.data, meta.nonce)
         ELSE ~meta.enc /\ meta.nonce = None
Genuine(body, e) ==
    /\ body.whole
    /\ IF e THEN body.nonce \in CE!Nonces /\ body.data = body.nonce[1] ELSE body.nonce = None

\* It stands for something that was stored.
Known(meta, w, bodies) ==
    /\ <<meta.oid, meta.data, meta.nonce[1]>> \in w
    /\ \E b \in bodies : b.nonce = meta.nonce

PastGenuine ==
    /\ \A m \in past.meta : /\ Signed(m, CE!Encrypted)
                            /\ CE!Encrypted => Known(m, written, past.body)
    /\ \A b \in past.body : Genuine(b, CE!Encrypted)

\* The storage has objects that were put there.
StorePast ==
    \A k \in Key : store[k] # None => store[k].meta \in past.meta /\ store[k].body \in past.body

\* What a process is about to put there is as good.
PendingOf(r, e, w, bodies) ==
    /\ r.op = "write" =>
          /\ r.src = r.dest
          /\ Signed(r.meta, e) /\ Genuine(r.body, e)
          /\ r.meta.nonce = r.body.nonce
          /\ e => r.meta.oid = r.src
    /\ r.op = "copy" =>
          /\ r.rename => r.src # r.dest
          /\ e => r.meta # None
          /\ r.meta # None => /\ Signed(r.meta, e)
                              /\ e => Known(r.meta, w, bodies) /\ r.meta.oid = r.dest
    /\ r.op = "delete" => r.src # r.dest
Pending == \A p \in Process : PendingOf(proc[p], CE!Encrypted, written, past.body)

\* An object that can be read, and was stored as it is.
Fits(k, meta, body, e, w) ==
    /\ e => meta.oid = k /\ meta.nonce = body.nonce
    /\ <<k, meta.data, body.data>> \in w

\* As long as nobody writes an object while it is copied: nobody else works
\* on its key, so the source of a copy stays what it was when looked up, and
\* that of a rename what has been copied.
KeysOf(r) == IF r.op = "idle" THEN {} ELSE {r.src, r.dest}
SourceKept(r, st, e, w) ==
    /\ r.op = "copy" =>
          /\ st[r.src] # None
          /\ Fits(r.dest, IF r.meta = None THEN st[r.src].meta ELSE r.meta, st[r.src].body, e, w)
    /\ r.op = "delete" =>
          st[r.dest] # None /\ st[r.src] # None /\ st[r.dest].body = st[r.src].body
Separate == \A p, q \in Process : p # q => KeysOf(proc[p]) \cap KeysOf(proc[q]) = {}
StoreFits ==
    \A k \in Key : store[k] # None => Fits(k, store[k].meta, store[k].body, CE!Encrypted, written)
Sources == \A p \in Process : SourceKept(proc[p], store, CE!Encrypted, written)

\* Without a passphrase an object is only what it is if nobody interferes.
LastRead ==
    CE!Encrypted \/ ~(CE!Overlap \/ CE!Faults) => CE!ReadAuthentic

CEInv ==
    /\ Types /\ PastGenuine /\ StorePast /\ Pending
    /\ ~CE!Overlap => Separate /\ StoreFits /\ Sources
-----------------------------------------------------------------------------
(* What the operations make. *)

\* The settings are records of the right type.
LEMMA Setting ==
  ASSUME Types
  PROVE  /\ CE!Encrypted \in BOOLEAN /\ CE!Overlap \in BOOLEAN /\ CE!Faults \in BOOLEAN
         /\ CE!MaxTime \in Nat
  BY StorageAssumption DEF Types, CE!Encrypted, CE!Overlap, CE!Faults, CE!MaxTime

\* The nonce of a call.
LEMMA NonceType ==
  ASSUME Types, NEW k \in Key
  PROVE  /\ CE!Nonce(k) \in CE!Nonces \cup {None}
         /\ CE!Encrypted => CE!Nonce(k) \in CE!Nonces /\ CE!Nonce(k)[1] = time
         /\ ~CE!Encrypted => CE!Nonce(k) = None
  BY Setting DEF Types, CE!Nonce, CE!Nonces

\* Metadata is signed exactly if it has a nonce (meta_raw).
LEMMA RawMeta ==
  ASSUME NEW k \in Key, NEW m \in Int, NEW n \in CE!Nonces \cup {None},
         CE!Encrypted => n \in CE!Nonces, ~CE!Encrypted => n = None
  PROVE  /\ CE!MetaRaw(k, m, n) \in CE!Metas
         /\ Signed(CE!MetaRaw(k, m, n), CE!Encrypted)
         /\ CE!MetaRaw(k, m, n).nonce = n
         /\ CE!MetaRaw(k, m, n).data = m
         /\ CE!Encrypted => CE!MetaRaw(k, m, n).oid = k
  <1>1. CASE n = None
    <2>1. CE!MetaRaw(k, m, n) = [enc |-> FALSE, nonce |-> None, oid |-> None, data |-> m, sig |-> None]
      BY <1>1 DEF CE!MetaRaw
    <2>2. ~CE!Encrypted BY <1>1, StorageAssumption
    <2> QED BY <2>1, <2>2, <1>1 DEF CE!Metas, Signed
  <1>2. CASE n # None
    <2>1. CE!MetaRaw(k, m, n) = [enc |-> TRUE, nonce |-> n, oid |-> k, data |-> m,
                                 sig |-> [oid |-> k, data |-> m, nonce |-> n]]
      BY <1>2 DEF CE!MetaRaw, CE!checksum_basic_mapping
    <2>2. n \in CE!Nonces /\ CE!Encrypted BY <1>2
    <2>3. CE!MetaRaw(k, m, n) \in CE!Metas BY <2>1, <2>2 DEF CE!Metas
    <2> QED BY <2>1, <2>2, <2>3 DEF Signed, CE!checksum_basic_mapping
  <1> QED BY <1>1, <1>2

\* The setting does not change.
LEMMA SameSetting ==
  ASSUME UNCHANGED config
  PROVE  CE!Encrypted' = CE!Encrypted /\ CE!Overlap' = CE!Overlap /\ CE!Faults' = CE!Faults
  BY DEF CE!Encrypted, CE!Overlap, CE!Faults

\* What is known stays so, and so does what a process is about to do.
LEMMA PendingStays ==
  ASSUME NEW w, NEW w2, w \subseteq w2, NEW bs, NEW bs2, bs \subseteq bs2,
         NEW e, NEW r, PendingOf(r, e, w, bs)
  PROVE  PendingOf(r, e, w2, bs2)
  BY DEF PendingOf, Known

LEMMA PendingStep ==
  ASSUME UNCHANGED config, written \subseteq written', past.body \subseteq past'.body,
         Types, Pending, NEW p \in Process, NEW r, proc' = [proc EXCEPT ![p] = r],
         PendingOf(r, CE!Encrypted, written', past'.body)
  PROVE  Pending'
  <1> SUFFICES ASSUME NEW q \in Process
               PROVE  PendingOf(proc'[q], CE!Encrypted, written', past'.body)
    BY SameSetting DEF Pending
  <1>1. CASE q = p BY <1>1 DEF Types
  <1>2. CASE q # p
    <2>1. proc'[q] = proc[q] BY <1>2 DEF Types
    <2>2. PendingOf(proc[q], CE!Encrypted, written, past.body) BY DEF Pending
    <2> QED BY <2>1, <2>2, PendingStays
  <1> QED BY <1>1, <1>2

\* As long as the objects of the past stay.
LEMMA PastStep ==
  ASSUME UNCHANGED config, written \subseteq written', past.body \subseteq past'.body, PastGenuine,
         \A m \in past'.meta : m \in past.meta \/
             (Signed(m, CE!Encrypted) /\ (CE!Encrypted => Known(m, written', past'.body))),
         \A b \in past'.body : b \in past.body \/ Genuine(b, CE!Encrypted)
  PROVE  PastGenuine'
  <1>1. \A m : Known(m, written, past.body) => Known(m, written', past'.body) BY DEF Known
  <1> QED BY <1>1, SameSetting DEF PastGenuine

\* A process works on other keys than the rest.
LEMMA SeparateStep ==
  ASSUME Types, Separate, NEW p \in Process, NEW r, proc' = [proc EXCEPT ![p] = r],
         \A q \in Process : q # p => KeysOf(proc[q]) \cap KeysOf(r) = {}
  PROVE  Separate'
  <1> SUFFICES ASSUME NEW u \in Process, NEW q \in Process, u # q
               PROVE  KeysOf(proc'[u]) \cap KeysOf(proc'[q]) = {}
    BY DEF Separate, KeysOf
  <1>1. CASE u # p /\ q # p BY <1>1 DEF Types, Separate
  <1>2. CASE u = p
    <2>1. proc'[u] = r /\ proc'[q] = proc[q] BY <1>2 DEF Types
    <2> QED BY <2>1, <1>2
  <1>3. CASE q = p
    <2>1. proc'[q] = r /\ proc'[u] = proc[u] BY <1>3 DEF Types
    <2> QED BY <2>1, <1>3
  <1> QED BY <1>1, <1>2, <1>3

\* The keys that nobody uses.
LEMMA NotUsed ==
  ASSUME NEW k, ~CE!Using(k)
  PROVE  \A q \in Process : k \notin KeysOf(proc[q])
  BY DEF CE!Using, CE!Idle, KeysOf

\* The source of a copy is kept if its keys are not written.
LEMMA SourceStays ==
  ASSUME NEW st, NEW st2, NEW e, NEW w, NEW w2, w \subseteq w2, NEW r,
         \A k \in KeysOf(r) : st2[k] = st[k], SourceKept(r, st, e, w)
  PROVE  SourceKept(r, st2, e, w2)
  <1>1. CASE r.op = "copy"
    <2>1. st2[r.src] = st[r.src] BY <1>1 DEF KeysOf
    <2> QED BY <1>1, <2>1 DEF SourceKept, Fits
  <1>2. CASE r.op = "delete"
    <2>1. st2[r.src] = st[r.src] /\ st2[r.dest] = st[r.dest] BY <1>2 DEF KeysOf
    <2> QED BY <1>2, <2>1 DEF SourceKept
  <1> QED BY <1>1, <1>2 DEF SourceKept

LEMMA SourcesStep ==
  ASSUME UNCHANGED config, written \subseteq written', Types, Sources, NEW p \in Process, NEW r,
         proc' = [proc EXCEPT ![p] = r], SourceKept(r, store', CE!Encrypted, written'),
         \A q \in Process : q # p => \A k \in KeysOf(proc[q]) : store'[k] = store[k]
  PROVE  Sources'
  <1> SUFFICES ASSUME NEW q \in Process
               PROVE  SourceKept(proc'[q], store', CE!Encrypted, written')
    BY SameSetting DEF Sources
  <1>1. CASE q = p BY <1>1 DEF Types
  <1>2. CASE q # p
    <2>1. proc'[q] = proc[q] BY <1>2 DEF Types
    <2>2. SourceKept(proc[q], store, CE!Encrypted, written) BY DEF Sources
    <2> QED BY <2>1, <2>2, <1>2, SourceStays
  <1> QED BY <1>1, <1>2

-----------------------------------------------------------------------------
(* Every operation keeps the invariant. *)

LEMMA CEInitInv == CE!Init => CEInv
  <1> SUFFICES ASSUME CE!Init PROVE CEInv OBVIOUS
  <1>1. Types BY DEF CE!Init, Types, Procs
  <1>2. \A p \in Process : proc[p] = [op |-> "idle"] BY DEF CE!Init
  <1>3. \A k \in Key : store[k] = None BY DEF CE!Init
  <1>4. PastGenuine /\ StorePast BY <1>3 DEF CE!Init, PastGenuine, StorePast
  <1>5. Pending BY <1>2 DEF Pending, PendingOf
  <1>6. Separate /\ StoreFits /\ Sources
    BY <1>2, <1>3 DEF Separate, StoreFits, Sources, SourceKept, KeysOf
  <1> QED BY <1>1, <1>4, <1>5, <1>6 DEF CEInv

\* A process that does nothing has no keys.
LEMMA IdleKeys ==
  KeysOf([op |-> "idle"]) = {} /\ (\A e, w, bs : PendingOf([op |-> "idle"], e, w, bs))
  /\ (\A st, e, w : SourceKept([op |-> "idle"], st, e, w))
  BY DEF KeysOf, PendingOf, SourceKept

LEMMA OpenWriteInv ==
  ASSUME CEInv, NEW p \in Process, NEW k \in Key, CE!open_write(p, k), UNCHANGED config
  PROVE  CEInv'
  <1> DEFINE n == CE!Nonce(k)
             r == [op |-> "write", src |-> k, dest |-> k, meta |-> CE!MetaRaw(k, time, n),
                   body |-> CE!Body(time, n)]
  <1> USE DEF CEInv
  <1>1. /\ UNCHANGED <<store, past, updates, written>> /\ time' = time + 1
        /\ proc' = [proc EXCEPT ![p] = r] /\ (CE!Overlap \/ ~CE!Using(k))
    BY DEF CE!open_write, CE!Do
  <1>2. time \in Int /\ n \in CE!Nonces \cup {None} BY NonceType DEF Types
  <1>3. /\ CE!MetaRaw(k, time, n) \in CE!Metas /\ Signed(CE!MetaRaw(k, time, n), CE!Encrypted)
        /\ CE!MetaRaw(k, time, n).nonce = n
        /\ CE!Encrypted => CE!MetaRaw(k, time, n).oid = k
    BY <1>2, NonceType, RawMeta
  <1>4. CE!Body(time, n) \in CE!Bodies /\ Genuine(CE!Body(time, n), CE!Encrypted)
        /\ CE!Body(time, n).nonce = n
    BY <1>2, NonceType DEF CE!Body, CE!Bodies, Genuine
  <1>5. r \in Procs /\ KeysOf(r) = {k} BY <1>3, <1>4 DEF Procs, KeysOf
  <1>6. Types' BY <1>1, <1>5 DEF Types
  <1>7. PastGenuine' /\ StorePast' BY <1>1, SameSetting DEF PastGenuine, StorePast
  <1>8. PendingOf(r, CE!Encrypted, written', past'.body) BY <1>3, <1>4 DEF PendingOf
  <1>9. Pending' BY <1>1, <1>8, PendingStep
  <1>10. ASSUME ~CE!Overlap PROVE Separate' /\ StoreFits' /\ Sources'
    <2>1. Separate'
      <3>1. \A q \in Process : KeysOf(proc[q]) \cap KeysOf(r) = {} BY <1>1, <1>5, <1>10, NotUsed
      <3> HIDE DEF r
      <3> QED BY <1>1, <3>1, <1>10, SeparateStep
    <2>2. StoreFits' BY <1>1, <1>10, SameSetting DEF StoreFits
    <2>3. SourceKept(r, store', CE!Encrypted, written') BY DEF SourceKept
    <2>4. Sources' BY <1>1, <1>10, <2>3, SourcesStep
    <2> QED BY <2>1, <2>2, <2>4
  <1> QED BY <1>6, <1>7, <1>9, <1>10, SameSetting

LEMMA CloseInv ==
  ASSUME CEInv, NEW p \in Process, CE!close(p), UNCHANGED config
  PROVE  CEInv'
  <1> DEFINE r == proc[p]
             k == r.src
             obj == [meta |-> r.meta, body |-> r.body]
  <1> USE DEF CEInv
  <1>1. /\ r.op = "write" /\ UNCHANGED <<time, updates>>
        /\ store' = [store EXCEPT ![k] = obj]
        /\ past' = [meta |-> past.meta \cup {r.meta}, body |-> past.body \cup {r.body}]
        /\ written' = written \cup {<<k, r.meta.data, r.body.data>>}
        /\ proc' = [proc EXCEPT ![p] = [op |-> "idle"]]
    BY DEF CE!close, CE!Put, CE!Do
  <1>2. k \in Key /\ r.dest = k /\ r.meta \in CE!Metas /\ r.body \in CE!Bodies
    BY <1>1 DEF Types, Procs, Pending, PendingOf
  <1>3. /\ Signed(r.meta, CE!Encrypted) /\ Genuine(r.body, CE!Encrypted)
        /\ r.meta.nonce = r.body.nonce /\ (CE!Encrypted => r.meta.oid = k)
    BY <1>1 DEF Pending, PendingOf
  <1>4. Types'
    <2>1. obj \in CE!Objects BY <1>2 DEF CE!Objects
    <2>2. past' \in [meta: SUBSET CE!Metas, body: SUBSET CE!Bodies] BY <1>1, <1>2 DEF Types
    <2> QED BY <1>1, <1>2, <2>1, <2>2 DEF Types, Procs
  <1>5. CE!Encrypted => Known(r.meta, written', past'.body)
    <2>1. CE!Encrypted => r.body.data = r.meta.nonce[1] BY <1>3 DEF Genuine
    <2> QED BY <2>1, <1>1, <1>3 DEF Known
  <1>6. PastGenuine' BY <1>1, <1>3, <1>5, PastStep
  <1>7. StorePast' BY <1>1, <1>2 DEF StorePast, Types
  <1>8. Pending' BY <1>1, IdleKeys, PendingStep
  <1>9. ASSUME ~CE!Overlap PROVE Separate' /\ StoreFits' /\ Sources'
    <2>1. Separate' BY <1>1, <1>9, IdleKeys, SeparateStep
    <2>2. StoreFits'
      <3> SUFFICES ASSUME NEW j \in Key, store'[j] # None
                   PROVE  Fits(j, store'[j].meta, store'[j].body, CE!Encrypted, written')
        BY SameSetting DEF StoreFits
      <3>1. CASE j = k BY <3>1, <1>1, <1>2, <1>3 DEF Types, Fits
      <3>2. CASE j # k BY <3>2, <1>1, <1>9 DEF Types, StoreFits, Fits
      <3> QED BY <3>1, <3>2
    <2>3. \A q \in Process : q # p => \A j \in KeysOf(proc[q]) : store'[j] = store[j]
      <3>1. k \in KeysOf(proc[p]) BY <1>1 DEF KeysOf
      <3> QED BY <3>1, <1>1, <1>9 DEF Separate, Types
    <2>4. Sources' BY <1>1, <1>9, <2>3, IdleKeys, SourcesStep
    <2> QED BY <2>1, <2>2, <2>4
  <1> QED BY <1>4, <1>6, <1>7, <1>8, <1>9, SameSetting

\* The data that belongs to the metadata of an object.
LEMMA DataOfObject ==
  ASSUME CEInv, NEW k \in Key, store[k] # None
  PROVE  /\ store[k].meta \in CE!Metas /\ store[k].body \in CE!Bodies
         /\ Signed(store[k].meta, CE!Encrypted) /\ Genuine(store[k].body, CE!Encrypted)
         /\ CE!Encrypted => /\ Known(store[k].meta, written, past.body)
                            /\ CE!DataOf(store[k]) = store[k].meta.nonce[1]
         /\ ~CE!Encrypted => CE!DataOf(store[k]) = store[k].body.data
  <1> USE DEF CEInv
  <1> DEFINE m == store[k].meta
  <1>1. m \in past.meta /\ store[k].body \in past.body BY DEF StorePast
  <1>2. m \in CE!Metas /\ store[k].body \in CE!Bodies BY <1>1 DEF Types
  <1>3. Signed(m, CE!Encrypted) /\ Genuine(store[k].body, CE!Encrypted) BY <1>1 DEF PastGenuine
  <1>4. ASSUME CE!Encrypted
        PROVE  Known(m, written, past.body) /\ CE!DataOf(store[k]) = m.nonce[1]
    <2>1. Known(m, written, past.body) BY <1>1, <1>4 DEF PastGenuine
    <2>2. m.nonce # None BY <1>3, <1>4, StorageAssumption DEF Signed
    <2> DEFINE b == CHOOSE x \in past.body : x.nonce = m.nonce
    <2>3. b \in past.body /\ b.nonce = m.nonce BY <2>1 DEF Known
    <2>4. b.data = b.nonce[1] BY <2>3, <1>4 DEF PastGenuine, Genuine
    <2> QED BY <2>1, <2>2, <2>3, <2>4 DEF CE!DataOf
  <1>5. ~CE!Encrypted => CE!DataOf(store[k]) = store[k].body.data
    BY <1>3 DEF Signed, CE!DataOf
  <1> QED BY <1>2, <1>3, <1>4, <1>5

LEMMA CopyOrRenameInv ==
  ASSUME CEInv, NEW p \in Process, NEW src \in Key, NEW dest \in Key,
         NEW rename \in BOOLEAN, NEW change \in BOOLEAN,
         CE!_copy_or_rename(p, src, dest, rename, change), UNCHANGED config
  PROVE  CEInv'
  <1> USE DEF CEInv
  <1> DEFINE old == store[src].meta
             m == IF change THEN CE!MaxTime + updates ELSE old.data
             new == IF old.nonce = None /\ ~change THEN None ELSE CE!MetaRaw(dest, m, old.nonce)
             r == [op |-> "copy", src |-> src, dest |-> dest, rename |-> rename, meta |-> new]
  <1>1. /\ store[src] # None /\ UNCHANGED <<store, past, time>> /\ updates' \in Nat
        /\ CE!Overlap \/ (~CE!Using(src) /\ ~CE!Using(dest))
        /\ rename => src # dest
        /\ \/ /\ proc' = [proc EXCEPT ![p] = r]
              /\ written' = written \cup {<<dest, m, CE!DataOf(store[src])>>}
              /\ CE!_verify_meta(src, old) = "ok"
           \/ UNCHANGED <<proc, written>>
    BY DEF CE!_copy_or_rename, CE!Do, Types
  <1>2. CASE UNCHANGED <<proc, written>>
    <2>1. Types' /\ PastGenuine' /\ StorePast' /\ Pending'
      BY <1>1, <1>2, SameSetting DEF Types, PastGenuine, StorePast, Pending
    <2>2. ~CE!Overlap => Separate' /\ StoreFits' /\ Sources'
      BY <1>1, <1>2, SameSetting DEF Separate, StoreFits, Sources
    <2> QED BY <2>1, <2>2, SameSetting
  <1>3. CASE /\ proc' = [proc EXCEPT ![p] = r]
             /\ written' = written \cup {<<dest, m, CE!DataOf(store[src])>>}
             /\ CE!_verify_meta(src, old) = "ok"
    <2>1. /\ old \in CE!Metas /\ Signed(old, CE!Encrypted)
          /\ CE!Encrypted => /\ Known(old, written, past.body) /\ old.nonce \in CE!Nonces
                             /\ CE!DataOf(store[src]) = old.nonce[1]
          /\ ~CE!Encrypted => old.nonce = None /\ CE!DataOf(store[src]) = store[src].body.data
      BY <1>1, DataOfObject DEF Signed
    <2>2. m \in Int BY <2>1, Setting DEF Types, CE!Metas
    <2>3. old.nonce \in CE!Nonces \cup {None} BY <2>1 DEF CE!Metas
    <2>4. /\ CE!MetaRaw(dest, m, old.nonce) \in CE!Metas
          /\ Signed(CE!MetaRaw(dest, m, old.nonce), CE!Encrypted)
          /\ CE!MetaRaw(dest, m, old.nonce).nonce = old.nonce
          /\ CE!MetaRaw(dest, m, old.nonce).data = m
          /\ CE!Encrypted => CE!MetaRaw(dest, m, old.nonce).oid = dest
      BY <2>1, <2>2, <2>3, RawMeta
    <2>5. old.nonce = None => ~CE!Encrypted BY <2>1, StorageAssumption
    <2>6. /\ new \in CE!Metas \cup {None}
          /\ CE!Encrypted => new # None /\ new.nonce = old.nonce
          /\ new # None => /\ new.nonce = old.nonce /\ new.data = m
                           /\ Signed(new, CE!Encrypted) /\ (CE!Encrypted => new.oid = dest)
          /\ new = None => m = old.data
      BY <2>4, <2>5, StorageAssumption
    <2> HIDE DEF new
    <2>7. r \in Procs /\ KeysOf(r) = {src, dest} BY <2>6 DEF Procs, KeysOf
    <2>8. Types' BY <1>1, <1>3, <2>7 DEF Types
    <2>9. written \subseteq written' /\ past.body \subseteq past'.body
          /\ <<dest, m, CE!DataOf(store[src])>> \in written'
      BY <1>1, <1>3
    <2> HIDE DEF m, old
    <2>10. PastGenuine' BY <1>1, <2>9, PastStep
    <2>11. StorePast' BY <1>1 DEF StorePast
    <2>12. CE!Encrypted => Known(new, written', past'.body) BY <1>1, <2>1, <2>6, <2>9 DEF Known
    <2>13. PendingOf(r, CE!Encrypted, written', past'.body)
      BY <1>1, <2>6, <2>12 DEF PendingOf
    <2>14. Pending'
      <3> HIDE DEF r
      <3> QED BY <1>3, <2>9, <2>13, PendingStep
    <2>15. ASSUME ~CE!Overlap PROVE Separate' /\ StoreFits' /\ Sources'
      <3>1. \A q \in Process : KeysOf(proc[q]) \cap KeysOf(r) = {}
        BY <1>1, <2>7, <2>15, NotUsed
      <3>2. SourceKept(r, store', CE!Encrypted, written')
        <4>1. Fits(src, old, store[src].body, CE!Encrypted, written)
          BY <2>15, <1>1 DEF StoreFits, old
        <4>2. CE!DataOf(store[src]) = store[src].body.data
          <5>1. Genuine(store[src].body, CE!Encrypted) BY <1>1, DataOfObject
          <5> QED BY <5>1, <4>1, <2>1, Setting DEF Fits, Genuine
        <4>3. Fits(dest, IF new = None THEN old ELSE new, store[src].body, CE!Encrypted, written')
          BY <4>1, <4>2, <2>6, <2>9 DEF Fits
        <4> QED BY <4>3, <1>1 DEF SourceKept, old
      <3> HIDE DEF r
      <3>3. Separate' BY <1>3, <3>1, <2>15, SeparateStep
      <3>4. StoreFits' BY <1>1, <2>9, <2>15, SameSetting DEF StoreFits, Fits
      <3>5. Sources' BY <1>1, <1>3, <2>9, <3>2, <2>15, SourcesStep
      <3> QED BY <3>3, <3>4, <3>5
    <2> QED BY <2>8, <2>10, <2>11, <2>14, <2>15, SameSetting
  <1> QED BY <1>1, <1>2, <1>3

LEMMA CopyBackendInv ==
  ASSUME CEInv, NEW p \in Process, CE!CopyBackend(p), UNCHANGED config
  PROVE  CEInv'
  <1> USE DEF CEInv
  <1> DEFINE r == proc[p]
             new == CE!CopyMeta(p)
             obj == [meta |-> new, body |-> store[r.src].body]
             after == IF r.rename THEN [op |-> "delete", src |-> r.src, dest |-> r.dest]
                                  ELSE [op |-> "idle"]
  <1>1. /\ r.op = "copy" /\ store[r.src] # None /\ UNCHANGED <<time, updates, written>>
        /\ store' = [store EXCEPT ![r.dest] = obj]
        /\ past' = [meta |-> past.meta \cup {new}, body |-> past.body \cup {store[r.src].body}]
        /\ proc' = [proc EXCEPT ![p] = after]
    BY DEF CE!CopyBackend, CE!Put, CE!Do
  <1>2. /\ r.src \in Key /\ r.dest \in Key /\ r.rename \in BOOLEAN /\ r.meta \in CE!Metas \cup {None}
        /\ KeysOf(r) = {r.src, r.dest}
    BY <1>1 DEF Types, Procs, KeysOf
  <1>3. /\ r.rename => r.src # r.dest
        /\ CE!Encrypted => r.meta # None
        /\ r.meta # None => /\ Signed(r.meta, CE!Encrypted)
                            /\ CE!Encrypted => Known(r.meta, written, past.body)
    BY <1>1 DEF Pending, PendingOf
  <1>4. /\ store[r.src].body \in past.body /\ store[r.src].body \in CE!Bodies
        /\ Genuine(store[r.src].body, CE!Encrypted)
        /\ store[r.src].meta \in CE!Metas /\ Signed(store[r.src].meta, CE!Encrypted)
    BY <1>1, <1>2, DataOfObject DEF StorePast
  <1>5. /\ new = IF r.meta = None THEN store[r.src].meta ELSE r.meta
        /\ new \in CE!Metas /\ Signed(new, CE!Encrypted)
        /\ CE!Encrypted => Known(new, written, past.body)
    BY <1>2, <1>3, <1>4 DEF CE!CopyMeta
  <1> HIDE DEF new
  <1>6. after \in Procs /\ KeysOf(after) \subseteq KeysOf(r) BY <1>2 DEF Procs, KeysOf
  <1>7. obj \in CE!Objects BY <1>4, <1>5 DEF CE!Objects
  <1>8. Types'
    <2>1. past' \in [meta: SUBSET CE!Metas, body: SUBSET CE!Bodies]
      BY <1>1, <1>4, <1>5 DEF Types
    <2> QED BY <1>1, <1>2, <1>6, <1>7, <2>1 DEF Types
  <1>9. written \subseteq written' /\ past.body \subseteq past'.body BY <1>1
  <1>10. PastGenuine'
    <2>1. CE!Encrypted => Known(new, written', past'.body) BY <1>5, <1>9 DEF Known
    <2> QED BY <1>1, <1>4, <1>5, <1>9, <2>1, PastStep
  <1>11. StorePast' BY <1>1, <1>2, <1>7 DEF StorePast, Types
  <1>12. PendingOf(after, CE!Encrypted, written', past'.body) BY <1>2, <1>3 DEF PendingOf
  <1>13. Pending'
    <2> HIDE DEF after
    <2> QED BY <1>1, <1>9, <1>12, PendingStep
  <1>14. ASSUME ~CE!Overlap PROVE Separate' /\ StoreFits' /\ Sources'
    <2>1. \A q \in Process : q # p => KeysOf(proc[q]) \cap KeysOf(r) = {} BY <1>14 DEF Separate
    <2>2. Separate'
      <3>1. \A q \in Process : q # p => KeysOf(proc[q]) \cap KeysOf(after) = {} BY <2>1, <1>6
      <3> HIDE DEF after
      <3> QED BY <1>1, <1>14, <3>1, SeparateStep
    <2>3. Fits(r.dest, new, store[r.src].body, CE!Encrypted, written)
      BY <1>1, <1>5, <1>14 DEF Sources, SourceKept
    <2>4. StoreFits'
      <3> SUFFICES ASSUME NEW j \in Key, store'[j] # None
                   PROVE  Fits(j, store'[j].meta, store'[j].body, CE!Encrypted, written)
        BY <1>1, SameSetting DEF StoreFits
      <3>1. CASE j = r.dest BY <3>1, <2>3, <1>1, <1>2 DEF Types
      <3>2. CASE j # r.dest BY <3>2, <1>1, <1>14 DEF Types, StoreFits
      <3> QED BY <3>1, <3>2
    <2>5. SourceKept(after, store', CE!Encrypted, written')
      <3>1. CASE r.rename
        <4>1. store'[r.dest] = obj /\ store'[r.src] = store[r.src]
          BY <3>1, <1>1, <1>2, <1>3 DEF Types
        <4>2. obj # None BY <1>7, StorageAssumption
        <4> QED BY <4>1, <4>2, <3>1, <1>1 DEF SourceKept
      <3>2. CASE ~r.rename BY <3>2, IdleKeys
      <3> QED BY <3>1, <3>2
    <2>6. \A q \in Process : q # p => \A j \in KeysOf(proc[q]) : store'[j] = store[j]
      BY <2>1, <1>1, <1>2 DEF Types
    <2>7. Sources'
      <3> HIDE DEF after
      <3> QED BY <1>1, <1>9, <1>14, <2>5, <2>6, SourcesStep
    <2> QED BY <2>2, <2>4, <2>7
  <1> QED BY <1>8, <1>10, <1>11, <1>13, <1>14, SameSetting

LEMMA RenameDeleteInv ==
  ASSUME CEInv, NEW p \in Process, CE!RenameDelete(p), UNCHANGED config
  PROVE  CEInv'
  <1> USE DEF CEInv
  <1> DEFINE k == proc[p].src
  <1>1. /\ proc[p].op = "delete" /\ UNCHANGED <<past, time, updates, written>>
        /\ store' = [store EXCEPT ![k] = None]
        /\ proc' = [proc EXCEPT ![p] = [op |-> "idle"]]
    BY DEF CE!RenameDelete, CE!Do
  <1>2. k \in Key /\ k \in KeysOf(proc[p]) BY <1>1 DEF Types, Procs, KeysOf
  <1>3. Types' BY <1>1, <1>2 DEF Types, Procs
  <1>4. PastGenuine' /\ StorePast'
    BY <1>1, <1>2, SameSetting DEF PastGenuine, StorePast, Types
  <1>5. Pending' BY <1>1, IdleKeys, PendingStep
  <1>6. ASSUME ~CE!Overlap PROVE Separate' /\ StoreFits' /\ Sources'
    <2>1. Separate' BY <1>1, <1>6, IdleKeys, SeparateStep
    <2>2. StoreFits' BY <1>1, <1>2, <1>6, SameSetting DEF StoreFits, Types
    <2>3. \A q \in Process : q # p => \A j \in KeysOf(proc[q]) : store'[j] = store[j]
      BY <1>1, <1>2, <1>6 DEF Separate, Types
    <2>4. Sources' BY <1>1, <1>6, <2>3, IdleKeys, SourcesStep
    <2> QED BY <2>1, <2>2, <2>4
  <1> QED BY <1>3, <1>4, <1>5, <1>6, SameSetting

LEMMA KillInv ==
  ASSUME CEInv, NEW p \in Process, CE!Kill(p), UNCHANGED config
  PROVE  CEInv'
  <1> USE DEF CEInv
  <1>1. /\ UNCHANGED <<store, past, time, updates, written>>
        /\ proc' = [proc EXCEPT ![p] = [op |-> "idle"]]
    BY DEF CE!Kill, CE!Do
  <1>2. Types' BY <1>1 DEF Types, Procs
  <1>3. PastGenuine' /\ StorePast' BY <1>1, SameSetting DEF PastGenuine, StorePast
  <1>4. Pending' BY <1>1, IdleKeys, PendingStep
  <1>5. ASSUME ~CE!Overlap PROVE Separate' /\ StoreFits' /\ Sources'
    <2>1. Separate' BY <1>1, <1>5, IdleKeys, SeparateStep
    <2>2. StoreFits' BY <1>1, <1>5, SameSetting DEF StoreFits
    <2>3. Sources' BY <1>1, <1>5, IdleKeys, SourcesStep
    <2> QED BY <2>1, <2>2, <2>3
  <1> QED BY <1>2, <1>3, <1>4, <1>5, SameSetting

\* What changes the storage.
LEMMA WriteInv ==
  ASSUME CEInv, CE!Write, UNCHANGED config
  PROVE  CEInv'
  <1>1. ASSUME NEW p \in Process, NEW k \in Key, CE!open_write(p, k) PROVE CEInv'
    BY <1>1, OpenWriteInv
  <1>2. ASSUME NEW p \in Process, NEW src \in Key, NEW dest \in Key, NEW rename \in BOOLEAN,
               NEW change \in BOOLEAN, CE!_copy_or_rename(p, src, dest, rename, change)
        PROVE  CEInv'
    BY <1>2, CopyOrRenameInv
  <1>3. ASSUME NEW p \in Process, CE!close(p) \/ CE!CopyBackend(p) \/ CE!RenameDelete(p) \/ CE!Kill(p)
        PROVE  CEInv'
    BY <1>3, CloseInv, CopyBackendInv, RenameDeleteInv, KillInv
  <1> QED BY <1>1, <1>2, <1>3 DEF CE!Write

-----------------------------------------------------------------------------
(* Reading. *)

\* Verified metadata was stored under the key (_verify_meta).
LEMMA Verified ==
  ASSUME NEW k \in Key, NEW m \in past.meta, PastGenuine, CE!_verify_meta(k, m) = "ok",
         CE!Encrypted
  PROVE  m.enc /\ m.oid = k /\ Known(m, written, past.body)
  BY DEF PastGenuine, Signed, CE!_verify_meta

\* Whatever the storage returns is read as it was stored, or not at all.
LEMMA OpenReadAuthentic ==
  ASSUME CEInv, NEW k \in Key, CE!open_read(k), UNCHANGED config
  PROVE  CEInv' /\ LastRead'
  <1> USE DEF CEInv
  <1>1. UNCHANGED <<store, past, time, updates, proc, written>> /\ store[k] # None
    BY DEF CE!open_read
  <1>2. CEInv'
    BY <1>1, SameSetting DEF Types, PastGenuine, StorePast, Pending, Separate, StoreFits, Sources
  <1>3. PICK obj \in {store[k]} \cup
               (IF CE!Faults THEN [meta : past.meta, body : past.body \cup
                                     {[b EXCEPT !.whole = FALSE] : b \in past.body}]
                ELSE {}) :
          result' = CE!Returned(k, obj)
    BY DEF CE!open_read
  <1> SUFFICES ASSUME CE!Encrypted \/ ~(CE!Overlap \/ CE!Faults), CE!Read(k, obj) = "ok"
               PROVE  <<k, obj.meta.data, obj.body.data>> \in written
    BY <1>1, <1>2, <1>3, SameSetting DEF LastRead, CE!ReadAuthentic, CE!Returned
  <1>4. CASE CE!Encrypted
    <2>1. /\ obj.meta \in past.meta
          /\ obj.body \in past.body \/ ~obj.body.whole
      <3>1. CASE obj = store[k] BY <3>1, <1>1 DEF StorePast
      <3>2. CASE obj # store[k]
        <4>1. obj \in [meta : past.meta, body : past.body \cup
                                     {[b EXCEPT !.whole = FALSE] : b \in past.body}]
          BY <1>3, <3>2
        <4>2. \A b \in past.body : ~[b EXCEPT !.whole = FALSE].whole
          <5> SUFFICES ASSUME NEW b \in past.body PROVE ~[b EXCEPT !.whole = FALSE].whole
            OBVIOUS
          <5>1. b \in CE!Bodies BY DEF Types
          <5> QED BY <5>1 DEF CE!Bodies
        <4> QED BY <4>1, <4>2
      <3> QED BY <3>1, <3>2
    <2>2. /\ CE!_verify_meta(k, obj.meta) = "ok" /\ CE!BodyAuthentic(obj.meta, obj.body)
      BY DEF CE!Read
    <2>3. obj.meta.enc /\ obj.meta.oid = k /\ Known(obj.meta, written, past.body)
      BY <2>1, <2>2, <1>4, Verified
    <2>4. obj.meta.nonce = obj.body.nonce /\ obj.body \in past.body
      BY <2>1, <2>2, <2>3 DEF CE!BodyAuthentic
    <2>5. obj.body.data = obj.body.nonce[1] BY <2>4, <1>4 DEF PastGenuine, Genuine
    <2> QED BY <2>3, <2>4, <2>5 DEF Known
  <1>5. CASE ~CE!Encrypted
    <2>1. obj = store[k] /\ ~CE!Overlap BY <1>5, <1>3
    <2> QED BY <2>1, <1>1 DEF StoreFits, Fits
  <1> QED BY <1>4, <1>5

\* An object that is returned as it is can be read.
LEMMA AllReadable == ASSUME CEInv, ~CE!Overlap PROVE CE!Readable
  <1> SUFFICES ASSUME NEW k \in Key, store[k] # None PROVE CE!Read(k, store[k]) = "ok"
    BY DEF CE!Readable
  <1> USE DEF CEInv
  <1>1. Signed(store[k].meta, CE!Encrypted) /\ Genuine(store[k].body, CE!Encrypted)
    BY DataOfObject
  <1>2. Fits(k, store[k].meta, store[k].body, CE!Encrypted, written) BY DEF StoreFits
  <1>3. CE!_verify_meta(k, store[k].meta) = "ok"
    BY <1>1, <1>2, Setting DEF CE!_verify_meta, Signed, Fits
  <1>4. CE!BodyAuthentic(store[k].meta, store[k].body)
    BY <1>1, <1>2, Setting DEF CE!BodyAuthentic, Signed, Genuine, Fits
  <1> QED BY <1>3, <1>4 DEF CE!Read

-----------------------------------------------------------------------------
(***************************************************************************)
(* The local backend (LocalBackend).  A file that is being made belongs to *)
(* one thread (Owners), which has copied or written a known part of it     *)
(* (Progress), so what a file holds is the beginning of one version        *)
(* (Unmixed), also if that thread dies.  As long as nobody writes an       *)
(* object that is in use, a name refers to a whole file unless its writer  *)
(* is still at work (NamesWhole), and so does whoever reads (SourcesWhole).*)
(***************************************************************************)
Making == {"rename", "header", "write", "copy"}
Writers == {"rename", "header", "write"}
Reading == {"copy", "open", "read", "eof", "corrupted"}
Items == {<<n>> : n \in Nat} \cup Nat \X Nat
Threads == [op: {"idle"} \cup Making \cup Reading, key: Key \cup {None}, to: Key \cup {None},
            fd: Nat, src: Nat, pos: Nat, meta: BOOLEAN]

LocalTypes ==
    /\ config \in LocalSettings
    /\ file \in Seq(Seq(Items))
    /\ path \in [Key -> 0 .. Len(file)] /\ crashes \in Nat
    /\ thread \in [Process -> Threads]
    /\ \A t \in Process :
        /\ thread[t].op \in Making => thread[t].fd \in 1 .. Len(file)
        /\ thread[t].op \in Reading => thread[t].src \in 1 .. Len(file)
        /\ thread[t].op # "idle" => thread[t].key \in Key
        /\ thread[t].op = "copy" => thread[t].to \in Key

Owners ==
    \A t, u \in Process :
        t # u /\ thread[t].op \in Making /\ thread[u].op \in Making => thread[t].fd # thread[u].fd

\* The pieces of a file belong to version v.
PartOf(s, v) == \A i \in 2 .. Len(s) : s[i] = <<v, i - 1>>
Unmixed == \A f \in 1 .. Len(file) : \E v \in 1 .. Len(file) : PartOf(file[f], v)

\* How far a thread has come with its file.
Copied(s, from, n, meta) ==
    /\ Len(s) = n /\ n <= Len(from)
    /\ \A i \in (IF meta THEN 2 ELSE 1) .. n : s[i] = from[i]
ProgressOf(r, fs) ==
    /\ r.op \in {"rename", "header"} => fs[r.fd] = <<>>
    /\ r.op = "write" => /\ Len(fs[r.fd]) = r.pos /\ r.pos \in 1 .. Pieces + 1
                         /\ PartOf(fs[r.fd], r.fd)
    /\ r.op = "copy" => r.pos >= 1 /\ r.fd # r.src /\ Copied(fs[r.fd], fs[r.src], r.pos - 1, r.meta)
Progress == \A t \in Process : ProgressOf(thread[t], file)

\* No file is longer than a whole one.
Full(s) == Len(s) = Pieces + 1
Bounded == \A f \in 1 .. Len(file) : Len(file[f]) <= Pieces + 1

LocalInv == LocalTypes /\ Owners /\ Unmixed /\ Progress /\ Bounded

\* As long as nobody writes an object that is in use.
Written(k, th) == \E t \in Process : th[t].op \in Writers /\ th[t].key = k
NamesWhole == \A k \in Key : path[k] # 0 /\ ~Written(k, thread) => Full(file[path[k]])
SourcesWhole ==
    \A t \in Process : thread[t].op \in Reading => Full(file[thread[t].src]) /\ thread[t].op # "corrupted"
WritersAlone ==
    /\ \A t \in Process : thread[t].op \in {"header", "write"} => path[thread[t].key] = thread[t].fd
    /\ \A t, u \in Process : t # u /\ thread[t].op \in Writers =>
          /\ ~(thread[u].op \in Writers /\ thread[u].key = thread[t].key)
          /\ ~(thread[u].op = "copy" /\ thread[u].to = thread[t].key)
Quiet == ~Local!Overlap /\ crashes = 0 => NamesWhole /\ SourcesWhole /\ WritersAlone

-----------------------------------------------------------------------------
(* Files only grow. *)

Grown(s, s2) == Len(s) <= Len(s2) /\ \A i \in 1 .. Len(s) : s2[i] = s[i]

\* What others have made stays.
LEMMA ProgressStays ==
  ASSUME NEW fs, NEW fs2, NEW r \in Threads, ProgressOf(r, fs),
         r.op \in Making => fs2[r.fd] = fs[r.fd],
         r.op = "copy" => Grown(fs[r.src], fs2[r.src]) /\ Len(fs[r.src]) \in Nat
                          /\ Len(fs2[r.src]) \in Nat
  PROVE  ProgressOf(r, fs2)
  <1>1. CASE r.op \in {"rename", "header", "write"} BY <1>1 DEF ProgressOf, Making
  <1>2. CASE r.op = "copy"
    <2>1. r.op \in Making BY <1>2 DEF Making
    <2>2. r.pos >= 1 /\ r.fd # r.src /\ Copied(fs[r.fd], fs[r.src], r.pos - 1, r.meta)
      BY <1>2 DEF ProgressOf
    <2>3. r.pos \in Nat BY DEF Threads
    <2>4. Copied(fs2[r.fd], fs2[r.src], r.pos - 1, r.meta)
      BY <1>2, <2>1, <2>2, <2>3 DEF Copied, Grown
    <2> QED BY <1>2, <2>2, <2>4 DEF ProgressOf
  <1>3. CASE r.op \notin Making BY <1>3 DEF ProgressOf, Making
  <1> QED BY <1>1, <1>2, <1>3 DEF Making

\* A thread goes on without touching a file.
LEMMA ThreadStep ==
  ASSUME LocalInv, UNCHANGED <<config, file>>, NEW p \in Process, NEW r \in Threads,
         thread' = [thread EXCEPT ![p] = r], path' \in [Key -> 0 .. Len(file)], crashes' \in Nat,
         r.op \in Making => thread[p].op \in Making /\ r.fd = thread[p].fd,
         r.op \in Reading => r.src \in 1 .. Len(file),
         r.op # "idle" => r.key \in Key,
         r.op = "copy" => r.to \in Key,
         ProgressOf(r, file)
  PROVE  LocalInv'
  <1> USE DEF LocalInv
  <1>1. \A q \in Process : thread'[q] = IF q = p THEN r ELSE thread[q] BY DEF LocalTypes
  <1>2. LocalTypes' BY <1>1 DEF LocalTypes
  <1>3. Owners' BY <1>1 DEF Owners
  <1>4. Unmixed' /\ Bounded' BY DEF Unmixed, Bounded
  <1>5. Progress' BY <1>1 DEF Progress
  <1> QED BY <1>2, <1>3, <1>4, <1>5

\* A thread begins a file (ObjectW).
LEMMA NewFileStep ==
  ASSUME LocalInv, UNCHANGED <<config, path, crashes>>, NEW p \in Process, NEW r \in Threads,
         file' = Append(file, <<>>), thread' = [thread EXCEPT ![p] = r],
         r.op \in Making, r.fd = Len(file) + 1, r.key \in Key,
         r.op \in Reading => r.src \in 1 .. Len(file),
         r.op = "copy" => r.to \in Key,
         ProgressOf(r, file')
  PROVE  /\ LocalInv'
         /\ Len(file') = Len(file) + 1 /\ \A f \in 1 .. Len(file) : file'[f] = file[f]
  <1> USE DEF LocalInv
  <1>0. Len(file) \in Nat /\ Pieces \in Nat BY StorageAssumption DEF LocalTypes
  <1>1. \A q \in Process : thread'[q] = IF q = p THEN r ELSE thread[q] BY DEF LocalTypes
  <1>2. /\ file' \in Seq(Seq(Items)) /\ Len(file') = Len(file) + 1
        /\ \A f \in 1 .. Len(file) : file'[f] = file[f]
        /\ file'[Len(file) + 1] = <<>>
    BY DEF LocalTypes
  <1>3. LocalTypes'
    <2>1. path' \in [Key -> 0 .. Len(file')] BY <1>0, <1>2 DEF LocalTypes
    <2>2. thread' \in [Process -> Threads] BY DEF LocalTypes
    <2> QED BY <1>0, <1>1, <1>2, <2>1, <2>2 DEF LocalTypes
  <1>4. Owners' BY <1>0, <1>1 DEF Owners, LocalTypes
  <1>5. Unmixed'
    <2> SUFFICES ASSUME NEW f \in 1 .. Len(file')
                 PROVE  \E v \in 1 .. Len(file') : PartOf(file'[f], v)
      BY DEF Unmixed
    <2>1. CASE f \in 1 .. Len(file) BY <1>0, <1>2, <2>1 DEF Unmixed
    <2>2. CASE f = Len(file) + 1
      <3>1. PartOf(file'[f], f) BY <1>2, <2>2 DEF PartOf
      <3> QED BY <3>1
    <2> QED BY <2>1, <2>2, <1>0, <1>2
  <1>6. Bounded'
    <2>1. Len(<<>>) = 0 OBVIOUS
    <2> QED BY <1>0, <1>2, <2>1 DEF Bounded
  <1>7. Progress'
    <2> SUFFICES ASSUME NEW q \in Process, q # p PROVE ProgressOf(thread[q], file')
      BY <1>1 DEF Progress
    <2>1. ProgressOf(thread[q], file) /\ thread[q] \in Threads BY DEF Progress, LocalTypes
    <2>2. thread[q].op \in Making => file'[thread[q].fd] = file[thread[q].fd]
      BY <1>2 DEF LocalTypes
    <2>3. thread[q].op = "copy" => /\ file'[thread[q].src] = file[thread[q].src]
                                   /\ Len(file[thread[q].src]) \in Nat
      BY <1>2 DEF LocalTypes, Reading
    <2>4. ASSUME thread[q].op = "copy"
          PROVE  /\ Grown(file[thread[q].src], file'[thread[q].src])
                 /\ Len(file'[thread[q].src]) \in Nat
      <3> DEFINE s == file[thread[q].src]
      <3>1. file'[thread[q].src] = s /\ Len(s) \in Nat BY <2>3, <2>4
      <3> HIDE DEF s
      <3>2. Grown(s, s) BY <3>1 DEF Grown
      <3> QED BY <3>1, <3>2 DEF s
    <2> QED BY <2>1, <2>2, <2>3, <2>4, ProgressStays
  <1> QED BY <1>2, <1>3, <1>4, <1>5, <1>6, <1>7

\* A thread writes to its file.
Appends(p, r, f, s) ==
    /\ UNCHANGED <<config, path, crashes>>
    /\ thread[p].op \in Making /\ thread[p].fd = f
    /\ r.op \in Making /\ r.fd = f /\ r.key \in Key
    /\ r.op = "copy" => r.to \in Key /\ r.src \in 1 .. Len(file)
    /\ file' = [file EXCEPT ![f] = s] /\ thread' = [thread EXCEPT ![p] = r]
    /\ Grown(file[f], s) /\ Len(s) <= Pieces + 1 /\ \E v \in 1 .. Len(file) : PartOf(s, v)

LEMMA FileStep ==
  ASSUME LocalInv, NEW p \in Process, NEW r \in Threads,
         NEW f \in 1 .. Len(file), NEW s \in Seq(Items), Appends(p, r, f, s),
         ProgressOf(r, file')
  PROVE  /\ LocalInv'
         /\ Len(file') = Len(file)
         /\ \A g \in 1 .. Len(file) : file'[g] = IF g = f THEN s ELSE file[g]
  <1> USE DEF LocalInv, Appends
  <1>1. \A q \in Process : thread'[q] = IF q = p THEN r ELSE thread[q] BY DEF LocalTypes
  <1>3. /\ file' \in Seq(Seq(Items)) /\ Len(file') = Len(file)
        /\ \A g \in 1 .. Len(file) : file'[g] = IF g = f THEN s ELSE file[g]
    BY DEF LocalTypes
  <1>4. LocalTypes'
    <2>2. thread' \in [Process -> Threads] BY DEF LocalTypes
    <2> QED BY <1>1, <1>3, <2>2 DEF LocalTypes, Making, Reading
  <1>5. Owners' BY <1>1 DEF Owners
  <1>6. Unmixed' BY <1>3 DEF Unmixed
  <1>7. Bounded' BY <1>3 DEF Bounded
  <1>8. Progress'
    <2> SUFFICES ASSUME NEW q \in Process, q # p PROVE ProgressOf(thread[q], file')
      BY <1>1 DEF Progress
    <2>1. ProgressOf(thread[q], file) /\ thread[q] \in Threads BY DEF Progress, LocalTypes
    <2>2. thread[q].op \in Making => file'[thread[q].fd] = file[thread[q].fd]
      BY <1>3 DEF LocalTypes, Owners
    <2>3. thread[q].op = "copy" => /\ Grown(file[thread[q].src], file'[thread[q].src])
                                   /\ Len(file[thread[q].src]) \in Nat
                                   /\ Len(file'[thread[q].src]) \in Nat
      BY <1>3 DEF LocalTypes, Reading, Grown
    <2> QED BY <2>1, <2>2, <2>3, ProgressStays
  <1> QED BY <1>3, <1>4, <1>5, <1>6, <1>7, <1>8

-----------------------------------------------------------------------------
(* What nobody writes is whole. *)

\* A whole file is not touched.
LEMMA FullStays ==
  ASSUME LocalInv, LocalInv', NEW f \in 1 .. Len(file), Full(file[f]),
         Len(file) <= Len(file'), Len(file[f]) <= Len(file'[f])
  PROVE  Full(file'[f])
  <1>1. Len(file) \in Nat /\ Len(file') \in Nat /\ Pieces \in Nat
    BY StorageAssumption DEF LocalInv, LocalTypes
  <1>2. f \in 1 .. Len(file') BY <1>1
  <1>3. Len(file'[f]) \in Nat /\ Len(file'[f]) <= Pieces + 1
    BY <1>2 DEF LocalInv, LocalTypes, Bounded
  <1> QED BY <1>1, <1>3 DEF Full

FilesGrow ==
    Len(file) <= Len(file') /\ \A f \in 1 .. Len(file) : Len(file[f]) <= Len(file'[f])

\* Who reads, reads a whole file.
LEMMA SourcesWholeStep ==
  ASSUME LocalInv, LocalInv', SourcesWhole, FilesGrow, NEW p \in Process, NEW r,
         thread' = [thread EXCEPT ![p] = r],
         r.op \in Reading => Full(file'[r.src]) /\ r.op # "corrupted"
  PROVE  SourcesWhole'
  <1>1. \A q \in Process : thread'[q] = IF q = p THEN r ELSE thread[q]
    BY DEF LocalInv, LocalTypes
  <1> SUFFICES ASSUME NEW q \in Process, q # p, thread[q].op \in Reading
               PROVE  Full(file'[thread[q].src]) /\ thread[q].op # "corrupted"
    BY <1>1 DEF SourcesWhole
  <1>2. thread[q].src \in 1 .. Len(file) BY DEF LocalInv, LocalTypes
  <1>3. Full(file[thread[q].src]) /\ thread[q].op # "corrupted" BY DEF SourcesWhole
  <1>4. Len(file[thread[q].src]) <= Len(file'[thread[q].src]) BY <1>2 DEF FilesGrow
  <1> QED BY <1>2, <1>3, <1>4, FullStays DEF FilesGrow

\* A writer is the only one who works on the object.
LEMMA WritersAloneStep ==
  ASSUME LocalInv, LocalInv', WritersAlone, NEW p \in Process, NEW r,
         thread' = [thread EXCEPT ![p] = r],
         \/ r.op \notin Writers
         \/ ~Local!Using(r.key)
         \/ thread[p].op \in Writers /\ r.key = thread[p].key,
         \/ r.op # "copy"
         \/ ~Local!Using(r.to)
         \/ thread[p].op = "copy" /\ r.to = thread[p].to,
         r.op \in {"header", "write"} => path'[r.key] = r.fd,
         \A q \in Process : q # p /\ thread[q].op \in {"header", "write"} =>
              path'[thread[q].key] = path[thread[q].key]
  PROVE  WritersAlone'
  <1>1. \A q \in Process : thread'[q] = IF q = p THEN r ELSE thread[q]
    BY DEF LocalInv, LocalTypes
  <1>2. \A t \in Process : thread'[t].op \in {"header", "write"} => path'[thread'[t].key] = thread'[t].fd
    BY <1>1 DEF WritersAlone
  <1>3. ASSUME NEW t \in Process, NEW u \in Process, t # u, thread'[t].op \in Writers
        PROVE  /\ ~(thread'[u].op \in Writers /\ thread'[u].key = thread'[t].key)
               /\ ~(thread'[u].op = "copy" /\ thread'[u].to = thread'[t].key)
    <2>1. CASE t # p /\ u # p BY <2>1, <1>1, <1>3 DEF WritersAlone
    <2>2. CASE t = p BY <2>2, <1>1, <1>3 DEF WritersAlone, Local!Using, Writers
    <2>3. CASE u = p BY <2>3, <1>1, <1>3 DEF WritersAlone, Local!Using, Writers
    <2> QED BY <2>1, <2>2, <2>3
  <1> QED BY <1>2, <1>3 DEF WritersAlone

\* A name whose object is whole keeps it if nobody begins to write it.
LEMMA NamesWholeStep ==
  ASSUME LocalInv, LocalInv', NamesWhole, FilesGrow, NEW p \in Process, NEW r,
         thread' = [thread EXCEPT ![p] = r],
         \A k \in Key : path'[k] # 0 /\ path'[k] # path[k] /\ ~Written(k, thread') => Full(file'[path'[k]]),
         thread[p].op \in Writers => r.op \in Writers /\ r.key = thread[p].key
  PROVE  NamesWhole'
  <1>1. \A q \in Process : thread'[q] = IF q = p THEN r ELSE thread[q]
    BY DEF LocalInv, LocalTypes
  <1> SUFFICES ASSUME NEW k \in Key, path'[k] # 0, path'[k] = path[k], ~Written(k, thread')
               PROVE  Full(file'[path'[k]])
    BY DEF NamesWhole
  <1>2. ~Written(k, thread) BY <1>1 DEF Written
  <1>3. path[k] \in 1 .. Len(file) BY DEF LocalInv, LocalTypes
  <1>4. Full(file[path[k]]) BY <1>2 DEF NamesWhole
  <1>5. Len(file[path[k]]) <= Len(file'[path[k]]) BY <1>3 DEF FilesGrow
  <1> QED BY <1>3, <1>4, <1>5, FullStays DEF FilesGrow

-----------------------------------------------------------------------------
(* Every operation keeps the invariant. *)

LocalInd == LocalInv /\ Quiet

LEMMA LocalInitInv == Local!Init => LocalInd
  <1> SUFFICES ASSUME Local!Init PROVE LocalInd OBVIOUS
  <1>1. /\ file = <<>> /\ Len(file) = 0 /\ path = [k \in Key |-> 0] /\ crashes = 0
        /\ thread = [t \in Process |-> Local!Idle] /\ config \in LocalSettings
    BY DEF Local!Init
  <1>2. Local!Idle \in Threads /\ Local!Idle.op = "idle" BY DEF Local!Idle, Threads
  <1>3. LocalTypes BY <1>1, <1>2 DEF LocalTypes, Making, Reading
  <1>4. Owners /\ Unmixed /\ Bounded BY <1>1, <1>2 DEF Owners, Unmixed, Bounded, Making
  <1>5. Progress BY <1>1, <1>2 DEF Progress, ProgressOf
  <1>6. Quiet
    BY <1>1, <1>2 DEF Quiet, NamesWhole, SourcesWhole, WritersAlone, Reading, Writers
  <1> QED BY <1>3, <1>4, <1>5, <1>6 DEF LocalInd, LocalInv

LEMMA IdleThread == Local!Idle \in Threads /\ Local!Idle.op = "idle"
  BY DEF Local!Idle, Threads

\* The numbers that all steps work with.
LEMMA LocalNumbers ==
  ASSUME LocalInv
  PROVE  /\ Len(file) \in Nat /\ Pieces \in Nat
         /\ \A f \in 1 .. Len(file) : file[f] \in Seq(Items) /\ Len(file[f]) \in Nat
         /\ \A t \in Process : thread[t] \in Threads
  BY StorageAssumption DEF LocalInv, LocalTypes

LEMMA OpenWriteLocal ==
  ASSUME LocalInd, NEW p \in Process, NEW k \in Key, Local!open_write(p, k), UNCHANGED config
  PROVE  LocalInd'
  <1> USE DEF LocalInd
  <1> DEFINE R(n) == [Local!Idle EXCEPT !.op = "rename", !.key = k, !.fd = n]
             r == R(Len(file) + 1)
  <1>1. /\ thread[p].op = "idle" /\ UNCHANGED <<path, crashes>>
        /\ Local!Overlap \/ ~Local!Using(k)
        /\ file' = Append(file, <<>>) /\ thread' = [thread EXCEPT ![p] = r]
    BY DEF Local!open_write, Local!Doing, Local!ObjectW, Local!Set
  <1>2. r \in Threads /\ r.op = "rename" /\ r.key = k /\ r.fd = Len(file) + 1
    <2>1. \A n \in Nat : R(n) \in Threads /\ R(n).op = "rename" /\ R(n).key = k /\ R(n).fd = n
      BY IdleThread DEF Threads, Making
    <2> HIDE DEF R
    <2> QED BY <2>1, LocalNumbers
  <1> HIDE DEF r
  <1>3. r.op \in Making /\ r.op \notin Reading BY <1>2 DEF Making, Reading
  <1>4. ProgressOf(r, file')
    BY <1>1, <1>2, LocalNumbers DEF ProgressOf, LocalInv, LocalTypes
  <1>5. /\ LocalInv' /\ Len(file') = Len(file) + 1 /\ \A f \in 1 .. Len(file) : file'[f] = file[f]
    BY <1>1, <1>2, <1>3, <1>4, NewFileStep
  <1>6. FilesGrow BY <1>5, LocalNumbers DEF FilesGrow
  <1>7. ASSUME ~Local!Overlap, crashes = 0, NamesWhole, SourcesWhole, WritersAlone
        PROVE  NamesWhole' /\ SourcesWhole' /\ WritersAlone'
    <2>1. NamesWhole'
      BY <1>1, <1>5, <1>6, <1>7, NamesWholeStep DEF Writers
    <2>2. SourcesWhole' BY <1>1, <1>3, <1>5, <1>6, <1>7, SourcesWholeStep
    <2>3. WritersAlone' BY <1>1, <1>2, <1>5, <1>7, WritersAloneStep
    <2> QED BY <2>1, <2>2, <2>3
  <1> QED BY <1>1, <1>5, <1>7 DEF Quiet, Local!Overlap

LEMMA OpenWriteRenameLocal ==
  ASSUME LocalInd, NEW p \in Process, Local!open_write_rename(p), UNCHANGED config
  PROVE  LocalInd'
  <1> USE DEF LocalInd
  <1> DEFINE r == [thread[p] EXCEPT !.op = "header"]
             k == thread[p].key
  <1>1. /\ thread[p].op = "rename" /\ UNCHANGED <<file, crashes>>
        /\ path' = [path EXCEPT ![k] = thread[p].fd] /\ thread' = [thread EXCEPT ![p] = r]
    BY DEF Local!open_write_rename, Local!Doing, Local!Rename, Local!Set
  <1>2. /\ r.op = "header" /\ r.key = k /\ r.fd = thread[p].fd /\ r \in Threads
    BY LocalNumbers DEF Threads, Making
  <1> HIDE DEF r
  <1>3. thread[p].op \in Making /\ r.op \notin Reading /\ k \in Key /\ r.fd \in 1 .. Len(file)
    BY <1>1, <1>2 DEF Making, Reading, LocalInv, LocalTypes
  <1>4. ProgressOf(r, file) BY <1>1, <1>2 DEF LocalInv, Progress, ProgressOf
  <1>5. path' \in [Key -> 0 .. Len(file)] BY <1>1, <1>2, <1>3, LocalNumbers DEF LocalInv, LocalTypes
  <1>6. LocalInv'
    <2>1. crashes' \in Nat BY <1>1 DEF LocalInv, LocalTypes
    <2> QED BY <1>1, <1>2, <1>3, <1>4, <1>5, <2>1, ThreadStep
  <1>7. FilesGrow BY <1>1, LocalNumbers DEF FilesGrow
  <1>8. ASSUME ~Local!Overlap, crashes = 0, NamesWhole, SourcesWhole, WritersAlone
        PROVE  NamesWhole' /\ SourcesWhole' /\ WritersAlone'
    <2>1. Written(k, thread') BY <1>1, <1>2 DEF Written, Writers, LocalInv, LocalTypes
    <2>2. \A j \in Key : j # k => path'[j] = path[j] BY <1>1 DEF LocalInv, LocalTypes
    <2>3. NamesWhole'
      BY <1>1, <1>2, <1>6, <1>7, <1>8, <2>1, <2>2, NamesWholeStep DEF Writers
    <2>4. SourcesWhole' BY <1>1, <1>3, <1>6, <1>7, <1>8, SourcesWholeStep
    <2>5. thread[p].op \in Writers BY <1>1 DEF Writers
    <2>6. path'[r.key] = r.fd BY <1>1, <1>2, <1>3 DEF LocalInv, LocalTypes
    <2>7. \A q \in Process : q # p /\ thread[q].op \in {"header", "write"} =>
              path'[thread[q].key] = path[thread[q].key]
      <3> SUFFICES ASSUME NEW q \in Process, q # p, thread[q].op \in {"header", "write"}
                   PROVE  path'[thread[q].key] = path[thread[q].key]
        OBVIOUS
      <3>1. thread[q].key \in Key BY DEF LocalInv, LocalTypes
      <3>2. thread[q].key # k BY <1>8, <2>5 DEF WritersAlone, Writers
      <3> QED BY <2>2, <3>1, <3>2
    <2>8. WritersAlone' BY <1>1, <1>2, <1>6, <1>8, <2>5, <2>6, <2>7, WritersAloneStep
    <2> QED BY <2>3, <2>4, <2>8
  <1> QED BY <1>1, <1>6, <1>8 DEF Quiet, Local!Overlap

LEMMA OpenWriteHeaderLocal ==
  ASSUME LocalInd, NEW p \in Process, Local!open_write_header(p), UNCHANGED config
  PROVE  LocalInd'
  <1> USE DEF LocalInd
  <1> DEFINE r == [thread[p] EXCEPT !.op = "write", !.pos = 1]
             f == thread[p].fd
             s == << <<f>> >>
  <1>1. /\ thread[p].op = "header" /\ UNCHANGED <<path, tmp, crashes>>
        /\ file' = [file EXCEPT ![f] = s] /\ thread' = [thread EXCEPT ![p] = r]
    BY DEF Local!open_write_header, Local!Doing, Local!Set
  <1>2. /\ r.op = "write" /\ r.key = thread[p].key /\ r.fd = f /\ r.pos = 1 /\ r \in Threads
    BY LocalNumbers DEF Threads, Making
  <1> HIDE DEF r
  <1>3. /\ thread[p].op \in Making /\ r.op \in Making /\ r.op \notin Reading /\ r.key \in Key
        /\ f \in 1 .. Len(file) /\ f \in Nat /\ file[f] = <<>>
    BY <1>1, <1>2, LocalNumbers
    DEF Making, Reading, LocalInv, LocalTypes, Progress, ProgressOf
  <1>4. s \in Seq(Items) /\ Len(s) = 1 BY <1>3 DEF Items
  <1> HIDE DEF s
  <1>5. Grown(file[f], s) /\ PartOf(s, f) /\ Len(s) <= Pieces + 1
    BY <1>3, <1>4, LocalNumbers DEF Grown, PartOf
  <1>6. ProgressOf(r, file')
    <2>1. file'[f] = s BY <1>1, <1>3, LocalNumbers DEF LocalInv, LocalTypes
    <2> QED BY <1>2, <1>4, <1>5, <2>1, LocalNumbers DEF ProgressOf
  <1>7. /\ LocalInv' /\ Len(file') = Len(file)
        /\ \A g \in 1 .. Len(file) : file'[g] = IF g = f THEN s ELSE file[g]
    <2>1. \E v \in 1 .. Len(file) : PartOf(s, v) BY <1>3, <1>5
    <2>2. /\ thread[p].fd = f /\ UNCHANGED <<config, path, crashes>>
          /\ r.op \notin Reading /\ r.op # "copy"
      BY <1>1, <1>2, <1>3
    <2> HIDE DEF f
    <2>3. Appends(p, r, f, s) BY <1>1, <1>2, <1>3, <1>4, <1>5, <2>1, <2>2 DEF Appends
    <2> QED BY <2>3, <1>2, <1>3, <1>4, <1>6, FileStep
  <1>8. FilesGrow BY <1>5, <1>7, LocalNumbers DEF FilesGrow, Grown
  <1>9. ASSUME ~Local!Overlap, crashes = 0, NamesWhole, SourcesWhole, WritersAlone
        PROVE  NamesWhole' /\ SourcesWhole' /\ WritersAlone'
    <2>1. thread[p].op \in Writers /\ r.op \in Writers BY <1>1, <1>2 DEF Writers
    <2>2. NamesWhole' BY <1>1, <1>2, <1>7, <1>8, <1>9, <2>1, NamesWholeStep
    <2>3. SourcesWhole' BY <1>1, <1>3, <1>7, <1>8, <1>9, SourcesWholeStep
    <2>4. path'[r.key] = r.fd BY <1>1, <1>2, <1>9 DEF WritersAlone
    <2>5. WritersAlone' BY <1>1, <1>2, <1>7, <1>9, <2>1, <2>4, WritersAloneStep
    <2> QED BY <2>2, <2>3, <2>5
  <1> QED BY <1>1, <1>7, <1>9 DEF Quiet, Local!Overlap

LEMMA WriteLocal ==
  ASSUME LocalInd, NEW p \in Process, Local!write(p), UNCHANGED config
  PROVE  LocalInd'
  <1> USE DEF LocalInd
  <1> DEFINE r == [thread[p] EXCEPT !.pos = @ + 1]
             f == thread[p].fd
             n == thread[p].pos
             s == Append(file[f], <<f, n>>)
  <1>1. /\ thread[p].op = "write" /\ n <= Pieces /\ UNCHANGED <<path, tmp, crashes>>
        /\ file' = [file EXCEPT ![f] = s] /\ thread' = [thread EXCEPT ![p] = r]
    BY DEF Local!write, Local!Doing, Local!Set
  <1>2. thread[p] \in Threads /\ n \in Nat /\ f \in Nat BY LocalNumbers DEF Threads
  <1>3. /\ r.op = "write" /\ r.key = thread[p].key /\ r.fd = f /\ r.pos = n + 1 /\ r \in Threads
    BY <1>1, <1>2 DEF Threads
  <1> HIDE DEF r
  <1>4. /\ thread[p].op \in Making /\ r.op \in Making /\ r.op \notin Reading /\ r.key \in Key
        /\ f \in 1 .. Len(file) /\ file[f] \in Seq(Items) /\ Len(file[f]) = n /\ n \in 1 .. Pieces + 1
        /\ PartOf(file[f], f)
    BY <1>1, <1>3, LocalNumbers
    DEF Making, Reading, LocalInv, LocalTypes, Progress, ProgressOf
  <1>5. /\ s \in Seq(Items) /\ Len(s) = n + 1 /\ s[n + 1] = <<f, n>>
        /\ \A i \in 1 .. n : s[i] = file[f][i]
    BY <1>2, <1>4 DEF Items
  <1> HIDE DEF s
  <1>6. Grown(file[f], s) /\ Len(s) <= Pieces + 1
    BY <1>1, <1>2, <1>4, <1>5, LocalNumbers DEF Grown
  <1>7. PartOf(s, f)
    <2> SUFFICES ASSUME NEW i \in 2 .. n + 1 PROVE s[i] = <<f, i - 1>>
      BY <1>5 DEF PartOf
    <2>1. CASE i = n + 1
      <3>1. i - 1 = n BY <2>1, <1>2
      <3> QED BY <2>1, <3>1, <1>5
    <2>2. CASE i # n + 1
      <3>1. i \in 1 .. n /\ i \in 2 .. Len(file[f]) BY <2>2, <1>2, <1>4
      <3>2. s[i] = file[f][i] BY <3>1, <1>5
      <3>3. file[f][i] = <<f, i - 1>> BY <3>1, <1>4 DEF PartOf
      <3> QED BY <3>2, <3>3
    <2> QED BY <2>1, <2>2
  <1>8. ProgressOf(r, file')
    <2>1. file'[f] = s BY <1>1, <1>4, LocalNumbers DEF LocalInv, LocalTypes
    <2>2. n + 1 \in 1 .. Pieces + 1 BY <1>1, <1>2, LocalNumbers
    <2> QED BY <1>3, <1>5, <1>7, <2>1, <2>2 DEF ProgressOf
  <1>9. /\ LocalInv' /\ Len(file') = Len(file)
        /\ \A g \in 1 .. Len(file) : file'[g] = IF g = f THEN s ELSE file[g]
    <2>1. \E v \in 1 .. Len(file) : PartOf(s, v) BY <1>4, <1>7
    <2>2. /\ thread[p].fd = f /\ UNCHANGED <<config, path, crashes>>
          /\ r.op \notin Reading /\ r.op # "copy"
      BY <1>1, <1>3, <1>4
    <2> HIDE DEF f
    <2>3. Appends(p, r, f, s) BY <1>1, <1>3, <1>4, <1>5, <1>6, <2>1, <2>2 DEF Appends
    <2> QED BY <2>3, <1>3, <1>4, <1>5, <1>8, FileStep
  <1>10. FilesGrow BY <1>6, <1>9, LocalNumbers DEF FilesGrow, Grown
  <1>11. ASSUME ~Local!Overlap, crashes = 0, NamesWhole, SourcesWhole, WritersAlone
         PROVE  NamesWhole' /\ SourcesWhole' /\ WritersAlone'
    <2>1. thread[p].op \in Writers /\ r.op \in Writers BY <1>1, <1>3 DEF Writers
    <2>2. NamesWhole' BY <1>1, <1>3, <1>9, <1>10, <1>11, <2>1, NamesWholeStep
    <2>3. SourcesWhole' BY <1>1, <1>4, <1>9, <1>10, <1>11, SourcesWholeStep
    <2>4. path'[r.key] = r.fd BY <1>1, <1>3, <1>11 DEF WritersAlone
    <2>5. WritersAlone' BY <1>1, <1>3, <1>9, <1>11, <2>1, <2>4, WritersAloneStep
    <2> QED BY <2>2, <2>3, <2>5
  <1> QED BY <1>1, <1>9, <1>11 DEF Quiet, Local!Overlap

\* A call returns.
LEMMA FinishStep ==
  ASSUME LocalInv, UNCHANGED <<config, file, crashes>>, NEW p \in Process, Local!Finish(p),
         path' \in [Key -> 0 .. Len(file)]
  PROVE  LocalInv' /\ FilesGrow
  <1>1. thread' = [thread EXCEPT ![p] = Local!Idle] BY DEF Local!Finish, Local!Set
  <1>2. ProgressOf(Local!Idle, file) BY IdleThread DEF ProgressOf
  <1>3. Local!Idle.op \notin Making /\ Local!Idle.op \notin Reading /\ crashes' \in Nat
    BY IdleThread DEF Making, Reading, LocalInv, LocalTypes
  <1>4. LocalInv' BY <1>1, <1>2, <1>3, IdleThread, ThreadStep
  <1> QED BY <1>4, LocalNumbers DEF FilesGrow

LEMMA CloseLocal ==
  ASSUME LocalInd, NEW p \in Process, Local!close(p), UNCHANGED config
  PROVE  LocalInd'
  <1> USE DEF LocalInd
  <1> DEFINE k == thread[p].key
  <1>1. /\ thread[p].op = "write" /\ thread[p].pos > Pieces /\ UNCHANGED <<path, file, crashes>>
        /\ Local!Finish(p) /\ thread' = [thread EXCEPT ![p] = Local!Idle]
    BY DEF Local!close, Local!Doing, Local!Finish, Local!Set
  <1>2. path' \in [Key -> 0 .. Len(file)] BY <1>1 DEF LocalInv, LocalTypes
  <1>3. LocalInv' /\ FilesGrow BY <1>1, <1>2, FinishStep
  <1>4. ASSUME ~Local!Overlap, crashes = 0, NamesWhole, SourcesWhole, WritersAlone
        PROVE  NamesWhole' /\ SourcesWhole' /\ WritersAlone'
    <2>1. path[k] = thread[p].fd BY <1>1, <1>4 DEF WritersAlone
    <2>2. Full(file[thread[p].fd])
      BY <1>1, LocalNumbers DEF LocalInv, Progress, ProgressOf, Full
    <2>3. NamesWhole'
      <3> SUFFICES ASSUME NEW j \in Key, path[j] # 0, ~Written(j, thread')
                   PROVE  Full(file[path[j]])
        BY <1>1 DEF NamesWhole
      <3>1. CASE j = k BY <3>1, <2>1, <2>2
      <3>2. CASE j # k
        <4>1. \A q \in Process : q # p => thread'[q] = thread[q]
          BY <1>1 DEF LocalInv, LocalTypes
        <4>2. ~Written(j, thread) BY <4>1, <3>2 DEF Written
        <4> QED BY <4>2, <1>4 DEF NamesWhole
      <3> QED BY <3>1, <3>2
    <2>4. SourcesWhole' BY <1>1, <1>3, <1>4, IdleThread, SourcesWholeStep DEF Reading
    <2>5. WritersAlone' BY <1>1, <1>3, <1>4, IdleThread, WritersAloneStep DEF Writers
    <2> QED BY <2>3, <2>4, <2>5
  <1> QED BY <1>1, <1>3, <1>4 DEF Quiet, Local!Overlap

\* Whoever only reads.
LEMMA ReaderStep ==
  ASSUME LocalInd, UNCHANGED <<config, file, path, crashes>>, NEW p \in Process, NEW r \in Threads,
         thread' = [thread EXCEPT ![p] = r], thread[p].op \notin Making, r.op \notin Making,
         r.op \in Reading => r.src \in 1 .. Len(file), r.op # "idle" => r.key \in Key,
         ~Local!Overlap /\ NamesWhole /\ SourcesWhole /\ r.op \in Reading
            => Full(file[r.src]) /\ r.op # "corrupted"
  PROVE  LocalInd'
  <1> USE DEF LocalInd
  <1>1. r.op \notin Writers /\ thread[p].op \notin Writers /\ r.op # "copy"
    BY DEF Making, Writers
  <1>2. ProgressOf(r, file) BY DEF ProgressOf, Making
  <1>3. LocalInv'
    <2>1. path' \in [Key -> 0 .. Len(file)] /\ crashes' \in Nat BY DEF LocalInv, LocalTypes
    <2> QED BY <2>1, <1>1, <1>2, ThreadStep
  <1>4. FilesGrow BY LocalNumbers DEF FilesGrow
  <1>5. ASSUME ~Local!Overlap, crashes = 0, NamesWhole, SourcesWhole, WritersAlone
        PROVE  NamesWhole' /\ SourcesWhole' /\ WritersAlone'
    <2>1. NamesWhole' BY <1>1, <1>3, <1>4, <1>5, NamesWholeStep
    <2>2. SourcesWhole' BY <1>3, <1>4, <1>5, SourcesWholeStep
    <2>3. WritersAlone' BY <1>1, <1>3, <1>5, WritersAloneStep DEF Writers
    <2> QED BY <2>1, <2>2, <2>3
  <1> QED BY <1>3, <1>5 DEF Quiet, Local!Overlap

-----------------------------------------------------------------------------
(* Copies. *)

LEMMA CopyLocal ==
  ASSUME LocalInd, NEW p \in Process, NEW k \in Key, NEW to \in Key, NEW meta \in BOOLEAN,
         Local!copy(p, k, to, meta), UNCHANGED config
  PROVE  LocalInd'
  <1> USE DEF LocalInd
  <1> DEFINE R(n, m) == [op |-> "copy", key |-> k, to |-> to, src |-> m, fd |-> n,
                         pos |-> 1, meta |-> meta]
             r == R(Len(file) + 1, path[k])
  <1>1. /\ thread[p].op = "idle" /\ UNCHANGED <<path, crashes>> /\ path[k] # 0
        /\ Local!Overlap \/ (~Local!Writing(k) /\ ~Local!Using(to))
        /\ file' = Append(file, <<>>) /\ thread' = [thread EXCEPT ![p] = r]
    BY DEF Local!copy, Local!Doing, Local!ObjectW, Local!Set
  <1>2. path[k] \in 1 .. Len(file) /\ path[k] \in Nat
    BY <1>1, LocalNumbers DEF LocalInv, LocalTypes
  <1>3. /\ r \in Threads /\ r.op = "copy" /\ r.key = k /\ r.to = to /\ r.src = path[k]
        /\ r.fd = Len(file) + 1 /\ r.pos = 1
    <2>1. \A n \in Nat, m \in Nat :
             /\ R(n, m) \in Threads /\ R(n, m).op = "copy" /\ R(n, m).key = k
             /\ R(n, m).to = to /\ R(n, m).src = m /\ R(n, m).fd = n /\ R(n, m).pos = 1
      BY DEF Threads, Making
    <2>2. Len(file) + 1 \in Nat BY LocalNumbers
    <2> HIDE DEF R
    <2> QED BY <2>1, <2>2, <1>2
  <1> HIDE DEF r
  <1>4. r.op \in Making /\ r.op \notin Writers BY <1>3 DEF Making, Writers
  <1>5. ProgressOf(r, file')
    <2>1. /\ file'[Len(file) + 1] = <<>> /\ Len(<<>>) = 0
          /\ file'[path[k]] = file[path[k]] /\ Len(file[path[k]]) \in Nat
      BY <1>1, <1>2, LocalNumbers DEF LocalInv, LocalTypes
    <2>2. r.pos - 1 = 0 /\ r.fd # r.src BY <1>2, <1>3, LocalNumbers
    <2>3. \A s, from, m : Len(s) = 0 /\ Len(from) \in Nat => Copied(s, from, 0, m) BY DEF Copied
    <2>4. Copied(file'[r.fd], file'[r.src], 0, r.meta) BY <1>3, <2>1, <2>3
    <2> QED BY <1>3, <2>2, <2>4 DEF ProgressOf
  <1>6. /\ LocalInv' /\ Len(file') = Len(file) + 1 /\ \A f \in 1 .. Len(file) : file'[f] = file[f]
    BY <1>1, <1>2, <1>3, <1>4, <1>5, NewFileStep
  <1>7. FilesGrow BY <1>6, LocalNumbers DEF FilesGrow
  <1>8. ASSUME ~Local!Overlap, crashes = 0, NamesWhole, SourcesWhole, WritersAlone
        PROVE  NamesWhole' /\ SourcesWhole' /\ WritersAlone'
    <2>1. NamesWhole' BY <1>1, <1>6, <1>7, <1>8, NamesWholeStep DEF Writers
    <2>2. ~Written(k, thread) BY <1>1, <1>8 DEF Written, Local!Writing, Writers
    <2>3. Full(file'[r.src]) BY <1>1, <1>2, <1>3, <1>6, <1>8, <2>2 DEF NamesWhole
    <2>4. SourcesWhole' BY <1>1, <1>3, <1>6, <1>7, <1>8, <2>3, SourcesWholeStep
    <2>5. WritersAlone' BY <1>1, <1>3, <1>4, <1>6, <1>8, WritersAloneStep DEF Writers
    <2> QED BY <2>1, <2>4, <2>5
  <1> QED BY <1>1, <1>6, <1>8 DEF Quiet, Local!Overlap

\* The copy goes on: what it adds was taken from one version.
LEMMA CopyStep ==
  ASSUME LocalInd, NEW p \in Process, NEW r \in Threads, NEW f \in 1 .. Len(file), NEW s \in Seq(Items),
         Appends(p, r, f, s), thread[p].op = "copy", r.op = "copy",
         r.src = thread[p].src, r.to = thread[p].to, ProgressOf(r, file')
  PROVE  LocalInd'
  <1> USE DEF LocalInd
  <1>1. UNCHANGED <<config, path, crashes>> /\ thread' = [thread EXCEPT ![p] = r] BY DEF Appends
  <1>2. /\ LocalInv' /\ Len(file') = Len(file)
        /\ \A g \in 1 .. Len(file) : file'[g] = IF g = f THEN s ELSE file[g]
    BY FileStep
  <1>3. Grown(file[f], s) BY DEF Appends
  <1>4. FilesGrow BY <1>2, <1>3, LocalNumbers DEF FilesGrow, Grown
  <1>5. ASSUME ~Local!Overlap, crashes = 0, NamesWhole, SourcesWhole, WritersAlone
        PROVE  NamesWhole' /\ SourcesWhole' /\ WritersAlone'
    <2>1. r.op \notin Writers /\ thread[p].op \notin Writers BY DEF Writers
    <2>2. NamesWhole' BY <1>1, <1>2, <1>4, <1>5, <2>1, NamesWholeStep
    <2>3. thread[p].op \in Reading /\ r.src \in 1 .. Len(file)
      BY DEF Reading, LocalInv, LocalTypes
    <2>4. Full(file[r.src]) BY <1>5, <2>3 DEF SourcesWhole
    <2>5. Full(file'[r.src])
      <3>1. Len(file[r.src]) <= Len(file'[r.src]) BY <1>4, <2>3 DEF FilesGrow
      <3> QED BY <1>2, <1>4, <2>3, <2>4, <3>1, FullStays DEF FilesGrow
    <2>6. SourcesWhole' BY <1>1, <1>2, <1>4, <1>5, <2>5, SourcesWholeStep
    <2>7. WritersAlone' BY <1>1, <1>2, <1>5, <2>1, WritersAloneStep DEF Writers
    <2> QED BY <2>2, <2>6, <2>7
  <1> QED BY <1>1, <1>2, <1>5 DEF Quiet, Local!Overlap

LEMMA CopyHeaderLocal ==
  ASSUME LocalInd, NEW p \in Process, Local!copy_header(p), UNCHANGED config
  PROVE  LocalInd'
  <1> USE DEF LocalInd
  <1> DEFINE f == thread[p].fd
             src == thread[p].src
  <1>1. /\ thread[p].op = "copy" /\ thread[p].meta /\ thread[p].pos = 1
        /\ UNCHANGED <<path, crashes>>
    BY DEF Local!copy_header, Local!Doing
  <1>2. thread[p] \in Threads /\ f \in 1 .. Len(file) /\ f \in Nat /\ src \in 1 .. Len(file)
    BY <1>1, LocalNumbers DEF LocalInv, LocalTypes, Making, Reading
  <1>3. CASE file[src] = <<>>
    <2>1. Local!Finish(p) /\ UNCHANGED file BY <1>3 DEF Local!copy_header
    <2>2. path' \in [Key -> 0 .. Len(file)] BY <1>1 DEF LocalInv, LocalTypes
    <2>3. LocalInv' BY <1>1, <2>1, <2>2, FinishStep
    <2>4. ~Full(file[src]) BY <1>3, LocalNumbers DEF Full
    <2>5. ~SourcesWhole BY <1>1, <2>4 DEF SourcesWhole, Reading
    <2> QED BY <1>1, <2>3, <2>5 DEF Quiet, Local!Overlap
  <1>4. CASE file[src] # <<>>
    <2> DEFINE r == [thread[p] EXCEPT !.pos = 2]
               s == << <<f>> >>
    <2>1. file' = [file EXCEPT ![f] = s] /\ thread' = [thread EXCEPT ![p] = r]
      BY <1>4 DEF Local!copy_header, Local!Set
    <2>2. /\ r \in Threads /\ r.op = "copy" /\ r.key = thread[p].key /\ r.to = thread[p].to
          /\ r.fd = f /\ r.src = src /\ r.pos = 2 /\ r.meta = TRUE
      BY <1>1, <1>2 DEF Threads
    <2> HIDE DEF r
    <2>3. /\ f # src /\ Copied(file[f], file[src], 0, TRUE)
          /\ r.key \in Key /\ r.to \in Key /\ r.op \in Making /\ thread[p].op \in Making
      <3>1. ProgressOf(thread[p], file) BY DEF LocalInv, Progress
      <3>2. thread[p].pos - 1 = 0 BY <1>1
      <3>3. f # src /\ Copied(file[f], file[src], 0, TRUE)
        BY <1>1, <2>2, <3>1, <3>2 DEF ProgressOf
      <3> QED BY <1>1, <2>2, <3>3 DEF LocalInv, LocalTypes, Making
    <2>4. s \in Seq(Items) /\ Len(s) = 1 BY <1>2 DEF Items
    <2> HIDE DEF s
    <2>5. Grown(file[f], s) /\ PartOf(s, f) /\ Len(s) <= Pieces + 1
      BY <2>3, <2>4, LocalNumbers DEF Grown, PartOf, Copied
    <2>6. file'[f] = s /\ file'[src] = file[src]
      BY <1>2, <2>1, <2>3, LocalNumbers DEF LocalInv, LocalTypes
    <2>7. Len(file[src]) \in Nat /\ Len(file[src]) # 0
      BY <1>2, <1>4, LocalNumbers
    <2>8. Copied(s, file[src], r.pos - 1, TRUE) /\ r.pos >= 1
      BY <2>2, <2>4, <2>7 DEF Copied
    <2>9. ProgressOf(r, file') BY <2>2, <2>3, <2>6, <2>8 DEF ProgressOf
    <2>10. \E v \in 1 .. Len(file) : PartOf(s, v) BY <1>2, <2>5
    <2>11. thread[p].fd = f /\ UNCHANGED config OBVIOUS
    <2>12. Appends(p, r, f, s)
      <3> HIDE DEF f
      <3> QED BY <1>1, <1>2, <2>1, <2>2, <2>3, <2>5, <2>10, <2>11 DEF Appends
    <2> QED BY <1>1, <1>2, <2>2, <2>4, <2>9, <2>12, CopyStep
  <1> QED BY <1>3, <1>4

LEMMA CopyPieceLocal ==
  ASSUME LocalInd, NEW p \in Process, Local!copy_piece(p), UNCHANGED config
  PROVE  LocalInd'
  <1> USE DEF LocalInd
  <1> DEFINE f == thread[p].fd
             src == thread[p].src
             n == thread[p].pos
             R(m) == [thread[p] EXCEPT !.pos = m]
             r == R(n + 1)
             s == Append(file[f], file[src][n])
  <1>1. /\ thread[p].op = "copy" /\ (thread[p].meta => n > 1) /\ n <= Len(file[src])
        /\ UNCHANGED <<path, crashes>>
        /\ file' = [file EXCEPT ![f] = s] /\ thread' = [thread EXCEPT ![p] = r]
    BY DEF Local!copy_piece, Local!Doing, Local!CopyPos, Local!Set
  <1>2. /\ thread[p] \in Threads /\ f \in 1 .. Len(file) /\ src \in 1 .. Len(file)
        /\ n \in Nat /\ thread[p].meta \in BOOLEAN
    BY <1>1, LocalNumbers DEF LocalInv, LocalTypes, Making, Reading, Threads
  <1>3. /\ r \in Threads /\ r.op = "copy" /\ r.key = thread[p].key /\ r.to = thread[p].to
        /\ r.fd = f /\ r.src = src /\ r.pos = n + 1 /\ r.meta = thread[p].meta
    <2>1. n + 1 \in Nat BY <1>2
    <2>2. \A m \in Nat :
             /\ R(m) \in Threads /\ R(m).op = "copy" /\ R(m).key = thread[p].key
             /\ R(m).to = thread[p].to /\ R(m).fd = f /\ R(m).src = src /\ R(m).pos = m
             /\ R(m).meta = thread[p].meta
      BY <1>1, <1>2 DEF Threads
    <2> HIDE DEF R
    <2> QED BY <2>1, <2>2
  <1> HIDE DEF r
  <1>4. /\ f # src /\ n >= 1 /\ Copied(file[f], file[src], n - 1, r.meta)
        /\ r.key \in Key /\ r.to \in Key /\ r.op \in Making /\ thread[p].op \in Making
    BY <1>1, <1>3 DEF LocalInv, LocalTypes, Progress, ProgressOf, Making
  <1>5. /\ file[f] \in Seq(Items) /\ Len(file[f]) = n - 1
        /\ Len(file[src]) \in Nat /\ Len(file[src]) <= Pieces + 1 /\ file[src][n] \in Items
    <2>1. /\ file[f] \in Seq(Items) /\ Len(file[f]) = n - 1 /\ file[src] \in Seq(Items)
          /\ Len(file[src]) \in Nat /\ Len(file[src]) <= Pieces + 1
      BY <1>2, <1>4, LocalNumbers DEF Copied, LocalInv, Bounded
    <2>2. n \in 1 .. Len(file[src]) BY <1>1, <1>2, <1>4, <2>1
    <2>3. \A q \in Seq(Items) : \A i \in 1 .. Len(q) : q[i] \in Items OBVIOUS
    <2> QED BY <2>1, <2>2, <2>3
  <1>6. /\ s \in Seq(Items) /\ Len(s) = n /\ s[n] = file[src][n]
        /\ \A i \in 1 .. n - 1 : s[i] = file[f][i]
    <2>1. n - 1 + 1 = n BY <1>2
    <2> HIDE DEF n
    <2> QED BY <1>5, <2>1
  <1> HIDE DEF s
  <1>7. Grown(file[f], s) /\ Len(s) <= Pieces + 1
    BY <1>1, <1>2, <1>5, <1>6, LocalNumbers DEF Grown
  <1>8. \A i \in (IF r.meta THEN 2 ELSE 1) .. n : s[i] = file[src][i]
    <2> SUFFICES ASSUME NEW i \in (IF r.meta THEN 2 ELSE 1) .. n PROVE s[i] = file[src][i]
      OBVIOUS
    <2>1. CASE i = n BY <2>1, <1>6
    <2>2. CASE i # n
      <3>1. i \in 1 .. n - 1 /\ i \in (IF r.meta THEN 2 ELSE 1) .. n - 1 BY <2>2, <1>2
      <3> QED BY <3>1, <1>4, <1>6 DEF Copied
    <2> QED BY <2>1, <2>2
  <1>9. \E v \in 1 .. Len(file) : PartOf(s, v)
    <2>1. PICK v \in 1 .. Len(file) : PartOf(file[src], v) BY <1>2 DEF LocalInv, Unmixed
    <2>2. ASSUME NEW i \in 2 .. n PROVE s[i] = <<v, i - 1>>
      <3>1. i \in 1 .. n /\ i \in 2 .. Len(file[src]) BY <1>1, <1>2, <1>5
      <3>2. s[i] = file[src][i]
        <4>1. CASE r.meta BY <4>1, <1>8
        <4>2. CASE ~r.meta BY <4>2, <3>1, <1>8
        <4> QED BY <4>1, <4>2
      <3>3. file[src][i] = <<v, i - 1>> BY <3>1, <2>1 DEF PartOf
      <3> QED BY <3>2, <3>3
    <2>3. PartOf(s, v) BY <2>2, <1>6 DEF PartOf
    <2> QED BY <2>3
  <1>10. file'[f] = s /\ file'[src] = file[src]
    BY <1>1, <1>2, <1>4, LocalNumbers DEF LocalInv, LocalTypes
  <1>11. ProgressOf(r, file')
    <2>1. r.pos - 1 = n /\ r.pos >= 1 BY <1>2, <1>3
    <2>2. Copied(s, file[src], n, r.meta) BY <1>1, <1>5, <1>6, <1>8 DEF Copied
    <2> HIDE DEF f, src
    <2> QED BY <1>3, <1>4, <1>10, <2>1, <2>2 DEF ProgressOf
  <1>12. thread[p].fd = f /\ UNCHANGED config OBVIOUS
  <1>13. Appends(p, r, f, s)
    <2> HIDE DEF f
    <2> QED BY <1>1, <1>2, <1>3, <1>4, <1>7, <1>9, <1>12 DEF Appends
  <1> QED BY <1>1, <1>2, <1>3, <1>6, <1>11, <1>13, CopyStep

\* What is renamed at the end of a copy is whole.
LEMMA CopiedFull ==
  ASSUME LocalInv, NEW p \in Process, Local!copy_rename(p), SourcesWhole
  PROVE  Full(file[thread[p].fd])
  <1> DEFINE f == thread[p].fd
             src == thread[p].src
  <1>1. thread[p].op = "copy" /\ thread[p].pos > Len(file[src])
    BY DEF Local!copy_rename, Local!Doing
  <1>2. f \in 1 .. Len(file) /\ src \in 1 .. Len(file) /\ thread[p].pos \in Nat
    BY <1>1, LocalNumbers DEF LocalInv, LocalTypes, Making, Reading, Threads
  <1>3. Full(file[src]) BY <1>1 DEF SourcesWhole, Reading
  <1>4. Copied(file[f], file[src], thread[p].pos - 1, thread[p].meta)
    BY <1>1 DEF LocalInv, Progress, ProgressOf
  <1> QED BY <1>1, <1>2, <1>3, <1>4, LocalNumbers DEF Copied, Full

LEMMA CopyRenameLocal ==
  ASSUME LocalInd, NEW p \in Process, Local!copy_rename(p), UNCHANGED config
  PROVE  LocalInd'
  <1> USE DEF LocalInd
  <1> DEFINE f == thread[p].fd
             to == thread[p].to
  <1>1. /\ thread[p].op = "copy" /\ UNCHANGED <<file, crashes>>
        /\ path' = [path EXCEPT ![to] = f]
        /\ Local!Finish(p) /\ thread' = [thread EXCEPT ![p] = Local!Idle]
    BY DEF Local!copy_rename, Local!Doing, Local!Rename, Local!Finish, Local!Set
  <1>2. f \in 1 .. Len(file) /\ to \in Key
    BY <1>1, LocalNumbers DEF LocalInv, LocalTypes, Making
  <1>3. path' \in [Key -> 0 .. Len(file)] /\ path'[to] = f /\ \A j \in Key : j # to => path'[j] = path[j]
    BY <1>1, <1>2, LocalNumbers DEF LocalInv, LocalTypes
  <1>4. LocalInv' /\ FilesGrow BY <1>1, <1>3, FinishStep
  <1>5. ASSUME ~Local!Overlap, crashes = 0, NamesWhole, SourcesWhole, WritersAlone
        PROVE  NamesWhole' /\ SourcesWhole' /\ WritersAlone'
    <2>2. Full(file[f]) BY <1>5, CopiedFull
    <2>3. \A k \in Key : path'[k] # 0 /\ path'[k] # path[k] /\ ~Written(k, thread') => Full(file'[path'[k]])
      BY <1>1, <1>3, <2>2
    <2>4. thread[p].op \notin Writers /\ Local!Idle.op \notin Writers /\ Local!Idle.op # "copy"
          /\ Local!Idle.op \notin Reading
      BY <1>1, IdleThread DEF Writers, Reading
    <2>5. NamesWhole' BY <1>1, <1>4, <1>5, <2>3, <2>4, NamesWholeStep
    <2>6. SourcesWhole' BY <1>1, <1>4, <1>5, <2>4, SourcesWholeStep
    <2>7. \A q \in Process : q # p /\ thread[q].op \in {"header", "write"} =>
              path'[thread[q].key] = path[thread[q].key]
      <3> SUFFICES ASSUME NEW q \in Process, q # p, thread[q].op \in {"header", "write"}
                   PROVE  path'[thread[q].key] = path[thread[q].key]
        OBVIOUS
      <3>1. thread[q].key \in Key BY DEF LocalInv, LocalTypes
      <3>2. thread[q].key # to BY <1>1, <1>5 DEF WritersAlone, Writers
      <3> QED BY <1>3, <3>1, <3>2
    <2>8. WritersAlone' BY <1>1, <1>4, <1>5, <2>4, <2>7, WritersAloneStep DEF Writers
    <2> QED BY <2>5, <2>6, <2>8
  <1> QED BY <1>1, <1>4, <1>5 DEF Quiet, Local!Overlap

-----------------------------------------------------------------------------
(* Readers, deletion and a crash.                                          *)

LEMMA OpenReadLocal ==
  ASSUME LocalInd, NEW p \in Process, NEW k \in Key, Local!open_read(p, k), UNCHANGED config
  PROVE  LocalInd'
  <1> USE DEF LocalInd
  <1> DEFINE R(m) == [Local!Idle EXCEPT !.op = "open", !.key = k, !.src = m]
             r == R(path[k])
  <1>1. /\ thread[p].op = "idle" /\ UNCHANGED <<path, file, crashes>> /\ path[k] # 0
        /\ Local!Overlap \/ ~Local!Writing(k)
        /\ thread' = [thread EXCEPT ![p] = r]
    BY DEF Local!open_read, Local!Doing, Local!Set
  <1>2. path[k] \in 1 .. Len(file) /\ path[k] \in Nat
    BY <1>1, LocalNumbers DEF LocalInv, LocalTypes
  <1>3. r \in Threads /\ r.op = "open" /\ r.key = k /\ r.src = path[k]
    <2>1. \A m \in Nat : R(m) \in Threads /\ R(m).op = "open" /\ R(m).key = k /\ R(m).src = m
      BY IdleThread DEF Threads, Reading
    <2> HIDE DEF R
    <2> QED BY <2>1, <1>2
  <1> HIDE DEF r
  <1>4. r.op \notin Making /\ thread[p].op \notin Making BY <1>1, <1>3 DEF Making
  <1>5. ASSUME ~Local!Overlap, NamesWhole PROVE Full(file[r.src]) /\ r.op # "corrupted"
    <2>1. ~Written(k, thread) BY <1>1, <1>5 DEF Written, Local!Writing, Writers
    <2> QED BY <1>1, <1>3, <1>5, <2>1 DEF NamesWhole
  <1>6. UNCHANGED <<config, file, path, crashes>> BY <1>1
  <1> QED BY <1>1, <1>2, <1>3, <1>4, <1>5, <1>6, ReaderStep

LEMMA ReadMetaLocal ==
  ASSUME LocalInd, NEW p \in Process, Local!_read_meta(p), UNCHANGED config
  PROVE  LocalInd'
  <1> USE DEF LocalInd
  <1> DEFINE op == IF file[thread[p].src] = <<>> THEN "corrupted" ELSE "read"
             R(o) == [thread[p] EXCEPT !.op = o, !.pos = 2]
             r == R(op)
  <1>1. /\ thread[p].op = "open" /\ UNCHANGED <<config, path, file, crashes>>
        /\ thread' = [thread EXCEPT ![p] = r]
    BY DEF Local!_read_meta, Local!Doing, Local!Set
  <1>2. op \in Reading /\ op \notin Making BY DEF Reading, Making
  <1>3. r \in Threads /\ r.op = op /\ r.key = thread[p].key /\ r.src = thread[p].src
    <2>1. \A o \in Reading : R(o) \in Threads /\ R(o).op = o /\ R(o).key = thread[p].key
                             /\ R(o).src = thread[p].src
      BY LocalNumbers DEF Threads
    <2> HIDE DEF R, op
    <2> QED BY <2>1, <1>2
  <1> HIDE DEF r
  <1>4. thread[p].src \in 1 .. Len(file) /\ thread[p].key \in Key
    BY <1>1 DEF LocalInv, LocalTypes, Reading
  <1>5. ASSUME SourcesWhole PROVE Full(file[r.src]) /\ r.op # "corrupted"
    <2>1. Full(file[r.src]) BY <1>1, <1>3, <1>5 DEF SourcesWhole, Reading
    <2>2. file[r.src] # <<>> BY <2>1, LocalNumbers DEF Full
    <2> QED BY <1>3, <2>1, <2>2
  <1>6. thread[p].op \notin Making BY <1>1 DEF Making
  <1> HIDE DEF op
  <1> QED BY <1>1, <1>2, <1>3, <1>4, <1>5, <1>6, ReaderStep

LEMMA ReadLocal ==
  ASSUME LocalInd, NEW p \in Process, Local!read(p), UNCHANGED config
  PROVE  LocalInd'
  <1> USE DEF LocalInd
  <1>1. thread[p].op = "read" /\ UNCHANGED <<config, path, file, crashes>> /\ thread[p] \in Threads
    BY LocalNumbers DEF Local!read, Local!Doing
  <1>2. PICK r \in Threads : /\ thread' = [thread EXCEPT ![p] = r] /\ r.op \in {"read", "eof"}
                             /\ r.key = thread[p].key /\ r.src = thread[p].src
    <2> DEFINE a == [thread[p] EXCEPT !.pos = @ + 1]
               b == [thread[p] EXCEPT !.op = "eof"]
    <2>1. a \in Threads /\ a.op = "read" /\ a.key = thread[p].key /\ a.src = thread[p].src
      BY <1>1 DEF Threads
    <2>2. b \in Threads /\ b.op = "eof" /\ b.key = thread[p].key /\ b.src = thread[p].src
      BY <1>1 DEF Threads, Reading
    <2>3. thread' = [thread EXCEPT ![p] = a] \/ thread' = [thread EXCEPT ![p] = b]
      BY DEF Local!read, Local!Set
    <2> HIDE DEF a, b
    <2> QED BY <2>1, <2>2, <2>3
  <1>3. /\ thread[p].op \in Reading /\ thread[p].op \notin Making
        /\ r.op \in Reading /\ r.op \notin Making /\ r.op # "corrupted"
    BY <1>1, <1>2 DEF Reading, Making
  <1>4. thread[p].src \in 1 .. Len(file) /\ thread[p].key \in Key
    BY <1>1, <1>3 DEF LocalInv, LocalTypes
  <1>5. SourcesWhole => Full(file[r.src]) BY <1>2, <1>3 DEF SourcesWhole
  <1> QED BY <1>1, <1>2, <1>3, <1>4, <1>5, ReaderStep

LEMMA ReadCloseLocal ==
  ASSUME LocalInd, NEW p \in Process, Local!read_close(p), UNCHANGED config
  PROVE  LocalInd'
  <1>1. /\ thread[p].op \in {"eof", "corrupted"} /\ UNCHANGED <<config, path, file, crashes>>
        /\ thread' = [thread EXCEPT ![p] = Local!Idle]
    BY DEF Local!read_close, Local!Finish, Local!Set
  <1>2. /\ thread[p].op \notin Making /\ Local!Idle.op \notin Making
        /\ Local!Idle.op \notin Reading
    BY <1>1, IdleThread DEF Making, Reading
  <1> QED BY <1>1, <1>2, IdleThread, ReaderStep

LEMMA DeleteLocal ==
  ASSUME LocalInd, NEW k \in Key, Local!delete(k), UNCHANGED config
  PROVE  LocalInd'
  <1> USE DEF LocalInd
  <1>1. /\ Local!Overlap \/ ~Local!Writing(k)
        /\ UNCHANGED <<config, file, thread, crashes>>
        /\ path' = [path EXCEPT ![k] = 0]
    BY DEF Local!delete
  <1>2. path' \in [Key -> 0 .. Len(file)] /\ path'[k] = 0 /\ \A j \in Key : j # k => path'[j] = path[j]
    BY <1>1, LocalNumbers DEF LocalInv, LocalTypes
  <1>3. LocalInv'
    BY <1>1, <1>2 DEF LocalInv, LocalTypes, Owners, Unmixed, Progress, Bounded
  <1>4. ASSUME ~Local!Overlap, crashes = 0, NamesWhole, SourcesWhole, WritersAlone
        PROVE  NamesWhole' /\ SourcesWhole' /\ WritersAlone'
    <2>1. NamesWhole' BY <1>1, <1>2, <1>4 DEF NamesWhole
    <2>2. SourcesWhole' BY <1>1, <1>4 DEF SourcesWhole
    <2>3. \A q \in Process : thread[q].op \in {"header", "write"} => thread[q].key \in Key \ {k}
      BY <1>1, <1>4 DEF Local!Writing, LocalInv, LocalTypes
    <2>4. WritersAlone' BY <1>1, <1>2, <1>4, <2>3 DEF WritersAlone
    <2> QED BY <2>1, <2>2, <2>4
  <1> QED BY <1>1, <1>3, <1>4 DEF Quiet, Local!Overlap

LEMMA CrashLocal ==
  ASSUME LocalInd, Local!crash, UNCHANGED config
  PROVE  LocalInd'
  <1> USE DEF LocalInd
  <1>1. /\ crashes' = crashes + 1 /\ thread' = [t \in Process |-> Local!Idle]
        /\ UNCHANGED <<config, path, file>>
    BY DEF Local!crash
  <1>2. crashes' \in Nat /\ crashes' # 0 BY <1>1 DEF LocalInv, LocalTypes
  <1>3. \A t \in Process : thread'[t] = Local!Idle BY <1>1
  <1>4. LocalTypes' BY <1>1, <1>2, <1>3, IdleThread DEF LocalInv, LocalTypes, Making, Reading
  <1>5. Owners' /\ Progress' BY <1>3, IdleThread DEF Owners, Progress, ProgressOf, Making
  <1>6. Unmixed' /\ Bounded' BY <1>1 DEF LocalInv, Unmixed, Bounded
  <1>7. LocalInv' BY <1>4, <1>5, <1>6 DEF LocalInv
  <1> QED BY <1>2, <1>7 DEF Quiet

LEMMA LocalStep ==
  ASSUME LocalInd, Local!Next, UNCHANGED config
  PROVE  LocalInd'
  <1>1. ASSUME NEW t \in Process,
               \/ Local!open_write_rename(t) \/ Local!open_write_header(t)
               \/ Local!write(t) \/ Local!close(t)
        PROVE  LocalInd'
    BY <1>1, OpenWriteRenameLocal, OpenWriteHeaderLocal, WriteLocal, CloseLocal
  <1>2. ASSUME NEW t \in Process,
               Local!copy_header(t) \/ Local!copy_piece(t) \/ Local!copy_rename(t)
        PROVE  LocalInd'
    BY <1>2, CopyHeaderLocal, CopyPieceLocal, CopyRenameLocal
  <1>3. ASSUME NEW t \in Process, Local!_read_meta(t) \/ Local!read(t) \/ Local!read_close(t)
        PROVE  LocalInd'
    BY <1>3, ReadMetaLocal, ReadLocal, ReadCloseLocal
  <1>4. ASSUME NEW t \in Process, NEW k \in Key, Local!open_write(t, k) \/ Local!open_read(t, k)
        PROVE  LocalInd'
    BY <1>4, OpenWriteLocal, OpenReadLocal
  <1>5. ASSUME NEW t \in Process, NEW k \in Key, NEW to \in Key, NEW meta \in BOOLEAN,
               Local!copy(t, k, to, meta)
        PROVE  LocalInd'
    BY <1>5, CopyLocal
  <1>6. ASSUME NEW k \in Key, Local!delete(k) PROVE LocalInd' BY <1>6, DeleteLocal
  <1>7. ASSUME Local!crash PROVE LocalInd' BY <1>7, CrashLocal
  <1> QED BY <1>1, <1>2, <1>3, <1>4, <1>5, <1>6, <1>7 DEF Local!Next

-----------------------------------------------------------------------------
(* What the local backend promises. *)

\* The data of a file are the pieces of one version.
LEMMA ContentOf ==
  ASSUME LocalInv, NEW f \in 1 .. Len(file), NEW v, PartOf(file[f], v)
  PROVE  /\ Local!Content(f) = [i \in 1 .. Len(Local!Content(f)) |-> <<v, i>>]
         /\ Full(file[f]) => Len(Local!Content(f)) = Pieces
  <1> DEFINE s == file[f]
  <1>1. s \in Seq(Items) /\ Len(s) \in Nat /\ Pieces \in Nat BY LocalNumbers
  <1>2. Local!Content(f) = IF s = <<>> THEN <<>> ELSE Tail(s) BY DEF Local!Content
  <1>3. PartOf(s, v) OBVIOUS
  <1> HIDE DEF s
  <1>4. CASE s = <<>>
    <2>1. Local!Content(f) = <<>> /\ Len(s) = 0 BY <1>2, <1>4
    <2>2. <<>> = [i \in 1 .. Len(<<>>) |-> <<v, i>>] OBVIOUS
    <2> QED BY <1>1, <2>1, <2>2 DEF Full, s
  <1>5. CASE s # <<>>
    <2>1. /\ Tail(s) \in Seq(Items) /\ Len(Tail(s)) = Len(s) - 1
          /\ \A i \in 1 .. Len(s) - 1 : Tail(s)[i] = s[i + 1]
      BY <1>1, <1>5
    <2>2. ASSUME NEW i \in 1 .. Len(s) - 1 PROVE Tail(s)[i] = <<v, i>>
      <3>1. i + 1 \in 2 .. Len(s) /\ i + 1 - 1 = i BY <1>1
      <3> QED BY <1>3, <2>1, <3>1 DEF PartOf
    <2>3. Tail(s) = [i \in 1 .. Len(Tail(s)) |-> <<v, i>>]
      <3> DEFINE q == Tail(s)
      <3>1. q \in [1 .. Len(q) -> Items] BY <2>1, LenProperties
      <3>2. \A i \in 1 .. Len(q) : q[i] = <<v, i>> BY <2>1, <2>2
      <3> HIDE DEF q
      <3> QED BY <3>1, <3>2 DEF q
    <2> QED BY <1>1, <1>2, <1>5, <2>1, <2>3 DEF Full, s
  <1> QED BY <1>4, <1>5

LEMMA FullComplete ==
  ASSUME LocalInv, NEW f \in 1 .. Len(file), Full(file[f])
  PROVE  Local!Complete(f)
  <1>1. PICK v \in 1 .. Len(file) : PartOf(file[f], v) BY DEF LocalInv, Unmixed
  <1> QED BY <1>1, ContentOf DEF Local!Complete

LEMMA LocalWhole ==
  ASSUME LocalInd
  PROVE  /\ Local!NoMixing
         /\ ~Local!Overlap /\ crashes = 0 => Local!ReadsComplete /\ Local!NeverCorrupted
  <1> USE DEF LocalInd
  <1>1. Local!NoMixing
    <2> SUFFICES ASSUME NEW f \in 1 .. Len(file)
                 PROVE  \E v \in 1 .. Len(file) :
                          Local!Content(f) = [i \in 1 .. Len(Local!Content(f)) |-> <<v, i>>]
      BY DEF Local!NoMixing
    <2>1. PICK v \in 1 .. Len(file) : PartOf(file[f], v) BY DEF LocalInv, Unmixed
    <2> QED BY <2>1, ContentOf
  <1>2. ASSUME ~Local!Overlap, crashes = 0 PROVE Local!ReadsComplete /\ Local!NeverCorrupted
    <2>1. SourcesWhole BY <1>2 DEF Quiet
    <2>2. Local!NeverCorrupted
      BY <2>1 DEF SourcesWhole, Local!NeverCorrupted, Local!Doing, Reading
    <2>3. ASSUME NEW t \in Process, thread[t].op = "eof" PROVE Local!Complete(thread[t].src)
      <3>1. thread[t].op \in Reading BY <2>3 DEF Reading
      <3>2. Full(file[thread[t].src]) /\ thread[t].src \in 1 .. Len(file)
        BY <2>1, <3>1 DEF SourcesWhole, LocalInv, LocalTypes
      <3> QED BY <3>2, FullComplete
    <2> QED BY <2>2, <2>3 DEF Local!ReadsComplete, Local!Doing
  <1> QED BY <1>1, <1>2

\* A name is given to another file by who writes it, or when it is whole.
LEMMA NamesCompleteStep ==
  ASSUME LocalInd, ~Local!Overlap, crashes = 0, Local!Next
  PROVE  Local!NamesComplete
  <1> USE DEF LocalInd
  <1>1. UNCHANGED path => Local!NamesComplete BY DEF Local!NamesComplete
  <1>2. ASSUME NEW t \in Process, Local!open_write_rename(t) PROVE Local!NamesComplete
    BY <1>2 DEF Local!NamesComplete, Local!open_write_rename, Local!Rename, Local!Doing,
                LocalInv, LocalTypes
  <1>3. ASSUME NEW t \in Process, Local!copy_rename(t) PROVE Local!NamesComplete
    <2>1. thread[t].fd \in 1 .. Len(file)
      BY <1>3 DEF LocalInv, LocalTypes, Making, Local!copy_rename, Local!Doing
    <2>3. Local!Complete(thread[t].fd)
      BY <1>3, <2>1, CopiedFull, FullComplete DEF Quiet
    <2>2. path' = [path EXCEPT ![thread[t].to] = thread[t].fd]
      BY <1>3 DEF Local!copy_rename, Local!Rename
    <2>4. \A k \in Key : path[k] # path'[k] => path'[k] = thread[t].fd
      BY <2>2 DEF LocalInv, LocalTypes
    <2> QED BY <2>3, <2>4 DEF Local!NamesComplete
  <1>4. ASSUME NEW k \in Key, Local!delete(k) PROVE Local!NamesComplete
    BY <1>4 DEF Local!NamesComplete, Local!delete, LocalInv, LocalTypes
  <1> QED BY <1>1, <1>2, <1>3, <1>4
     DEF Local!Next, Local!open_write_header, Local!write, Local!close, Local!copy_header,
         Local!copy_piece, Local!_read_meta, Local!read, Local!read_close, Local!open_write,
         Local!open_read, Local!copy, Local!crash

-----------------------------------------------------------------------------
(* A rename keeps the object under one of its names.                       *)

LEMMA NoneVanishesStep ==
  ASSUME CEInv, ~CE!Overlap, CE!Next
  PROVE  CE!NoneVanishes
  <1> USE DEF CEInv
  <1>1. ASSUME NEW p \in Process, CE!RenameDelete(p) PROVE CE!NoneVanishes
    <2> DEFINE src == proc[p].src
               dest == proc[p].dest
    <2>1. proc[p].op = "delete" /\ store' = [store EXCEPT ![src] = None]
      BY <1>1 DEF CE!RenameDelete
    <2>2. src \in Key /\ dest \in Key BY <2>1 DEF Types, Procs
    <2>3. src # dest BY <2>1 DEF Pending, PendingOf
    <2>4. store[dest] # None /\ store[dest].body = store[src].body
      BY <2>1 DEF Sources, SourceKept
    <2>5. store'[dest] = store[dest] /\ \A k \in Key : k # src => store'[k] = store[k]
      BY <2>1, <2>2, <2>3 DEF Types
    <2> QED BY <2>2, <2>4, <2>5 DEF CE!NoneVanishes
  <1>2. ASSUME NEW k \in Key, NEW meta \in CE!Metas, NEW body \in CE!Bodies, CE!Put(k, meta, body)
        PROVE  CE!NoneVanishes
    <2>1. [meta |-> meta, body |-> body] \in CE!Objects BY DEF CE!Objects
    <2>2. [meta |-> meta, body |-> body] # None BY <2>1, StorageAssumption
    <2>3. store' = [store EXCEPT ![k] = [meta |-> meta, body |-> body]] BY <1>2 DEF CE!Put
    <2> QED BY <2>2, <2>3 DEF CE!NoneVanishes, Types
  <1>3. ASSUME NEW p \in Process, CE!close(p) PROVE CE!NoneVanishes
    <2>1. proc[p].op = "write" /\ CE!Put(proc[p].src, proc[p].meta, proc[p].body)
      BY <1>3 DEF CE!close
    <2>2. proc[p].src \in Key /\ proc[p].meta \in CE!Metas /\ proc[p].body \in CE!Bodies
      BY <2>1 DEF Types, Procs
    <2> QED BY <1>2, <2>1, <2>2
  <1>4. ASSUME NEW p \in Process, CE!CopyBackend(p) PROVE CE!NoneVanishes
    <2>1. /\ proc[p].op = "copy" /\ store[proc[p].src] # None
          /\ CE!Put(proc[p].dest, CE!CopyMeta(p), store[proc[p].src].body)
      BY <1>4 DEF CE!CopyBackend
    <2>2. proc[p].src \in Key /\ proc[p].dest \in Key /\ proc[p].meta \in CE!Metas \cup {None}
      BY <2>1 DEF Types, Procs
    <2>3. store[proc[p].src].meta \in CE!Metas /\ store[proc[p].src].body \in CE!Bodies
      BY <2>1, <2>2 DEF Types, CE!Objects
    <2> DEFINE k == proc[p].dest
               m == CE!CopyMeta(p)
               b == store[proc[p].src].body
    <2>4. k \in Key /\ m \in CE!Metas /\ b \in CE!Bodies /\ CE!Put(k, m, b)
      BY <2>1, <2>2, <2>3 DEF CE!CopyMeta
    <2> HIDE DEF k, m, b
    <2> QED BY <1>2, <2>4
  <1>5. UNCHANGED store => CE!NoneVanishes BY DEF CE!NoneVanishes
  <1>6. \A p \in Process, k \in Key : CE!open_write(p, k) => UNCHANGED store
    BY DEF CE!open_write
  <1>7. \A p \in Process, src, dest \in Key, rename, change \in BOOLEAN :
           CE!_copy_or_rename(p, src, dest, rename, change) => UNCHANGED store
    BY DEF CE!_copy_or_rename
  <1>8. \A p \in Process : CE!Kill(p) => UNCHANGED store BY DEF CE!Kill
  <1>9. \A k \in Key : CE!open_read(k) => UNCHANGED store BY DEF CE!open_read
  <1> QED BY <1>1, <1>3, <1>4, <1>5, <1>6, <1>7, <1>8, <1>9 DEF CE!Next, CE!Write

LEMMA CEStep ==
  ASSUME CEInv, CE!Next, UNCHANGED config
  PROVE  CEInv' /\ LastRead'
  <1>1. CASE CE!Write /\ result' = None
    <2>1. CEInv' BY <1>1, WriteInv
    <2> QED BY <1>1, <2>1 DEF LastRead, CE!ReadAuthentic
  <1>2. CASE \E k \in Key : CE!open_read(k) BY <1>2, OpenReadAuthentic
  <1> QED BY <1>1, <1>2 DEF CE!Next

-----------------------------------------------------------------------------
(***************************************************************************)
(* The two components, one of which runs.                                  *)
(***************************************************************************)
StorageInv ==
    \/ part = "local" /\ LocalInd
    \/ part = "comprenc" /\ CEInv /\ LastRead

LEMMA StorageInit == Init => StorageInv
  <1>1. CE!Init => CEInv /\ LastRead
    BY CEInitInv DEF CE!Init, LastRead, CE!ReadAuthentic
  <1> QED BY <1>1, LocalInitInv DEF Init, StorageInv

LEMMA StorageStep ==
  ASSUME StorageInv, [Next]_vars
  PROVE  StorageInv' /\ (~config.Overlap =>
             /\ part = "local" /\ crashes = 0 => UNCHANGED vars \/ Local!NamesComplete
             /\ part = "comprenc" => UNCHANGED vars \/ CE!NoneVanishes)
  <1>1. CASE LocalNext
    BY <1>1, LocalStep, NamesCompleteStep
    DEF LocalNext, StorageInv, LocalInd, Local!Overlap
  <1>2. CASE CENext
    BY <1>2, CEStep, NoneVanishesStep DEF CENext, StorageInv, CE!Overlap
  <1>3. CASE UNCHANGED vars
    <2>1. LocalInd => LocalInd'
      BY <1>3 DEF vars, LocalInd, LocalInv, LocalTypes, Owners, Unmixed, Progress, Bounded, Quiet,
                  NamesWhole, SourcesWhole, WritersAlone, Local!Overlap
    <2>2. CEInv => CEInv'
      BY <1>3 DEF vars, CEInv, Types, PastGenuine, StorePast, Pending, Separate, StoreFits,
                  Sources, CE!Overlap, CE!Encrypted
    <2>3. LastRead => LastRead'
      BY <1>3 DEF vars, LastRead, CE!ReadAuthentic, CE!Encrypted, CE!Overlap, CE!Faults
    <2> QED BY <1>3, <2>1, <2>2, <2>3 DEF StorageInv, vars
  <1> QED BY <1>1, <1>2, <1>3 DEF Next

\* Whoever works on the storage, and whenever a process ends.
THEOREM StorageStaysSound == Spec => []StorageInv
  <1>1. StorageInv /\ [Next]_vars => StorageInv' BY StorageStep
  <1> QED BY <1>1, StorageInit, PTL DEF Spec

\* Local files never mix the data of two writers; who reads an object that
\* nobody writes reads all of it (local.py:100, 201).
THEOREM FilesStayWhole == Spec => []FilesWhole
  <1>1. StorageInv => FilesWhole
    BY LocalWhole DEF StorageInv, FilesWhole, Local!Overlap
  <1> QED BY <1>1, StorageStaysSound, PTL

\* What is read from encrypted storage was stored under that key with that
\* metadata, whatever the storage returns, and no copy, rename or change of
\* metadata leaves an object that fails authentication (comprenc.py:104, 295).
THEOREM ObjectsStayAuthentic == Spec => []ObjectsAuthentic
  <1>1. StorageInv => ObjectsAuthentic
    BY AllReadable
    DEF StorageInv, ObjectsAuthentic, LastRead, CE!Encrypted, CE!Overlap, CE!Faults
  <1> QED BY <1>1, StorageStaysSound, PTL

\* No copy gives a name to a part of a file, and a rename that is interrupted
\* leaves the object under one of its names (local.py:201, comprenc.py:295).
THEOREM NothingIsLost == Spec => NothingVanishes
  <1>1. StorageInv /\ [Next]_vars =>
          [~config.Overlap => /\ part = "local" /\ crashes = 0 => Local!NamesComplete
                              /\ part = "comprenc" => CE!NoneVanishes]_vars
    BY StorageStep
  <1> QED BY <1>1, StorageStaysSound, PTL DEF Spec, NothingVanishes
=============================================================================
