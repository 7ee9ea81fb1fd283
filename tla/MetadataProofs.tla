---------------------------- MODULE MetadataProofs ---------------------------
(***************************************************************************)
(* The metadata between mounts, for any number of hosts that take turns    *)
(* and any number of changes, crashes and backups.  Who has the highest    *)
(* sequence number has all changes (Level); a host takes the next number   *)
(* before it changes anything, so that every other copy is below it        *)
(* (Owner), and the copy it came from stays one below it until the new one *)
(* is in place or the number is given back; a task that uploads while the  *)
(* file system is mounted stores its copy one below it, too.  When no      *)
(* program runs, and when one dies at one of CrashPlaces, a copy with the  *)
(* highest number is left (Quiet).                                         *)
(***************************************************************************)
EXTENDS MCMetadata, TLAPS

Fields == {"pc", "seq_no", "param", "local", "changed", "sent", "failsafe", "stopped", "fh", "step", "then"}

\* One program runs at a time and the user forces nothing; at least one old
\* number is kept; and programs die at CrashPlaces only, with a backend that
\* renames not in the rotation.  Metadata may be uploaded while mounted.
TakeTurns ==
    /\ ~config.Forced /\ ~config.Concurrent
    /\ config.SeqKeep \in Nat \ {0}
    /\ config.CrashAt \subseteq CrashPlaces
    /\ config.NativeRename => "cycle" \notin config.CrashAt

\* All changes.
All == 1 .. changes
\* The highest sequence number.
Top == Mounts!get_seq_no
Remote == object[Mounts!Meta]

Below(g, n) == params[g] # None => params[g].seq_no < n
AtMost(g, n) == params[g] # None => params[g].seq_no <= n
Has(g, n) == params[g] # None /\ params[g].seq_no = n

\* All changes; if numbers are reused nothing is said about them.
Full(d) == d \in SUBSET Nat /\ (config.Reuse \/ d = All)

\* Who has the number n has all changes.
Level(g, n) == Has(g, n) => Full(dbfile[g])
RemoteLevel(n) == Remote.seq_no = n => Full(Remote.data)

\* Only who is behind the remote metadata has outdated cache files.
StaleBehind == \A g \in Host : g \in stale => Below(g, Remote.seq_no)

\* n is the number of the latest metadata, which some host or the backend has.
Quiet(n) ==
    /\ Remote # None /\ Remote.seq_no <= n /\ RemoteLevel(n) /\ StaleBehind
    /\ \A g \in Host : AtMost(g, n) /\ Level(g, n)
    /\ Remote.seq_no = n \/ \E g \in Host : Has(g, n)

\* Where a program is: it looks for metadata, fetches it, is about to take
\* the next number, has taken it, or owns it.
Looking == {"mount", "fsck"}
Fetching == {"download", "rmtree", "fsck cache", "fsck download"}
Ready == {"save", "dirty", "fsck store"}
Between == {"mark", "released"}
Owning == {"mounted", "unchanged", "upload", "cycle", "uploaded", "fsck check"}

\* A task of a mounted file system uploads, with the number before.
Transit == {"upload", "cycle", "uploaded"}
Sending(q) == q.pc \in Transit /\ q.then = "mounted"
\* What is uploaded has all changes, except those made in the meantime.
Dumped(q, d) == (Sending(q) /\ q.changed) \/ Full(d)

\* A host that has not taken the next number.
Before(h, n) ==
    LET q == proc[h] IN
    /\ q.pc \in Looking \cup Fetching \cup Ready => Quiet(n)
    /\ q.pc \in Looking => q.seq_no = n
    /\ q.pc \in Fetching => Below(h, n) /\ Remote.seq_no = n
    /\ q.pc \in Fetching \cup Ready => q.param.seq_no = n
    /\ q.pc \in {"rmtree"} \cup Ready => Full(dbfile[h])
    /\ q.pc \in {"fsck download"} \cup Ready => h \notin stale
    /\ q.pc = "dirty" => Has(h, n)

\* It has saved the next number and not stored it, or the other way round.
Turning(h, n) ==
    LET q == proc[h] IN
    /\ q.pc \in Between =>
          /\ Has(h, n + 1) /\ Full(dbfile[h]) /\ h \notin stale
          /\ Remote # None /\ Remote.seq_no <= n /\ RemoteLevel(n) /\ StaleBehind
          /\ \A g \in Host \ {h} : AtMost(g, n) /\ Level(g, n)
    /\ q.pc = "mark" => q.param.seq_no = n + 1
    /\ q.pc = "released" => q.param.seq_no = n
    /\ q.pc = "fsck save" =>
          /\ q.param.seq_no = n /\ Full(dbfile[h]) /\ h \notin stale
          /\ Remote # None /\ Remote.seq_no < n /\ StaleBehind
          /\ \A g \in Host : Below(g, n)

\* It has the highest number alone; if it changed nothing, the remote
\* metadata agrees about the number before, and so do the others if nothing
\* was uploaded.
Owner(h, n) ==
    LET q == proc[h] IN
    /\ q.pc \in Owning =>
          /\ Has(h, n) /\ Full(dbfile[h]) /\ h \notin stale
          /\ q.param.seq_no = IF Sending(q) THEN n - 1 ELSE n
          /\ \A g \in Host \ {h} : Below(g, n) /\ (g \in stale => Below(g, n - 1))
    /\ q.pc \in Owning \ {"cycle", "uploaded"} => Remote # None /\ Remote.seq_no < n /\ StaleBehind
    /\ q.pc \in {"mounted", "unchanged"} \/ Sending(q) => n - 1 \in seqs
    /\ q.pc \in {"mounted", "unchanged"} /\ ~q.changed =>
          /\ RemoteLevel(n - 1)
          /\ q.pc = "unchanged" \/ ~q.sent => \A g \in Host \ {h} : Level(g, n - 1)
    /\ q.pc = "unchanged" => ~q.changed

\* What is where while the objects are rotated.
Uploading(h, n) ==
    LET q == proc[h] IN
    /\ q.pc \in {"upload", "cycle"} => q.fh \in SUBSET Nat /\ Dumped(q, q.fh)
    /\ q.pc = "upload" => q.step = Keep - 1
    /\ q.pc = "cycle" =>
          /\ q.step \in -3 .. Keep - 1 /\ object[Mounts!New] # None
          /\ q.step >= -2 => object[Mounts!New].seq_no = q.param.seq_no
                             /\ Dumped(q, object[Mounts!New].data)
          /\ q.step >= -1 => Remote # None /\ Remote.seq_no < n /\ StaleBehind
          /\ q.step = -2 /\ ~config.NativeRename => Remote # None /\ Remote.seq_no < n /\ StaleBehind
          /\ q.step = -2 /\ config.NativeRename => Remote = None
          /\ q.step = -3 => ~config.NativeRename
    /\ q.pc = "uploaded" \/ (q.pc = "cycle" /\ q.step = -3) =>
          Remote # None /\ Remote.seq_no = q.param.seq_no /\ Dumped(q, Remote.data)

PCs == {"off"} \cup Looking \cup Fetching \cup Ready \cup Between \cup Owning \cup {"fsck save"}

ParamRecord == [seq_no : Nat, needs_fsck : BOOLEAN]
RemoteRecord == [seq_no : Nat, needs_fsck : BOOLEAN, data : SUBSET Nat]

\* What is stored.
Shared ==
    /\ seqs \subseteq Nat /\ Top \in seqs /\ \A s \in seqs : s <= Top
    /\ changes \in Nat
    /\ params \in [Host -> {None} \cup ParamRecord]
    /\ object \in [Mounts!ObjectNo -> {None} \cup RemoteRecord]
    /\ DOMAIN dbfile = Host /\ \A g \in Host : params[g] # None => dbfile[g] \in SUBSET Nat

ProcOK(q) ==
    /\ DOMAIN q = Fields /\ q.failsafe \in BOOLEAN /\ q.pc \in PCs
    /\ q.then = "mounted" => q.pc \in Transit /\ q.sent
    /\ q.pc \notin {"off"} \cup Looking => q.param \in ParamRecord

\* One program runs at most.
Alone ==
    /\ DOMAIN proc = Host /\ \A h \in Host : ProcOK(proc[h])
    /\ \A g, h \in Host : proc[g].pc # "off" /\ proc[h].pc # "off" => g = h

HostOK(h) == Before(h, Top) /\ Turning(h, Top) /\ Owner(h, Top) /\ Uploading(h, Top)

MountInv ==
    /\ Shared /\ TakeTurns /\ Alone
    /\ (\A h \in Host : proc[h].pc = "off") => Quiet(Top)
    /\ \A h \in Host : HostOK(h)

-----------------------------------------------------------------------------
\* The highest number of a set.
LEMMA MaxIs ==
  ASSUME NEW S, S \subseteq Nat, NEW n \in S, \A s \in S : s <= n
  PROVE  Mounts!Max(S) = n
  <1> DEFINE m == CHOOSE x \in S : \A y \in S : x >= y
  <1>1. m \in S /\ \A y \in S : m >= y
    <2>1. \A y \in S : n >= y OBVIOUS
    <2> QED BY <2>1
  <1>2. m = Mounts!Max(S) BY DEF Mounts!Max
  <1> HIDE DEF m
  <1> QED BY <1>1, <1>2

\* What is left when old numbers are deleted.
LEMMA Latest ==
  ASSUME NEW S, S \subseteq Nat, NEW n \in S, \A s \in S : s <= n, NEW k \in Nat, k >= 1,
         NEW R, R = {s \in S : s >= n - k}
  PROVE  R \subseteq Nat /\ n \in R /\ (\A s \in R : s <= n) /\ (n - 1 \in S => n - 1 \in R)
  <1>1. n \in Nat OBVIOUS
  <1>2. n >= n - k /\ n - 1 >= n - k BY <1>1
  <1> QED BY <1>2

LEMMA TopIs ==
  ASSUME NEW n, n \in seqs', seqs' \subseteq Nat, \A s \in seqs' : s <= n
  PROVE  Top' = n
  BY MaxIs DEF Top, Mounts!get_seq_no

\* Old sequence numbers are deleted.
LEMMA CleanedKeeps ==
  ASSUME Shared, TakeTurns, seqs' = Mounts!Cleaned
  PROVE  /\ seqs' \subseteq Nat /\ Top' = Top /\ Top' \in seqs' /\ \A s \in seqs' : s <= Top'
         /\ Top - 1 \in seqs => Top - 1 \in seqs'
  <1>1. /\ seqs' \subseteq Nat /\ Top \in seqs' /\ \A s \in seqs' : s <= Top
        /\ Top - 1 \in seqs => Top - 1 \in seqs'
    <2>1. seqs' = {s \in seqs : s >= Top - config.SeqKeep}
      BY DEF Top, Mounts!Cleaned, Mounts!SeqKeep
    <2>2. config.SeqKeep \in Nat /\ config.SeqKeep >= 1 BY DEF TakeTurns
    <2>3. seqs \subseteq Nat /\ Top \in seqs /\ \A s \in seqs : s <= Top BY DEF Shared
    <2> QED BY <2>1, <2>2, <2>3, Latest
  <1>2. Top' = Top BY <1>1, TopIs
  <1> QED BY <1>1, <1>2

\* The host that acts is the only one.
LEMMA Becomes ==
  ASSUME MountInv, NEW h \in Host, UNCHANGED config, Shared', HostOK(h)',
         proc'[h].pc = "off" => Quiet(Top)', \A g \in Host \ {h} : proc[g].pc = "off" /\ proc'[g] = proc[g],
         DOMAIN proc' = Host, ProcOK(proc'[h])
  PROVE  MountInv'
  <1>1. TakeTurns' BY DEF MountInv, TakeTurns
  <1>2. Alone' BY DEF MountInv, Alone
  <1>3. (\A g \in Host : proc'[g].pc = "off") => Quiet(Top)' OBVIOUS
  <1>4. ASSUME NEW g \in Host \ {h} PROVE HostOK(g)'
    <2>1. proc'[g].pc = "off" OBVIOUS
    <2> QED
      BY <2>1 DEF HostOK, Before, Turning, Owner, Uploading, Looking, Fetching, Ready, Between, Owning,
           Sending, Transit, Full
  <1> QED BY <1>1, <1>2, <1>3, <1>4 DEF MountInv

\* The host that runs a program is the only one.
LEMMA Acting ==
  ASSUME MountInv, NEW h \in Host, proc[h].pc # "off"
  PROVE  /\ Shared /\ TakeTurns /\ HostOK(h) /\ ProcOK(proc[h]) /\ DOMAIN proc = Host
         /\ \A g \in Host \ {h} : proc[g].pc = "off"
  BY DEF MountInv, Alone

\* What a step leaves alone.
LEMMA QuietSame ==
  ASSUME Quiet(Top), UNCHANGED <<config, object, params, dbfile, changes>>, stale' \subseteq stale, Top' = Top
  PROVE  Quiet(Top)'
  BY DEF Quiet, AtMost, Below, Has, Level, RemoteLevel, Remote, All, Full, StaleBehind, Mounts!Meta

LEMMA SharedSame ==
  ASSUME Shared, UNCHANGED <<seqs, object, params, dbfile, changes>>
  PROVE  Shared' /\ Top' = Top
  BY DEF Shared, Top, Mounts!get_seq_no, Mounts!ObjectNo

\* A program ends.
LEMMA ExitInv ==
  ASSUME MountInv, UNCHANGED config, NEW h \in Host, proc[h].pc # "off", Mounts!Exit(h), Shared', Quiet(Top)'
  PROVE  MountInv'
  <1>1. DOMAIN proc = Host /\ \A g \in Host \ {h} : proc[g].pc = "off" BY Acting
  <1>2. proc'[h] = Mounts!NoProc /\ DOMAIN proc' = Host /\ \A g \in Host \ {h} : proc'[g] = proc[g]
    BY <1>1 DEF Mounts!Exit
  <1>3. ProcOK(proc'[h]) /\ proc'[h].pc = "off" BY <1>2 DEF Mounts!NoProc, ProcOK, Fields, PCs
  <1>4. HostOK(h)'
    BY <1>3 DEF HostOK, Before, Turning, Owner, Uploading, Looking, Fetching, Ready, Between, Owning,
           Sending, Transit, Full
  <1> QED BY <1>1, <1>2, <1>3, <1>4, Becomes

\* A program begins.
LEMMA StartInv ==
  ASSUME MountInv, UNCHANGED config, NEW h \in Host, NEW program \in Looking, Mounts!start(h, program)
  PROVE  MountInv'
  <1>1. \A g \in Host : proc[g].pc = "off" BY DEF Mounts!start, Mounts!Concurrent, MountInv, TakeTurns, Mounts!At
  <1>2. /\ seqs' \subseteq Nat /\ Top' = Top /\ Top' \in seqs' /\ \A s \in seqs' : s <= Top'
    BY CleanedKeeps DEF MountInv, Mounts!start
  <1>3. Shared /\ Quiet(Top) /\ DOMAIN proc = Host /\ ProcOK(proc[h]) BY <1>1 DEF MountInv, Alone
  <1>4. DOMAIN proc[h] = Fields /\ proc[h].failsafe \in BOOLEAN /\ proc[h].then # "mounted"
    BY <1>1, <1>3 DEF ProcOK, Transit
  <1>5. /\ DOMAIN proc' = Host /\ DOMAIN proc'[h] = Fields
        /\ proc'[h].pc = program /\ proc'[h].seq_no = Top
        /\ proc'[h].failsafe = proc[h].failsafe /\ proc'[h].then = proc[h].then /\ proc'[h].sent = proc[h].sent
        /\ \A g \in Host \ {h} : proc'[g] = proc[g]
    BY <1>3, <1>4 DEF Mounts!start, Top, Fields
  <1>6. ProcOK(proc'[h]) BY <1>4, <1>5 DEF ProcOK, PCs, Looking
  <1>7. Shared' BY <1>2, <1>3 DEF Mounts!start, Mounts!disk, Shared, Mounts!ObjectNo
  <1>8. Quiet(Top)'
    BY <1>2, <1>3, QuietSame DEF Mounts!start, Mounts!disk
  <1>9. HostOK(h)'
    BY <1>2, <1>5, <1>8 DEF HostOK, Before, Turning, Owner, Uploading, Looking, Fetching, Ready, Between, Owning,
           Sending, Transit, Full
  <1> QED BY <1>1, <1>5, <1>6, <1>7, <1>8, <1>9, Becomes

\* The remote metadata is there when a program looks.
LEMMA Looks ==
  ASSUME MountInv, NEW h \in Host, proc[h].pc \in Looking
  PROVE  /\ proc[h].seq_no = Top /\ Quiet(Top) /\ Mounts!meta_obj_name = Mounts!Meta
         /\ Top \in Nat /\ Remote \in RemoteRecord /\ Remote.seq_no \in Nat /\ Remote.needs_fsck \in BOOLEAN
         /\ params[h] # None => params[h] \in ParamRecord /\ params[h].seq_no \in Nat
                                /\ params[h].needs_fsck \in BOOLEAN
         /\ params[h] # None => params[h].seq_no <= Top
         /\ params[h] # None /\ params[h].seq_no = Top => Full(dbfile[h])
  <1>1. proc[h].pc # "off" BY DEF Looking
  <1>2. Shared /\ HostOK(h) BY <1>1, Acting
  <1>3. proc[h].seq_no = Top /\ Quiet(Top) BY <1>2 DEF HostOK, Before
  <1>4. Remote # None BY <1>3 DEF Quiet
  <1>5. Mounts!meta_obj_name = Mounts!Meta BY <1>4 DEF Remote, Mounts!meta_obj_name
  <1>6. Top \in Nat /\ Remote \in RemoteRecord
    <2>1. Mounts!Meta \in Mounts!ObjectNo BY MetadataAssumption DEF Mounts!Meta, Mounts!ObjectNo
    <2> QED BY <1>2, <1>4, <2>1 DEF Shared, Remote
  <1>7. Remote.seq_no \in Nat /\ Remote.needs_fsck \in BOOLEAN BY <1>6 DEF RemoteRecord
  <1>8. params[h] # None => params[h] \in ParamRecord BY <1>2 DEF Shared
  <1>9. params[h] \in ParamRecord => params[h].seq_no \in Nat /\ params[h].needs_fsck \in BOOLEAN
    BY DEF ParamRecord
  <1>10. /\ params[h] # None => params[h].seq_no <= Top
         /\ params[h] # None /\ params[h].seq_no = Top => Full(dbfile[h])
    BY <1>3 DEF Quiet, AtMost, Level, Has
  <1> QED BY <1>3, <1>5, <1>6, <1>7, <1>8, <1>9, <1>10

\* The local metadata is used, or the remote one will be fetched.
LEMMA GetMetadataInv ==
  ASSUME MountInv, UNCHANGED config, NEW h \in Host, Mounts!get_metadata(h)
  PROVE  MountInv'
  <1>1. proc[h].pc = "mount" BY DEF Mounts!get_metadata, Mounts!At
  <1>2. proc[h].pc \in Looking /\ proc[h].pc # "off" BY <1>1 DEF Looking
  <1>3. Shared /\ ProcOK(proc[h]) /\ DOMAIN proc = Host /\ \A g \in Host \ {h} : proc[g].pc = "off"
    BY <1>2, Acting
  <1>4. UNCHANGED <<seqs, object, params, dbfile, stale, changes>>
    BY DEF Mounts!get_metadata, Mounts!remote, Mounts!disk
  <1>5. Quiet(Top) BY <1>2, Looks
  <1>6. Shared' /\ Top' = Top BY <1>3, <1>4, SharedSame
  <1>7. Quiet(Top)' BY <1>4, <1>5, <1>6, QuietSame
  <1> DEFINE local == params[h] # None /\ ~(params[h] # None /\ params[h].seq_no < proc[h].seq_no)
             param == IF local THEN params[h]
                      ELSE [seq_no |-> Remote.seq_no, needs_fsck |-> Remote.needs_fsck]
  <1>8. CASE Mounts!Exit(h) BY <1>2, <1>6, <1>7, <1>8, ExitInv
  <1>9. CASE ~Mounts!Exit(h)
    <2>1. /\ proc' = [proc EXCEPT ![h].param = param, ![h].local = local,
                                  ![h].pc = IF local THEN "save" ELSE "download"]
          /\ param.seq_no >= proc[h].seq_no /\ (local => param.seq_no <= proc[h].seq_no)
      <3>1. Mounts!meta_obj_name = Mounts!Meta /\ object[Mounts!Meta] # None
        BY <1>2, <1>5, Looks DEF Quiet, Remote
      <3> QED BY <1>9, <3>1, <1>2, Looks DEF Mounts!get_metadata, Remote
    <2>2. param \in ParamRecord /\ param.seq_no \in Nat
      BY <1>2, Looks DEF ParamRecord
    <2> HIDE DEF param
    <2>3. param.seq_no = Top
      <3>1. ~local => param.seq_no <= Top
        BY <1>5 DEF Quiet, param
      <3> QED BY <1>2, <2>1, <2>2, <3>1, Looks
    <2> HIDE DEF local
    <2>4. DOMAIN proc[h] = Fields BY <1>3 DEF ProcOK
    <2>5. /\ DOMAIN proc' = Host /\ DOMAIN proc'[h] = Fields
          /\ proc'[h].pc = (IF local THEN "save" ELSE "download") /\ proc'[h].param = param
          /\ proc'[h].failsafe = proc[h].failsafe /\ proc'[h].then = proc[h].then /\ proc'[h].sent = proc[h].sent
          /\ \A g \in Host \ {h} : proc'[g] = proc[g]
      BY <1>3, <2>1, <2>4 DEF Fields
    <2>6. ProcOK(proc'[h]) BY <1>1, <1>3, <2>2, <2>5 DEF ProcOK, PCs, Ready, Fetching, Transit
    <2>7. CASE local
      <3>1. params[h] # None /\ params[h].seq_no = Top BY <2>3, <2>7 DEF local, param
      <3>2. Full(dbfile[h]) /\ h \notin stale
        BY <1>2, <1>5, <3>1, Looks DEF Quiet, StaleBehind, Below
      <3>3. HostOK(h)'
        BY <1>4, <1>6, <1>7, <2>3, <2>5, <2>7, <3>1, <3>2
           DEF HostOK, Before, Turning, Owner, Uploading, Looking, Fetching, Ready, Between, Owning,
           Sending, Transit, Full, All
      <3> QED BY <1>3, <1>6, <1>7, <2>5, <2>6, <3>3, Becomes
    <2>8. CASE ~local
      <3>1. Below(h, Top) BY <1>2, <2>8, Looks DEF local, Below
      <3>2. Remote.seq_no = Top BY <2>3, <2>8 DEF param
      <3>3. HostOK(h)'
        BY <1>4, <1>6, <1>7, <2>3, <2>5, <2>8, <3>1, <3>2
           DEF HostOK, Before, Turning, Owner, Uploading, Looking, Fetching, Ready, Between, Owning,
           Sending, Transit, Full, All,
               Below, Remote, Mounts!Meta
      <3> QED BY <1>3, <1>6, <1>7, <2>5, <2>6, <3>3, Becomes
    <2> QED BY <2>7, <2>8
  <1> QED BY <1>8, <1>9

\* The numbers of the objects.
LEMMA ObjectNos ==
  /\ Mounts!New = -2 /\ Mounts!Meta = -1 /\ Mounts!ObjectNo = -2 .. Keep /\ Keep \in Nat
  /\ Mounts!New \in Mounts!ObjectNo /\ Mounts!Meta \in Mounts!ObjectNo
  BY MetadataAssumption DEF Mounts!New, Mounts!Meta, Mounts!ObjectNo

\* Only the place in the program changes.
LEMMA GotoIs ==
  ASSUME NEW h \in Host, ProcOK(proc[h]), DOMAIN proc = Host, NEW place \in PCs, Mounts!Goto(h, place),
         proc[h].pc \notin {"off"} \cup Looking, proc[h].pc \in Transit => place \in Transit
  PROVE  /\ DOMAIN proc' = Host /\ ProcOK(proc'[h]) /\ proc'[h].pc = place
         /\ proc'[h].param = proc[h].param /\ proc'[h].changed = proc[h].changed
         /\ proc'[h].fh = proc[h].fh /\ proc'[h].step = proc[h].step /\ proc'[h].then = proc[h].then
         /\ \A g \in Host \ {h} : proc'[g] = proc[g]
  <1>1. DOMAIN proc[h] = Fields BY DEF ProcOK
  <1>2. /\ DOMAIN proc' = Host /\ DOMAIN proc'[h] = Fields /\ proc'[h].pc = place
        /\ proc'[h].param = proc[h].param /\ proc'[h].changed = proc[h].changed
        /\ proc'[h].fh = proc[h].fh /\ proc'[h].step = proc[h].step
        /\ proc'[h].failsafe = proc[h].failsafe /\ proc'[h].then = proc[h].then /\ proc'[h].sent = proc[h].sent
        /\ \A g \in Host \ {h} : proc'[g] = proc[g]
    BY <1>1 DEF Mounts!Goto, Fields
  <1> QED BY <1>2 DEF ProcOK

\* The metadata is downloaded.
LEMMA DownloadInv ==
  ASSUME MountInv, UNCHANGED config, NEW h \in Host, proc[h].pc \in {"download", "fsck download"},
         NEW then, then = (IF proc[h].pc = "download" THEN "rmtree" ELSE "fsck store"),
         Mounts!download_metadata(h, then),
         stale' = (IF proc[h].pc = "download" THEN stale \cup {h} ELSE stale),
         UNCHANGED <<seqs, object, params, changes>>
  PROVE  MountInv'
  <1>1. proc[h].pc \in Fetching /\ proc[h].pc \notin {"off"} \cup Looking BY DEF Fetching, Looking
  <1>2. /\ Shared /\ ProcOK(proc[h]) /\ DOMAIN proc = Host /\ HostOK(h)
        /\ \A g \in Host \ {h} : proc[g].pc = "off"
    BY <1>1, Acting
  <1>3. Quiet(Top) /\ Below(h, Top) /\ Remote.seq_no = Top /\ proc[h].param.seq_no = Top
    BY <1>1, <1>2 DEF HostOK, Before
  <1>4. Mounts!Goto(h, then) /\ dbfile' = [dbfile EXCEPT ![h] = Remote.data] /\ Full(Remote.data)
    BY <1>3 DEF Mounts!download_metadata, Mounts!restore_metadata, Quiet, Remote, RemoteLevel
  <1>5. then \in PCs BY DEF PCs, Fetching, Ready
  <1>6. /\ DOMAIN proc' = Host /\ ProcOK(proc'[h]) /\ proc'[h].pc = then
        /\ proc'[h].param = proc[h].param /\ \A g \in Host \ {h} : proc'[g] = proc[g]
    BY <1>1, <1>2, <1>4, <1>5, GotoIs DEF Transit
  <1>7. DOMAIN dbfile' = Host /\ dbfile'[h] = Remote.data /\ \A g \in Host \ {h} : dbfile'[g] = dbfile[g]
    BY <1>2, <1>4 DEF Shared
  <1>8. Top' = Top /\ Remote' = Remote /\ All' = All /\ Below(h, Top)'
    BY <1>3 DEF Top, Mounts!get_seq_no, Remote, Mounts!Meta, All, Below
  <1>9. Shared' BY <1>2, <1>4, <1>7, <1>8 DEF Shared, Mounts!ObjectNo, Full
  <1>10. Quiet(Top)'
    <2>1. /\ Remote' # None /\ Remote'.seq_no <= Top' /\ RemoteLevel(Top)'
          /\ Remote'.seq_no = Top' \/ \E g \in Host : Has(g, Top)'
      BY <1>3, <1>8 DEF Quiet, RemoteLevel, Full
    <2>2. StaleBehind' BY <1>3, <1>8 DEF Quiet, StaleBehind, Below
    <2>3. \A g \in Host : AtMost(g, Top)' /\ Level(g, Top)'
      BY <1>3, <1>4, <1>7, <1>8 DEF Quiet, AtMost, Level, Has, Full
    <2> QED BY <2>1, <2>2, <2>3 DEF Quiet
  <1>11. proc[h].pc = "fsck download" => h \notin stale'
    BY <1>2 DEF HostOK, Before
  <1>12. HostOK(h)'
    BY <1>3, <1>4, <1>6, <1>7, <1>8, <1>10, <1>11
       DEF HostOK, Before, Turning, Owner, Uploading, Looking, Fetching, Ready, Between, Owning,
           Sending, Transit, Full
  <1> QED BY <1>2, <1>6, <1>9, <1>10, <1>12, Becomes

\* The old cache directory is removed.
LEMMA RmtreeInv ==
  ASSUME MountInv, UNCHANGED config, NEW h \in Host, proc[h].pc \in {"rmtree", "fsck cache"},
         NEW then, then = (IF proc[h].pc = "rmtree" THEN "save" ELSE "fsck download"),
         Mounts!Goto(h, then), stale' = stale \ {h}, UNCHANGED <<seqs, object, params, dbfile, changes>>
  PROVE  MountInv'
  <1>1. proc[h].pc \in Fetching /\ proc[h].pc \notin {"off"} \cup Looking BY DEF Fetching, Looking
  <1>2. /\ Shared /\ ProcOK(proc[h]) /\ DOMAIN proc = Host /\ HostOK(h)
        /\ \A g \in Host \ {h} : proc[g].pc = "off"
    BY <1>1, Acting
  <1>3. Quiet(Top) /\ Below(h, Top) /\ Remote.seq_no = Top /\ proc[h].param.seq_no = Top
    BY <1>1, <1>2 DEF HostOK, Before
  <1>4. proc[h].pc = "rmtree" => Full(dbfile[h]) BY <1>2 DEF HostOK, Before
  <1>5. then \in PCs BY DEF PCs, Fetching, Ready
  <1>6. /\ DOMAIN proc' = Host /\ ProcOK(proc'[h]) /\ proc'[h].pc = then
        /\ proc'[h].param = proc[h].param /\ \A g \in Host \ {h} : proc'[g] = proc[g]
    BY <1>1, <1>2, <1>5, GotoIs DEF Transit
  <1>7. Shared' /\ Top' = Top BY <1>2, SharedSame
  <1>8. Quiet(Top)' BY <1>3, <1>7, QuietSame
  <1>9. Remote' = Remote /\ All' = All /\ Below(h, Top)'
    BY <1>3, <1>7 DEF Remote, Mounts!Meta, All, Below
  <1>10. HostOK(h)'
    BY <1>3, <1>4, <1>6, <1>7, <1>8, <1>9
       DEF HostOK, Before, Turning, Owner, Uploading, Looking, Fetching, Ready, Between, Owning,
           Sending, Transit, Full
  <1> QED BY <1>2, <1>6, <1>7, <1>8, <1>10, Becomes

\* A record is not None.
LEMMA NotNone ==
  /\ \A p \in ParamRecord : p # None /\ p.seq_no \in Nat /\ p.needs_fsck \in BOOLEAN
  /\ \A p \in RemoteRecord : p # None
  BY MetadataAssumption DEF ParamRecord, RemoteRecord

\* One field of the parameters is replaced.
LEMMA ParamChanges ==
  ASSUME NEW p \in ParamRecord, NEW n \in Nat, NEW b \in BOOLEAN
  PROVE  /\ [p EXCEPT !.seq_no = n] \in ParamRecord /\ [p EXCEPT !.seq_no = n].seq_no = n
         /\ [p EXCEPT !.needs_fsck = b] \in ParamRecord /\ [p EXCEPT !.needs_fsck = b].seq_no = p.seq_no
  BY DEF ParamRecord

\* The parameters are saved.
LEMMA SaveInv ==
  ASSUME MountInv, UNCHANGED config, NEW h \in Host, Mounts!get_metadata_save(h)
  PROVE  MountInv'
  <1>1. /\ proc[h].pc = "save" /\ Mounts!Goto(h, "dirty") /\ params' = [params EXCEPT ![h] = proc[h].param]
        /\ UNCHANGED <<seqs, object, dbfile, stale, changes>>
    BY DEF Mounts!get_metadata_save, Mounts!At, Mounts!remote, Mounts!save_params
  <1>2. proc[h].pc \in Ready /\ proc[h].pc \notin {"off"} \cup Looking BY <1>1 DEF Ready, Looking
  <1>3. /\ Shared /\ ProcOK(proc[h]) /\ DOMAIN proc = Host /\ HostOK(h)
        /\ \A g \in Host \ {h} : proc[g].pc = "off"
    BY <1>2, Acting
  <1>4. Quiet(Top) /\ proc[h].param.seq_no = Top /\ Full(dbfile[h]) /\ h \notin stale
    BY <1>2, <1>3 DEF HostOK, Before
  <1>5. proc[h].param \in ParamRecord BY <1>2, <1>3 DEF ProcOK
  <1>6. /\ DOMAIN proc' = Host /\ ProcOK(proc'[h]) /\ proc'[h].pc = "dirty"
        /\ proc'[h].param = proc[h].param /\ \A g \in Host \ {h} : proc'[g] = proc[g]
    BY <1>1, <1>2, <1>3, GotoIs DEF PCs, Ready, Transit
  <1>7. params'[h] = proc[h].param /\ \A g \in Host \ {h} : params'[g] = params[g]
    BY <1>1, <1>3 DEF Shared
  <1>8. Top' = Top /\ Remote' = Remote /\ All' = All
    BY <1>1 DEF Top, Mounts!get_seq_no, Remote, Mounts!Meta, All
  <1>9. Shared' BY <1>1, <1>3, <1>4, <1>5, <1>7, <1>8 DEF Shared, Mounts!ObjectNo, Full
  <1>10. Has(h, Top)' BY <1>4, <1>5, <1>7, <1>8, NotNone DEF Has
  <1>11. Quiet(Top)'
    <2>1. Remote' # None /\ Remote'.seq_no <= Top' /\ RemoteLevel(Top)'
      BY <1>4, <1>8 DEF Quiet, RemoteLevel, Full
    <2>2. StaleBehind' BY <1>1, <1>4, <1>7, <1>8 DEF Quiet, StaleBehind, Below
    <2>3. Top \in Nat BY <1>3 DEF Shared
    <2>4. \A g \in Host : AtMost(g, Top)' /\ Level(g, Top)'
      BY <1>1, <1>4, <1>7, <1>8, <2>3 DEF Quiet, AtMost, Level, Has, Full
    <2> QED BY <1>10, <2>1, <2>2, <2>4 DEF Quiet
  <1>12. HostOK(h)'
    BY <1>1, <1>4, <1>6, <1>8, <1>10, <1>11
       DEF HostOK, Before, Turning, Owner, Uploading, Looking, Fetching, Ready, Between, Owning,
           Sending, Transit, Full
  <1> QED BY <1>3, <1>6, <1>9, <1>11, <1>12, Becomes

\* The next number is saved, and then stored in the backend.
LEMMA MarkSaveInv ==
  ASSUME MountInv, UNCHANGED config, NEW h \in Host, Mounts!mark_metadata_save(h)
  PROVE  MountInv'
  <1> DEFINE param == [seq_no |-> proc[h].param.seq_no + 1, needs_fsck |-> TRUE]
  <1>1. /\ proc[h].pc = "dirty" /\ params' = [params EXCEPT ![h] = param]
        /\ proc' = [proc EXCEPT ![h].pc = "mark", ![h].param = param]
        /\ UNCHANGED <<seqs, object, dbfile, stale, changes>>
    BY DEF Mounts!mark_metadata_save, Mounts!mark_metadata_dirty, Mounts!At, Mounts!remote, Mounts!save_params
  <1>2. proc[h].pc \in Ready /\ proc[h].pc \notin {"off"} \cup Looking BY <1>1 DEF Ready, Looking
  <1>3. /\ Shared /\ ProcOK(proc[h]) /\ DOMAIN proc = Host /\ HostOK(h)
        /\ \A g \in Host \ {h} : proc[g].pc = "off"
    BY <1>2, Acting
  <1>4. Quiet(Top) /\ proc[h].param.seq_no = Top /\ Full(dbfile[h]) /\ h \notin stale /\ Top \in Nat
    BY <1>2, <1>3 DEF HostOK, Before, Shared
  <1>5. param \in ParamRecord /\ param.seq_no = Top + 1 BY <1>4 DEF ParamRecord
  <1> HIDE DEF param
  <1>6. DOMAIN proc[h] = Fields BY <1>3 DEF ProcOK
  <1>7. /\ DOMAIN proc' = Host /\ DOMAIN proc'[h] = Fields /\ proc'[h].pc = "mark" /\ proc'[h].param = param
        /\ proc'[h].failsafe = proc[h].failsafe /\ proc'[h].then = proc[h].then /\ proc'[h].sent = proc[h].sent
        /\ \A g \in Host \ {h} : proc'[g] = proc[g]
    BY <1>1, <1>3, <1>6 DEF Fields
  <1>8. ProcOK(proc'[h]) BY <1>1, <1>3, <1>5, <1>7 DEF ProcOK, PCs, Between, Transit
  <1>9. params'[h] = param /\ \A g \in Host \ {h} : params'[g] = params[g]
    BY <1>1, <1>3 DEF Shared
  <1>10. Top' = Top /\ Remote' = Remote /\ All' = All
    BY <1>1 DEF Top, Mounts!get_seq_no, Remote, Mounts!Meta, All
  <1>11. Shared' BY <1>1, <1>3, <1>4, <1>5, <1>9, <1>10 DEF Shared, Mounts!ObjectNo, Full
  <1>12. Has(h, Top + 1)' BY <1>5, <1>9, <1>10, NotNone DEF Has
  <1>13. /\ Remote' # None /\ Remote'.seq_no <= Top' /\ RemoteLevel(Top)'
    BY <1>4, <1>10 DEF Quiet, RemoteLevel, Full
  <1>14. StaleBehind' BY <1>1, <1>4, <1>9, <1>10 DEF Quiet, StaleBehind, Below
  <1>15. \A g \in Host \ {h} : AtMost(g, Top)' /\ Level(g, Top)'
    BY <1>1, <1>4, <1>9, <1>10 DEF Quiet, AtMost, Level, Has, Full
  <1>16. HostOK(h)'
    BY <1>1, <1>4, <1>5, <1>7, <1>10, <1>12, <1>13, <1>14, <1>15
       DEF HostOK, Before, Turning, Owner, Uploading, Looking, Fetching, Ready, Between, Owning,
           Sending, Transit, Full
  <1> QED BY <1>3, <1>7, <1>8, <1>11, <1>16, Becomes DEF Between

\* From here the host owns the number.
LEMMA MarkStoreInv ==
  ASSUME MountInv, UNCHANGED config, NEW h \in Host, Mounts!mark_metadata_store(h)
  PROVE  MountInv'
  <1> DEFINE q == [proc[h].param EXCEPT !.needs_fsck = FALSE]
  <1>1. /\ proc[h].pc = "mark" /\ seqs' = seqs \cup {proc[h].param.seq_no}
        /\ proc' = [proc EXCEPT ![h].pc = "mounted", ![h].param.needs_fsck = FALSE,
                                ![h].changed = FALSE, ![h].sent = FALSE, ![h].failsafe = FALSE]
        /\ UNCHANGED <<object, params, dbfile, stale, changes>>
    BY DEF Mounts!mark_metadata_store, Mounts!At, Mounts!disk
  <1>2. proc[h].pc \in Between /\ proc[h].pc \notin {"off"} \cup Looking BY <1>1 DEF Between, Looking
  <1>3. /\ Shared /\ ProcOK(proc[h]) /\ DOMAIN proc = Host /\ HostOK(h)
        /\ \A g \in Host \ {h} : proc[g].pc = "off"
    BY <1>2, Acting
  <1>4. /\ Has(h, Top + 1) /\ proc[h].param.seq_no = Top + 1 /\ Full(dbfile[h]) /\ h \notin stale /\ Top \in Nat
        /\ Remote # None /\ Remote.seq_no <= Top /\ RemoteLevel(Top) /\ StaleBehind
        /\ \A g \in Host \ {h} : AtMost(g, Top) /\ Level(g, Top)
    BY <1>1, <1>2, <1>3 DEF HostOK, Turning, Shared
  <1>5. proc[h].param \in ParamRecord BY <1>2, <1>3 DEF ProcOK
  <1>6. q \in ParamRecord /\ q.seq_no = Top + 1 BY <1>4, <1>5, ParamChanges
  <1>7. DOMAIN proc[h] = Fields BY <1>3 DEF ProcOK
  <1>8. /\ DOMAIN proc' = Host /\ DOMAIN proc'[h] = Fields /\ proc'[h].pc = "mounted" /\ proc'[h].param = q
        /\ proc'[h].failsafe = FALSE /\ proc'[h].then = proc[h].then
        /\ \A g \in Host \ {h} : proc'[g] = proc[g]
    BY <1>1, <1>3, <1>7 DEF Fields
  <1> HIDE DEF q
  <1>9. ProcOK(proc'[h]) BY <1>1, <1>3, <1>6, <1>8 DEF ProcOK, PCs, Owning, Transit
  <1>10. /\ seqs' \subseteq Nat /\ Top + 1 \in seqs' /\ Top \in seqs' /\ \A s \in seqs' : s <= Top + 1
    BY <1>1, <1>3, <1>4 DEF Shared
  <1>11. Top' = Top + 1 /\ Remote' = Remote /\ All' = All
    BY <1>1, <1>10, TopIs DEF Remote, Mounts!Meta, All
  <1>12. Shared' /\ Top' - 1 \in seqs'
    BY <1>1, <1>3, <1>4, <1>10, <1>11 DEF Shared, Mounts!ObjectNo
  <1>13. Has(h, Top)' BY <1>1, <1>4, <1>11 DEF Has
  <1>14. /\ Remote' # None /\ Remote'.seq_no < Top' /\ RemoteLevel(Top - 1)' /\ StaleBehind'
    <2>1. Remote.seq_no \in Nat BY <1>3, <1>4, ObjectNos DEF Shared, Remote, RemoteRecord
    <2> QED BY <1>1, <1>4, <1>11, <2>1 DEF RemoteLevel, StaleBehind, Below, Full
  <1>15. \A g \in Host \ {h} : /\ Below(g, Top)' /\ Level(g, Top - 1)'
                               /\ g \in stale' => Below(g, Top - 1)'
    <2>1. \A g \in Host : params[g] # None => params[g].seq_no \in Nat BY <1>3 DEF Shared, ParamRecord
    <2>2. Remote.seq_no \in Nat BY <1>3, <1>4, ObjectNos DEF Shared, Remote, RemoteRecord
    <2>3. \A g \in Host \ {h} : Below(g, Top)' /\ Level(g, Top - 1)'
      BY <1>1, <1>4, <1>11, <2>1 DEF AtMost, Below, Level, Has, Full
    <2>4. \A g \in Host \ {h} : g \in stale => Below(g, Top)
      BY <1>4, <2>1, <2>2 DEF StaleBehind, Below
    <2> QED BY <1>1, <1>4, <1>11, <2>3, <2>4 DEF Below
  <1>16. HostOK(h)'
    BY <1>1, <1>4, <1>6, <1>8, <1>10, <1>11, <1>12, <1>13, <1>14, <1>15
       DEF HostOK, Before, Turning, Owner, Uploading, Looking, Fetching, Ready, Between, Owning,
           Sending, Transit, Full
  <1> QED BY <1>3, <1>8, <1>9, <1>12, <1>16, Becomes

-----------------------------------------------------------------------------
\* The host whose number is the highest.
LEMMA Owns ==
  ASSUME MountInv, NEW h \in Host, proc[h].pc \in Owning
  PROVE  /\ Shared /\ TakeTurns /\ HostOK(h) /\ ProcOK(proc[h]) /\ DOMAIN proc = Host
         /\ DOMAIN proc[h] = Fields /\ \A g \in Host \ {h} : proc[g].pc = "off"
         /\ proc[h].pc \notin {"off"} \cup Looking /\ proc[h].param \in ParamRecord
         /\ Has(h, Top) /\ Full(dbfile[h]) /\ h \notin stale
         /\ proc[h].param.seq_no = IF Sending(proc[h]) THEN Top - 1 ELSE Top
         /\ \A g \in Host \ {h} : Below(g, Top) /\ (g \in stale => Below(g, Top - 1))
         /\ Top \in Nat /\ (~Sending(proc[h]) => proc[h].then # "mounted")
  <1>1. proc[h].pc \notin {"off"} \cup Looking BY DEF Owning, Looking
  <1>2. /\ Shared /\ TakeTurns /\ HostOK(h) /\ ProcOK(proc[h]) /\ DOMAIN proc = Host
        /\ \A g \in Host \ {h} : proc[g].pc = "off"
    BY <1>1, Acting
  <1> QED BY <1>1, <1>2 DEF ProcOK, HostOK, Owner, Shared, Sending

\* Requests are served at a mounted file system, also while a task uploads.
LEMMA Serves ==
  ASSUME MountInv, NEW h \in Host, Mounts!Serving(h)
  PROVE  proc[h].pc \in Owning /\ (proc[h].pc = "mounted" \/ Sending(proc[h]))
  <1>1. proc[h].pc # "off" BY DEF Mounts!Serving, Mounts!At
  <1>2. proc[h].then = "mounted" => proc[h].pc \in Transit BY <1>1, Acting DEF ProcOK
  <1> QED BY <1>2 DEF Mounts!Serving, Mounts!At, Owning, Transit, Sending

\* The database changes only at the host that owns the number.
LEMMA ChangeInv ==
  ASSUME MountInv, UNCHANGED config, NEW h \in Host, Mounts!change(h)
  PROVE  MountInv'
  <1>1. /\ changes' = changes + 1 /\ dbfile' = [dbfile EXCEPT ![h] = @ \cup {changes'}]
        /\ proc' = [proc EXCEPT ![h].changed = TRUE] /\ UNCHANGED <<seqs, object, params, stale>>
    BY DEF Mounts!change, Mounts!remote
  <1>2. proc[h].pc \in Owning /\ (proc[h].pc = "mounted" \/ Sending(proc[h])) BY Serves DEF Mounts!change
  <1>3. /\ Shared /\ HostOK(h) /\ ProcOK(proc[h]) /\ DOMAIN proc = Host
        /\ DOMAIN proc[h] = Fields /\ \A g \in Host \ {h} : proc[g].pc = "off"
        /\ Full(dbfile[h])
    BY <1>2, Owns
  <1>4. /\ DOMAIN proc' = Host /\ proc'[h] = [proc[h] EXCEPT !.changed = TRUE]
        /\ \A g \in Host \ {h} : proc'[g] = proc[g]
    BY <1>1, <1>3
  <1>5. /\ DOMAIN proc'[h] = Fields /\ proc'[h].changed /\ proc'[h].changed \in BOOLEAN
        /\ proc'[h].pc = proc[h].pc /\ proc'[h].param = proc[h].param /\ proc'[h].failsafe = proc[h].failsafe
        /\ proc'[h].then = proc[h].then /\ proc'[h].sent = proc[h].sent
        /\ proc'[h].fh = proc[h].fh /\ proc'[h].step = proc[h].step
    BY <1>3, <1>4 DEF Fields
  <1>6. ProcOK(proc'[h]) BY <1>3, <1>5 DEF ProcOK
  <1>7. Full(dbfile[h])' /\ DOMAIN dbfile' = Host /\ \A g \in Host \ {h} : dbfile'[g] = dbfile[g]
    <2>1. dbfile'[h] = dbfile[h] \cup {changes + 1} /\ dbfile[h] \in SUBSET Nat /\ changes \in Nat
      BY <1>1, <1>3 DEF Shared, Full
    <2>2. (1 .. changes) \cup {changes + 1} = 1 .. (changes + 1) BY <2>1
    <2>3. dbfile'[h] \in SUBSET Nat BY <2>1
    <2>4. config.Reuse \/ dbfile'[h] = 1 .. (changes + 1) BY <1>3, <2>1, <2>2 DEF Full, All
    <2> QED BY <1>1, <1>3, <2>3, <2>4 DEF Full, All, Shared
  <1>8. Top' = Top /\ Remote' = Remote BY <1>1 DEF Top, Mounts!get_seq_no, Remote, Mounts!Meta
  <1>9. Shared' BY <1>1, <1>3, <1>7, <1>8 DEF Shared, Mounts!ObjectNo, Full
  <1>10. \A g \in Host, n \in {Top - 1, Top} : Below(g, n)' <=> Below(g, n) BY <1>1 DEF Below
  <1>11. (StaleBehind' <=> StaleBehind) /\ (Has(h, Top)' <=> Has(h, Top))
    BY <1>1, <1>8 DEF Has, StaleBehind, Below
  <1>12. Sending(proc'[h]) <=> Sending(proc[h]) BY <1>5 DEF Sending
  <1>13. Owner(h, Top)'
    BY <1>1, <1>2, <1>3, <1>5, <1>7, <1>8, <1>10, <1>11, <1>12 DEF HostOK, Owner, Owning, Sending, Transit
  <1>14. Uploading(h, Top)'
    BY <1>1, <1>2, <1>3, <1>5, <1>8, <1>11, <1>12 DEF HostOK, Uploading, Dumped, Mounts!New
  <1>15. HostOK(h)'
    BY <1>2, <1>5, <1>13, <1>14
       DEF HostOK, Before, Turning, Looking, Fetching, Ready, Between, Owning
  <1> QED BY <1>3, <1>4, <1>6, <1>9, <1>2, <1>5, <1>15, Becomes DEF Owning

\* An error is met.
LEMMA FailInv ==
  ASSUME MountInv, UNCHANGED config, NEW h \in Host, Mounts!fail(h)
  PROVE  MountInv'
  <1>1. proc' = [proc EXCEPT ![h].failsafe = TRUE] /\ UNCHANGED <<seqs, object, params, dbfile, stale, changes>>
    BY DEF Mounts!fail, Mounts!remote, Mounts!disk
  <1>2. proc[h].pc \in Owning BY Serves DEF Mounts!fail
  <1>3. /\ Shared /\ HostOK(h) /\ ProcOK(proc[h]) /\ DOMAIN proc = Host
        /\ DOMAIN proc[h] = Fields /\ \A g \in Host \ {h} : proc[g].pc = "off"
    BY <1>2, Owns
  <1>4. /\ DOMAIN proc' = Host /\ proc'[h] = [proc[h] EXCEPT !.failsafe = TRUE]
        /\ \A g \in Host \ {h} : proc'[g] = proc[g]
    BY <1>1, <1>3
  <1>5. /\ DOMAIN proc'[h] = Fields /\ proc'[h].failsafe \in BOOLEAN
        /\ proc'[h].pc = proc[h].pc /\ proc'[h].param = proc[h].param /\ proc'[h].changed = proc[h].changed
        /\ proc'[h].then = proc[h].then /\ proc'[h].sent = proc[h].sent
        /\ proc'[h].fh = proc[h].fh /\ proc'[h].step = proc[h].step
    BY <1>3, <1>4 DEF Fields
  <1>6. ProcOK(proc'[h]) BY <1>3, <1>5 DEF ProcOK
  <1>7. Shared' /\ Top' = Top /\ Remote' = Remote /\ All' = All
    BY <1>1, <1>3, SharedSame DEF Remote, All, Mounts!Meta
  <1>8. Owner(h, Top)'
    BY <1>1, <1>3, <1>5, <1>7
       DEF HostOK, Owner, Sending, Has, Below, Level, RemoteLevel, StaleBehind, Full
  <1>9. Uploading(h, Top)'
    BY <1>1, <1>3, <1>5, <1>7
       DEF HostOK, Uploading, Dumped, Sending, StaleBehind, Below, Full, Mounts!New
  <1>10. HostOK(h)'
    BY <1>2, <1>5, <1>8, <1>9 DEF HostOK, Before, Turning, Looking, Fetching, Ready, Between, Owning
  <1> QED BY <1>2, <1>3, <1>4, <1>5, <1>6, <1>7, <1>10, Becomes DEF Owning

\* A task starts to upload what is there, with the number before.
LEMMA UploadTaskInv ==
  ASSUME MountInv, UNCHANGED config, NEW h \in Host, Mounts!upload_task(h)
  PROVE  MountInv'
  <1> DEFINE q == [proc[h].param EXCEPT !.seq_no = proc[h].param.seq_no - 1]
  <1>1. proc[h].pc = "mounted" /\ seqs' = Mounts!Cleaned /\ UNCHANGED <<object, params, dbfile, stale, changes>>
    BY DEF Mounts!upload_task, Mounts!At, Mounts!disk
  <1>2. proc[h].pc \in Owning /\ ~Sending(proc[h]) BY <1>1 DEF Owning, Sending, Transit
  <1>3. /\ Shared /\ TakeTurns /\ HostOK(h) /\ ProcOK(proc[h]) /\ DOMAIN proc = Host
        /\ DOMAIN proc[h] = Fields /\ \A g \in Host \ {h} : proc[g].pc = "off"
        /\ proc[h].param \in ParamRecord /\ Top \in Nat
        /\ Has(h, Top) /\ proc[h].param.seq_no = Top /\ Full(dbfile[h]) /\ h \notin stale
        /\ \A g \in Host \ {h} : Below(g, Top) /\ (g \in stale => Below(g, Top - 1))
    BY <1>2, Owns
  <1>4. Remote # None /\ Remote.seq_no < Top /\ StaleBehind /\ Top - 1 \in seqs
    BY <1>1, <1>2, <1>3 DEF HostOK, Owner
  <1>5. ~Mounts!Newer(h) BY <1>3 DEF Mounts!Newer, Top
  <1>6. Top - 1 \in Nat BY <1>3, <1>4 DEF Shared
  <1>7. q \in ParamRecord /\ q.seq_no = Top - 1 BY <1>3, <1>6, ParamChanges
  <1>8. /\ DOMAIN proc' = Host /\ DOMAIN proc'[h] = Fields /\ proc'[h].pc = "upload" /\ proc'[h].then = "mounted"
        /\ proc'[h].param = q /\ proc'[h].failsafe = proc[h].failsafe /\ proc'[h].changed = FALSE
        /\ proc'[h].sent = TRUE /\ proc'[h].fh = dbfile[h] /\ proc'[h].step = Keep - 1
        /\ \A g \in Host \ {h} : proc'[g] = proc[g]
    BY <1>3, <1>5 DEF Mounts!upload_task, Fields
  <1> HIDE DEF q
  <1>9. ProcOK(proc'[h]) BY <1>3, <1>7, <1>8 DEF ProcOK, PCs, Owning, Transit
  <1>10. /\ seqs' \subseteq Nat /\ Top' = Top /\ Top' \in seqs' /\ (\A s \in seqs' : s <= Top')
         /\ Top - 1 \in seqs'
    BY <1>1, <1>3, <1>4, CleanedKeeps
  <1>11. Shared' BY <1>1, <1>3, <1>10 DEF Shared, Mounts!ObjectNo
  <1>12. Remote' = Remote /\ All' = All BY <1>1 DEF Remote, Mounts!Meta, All
  <1>13. /\ Has(h, Top)' /\ StaleBehind'
         /\ \A g \in Host \ {h} : Below(g, Top)' /\ (g \in stale' => Below(g, Top - 1)')
    BY <1>1, <1>3, <1>4, <1>10, <1>12 DEF Has, StaleBehind, Below
  <1>14. HostOK(h)'
    BY <1>1, <1>3, <1>4, <1>7, <1>8, <1>10, <1>12, <1>13
       DEF HostOK, Before, Turning, Owner, Uploading, Looking, Fetching, Ready, Between, Owning,
           Sending, Transit, Full, Dumped
  <1> QED BY <1>3, <1>8, <1>9, <1>11, <1>14, Becomes

\* Unmounting begins.
LEMMA UnmountInv ==
  ASSUME MountInv, UNCHANGED config, NEW h \in Host, Mounts!unmount(h)
  PROVE  MountInv'
  <1> DEFINE q == [proc[h].param EXCEPT !.needs_fsck = proc[h].failsafe]
             place == IF proc[h].changed THEN "upload" ELSE "unchanged"
  <1>1. proc[h].pc = "mounted" /\ seqs' = Mounts!Cleaned /\ UNCHANGED <<object, params, dbfile, stale, changes>>
    BY DEF Mounts!unmount, Mounts!At, Mounts!disk
  <1>2. proc[h].pc \in Owning /\ ~Sending(proc[h]) BY <1>1 DEF Owning, Sending, Transit
  <1>3. /\ Shared /\ TakeTurns /\ HostOK(h) /\ ProcOK(proc[h]) /\ DOMAIN proc = Host
        /\ DOMAIN proc[h] = Fields /\ \A g \in Host \ {h} : proc[g].pc = "off"
        /\ proc[h].param \in ParamRecord
        /\ Has(h, Top) /\ proc[h].param.seq_no = Top /\ Full(dbfile[h]) /\ h \notin stale
        /\ \A g \in Host \ {h} : Below(g, Top) /\ (g \in stale => Below(g, Top - 1))
    BY <1>2, Owns
  <1>4. /\ Remote # None /\ Remote.seq_no < Top /\ StaleBehind /\ Top - 1 \in seqs
        /\ ~proc[h].changed => RemoteLevel(Top - 1)
    BY <1>1, <1>2, <1>3 DEF HostOK, Owner
  <1>0. ASSUME ~proc[h].changed PROVE \A g \in Host \ {h} : Level(g, Top - 1)
    <2>1. CASE proc[h].sent
      \* No other host has the number before, unless numbers are reused.
      <3>1. CASE config.Reuse BY <1>3, <3>1 DEF Shared, Level, Has, Full
      <3>2. CASE ~config.Reuse
        <4>1. ~Mounts!Reuses(h) BY <3>2 DEF Mounts!unmount, Mounts!Reuse
        <4> QED BY <1>0, <1>3, <2>1, <4>1 DEF Mounts!Reuses, Level, Has
      <3> QED BY <3>1, <3>2
    <2>2. CASE ~proc[h].sent BY <1>0, <1>1, <1>3, <2>2 DEF HostOK, Owner
    <2> QED BY <2>1, <2>2
  <1>5. proc[h].failsafe \in BOOLEAN BY <1>3 DEF ProcOK
  <1>6. q \in ParamRecord /\ q.seq_no = Top BY <1>3, <1>5, ParamChanges
  <1>7. /\ DOMAIN proc' = Host /\ DOMAIN proc'[h] = Fields /\ proc'[h].pc = place
        /\ proc'[h].param = q /\ proc'[h].failsafe = proc[h].failsafe /\ proc'[h].then = "off"
        /\ proc'[h].changed = proc[h].changed /\ proc'[h].fh = dbfile[h] /\ proc'[h].step = Keep - 1
        /\ \A g \in Host \ {h} : proc'[g] = proc[g]
    BY <1>3 DEF Mounts!unmount, Fields, Top
  <1>8. place \in {"upload", "unchanged"} /\ (place = "unchanged" => ~proc[h].changed) OBVIOUS
  <1> HIDE DEF q, place
  <1>9. ProcOK(proc'[h]) BY <1>3, <1>6, <1>7, <1>8 DEF ProcOK, PCs, Owning
  <1>10. /\ seqs' \subseteq Nat /\ Top' = Top /\ Top' \in seqs' /\ \A s \in seqs' : s <= Top'
         /\ Top - 1 \in seqs => Top - 1 \in seqs'
    BY <1>1, <1>3, CleanedKeeps
  <1>11. Shared' BY <1>1, <1>3, <1>10 DEF Shared, Mounts!ObjectNo
  <1>12. Remote' = Remote /\ All' = All BY <1>1 DEF Remote, Mounts!Meta, All
  <1>13. /\ Has(h, Top)' /\ StaleBehind'
         /\ \A g \in Host \ {h} : Below(g, Top)' /\ (g \in stale' => Below(g, Top - 1)')
         /\ ~proc[h].changed => RemoteLevel(Top - 1)' /\ \A g \in Host \ {h} : Level(g, Top - 1)'
    BY <1>0, <1>1, <1>3, <1>4, <1>10, <1>12 DEF Has, StaleBehind, Below, RemoteLevel, Level, Full
  <1>14. HostOK(h)'
    BY <1>1, <1>3, <1>4, <1>6, <1>7, <1>8, <1>10, <1>12, <1>13
       DEF HostOK, Before, Turning, Owner, Uploading, Looking, Fetching, Ready, Between, Owning,
           Sending, Transit, Full, Dumped
  <1> QED BY <1>3, <1>7, <1>8, <1>9, <1>11, <1>14, Becomes

\* The number is given back, because nothing was changed.
LEMMA UnchangedInv ==
  ASSUME MountInv, UNCHANGED config, NEW h \in Host, Mounts!unmount_unchanged(h)
  PROVE  MountInv'
  <1> DEFINE q == [proc[h].param EXCEPT !.seq_no = proc[h].param.seq_no - 1]
  <1>1. /\ proc[h].pc = "unchanged" /\ seqs' = seqs \ {proc[h].param.seq_no}
        /\ proc' = [proc EXCEPT ![h].pc = "released", ![h].param.seq_no = @ - 1]
        /\ UNCHANGED <<object, params, dbfile, stale, changes>>
    BY DEF Mounts!unmount_unchanged, Mounts!At, Mounts!disk
  <1>2. proc[h].pc \in Owning /\ ~Sending(proc[h]) BY <1>1 DEF Owning, Sending, Transit
  <1>3. /\ Shared /\ TakeTurns /\ HostOK(h) /\ ProcOK(proc[h]) /\ DOMAIN proc = Host
        /\ DOMAIN proc[h] = Fields /\ \A g \in Host \ {h} : proc[g].pc = "off"
        /\ proc[h].param \in ParamRecord /\ Top \in Nat
        /\ Has(h, Top) /\ proc[h].param.seq_no = Top /\ Full(dbfile[h]) /\ h \notin stale
        /\ \A g \in Host \ {h} : Below(g, Top)
    BY <1>2, Owns
  <1>4. /\ Remote # None /\ Remote.seq_no < Top /\ StaleBehind
        /\ Top - 1 \in seqs /\ RemoteLevel(Top - 1)
        /\ \A g \in Host \ {h} : Level(g, Top - 1)
    BY <1>1, <1>2, <1>3 DEF HostOK, Owner
  <1>5. Top - 1 \in Nat BY <1>3, <1>4 DEF Shared
  <1>6. q \in ParamRecord /\ q.seq_no = Top - 1 BY <1>3, <1>5, ParamChanges
  <1>7. /\ DOMAIN proc' = Host /\ DOMAIN proc'[h] = Fields /\ proc'[h].pc = "released"
        /\ proc'[h].param = q /\ proc'[h].failsafe = proc[h].failsafe /\ proc'[h].then = proc[h].then /\ proc'[h].sent = proc[h].sent
        /\ \A g \in Host \ {h} : proc'[g] = proc[g]
    BY <1>1, <1>3 DEF Fields
  <1> HIDE DEF q
  <1>8. ProcOK(proc'[h]) BY <1>1, <1>3, <1>6, <1>7 DEF ProcOK, PCs, Between, Transit
  <1>9. /\ seqs' \subseteq Nat /\ Top - 1 \in seqs' /\ \A s \in seqs' : s <= Top - 1
    BY <1>1, <1>3, <1>4 DEF Shared
  <1>10. Top' = Top - 1 BY <1>9, TopIs
  <1>11. Shared' BY <1>1, <1>3, <1>9, <1>10 DEF Shared, Mounts!ObjectNo
  <1>12. Remote' = Remote /\ All' = All BY <1>1 DEF Remote, Mounts!Meta, All
  <1>13. Has(h, Top + 1)' BY <1>1, <1>3, <1>10 DEF Has
  <1>14. Remote' # None /\ Remote'.seq_no <= Top' /\ RemoteLevel(Top)' /\ StaleBehind'
    <2>1. Remote.seq_no \in Nat BY <1>3, <1>4, ObjectNos DEF Shared, Remote, RemoteRecord
    <2> QED BY <1>1, <1>3, <1>4, <1>10, <1>12, <2>1 DEF RemoteLevel, StaleBehind, Below, Full
  <1>15. \A g \in Host \ {h} : AtMost(g, Top)' /\ Level(g, Top)'
    <2>1. \A g \in Host : params[g] # None => params[g].seq_no \in Nat BY <1>3 DEF Shared, ParamRecord
    <2> QED BY <1>1, <1>3, <1>4, <1>10, <1>12, <2>1 DEF AtMost, Below, Level, Has, Full
  <1>16. HostOK(h)'
    BY <1>1, <1>3, <1>6, <1>7, <1>10, <1>12, <1>13, <1>14, <1>15
       DEF HostOK, Before, Turning, Owner, Uploading, Looking, Fetching, Ready, Between, Owning,
           Sending, Transit, Full
  <1> QED BY <1>3, <1>7, <1>8, <1>11, <1>16, Becomes

\* The metadata is stored as a temporary object.
LEMMA UploadInv ==
  ASSUME MountInv, UNCHANGED config, NEW h \in Host, Mounts!upload_metadata(h)
  PROVE  MountInv'
  <1> DEFINE new == [seq_no |-> proc[h].param.seq_no, needs_fsck |-> proc[h].param.needs_fsck,
                     data |-> proc[h].fh]
  <1>1. /\ proc[h].pc = "upload" /\ object' = [object EXCEPT ![Mounts!New] = new]
        /\ Mounts!Goto(h, "cycle") /\ UNCHANGED <<seqs, params, dbfile, stale, changes>>
    BY DEF Mounts!upload_metadata, Mounts!At, Mounts!disk
  <1>2. proc[h].pc \in Owning BY <1>1 DEF Owning
  <1>3. /\ Shared /\ HostOK(h) /\ ProcOK(proc[h]) /\ DOMAIN proc = Host
        /\ \A g \in Host \ {h} : proc[g].pc = "off"
        /\ proc[h].pc \notin {"off"} \cup Looking
        /\ proc[h].param \in ParamRecord /\ Top \in Nat
        /\ proc[h].param.seq_no \in Nat
    BY <1>2, Owns, NotNone
  <1>4. /\ Remote # None /\ Remote.seq_no < Top /\ StaleBehind
        /\ proc[h].fh \in SUBSET Nat /\ Dumped(proc[h], proc[h].fh) /\ proc[h].step = Keep - 1
    BY <1>1, <1>2, <1>3 DEF HostOK, Owner, Uploading
  <1>6. new \in RemoteRecord /\ new.seq_no = proc[h].param.seq_no /\ new.data = proc[h].fh
    BY <1>3, <1>4 DEF ParamRecord, RemoteRecord
  <1> HIDE DEF new
  <1>7. /\ DOMAIN proc' = Host /\ ProcOK(proc'[h]) /\ proc'[h].pc = "cycle"
        /\ proc'[h].param = proc[h].param /\ proc'[h].step = Keep - 1
        /\ proc'[h].changed = proc[h].changed /\ proc'[h].then = proc[h].then /\ proc'[h].fh = proc[h].fh
        /\ \A g \in Host \ {h} : proc'[g] = proc[g]
    BY <1>1, <1>3, <1>4, GotoIs DEF PCs, Owning, Transit
  <1>8. object' \in [Mounts!ObjectNo -> {None} \cup RemoteRecord] BY <1>1, <1>3, <1>6 DEF Shared
  <1>9. Remote' = Remote /\ object'[Mounts!New] = new BY <1>1, <1>3, ObjectNos DEF Remote, Shared
  <1>10. Top' = Top /\ All' = All BY <1>1 DEF Top, Mounts!get_seq_no, All
  <1>11. Shared' BY <1>1, <1>3, <1>8, <1>10 DEF Shared, Mounts!ObjectNo
  <1>12. StaleBehind' BY <1>1, <1>4, <1>9 DEF StaleBehind, Below
  <1>5. (Sending(proc'[h]) <=> Sending(proc[h])) /\ \A d : Dumped(proc[h], d) => Dumped(proc[h], d)'
    BY <1>1, <1>7, <1>10 DEF Sending, Transit, Dumped, Full
  <1>13. Owner(h, Top)'
    BY <1>1, <1>2, <1>3, <1>5, <1>7, <1>10 DEF HostOK, Owner, Owning, Has, Below, Full
  <1>14. Uploading(h, Top)'
    <2>2. Keep - 1 \in -3 .. Keep - 1 /\ Keep - 1 >= -1 BY ObjectNos
    <2>3. new # None BY <1>6, NotNone
    <2> QED BY <1>4, <1>5, <1>6, <1>7, <1>9, <1>10, <1>12, <2>2, <2>3 DEF Uploading, Mounts!New
  <1>15. HostOK(h)'
    BY <1>7, <1>13, <1>14 DEF HostOK, Before, Turning, Looking, Fetching, Ready, Between
  <1> QED BY <1>3, <1>7, <1>11, <1>15, Becomes

\* One object after the other is copied or renamed; the last step of the
\* rotation replaces the metadata.
LEMMA CycleInv ==
  ASSUME MountInv, UNCHANGED config, NEW h \in Host, Mounts!cycle_metadata(h)
  PROVE  MountInv' /\ (Remote # None /\ Remote' # None => Remote'.seq_no >= Remote.seq_no)
  <1> DEFINE i == proc[h].step
             place == IF i = (IF config.NativeRename THEN -2 ELSE -3) THEN "uploaded" ELSE "cycle"
             new == object[Mounts!New]
  <1>1. /\ proc[h].pc = "cycle" /\ UNCHANGED <<seqs, params, dbfile, stale, changes>>
        /\ proc' = [proc EXCEPT ![h].step = i - 1, ![h].pc = place]
        /\ i >= -2 => Mounts!cycle_fn(i, i + 1)
        /\ ~(i >= -2) => object' = [object EXCEPT ![Mounts!New] = None]
    BY DEF Mounts!cycle_metadata, Mounts!At, Mounts!disk, Mounts!New, Mounts!NativeRename
  <1>2. proc[h].pc \in Owning BY <1>1 DEF Owning
  <1>3. /\ Shared /\ HostOK(h) /\ ProcOK(proc[h]) /\ DOMAIN proc = Host /\ DOMAIN proc[h] = Fields
        /\ \A g \in Host \ {h} : proc[g].pc = "off"
        /\ proc[h].pc \notin {"off"} \cup Looking
        /\ proc[h].param \in ParamRecord /\ Top \in Nat
        /\ proc[h].param.seq_no = IF Sending(proc[h]) THEN Top - 1 ELSE Top
    BY <1>2, Owns
  <1>4. /\ i \in -3 .. Keep - 1
        /\ new # None /\ proc[h].fh \in SUBSET Nat /\ Dumped(proc[h], proc[h].fh)
        /\ i >= -2 => new.seq_no = proc[h].param.seq_no /\ Dumped(proc[h], new.data)
        /\ i >= -1 => Remote # None /\ Remote.seq_no < Top /\ StaleBehind
        /\ i = -2 /\ ~config.NativeRename => Remote # None /\ Remote.seq_no < Top /\ StaleBehind
        /\ i = -2 /\ config.NativeRename => Remote = None
        /\ i = -3 => ~config.NativeRename
        /\ i = -3 => Remote # None /\ Remote.seq_no = proc[h].param.seq_no /\ Dumped(proc[h], Remote.data)
    BY <1>1, <1>3 DEF HostOK, Uploading
  <1>5. /\ DOMAIN proc' = Host /\ DOMAIN proc'[h] = Fields /\ proc'[h].pc = place
        /\ proc'[h].param = proc[h].param /\ proc'[h].failsafe = proc[h].failsafe
        /\ proc'[h].then = proc[h].then /\ proc'[h].sent = proc[h].sent /\ proc'[h].step = i - 1
        /\ proc'[h].changed = proc[h].changed /\ proc'[h].fh = proc[h].fh
        /\ \A g \in Host \ {h} : proc'[g] = proc[g]
    BY <1>1, <1>3 DEF Fields
  <1>6. place \in {"uploaded", "cycle"} OBVIOUS
  <1>7. ProcOK(proc'[h]) BY <1>3, <1>5, <1>6 DEF ProcOK, PCs, Owning, Transit
  <1>8. Top' = Top /\ All' = All BY <1>1 DEF Top, Mounts!get_seq_no, All
  <1>9. object \in [Mounts!ObjectNo -> {None} \cup RemoteRecord] BY <1>3 DEF Shared
  <1>10. i \in Int /\ (i >= -2 => i \in Mounts!ObjectNo /\ i + 1 \in Mounts!ObjectNo)
    BY <1>4, ObjectNos
  <1>11. object' \in [Mounts!ObjectNo -> {None} \cup RemoteRecord]
    BY <1>1, <1>9, <1>10 DEF Mounts!cycle_fn
  <1>12. Shared' BY <1>1, <1>3, <1>8, <1>11 DEF Shared, Mounts!ObjectNo
  <1>13. (Sending(proc'[h]) <=> Sending(proc[h])) /\ \A d : Dumped(proc[h], d) => Dumped(proc[h], d)'
    BY <1>1, <1>5, <1>6, <1>8 DEF Sending, Transit, Dumped, Full
  <1>14. i >= 0 => Remote' = Remote /\ new' = new
    <2>1. ASSUME i >= 0
          PROVE  Mounts!cycle_fn(i, i + 1) /\ i # -1 /\ i # -2 /\ i + 1 # -1 /\ i + 1 # -2
      BY <1>1, <1>10, <2>1
    <2>2. /\ Mounts!New = -2 /\ Mounts!Meta = -1
          /\ Mounts!New \in Mounts!ObjectNo /\ Mounts!Meta \in Mounts!ObjectNo
      BY ObjectNos
    <2> HIDE DEF i
    <2> QED BY <1>9, <2>1, <2>2 DEF Mounts!cycle_fn, Remote
  <1>15. i = -1 => new' = new /\ (~config.NativeRename => Remote' = Remote)
                   /\ (config.NativeRename => Remote' = None)
    <2>1. ASSUME i = -1 PROVE object[i] # None /\ Mounts!cycle_fn(-1, 0) /\ 0 \in Mounts!ObjectNo
      BY <1>1, <1>4, <2>1, ObjectNos DEF Remote
    <2> QED BY <1>9, <2>1, ObjectNos DEF Mounts!cycle_fn, Remote, Mounts!NativeRename
  <1>16. i = -2 => Remote' = new /\ (~config.NativeRename => new' = new)
    <2>1. ASSUME i = -2 PROVE Mounts!cycle_fn(-2, -1) /\ object[-2] # None
      BY <1>1, <1>4, <2>1, ObjectNos
    <2> QED BY <1>9, <2>1, ObjectNos DEF Mounts!cycle_fn, Remote, Mounts!NativeRename
  <1>17. i = -3 => Remote' = Remote BY <1>1, <1>9, ObjectNos DEF Remote
  <1>18. Remote # None /\ Remote' # None => Remote'.seq_no >= Remote.seq_no
    <2>1. Remote # None => Remote.seq_no \in Nat BY <1>9, ObjectNos DEF Remote, RemoteRecord
    <2> QED BY <1>3, <1>4, <1>10, <1>14, <1>15, <1>16, <1>17, <2>1
  <1>19. Owner(h, Top)'
    BY <1>1, <1>2, <1>3, <1>5, <1>6, <1>8, <1>13 DEF HostOK, Owner, Owning, Has, Below, Full
  <1>20. StaleBehind /\ Remote' = Remote => StaleBehind' BY <1>1 DEF StaleBehind, Below
  <1>21. Uploading(h, Top)'
    <2> HIDE DEF new, i
    <2>1. place = "cycle" => i - 1 \in -3 .. Keep - 1
      BY <1>4, <1>10, ObjectNos
    <2>2. i \in Int /\ Keep \in Int BY <1>10, ObjectNos
    <2>3. CASE i >= 0
      <3>1. place = "cycle" BY <2>2, <2>3
      <3> HIDE DEF place
      <3> QED BY <1>4, <1>5, <1>8, <1>13, <1>14, <1>20, <2>1, <2>2, <2>3, <3>1 DEF Uploading, new, Mounts!New
    <2>4. CASE i = -1
      <3>1. place = "cycle" BY <2>4
      <3> HIDE DEF place
      <3> QED BY <1>4, <1>5, <1>8, <1>13, <1>15, <1>20, <2>1, <2>4, <3>1 DEF Uploading, new, Mounts!New
    <2>5. CASE i = -2
      <3>1. place = (IF config.NativeRename THEN "uploaded" ELSE "cycle") BY <2>5
      <3> HIDE DEF place
      <3> QED BY <1>4, <1>5, <1>8, <1>13, <1>16, <2>1, <2>5, <3>1 DEF Uploading, new, Mounts!New
    <2>6. CASE i = -3
      <3>1. place = "uploaded" BY <1>4, <2>6
      <3> HIDE DEF place
      <3> QED BY <1>4, <1>5, <1>8, <1>13, <1>17, <2>6, <3>1 DEF Uploading
    <2> QED BY <1>4, <2>2, <2>3, <2>4, <2>5, <2>6
  <1>22. HostOK(h)'
    BY <1>5, <1>6, <1>19, <1>21 DEF HostOK, Before, Turning, Looking, Fetching, Ready, Between
  <1> HIDE DEF place
  <1>23. proc'[h].pc # "off" BY <1>5, <1>6
  <1>24. MountInv' BY <1>3, <1>5, <1>7, <1>12, <1>22, <1>23, Becomes
  <1> QED BY <1>18, <1>24

\* No program takes the new object away from the one that has stored it.
LEMMA CycleFinds ==
  ASSUME MountInv, NEW h \in Host
  PROVE  ~Mounts!cycle_missing(h)
  <1>1. SUFFICES ASSUME proc[h].pc = "cycle" PROVE object[Mounts!New] # None
    BY DEF Mounts!cycle_missing, Mounts!At
  <1> QED BY <1>1, Acting DEF HostOK, Uploading

\* The file system goes on once a task has uploaded.
LEMMA SentInv ==
  ASSUME MountInv, UNCHANGED config, NEW h \in Host, Mounts!uploaded(h), proc[h].then = "mounted"
  PROVE  MountInv'
  <1> DEFINE q == [proc[h].param EXCEPT !.seq_no = proc[h].param.seq_no + 1]
  <1>1. /\ proc[h].pc \in {"uploaded", "released"} /\ UNCHANGED <<seqs, object, params, dbfile, stale, changes>>
        /\ proc' = [proc EXCEPT ![h].pc = "mounted", ![h].then = "off", ![h].param.seq_no = @ + 1]
    BY DEF Mounts!uploaded, Mounts!remote
  <1>2. proc[h].pc = "uploaded" /\ proc[h].pc \in Owning /\ Sending(proc[h]) /\ proc[h].sent
    <2>1. proc[h].pc # "off" BY <1>1
    <2>2. ProcOK(proc[h]) BY <2>1, Acting
    <2> QED BY <1>1, <2>2 DEF ProcOK, Transit, Owning, Sending
  <1>3. /\ Shared /\ HostOK(h) /\ ProcOK(proc[h]) /\ DOMAIN proc = Host /\ DOMAIN proc[h] = Fields
        /\ \A g \in Host \ {h} : proc[g].pc = "off"
        /\ proc[h].param \in ParamRecord /\ Top \in Nat
        /\ Has(h, Top) /\ proc[h].param.seq_no = Top - 1 /\ Full(dbfile[h]) /\ h \notin stale
        /\ \A g \in Host \ {h} : Below(g, Top) /\ (g \in stale => Below(g, Top - 1))
    BY <1>2, Owns
  <1>4. Remote # None /\ Remote.seq_no = Top - 1 /\ Dumped(proc[h], Remote.data) /\ Top - 1 \in seqs
    BY <1>2, <1>3 DEF HostOK, Owner, Uploading
  <1>5. q \in ParamRecord /\ q.seq_no = Top
    <2>1. proc[h].param.seq_no + 1 = Top BY <1>3
    <2> QED BY <1>3, <2>1, ParamChanges
  <1>6. /\ DOMAIN proc' = Host /\ DOMAIN proc'[h] = Fields /\ proc'[h].pc = "mounted" /\ proc'[h].then = "off"
        /\ proc'[h].param = q /\ proc'[h].failsafe = proc[h].failsafe
        /\ proc'[h].changed = proc[h].changed /\ proc'[h].sent = proc[h].sent
        /\ \A g \in Host \ {h} : proc'[g] = proc[g]
    BY <1>1, <1>3 DEF Fields
  <1> HIDE DEF q
  <1>7. ProcOK(proc'[h]) BY <1>3, <1>5, <1>6 DEF ProcOK, PCs, Owning
  <1>8. Shared' /\ Top' = Top /\ Remote' = Remote /\ All' = All
    BY <1>1, <1>3, SharedSame DEF Remote, All, Mounts!Meta
  <1>9. /\ Has(h, Top)' /\ \A g \in Host \ {h} : Below(g, Top)' /\ (g \in stale' => Below(g, Top - 1)')
    BY <1>1, <1>3, <1>8 DEF Has, Below
  <1>10. StaleBehind' /\ Remote'.seq_no < Top'
    BY <1>1, <1>3, <1>4, <1>8 DEF StaleBehind, Below
  <1>11. ~proc[h].changed => RemoteLevel(Top - 1)'
    BY <1>4, <1>8 DEF RemoteLevel, Dumped, Full
  <1>12. HostOK(h)'
    BY <1>1, <1>2, <1>3, <1>4, <1>5, <1>6, <1>8, <1>9, <1>10, <1>11
       DEF HostOK, Before, Turning, Owner, Uploading, Looking, Fetching, Ready, Between, Owning,
           Sending, Transit, Full
  <1> QED BY <1>3, <1>6, <1>7, <1>8, <1>12, Becomes

\* The parameters are saved, and the program ends.
LEMMA UploadedInv ==
  ASSUME MountInv, UNCHANGED config, NEW h \in Host, Mounts!uploaded(h), proc[h].then # "mounted"
  PROVE  MountInv'
  <1>1. proc[h].pc \in {"uploaded", "released"} /\ UNCHANGED <<seqs, object, dbfile, stale, changes>>
    BY DEF Mounts!uploaded, Mounts!remote
  <1>2. proc[h].pc \notin {"off"} \cup Looking BY <1>1 DEF Looking
  <1>3. /\ Shared /\ HostOK(h) /\ ProcOK(proc[h]) /\ DOMAIN proc = Host
        /\ \A g \in Host \ {h} : proc[g].pc = "off"
    BY <1>2, Acting
  <1>4. proc[h].param \in ParamRecord BY <1>2, <1>3 DEF ProcOK
  <1>5. Mounts!Exit(h) /\ params' = [params EXCEPT ![h] = proc[h].param]
    BY DEF Mounts!uploaded, Mounts!save_params
  <1>6. params'[h] = proc[h].param /\ \A g \in Host \ {h} : params'[g] = params[g]
    BY <1>3, <1>5 DEF Shared
  <1>7. Top' = Top /\ Remote' = Remote /\ All' = All
    BY <1>1 DEF Top, Mounts!get_seq_no, Remote, Mounts!Meta, All
  <1>9. /\ proc[h].param.seq_no = Top /\ Full(dbfile[h]) /\ h \notin stale
        /\ Remote # None /\ Remote.seq_no <= Top /\ RemoteLevel(Top)
        /\ \A g \in Host \ {h} : AtMost(g, Top) /\ Level(g, Top)
        /\ \A g \in Host \ {h} : g \in stale => Below(g, Remote.seq_no)
    <2>1. CASE proc[h].pc = "released"
      BY <1>3, <2>1 DEF HostOK, Turning, Between, StaleBehind
    <2>2. CASE proc[h].pc = "uploaded"
      <3>1. proc[h].pc \in Owning /\ ~Sending(proc[h]) BY <2>2 DEF Owning, Sending
      <3>2. /\ Top \in Nat /\ proc[h].param.seq_no = Top /\ Full(dbfile[h]) /\ h \notin stale
            /\ \A g \in Host \ {h} : Below(g, Top)
        BY <3>1, Owns
      <3>3. Remote # None /\ Remote.seq_no = Top /\ Full(Remote.data)
        BY <1>3, <2>2, <3>1, <3>2 DEF HostOK, Uploading, Dumped
      <3>4. \A g \in Host : params[g] # None => params[g].seq_no \in Nat BY <1>3 DEF Shared, ParamRecord
      <3> QED BY <3>2, <3>3, <3>4 DEF AtMost, Level, Has, Below, RemoteLevel
    <2> QED BY <1>1, <2>1, <2>2
  <1>8. Shared' BY <1>1, <1>3, <1>4, <1>6, <1>5, <1>7, <1>9 DEF Shared, Mounts!ObjectNo, Full
  <1>10. Top \in Nat BY <1>3 DEF Shared
  <1>11. Quiet(Top)'
    <2>1. Has(h, Top)' BY <1>4, <1>6, <1>7, <1>9, NotNone DEF Has
    <2>2. Remote' # None /\ Remote'.seq_no <= Top' /\ RemoteLevel(Top)'
      BY <1>7, <1>9 DEF RemoteLevel, Full
    <2>3. StaleBehind' BY <1>1, <1>6, <1>7, <1>9 DEF StaleBehind, Below
    <2>4. \A g \in Host : AtMost(g, Top)' /\ Level(g, Top)'
      BY <1>1, <1>6, <1>7, <1>9, <1>10 DEF AtMost, Level, Has, Full
    <2> QED BY <2>1, <2>2, <2>3, <2>4 DEF Quiet
  <1> QED BY <1>2, <1>5, <1>8, <1>11, ExitInv

-----------------------------------------------------------------------------
(* fsck.s3ql                                                               *)

\* Two numbers with none between.
LEMMA Tight ==
  ASSUME NEW a \in Nat, NEW b \in Nat
  PROVE  /\ a <= b => a < b + 1 /\ a <= b + 1
         /\ a <= b /\ ~(a < b) => a = b
  OBVIOUS

\* fsck uses local metadata that is up to date, or fetches the remote one.
LEMMA FsckInv ==
  ASSUME MountInv, UNCHANGED config, NEW h \in Host, Mounts!fsck(h)
  PROVE  MountInv'
  <1>1. proc[h].pc = "fsck" BY DEF Mounts!fsck, Mounts!At
  <1>2. proc[h].pc \in Looking /\ proc[h].pc # "off" BY <1>1 DEF Looking
  <1>3. /\ Shared /\ TakeTurns /\ ProcOK(proc[h]) /\ DOMAIN proc = Host
        /\ \A g \in Host \ {h} : proc[g].pc = "off"
    BY <1>2, Acting
  <1>4. UNCHANGED <<seqs, object, params, dbfile, stale, changes>>
    BY DEF Mounts!fsck, Mounts!remote, Mounts!disk
  <1>5. Quiet(Top) BY <1>2, Looks
  <1>6. Shared' /\ Top' = Top BY <1>3, <1>4, SharedSame
  <1>7. Quiet(Top)' BY <1>4, <1>5, <1>6, QuietSame
  <1> DEFINE seq_no == proc[h].seq_no
             local == params[h] # None /\ params[h].seq_no >= seq_no
             base == IF local THEN params[h]
                     ELSE [seq_no |-> Remote.seq_no, needs_fsck |-> Remote.needs_fsck]
             unclean == \/ base.seq_no # seq_no
                        \/ params[h] # None /\ Remote # None /\ Remote.seq_no # base.seq_no
             param == [seq_no |-> Mounts!Max({base.seq_no, seq_no}),
                       needs_fsck |-> base.needs_fsck \/ unclean]
  <1>8. CASE Mounts!Exit(h) BY <1>2, <1>6, <1>7, <1>8, ExitInv
  <1>9. CASE ~Mounts!Exit(h)
    <2>1. /\ proc' = [proc EXCEPT ![h].param = param, ![h].local = local,
                                  ![h].pc = IF local THEN "fsck store" ELSE "fsck cache"]
          /\ ~(base.seq_no < seq_no)
      <3>1. Mounts!meta_obj_name = Mounts!Meta /\ object[Mounts!Meta] # None
        BY <1>2, <1>5, Looks DEF Quiet, Remote
      <3> QED BY <1>3, <1>9, <3>1 DEF Mounts!fsck, Remote, TakeTurns, Mounts!Forced
    <2>2. base.seq_no = Top
      <3>1. CASE local BY <1>2, <3>1, Looks
      <3>2. CASE ~local
        <4>1. base.seq_no = Remote.seq_no BY <3>2
        <4>2. Remote.seq_no <= Top BY <1>5 DEF Quiet
        <4>3. Remote.seq_no \in Nat /\ Top \in Nat /\ seq_no = Top BY <1>2, Looks
        <4>4. ~(Remote.seq_no < Top) BY <2>1, <4>1, <4>3
        <4>5. Remote.seq_no = Top BY <4>2, <4>3, <4>4, Tight
        <4> QED BY <4>1, <4>5
      <3> QED BY <3>1, <3>2
    <2>3. Mounts!Max({base.seq_no, seq_no}) = Top
      <3>1. {base.seq_no, seq_no} = {Top} /\ Top \in Nat BY <1>2, <2>2, Looks
      <3> HIDE DEF base, seq_no
      <3> QED BY <3>1, MaxIs
    <2>4. param.seq_no = Top BY <2>3
    <2>5. param \in ParamRecord
      <3>1. Top \in Nat BY <1>2, Looks
      <3>2. (base.needs_fsck \/ unclean) \in BOOLEAN OBVIOUS
      <3> HIDE DEF base, unclean, seq_no
      <3> QED BY <2>3, <3>1, <3>2 DEF ParamRecord
    <2>6. local => params[h] # None /\ params[h].seq_no = Top BY <2>2
    <2>7. ~local => Remote.seq_no = Top BY <2>2
    <2>8. ~local => Below(h, Top) BY <1>2, Looks DEF Below
    <2> HIDE DEF param, local, base, unclean, seq_no
    <2>9. DOMAIN proc[h] = Fields BY <1>3 DEF ProcOK
    <2>10. /\ DOMAIN proc' = Host /\ DOMAIN proc'[h] = Fields
           /\ proc'[h].pc = (IF local THEN "fsck store" ELSE "fsck cache") /\ proc'[h].param = param
           /\ proc'[h].failsafe = proc[h].failsafe /\ proc'[h].then = proc[h].then /\ proc'[h].sent = proc[h].sent
           /\ \A g \in Host \ {h} : proc'[g] = proc[g]
      BY <1>3, <2>1, <2>9 DEF Fields
    <2>11. ProcOK(proc'[h]) BY <1>1, <1>3, <2>5, <2>10 DEF ProcOK, PCs, Ready, Fetching, Transit
    <2>12. CASE local
      <3>1. Full(dbfile[h]) /\ h \notin stale
        BY <1>2, <1>5, <2>6, <2>12, Looks DEF Quiet, StaleBehind, Below
      <3>2. HostOK(h)'
        BY <1>4, <1>6, <1>7, <2>4, <2>10, <2>12, <3>1
           DEF HostOK, Before, Turning, Owner, Uploading, Looking, Fetching, Ready, Between, Owning,
           Sending, Transit, Full, All
      <3> QED BY <1>3, <1>6, <1>7, <2>10, <2>11, <3>2, Becomes
    <2>13. CASE ~local
      <3>1. HostOK(h)'
        BY <1>4, <1>6, <1>7, <2>4, <2>7, <2>8, <2>10, <2>13
           DEF HostOK, Before, Turning, Owner, Uploading, Looking, Fetching, Ready, Between, Owning,
           Sending, Transit, Full, All,
               Below, Remote, Mounts!Meta
      <3> QED BY <1>3, <1>6, <1>7, <2>10, <2>11, <3>1, Becomes
    <2> QED BY <2>12, <2>13
  <1> QED BY <1>8, <1>9

\* The next number is stored in the backend, and then saved.
LEMMA FsckStoreInv ==
  ASSUME MountInv, UNCHANGED config, NEW h \in Host, Mounts!fsck_store(h)
  PROVE  MountInv'
  <1> DEFINE n == proc[h].param.seq_no + 1
             p == [proc[h].param EXCEPT !.seq_no = n]
             q == [p EXCEPT !.needs_fsck = TRUE]
  <1>1. /\ proc[h].pc = "fsck store" /\ seqs' = seqs \cup {n}
        /\ proc' = [proc EXCEPT ![h].pc = "fsck save", ![h].param.seq_no = @ + 1,
                                ![h].param.needs_fsck = TRUE]
        /\ UNCHANGED <<object, params, dbfile, stale, changes>>
    BY DEF Mounts!fsck_store, Mounts!At, Mounts!disk
  <1>2. proc[h].pc \in Ready /\ proc[h].pc \notin {"off"} \cup Looking BY <1>1 DEF Ready, Looking
  <1>3. /\ Shared /\ ProcOK(proc[h]) /\ DOMAIN proc = Host /\ HostOK(h)
        /\ \A g \in Host \ {h} : proc[g].pc = "off"
    BY <1>2, Acting
  <1>4. Quiet(Top) /\ proc[h].param.seq_no = Top /\ Full(dbfile[h]) /\ h \notin stale /\ Top \in Nat
    BY <1>2, <1>3 DEF HostOK, Before, Shared
  <1>5. proc[h].param \in ParamRecord BY <1>2, <1>3 DEF ProcOK
  <1>6. n \in Nat /\ n = Top + 1 BY <1>4
  <1>7. p \in ParamRecord /\ p.seq_no = n BY <1>5, <1>6, ParamChanges
  <1>8. q \in ParamRecord /\ q.seq_no = n
    <2> HIDE DEF p, n
    <2> QED BY <1>7, ParamChanges
  <1>9. DOMAIN proc[h] = Fields BY <1>3 DEF ProcOK
  <1>10. /\ DOMAIN proc' = Host /\ DOMAIN proc'[h] = Fields /\ proc'[h].pc = "fsck save"
         /\ proc'[h].param = q /\ proc'[h].failsafe = proc[h].failsafe /\ proc'[h].then = proc[h].then /\ proc'[h].sent = proc[h].sent
         /\ \A g \in Host \ {h} : proc'[g] = proc[g]
    BY <1>1, <1>3, <1>9 DEF Fields
  <1> HIDE DEF q, p, n
  <1>11. ProcOK(proc'[h]) BY <1>1, <1>3, <1>8, <1>10 DEF ProcOK, PCs, Transit
  <1>12. seqs' \subseteq Nat /\ n \in seqs' /\ \A s \in seqs' : s <= n
    <2>1. seqs \subseteq Nat /\ \A s \in seqs : s <= Top BY <1>3 DEF Shared
    <2>2. \A s \in seqs : s <= n BY <1>4, <1>6, <2>1, Tight
    <2>3. n <= n BY <1>6
    <2> QED BY <1>1, <1>6, <2>1, <2>2, <2>3
  <1>13. Top' = n /\ Remote' = Remote /\ All' = All
    BY <1>1, <1>12, TopIs DEF Remote, Mounts!Meta, All
  <1>14. Shared' BY <1>1, <1>3, <1>12, <1>13 DEF Shared, Mounts!ObjectNo
  <1>15. Remote' # None /\ Remote'.seq_no < Top' /\ StaleBehind'
    <2>1. Remote.seq_no \in Nat
      <3>1. Remote # None BY <1>4 DEF Quiet
      <3> QED BY <1>3, <3>1, ObjectNos DEF Shared, Remote, RemoteRecord
    <2>2. Remote # None /\ Remote.seq_no <= Top /\ StaleBehind BY <1>4 DEF Quiet
    <2>3. Remote.seq_no < Top' BY <1>4, <1>6, <1>13, <2>1, <2>2, Tight
    <2>4. StaleBehind' BY <1>1, <1>13, <2>2 DEF StaleBehind, Below
    <2> QED BY <1>13, <2>2, <2>3, <2>4
  <1>16. \A g \in Host : Below(g, Top)'
    <2>1. \A g \in Host : params[g] # None => params[g].seq_no \in Nat BY <1>3 DEF Shared, ParamRecord
    <2>2. \A g \in Host : params[g] # None => params[g].seq_no <= Top BY <1>4 DEF Quiet, AtMost
    <2>3. \A g \in Host : params[g] # None => params[g].seq_no < Top'
      BY <1>4, <1>6, <1>13, <2>1, <2>2, Tight
    <2> QED BY <1>1, <2>3 DEF Below
  <1>17. HostOK(h)'
    BY <1>1, <1>4, <1>8, <1>10, <1>13, <1>15, <1>16
       DEF HostOK, Before, Turning, Owner, Uploading, Looking, Fetching, Ready, Between, Owning,
           Sending, Transit, Full
  <1> QED BY <1>3, <1>10, <1>11, <1>14, <1>17, Becomes

\* From here fsck owns the number.
LEMMA FsckSaveInv ==
  ASSUME MountInv, UNCHANGED config, NEW h \in Host, Mounts!fsck_save(h)
  PROVE  MountInv'
  <1>1. /\ proc[h].pc = "fsck save" /\ Mounts!Goto(h, "fsck check")
        /\ params' = [params EXCEPT ![h] = proc[h].param]
        /\ UNCHANGED <<seqs, object, dbfile, stale, changes>>
    BY DEF Mounts!fsck_save, Mounts!At, Mounts!remote, Mounts!save_params
  <1>2. proc[h].pc \notin {"off"} \cup Looking BY <1>1 DEF Looking
  <1>3. /\ Shared /\ ProcOK(proc[h]) /\ DOMAIN proc = Host /\ HostOK(h)
        /\ \A g \in Host \ {h} : proc[g].pc = "off"
    BY <1>2, Acting
  <1>4. /\ proc[h].param.seq_no = Top /\ Full(dbfile[h]) /\ h \notin stale
        /\ Remote # None /\ Remote.seq_no < Top /\ StaleBehind
        /\ \A g \in Host : Below(g, Top)
    BY <1>1, <1>3 DEF HostOK, Turning
  <1>5. proc[h].param \in ParamRecord BY <1>2, <1>3 DEF ProcOK
  <1>6. /\ DOMAIN proc' = Host /\ ProcOK(proc'[h]) /\ proc'[h].pc = "fsck check"
        /\ proc'[h].param = proc[h].param /\ \A g \in Host \ {h} : proc'[g] = proc[g]
    BY <1>1, <1>2, <1>3, GotoIs DEF PCs, Owning, Transit
  <1>7. params'[h] = proc[h].param /\ \A g \in Host \ {h} : params'[g] = params[g]
    BY <1>1, <1>3 DEF Shared
  <1>8. Top' = Top /\ Remote' = Remote /\ All' = All
    BY <1>1 DEF Top, Mounts!get_seq_no, Remote, Mounts!Meta, All
  <1>9. Shared' BY <1>1, <1>3, <1>4, <1>5, <1>7, <1>8 DEF Shared, Mounts!ObjectNo, Full
  <1>10. Has(h, Top)' BY <1>4, <1>5, <1>7, <1>8, NotNone DEF Has
  <1>11. StaleBehind' /\ \A g \in Host \ {h} : Below(g, Top)' /\ (g \in stale' => Below(g, Top - 1)')
    <2>1. \A g \in Host : params[g] # None => params[g].seq_no \in Nat BY <1>3 DEF Shared, ParamRecord
    <2>2. Remote.seq_no \in Nat /\ Top \in Nat BY <1>3, <1>4, ObjectNos DEF Shared, Remote, RemoteRecord
    <2>3. StaleBehind' /\ \A g \in Host \ {h} : Below(g, Top)'
      BY <1>1, <1>4, <1>7, <1>8 DEF StaleBehind, Below
    <2>4. \A g \in Host : g \in stale => Below(g, Top - 1)
      BY <1>4, <2>1, <2>2 DEF StaleBehind, Below
    <2>5. \A g \in Host \ {h} : g \in stale' => Below(g, Top - 1)' BY <1>1, <1>7, <1>8, <2>4 DEF Below
    <2> QED BY <2>3, <2>5
  <1>12. HostOK(h)'
    BY <1>1, <1>4, <1>6, <1>8, <1>10, <1>11
       DEF HostOK, Before, Turning, Owner, Uploading, Looking, Fetching, Ready, Between, Owning,
           Sending, Transit, Full
  <1> QED BY <1>3, <1>6, <1>9, <1>12, Becomes

\* A host that has the highest number may die or give up.
LEMMA OwnerQuiet ==
  ASSUME MountInv, NEW h \in Host, proc[h].pc \in Owning,
         proc[h].pc = "cycle" => ~config.NativeRename
  PROVE  Quiet(Top)
  <1>1. /\ Shared /\ HostOK(h) /\ Has(h, Top) /\ Full(dbfile[h]) /\ h \notin stale /\ Top \in Nat
        /\ \A g \in Host \ {h} : Below(g, Top) /\ (g \in stale => Below(g, Top - 1))
        /\ proc[h].param.seq_no = IF Sending(proc[h]) THEN Top - 1 ELSE Top
    BY Owns
  <1>2. \A g \in Host : params[g] # None => params[g].seq_no \in Nat BY <1>1 DEF Shared, ParamRecord
  <1>3. \A g \in Host : AtMost(g, Top) /\ Level(g, Top)
    BY <1>1, <1>2 DEF AtMost, Level, Has, Below
  <1>4. CASE Remote # None /\ Remote.seq_no < Top /\ StaleBehind
    <2>1. Remote.seq_no \in Nat BY <1>1, <1>4, ObjectNos DEF Shared, Remote, RemoteRecord
    <2> QED BY <1>1, <1>3, <1>4, <2>1 DEF Quiet, RemoteLevel
  <1>5. CASE Remote # None /\ Remote.seq_no = proc[h].param.seq_no /\ Dumped(proc[h], Remote.data)
    BY <1>1, <1>2, <1>3, <1>5 DEF Quiet, RemoteLevel, StaleBehind, Below, Dumped
  <1>6. CASE proc[h].pc \in Owning \ {"cycle", "uploaded"} BY <1>1, <1>4, <1>6 DEF HostOK, Owner
  <1>7. CASE proc[h].pc = "uploaded" BY <1>1, <1>5, <1>7 DEF HostOK, Uploading
  <1>8. CASE proc[h].pc = "cycle"
    <2>1. proc[h].step \in -3 .. Keep - 1 BY <1>1, <1>8 DEF HostOK, Uploading
    <2>2. proc[h].step >= -1 \/ proc[h].step = -2 \/ proc[h].step = -3 BY <2>1, ObjectNos
    <2>3. CASE proc[h].step >= -1 BY <1>1, <1>4, <1>8, <2>3 DEF HostOK, Uploading
    <2>4. CASE proc[h].step = -2 BY <1>1, <1>4, <1>8, <2>4 DEF HostOK, Uploading
    <2>5. CASE proc[h].step = -3 BY <1>1, <1>5, <1>8, <2>5 DEF HostOK, Uploading
    <2> QED BY <2>2, <2>3, <2>4, <2>5
  <1> QED BY <1>6, <1>7, <1>8

\* The repaired metadata is uploaded, or fsck gives up.
LEMMA FsckCheckInv ==
  ASSUME MountInv, UNCHANGED config, NEW h \in Host, Mounts!fsck_check(h)
  PROVE  MountInv'
  <1> DEFINE q == [proc[h].param EXCEPT !.needs_fsck = FALSE]
  <1>1. proc[h].pc = "fsck check" /\ UNCHANGED <<seqs, object, params, dbfile, stale, changes>>
    BY DEF Mounts!fsck_check, Mounts!At, Mounts!remote, Mounts!disk
  <1>2. proc[h].pc \in Owning /\ ~Sending(proc[h]) BY <1>1 DEF Owning, Sending, Transit
  <1>3. /\ Shared /\ HostOK(h) /\ ProcOK(proc[h]) /\ DOMAIN proc = Host
        /\ DOMAIN proc[h] = Fields /\ \A g \in Host \ {h} : proc[g].pc = "off"
        /\ proc[h].pc \notin {"off"} \cup Looking /\ proc[h].param \in ParamRecord
        /\ Has(h, Top) /\ proc[h].param.seq_no = Top /\ Full(dbfile[h]) /\ h \notin stale
        /\ \A g \in Host \ {h} : Below(g, Top) /\ (g \in stale => Below(g, Top - 1))
    BY <1>2, Owns
  <1>4. Remote # None /\ Remote.seq_no < Top /\ StaleBehind BY <1>1, <1>2, <1>3 DEF HostOK, Owner
  <1>5. Shared' /\ Top' = Top BY <1>1, <1>3, SharedSame
  <1>6. CASE Mounts!Exit(h)
    <2>1. Quiet(Top) BY <1>1, <1>2, OwnerQuiet
    <2>2. Quiet(Top)' BY <1>1, <1>5, <2>1, QuietSame
    <2> QED BY <1>3, <1>5, <1>6, <2>2, ExitInv
  <1>7. CASE ~Mounts!Exit(h)
    <2>1. proc' = [proc EXCEPT ![h].pc = "upload", ![h].then = "fsck", ![h].fh = dbfile[h],
                               ![h].param.needs_fsck = FALSE, ![h].step = Keep - 1]
      BY <1>7 DEF Mounts!fsck_check
    <2>2. q \in ParamRecord /\ q.seq_no = Top BY <1>3, ParamChanges
    <2>3. /\ DOMAIN proc' = Host /\ DOMAIN proc'[h] = Fields /\ proc'[h].pc = "upload" /\ proc'[h].param = q
          /\ proc'[h].failsafe = proc[h].failsafe /\ proc'[h].then = "fsck"
          /\ proc'[h].fh = dbfile[h] /\ proc'[h].step = Keep - 1
          /\ \A g \in Host \ {h} : proc'[g] = proc[g]
      BY <1>3, <2>1 DEF Fields
    <2> HIDE DEF q
    <2>4. ProcOK(proc'[h]) BY <1>3, <2>2, <2>3 DEF ProcOK, PCs, Owning
    <2>5. HostOK(h)'
      BY <1>1, <1>3, <1>4, <1>5, <2>2, <2>3
         DEF HostOK, Before, Turning, Owner, Uploading, Looking, Fetching, Ready, Between, Owning,
           Sending, Transit, Full, Dumped,
             Has, Below, StaleBehind, Remote, All, Mounts!Meta
    <2> QED BY <1>3, <1>5, <2>3, <2>4, <2>5, Becomes
  <1> QED BY <1>6, <1>7

\* A program dies.
LEMMA CrashInv ==
  ASSUME MountInv, UNCHANGED config, NEW h \in Host, Mounts!crash(h)
  PROVE  MountInv'
  <1>1. /\ proc[h].pc \in config.CrashAt /\ Mounts!Exit(h)
        /\ UNCHANGED <<seqs, object, params, dbfile, stale, changes>>
    BY DEF Mounts!crash, Mounts!CrashAt, Mounts!remote, Mounts!disk
  <1>2. proc[h].pc \in CrashPlaces /\ (proc[h].pc = "cycle" => ~config.NativeRename)
    BY <1>1 DEF MountInv, TakeTurns
  <1>3. proc[h].pc # "off" BY <1>2 DEF CrashPlaces
  <1>4. Shared /\ HostOK(h) BY <1>3, Acting
  <1>5. Quiet(Top)
    <2>1. CASE proc[h].pc \in Owning BY <1>2, <2>1, OwnerQuiet
    <2>2. CASE proc[h].pc \in Looking \cup Fetching \cup Ready BY <1>4, <2>2 DEF HostOK, Before
    <2> QED BY <1>2, <2>1, <2>2 DEF CrashPlaces, Owning, Looking, Fetching, Ready
  <1>6. Shared' /\ Top' = Top BY <1>1, <1>4, SharedSame
  <1>7. Quiet(Top)' BY <1>1, <1>5, <1>6, QuietSame
  <1> QED BY <1>1, <1>3, <1>6, <1>7, ExitInv

-----------------------------------------------------------------------------
(* All steps.                                                              *)

\* Most steps leave the objects alone.
LEMMA SameRemote ==
  ASSUME MountInv, UNCHANGED object
  PROVE  Mounts!NoOlder
  <1>1. object[Mounts!Meta] # None => object[Mounts!Meta].seq_no \in Nat
    BY ObjectNos DEF MountInv, Shared, RemoteRecord
  <1> QED BY <1>1 DEF Mounts!NoOlder

\* Only the temporary object is stored.
LEMMA UploadNoOlder ==
  ASSUME MountInv, NEW h \in Host, Mounts!upload_metadata(h)
  PROVE  Mounts!NoOlder
  <1>1. object'[Mounts!Meta] = object[Mounts!Meta]
    BY ObjectNos DEF Mounts!upload_metadata, MountInv, Shared
  <1>2. object[Mounts!Meta] # None => object[Mounts!Meta].seq_no \in Nat
    BY ObjectNos DEF MountInv, Shared, RemoteRecord
  <1> QED BY <1>1, <1>2 DEF Mounts!NoOlder

\* One case per action.
LEMMA HostStepKeeps ==
  ASSUME MountInv, UNCHANGED config, NEW h \in Host, Mounts!HostStep(h)
  PROVE  MountInv' /\ Mounts!NoOlder
  <1> USE DEF Mounts!remote, Mounts!disk
  <1>1. ASSUME NEW program \in Looking, Mounts!start(h, program) PROVE MountInv' /\ Mounts!NoOlder
    BY <1>1, StartInv, SameRemote DEF Mounts!start
  <1>2. CASE Mounts!get_metadata(h)
    BY <1>2, GetMetadataInv, SameRemote DEF Mounts!get_metadata
  <1>3. CASE Mounts!get_metadata_download(h)
    BY <1>3, DownloadInv, SameRemote DEF Mounts!get_metadata_download, Mounts!At
  <1>4. CASE Mounts!get_metadata_rmtree(h)
    BY <1>4, RmtreeInv, SameRemote DEF Mounts!get_metadata_rmtree, Mounts!At
  <1>5. CASE Mounts!get_metadata_save(h)
    BY <1>5, SaveInv, SameRemote DEF Mounts!get_metadata_save
  <1>6. CASE Mounts!mark_metadata_save(h)
    BY <1>6, MarkSaveInv, SameRemote DEF Mounts!mark_metadata_save
  <1>7. CASE Mounts!mark_metadata_store(h)
    BY <1>7, MarkStoreInv, SameRemote DEF Mounts!mark_metadata_store
  <1>8. CASE Mounts!change(h)
    BY <1>8, ChangeInv, SameRemote DEF Mounts!change
  <1>9. CASE Mounts!fail(h)
    BY <1>9, FailInv, SameRemote DEF Mounts!fail
  <1>10. CASE Mounts!upload_task(h)
    BY <1>10, UploadTaskInv, SameRemote DEF Mounts!upload_task
  <1>11. CASE Mounts!upload_metadata(h)
    BY <1>11, UploadInv, UploadNoOlder
  <1>12. CASE Mounts!cycle_metadata(h)
    BY <1>12, CycleInv DEF Mounts!NoOlder, Remote
  <1>13. CASE Mounts!uploaded(h)
    BY <1>13, SentInv, UploadedInv, SameRemote DEF Mounts!uploaded
  <1>14. CASE Mounts!unmount(h)
    BY <1>14, UnmountInv, SameRemote DEF Mounts!unmount
  <1>15. CASE Mounts!unmount_unchanged(h)
    BY <1>15, UnchangedInv, SameRemote DEF Mounts!unmount_unchanged
  <1>16. CASE Mounts!unmount_refuse(h)
    \* Nobody else stored a higher number.
    <2>1. proc[h].pc = "refuse" BY <1>16 DEF Mounts!unmount_refuse, Mounts!At
    <2>2. proc[h].pc \in PCs BY DEF MountInv, Alone, ProcOK
    <2> QED BY <2>1, <2>2 DEF PCs, Looking, Fetching, Ready, Between, Owning
  <1>17. CASE Mounts!fsck(h)
    BY <1>17, FsckInv, SameRemote DEF Mounts!fsck
  <1>18. CASE Mounts!fsck_cache(h)
    BY <1>18, RmtreeInv, SameRemote DEF Mounts!fsck_cache, Mounts!At
  <1>19. CASE Mounts!fsck_download(h)
    BY <1>19, DownloadInv, SameRemote DEF Mounts!fsck_download, Mounts!At
  <1>20. CASE Mounts!fsck_store(h)
    BY <1>20, FsckStoreInv, SameRemote DEF Mounts!fsck_store
  <1>21. CASE Mounts!fsck_save(h)
    BY <1>21, FsckSaveInv, SameRemote DEF Mounts!fsck_save
  <1>22. CASE Mounts!fsck_check(h)
    BY <1>22, FsckCheckInv, SameRemote DEF Mounts!fsck_check
  <1>23. CASE Mounts!crash(h)
    BY <1>23, CrashInv, SameRemote DEF Mounts!crash
  <1>24. ~Mounts!cycle_missing(h) BY CycleFinds
  <1> QED
    BY <1>1, <1>2, <1>3, <1>4, <1>5, <1>6, <1>7, <1>8, <1>9, <1>10, <1>11, <1>12, <1>13, <1>14, <1>15,
       <1>16, <1>17, <1>18, <1>19, <1>20, <1>21, <1>22, <1>23, <1>24 DEF Mounts!HostStep, Looking

\* mkfs.s3ql leaves the metadata of one host and the remote one up to date.
LEMMA MadeSound ==
  ASSUME Mounts!Init, TakeTurns
  PROVE  MountInv
  <1>1. /\ seqs = {1} /\ changes = 0 /\ stale = {} /\ proc = [h \in Host |-> Mounts!NoProc]
        /\ object = [o \in Mounts!ObjectNo |->
              IF o = Mounts!Meta THEN [seq_no |-> 1, needs_fsck |-> FALSE, data |-> {}] ELSE None]
    BY DEF Mounts!Init
  <1>2. PICK h \in Host :
          /\ params = [g \in Host |-> IF g = h THEN [seq_no |-> 1, needs_fsck |-> FALSE] ELSE None]
          /\ dbfile = [g \in Host |-> IF g = h THEN {} ELSE None]
    BY DEF Mounts!Init
  <1>3. Top = 1 BY <1>1, MaxIs DEF Top, Mounts!get_seq_no
  <1>4. All = {} BY <1>1 DEF All
  <1>5. Remote = [seq_no |-> 1, needs_fsck |-> FALSE, data |-> {}] /\ Remote \in RemoteRecord /\ Remote # None
    BY <1>1, ObjectNos, NotNone, MetadataAssumption DEF Remote, RemoteRecord
  <1>6. params[h] = [seq_no |-> 1, needs_fsck |-> FALSE] /\ params[h] \in ParamRecord /\ params[h] # None
        /\ dbfile[h] = {} /\ \A g \in Host \ {h} : params[g] = None
    BY <1>2, NotNone DEF ParamRecord
  <1>7. Shared
    <2>1. params \in [Host -> {None} \cup ParamRecord] /\ DOMAIN dbfile = Host BY <1>2, <1>6
    <2>2. object \in [Mounts!ObjectNo -> {None} \cup RemoteRecord] BY <1>1, <1>5
    <2> QED BY <1>1, <1>2, <1>3, <1>6, <2>1, <2>2 DEF Shared
  <1>8. Quiet(Top)
    <2>1. {} \in SUBSET Nat OBVIOUS
    <2> QED
      BY <1>1, <1>3, <1>4, <1>5, <1>6, <2>1
         DEF Quiet, RemoteLevel, StaleBehind, AtMost, Level, Has, Full
  <1>9. \A g \in Host : proc[g] = Mounts!NoProc BY <1>1
  <1>10. Alone BY <1>1, <1>9 DEF Alone, ProcOK, Mounts!NoProc, Fields, PCs
  <1>11. ASSUME NEW g \in Host PROVE HostOK(g)
    <2>1. proc[g].pc = "off" BY <1>9 DEF Mounts!NoProc
    <2> QED BY <2>1 DEF HostOK, Before, Turning, Owner, Uploading, Looking, Fetching, Ready, Between, Owning,
           Sending, Transit, Full
  <1> QED BY <1>7, <1>8, <1>10, <1>11 DEF MountInv

-----------------------------------------------------------------------------
(* The theorems.                                                           *)

\* The setting of a behaviour never changes.
HostsTakeTurns == part = "mount" => TakeTurns

MetadataInv == part = "mount" => MountInv

LEMMA Stutters ==
  ASSUME MountInv, UNCHANGED <<config, seqs, object, params, dbfile, stale, proc, changes>>
  PROVE  MountInv'
  <1>1. Shared' /\ Top' = Top /\ Remote' = Remote /\ All' = All
    BY SharedSame DEF MountInv, Remote, All, Mounts!Meta
  <1>2. TakeTurns' /\ Alone' BY DEF MountInv, TakeTurns, Alone, ProcOK
  <1>3. Quiet(Top) => Quiet(Top)' BY <1>1, QuietSame
  <1>4. ASSUME NEW h \in Host PROVE HostOK(h)'
    <2>1. HostOK(h) BY DEF MountInv
    <2>2. \A g \in Host : (Below(g, Top) <=> Below(g, Top)') /\ (AtMost(g, Top) <=> AtMost(g, Top)')
                         /\ (Has(g, Top) <=> Has(g, Top)') /\ (Has(g, Top + 1) <=> Has(g, Top + 1)')
                         /\ (Level(g, Top) <=> Level(g, Top)') /\ (Level(g, Top - 1) <=> Level(g, Top - 1)')
      BY <1>1 DEF Below, AtMost, Has, Level, Full
    <2>3. StaleBehind <=> StaleBehind' BY <1>1 DEF StaleBehind, Below
    <2>4. (RemoteLevel(Top) <=> RemoteLevel(Top)') /\ (RemoteLevel(Top - 1) <=> RemoteLevel(Top - 1)')
      BY <1>1 DEF RemoteLevel, Full
    <2>5. \A g \in Host : Below(g, Top - 1) <=> Below(g, Top - 1)' BY <1>1 DEF Below
    <2>6. Before(h, Top)' BY <1>1, <1>3, <2>1, <2>2, <2>3 DEF HostOK, Before, Full
    <2>7. Turning(h, Top)' BY <1>1, <2>1, <2>2, <2>3, <2>4 DEF HostOK, Turning, Full
    <2>8. Owner(h, Top)' BY <1>1, <2>1, <2>2, <2>3, <2>4, <2>5 DEF HostOK, Owner, Sending, Full
    <2>9. Uploading(h, Top)' BY <1>1, <2>1, <2>3 DEF HostOK, Uploading, Dumped, Sending, Full, Mounts!New
    <2> QED BY <2>6, <2>7, <2>8, <2>9 DEF HostOK
  <1> QED BY <1>1, <1>2, <1>3, <1>4 DEF MountInv

LEMMA MetadataStep ==
  ASSUME MetadataInv, [Next]_vars
  PROVE  MetadataInv' /\ (part = "mount" => Mounts!NoOlder)
  <1>1. CASE MountsNext
    BY <1>1, HostStepKeeps DEF MetadataInv, MountsNext, Mounts!Next
  <1>2. CASE CheckNext BY <1>2 DEF MetadataInv, CheckNext
  <1>3. CASE UNCHANGED vars
    <2>1. UNCHANGED <<part, config, seqs, object, params, dbfile, stale, proc, changes>>
      BY <1>3 DEF vars
    <2>2. ASSUME part = "mount" PROVE MountInv' BY <1>3, <2>1, <2>2, Stutters DEF MetadataInv
    <2>3. MetadataInv' /\ UNCHANGED object BY <2>1, <2>2 DEF MetadataInv
    <2> QED BY <2>3, SameRemote DEF MetadataInv
  <1> QED BY <1>1, <1>2, <1>3 DEF Next

LEMMA MetadataSound == Spec /\ HostsTakeTurns => []MetadataInv
  <1>1. Init /\ HostsTakeTurns => MetadataInv
    BY MadeSound DEF Init, HostsTakeTurns, MetadataInv
  <1>2. MetadataInv /\ [Next]_vars => MetadataInv' BY MetadataStep
  <1> QED BY <1>1, <1>2, PTL DEF Spec

\* A mounted file system has all changes that were ever made, wherever it was
\* mounted before and also if metadata was uploaded in between, and only cache
\* files of its database (mount.py:405, 457, 652; fsck.py:1025, 1101), under
\* TakeTurns: one program runs at a time, the user forces nothing, at least
\* one old number is kept, programs die at CrashPlaces only, with a backend
\* that renames not in the rotation; and, for the changes, as MountedCurrent
\* says, no number is reused (mount.py:301).
THEOREM NothingMissed == Spec /\ HostsTakeTurns => []MountedCurrent
  <1>1. ASSUME MetadataInv PROVE MountedCurrent
    <2>1. ASSUME part = "mount", NEW h \in Host, proc[h].pc \in {"mounted", "fsck check"}
          PROVE  (~config.Reuse => dbfile[h] = 1 .. changes) /\ h \notin stale
      BY <1>1, <2>1, Owns DEF MetadataInv, Owning, All, Full
    <2> QED BY <2>1 DEF MountedCurrent, Mounts!NothingLost, Mounts!CacheMatches, Mounts!At
  <1> QED BY <1>1, MetadataSound, PTL

\* Between programs the metadata of some host or of the backend has the
\* highest number, and no program misses the metadata object, at whatever
\* step of the rotation another died (common.py:553, metadata.py:123), under
\* TakeTurns: a backend that renames has no crash in the rotation there.
THEOREM MetadataStaysUsable == Spec /\ HostsTakeTurns => []MetadataUsable
  <1>1. ASSUME MetadataInv, part = "mount" PROVE Mounts!SomeMetadataCurrent
    <2>1. ASSUME \A h \in Host : proc[h].pc = "off"
          PROVE  \/ \E h \in Host : params[h] # None /\ params[h].seq_no >= Top
                 \/ Remote # None /\ Remote.seq_no = Top
      <3>1. Quiet(Top) /\ Top \in Nat BY <1>1, <2>1 DEF MetadataInv, MountInv, Shared
      <3> QED BY <3>1 DEF Quiet, Has
    <2> QED BY <2>1 DEF Mounts!SomeMetadataCurrent, Mounts!At, Top, Remote
  <1>2. ASSUME MetadataInv, part = "mount", NEW h \in Host PROVE proc[h].pc # "failed"
    BY <1>2 DEF MetadataInv, MountInv, Alone, ProcOK, PCs, Looking, Fetching, Ready, Between, Owning
  <1>3. MetadataInv => MetadataUsable
    BY <1>1, <1>2 DEF MetadataUsable, Mounts!NeverFails, Mounts!At
  <1> QED BY <1>3, MetadataSound, PTL

\* A host that was left behind never replaces newer metadata
\* (metadata.py:298), under TakeTurns.
THEOREM NumbersOnlyGrow == Spec /\ HostsTakeTurns => MetadataNeverOlder
  <1>1. MetadataInv /\ [Next]_vars => [part = "mount" /\ ~config.Forced => Mounts!NoOlder]_vars
    BY MetadataStep
  <1> QED BY <1>1, MetadataSound, PTL DEF Spec, MetadataNeverOlder
=============================================================================
