---------------------------- MODULE BatchesProofs ----------------------------
(***************************************************************************)
(* What works through a list of objects does what it says, for every       *)
(* number of objects, threads, faults and changes: proofs about            *)
(* MCBatches.                                                              *)
(***************************************************************************)
EXTENDS MCBatches, SequenceTheorems, FiniteSetTheorems, WellFoundedInduction, TLAPS

-----------------------------------------------------------------------------
(* Numbers. *)

LEMMA Least ==
  ASSUME NEW S, S \subseteq Nat, S # {}
  PROVE  \E x \in S : \A y \in S : x <= y
  <1>1. PICK x \in S : \A y \in S : ~(<<y, x>> \in OpToRel(<, Nat))
    BY NatLessThanWellFounded, WFMin
  <1>2. \A y \in S : ~(y < x) BY <1>1 DEF OpToRel
  <1> QED BY <1>2

LEMMA Greatest ==
  ASSUME NEW S, NEW n \in Nat, S \subseteq 0 .. n, S # {}
  PROVE  \E x \in S : \A y \in S : x >= y
  <1> DEFINE T == {n - y : y \in S}
  <1>1. \A y \in S : y \in Nat /\ n - y \in Nat OBVIOUS
  <1>2. PICK a \in S : TRUE OBVIOUS
  <1>3. T \subseteq Nat /\ n - a \in T BY <1>1, <1>2
  <1> HIDE DEF T
  <1>4. PICK z \in T : \A y \in T : z <= y BY <1>3, Least
  <1>5. PICK x \in S : z = n - x BY DEF T
  <1>6. \A y \in S : n - x <= n - y BY <1>4, <1>5 DEF T
  <1> QED BY <1>1, <1>5, <1>6

-----------------------------------------------------------------------------
(* Sequences. *)

LEMMA Appended ==
  ASSUME NEW S, NEW s \in Seq(S), NEW x \in S
  PROVE  /\ Append(s, x) \in Seq(S)
         /\ Len(Append(s, x)) = Len(s) + 1
         /\ DOMAIN Append(s, x) = 1 .. Len(s) + 1
         /\ \A k \in 1 .. Len(s) : Append(s, x)[k] = s[k]
         /\ Append(s, x)[Len(s) + 1] = x
         /\ Range(Append(s, x)) = Range(s) \cup {x}
  <1>1. /\ Append(s, x) \in Seq(S)
        /\ Len(Append(s, x)) = Len(s) + 1
        /\ DOMAIN Append(s, x) = 1 .. Len(s) + 1
        /\ \A k \in 1 .. Len(s) : Append(s, x)[k] = s[k]
        /\ Append(s, x)[Len(s) + 1] = x
    BY AppendProperties
  <1>2. DOMAIN s = 1 .. Len(s) /\ Len(s) \in Nat BY LenProperties
  <1>3. Range(Append(s, x)) = Range(s) \cup {x} BY <1>1, <1>2 DEF Range
  <1> QED BY <1>1, <1>3

LEMMA TailOf ==
  ASSUME NEW S, NEW s \in Seq(S), s # <<>>
  PROVE  /\ Len(s) \in Nat \ {0} /\ Head(s) = s[1] /\ s[1] \in S
         /\ Tail(s) \in Seq(S) /\ Len(Tail(s)) = Len(s) - 1
         /\ DOMAIN Tail(s) = 1 .. Len(s) - 1
         /\ \A k \in 1 .. Len(s) - 1 : Tail(s)[k] = s[k + 1]
         /\ Range(Tail(s)) = {s[k] : k \in 2 .. Len(s)}
         /\ Range(s) = {s[1]} \cup Range(Tail(s))
  <1>1. /\ Len(s) \in Nat \ {0} /\ Head(s) = s[1] /\ s[1] \in S
        /\ Tail(s) \in Seq(S) /\ Len(Tail(s)) = Len(s) - 1
        /\ \A k \in 1 .. Len(s) - 1 : Tail(s)[k] = s[k + 1]
    BY HeadTailProperties, EmptySeq, ElementOfSeq
  <1>2. DOMAIN s = 1 .. Len(s) /\ DOMAIN Tail(s) = 1 .. Len(s) - 1 BY <1>1, LenProperties
  <1>3. Range(Tail(s)) = {s[k] : k \in 2 .. Len(s)}
    <2>1. ASSUME NEW x \in Range(Tail(s)) PROVE x \in {s[k] : k \in 2 .. Len(s)}
      <3>1. PICK k \in 1 .. Len(s) - 1 : x = Tail(s)[k] BY <1>2 DEF Range
      <3>2. k + 1 \in 2 .. Len(s) /\ x = s[k + 1] BY <1>1, <3>1
      <3> QED BY <3>2
    <2>2. ASSUME NEW k \in 2 .. Len(s) PROVE s[k] \in Range(Tail(s))
      <3>1. k - 1 \in 1 .. Len(s) - 1 /\ Tail(s)[k - 1] = s[k] BY <1>1
      <3> QED BY <1>2, <3>1 DEF Range
    <2> QED BY <2>1, <2>2
  <1>4. Range(s) = {s[1]} \cup {s[k] : k \in 2 .. Len(s)} BY <1>1, <1>2 DEF Range
  <1> QED BY <1>1, <1>2, <1>3, <1>4

LEMMA AppendedOnce ==
  ASSUME NEW S, NEW s \in Seq(S), NEW x \in S, IsInjective(s), x \notin Range(s)
  PROVE  IsInjective(Append(s, x))
  <1>1. DOMAIN s = 1 .. Len(s) /\ Len(s) \in Nat BY LenProperties
  <1>2. \A k \in 1 .. Len(s) : s[k] # x BY <1>1 DEF Range
  <1> QED BY <1>1, <1>2, Appended DEF IsInjective

-----------------------------------------------------------------------------
(***************************************************************************)
(* The tools (WorkQueue).  Every object is in one place: the queue, the    *)
(* hands of a thread, or a report.                                         *)
(***************************************************************************)
ToolTypes ==
    /\ config \in ToolSettings
    /\ queue \in Seq(0 .. Tool!NObjects) /\ i \in 0 .. Tool!NObjects
    /\ main \in {"loop", "put", "none", "join", "done", "raised"}
    /\ main = "put" => i # 0
    /\ joined \in 0 .. ToolThreads /\ (main = "join" => joined < ToolThreads)
    /\ DOMAIN thread = 1 .. ToolThreads
    /\ \A t \in 1 .. ToolThreads :
          /\ thread[t].at \in {"start", "work", "read", "ended", "died"}
          /\ thread[t].size \in Nat
          /\ thread[t].obj \in 0 .. Tool!NObjects
          /\ (thread[t].obj # 0) <=> thread[t].at \in {"work", "read"}
    /\ missing \in Seq(1 .. Tool!NObjects) /\ corrupted \in Seq(1 .. Tool!NObjects)
    /\ DOMAIN result = 1 .. Tool!NObjects
    /\ Tool!Tool # "verify" => \A o \in 1 .. Tool!NObjects : health[o] = "good"

\* A thread reads what can be read.
ToolReads ==
    \A t \in 1 .. ToolThreads :
        thread[t].at = "read" =>
            /\ Tool!Tool = "clone" \/ (Tool!Tool = "verify" /\ config.full)
            /\ health[thread[t].obj] # "missing"
            /\ thread[t].size <= Tool!Length(thread[t].obj)

\* Objects come before sentinels, and threads end after both.
ToolOrder ==
    /\ \A a, b \in DOMAIN queue : a < b /\ queue[a] = 0 => queue[b] = 0
    /\ (\E t \in 1 .. ToolThreads : thread[t].at = "ended") => \A a \in DOMAIN queue : queue[a] = 0
    /\ main \in {"loop", "put"} =>
          /\ 0 \notin Range(queue)
          /\ \A t \in 1 .. ToolThreads : thread[t].at # "ended"
    /\ main \in {"none", "join", "done"} => i = Tool!NObjects
    /\ main = "join" => \A t \in 1 .. joined : thread[t].at = "ended"
    /\ main = "done" => \A t \in 1 .. ToolThreads : thread[t].at = "ended"

Held == {thread[t].obj : t \in 1 .. ToolThreads} \ {0}
Queued == Range(queue) \ {0}
Reported == Range(missing) \cup Range(corrupted)

ToolOnce ==
    /\ \A a, b \in DOMAIN queue : queue[a] = queue[b] /\ queue[a] # 0 => a = b
    /\ \A t, u \in 1 .. ToolThreads : thread[t].obj = thread[u].obj /\ thread[t].obj # 0 => t = u
    /\ Queued \cap Held = {} /\ Queued \cap Reported = {} /\ Held \cap Reported = {}
    /\ \A o \in Queued \cup Held \cup Reported : o <= i /\ (main = "put" => o < i)
    /\ IsInjective(missing) /\ IsInjective(corrupted)

\* What the reports say is true.
ToolTrue ==
    /\ \A o \in Range(missing) : health[o] = "missing"
    /\ \A o \in Range(corrupted) : Tool!Damaged(o)

Finished(o) ==
    /\ health[o] = "missing" => o \in Range(missing)
    /\ health[o] # "missing" /\ Tool!Damaged(o) => o \in Range(corrupted)
    /\ Tool!Tool = "clear" => result[o] = 0
    /\ Tool!Tool = "clone" => result[o] = Tool!exp_size(o)

\* No object is passed over, unless a thread dies.
ToolCovers ==
    \A o \in 1 .. i :
        config.offset <= o /\ (main = "put" => o < i) =>
            \/ o \in Queued \/ o \in Held \/ Finished(o)
            \/ \E t \in 1 .. ToolThreads : thread[t].at = "died"

ToolInv == ToolTypes /\ ToolReads /\ ToolOrder /\ ToolOnce /\ ToolTrue /\ ToolCovers

LEMMA ToolSetting ==
  ASSUME config \in ToolSettings
  PROVE  /\ Tool!Tool \in {"verify", "clear", "clone"} /\ Tool!NObjects \in Nat
         /\ Tool!offset = config.offset /\ config.offset \in Int /\ Tool!full = config.full
         /\ ToolThreads \in Nat \ {0}
         /\ Tool!Obj = 1 .. Tool!NObjects /\ Tool!Thread = 1 .. ToolThreads /\ Tool!None = 0
  BY BatchesAssumption
     DEF Tool!Tool, Tool!NObjects, Tool!offset, Tool!full, Tool!Obj, Tool!Thread, Tool!None

LEMMA ToolSizes ==
  ASSUME NEW o \in Nat
  PROVE  /\ Tool!exp_size(o) \in 1 .. 2
         /\ Tool!Length(o) = IF health[o] = "short" THEN Tool!exp_size(o) - 1 ELSE Tool!exp_size(o)
         /\ Tool!Length(o) \in 0 .. 2
         /\ Tool!Length(o)' = IF health'[o] = "short" THEN Tool!exp_size(o) - 1 ELSE Tool!exp_size(o)
  <1>1. 1 + (o % 2) \in 1 .. 2 OBVIOUS
  <1> QED BY <1>1 DEF Tool!exp_size, Tool!Length

LEMMA ToolPlaces ==
  ASSUME ToolTypes
  PROVE  /\ Queued \subseteq 1 .. Tool!NObjects /\ Held \subseteq 1 .. Tool!NObjects
         /\ Reported \subseteq 1 .. Tool!NObjects
         /\ i \in Nat /\ Tool!NObjects \in Nat /\ config.offset \in Int /\ ToolThreads \in Nat
         /\ Len(queue) \in Nat /\ DOMAIN queue = 1 .. Len(queue)
         /\ \A a \in DOMAIN queue : queue[a] \in 0 .. Tool!NObjects
  <1>1. config \in ToolSettings BY DEF ToolTypes
  <1>2. Tool!NObjects \in Nat /\ config.offset \in Int /\ ToolThreads \in Nat BY <1>1, ToolSetting
  <1>3. Range(queue) \subseteq 0 .. Tool!NObjects /\ Range(missing) \subseteq 1 .. Tool!NObjects
        /\ Range(corrupted) \subseteq 1 .. Tool!NObjects
    BY RangeOfSeq DEF ToolTypes
  <1>4. Len(queue) \in Nat /\ DOMAIN queue = 1 .. Len(queue)
        /\ \A a \in DOMAIN queue : queue[a] \in 0 .. Tool!NObjects
    <2>1. queue \in Seq(0 .. Tool!NObjects) BY DEF ToolTypes
    <2> QED BY <2>1, LenProperties
  <1> QED BY <1>2, <1>3, <1>4 DEF ToolTypes, Queued, Held, Reported

LEMMA ToolInitInv == ASSUME Tool!Init PROVE ToolInv
  <1>1. config \in ToolSettings /\ DOMAIN thread = 1 .. ToolThreads
        /\ \A t \in 1 .. ToolThreads : thread[t] = [at |-> "start", obj |-> 0, size |-> 0]
    BY ToolSetting DEF Tool!Init
  <1>2. queue = <<>> /\ i = 0 /\ main = "loop" /\ joined = 0 /\ missing = <<>> /\ corrupted = <<>>
        /\ DOMAIN result = 1 .. Tool!NObjects
    BY <1>1, ToolSetting DEF Tool!Init
  <1>3. Tool!Tool # "verify" => \A o \in 1 .. Tool!NObjects : health[o] = "good"
    BY <1>1, ToolSetting DEF Tool!Init
  <1>4. Range(queue) = {} /\ DOMAIN queue = {} /\ Range(missing) = {} /\ Range(corrupted) = {}
        /\ DOMAIN missing = {} /\ DOMAIN corrupted = {}
    BY <1>2 DEF Range
  <1>5. ToolTypes BY <1>1, <1>2, <1>3, ToolSetting DEF ToolTypes
  <1>6. ToolReads BY <1>1 DEF ToolReads
  <1>7. ToolOrder BY <1>1, <1>2, <1>4 DEF ToolOrder
  <1>8. Held = {} BY <1>1 DEF Held
  <1>9. ToolOnce
    BY <1>1, <1>2, <1>4, <1>8 DEF ToolOnce, Queued, Reported, IsInjective
  <1>10. ToolTrue BY <1>4 DEF ToolTrue
  <1>11. ToolCovers BY <1>2 DEF ToolCovers
  <1> QED BY <1>5, <1>6, <1>7, <1>9, <1>10, <1>11 DEF ToolInv

-----------------------------------------------------------------------------
(* The main thread. *)

\* It leaves the threads alone, and what they have found.
LEMMA ToolMainKeeps ==
  ASSUME ToolInv, UNCHANGED config, Tool!Main
  PROVE  /\ Tool!NObjects' = Tool!NObjects /\ Tool!Tool' = Tool!Tool
         /\ ToolReads' /\ ToolTrue' /\ Held' = Held /\ Reported' = Reported
         /\ \A o : Finished(o) => Finished(o)'
         /\ UNCHANGED <<thread, missing, corrupted, result, health>>
  <1>1. UNCHANGED <<config, thread, missing, corrupted, result, health>>
    BY DEF Tool!Main, Tool!files
  <1>2. Tool!NObjects' = Tool!NObjects /\ Tool!Tool' = Tool!Tool
    BY <1>1 DEF Tool!NObjects, Tool!Tool
  <1>3. ToolReads' BY <1>1, <1>2 DEF ToolInv, ToolReads, Tool!Length
  <1>4. ToolTrue' BY <1>1 DEF ToolInv, ToolTrue, Tool!Damaged, Tool!full
  <1>5. Held' = Held /\ Reported' = Reported BY <1>1 DEF Held, Reported
  <1>6. \A o : Finished(o) => Finished(o)' BY <1>1, <1>2 DEF Finished, Tool!Damaged, Tool!full
  <1> QED BY <1>1, <1>2, <1>3, <1>4, <1>5, <1>6

LEMMA ToolNextObjectInv ==
  ASSUME ToolInv, UNCHANGED config, Tool!NextObject PROVE ToolInv'
  <1>1. /\ ToolTypes /\ main = "loop" /\ i < Tool!NObjects /\ i' = i + 1
        /\ main' \in {"raised", "loop", "put"} /\ UNCHANGED <<queue, joined, config>> /\ Tool!Main
        /\ \/ main' = "raised" /\ \E t \in 1 .. ToolThreads : thread[t].at = "died"
           \/ main' = "loop" /\ i + 1 < config.offset
           \/ main' = "put"
    <2>1. config \in ToolSettings BY DEF ToolInv, ToolTypes
    <2> QED
      BY <2>1, ToolSetting DEF ToolInv, Tool!NextObject, Tool!Skipped, Tool!Dead
  <1>0. Queued' = Queued BY <1>1 DEF Queued
  <1> USE <1>0, <1>1, ToolPlaces, ToolMainKeeps
  <1>2. ToolTypes' BY DEF ToolTypes
  <1>3. ToolOrder' BY DEF ToolInv, ToolOrder
  <1>4. ToolOnce' BY DEF ToolInv, ToolOnce
  <1>5. ToolCovers'
    <2>2. ASSUME NEW o \in 1 .. i', config.offset <= o, main' = "put" => o < i',
                 ~\E t \in 1 .. ToolThreads : thread[t].at = "died"
          PROVE  o \in Queued \/ o \in Held \/ Finished(o)
      <3>1. o # i + 1 BY <2>2
      <3>2. o \in 1 .. i BY <3>1
      <3> QED BY <2>2, <3>2 DEF ToolInv, ToolCovers
    <2> QED BY <2>2 DEF ToolCovers
  <1> QED BY <1>2, <1>3, <1>4, <1>5 DEF ToolInv

LEMMA ToolQueueGrows ==
  ASSUME ToolTypes, NEW x \in 0 .. Tool!NObjects, queue' = Append(queue, x)
  PROVE  /\ queue' \in Seq(0 .. Tool!NObjects) /\ DOMAIN queue' = 1 .. Len(queue) + 1
         /\ \A a \in 1 .. Len(queue) : queue'[a] = queue[a]
         /\ queue'[Len(queue) + 1] = x
         /\ Range(queue') = Range(queue) \cup {x}
         /\ Queued' = Queued \cup ({x} \ {0})
  <1>1. queue \in Seq(0 .. Tool!NObjects) BY DEF ToolTypes
  <1>2. /\ queue' \in Seq(0 .. Tool!NObjects) /\ DOMAIN queue' = 1 .. Len(queue) + 1
        /\ \A a \in 1 .. Len(queue) : queue'[a] = queue[a]
        /\ queue'[Len(queue) + 1] = x
        /\ Range(queue') = Range(queue) \cup {x}
    <2> DEFINE S == 0 .. Tool!NObjects
    <2>1. queue \in Seq(S) /\ x \in S BY <1>1
    <2> HIDE DEF S
    <2>2. /\ queue' \in Seq(S) /\ DOMAIN queue' = 1 .. Len(queue) + 1
          /\ \A a \in 1 .. Len(queue) : queue'[a] = queue[a]
          /\ queue'[Len(queue) + 1] = x
          /\ Range(queue') = Range(queue) \cup {x}
      BY <2>1, Appended
    <2> QED BY <2>2 DEF S
  <1> QED BY <1>2 DEF Queued

\* A list that grows by an item at its end: nothing comes twice in it if the
\* item is new or 0, and nothing follows a 0 in it if the item is 0.
LEMMA GrownOnce ==
  ASSUME NEW n \in Nat, NEW q, NEW p, NEW x, DOMAIN q = 1 .. n, DOMAIN p = 1 .. n + 1,
         \A a \in 1 .. n : p[a] = q[a], p[n + 1] = x, x = 0 \/ \A a \in 1 .. n : q[a] # x,
         \A a, b \in DOMAIN q : q[a] = q[b] /\ q[a] # 0 => a = b
  PROVE  \A a, b \in DOMAIN p : p[a] = p[b] /\ p[a] # 0 => a = b
  <1> SUFFICES ASSUME NEW a \in DOMAIN p, NEW b \in DOMAIN p, p[a] = p[b], p[a] # 0
               PROVE  a = b
    OBVIOUS
  <1>1. (a \in 1 .. n \/ a = n + 1) /\ (b \in 1 .. n \/ b = n + 1) OBVIOUS
  <1>2. CASE a \in 1 .. n /\ b \in 1 .. n BY <1>2
  <1>3. CASE a \in 1 .. n /\ b = n + 1 BY <1>3
  <1>4. CASE a = n + 1 /\ b \in 1 .. n BY <1>4
  <1> QED BY <1>1, <1>2, <1>3, <1>4

LEMMA GrownOrder ==
  ASSUME NEW n \in Nat, NEW q, NEW p, DOMAIN q = 1 .. n, DOMAIN p = 1 .. n + 1,
         \A a \in 1 .. n : p[a] = q[a], p[n + 1] = 0,
         \A a, b \in DOMAIN q : a < b /\ q[a] = 0 => q[b] = 0
  PROVE  \A a, b \in DOMAIN p : a < b /\ p[a] = 0 => p[b] = 0
  <1> SUFFICES ASSUME NEW a \in DOMAIN p, NEW b \in DOMAIN p, a < b, p[a] = 0
               PROVE  p[b] = 0
    OBVIOUS
  <1>1. CASE b = n + 1 BY <1>1
  <1>2. CASE b # n + 1
    <2>1. a \in 1 .. n /\ b \in 1 .. n BY <1>2
    <2> QED BY <2>1
  <1> QED BY <1>1, <1>2

LEMMA ToolPutInv ==
  ASSUME ToolInv, UNCHANGED config, Tool!Put PROVE ToolInv'
  <1>1. /\ ToolTypes /\ main = "put" /\ main' = "loop" /\ queue' = Append(queue, i)
        /\ UNCHANGED <<i, joined, config>> /\ Tool!Main
    BY DEF ToolInv, Tool!Put
  <1> USE <1>1, ToolPlaces, ToolMainKeeps
  <1>2. i \in 1 .. Tool!NObjects /\ i \notin Queued \cup Held \cup Reported
    BY DEF ToolInv, ToolOnce, ToolTypes
  <1> USE <1>2, ToolQueueGrows
  <1>3. ToolTypes' BY DEF ToolTypes
  <1>4. ToolOrder'
    <2>1. 0 \notin Range(queue) /\ \A t \in 1 .. ToolThreads : thread[t].at # "ended"
      BY DEF ToolInv, ToolOrder
    <2>2. 0 \notin Range(queue') BY <2>1
    <2>3. \A a \in DOMAIN queue' : queue'[a] # 0 BY <2>2 DEF Range
    <2> QED BY <2>1, <2>2, <2>3 DEF ToolOrder
  <1>5. ToolOnce'
    <2>2. Len(queue) \in Nat /\ DOMAIN queue = 1 .. Len(queue) BY DEF ToolTypes
    <2>1. \A a \in 1 .. Len(queue) : queue[a] # i
      <3>1. i \notin Range(queue) /\ i # 0 BY ONLY <1>2, ToolPlaces DEF Queued
      <3> QED BY ONLY <2>2, <3>1 DEF Range
    <2>3. ToolOnce BY DEF ToolInv
    <2>4. /\ DOMAIN queue' = 1 .. Len(queue) + 1 /\ queue'[Len(queue) + 1] = i
          /\ \A a \in 1 .. Len(queue) : queue'[a] = queue[a]
      OBVIOUS
    <2>5. \A a, b \in DOMAIN queue' : queue'[a] = queue'[b] /\ queue'[a] # 0 => a = b
      BY ONLY <2>1, <2>2, <2>3, <2>4, GrownOnce DEF ToolOnce
    <2> QED BY <2>3, <2>5 DEF ToolOnce
  <1>6. ToolCovers' BY DEF ToolInv, ToolCovers
  <1> QED BY <1>3, <1>4, <1>5, <1>6 DEF ToolInv

LEMMA ToolPutTimeoutInv ==
  ASSUME ToolInv, UNCHANGED config, Tool!PutTimeout PROVE ToolInv'
  <1>1. /\ ToolTypes /\ \E t \in 1 .. ToolThreads : thread[t].at = "died"
        /\ main' = "raised" /\ UNCHANGED <<queue, i, joined, config>> /\ Tool!Main
    <2>1. config \in ToolSettings BY DEF ToolInv, ToolTypes
    <2> QED BY <2>1, ToolSetting DEF ToolInv, Tool!PutTimeout, Tool!Dead
  <1> USE <1>1, ToolPlaces, ToolMainKeeps
  <1>2. Queued' = Queued BY DEF Queued
  <1>3. ToolTypes' BY DEF ToolTypes
  <1>4. ToolOrder' BY DEF ToolInv, ToolOrder
  <1>5. ToolOnce' BY <1>2 DEF ToolInv, ToolOnce
  <1>6. ToolCovers' BY DEF ToolInv, ToolCovers
  <1> QED BY <1>3, <1>4, <1>5, <1>6 DEF ToolInv

LEMMA ToolFinishInv ==
  ASSUME ToolInv, UNCHANGED config, Tool!Finish PROVE ToolInv'
  <1>1. /\ ToolTypes /\ main = "loop" /\ i = Tool!NObjects
        /\ main' = "none" /\ UNCHANGED <<queue, i, joined, config>> /\ Tool!Main
    BY DEF ToolInv, Tool!Finish
  <1> USE <1>1, ToolPlaces, ToolMainKeeps
  <1>2. Queued' = Queued BY DEF Queued
  <1>3. ToolTypes' BY DEF ToolTypes
  <1>4. ToolOrder' BY DEF ToolInv, ToolOrder
  <1>5. ToolOnce' BY <1>2 DEF ToolInv, ToolOnce
  <1>6. ToolCovers' BY <1>2 DEF ToolInv, ToolCovers
  <1> QED BY <1>3, <1>4, <1>5, <1>6 DEF ToolInv

LEMMA ToolPutNoneInv ==
  ASSUME ToolInv, UNCHANGED config, Tool!PutNone PROVE ToolInv'
  <1>1. /\ ToolTypes /\ main = "none" /\ UNCHANGED <<i, config>> /\ Tool!Main
        /\ \/ joined < ToolThreads /\ queue' = Append(queue, 0) /\ joined' = joined + 1 /\ main' = "none"
           \/ main' = "join" /\ joined' = 0 /\ queue' = queue
    BY DEF ToolInv, Tool!PutNone, Tool!None
  <1> USE <1>1, ToolPlaces, ToolMainKeeps
  <1>2. Queued' = Queued BY ToolQueueGrows DEF Queued
  <1>3. ToolTypes'
    <2>1. config \in ToolSettings BY DEF ToolTypes
    <2> QED BY <2>1, ToolSetting, ToolQueueGrows DEF ToolTypes
  <1> DEFINE grows == /\ DOMAIN queue' = 1 .. Len(queue) + 1
                      /\ \A a \in 1 .. Len(queue) : queue'[a] = queue[a]
                      /\ queue'[Len(queue) + 1] = 0
  <1>7. grows \/ queue' = queue BY ToolQueueGrows
  <1>8. /\ ToolOrder /\ ToolOnce /\ Len(queue) \in Nat /\ DOMAIN queue = 1 .. Len(queue)
    BY DEF ToolInv, ToolTypes
  <1>4. ToolOrder'
    <2>1. \A a, b \in DOMAIN queue' : a < b /\ queue'[a] = 0 => queue'[b] = 0
      <3>1. \A a, b \in DOMAIN queue : a < b /\ queue[a] = 0 => queue[b] = 0
        BY ONLY <1>8 DEF ToolOrder
      <3>2. CASE grows BY ONLY <1>8, <3>1, <3>2, GrownOrder
      <3>3. CASE queue' = queue BY ONLY <3>1, <3>3
      <3> QED BY ONLY <1>7, <3>2, <3>3
    <2>2. (\E t \in 1 .. ToolThreads : thread[t].at = "ended") =>
            \A a \in DOMAIN queue' : queue'[a] = 0
      <3>1. CASE grows
        <4>1. \A a \in DOMAIN queue' : a = Len(queue) + 1 \/ a \in 1 .. Len(queue)
          BY ONLY <1>8, <3>1
        <4> QED BY ONLY <1>8, <3>1, <4>1 DEF ToolOrder
      <3>2. CASE queue' = queue BY ONLY <1>8, <3>2 DEF ToolOrder
      <3> QED BY <1>7, <3>1, <3>2
    <2> QED BY <2>1, <2>2 DEF ToolInv, ToolOrder
  <1>5. ToolOnce'
    <2>1. \A a, b \in DOMAIN queue' : queue'[a] = queue'[b] /\ queue'[a] # 0 => a = b
      <3>1. \A a, b \in DOMAIN queue : queue[a] = queue[b] /\ queue[a] # 0 => a = b
        BY ONLY <1>8 DEF ToolOnce
      <3>2. CASE grows BY ONLY <1>8, <3>1, <3>2, GrownOnce
      <3>3. CASE queue' = queue BY ONLY <3>1, <3>3
      <3> QED BY ONLY <1>7, <3>2, <3>3
    <2> QED BY <1>2, <2>1 DEF ToolInv, ToolOnce
  <1>6. ToolCovers' BY <1>2 DEF ToolInv, ToolCovers
  <1> QED BY <1>3, <1>4, <1>5, <1>6 DEF ToolInv

LEMMA ToolJoinInv ==
  ASSUME ToolInv, UNCHANGED config, Tool!join_and_raise PROVE ToolInv'
  <1>1. /\ ToolTypes /\ main = "join" /\ joined' = joined + 1
        /\ UNCHANGED <<queue, i, config>> /\ Tool!Main
        /\ \/ main' = "raised"
           \/ thread[joined + 1].at = "ended" /\ main' = IF joined + 1 = ToolThreads THEN "done" ELSE "join"
    BY DEF ToolInv, Tool!join_and_raise, Tool!AfterJoin
  <1> USE <1>1, ToolPlaces, ToolMainKeeps
  <1>2. Queued' = Queued BY DEF Queued
  <1>3. ToolTypes' BY DEF ToolTypes
  <1>4. ToolOrder'
    <2>1. joined \in Nat /\ ToolThreads \in Nat /\ joined < ToolThreads BY DEF ToolTypes
    <2>2. \A t \in 1 .. joined : thread[t].at = "ended" BY DEF ToolInv, ToolOrder
    <2>3. main' # "raised" => \A t \in 1 .. joined + 1 : thread[t].at = "ended" BY <2>1, <2>2
    <2> QED BY <2>1, <2>3 DEF ToolInv, ToolOrder
  <1>5. ToolOnce' BY <1>2 DEF ToolInv, ToolOnce
  <1>6. ToolCovers' BY <1>2 DEF ToolInv, ToolCovers
  <1> QED BY <1>3, <1>4, <1>5, <1>6 DEF ToolInv

-----------------------------------------------------------------------------
(* The other threads. *)

LEMMA ToolBecomes ==
  ASSUME ToolInv, NEW t \in 1 .. ToolThreads, thread[t].at \notin {"ended", "died"},
         NEW w \in {"start", "work", "read", "ended", "died"}, NEW o, NEW n, Tool!Becomes(t, w, o, n)
  PROVE  /\ DOMAIN thread' = 1 .. ToolThreads
         /\ thread'[t].at = w /\ thread'[t].obj = o /\ thread'[t].size = n
         /\ \A u \in 1 .. ToolThreads : u # t => thread'[u] = thread[u]
         /\ thread[t].obj = o => Held' = Held
         /\ o = 0 => Held' = Held \ {thread[t].obj}
         /\ thread[t].obj = 0 => Held' = Held \cup ({o} \ {0})
         /\ \A u \in 1 .. ToolThreads : thread[u].at \in {"ended", "died"} => thread'[u].at = thread[u].at
         /\ w # "ended" =>
              \A u \in 1 .. ToolThreads : thread'[u].at = "ended" => thread[u].at = "ended"
  <1>1. DOMAIN thread = 1 .. ToolThreads
        /\ \A u, v \in 1 .. ToolThreads : thread[u].obj = thread[v].obj /\ thread[u].obj # 0 => u = v
    BY DEF ToolInv, ToolTypes, ToolOnce
  <1>2. /\ DOMAIN thread' = 1 .. ToolThreads
        /\ thread'[t].at = w /\ thread'[t].obj = o /\ thread'[t].size = n
        /\ \A u \in 1 .. ToolThreads : u # t => thread'[u] = thread[u]
    BY <1>1 DEF Tool!Becomes
  <1>3. /\ thread[t].obj = o => Held' = Held
        /\ o = 0 => Held' = Held \ {thread[t].obj}
        /\ thread[t].obj = 0 => Held' = Held \cup ({o} \ {0})
    BY <1>1, <1>2 DEF Held
  <1> QED BY <1>2, <1>3

\* A thread leaves the main thread alone, and what it is to work on.
LEMMA ToolThreadKeeps ==
  ASSUME ToolInv, UNCHANGED config, Tool!Threads
  PROVE  /\ Tool!NObjects' = Tool!NObjects /\ Tool!Tool' = Tool!Tool
         /\ UNCHANGED <<config, health, main, i, joined>>
         /\ \A o : Tool!Damaged(o)' = Tool!Damaged(o)
         /\ \A o : Tool!Length(o)' = Tool!Length(o)
  BY DEF Tool!Threads, Tool!NObjects, Tool!Tool, Tool!Damaged, Tool!full, Tool!Length

LEMMA ToolFilesKept ==
  ASSUME ToolInv, UNCHANGED config, Tool!Threads, UNCHANGED Tool!files
  PROVE  /\ UNCHANGED <<missing, corrupted, result>> /\ Reported' = Reported
         /\ ToolTrue' /\ \A o : Finished(o) => Finished(o)'
  <1> USE ToolThreadKeeps
  <1>1. UNCHANGED <<missing, corrupted, result>> BY DEF Tool!files
  <1>2. Reported' = Reported BY <1>1 DEF Reported
  <1>3. ToolTrue' BY <1>1 DEF ToolInv, ToolTrue
  <1>4. \A o : Finished(o) => Finished(o)' BY <1>1 DEF Finished
  <1> QED BY <1>1, <1>2, <1>3, <1>4

\* A thread goes on with its object, or dies.
LEMMA ToolGoesOnInv ==
  ASSUME ToolInv, UNCHANGED config, NEW t \in 1 .. ToolThreads, thread[t].at \in {"start", "work", "read"},
         NEW w \in {"work", "read", "died"}, NEW n \in Nat,
         NEW o, o = IF w = "died" THEN 0 ELSE thread[t].obj,
         w # "died" => thread[t].at # "start",
         Tool!Becomes(t, w, o, n), Tool!Threads, UNCHANGED queue, UNCHANGED Tool!files,
         w = "read" => /\ Tool!Tool = "clone" \/ (Tool!Tool = "verify" /\ config.full)
                       /\ health[o] # "missing" /\ n <= Tool!Length(o)
  PROVE  ToolInv'
  <1> USE ToolBecomes, ToolThreadKeeps, ToolFilesKept
  <1>1. Queued' = Queued BY DEF Queued
  <1>2. ToolTypes'
    <2>1. ToolTypes BY DEF ToolInv
    <2>2. n \in Nat /\ o \in 0 .. Tool!NObjects /\ (o # 0 <=> w \in {"work", "read"})
      BY <2>1, ToolPlaces DEF ToolTypes
    <2>3. ASSUME NEW u \in 1 .. ToolThreads
          PROVE
            /\ thread'[u].at \in {"start", "work", "read", "ended", "died"}
            /\ thread'[u].size \in Nat /\ thread'[u].obj \in 0 .. Tool!NObjects
            /\ (thread'[u].obj # 0) <=> thread'[u].at \in {"work", "read"}
      <3>1. CASE u = t BY <2>2, <3>1
      <3>2. CASE u # t
        <4>1. thread'[u] = thread[u] BY <3>2
        <4> QED BY ONLY <2>1, <4>1 DEF ToolTypes
      <3> QED BY <3>1, <3>2
    <2>4. UNCHANGED <<queue, missing, corrupted, result, main, i, joined, config, health>>
          /\ DOMAIN thread' = 1 .. ToolThreads /\ Tool!NObjects' = Tool!NObjects /\ Tool!Tool' = Tool!Tool
      OBVIOUS
    <2> QED BY ONLY <2>1, <2>3, <2>4 DEF ToolTypes
  <1>3. ToolReads'
    <2>1. ToolReads /\ \A x : Tool!Length(x)' = Tool!Length(x) BY DEF ToolInv
    <2>2. ASSUME NEW u \in 1 .. ToolThreads, thread'[u].at = "read"
          PROVE  /\ Tool!Tool = "clone" \/ (Tool!Tool = "verify" /\ config.full)
                 /\ health[thread'[u].obj] # "missing"
                 /\ thread'[u].size <= Tool!Length(thread'[u].obj)
      <3>1. CASE u = t BY <2>2, <3>1
      <3>2. CASE u # t
        <4>1. thread'[u] = thread[u] BY <3>2
        <4> QED BY ONLY <2>1, <2>2, <4>1 DEF ToolReads
      <3> QED BY <3>1, <3>2
    <2>3. UNCHANGED <<config, health>> /\ Tool!Tool' = Tool!Tool OBVIOUS
    <2> QED BY ONLY <2>1, <2>2, <2>3 DEF ToolReads
  <1>4. ToolOrder'
    <2>1. \A u \in 1 .. ToolThreads : thread'[u].at = "ended" <=> thread[u].at = "ended" OBVIOUS
    <2>2. joined \in 0 .. ToolThreads /\ ToolThreads \in Nat BY ToolPlaces DEF ToolInv, ToolTypes
    <2> QED BY <2>1, <2>2 DEF ToolInv, ToolOrder
  <1>5. ToolOnce' BY <1>1 DEF ToolInv, ToolOnce
  <1>6. ToolCovers' BY <1>1 DEF ToolInv, ToolCovers
  <1> QED BY <1>2, <1>3, <1>4, <1>5, <1>6 DEF ToolInv

LEMMA ToolDiesInv ==
  ASSUME ToolInv, UNCHANGED config, NEW t \in 1 .. ToolThreads, Tool!Dies(t) PROVE ToolInv'
  <1>1. /\ thread[t].at \in {"start", "work", "read"} /\ Tool!Becomes(t, "died", 0, 0)
        /\ Tool!Threads /\ UNCHANGED queue /\ UNCHANGED Tool!files
    BY DEF Tool!Dies, Tool!None
  <1> QED BY <1>1, ToolGoesOnInv

LEMMA ToolOpenReadInv ==
  ASSUME ToolInv, UNCHANGED config, NEW t \in 1 .. ToolThreads, Tool!OpenRead(t) PROVE ToolInv'
  <1>1. /\ thread[t].at = "work" /\ Tool!Becomes(t, "read", thread[t].obj, 0) /\ Tool!Reads
        /\ health[thread[t].obj] # "missing"
        /\ Tool!Threads /\ UNCHANGED queue /\ UNCHANGED Tool!files
    BY DEF Tool!OpenRead, Tool!Restart
  <1>2. thread[t].obj \in Nat BY ToolPlaces DEF ToolInv, ToolTypes
  <1>3. 0 <= Tool!Length(thread[t].obj) BY <1>2, ToolSizes
  <1>4. Tool!Tool = "clone" \/ (Tool!Tool = "verify" /\ config.full) BY <1>1 DEF Tool!Reads, Tool!full
  <1> QED BY <1>1, <1>3, <1>4, ToolGoesOnInv

LEMMA ToolReadInv ==
  ASSUME ToolInv, UNCHANGED config, NEW t \in 1 .. ToolThreads, Tool!do_read(t) PROVE ToolInv'
  <1>1. /\ thread[t].at = "read" /\ Tool!Becomes(t, "read", thread[t].obj, thread[t].size + 1)
        /\ thread[t].size < Tool!Length(thread[t].obj)
        /\ Tool!Threads /\ UNCHANGED queue /\ UNCHANGED Tool!files
    BY DEF Tool!do_read
  <1>2. thread[t].obj \in Nat /\ thread[t].size \in Nat
    <2>1. ToolTypes BY DEF ToolInv
    <2>2. thread[t].obj \in 0 .. Tool!NObjects /\ thread[t].size \in Nat
      BY ONLY <2>1 DEF ToolTypes
    <2> QED BY ONLY <2>1, <2>2, ToolPlaces DEF ToolTypes
  <1>3. thread[t].size + 1 <= Tool!Length(thread[t].obj) BY <1>1, <1>2, ToolSizes
  <1>4. (Tool!Tool = "clone" \/ (Tool!Tool = "verify" /\ config.full))
        /\ health[thread[t].obj] # "missing"
    BY <1>1 DEF ToolInv, ToolReads
  <1> QED BY <1>1, <1>2, <1>3, <1>4, ToolGoesOnInv

LEMMA ToolReadAgainInv ==
  ASSUME ToolInv, UNCHANGED config, NEW t \in 1 .. ToolThreads, Tool!ReadAgain(t) PROVE ToolInv'
  <1>1. /\ thread[t].at = "read" /\ Tool!Becomes(t, "work", thread[t].obj, thread[t].size)
        /\ Tool!Threads /\ UNCHANGED queue /\ UNCHANGED Tool!files
    BY DEF Tool!ReadAgain
  <1>2. thread[t].size \in Nat BY DEF ToolInv, ToolTypes
  <1> QED BY <1>1, <1>2, ToolGoesOnInv

\* The first of the queue.
LEMMA ToolGetInv ==
  ASSUME ToolInv, UNCHANGED config, NEW t \in 1 .. ToolThreads, Tool!Get(t) PROVE ToolInv'
  <1> DEFINE o == queue[1]
             w == IF o = 0 THEN "ended" ELSE "work"
             n == thread[t].size
  <1>1. /\ ToolTypes /\ queue \in Seq(0 .. Tool!NObjects) /\ queue # <<>>
        /\ Tool!Threads /\ UNCHANGED Tool!files /\ thread[t].at = "start" /\ thread[t].obj = 0
        /\ n \in Nat
    BY DEF ToolInv, ToolTypes, Tool!Get
  <1>2. /\ o \in 0 .. Tool!NObjects /\ queue' = Tail(queue) /\ queue' \in Seq(0 .. Tool!NObjects)
        /\ DOMAIN queue' = 1 .. Len(queue) - 1 /\ Len(queue) \in Nat \ {0}
        /\ \A k \in 1 .. Len(queue) - 1 : queue'[k] = queue[k + 1]
        /\ Range(queue) = {o} \cup Range(queue')
        /\ Range(queue') = {queue[k] : k \in 2 .. Len(queue)}
        /\ Tool!Becomes(t, w, o, n) /\ DOMAIN queue = 1 .. Len(queue)
    <2> DEFINE S == 0 .. Tool!NObjects
    <2>1. queue \in Seq(S) /\ queue # <<>> BY <1>1
    <2> HIDE DEF S
    <2>2. /\ Len(queue) \in Nat \ {0} /\ Head(queue) = queue[1] /\ queue[1] \in S
          /\ Tail(queue) \in Seq(S) /\ DOMAIN Tail(queue) = 1 .. Len(queue) - 1
          /\ \A k \in 1 .. Len(queue) - 1 : Tail(queue)[k] = queue[k + 1]
          /\ Range(Tail(queue)) = {queue[k] : k \in 2 .. Len(queue)}
          /\ Range(queue) = {queue[1]} \cup Range(Tail(queue))
      BY <2>1, TailOf
    <2>3. DOMAIN queue = 1 .. Len(queue) BY <2>1, LenProperties
    <2>4. queue' = Tail(queue) /\ Tool!Becomes(t, w, o, n)
      BY <2>2 DEF Tool!Get, Tool!None
    <2> QED BY <2>2, <2>3, <2>4 DEF S
  <1>3. o # 0 => o \notin Range(queue')
    <2>1. ASSUME NEW k \in 2 .. Len(queue), o # 0, queue[k] = o PROVE FALSE
      <3>1. 1 \in DOMAIN queue /\ k \in DOMAIN queue /\ k # 1 BY <1>2
      <3> QED BY <2>1, <3>1 DEF ToolInv, ToolOnce
    <2> QED BY <1>2, <2>1
  <1>4. Queued' = Queued \ {o} /\ (o # 0 => o \in Queued)
    BY <1>2, <1>3 DEF Queued
  <1>5. w \in {"start", "work", "read", "ended", "died"} /\ thread[t].at \notin {"ended", "died"} BY <1>1
  <1>6. /\ DOMAIN thread' = 1 .. ToolThreads
        /\ thread'[t].at = w /\ thread'[t].obj = o /\ thread'[t].size = n
        /\ \A u \in 1 .. ToolThreads : u # t => thread'[u] = thread[u]
        /\ Held' = Held \cup ({o} \ {0})
        /\ UNCHANGED <<config, health, main, i, joined, missing, corrupted, result>>
        /\ Tool!NObjects' = Tool!NObjects /\ Tool!Tool' = Tool!Tool /\ Reported' = Reported
        /\ ToolTrue' /\ \A x : Finished(x) => Finished(x)'
    BY <1>1, <1>2, <1>5, ToolBecomes, ToolThreadKeeps, ToolFilesKept
  <1>7. ToolTypes'
    <2>1. ASSUME NEW u \in 1 .. ToolThreads
          PROVE
            /\ thread'[u].at \in {"start", "work", "read", "ended", "died"}
            /\ thread'[u].size \in Nat /\ thread'[u].obj \in 0 .. Tool!NObjects
            /\ (thread'[u].obj # 0) <=> thread'[u].at \in {"work", "read"}
      <3>1. CASE u = t BY <1>1, <1>2, <1>6, <3>1
      <3>2. CASE u # t
        <4>1. thread'[u] = thread[u] BY <1>6, <3>2
        <4> QED BY <1>1, <4>1 DEF ToolTypes
      <3> QED BY <3>1, <3>2
    <2> QED BY <1>1, <1>2, <1>6, <2>1 DEF ToolTypes
  <1>8. ToolReads'
    <2>1. \A u \in 1 .. ToolThreads : thread'[u].at = "read" => thread'[u] = thread[u] BY <1>6
    <2>2. \A x : Tool!Length(x)' = Tool!Length(x) BY <1>1, ToolThreadKeeps
    <2> QED BY <1>6, <2>1, <2>2 DEF ToolInv, ToolReads
  <1>9. ToolOrder'
    <2>1. ToolOrder BY DEF ToolInv
    <2>2. \A a, b \in DOMAIN queue' : a < b /\ queue'[a] = 0 => queue'[b] = 0
      <3>1. ASSUME NEW a \in DOMAIN queue', NEW b \in DOMAIN queue', a < b, queue'[a] = 0 PROVE queue'[b] = 0
        <4>1. a + 1 \in DOMAIN queue /\ b + 1 \in DOMAIN queue /\ a + 1 < b + 1
          <5>1. a \in 1 .. Len(queue) - 1 /\ b \in 1 .. Len(queue) - 1 BY <1>2
          <5> QED BY <1>2, <3>1, <5>1
        <4> QED BY <1>2, <2>1, <3>1, <4>1 DEF ToolOrder
      <3> QED BY <3>1
    <2>3. ASSUME NEW u \in 1 .. ToolThreads, thread'[u].at = "ended", NEW a \in DOMAIN queue'
          PROVE  queue'[a] = 0
      <3>1. 1 \in DOMAIN queue /\ a + 1 \in DOMAIN queue /\ 1 < a + 1 BY <1>2
      <3>2. CASE o = 0 BY <1>2, <2>1, <3>1, <3>2 DEF ToolOrder
      <3>3. CASE o # 0
        <4>1. thread[u].at = "ended" BY <1>6, <2>3, <3>3
        <4> QED BY <1>2, <2>1, <3>1, <4>1 DEF ToolOrder
      <3> QED BY <3>2, <3>3
    <2>4. main \in {"loop", "put"} =>
            0 \notin Range(queue') /\ \A u \in 1 .. ToolThreads : thread'[u].at # "ended"
      BY <1>2, <1>6, <2>1 DEF ToolOrder
    <2>5. \A u \in 1 .. ToolThreads : thread[u].at = "ended" => thread'[u].at = "ended" BY <1>1, <1>6
    <2>6. joined \in 0 .. ToolThreads /\ ToolThreads \in Nat BY <1>1, ToolPlaces DEF ToolTypes
    <2> QED BY <1>6, <2>1, <2>2, <2>3, <2>4, <2>5, <2>6 DEF ToolOrder
  <1>10. ToolOnce'
    <2>1. ToolOnce BY DEF ToolInv
    <2>2. ASSUME NEW a \in DOMAIN queue', NEW b \in DOMAIN queue', queue'[a] = queue'[b], queue'[a] # 0
          PROVE  a = b
      <3>1. a + 1 \in DOMAIN queue /\ b + 1 \in DOMAIN queue /\ a \in Int /\ b \in Int
        <4>1. a \in 1 .. Len(queue) - 1 /\ b \in 1 .. Len(queue) - 1 BY <1>2
        <4> QED BY <1>2, <4>1
      <3> QED BY <1>2, <2>1, <2>2, <3>1 DEF ToolOnce
    <2>3. \A u, v \in 1 .. ToolThreads : thread'[u].obj = thread'[v].obj /\ thread'[u].obj # 0 => u = v
      <3>1. o # 0 => o \notin Held BY <1>4, <2>1 DEF ToolOnce
      <3>2. \A u \in 1 .. ToolThreads : u # t /\ o # 0 => thread[u].obj # o BY <3>1 DEF Held
      <3> QED BY <1>6, <2>1, <3>2 DEF ToolOnce
    <2>4. /\ Queued' \cap Held' = {} /\ Queued' \cap Reported' = {} /\ Held' \cap Reported' = {}
          /\ Queued' \cup Held' \cup Reported' = Queued \cup Held \cup Reported
      BY <1>4, <1>6, <2>1 DEF ToolOnce, Queued
    <2> QED BY <1>6, <2>1, <2>2, <2>3, <2>4 DEF ToolOnce
  <1>11. ToolCovers'
    <2>1. Queued \cup Held \subseteq Queued' \cup Held' BY <1>4, <1>6 DEF Queued
    <2>2. \A u \in 1 .. ToolThreads : thread[u].at = "died" => thread'[u].at = "died" BY <1>1, <1>6
    <2> QED BY <1>6, <2>1, <2>2 DEF ToolInv, ToolCovers
  <1> QED BY <1>6, <1>7, <1>8, <1>9, <1>10, <1>11 DEF ToolInv

\* A thread has done with its object.
LEMMA ToolDoneInv ==
  ASSUME ToolInv, UNCHANGED config, NEW t \in 1 .. ToolThreads, thread[t].at \in {"work", "read"},
         NEW o, o = thread[t].obj, Tool!Next_(t),
         missing' \in {missing, Append(missing, o)}, corrupted' \in {corrupted, Append(corrupted, o)},
         missing' = missing \/ corrupted' = corrupted,
         DOMAIN result' = DOMAIN result, \A x \in DOMAIN result : x # o => result'[x] = result[x],
         missing' # missing => health[o] = "missing", corrupted' # corrupted => Tool!Damaged(o),
         Finished(o)'
  PROVE  ToolInv'
  <1>1. /\ ToolTypes /\ Tool!Threads /\ UNCHANGED queue /\ Tool!Becomes(t, "start", 0, thread[t].size)
    BY DEF ToolInv, Tool!Next_, Tool!None
  <1>2. /\ o \in 1 .. Tool!NObjects /\ thread[t].size \in Nat /\ o \in Held /\ o # 0
        /\ missing \in Seq(1 .. Tool!NObjects) /\ corrupted \in Seq(1 .. Tool!NObjects)
        /\ thread[t].at \notin {"ended", "died"} /\ Tool!NObjects \in Nat
    BY <1>1, ToolPlaces DEF ToolTypes, Held
  <1>3. Queued' = Queued BY <1>1 DEF Queued
  <1>4. /\ DOMAIN thread' = 1 .. ToolThreads
        /\ thread'[t].at = "start" /\ thread'[t].obj = 0 /\ thread'[t].size = thread[t].size
        /\ \A u \in 1 .. ToolThreads : u # t => thread'[u] = thread[u]
        /\ Held' = Held \ {o}
        /\ UNCHANGED <<config, health, main, i, joined>>
        /\ Tool!NObjects' = Tool!NObjects /\ Tool!Tool' = Tool!Tool
        /\ \A x : Tool!Damaged(x)' = Tool!Damaged(x)
        /\ \A x : Tool!Length(x)' = Tool!Length(x)
    BY <1>1, <1>2, ToolBecomes, ToolThreadKeeps
  <1>5. /\ missing' \in Seq(1 .. Tool!NObjects) /\ corrupted' \in Seq(1 .. Tool!NObjects)
        /\ Range(missing) \subseteq Range(missing') /\ Range(missing') \subseteq Range(missing) \cup {o}
        /\ Range(corrupted) \subseteq Range(corrupted')
        /\ Range(corrupted') \subseteq Range(corrupted) \cup {o}
        /\ (missing' = missing \/ o \in Range(missing')) /\ (missing' # missing => missing' = Append(missing, o))
        /\ (corrupted' # corrupted => corrupted' = Append(corrupted, o))
    <2> DEFINE S == 1 .. Tool!NObjects
    <2>1. o \in S /\ missing \in Seq(S) /\ corrupted \in Seq(S) BY <1>2
    <2> HIDE DEF S
    <2>2. /\ Append(missing, o) \in Seq(S) /\ Append(corrupted, o) \in Seq(S)
          /\ Range(Append(missing, o)) = Range(missing) \cup {o}
          /\ Range(Append(corrupted, o)) = Range(corrupted) \cup {o}
      BY <2>1, Appended
    <2> QED BY <2>1, <2>2 DEF S
  <1>6. ToolTypes'
    <2>1. ASSUME NEW u \in 1 .. ToolThreads
          PROVE
            /\ thread'[u].at \in {"start", "work", "read", "ended", "died"}
            /\ thread'[u].size \in Nat /\ thread'[u].obj \in 0 .. Tool!NObjects
            /\ (thread'[u].obj # 0) <=> thread'[u].at \in {"work", "read"}
      <3>1. CASE u = t BY <1>2, <1>4, <3>1
      <3>2. CASE u # t BY <1>1, <1>4, <3>2 DEF ToolTypes
      <3> QED BY <3>1, <3>2
    <2>2. DOMAIN result' = 1 .. Tool!NObjects BY <1>1 DEF ToolTypes
    <2> QED BY <1>1, <1>4, <1>5, <2>1, <2>2 DEF ToolTypes
  <1>7. ToolReads'
    <2>1. \A u \in 1 .. ToolThreads : thread'[u].at = "read" => thread'[u] = thread[u] BY <1>4
    <2> QED BY <1>4, <2>1 DEF ToolInv, ToolReads
  <1>8. ToolOrder'
    <2>1. \A u \in 1 .. ToolThreads : thread'[u].at = "ended" <=> thread[u].at = "ended" BY <1>2, <1>4
    <2>2. joined \in 0 .. ToolThreads /\ ToolThreads \in Nat BY <1>1, ToolPlaces DEF ToolTypes
    <2> QED BY <1>1, <1>4, <2>1, <2>2 DEF ToolInv, ToolOrder
  <1>9. ToolOnce'
    <2>1. ToolOnce /\ o \notin Reported /\ o \notin Queued BY <1>2 DEF ToolInv, ToolOnce
    <2>2. \A u, v \in 1 .. ToolThreads : thread'[u].obj = thread'[v].obj /\ thread'[u].obj # 0 => u = v
      BY <1>4, <2>1 DEF ToolOnce
    <2>3. IsInjective(missing') /\ IsInjective(corrupted')
      <3> DEFINE S == 1 .. Tool!NObjects
      <3>1. o \in S /\ missing \in Seq(S) /\ corrupted \in Seq(S) BY <1>2
      <3> HIDE DEF S
      <3>2. o \notin Range(missing) /\ o \notin Range(corrupted) BY <2>1 DEF Reported
      <3>3. IsInjective(missing) /\ IsInjective(corrupted) BY <2>1 DEF ToolOnce
      <3>4. IsInjective(Append(missing, o)) /\ IsInjective(Append(corrupted, o))
        BY <3>1, <3>2, <3>3, AppendedOnce
      <3> QED BY <3>3, <3>4
    <2>4. Reported' \subseteq Reported \cup {o} BY <1>5 DEF Reported
    <2> QED BY <1>1, <1>2, <1>3, <1>4, <2>1, <2>2, <2>3, <2>4 DEF ToolOnce
  <1>10. ToolTrue'
    <2>1. ToolTrue BY DEF ToolInv
    <2> QED BY <1>4, <1>5, <2>1 DEF ToolTrue
  <1>11. ToolCovers'
    <2>1. ToolCovers BY DEF ToolInv
    <2>2. ASSUME NEW x \in 1 .. i, x # o, Finished(x) PROVE Finished(x)'
      <3>1. x \in DOMAIN result BY <1>1, <1>2 DEF ToolTypes
      <3>2. result'[x] = result[x] BY <2>2, <3>1
      <3> QED BY <1>4, <1>5, <2>2, <3>2 DEF Finished
    <2>3. \A u \in 1 .. ToolThreads : thread[u].at = "died" => thread'[u].at = "died" BY <1>2, <1>4
    <2> QED BY <1>3, <1>4, <2>1, <2>2, <2>3 DEF ToolCovers
  <1> QED BY <1>6, <1>7, <1>8, <1>9, <1>10, <1>11 DEF ToolInv

LEMMA ToolLostInv ==
  ASSUME ToolInv, UNCHANGED config, NEW t \in 1 .. ToolThreads, Tool!Lost(t) PROVE ToolInv'
  <1>0. PICK o : o = thread[t].obj OBVIOUS
  <1>1. /\ Tool!Tool = "verify" /\ thread[t].at = "work" /\ health[o] = "missing"
        /\ missing' = Append(missing, o) /\ UNCHANGED <<corrupted, result>> /\ Tool!Next_(t)
    BY <1>0 DEF Tool!Lost
  <1>2. o \in 1 .. Tool!NObjects /\ missing \in Seq(1 .. Tool!NObjects)
    BY <1>0, <1>1, ToolPlaces DEF ToolInv, ToolTypes
  <1>3. o \in Range(missing')
    <2> DEFINE S == 1 .. Tool!NObjects
    <2>1. o \in S /\ missing \in Seq(S) BY <1>2
    <2> HIDE DEF S
    <2> QED BY <1>1, <2>1, Appended
  <1>4. UNCHANGED health /\ Tool!Tool' = Tool!Tool
    BY <1>1, ToolThreadKeeps DEF Tool!Next_
  <1>5. Finished(o)' BY <1>1, <1>3, <1>4 DEF Finished
  <1> QED BY <1>0, <1>1, <1>5, ToolDoneInv

\* What a thread that has looked at an object knows of it.
LEMMA ToolLooked ==
  ASSUME ToolInv, NEW t \in 1 .. ToolThreads, Tool!Looked(t), NEW o, o = thread[t].obj
  PROVE  /\ thread[t].at \in {"work", "read"} /\ o \in 1 .. Tool!NObjects /\ o \in Nat
         /\ health[o] # "missing"
         /\ Tool!Reads => thread[t].at = "read" /\ thread[t].size = Tool!Length(o)
         /\ thread[t].at = "read" => Tool!Reads
  <1>1. thread[t].at \in {"work", "read"} BY DEF Tool!Looked
  <1>2. o \in 1 .. Tool!NObjects /\ o \in Nat /\ thread[t].size \in Nat
    BY <1>1, ToolPlaces DEF ToolInv, ToolTypes
  <1>3. Tool!Length(o) \in Nat BY <1>2, ToolSizes
  <1> QED BY <1>1, <1>2, <1>3 DEF Tool!Looked, ToolInv, ToolReads, Tool!Reads, Tool!full

LEMMA ToolVerifiedInv ==
  ASSUME ToolInv, UNCHANGED config, NEW t \in 1 .. ToolThreads, Tool!Verified(t) PROVE ToolInv'
  <1>0. PICK o : o = thread[t].obj OBVIOUS
  <1>1. /\ Tool!Tool = "verify" /\ Tool!Looked(t)
        /\ corrupted' = (IF Tool!IsCorrupted(t) THEN Append(corrupted, o) ELSE corrupted)
        /\ UNCHANGED <<missing, result>> /\ Tool!Next_(t)
    BY <1>0 DEF Tool!Verified
  <1>2. /\ thread[t].at \in {"work", "read"} /\ o \in 1 .. Tool!NObjects /\ o \in Nat
        /\ health[o] # "missing"
        /\ Tool!Reads => thread[t].size = Tool!Length(o)
    BY <1>0, <1>1, ToolLooked
  <1>3. corrupted \in Seq(1 .. Tool!NObjects) BY DEF ToolInv, ToolTypes
  <1>4. Tool!IsCorrupted(t) <=> Tool!Damaged(o)
    BY <1>0, <1>1, <1>2, ToolSizes DEF Tool!IsCorrupted, Tool!Damaged, Tool!Reads
  <1>5. Tool!IsCorrupted(t) => o \in Range(corrupted')
    <2> DEFINE S == 1 .. Tool!NObjects
    <2>1. o \in S /\ corrupted \in Seq(S) BY <1>2, <1>3
    <2> HIDE DEF S
    <2> QED BY <1>1, <2>1, Appended
  <1>6. UNCHANGED health /\ Tool!Tool' = Tool!Tool /\ Tool!Damaged(o)' = Tool!Damaged(o)
    BY <1>1, ToolThreadKeeps DEF Tool!Next_
  <1>7. Finished(o)' BY <1>1, <1>2, <1>4, <1>5, <1>6 DEF Finished
  <1> QED BY <1>0, <1>1, <1>2, <1>4, <1>7, ToolDoneInv

LEMMA ToolDeletedInv ==
  ASSUME ToolInv, UNCHANGED config, NEW t \in 1 .. ToolThreads, Tool!Deleted(t) PROVE ToolInv'
  <1>0. PICK o : o = thread[t].obj OBVIOUS
  <1>1. /\ Tool!Tool = "clear" /\ Tool!Looked(t) /\ result' = [result EXCEPT ![o] = 0]
        /\ UNCHANGED <<missing, corrupted>> /\ Tool!Next_(t)
    BY <1>0 DEF Tool!Deleted
  <1>2. thread[t].at \in {"work", "read"} /\ o \in 1 .. Tool!NObjects
    BY <1>0, <1>1, ToolLooked
  <1>3. DOMAIN result = 1 .. Tool!NObjects /\ health[o] = "good"
    BY <1>1, <1>2 DEF ToolInv, ToolTypes
  <1>4. UNCHANGED health /\ Tool!Tool' = Tool!Tool /\ Tool!Damaged(o)' = Tool!Damaged(o)
    BY <1>1, ToolThreadKeeps DEF Tool!Next_
  <1>5. DOMAIN result' = DOMAIN result /\ result'[o] = 0
        /\ \A x \in DOMAIN result : x # o => result'[x] = result[x]
    BY <1>1, <1>2, <1>3
  <1>6. Finished(o)' BY <1>1, <1>3, <1>4, <1>5 DEF Finished, Tool!Damaged
  <1> QED BY <1>0, <1>1, <1>2, <1>5, <1>6, ToolDoneInv

LEMMA ToolWriteInv ==
  ASSUME ToolInv, UNCHANGED config, NEW t \in 1 .. ToolThreads, Tool!do_write(t) PROVE ToolInv'
  <1>0. PICK o : o = thread[t].obj OBVIOUS
  <1>1. /\ Tool!Tool = "clone" /\ Tool!Looked(t) /\ result' = [result EXCEPT ![o] = thread[t].size]
        /\ UNCHANGED <<missing, corrupted>> /\ Tool!Next_(t)
    BY <1>0 DEF Tool!do_write
  <1>2. thread[t].at \in {"work", "read"} /\ o \in 1 .. Tool!NObjects /\ o \in Nat
        /\ thread[t].size = Tool!Length(o)
    BY <1>0, <1>1, ToolLooked DEF Tool!Reads
  <1>3. DOMAIN result = 1 .. Tool!NObjects /\ health[o] = "good"
    BY <1>1, <1>2 DEF ToolInv, ToolTypes
  <1>4. UNCHANGED health /\ Tool!Tool' = Tool!Tool /\ Tool!Damaged(o)' = Tool!Damaged(o)
    BY <1>1, ToolThreadKeeps DEF Tool!Next_
  <1>5. DOMAIN result' = DOMAIN result /\ result'[o] = Tool!exp_size(o)
        /\ \A x \in DOMAIN result : x # o => result'[x] = result[x]
    BY <1>1, <1>2, <1>3, ToolSizes
  <1>6. Finished(o)' BY <1>1, <1>3, <1>4, <1>5 DEF Finished, Tool!Damaged
  <1> QED BY <1>0, <1>1, <1>2, <1>5, <1>6, ToolDoneInv

LEMMA ToolNextInv ==
  ASSUME ToolInv, UNCHANGED config, Tool!Next PROVE ToolInv'
  <1>1. CASE Tool!MainStep
    BY <1>1, ToolNextObjectInv, ToolPutInv, ToolPutTimeoutInv, ToolFinishInv, ToolPutNoneInv,
       ToolJoinInv DEF Tool!MainStep
  <1>2. ASSUME NEW t \in 1 .. ToolThreads, Tool!ThreadStep(t) PROVE ToolInv'
    BY <1>2, ToolGetInv, ToolDiesInv, ToolOpenReadInv, ToolReadInv, ToolReadAgainInv, ToolLostInv,
       ToolVerifiedInv, ToolDeletedInv, ToolWriteInv DEF Tool!ThreadStep
  <1>3. Tool!Thread = 1 .. ToolThreads BY DEF Tool!Thread
  <1> QED BY <1>1, <1>2, <1>3 DEF Tool!Next

LEMMA ToolStutterInv == ASSUME ToolInv, UNCHANGED vars PROVE ToolInv'
  <1>1. UNCHANGED <<config, health, queue, main, i, joined, thread, missing, corrupted, result>>
    BY DEF vars
  <1>2. Tool!NObjects' = Tool!NObjects /\ Tool!Tool' = Tool!Tool
    BY <1>1 DEF Tool!NObjects, Tool!Tool
  <1>3. ToolTypes' BY <1>1, <1>2 DEF ToolInv, ToolTypes
  <1>4. ToolReads' BY <1>1, <1>2 DEF ToolInv, ToolReads, Tool!Length
  <1>5. ToolOrder' BY <1>1, <1>2 DEF ToolInv, ToolOrder
  <1>6. Queued' = Queued /\ Held' = Held /\ Reported' = Reported BY <1>1 DEF Queued, Held, Reported
  <1>7. ToolOnce' BY <1>1, <1>6 DEF ToolInv, ToolOnce
  <1>8. \A o : Tool!Damaged(o)' = Tool!Damaged(o) BY <1>1 DEF Tool!Damaged, Tool!full
  <1>9. ToolTrue' BY <1>1, <1>8 DEF ToolInv, ToolTrue
  <1>10. \A o : Finished(o)' = Finished(o) BY <1>1, <1>2, <1>8 DEF Finished
  <1>11. ToolCovers' BY <1>1, <1>6, <1>10 DEF ToolInv, ToolCovers
  <1> QED BY <1>3, <1>4, <1>5, <1>7, <1>9, <1>11 DEF ToolInv

LEMMA ToolInvExact ==
  ASSUME ToolInv PROVE Tool!Completed /\ Tool!ReportExact /\ Tool!ErrorsRaised
  <1>1. config \in ToolSettings /\ ToolTypes BY DEF ToolInv, ToolTypes
  <1>2. /\ Tool!ToSet(missing) = Range(missing) /\ Tool!ToSet(corrupted) = Range(corrupted)
        /\ Tool!IsInjective(missing) = IsInjective(missing)
        /\ Tool!IsInjective(corrupted) = IsInjective(corrupted)
    BY DEF Tool!ToSet, Range, Tool!IsInjective, IsInjective
  <1>3. Tool!ReportExact BY <1>2 DEF ToolInv, ToolOnce, ToolTrue, Tool!ReportExact
  <1>4. Tool!ErrorsRaised
    BY <1>1, ToolSetting DEF ToolInv, ToolOrder, Tool!ErrorsRaised, Tool!Dead
  <1>5. Tool!Completed
    <2>1. SUFFICES ASSUME main = "done", NEW o \in 1 .. Tool!NObjects, o >= config.offset
                   PROVE  Finished(o)
      BY <1>1, <1>2, ToolSetting DEF Tool!Completed, Finished
    <2>2. i = Tool!NObjects /\ \A t \in 1 .. ToolThreads : thread[t].at = "ended"
      BY <2>1 DEF ToolInv, ToolOrder
    <2>3. 1 \in 1 .. ToolThreads BY <1>1, ToolSetting
    <2>4. Queued = {} BY <2>2, <2>3 DEF ToolInv, ToolOrder, Queued, Range
    <2>5. Held = {} BY <1>1, <2>2 DEF Held, ToolTypes
    <2> QED BY <1>1, <2>1, <2>2, <2>4, <2>5, ToolPlaces DEF ToolInv, ToolCovers
  <1> QED BY <1>3, <1>4, <1>5

-----------------------------------------------------------------------------
(***************************************************************************)
(* The end of the block cache (Teardown).                                  *)
(***************************************************************************)
EndPlaces == {"drop", "quit_uploaders", "quit_removers", "check_removers", "join_uploaders",
              "join_removers", "drain", "close", "done"}

EndTypes ==
    /\ config \in EndSettings /\ pc \in EndPlaces
    /\ DOMAIN todo = {"drop", "commit"} /\ DOMAIN waiting = {"drop", "commit"}
    /\ \A t \in {"drop", "commit"} : todo[t] \subseteq Objects /\ waiting[t] \subseteq Objects
    /\ \A t \in {"drop", "commit"}, a, b \in Objects : a \in waiting[t] /\ b \in waiting[t] => a = b
    /\ pc \notin {"close", "done"} => to_remove \in Seq(Objects \cup {Quit}) /\ ~reported
    /\ DOMAIN remover = End!Remover /\ DOMAIN ids = End!Remover
    /\ \A r \in End!Remover :
          remover[r] \in {"read", "delete", "last", "exited", "dead"} /\ ids[r] \in Seq(Objects)
    /\ pc \in {"drain", "close", "done"} => \A r \in End!Remover : remover[r] \in {"exited", "dead"}
    /\ DOMAIN uploader = UploadThreads
    /\ \A u \in UploadThreads : uploader[u] \in {"idle", "busy", "exited", "dead"}

\* An upload thread is told to quit when drop has nothing left for it.
EndUploads ==
    /\ pc = "drop" => \A u \in UploadThreads : uploader[u] # "exited"
    /\ pc # "drop" => \/ dirty = {} \/ "drop" \in raised
                      \/ \A u \in UploadThreads : uploader[u] = "dead"

\* Only drop removes objects, and none is lost.
EndAlone == config.Freed["commit"] = {} /\ config.Freed["drop"] \subseteq config.Stored

InQueue == IF pc \in {"close", "done"} THEN {} ELSE Range(to_remove) \ {Quit}
InHand == {o \in Objects : \E r \in End!Remover : o \in Range(ids[r])}

\* Objects come before sentinels, and threads end after both.
EndOrder ==
    /\ todo["commit"] = {} /\ waiting["commit"] = {}
    /\ pc # "drop" => waiting["drop"] = {}
    /\ pc \notin {"close", "done"} =>
          \A a, b \in DOMAIN to_remove : a < b /\ to_remove[a] = Quit => to_remove[b] = Quit
    /\ pc = "drop" => /\ Quit \notin Range(to_remove)
                      /\ \A r \in End!Remover : remover[r] \notin {"last", "exited"}
    /\ (\E r \in End!Remover : remover[r] \in {"last", "exited"}) => InQueue = {}
    /\ \A r \in End!Remover : remover[r] = "exited" => ids[r] = <<>>

\* An object is in one place, until it is removed.
EndOnce ==
    /\ todo["drop"] \cup waiting["drop"] \cup InQueue \cup InHand \subseteq store
    /\ todo["drop"] \cap waiting["drop"] = {}
    /\ (todo["drop"] \cup waiting["drop"]) \cap (InQueue \cup InHand) = {}
    /\ InQueue \cap InHand = {}
    /\ \A q, r \in End!Remover : q # r => Range(ids[q]) \cap Range(ids[r]) = {}
    /\ pc \notin {"close", "done"} =>
          \A a, b \in DOMAIN to_remove : to_remove[a] = to_remove[b] /\ to_remove[a] # Quit => a = b

\* The removal threads have died, and somebody knows.
EndKnown == (\A r \in End!Remover : remover[r] = "dead") /\ (reported \/ raised # {})

EndCovers ==
    \A o \in config.Freed["drop"] \cap store :
        o \in todo["drop"] \/ o \in waiting["drop"] \/ o \in InQueue \/ o \in InHand \/ EndKnown

EndInv ==
    EndTypes /\ EndUploads /\ (EndAlone => EndOrder /\ EndOnce /\ EndCovers)

LEMMA EndSetting ==
  ASSUME config \in EndSettings
  PROVE  /\ config.Multi \in BOOLEAN /\ End!Multi = config.Multi
         /\ config.Freed \in [{"drop", "commit"} -> SUBSET Objects]
         /\ End!Freed = config.Freed /\ End!Stored = config.Stored
         /\ config.Stored \subseteq Objects /\ Quit \notin Objects
         /\ End!Task = {"drop", "commit"} /\ End!Remover # {}
  <1>1. /\ config.Multi \in BOOLEAN /\ End!Multi = config.Multi
        /\ config.Freed \in [{"drop", "commit"} -> SUBSET Objects]
        /\ End!Freed = config.Freed /\ End!Stored = config.Stored
        /\ config.Stored \subseteq Objects /\ Quit \notin Objects
        /\ End!Task = {"drop", "commit"} /\ RemovalThreads # {}
    BY BatchesAssumption DEF End!Multi, End!Freed, End!Stored, End!Task
  <1> QED BY <1>1 DEF End!Remover

LEMMA EndInitInv == ASSUME End!Init PROVE EndInv
  <1>1. /\ config \in EndSettings /\ pc = "drop" /\ todo = config.Freed
        /\ waiting = [t \in {"drop", "commit"} |-> {}] /\ raised = {}
        /\ uploader = [u \in UploadThreads |-> "idle"] /\ to_remove = <<>>
        /\ remover = [r \in End!Remover |-> "read"] /\ ids = [r \in End!Remover |-> <<>>]
        /\ store = config.Stored
    BY EndSetting DEF End!Init
  <1>2. Range(to_remove) = {} /\ DOMAIN to_remove = {} BY <1>1 DEF Range
  <1>3. \A r \in End!Remover : Range(ids[r]) = {} BY <1>1 DEF Range
  <1>4. InHand = {} /\ InQueue = {} BY <1>2, <1>3 DEF InHand, InQueue
  <1>5. EndTypes BY <1>1, EndSetting DEF EndTypes, EndPlaces, End!Init
  <1>6. EndUploads BY <1>1 DEF EndUploads
  <1>7. EndAlone => EndOrder BY <1>1, <1>2 DEF EndOrder, EndAlone
  <1>8. EndAlone => EndOnce BY <1>1, <1>2, <1>3, <1>4 DEF EndOnce, EndAlone
  <1>9. EndAlone => EndCovers BY <1>1 DEF EndCovers
  <1> QED BY <1>5, <1>6, <1>7, <1>8, <1>9 DEF EndInv

-----------------------------------------------------------------------------
\* The setting is as before.
LEMMA EndSame ==
  ASSUME UNCHANGED config
  PROVE  End!Remover' = End!Remover /\ EndAlone' = EndAlone /\ End!Multi' = End!Multi
  BY DEF End!Remover, End!Multi, EndAlone

\* Nothing happens to the objects.
LEMMA EndFrame ==
  ASSUME EndInv, UNCHANGED config, pc' \in EndPlaces,
         UNCHANGED End!tasks, UNCHANGED to_remove, UNCHANGED End!removers, UNCHANGED reported,
         EndUploads', DOMAIN uploader' = UploadThreads,
         \A u \in UploadThreads : uploader'[u] \in {"idle", "busy", "exited", "dead"},
         pc' = "drop" => pc = "drop",
         pc = "drop" /\ pc' # "drop" => waiting["drop"] = {},
         pc \in {"close", "done"} <=> pc' \in {"close", "done"},
         pc' \in {"drain", "close", "done"} =>
            \/ pc \in {"drain", "close", "done"}
            \/ \A r \in End!Remover : remover[r] \in {"exited", "dead"}
  PROVE  EndInv'
  <1> USE EndSame
  <1>1. UNCHANGED <<config, todo, waiting, raised, to_remove, remover, ids, store, reported>>
    BY DEF End!tasks, End!removers
  <1>2. InQueue' = InQueue /\ InHand' = InHand BY <1>1 DEF InQueue, InHand
  <1>3. EndTypes' BY <1>1 DEF EndInv, EndTypes
  <1>4. ASSUME EndAlone PROVE EndOrder' /\ EndOnce' /\ EndCovers'
    <2>1. EndOrder' BY <1>1, <1>2, <1>4 DEF EndInv, EndOrder
    <2>2. EndOnce' BY <1>1, <1>2, <1>4 DEF EndInv, EndOnce
    <2>3. EndKnown' = EndKnown BY <1>1 DEF EndKnown
    <2>4. EndCovers' BY <1>1, <1>2, <1>4, <2>3 DEF EndInv, EndCovers
    <2> QED BY <2>1, <2>2, <2>4
  <1> QED BY <1>3, <1>4 DEF EndInv

LEMMA EndQueueUploadInv ==
  ASSUME EndInv, UNCHANGED config, NEW u \in UploadThreads, NEW e, End!QueueUpload(u, e) PROVE EndInv'
  <1>1. /\ UNCHANGED <<End!tasks, to_remove, End!removers, reported, pc, dirty, raised>>
        /\ uploader[u] = "idle" /\ uploader' = [uploader EXCEPT ![u] = "busy"]
    BY DEF End!QueueUpload, End!tasks
  <1>2. DOMAIN uploader = UploadThreads BY DEF EndInv, EndTypes
  <1>3. EndUploads' BY <1>1, <1>2 DEF EndInv, EndUploads
  <1>4. DOMAIN uploader' = UploadThreads
        /\ \A v \in UploadThreads : uploader'[v] \in {"idle", "busy", "exited", "dead"}
    BY <1>1, <1>2 DEF EndInv, EndTypes
  <1>5. pc \in EndPlaces BY DEF EndInv, EndTypes
  <1> QED BY <1>1, <1>3, <1>4, <1>5, EndFrame

LEMMA EndUploadDoneInv ==
  ASSUME EndInv, UNCHANGED config, NEW u \in UploadThreads, End!UploadDone(u) PROVE EndInv'
  <1>1. /\ UNCHANGED <<End!tasks, to_remove, End!removers, reported, pc, raised>> /\ dirty' \subseteq dirty
        /\ uploader[u] = "busy" /\ uploader' = [uploader EXCEPT ![u] = "idle"]
    BY DEF End!UploadDone, End!tasks
  <1>2. DOMAIN uploader = UploadThreads BY DEF EndInv, EndTypes
  <1>3. EndUploads' BY <1>1, <1>2 DEF EndInv, EndUploads
  <1>4. DOMAIN uploader' = UploadThreads
        /\ \A v \in UploadThreads : uploader'[v] \in {"idle", "busy", "exited", "dead"}
    BY <1>1, <1>2 DEF EndInv, EndTypes
  <1>5. pc \in EndPlaces BY DEF EndInv, EndTypes
  <1> QED BY <1>1, <1>3, <1>4, <1>5, EndFrame

LEMMA EndUploadDiesInv ==
  ASSUME EndInv, UNCHANGED config, NEW u \in UploadThreads, End!UploadDies(u) PROVE EndInv'
  <1>1. /\ UNCHANGED <<End!tasks, to_remove, End!removers, reported, pc, raised, dirty>>
        /\ uploader' = [uploader EXCEPT ![u] = "dead"]
    BY DEF End!UploadDies, End!tasks
  <1>2. DOMAIN uploader = UploadThreads BY DEF EndInv, EndTypes
  <1>3. EndUploads' BY <1>1, <1>2 DEF EndInv, EndUploads
  <1>4. DOMAIN uploader' = UploadThreads
        /\ \A v \in UploadThreads : uploader'[v] \in {"idle", "busy", "exited", "dead"}
    BY <1>1, <1>2 DEF EndInv, EndTypes
  <1>5. pc \in EndPlaces BY DEF EndInv, EndTypes
  <1> QED BY <1>1, <1>3, <1>4, <1>5, EndFrame

LEMMA EndQuitUploaderInv ==
  ASSUME EndInv, UNCHANGED config, NEW u \in UploadThreads, End!QuitUploader(u) PROVE EndInv'
  <1>1. /\ UNCHANGED <<End!tasks, to_remove, End!removers, reported, pc, raised, dirty>>
        /\ pc = "quit_uploaders" /\ uploader[u] = "idle"
        /\ uploader' = [uploader EXCEPT ![u] = "exited"]
    BY DEF End!QuitUploader, End!tasks
  <1>2. DOMAIN uploader = UploadThreads BY DEF EndInv, EndTypes
  <1>3. EndUploads' BY <1>1, <1>2 DEF EndInv, EndUploads
  <1>4. DOMAIN uploader' = UploadThreads
        /\ \A v \in UploadThreads : uploader'[v] \in {"idle", "busy", "exited", "dead"}
    BY <1>1, <1>2 DEF EndInv, EndTypes
  <1>5. pc \in EndPlaces BY DEF EndInv, EndTypes
  <1> QED BY <1>1, <1>3, <1>4, <1>5, EndFrame

\* drop ends with every entry uploaded, or for a reason.
LEMMA EndDropEndsInv ==
  ASSUME EndInv, UNCHANGED config, End!DropEnds PROVE EndInv'
  <1>1. /\ UNCHANGED <<End!tasks, to_remove, End!removers, reported, raised, dirty, uploader>>
        /\ pc = "drop" /\ waiting["drop"] = {} /\ pc' = "quit_uploaders"
        /\ dirty = {} \/ ~End!UploadersAlive \/ "drop" \in raised
    BY DEF End!DropEnds, End!destroying, End!tasks, End!uploads
  <1>2. EndTypes /\ EndUploads BY DEF EndInv
  <1>3. ~End!UploadersAlive => \A u \in UploadThreads : uploader[u] = "dead"
    BY <1>1, <1>2 DEF EndUploads, End!UploadersAlive, End!Alive
  <1>4. EndUploads' BY <1>1, <1>3 DEF EndUploads
  <1>5. pc' \in EndPlaces BY <1>1 DEF EndPlaces
  <1> QED BY <1>1, <1>2, <1>4, <1>5, EndFrame DEF EndTypes

\* The steps of destroy that only lead to the next one.
LEMMA EndPassesInv ==
  ASSUME EndInv, UNCHANGED config,
         \/ End!UploadersSignalled \/ End!PutTimesOut \/ End!CheckRemovers \/ End!RemoversSignalled
         \/ End!JoinUploaders \/ End!JoinRemovers \/ End!Close
  PROVE  EndInv'
  <1>1. /\ UNCHANGED <<End!tasks, to_remove, End!removers, reported, raised, dirty, uploader>>
        /\ pc # "drop" /\ pc' # "drop" /\ pc' \in EndPlaces
        /\ pc \in {"close", "done"} <=> pc' \in {"close", "done"}
        /\ pc' \in {"drain", "close", "done"} => pc = "close" \/ ~End!RemoversAlive
    BY DEF End!UploadersSignalled, End!PutTimesOut, End!CheckRemovers, End!RemoversSignalled,
           End!JoinUploaders, End!JoinRemovers, End!Close, End!destroying, End!tasks, End!uploads,
           EndPlaces
  <1>2. EndTypes /\ EndUploads BY DEF EndInv
  <1>3. ~End!RemoversAlive => \A r \in End!Remover : remover[r] \in {"exited", "dead"}
    BY DEF End!RemoversAlive, End!Alive
  <1>4. EndUploads' BY <1>1, <1>2 DEF EndUploads
  <1> QED BY <1>1, <1>2, <1>3, <1>4, EndFrame DEF EndTypes

-----------------------------------------------------------------------------
(* Objects on their way to be removed. *)

\* A step that changes the queue, the hands of the threads or what is to do.
LEMMA EndQueueGrows ==
  ASSUME EndTypes, pc \notin {"close", "done"}, NEW x \in Objects \cup {Quit},
         to_remove' = Append(to_remove, x)
  PROVE  /\ to_remove' \in Seq(Objects \cup {Quit}) /\ DOMAIN to_remove' = 1 .. Len(to_remove) + 1
         /\ Len(to_remove) \in Nat /\ DOMAIN to_remove = 1 .. Len(to_remove)
         /\ \A a \in 1 .. Len(to_remove) : to_remove'[a] = to_remove[a]
         /\ to_remove'[Len(to_remove) + 1] = x
         /\ Range(to_remove') = Range(to_remove) \cup {x}
  <1> DEFINE S == Objects \cup {Quit}
  <1>1. to_remove \in Seq(S) /\ x \in S BY DEF EndTypes
  <1> HIDE DEF S
  <1>2. /\ to_remove' \in Seq(S) /\ DOMAIN to_remove' = 1 .. Len(to_remove) + 1
        /\ \A a \in 1 .. Len(to_remove) : to_remove'[a] = to_remove[a]
        /\ to_remove'[Len(to_remove) + 1] = x
        /\ Range(to_remove') = Range(to_remove) \cup {x}
    BY <1>1, Appended
  <1>3. Len(to_remove) \in Nat /\ DOMAIN to_remove = 1 .. Len(to_remove) BY <1>1, LenProperties
  <1> QED BY <1>2, <1>3 DEF S

\* An object that was in hand or to do is queued now.
LEMMA EndQueuedInv ==
  ASSUME EndInv, UNCHANGED config, NEW o \in Objects, UNCHANGED pc, EndAlone, pc = "drop",
         to_remove' = Append(to_remove, o),
         UNCHANGED <<raised, remover, ids, store, reported>>,
         todo'["commit"] = {}, waiting'["commit"] = {},
         todo'["drop"] \cup waiting'["drop"] = (todo["drop"] \cup waiting["drop"]) \ {o},
         o \in todo["drop"] \cup waiting["drop"],
         todo'["drop"] \cap waiting'["drop"] = {}
  PROVE  EndOrder' /\ EndOnce' /\ EndCovers'
  <1> USE EndSame
  <1>1. EndTypes /\ EndOrder /\ EndOnce /\ EndCovers BY DEF EndInv
  <1>2. config \in EndSettings /\ o # Quit BY <1>1, EndSetting DEF EndTypes
  <1>3. /\ to_remove' \in Seq(Objects \cup {Quit}) /\ DOMAIN to_remove' = 1 .. Len(to_remove) + 1
        /\ Len(to_remove) \in Nat /\ DOMAIN to_remove = 1 .. Len(to_remove)
        /\ \A a \in 1 .. Len(to_remove) : to_remove'[a] = to_remove[a]
        /\ to_remove'[Len(to_remove) + 1] = o
        /\ Range(to_remove') = Range(to_remove) \cup {o}
    BY <1>1, EndQueueGrows
  <1>4. InQueue' = InQueue \cup {o} /\ InHand' = InHand BY <1>2, <1>3 DEF InQueue, InHand
  <1>5. o \notin InQueue \cup InHand /\ o \in store BY <1>1 DEF EndOnce
  <1>6. EndOrder'
    <2>1. Quit \notin Range(to_remove') BY <1>1, <1>2, <1>3 DEF EndOrder
    <2>2. \A a \in DOMAIN to_remove' : to_remove'[a] # Quit BY <2>1 DEF Range
    <2>3. \A r \in End!Remover : remover[r] \notin {"last", "exited"} BY <1>1 DEF EndOrder
    <2> QED BY <1>1, <2>1, <2>2, <2>3 DEF EndOrder
  <1>7. EndOnce'
    <2>1. \A a \in 1 .. Len(to_remove) : to_remove[a] # o
      BY <1>2, <1>3, <1>5 DEF InQueue, Range
    <2>2. \A a, b \in DOMAIN to_remove' :
             to_remove'[a] = to_remove'[b] /\ to_remove'[a] # Quit => a = b
      BY <1>1, <1>3, <2>1 DEF EndOnce
    <2> QED BY <1>1, <1>4, <1>5, <2>2 DEF EndOnce
  <1>8. EndCovers'
    <2>1. EndKnown' = EndKnown BY DEF EndKnown
    <2> QED BY <1>1, <1>4, <2>1 DEF EndCovers
  <1> QED BY <1>6, <1>7, <1>8

LEMMA EndDerefInv ==
  ASSUME EndInv, UNCHANGED config, NEW t \in {"drop", "commit"}, NEW o \in Objects, End!Deref(t, o)
  PROVE  EndInv'
  <1> USE EndSame
  <1>1. /\ EndTypes /\ o \in todo[t] /\ waiting[t] = {} /\ (t = "drop" => pc = "drop")
        /\ pc \notin {"close", "done"}
        /\ todo' = [todo EXCEPT ![t] = todo[t] \ {o}]
        /\ \/ to_remove' = Append(to_remove, o) /\ UNCHANGED waiting
           \/ waiting' = [waiting EXCEPT ![t] = {o}] /\ UNCHANGED to_remove
        /\ UNCHANGED <<pc, raised, dirty, uploader, remover, ids, store, reported>>
    BY DEF EndInv, End!Deref, End!Running, End!uploads, End!removers
  <1>2. EndTypes'
    <2>1. to_remove' \in Seq(Objects \cup {Quit}) BY <1>1, EndQueueGrows DEF EndTypes
    <2> QED BY <1>1, <2>1 DEF EndTypes
  <1>3. EndUploads' BY <1>1 DEF EndInv, EndUploads
  <1>4. ASSUME EndAlone PROVE EndOrder' /\ EndOnce' /\ EndCovers'
    <2>1. EndOrder /\ EndOnce /\ EndCovers BY <1>4 DEF EndInv
    <2>2. t = "drop" /\ pc = "drop" BY <1>1, <2>1 DEF EndOrder
    <2>3. DOMAIN todo = {"drop", "commit"} /\ DOMAIN waiting = {"drop", "commit"} BY <1>1 DEF EndTypes
    <2>4. todo'["commit"] = {} /\ waiting'["commit"] = {} /\ todo'["drop"] = todo["drop"] \ {o}
      BY <1>1, <2>1, <2>2, <2>3 DEF EndOrder
    <2>5. CASE to_remove' = Append(to_remove, o) /\ UNCHANGED waiting
      BY <1>1, <1>4, <2>2, <2>4, <2>5, EndQueuedInv
    <2>6. CASE waiting' = [waiting EXCEPT ![t] = {o}] /\ UNCHANGED to_remove
      <3>1. waiting'["drop"] = {o} BY <2>2, <2>3, <2>6
      <3>2. InQueue' = InQueue /\ InHand' = InHand BY <1>1, <2>6 DEF InQueue, InHand
      <3>3. EndOrder' BY <1>1, <2>1, <2>2, <2>4, <2>6, <3>2 DEF EndOrder
      <3>4. EndOnce' BY <1>1, <2>1, <2>2, <2>4, <2>6, <3>1, <3>2 DEF EndOnce
      <3>5. EndKnown' = EndKnown BY <1>1 DEF EndKnown
      <3>6. EndCovers' BY <1>1, <2>1, <2>2, <2>4, <3>1, <3>2, <3>5 DEF EndCovers
      <3> QED BY <3>3, <3>4, <3>6
    <2> QED BY <1>1, <2>5, <2>6
  <1> QED BY <1>2, <1>3, <1>4 DEF EndInv

LEMMA EndQueueRemovalInv ==
  ASSUME EndInv, UNCHANGED config, NEW t \in {"drop", "commit"}, NEW o \in Objects, End!QueueRemoval(t, o)
  PROVE  EndInv'
  <1> USE EndSame
  <1>1. /\ EndTypes /\ o \in waiting[t]
        /\ to_remove' = Append(to_remove, o) /\ waiting' = [waiting EXCEPT ![t] = {}]
        /\ UNCHANGED <<pc, todo, raised, dirty, uploader, remover, ids, store, reported>>
    BY DEF EndInv, End!QueueRemoval, End!uploads, End!removers
  <1>2. EndTypes'
    <2>1. pc \notin {"close", "done"} => to_remove' \in Seq(Objects \cup {Quit}) BY <1>1, EndQueueGrows DEF EndTypes
    <2> QED BY <1>1, <2>1 DEF EndTypes
  <1>3. EndUploads' BY <1>1 DEF EndInv, EndUploads
  <1>4. ASSUME EndAlone PROVE EndOrder' /\ EndOnce' /\ EndCovers'
    <2>1. EndOrder /\ EndOnce /\ EndCovers BY <1>4 DEF EndInv
    <2>2. t = "drop" /\ pc = "drop" BY <1>1, <2>1 DEF EndOrder
    <2>3. DOMAIN todo = {"drop", "commit"} /\ DOMAIN waiting = {"drop", "commit"} BY <1>1 DEF EndTypes
    <2>4. waiting'["commit"] = {} /\ todo'["commit"] = {} /\ waiting'["drop"] = {}
      BY <1>1, <2>1, <2>2, <2>3 DEF EndOrder
    <2>5. waiting["drop"] = {o} BY <1>1, <2>2 DEF EndTypes
    <2> QED BY <1>1, <1>4, <2>1, <2>2, <2>4, <2>5, EndQueuedInv DEF EndOnce
  <1> QED BY <1>2, <1>3, <1>4 DEF EndInv

\* No thread is left that makes room.
LEMMA EndNoRemoversInv ==
  ASSUME EndInv, UNCHANGED config, NEW t \in {"drop", "commit"}, End!NoRemovers(t) PROVE EndInv'
  <1> USE EndSame
  <1>1. /\ EndTypes /\ waiting[t] # {} /\ ~End!RemoversAlive
        /\ waiting' = [waiting EXCEPT ![t] = {}] /\ todo' = [todo EXCEPT ![t] = {}]
        /\ raised' = raised \cup {t}
        /\ UNCHANGED <<pc, to_remove, dirty, uploader, remover, ids, store, reported>>
    BY DEF EndInv, End!NoRemovers, End!uploads, End!removers
  <1>2. EndTypes' BY <1>1 DEF EndTypes
  <1>3. EndUploads' BY <1>1 DEF EndInv, EndUploads
  <1>4. ASSUME EndAlone PROVE EndOrder' /\ EndOnce' /\ EndCovers'
    <2>1. EndOrder /\ EndOnce /\ EndCovers BY <1>4 DEF EndInv
    <2>2. t = "drop" /\ pc = "drop" BY <1>1, <2>1 DEF EndOrder
    <2>3. DOMAIN todo = {"drop", "commit"} /\ DOMAIN waiting = {"drop", "commit"} BY <1>1 DEF EndTypes
    <2>4. /\ waiting'["commit"] = {} /\ todo'["commit"] = {} /\ waiting'["drop"] = {} /\ todo'["drop"] = {}
      BY <1>1, <2>1, <2>2, <2>3 DEF EndOrder
    <2>5. InQueue' = InQueue /\ InHand' = InHand BY <1>1 DEF InQueue, InHand
    <2>6. EndKnown'
      <3>1. \A r \in End!Remover : remover[r] = "dead"
        BY <1>1, <2>1, <2>2 DEF EndTypes, EndOrder, End!RemoversAlive, End!Alive
      <3> QED BY <1>1, <3>1 DEF EndKnown
    <2>7. EndOrder' BY <1>1, <2>1, <2>2, <2>4, <2>5 DEF EndOrder
    <2>8. EndOnce' BY <1>1, <2>1, <2>4, <2>5 DEF EndOnce
    <2>9. EndCovers' BY <2>6 DEF EndCovers
    <2> QED BY <2>7, <2>8, <2>9
  <1> QED BY <1>2, <1>3, <1>4 DEF EndInv

LEMMA EndTail ==
  ASSUME EndTypes, pc \notin {"close", "done"}, to_remove # <<>>, to_remove' = Tail(to_remove)
  PROVE  /\ to_remove' \in Seq(Objects \cup {Quit}) /\ Head(to_remove) = to_remove[1]
         /\ to_remove[1] \in Objects \cup {Quit}
         /\ Len(to_remove) \in Nat \ {0} /\ DOMAIN to_remove = 1 .. Len(to_remove)
         /\ DOMAIN to_remove' = 1 .. Len(to_remove) - 1
         /\ \A k \in 1 .. Len(to_remove) - 1 : to_remove'[k] = to_remove[k + 1]
         /\ Range(to_remove) = {to_remove[1]} \cup Range(to_remove')
         /\ Range(to_remove') = {to_remove[k] : k \in 2 .. Len(to_remove)}
         /\ \A a \in DOMAIN to_remove' : a + 1 \in DOMAIN to_remove /\ a + 1 # 1 /\ a \in Int
         /\ \A a, b \in DOMAIN to_remove' : (a < b => a + 1 < b + 1) /\ (a + 1 = b + 1 => a = b)
  <1> DEFINE S == Objects \cup {Quit}
  <1>1. to_remove \in Seq(S) BY DEF EndTypes
  <1> HIDE DEF S
  <1>2. /\ to_remove' \in Seq(S) /\ Head(to_remove) = to_remove[1] /\ to_remove[1] \in S
        /\ Len(to_remove) \in Nat \ {0}
        /\ DOMAIN to_remove' = 1 .. Len(to_remove) - 1
        /\ \A k \in 1 .. Len(to_remove) - 1 : to_remove'[k] = to_remove[k + 1]
        /\ Range(to_remove) = {to_remove[1]} \cup Range(to_remove')
        /\ Range(to_remove') = {to_remove[k] : k \in 2 .. Len(to_remove)}
    BY <1>1, TailOf
  <1>3. DOMAIN to_remove = 1 .. Len(to_remove) BY <1>1, LenProperties
  <1>4. \A a \in DOMAIN to_remove' : a + 1 \in DOMAIN to_remove /\ a + 1 # 1 /\ a \in Int BY <1>2, <1>3
  <1>5. \A a, b \in DOMAIN to_remove' : (a < b => a + 1 < b + 1) /\ (a + 1 = b + 1 => a = b) BY <1>4
  <1> QED BY <1>2, <1>3, <1>4, <1>5 DEF S

Others(r) == {o \in Objects : \E q \in End!Remover \ {r} : o \in Range(ids[q])}

\* The threads alone go on.
LEMMA EndThreadTypes ==
  ASSUME EndInv, UNCHANGED config, NEW r \in End!Remover, remover[r] \in {"read", "delete", "last"},
         NEW w \in {"read", "delete", "last", "exited", "dead"},
         DOMAIN remover' = End!Remover, remover'[r] = w,
         \A q \in End!Remover : q # r => remover'[q] = remover[q],
         NEW s \in Seq(Objects), ids' = [ids EXCEPT ![r] = s],
         to_remove' \in Seq(Objects \cup {Quit}),
         UNCHANGED <<pc, todo, waiting, raised, dirty, uploader, reported>>
  PROVE  /\ EndTypes' /\ EndUploads' /\ pc \notin {"drain", "close", "done"}
         /\ remover'[r] = w /\ ids'[r] = s
         /\ \A q \in End!Remover : q # r => remover'[q] = remover[q] /\ ids'[q] = ids[q]
         /\ InHand' = Others(r) \cup Range(s) /\ InHand = Others(r) \cup Range(ids[r])
  <1> USE EndSame
  <1>1. EndTypes /\ EndUploads BY DEF EndInv
  <1>2. /\ DOMAIN remover' = End!Remover /\ DOMAIN ids' = End!Remover
        /\ remover'[r] = w /\ ids'[r] = s
        /\ \A q \in End!Remover : q # r => remover'[q] = remover[q] /\ ids'[q] = ids[q]
    BY <1>1 DEF EndTypes
  <1>3. pc \notin {"drain", "close", "done"} BY <1>1 DEF EndTypes
  <1>4. ASSUME NEW q \in End!Remover
        PROVE  remover'[q] \in {"read", "delete", "last", "exited", "dead"} /\ ids'[q] \in Seq(Objects)
    <2>1. CASE q = r BY <1>2, <2>1
    <2>2. CASE q # r BY <1>1, <1>2, <2>2 DEF EndTypes
    <2> QED BY <2>1, <2>2
  <1>5. EndTypes' BY <1>1, <1>2, <1>3, <1>4 DEF EndTypes
  <1>6. EndUploads' BY <1>1 DEF EndUploads
  <1>7. InHand' = Others(r) \cup Range(s) /\ InHand = Others(r) \cup Range(ids[r])
    <2>1. ids[r] \in Seq(Objects) BY <1>1 DEF EndTypes
    <2>2. Range(s) \subseteq Objects /\ Range(ids[r]) \subseteq Objects BY <2>1, RangeOfSeq
    <2>3. InHand' = Others(r) \cup Range(s) BY <1>2, <2>2 DEF InHand, Others
    <2>4. InHand = Others(r) \cup Range(ids[r]) BY <2>2 DEF InHand, Others
    <2> QED BY <2>3, <2>4
  <1> QED BY <1>2, <1>3, <1>5, <1>6, <1>7

LEMMA EndTakeIdInv ==
  ASSUME EndInv, UNCHANGED config, NEW r \in End!Remover, End!TakeId(r) PROVE EndInv'
  <1> USE EndSame
  <1>0. PICK o, s : o = to_remove[1] /\ s = Append(ids[r], o) OBVIOUS
  <1>1. /\ EndTypes /\ remover[r] = "read" /\ to_remove # <<>> /\ Head(to_remove) # Quit
        /\ ids' = [ids EXCEPT ![r] = Append(ids[r], Head(to_remove))] /\ to_remove' = Tail(to_remove)
        /\ remover' \in {remover, [remover EXCEPT ![r] = "delete"]}
        /\ UNCHANGED <<pc, todo, waiting, raised, dirty, uploader, store, reported>>
    BY DEF EndInv, End!TakeId, End!tasks, End!uploads
  <1>2. /\ DOMAIN remover = End!Remover /\ DOMAIN ids = End!Remover /\ ids[r] \in Seq(Objects)
        /\ pc \notin {"drain", "close", "done"}
    BY <1>1 DEF EndTypes
  <1>3. /\ to_remove' \in Seq(Objects \cup {Quit}) /\ Head(to_remove) = o
        /\ o \in Objects \cup {Quit}
        /\ Len(to_remove) \in Nat \ {0} /\ DOMAIN to_remove = 1 .. Len(to_remove)
        /\ DOMAIN to_remove' = 1 .. Len(to_remove) - 1
        /\ \A k \in 1 .. Len(to_remove) - 1 : to_remove'[k] = to_remove[k + 1]
        /\ Range(to_remove) = {o} \cup Range(to_remove')
        /\ Range(to_remove') = {to_remove[k] : k \in 2 .. Len(to_remove)}
        /\ \A a \in DOMAIN to_remove' : a + 1 \in DOMAIN to_remove /\ a + 1 # 1 /\ a \in Int
        /\ \A a, b \in DOMAIN to_remove' : (a < b => a + 1 < b + 1) /\ (a + 1 = b + 1 => a = b)
    BY <1>0, <1>1, <1>2, EndTail
  <1>4. o \in Objects /\ o # Quit BY <1>1, <1>3
  <1>5. s \in Seq(Objects) /\ Range(s) = Range(ids[r]) \cup {o}
    BY <1>0, <1>2, <1>4, Appended
  <1>6. PICK w \in {"read", "delete"} :
           /\ DOMAIN remover' = End!Remover /\ remover'[r] = w
           /\ \A q \in End!Remover : q # r => remover'[q] = remover[q]
    BY <1>1, <1>2
  <1>7. /\ EndTypes' /\ EndUploads'
        /\ remover'[r] = w /\ ids'[r] = s
        /\ \A q \in End!Remover : q # r => remover'[q] = remover[q] /\ ids'[q] = ids[q]
        /\ InHand' = Others(r) \cup Range(s) /\ InHand = Others(r) \cup Range(ids[r])
    <2>1. remover[r] \in {"read", "delete", "last"} /\ w \in {"read", "delete", "last", "exited", "dead"}
      BY <1>1
    <2>2. ids' = [ids EXCEPT ![r] = s] BY <1>0, <1>1, <1>3
    <2>3. s \in Seq(Objects) /\ to_remove' \in Seq(Objects \cup {Quit}) BY <1>3, <1>5
    <2>4. UNCHANGED <<pc, todo, waiting, raised, dirty, uploader, reported>> BY <1>1
    <2> QED BY <1>6, <2>1, <2>2, <2>3, <2>4, EndThreadTypes
  <1>8. ASSUME EndAlone PROVE EndOrder' /\ EndOnce' /\ EndCovers'
    <2>1. EndOrder /\ EndOnce /\ EndCovers BY <1>8 DEF EndInv
    <2>2. o \notin Range(to_remove') /\ o \in InQueue
      <3>1. ASSUME NEW k \in 2 .. Len(to_remove), to_remove[k] = o PROVE FALSE
        <4>1. k \in DOMAIN to_remove /\ 1 \in DOMAIN to_remove /\ k # 1 BY <1>3
        <4> QED BY <1>0, <1>2, <1>4, <2>1, <3>1, <4>1 DEF EndOnce
      <3> QED BY <1>2, <1>3, <1>4, <3>1 DEF InQueue
    <2>3. InQueue' = InQueue \ {o} /\ InHand' = InHand \cup {o}
      <3>1. InQueue' = InQueue \ {o} BY <1>1, <1>2, <1>3, <2>2 DEF InQueue
      <3>2. InHand' = InHand \cup {o} BY <1>5, <1>7
      <3> QED BY <3>1, <3>2
    <2>4. EndOrder'
      <3>1. \A a, b \in DOMAIN to_remove' : a < b /\ to_remove'[a] = Quit => to_remove'[b] = Quit
        BY <1>2, <1>3, <2>1 DEF EndOrder
      <3>2. Quit \notin Range(to_remove) => Quit \notin Range(to_remove') BY <1>3
      <3>3. \A q \in End!Remover : remover[q] \notin {"last", "exited"}
        BY <2>1, <2>2 DEF EndOrder
      <3>4. \A q \in End!Remover : remover'[q] \notin {"last", "exited"} BY <1>7, <3>3
      <3> QED BY <1>1, <2>1, <3>1, <3>2, <3>4 DEF EndOrder
    <2>5. EndOnce'
      <3>1. \A a, b \in DOMAIN to_remove' :
               to_remove'[a] = to_remove'[b] /\ to_remove'[a] # Quit => a = b
        <4>1. ASSUME NEW a \in DOMAIN to_remove', NEW b \in DOMAIN to_remove',
                     to_remove'[a] = to_remove'[b], to_remove'[a] # Quit
              PROVE  a = b
          <5>1. /\ a + 1 \in DOMAIN to_remove /\ b + 1 \in DOMAIN to_remove
                /\ to_remove'[a] = to_remove[a + 1] /\ to_remove'[b] = to_remove[b + 1]
            BY <1>3
          <5>2. a + 1 = b + 1 BY ONLY <1>2, <2>1, <4>1, <5>1 DEF EndOnce
          <5> QED BY <1>3, <5>2
        <4> QED BY <4>1
      <3>2. \A q \in End!Remover : o \notin Range(ids[q]) BY <1>4, <2>1, <2>2 DEF EndOnce, InHand
      <3>3. \A p, q \in End!Remover : p # q => Range(ids'[p]) \cap Range(ids'[q]) = {}
        BY <1>5, <1>7, <2>1, <3>2 DEF EndOnce
      <3>4. /\ todo["drop"] \cup waiting["drop"] \cup InQueue' \cup InHand' \subseteq store
            /\ (todo["drop"] \cup waiting["drop"]) \cap (InQueue' \cup InHand') = {}
            /\ InQueue' \cap InHand' = {}
        BY <2>1, <2>2, <2>3 DEF EndOnce
      <3> QED BY <1>1, <2>1, <3>1, <3>3, <3>4 DEF EndOnce
    <2>6. EndCovers'
      <3>1. ~EndKnown BY <1>1 DEF EndKnown
      <3> QED BY <1>1, <2>1, <2>3, <3>1 DEF EndCovers
    <2> QED BY <2>4, <2>5, <2>6
  <1> QED BY <1>7, <1>8 DEF EndInv

\* A thread turns to what it has in hand, or dies with it.
LEMMA EndTurnsInv ==
  ASSUME EndInv, UNCHANGED config, NEW r \in End!Remover, End!FlushIds(r) \/ End!RemoverDies(r)
  PROVE  EndInv'
  <1> USE EndSame
  <1>1. /\ EndTypes /\ remover[r] \in {"read", "delete", "last"}
        /\ UNCHANGED <<pc, todo, waiting, raised, dirty, uploader, to_remove, ids, store, reported>>
    BY DEF EndInv, End!FlushIds, End!RemoverDies, End!tasks, End!uploads
  <1>2. PICK w \in {"delete", "dead"} : remover' = [remover EXCEPT ![r] = w]
    BY DEF End!FlushIds, End!RemoverDies
  <1>3. /\ DOMAIN remover = End!Remover /\ DOMAIN ids = End!Remover /\ ids[r] \in Seq(Objects)
        /\ pc \notin {"drain", "close", "done"}
    BY <1>1 DEF EndTypes
  <1>4. /\ DOMAIN remover' = End!Remover /\ remover'[r] = w
        /\ \A q \in End!Remover : q # r => remover'[q] = remover[q]
    BY <1>2, <1>3
  <1>5. EndTypes' BY <1>1, <1>3, <1>4 DEF EndTypes
  <1>6. EndUploads' BY <1>1 DEF EndInv, EndUploads
  <1>7. InQueue' = InQueue /\ InHand' = InHand BY <1>1 DEF InQueue, InHand
  <1>8. ASSUME EndAlone PROVE EndOrder' /\ EndOnce' /\ EndCovers'
    <2>1. EndOrder /\ EndOnce /\ EndCovers BY <1>8 DEF EndInv
    <2>2. \A q \in End!Remover : remover'[q] \in {"last", "exited"} => remover[q] = remover'[q]
      BY <1>4
    <2>3. EndOrder' BY <1>1, <1>7, <2>1, <2>2 DEF EndOrder
    <2>4. EndOnce' BY <1>1, <1>7, <2>1 DEF EndOnce
    <2>5. ~EndKnown BY <1>1 DEF EndKnown
    <2>6. EndCovers' BY <1>1, <1>7, <2>1, <2>5 DEF EndCovers
    <2> QED BY <2>3, <2>4, <2>6
  <1> QED BY <1>5, <1>6, <1>8 DEF EndInv

LEMMA EndTakeQuitInv ==
  ASSUME EndInv, UNCHANGED config, NEW r \in End!Remover, End!TakeQuit(r) PROVE EndInv'
  <1> USE EndSame
  <1>1. /\ EndTypes /\ remover[r] = "read" /\ to_remove # <<>> /\ Head(to_remove) = Quit
        /\ to_remove' = Tail(to_remove)
        /\ remover' = [remover EXCEPT ![r] = IF ids[r] = <<>> THEN "exited" ELSE "last"]
        /\ UNCHANGED <<pc, todo, waiting, raised, dirty, uploader, ids, store, reported>>
    BY DEF EndInv, End!TakeQuit, End!tasks, End!uploads
  <1>2. /\ DOMAIN remover = End!Remover /\ DOMAIN ids = End!Remover /\ ids[r] \in Seq(Objects)
        /\ pc \notin {"drain", "close", "done"}
    BY <1>1 DEF EndTypes
  <1>3. PICK w \in {"last", "exited"} :
           /\ DOMAIN remover' = End!Remover /\ remover'[r] = w /\ (w = "exited" => ids[r] = <<>>)
           /\ \A q \in End!Remover : q # r => remover'[q] = remover[q]
    BY <1>1, <1>2
  <1>4. /\ to_remove' \in Seq(Objects \cup {Quit}) /\ to_remove[1] = Quit
        /\ Len(to_remove) \in Nat \ {0} /\ DOMAIN to_remove = 1 .. Len(to_remove)
        /\ DOMAIN to_remove' = 1 .. Len(to_remove) - 1
        /\ \A k \in 1 .. Len(to_remove) - 1 : to_remove'[k] = to_remove[k + 1]
        /\ Range(to_remove) = {Quit} \cup Range(to_remove')
        /\ \A a \in DOMAIN to_remove' : a + 1 \in DOMAIN to_remove /\ a + 1 # 1 /\ a \in Int
        /\ \A a, b \in DOMAIN to_remove' : (a < b => a + 1 < b + 1) /\ (a + 1 = b + 1 => a = b)
    BY <1>1, <1>2, EndTail
  <1>5. EndTypes' BY <1>1, <1>2, <1>3, <1>4 DEF EndTypes
  <1>6. EndUploads' BY <1>1 DEF EndInv, EndUploads
  <1>7. InQueue' = InQueue /\ InHand' = InHand BY <1>1, <1>4 DEF InQueue, InHand
  <1>8. ASSUME EndAlone PROVE EndOrder' /\ EndOnce' /\ EndCovers'
    <2>1. EndOrder /\ EndOnce /\ EndCovers BY <1>8 DEF EndInv
    <2>2. pc # "drop" BY <1>4, <2>1 DEF EndOrder
    <2>3. \A a \in DOMAIN to_remove : to_remove[a] = Quit
      <3>1. 1 \in DOMAIN to_remove /\ \A a \in DOMAIN to_remove : a = 1 \/ 1 < a BY <1>4
      <3> QED BY <1>2, <1>4, <2>1, <3>1 DEF EndOrder
    <2>4. InQueue = {} BY <2>3 DEF InQueue, Range
    <2>5. \A a, b \in DOMAIN to_remove' : a < b /\ to_remove'[a] = Quit => to_remove'[b] = Quit
      BY <1>4, <2>3
    <2>6. \A q \in End!Remover : remover'[q] = "exited" => ids[q] = <<>>
      BY <1>3, <2>1 DEF EndOrder
    <2>7. EndOrder' BY <1>1, <1>7, <2>1, <2>2, <2>4, <2>5, <2>6 DEF EndOrder
    <2>8. \A a, b \in DOMAIN to_remove' :
               to_remove'[a] = to_remove'[b] /\ to_remove'[a] # Quit => a = b
      BY <1>4, <2>3
    <2>9. EndOnce' BY <1>1, <1>7, <2>1, <2>8 DEF EndOnce
    <2>10. ~EndKnown BY <1>1 DEF EndKnown
    <2>11. EndCovers' BY <1>1, <1>7, <2>1, <2>10 DEF EndCovers
    <2> QED BY <2>7, <2>9, <2>11
  <1> QED BY <1>5, <1>6, <1>8 DEF EndInv

\* All that a thread has in hand is there, and so is removed.
LEMMA EndDeleteIdsInv ==
  ASSUME EndInv, UNCHANGED config, NEW r \in End!Remover, End!DeleteIds(r) PROVE EndInv'
  <1> USE EndSame
  <1>1. /\ EndTypes /\ remover[r] \in {"delete", "last"}
        /\ store' = store \ End!Processed(ids[r])
        /\ ids' = [ids EXCEPT ![r] = <<>>]
        /\ remover' = [remover EXCEPT ![r] = IF remover[r] = "last" THEN "exited" ELSE "read"]
        /\ UNCHANGED <<pc, todo, waiting, raised, dirty, uploader, to_remove, reported>>
    BY DEF EndInv, End!DeleteIds, End!tasks, End!uploads
  <1>2. /\ DOMAIN remover = End!Remover /\ DOMAIN ids = End!Remover /\ ids[r] \in Seq(Objects)
        /\ pc \notin {"drain", "close", "done"} /\ to_remove \in Seq(Objects \cup {Quit})
    BY <1>1 DEF EndTypes
  <1>3. PICK w \in {"read", "exited"} :
           /\ DOMAIN remover' = End!Remover /\ remover'[r] = w /\ (w = "exited" => remover[r] = "last")
           /\ \A q \in End!Remover : q # r => remover'[q] = remover[q]
    BY <1>1, <1>2
  <1>4. <<>> \in Seq(Objects) /\ Range(<<>>) = {} BY DEF Range
  <1>5. /\ EndTypes' /\ EndUploads'
        /\ remover'[r] = w /\ ids'[r] = <<>>
        /\ \A q \in End!Remover : q # r => remover'[q] = remover[q] /\ ids'[q] = ids[q]
        /\ InHand' = Others(r) /\ InHand = Others(r) \cup Range(ids[r])
    <2>1. PICK s : s = <<>> OBVIOUS
    <2>2. /\ EndTypes' /\ EndUploads'
          /\ remover'[r] = w /\ ids'[r] = s
          /\ \A q \in End!Remover : q # r => remover'[q] = remover[q] /\ ids'[q] = ids[q]
          /\ InHand' = Others(r) \cup Range(s) /\ InHand = Others(r) \cup Range(ids[r])
      BY <1>1, <1>2, <1>3, <1>4, <2>1, EndThreadTypes
    <2> QED BY <1>4, <2>1, <2>2
  <1>6. InQueue' = InQueue BY <1>1 DEF InQueue
  <1>7. ASSUME EndAlone PROVE EndOrder' /\ EndOnce' /\ EndCovers'
    <2>1. EndOrder /\ EndOnce /\ EndCovers BY <1>7 DEF EndInv
    <2>2. End!Processed(ids[r]) = Range(ids[r])
      <3>1. DOMAIN ids[r] = 1 .. Len(ids[r]) /\ Len(ids[r]) \in Nat BY <1>2, LenProperties
      <3>2. Range(ids[r]) \subseteq store BY <1>5, <2>1 DEF EndOnce
      <3>3. \A m \in DOMAIN ids[r] : \A k \in 1 .. m : ids[r][k] \in store BY <3>1, <3>2 DEF Range
      <3> QED BY <3>3 DEF End!Processed, Range
    <2>3. Others(r) \cap Range(ids[r]) = {} BY <2>1 DEF EndOnce, Others
    <2>4. EndOrder'
      <3>1. \A q \in End!Remover : remover'[q] = "exited" => ids'[q] = <<>>
        BY <1>5, <2>1 DEF EndOrder
      <3>2. (\E q \in End!Remover : remover'[q] \in {"last", "exited"}) => InQueue = {} /\ pc # "drop"
        BY <1>3, <2>1 DEF EndOrder
      <3> QED BY <1>1, <1>6, <2>1, <3>1, <3>2 DEF EndOrder
    <2>5. EndOnce'
      <3>1. \A p, q \in End!Remover : p # q => Range(ids'[p]) \cap Range(ids'[q]) = {}
        BY <1>4, <1>5, <2>1 DEF EndOnce
      <3>2. /\ todo["drop"] \cup waiting["drop"] \cup InQueue' \cup InHand' \subseteq store'
            /\ (todo["drop"] \cup waiting["drop"]) \cap (InQueue' \cup InHand') = {}
            /\ InQueue' \cap InHand' = {}
        BY <1>1, <1>5, <1>6, <2>1, <2>2, <2>3 DEF EndOnce
      <3> QED BY <1>1, <2>1, <3>1, <3>2 DEF EndOnce
    <2>6. EndCovers'
      <3>1. ~EndKnown BY <1>1 DEF EndKnown
      <3> QED BY <1>1, <1>5, <1>6, <2>1, <2>2, <3>1 DEF EndCovers
    <2> QED BY <2>4, <2>5, <2>6
  <1> QED BY <1>5, <1>7 DEF EndInv

LEMMA EndQuitRemoverInv ==
  ASSUME EndInv, UNCHANGED config, End!QuitRemover PROVE EndInv'
  <1> USE EndSame
  <1>1. /\ EndTypes /\ pc = "quit_removers" /\ to_remove' = Append(to_remove, Quit)
        /\ UNCHANGED <<pc, todo, waiting, raised, dirty, uploader, remover, ids, store, reported>>
    BY DEF EndInv, End!QuitRemover, End!destroying, End!tasks, End!uploads, End!removers
  <1>2. /\ to_remove' \in Seq(Objects \cup {Quit}) /\ DOMAIN to_remove' = 1 .. Len(to_remove) + 1
        /\ Len(to_remove) \in Nat /\ DOMAIN to_remove = 1 .. Len(to_remove)
        /\ \A a \in 1 .. Len(to_remove) : to_remove'[a] = to_remove[a]
        /\ to_remove'[Len(to_remove) + 1] = Quit
        /\ Range(to_remove') = Range(to_remove) \cup {Quit}
    BY <1>1, EndQueueGrows
  <1>3. EndTypes' BY <1>1, <1>2 DEF EndTypes
  <1>4. EndUploads' BY <1>1 DEF EndInv, EndUploads
  <1>5. InQueue' = InQueue /\ InHand' = InHand BY <1>1, <1>2 DEF InQueue, InHand
  <1>6. ASSUME EndAlone PROVE EndOrder' /\ EndOnce' /\ EndCovers'
    <2>1. EndOrder /\ EndOnce /\ EndCovers BY <1>6 DEF EndInv
    <2>2. \A a, b \in DOMAIN to_remove' : a < b /\ to_remove'[a] = Quit => to_remove'[b] = Quit
      BY <1>1, <1>2, <2>1 DEF EndOrder
    <2>3. EndOrder' BY <1>1, <1>5, <2>1, <2>2 DEF EndOrder
    <2>4. \A a, b \in DOMAIN to_remove' :
               to_remove'[a] = to_remove'[b] /\ to_remove'[a] # Quit => a = b
      BY <1>1, <1>2, <2>1 DEF EndOnce
    <2>5. EndOnce' BY <1>1, <1>5, <2>1, <2>4 DEF EndOnce
    <2>6. EndKnown' = EndKnown BY <1>1 DEF EndKnown
    <2>7. EndCovers' BY <1>1, <1>5, <2>1, <2>6 DEF EndCovers
    <2> QED BY <2>3, <2>5, <2>7
  <1> QED BY <1>3, <1>4, <1>6 DEF EndInv

\* What is left in the queue is noticed, and no thread is left to take it.
LEMMA EndDrainInv ==
  ASSUME EndInv, UNCHANGED config, End!Drain PROVE EndInv'
  <1> USE EndSame
  <1>1. /\ EndTypes /\ pc = "drain" /\ pc' = "close"
        /\ reported' = \E k \in DOMAIN to_remove : to_remove[k] # Quit
        /\ UNCHANGED <<todo, waiting, raised, dirty, uploader, remover, ids, store>>
    BY DEF EndInv, End!Drain, End!destroying, End!tasks, End!uploads, End!removers
  <1>2. EndTypes' BY <1>1 DEF EndTypes, EndPlaces
  <1>3. EndUploads' BY <1>1 DEF EndInv, EndUploads
  <1>4. InQueue' = {} /\ InHand' = InHand BY <1>1 DEF InQueue, InHand
  <1>5. ASSUME EndAlone PROVE EndOrder' /\ EndOnce' /\ EndCovers'
    <2>1. EndOrder /\ EndOnce /\ EndCovers BY <1>5 DEF EndInv
    <2>2. EndOrder' BY <1>1, <1>4, <2>1 DEF EndOrder
    <2>3. EndOnce' BY <1>1, <1>4, <2>1 DEF EndOnce
    <2>4. InQueue # {} => EndKnown'
      <3>1. InQueue # {} => \A r \in End!Remover : remover[r] = "dead"
        BY <1>1, <2>1 DEF EndTypes, EndOrder
      <3>2. InQueue # {} => reported' BY <1>1 DEF InQueue, Range
      <3> QED BY <1>1, <3>1, <3>2 DEF EndKnown
    <2>5. EndKnown => EndKnown' BY <1>1 DEF EndKnown, EndTypes
    <2>6. EndCovers' BY <1>1, <1>4, <2>1, <2>4, <2>5 DEF EndCovers
    <2> QED BY <2>2, <2>3, <2>6
  <1> QED BY <1>2, <1>3, <1>5 DEF EndInv

LEMMA EndStutterInv == ASSUME EndInv, UNCHANGED vars PROVE EndInv'
  <1>1. /\ UNCHANGED <<End!tasks, to_remove, End!removers, reported, raised, dirty, uploader, pc, config>>
    BY DEF vars, End!tasks, End!removers
  <1>2. EndTypes /\ EndUploads BY DEF EndInv
  <1>3. EndUploads' BY <1>1, <1>2 DEF EndUploads
  <1> QED BY <1>1, <1>2, <1>3, EndFrame DEF EndTypes

LEMMA EndNextInv ==
  ASSUME EndInv, UNCHANGED config, End!Next PROVE EndInv' \/ UNCHANGED End!vars
  <1>0. config \in EndSettings BY DEF EndInv, EndTypes
  <1>1. ASSUME NEW t \in {"drop", "commit"}, End!TaskStep(t) PROVE EndInv'
    BY <1>1, EndDerefInv, EndQueueRemovalInv, EndNoRemoversInv DEF End!TaskStep
  <1>2. ASSUME NEW u \in UploadThreads, End!UploaderStep(u) PROVE EndInv'
    BY <1>2, EndQueueUploadInv, EndUploadDoneInv, EndUploadDiesInv DEF End!UploaderStep
  <1>3. ASSUME NEW r \in End!Remover, End!RemoverStep(r) PROVE EndInv'
    BY <1>3, EndTakeIdInv, EndTurnsInv, EndTakeQuitInv, EndDeleteIdsInv DEF End!RemoverStep
  <1>4. CASE End!Destroy
    BY <1>4, EndDropEndsInv, EndPassesInv, EndQuitRemoverInv, EndQuitUploaderInv, EndDrainInv
       DEF End!Destroy
  <1>5. CASE End!Finished BY <1>5 DEF End!Finished
  <1> QED BY <1>0, <1>1, <1>2, <1>3, <1>4, <1>5, EndSetting DEF End!Next

LEMMA EndExact ==
  ASSUME EndInv
  PROVE  End!DirtyExplained /\ (EndAlone => End!LeftoversExplained)
  <1>1. End!DirtyExplained BY DEF EndInv, EndUploads, End!DirtyExplained
  <1>2. ASSUME EndAlone, pc = "done", NEW o \in End!Requested \cap store
        PROVE  \/ \E r \in End!Remover : remover[r] = "dead" /\ o \in End!ToSet(ids[r])
               \/ /\ \A r \in End!Remover : remover[r] = "dead"
                  /\ reported \/ raised # {}
    <2>1. EndTypes /\ EndOrder /\ EndCovers BY <1>2 DEF EndInv
    <2>2. o \in config.Freed["drop"] /\ o \notin todo["drop"]
      BY <1>2, <2>1, EndSetting DEF End!Requested, EndTypes, EndAlone
    <2>3. o \in InHand \/ EndKnown BY <1>2, <2>1, <2>2 DEF EndCovers, EndOrder, InQueue
    <2>4. ASSUME NEW r \in End!Remover, o \in Range(ids[r])
          PROVE  remover[r] = "dead" /\ o \in End!ToSet(ids[r])
      <3>1. Range(<<>>) = {} BY DEF Range
      <3>2. remover[r] = "dead" BY <1>2, <2>1, <2>4, <3>1 DEF EndTypes, EndOrder
      <3> QED BY <2>4, <3>2 DEF Range, End!ToSet
    <2> QED BY <2>3, <2>4 DEF InHand, EndKnown
  <1> QED BY <1>1, <1>2 DEF End!LeftoversExplained

-----------------------------------------------------------------------------
(***************************************************************************)
(* delete_multi (BulkDelete).                                              *)
(***************************************************************************)
BulkInv ==
    /\ config \in BulkSettings
    /\ keys \in Seq(BulkKeys) /\ tmp \in Seq(BulkKeys)
    /\ pc \in {"batch", "send", "done"}
    /\ pc = "batch" => tmp = <<>>
    /\ pc # "done" => result = "ok"
    /\ pc = "done" /\ result = "ok" => keys = <<>> /\ tmp = <<>>
    /\ given \cap server \subseteq Range(keys) \cup Range(tmp) \/ (config.EmptyErrors /\ result # "ok")

LEMMA BulkSetting ==
  ASSUME config \in BulkSettings
  PROVE  config.Backend \in {"s3", "swift", "local"} /\ BulkBatch \in Nat \ {0}
         /\ Bulk!EmptyErrors = config.EmptyErrors
  BY BatchesAssumption DEF Bulk!EmptyErrors

LEMMA BulkInitInv == ASSUME Bulk!Init PROVE BulkInv
  <1>1. config \in BulkSettings /\ tmp = <<>> /\ pc = "batch" /\ result = "ok" /\ given = Range(keys)
    BY DEF Bulk!Init, Bulk!ToSet, Range
  <1>2. PICK S \in SUBSET BulkKeys : keys = Bulk!SetToSeq(S) BY DEF Bulk!Init
  <1>3. IsFiniteSet(S) BY <1>2, BatchesAssumption, FS_Subset
  <1>4. Cardinality(S) \in Nat /\ ExistsBijection(1 .. Cardinality(S), S) BY <1>3, FS_CardinalityType
  <1>5. PICK f \in Bijection(1 .. Cardinality(S), S) : TRUE BY <1>4 DEF ExistsBijection
  <1>6. f \in [1 .. Cardinality(S) -> S] /\ Bulk!IsInjective(f)
    BY <1>5 DEF Bijection, Injection, IsInjective, Bulk!IsInjective
  <1>7. keys \in [1 .. Cardinality(S) -> S]
    <2>0. Bulk!Cardinality(S) = Cardinality(S) BY Zenon DEF Bulk!Cardinality, Cardinality
    <2>1. keys = CHOOSE g \in [1 .. Cardinality(S) -> S] : Bulk!IsInjective(g)
      BY <1>2, <2>0, Zenon DEF Bulk!SetToSeq
    <2>2. (CHOOSE g \in [1 .. Cardinality(S) -> S] : Bulk!IsInjective(g)) \in [1 .. Cardinality(S) -> S]
      BY <1>6, Zenon
    <2> QED BY <2>1, <2>2, Zenon
  <1>8. keys \in Seq(BulkKeys) BY <1>4, <1>7
  <1> QED BY <1>1, <1>8 DEF BulkInv

\* Where the list is cut.
LEMMA Cut ==
  ASSUME NEW S, NEW s \in Seq(S), NEW n \in 0 .. Len(s)
  PROVE  /\ SubSeq(s, 1, n) \in Seq(S) /\ SubSeq(s, n + 1, Len(s)) \in Seq(S)
         /\ Range(s) = Range(SubSeq(s, 1, n)) \cup Range(SubSeq(s, n + 1, Len(s)))
  <1>1. Len(s) \in Nat /\ DOMAIN s = 1 .. Len(s) /\ \A k \in 1 .. Len(s) : s[k] \in S
    BY LenProperties, ElementOfSeq
  <1>2. \A k \in 1 .. n : s[k] \in S BY <1>1
  <1>3. \A k \in n + 1 .. Len(s) : s[k] \in S BY <1>1
  <1>4. SubSeq(s, 1, n) \in Seq(S) /\ SubSeq(s, n + 1, Len(s)) \in Seq(S)
    <2>1. 1 \in Int /\ n \in Int /\ n + 1 \in Int /\ Len(s) \in Int BY <1>1
    <2>2. SubSeq(s, 1, n) \in Seq(S) BY ONLY <1>2, <2>1, SubSeqProperties
    <2>3. SubSeq(s, n + 1, Len(s)) \in Seq(S) BY ONLY <1>3, <2>1, SubSeqProperties
    <2> QED BY <2>2, <2>3
  <1>5. s = SubSeq(s, 1, n) \o SubSeq(s, n + 1, Len(s))
    <2>1. 1 \in 1 .. Len(s) + 1 /\ n \in 1 - 1 .. Len(s) /\ Len(s) \in n .. Len(s) BY <1>1
    <2> QED BY <1>1, <2>1, ConcatAdjacentSubSeq, SubSeqFull
  <1>6. Range(SubSeq(s, 1, n) \o SubSeq(s, n + 1, Len(s)))
        = Range(SubSeq(s, 1, n)) \cup Range(SubSeq(s, n + 1, Len(s)))
    BY <1>4, RangeConcatenation
  <1> QED BY <1>4, <1>5, <1>6

LEMMA BulkBatchInv ==
  ASSUME BulkInv, UNCHANGED config, Bulk!delete_multi PROVE BulkInv'
  <1>1. pc = "batch" /\ UNCHANGED <<given, server, result>> BY DEF Bulk!delete_multi
  <1>2. CASE keys = <<>>
    BY <1>1, <1>2 DEF Bulk!delete_multi, BulkInv
  <1>3. CASE keys # <<>>
    <2> DEFINE n == Bulk!First(BulkBatch)
    <2>1. keys \in Seq(BulkKeys) /\ Len(keys) \in Nat /\ BulkBatch \in Nat
      BY BulkSetting, LenProperties DEF BulkInv
    <2>2. n \in 0 .. Len(keys) BY <2>1 DEF Bulk!First
    <2>3. tmp' = SubSeq(keys, 1, n) /\ keys' = SubSeq(keys, n + 1, Len(keys)) /\ pc' = "send"
      BY <1>3 DEF Bulk!delete_multi
    <2> HIDE DEF n
    <2>4. /\ tmp' \in Seq(BulkKeys) /\ keys' \in Seq(BulkKeys)
          /\ Range(keys) = Range(tmp') \cup Range(keys')
      BY <2>1, <2>2, <2>3, Cut
    <2>5. tmp = <<>> /\ Range(<<>>) = {} BY <1>1 DEF BulkInv, Range
    <2> QED BY <1>1, <2>3, <2>4, <2>5 DEF BulkInv
  <1> QED BY <1>2, <1>3

\* What is left of a batch is put back.
LEMMA BulkPutBackInv ==
  ASSUME BulkInv, UNCHANGED <<config, given>>, pc = "send", NEW left \in Seq(BulkKeys),
         Bulk!PutBack(left), NEW gone,
         server' \subseteq server \ gone, Range(tmp) \subseteq gone \cup Range(left),
         \/ pc' = "batch" /\ result' = result
         \/ pc' = "done" /\ result' = "error"
  PROVE  BulkInv'
  <1>1. keys' = left \o keys /\ tmp' = <<>> /\ keys \in Seq(BulkKeys)
    BY DEF Bulk!PutBack, BulkInv
  <1>2. keys' \in Seq(BulkKeys) /\ Range(keys') = Range(left) \cup Range(keys)
    BY <1>1, ConcatProperties, RangeConcatenation
  <1>3. Range(<<>>) = {} /\ <<>> \in Seq(BulkKeys) BY DEF Range
  <1> QED BY <1>1, <1>2, <1>3 DEF BulkInv

LEMMA BulkWholeInv ==
  ASSUME BulkInv, UNCHANGED config, Bulk!AllDeleted \/ Bulk!SwiftNotFound PROVE BulkInv'
  <1>1. /\ pc = "send" /\ server' = server \ Range(tmp) /\ Bulk!PutBack(<<>>) /\ pc' = "batch"
        /\ UNCHANGED <<given, result>>
    BY DEF Bulk!AllDeleted, Bulk!SwiftNotFound, Bulk!ToSet, Range
  <1>2. <<>> \in Seq(BulkKeys) OBVIOUS
  <1> QED BY <1>1, <1>2, BulkPutBackInv

LEMMA BulkFailsInv ==
  ASSUME BulkInv, UNCHANGED config, Bulk!TempFailure \/ Bulk!Denied \/ Bulk!SwiftNoList PROVE BulkInv'
  <1>1. CASE Bulk!TempFailure BY <1>1 DEF Bulk!TempFailure, Bulk!Accepted, BulkInv
  <1>2. CASE Bulk!Denied
    <2>1. /\ pc = "send" /\ Bulk!PutBack(tmp) /\ pc' = "done" /\ result' = "error"
          /\ UNCHANGED <<given, server>> /\ tmp \in Seq(BulkKeys)
      BY <1>2 DEF Bulk!Denied, Bulk!Raise, BulkInv
    <2>2. server' \subseteq server \ {} /\ Range(tmp) \subseteq {} \cup Range(tmp) BY <2>1
    <2> QED BY <2>1, <2>2, BulkPutBackInv
  <1>3. CASE Bulk!SwiftNoList
    <2>1. /\ keys' = <<>> \o keys /\ tmp' = <<>> /\ pc' = "done" /\ result' = "error" /\ config.EmptyErrors
      BY <1>3, BulkSetting DEF Bulk!SwiftNoList, Bulk!Raise, Bulk!PutBack, BulkInv
    <2>2. <<>> \in Seq(BulkKeys) /\ keys \in Seq(BulkKeys) BY DEF BulkInv
    <2>3. keys' \in Seq(BulkKeys) BY <2>1, <2>2, ConcatProperties
    <2> QED BY <2>1, <2>2, <2>3 DEF BulkInv
  <1> QED BY <1>1, <1>2, <1>3

LEMMA BulkLeft ==
  ASSUME BulkInv, NEW failed \in SUBSET Bulk!ToSet(tmp), NEW left \in Bulk!Remaining(failed)
  PROVE  left \in Seq(BulkKeys) /\ Range(left) = failed
  <1>1. Range(left) = failed BY DEF Bulk!Remaining, Bulk!ToSet, Range
  <1>2. Len(tmp) \in Nat /\ Range(tmp) \subseteq BulkKeys BY LenProperties, RangeOfSeq DEF BulkInv
  <1>3. PICK n \in 0 .. Len(tmp) : left \in [1 .. n -> failed] BY DEF Bulk!Remaining
  <1>4. failed \subseteq BulkKeys BY <1>2 DEF Bulk!ToSet, Range
  <1>5. left \in Seq(BulkKeys) BY <1>2, <1>3, <1>4
  <1> QED BY <1>1, <1>5

LEMMA BulkErrorsInv ==
  ASSUME BulkInv, UNCHANGED config, Bulk!S3Errors \/ Bulk!SwiftErrors PROVE BulkInv'
  <1>1. Bulk!ToSet(tmp) = Range(tmp) BY DEF Bulk!ToSet, Range
  <1>2. pc = "send" /\ UNCHANGED given BY DEF Bulk!S3Errors, Bulk!SwiftErrors
  <1>3. PICK failed \in SUBSET Bulk!ToSet(tmp) : \E left \in Bulk!Remaining(failed) :
           /\ server' = server \ (Range(tmp) \ failed)
           /\ \/ Bulk!PutBack(left) /\ pc' = "batch" /\ result' = result
              \/ Bulk!PutBack(left) /\ pc' = "done" /\ result' = "error"
              \/ tmp' = left /\ UNCHANGED <<keys, pc, result>>
    <2>1. CASE Bulk!S3Errors BY <1>1, <2>1 DEF Bulk!S3Errors
    <2>2. CASE Bulk!SwiftErrors BY <1>1, <2>2 DEF Bulk!SwiftErrors, Bulk!Raise
    <2> QED BY <2>1, <2>2
  <1>4. PICK left \in Bulk!Remaining(failed) :
           /\ server' = server \ (Range(tmp) \ failed)
           /\ \/ Bulk!PutBack(left) /\ pc' = "batch" /\ result' = result
              \/ Bulk!PutBack(left) /\ pc' = "done" /\ result' = "error"
              \/ tmp' = left /\ UNCHANGED <<keys, pc, result>>
    BY <1>3
  <1>5. left \in Seq(BulkKeys) /\ Range(left) = failed BY BulkLeft
  <1>6. CASE tmp' = left /\ UNCHANGED <<keys, pc, result>>
    BY <1>2, <1>4, <1>5, <1>6 DEF BulkInv
  <1>7. CASE Bulk!PutBack(left) /\ ((pc' = "batch" /\ result' = result) \/ (pc' = "done" /\ result' = "error"))
    <2>1. server' \subseteq server \ (Range(tmp) \ failed) BY <1>4
    <2>2. Range(tmp) \subseteq (Range(tmp) \ failed) \cup Range(left) BY <1>5
    <2> QED BY <1>2, <1>5, <1>7, <2>1, <2>2, BulkPutBackInv
  <1>8. \/ Bulk!PutBack(left) /\ ((pc' = "batch" /\ result' = result) \/ (pc' = "done" /\ result' = "error"))
        \/ tmp' = left /\ UNCHANGED <<keys, pc, result>>
    BY <1>4, Zenon
  <1> QED BY <1>6, <1>7, <1>8, Zenon

LEMMA BulkLocalInv ==
  ASSUME BulkInv, UNCHANGED config, Bulk!local_delete_multi PROVE BulkInv'
  <1> DEFINE bad(k) == keys[k] \in Bulk!Refused \/ (keys[k] \notin server /\ ~force)
             fails == {k \in DOMAIN keys : bad(k)}
             n == CHOOSE x \in fails : \A y \in fails : x <= y
  <1>1. /\ pc = "batch" /\ pc' = "done" /\ UNCHANGED <<given, tmp>> /\ tmp = <<>>
        /\ keys \in Seq(BulkKeys) /\ DOMAIN keys = 1 .. Len(keys) /\ Len(keys) \in Nat
        /\ Range(tmp) = {}
    BY LenProperties DEF Bulk!local_delete_multi, BulkInv, Range
  <1>2. CASE fails = {}
    <2>1. server' = server \ Range(keys) /\ keys' = <<>> /\ UNCHANGED result
      BY <1>2 DEF Bulk!local_delete_multi, Bulk!ToSet, Range
    <2>2. <<>> \in Seq(BulkKeys) OBVIOUS
    <2> QED BY <1>1, <2>1, <2>2 DEF BulkInv
  <1>3. CASE fails # {}
    <2>1. /\ server' = server \ Range(SubSeq(keys, 1, n - 1))
          /\ keys' = SubSeq(keys, n, Len(keys)) /\ result' \in {"error", "NoSuchObject"}
      BY <1>3 DEF Bulk!local_delete_multi, Bulk!ToSet, Bulk!LocalLeft, Range
    <2>2. n \in 1 .. Len(keys)
      <3>1. fails \subseteq Nat /\ fails \subseteq 1 .. Len(keys) BY <1>1
      <3>2. \E x \in fails : \A y \in fails : x <= y BY <1>3, <3>1, Least
      <3>3. n \in fails BY <3>2
      <3> QED BY <3>1, <3>3
    <2> HIDE DEF n
    <2>3. n - 1 \in 0 .. Len(keys) /\ (n - 1) + 1 = n BY <1>1, <2>2
    <2>4. /\ SubSeq(keys, n, Len(keys)) \in Seq(BulkKeys)
          /\ Range(keys) = Range(SubSeq(keys, 1, n - 1)) \cup Range(SubSeq(keys, n, Len(keys)))
      <3>1. PICK m : m = n - 1 OBVIOUS
      <3> QED BY <1>1, <2>3, <3>1, Cut
    <2> QED BY <1>1, <2>1, <2>4 DEF BulkInv
  <1> QED BY <1>2, <1>3

LEMMA BulkNextInv ==
  ASSUME BulkInv, UNCHANGED config, Bulk!Next PROVE BulkInv'
  BY BulkBatchInv, BulkWholeInv, BulkFailsInv, BulkErrorsInv, BulkLocalInv DEF Bulk!Next

LEMMA BulkStutterInv == ASSUME BulkInv, UNCHANGED vars PROVE BulkInv'
  BY DEF vars, BulkInv

LEMMA BulkInvExact ==
  ASSUME BulkInv
  PROVE  Bulk!DoneMeansDeleted /\ (~config.EmptyErrors => Bulk!NothingForgotten)
  <1>1. Range(<<>>) = {} BY DEF Range
  <1>2. Bulk!ToSet(keys) = Range(keys) /\ Bulk!ToSet(tmp) = Range(tmp) BY DEF Bulk!ToSet, Range
  <1> QED BY <1>1, <1>2 DEF BulkInv, Bulk!DoneMeansDeleted, Bulk!NothingForgotten

-----------------------------------------------------------------------------
(***************************************************************************)
(* list (Listing).  Up to the token every key that was there all the time  *)
(* has been returned, or is about to be; no key after it has.              *)
(***************************************************************************)
Below(k) == IF config.Backend = "b2" THEN k < page_token ELSE k <= page_token

ListTypes ==
    /\ config \in ListSettings
    /\ keys \subseteq List!Key /\ always \subseteq keys
    /\ at \in {"page", "items", "done"}
    /\ page_token \in {-1} \cup Nat
    /\ listed \in Seq(List!Key) /\ els \in Seq(List!Key)
    /\ at = "page" => els = <<>> /\ page_token # -1
    /\ at = "done" => els = <<>> /\ page_token = -1

ListOrder ==
    /\ List!Increasing(listed) /\ List!Increasing(els)
    /\ \A x \in Range(listed), y \in Range(els) : x < y
    /\ page_token # -1 => \A x \in Range(listed) \cup Range(els) : Below(x)

ListCovers ==
    \A k \in always \ List!Temp :
        page_token = -1 \/ Below(k) => k \in Range(listed) \cup Range(els)

ListInv == ListTypes /\ ListOrder /\ ListCovers

LEMMA ListSetting ==
  ASSUME config \in ListSettings
  PROVE  /\ config.NKeys \in Nat /\ List!Key = 1 .. config.NKeys
         /\ List!Backend = config.Backend /\ List!Temp = config.Temp
         /\ List!Backend \in {"s3c", "gs", "swift", "b2"} /\ PageSize \in Nat \ {0}
         /\ List!Backend = "swift" =>
               /\ config.Temp \subseteq 1 .. config.NKeys
               /\ Cardinality(config.Temp) < PageSize
  BY BatchesAssumption DEF List!Key, List!NKeys, List!Backend, List!Temp

LEMMA ListCardinality ==
  ASSUME NEW S PROVE List!Cardinality(S) = Cardinality(S)
  BY Zenon DEF List!Cardinality, Cardinality

LEMMA LeastOf ==
  ASSUME NEW S, S \subseteq Nat, S # {}
  PROVE  List!Min(S) \in S /\ \A y \in S : List!Min(S) <= y
  <1>1. \E x \in S : \A y \in S : x <= y BY Least
  <1> QED BY <1>1, Zenon DEF List!Min

LEMMA GreatestOf ==
  ASSUME NEW S, NEW n \in Nat, S \subseteq 1 .. n, S # {}
  PROVE  List!Max(S) \in S /\ \A y \in S : y <= List!Max(S)
  <1>1. S \subseteq 0 .. n OBVIOUS
  <1>2. \E x \in S : \A y \in S : x >= y BY <1>1, Greatest
  <1>3. List!Max(S) \in S /\ \A y \in S : List!Max(S) >= y BY <1>2, Zenon DEF List!Max
  <1> QED BY <1>3

\* The first of them: there are no gaps, and all are there if they are few.
LEMMA FirstOf ==
  ASSUME NEW n \in Nat, NEW S, S \subseteq 1 .. n, NEW size \in Nat \ {0}
  PROVE  /\ List!First(S, size) \subseteq S /\ IsFiniteSet(List!First(S, size))
         /\ \A x \in List!First(S, size), y \in S : y <= x => y \in List!First(S, size)
         /\ S # {} => List!First(S, size) # {}
         /\ Cardinality(List!First(S, size)) <= size
         /\ Cardinality(List!First(S, size)) < size => List!First(S, size) = S
  <1> DEFINE F == List!First(S, size)
             before(x) == {j \in S : j < x}
  <1>1. F = {k \in S : Cardinality(before(k)) < size} BY ListCardinality DEF List!First
  <1>0. S \subseteq Nat /\ \A y \in S : y \in Int OBVIOUS
  <1>2. IsFiniteSet(S)
    <2>1. IsFiniteSet(1 .. n) BY FS_Interval
    <2> QED BY <2>1, FS_Subset
  <1>3. ASSUME NEW T, T \subseteq S
        PROVE  IsFiniteSet(T) /\ Cardinality(T) \in Nat
               /\ \A U \in SUBSET T : Cardinality(U) \in Nat /\ Cardinality(U) <= Cardinality(T)
    <2>1. IsFiniteSet(T) BY <1>2, <1>3, FS_Subset
    <2>2. \A U \in SUBSET T : IsFiniteSet(U) /\ Cardinality(U) <= Cardinality(T) BY <2>1, FS_Subset
    <2> QED BY <2>1, <2>2, FS_CardinalityType
  <1>4. \A x \in S : before(x) \subseteq S OBVIOUS
  <1> HIDE DEF F
  <1>5. F \subseteq S BY <1>1
  <1>6. ASSUME NEW x \in F, NEW y \in S, y <= x PROVE y \in F
    <2>1. x \in S /\ Cardinality(before(x)) < size BY <1>1
    <2>2. before(y) \subseteq before(x)
      <3>1. x \in Int /\ y \in Int BY <1>0, <1>6, <2>1
      <3>2. \A j \in Int : j < y => j < x BY <1>6, <3>1
      <3>3. \A j \in S : j < y => j < x BY <1>0, <3>2
      <3> QED BY <3>3
    <2> HIDE DEF before
    <2>3. /\ Cardinality(before(x)) \in Nat /\ Cardinality(before(y)) \in Nat
          /\ Cardinality(before(y)) <= Cardinality(before(x))
      BY <1>3, <1>4, <2>1, <2>2
    <2> QED BY <1>1, <2>1, <2>3
  <1>7. ASSUME S # {} PROVE F # {}
    <2>1. PICK x \in S : \A y \in S : x <= y BY <1>0, <1>7, Least
    <2>2. before(x) = {}
      <3>1. \A j \in S : ~(j < x) BY <1>0, <2>1
      <3> QED BY <3>1
    <2>3. Cardinality({}) = 0 BY FS_EmptySet
    <2> HIDE DEF before
    <2> QED BY <1>1, <2>1, <2>2, <2>3
  <1>8. ASSUME Cardinality(F) < size PROVE F = S
    <2> SUFFICES ASSUME S \ F # {} PROVE FALSE BY <1>5
    <2>1. S \ F \subseteq Nat BY <1>0
    <2>2. PICK x \in S \ F : \A y \in S \ F : x <= y BY <2>1, Least
    <2>3. before(x) \subseteq F
      <3>1. \A j \in S : j < x => ~(x <= j) BY <1>0, <2>2
      <3> QED BY <2>2, <3>1
    <2> HIDE DEF before
    <2>4. Cardinality(before(x)) \in Nat /\ Cardinality(F) \in Nat
          /\ Cardinality(before(x)) <= Cardinality(F)
      BY <1>3, <1>5, <2>3
    <2> QED BY <1>1, <1>8, <2>2, <2>4
  <1>9. IsFiniteSet(F) BY <1>3, <1>5
  <1>10. Cardinality(F) <= size
    <2>1. CASE F = {} BY <2>1, FS_EmptySet
    <2>2. CASE F # {}
      <3>1. PICK x \in F : \A y \in F : x >= y
        <4>1. F \subseteq 0 .. n BY <1>5
        <4> QED BY <2>2, <4>1, Greatest
      <3>2. F \ {x} \subseteq before(x)
        <4>1. \A y \in F : y # x => y < x BY <1>0, <1>5, <3>1
        <4> QED BY <1>5, <4>1
      <3>3. Cardinality(F \ {x}) = Cardinality(F) - 1 BY <1>9, FS_RemoveElement
      <3> HIDE DEF before
      <3>4. /\ Cardinality(before(x)) \in Nat /\ Cardinality(F) \in Nat
            /\ Cardinality(F \ {x}) <= Cardinality(before(x))
        BY <1>3, <1>4, <1>5, <3>2
      <3> QED BY <1>1, <3>3, <3>4
    <2> QED BY <2>1, <2>2
  <1> QED BY <1>5, <1>6, <1>7, <1>8, <1>9, <1>10 DEF F

LEMMA ListInitInv == ASSUME List!Init PROVE ListInv
  <1>1. /\ config \in ListSettings /\ keys \subseteq List!Key /\ at = "page" /\ page_token = 0
        /\ els = <<>> /\ listed = <<>> /\ always = keys
    BY DEF List!Init
  <1>2. Range(<<>>) = {} /\ DOMAIN <<>> = {} BY DEF Range
  <1>3. <<>> \in Seq(List!Key) OBVIOUS
  <1>4. List!Key = 1 .. config.NKeys /\ config.NKeys \in Nat BY <1>1, ListSetting
  <1>5. \A k \in keys : ~Below(k) BY <1>1, <1>4 DEF Below
  <1>6. ListTypes BY <1>1, <1>3 DEF ListTypes
  <1>7. ListOrder BY <1>1, <1>2 DEF ListOrder, List!Increasing
  <1>8. ListCovers BY <1>1, <1>5 DEF ListCovers
  <1> QED BY <1>6, <1>7, <1>8 DEF ListInv

\* A page arrives: what it returns, and where the next one starts.
LEMMA ListPageInv ==
  ASSUME ListInv, UNCHANGED <<config, List!server>>, at = "page",
         NEW names \in SUBSET List!Key, NEW token \in {-1} \cup Nat, List!Page(names, token),
         \A k \in names : ~Below(k),
         token # -1 => page_token <= token /\ \A k \in names : Below(k)',
         \A k \in always \ List!Temp :
            ~Below(k) /\ (token = -1 \/ Below(k)') => k \in names
  PROVE  ListInv'
  <1>1. /\ els' \in List!Sorted(names) /\ page_token' = token /\ at' = "items"
        /\ UNCHANGED <<config, keys, always, listed>> /\ List!Key' = List!Key /\ List!Temp' = List!Temp
    BY DEF List!Page, List!server, List!Key, List!NKeys, List!Temp
  <1>2. ListTypes /\ ListOrder /\ ListCovers BY DEF ListInv
  <1>3. List!Key = 1 .. config.NKeys /\ config.NKeys \in Nat BY <1>2, ListSetting DEF ListTypes
  <1>4. Range(els) = {} /\ page_token # -1 /\ page_token \in Nat BY <1>2 DEF ListTypes, Range
  <1>5. Range(els') = names /\ List!Increasing(els') /\ els' \in Seq(List!Key)
    <2>1. Range(els') = names /\ List!Increasing(els') BY <1>1 DEF List!Sorted, List!ToSet, Range
    <2>2. els' \in [1 .. Cardinality(names) -> names] BY <1>1, ListCardinality DEF List!Sorted
    <2>3. IsFiniteSet(1 .. config.NKeys) BY <1>3, FS_Interval
    <2>4. IsFiniteSet(names) BY <1>3, <2>3, FS_Subset
    <2>5. Cardinality(names) \in Nat BY <2>4, FS_CardinalityType
    <2> QED BY <2>1, <2>2, <2>5
  <1>6. Range(listed) \subseteq List!Key BY <1>2, RangeOfSeq DEF ListTypes
  <1>7. ListTypes' BY <1>1, <1>2, <1>5 DEF ListTypes
  <1>8. ASSUME NEW x \in Range(listed) PROVE Below(x) /\ (token # -1 => Below(x)')
    <2>1. Below(x) /\ x \in Nat BY <1>2, <1>3, <1>4, <1>6 DEF ListOrder
    <2> QED BY <1>1, <1>4, <2>1 DEF Below
  <1>9. ListOrder'
    <2>1. ASSUME NEW x \in Range(listed), NEW y \in names PROVE x < y
      <3>1. Below(x) /\ ~Below(y) /\ x \in Nat /\ y \in Nat BY <1>3, <1>6, <1>8
      <3> QED BY <1>4, <3>1 DEF Below
    <2> QED BY <1>1, <1>2, <1>5, <1>8, <2>1 DEF ListOrder
  <1>10. ListCovers'
    <2>1. ASSUME NEW k \in always \ List!Temp, token = -1 \/ Below(k)'
          PROVE  k \in Range(listed) \cup names
      <3>1. CASE Below(k) BY <1>2, <1>4, <3>1 DEF ListCovers
      <3>2. CASE ~Below(k) BY <2>1, <3>2
      <3> QED BY <3>1, <3>2
    <2> QED BY <1>1, <1>5, <2>1 DEF ListCovers
  <1> QED BY <1>7, <1>9, <1>10 DEF ListInv

\* The servers that go on after the last name.
LEMMA ListAfterInv ==
  ASSUME ListInv, UNCHANGED <<config, List!server>>, List!Backend \in {"s3c", "gs"}, at = "page",
         NEW n \in 1 .. PageSize, NEW names, names = List!First(List!After(page_token), n),
         List!Page(names, IF names = List!After(page_token) THEN -1 ELSE List!Max(names))
  PROVE  ListInv'
  <1> DEFINE S == List!After(page_token)
             token == IF names = S THEN -1 ELSE List!Max(names)
  <1>1. ListTypes BY DEF ListInv
  <1>2. /\ List!Key = 1 .. config.NKeys /\ config.NKeys \in Nat /\ PageSize \in Nat
        /\ config.Backend # "b2"
    BY <1>1, ListSetting DEF ListTypes
  <1>3. page_token \in Nat BY <1>1 DEF ListTypes
  <1>4. S \subseteq 1 .. config.NKeys /\ \A k \in keys : k \in S <=> ~Below(k)
    <2>1. keys \subseteq 1 .. config.NKeys /\ S = {k \in keys : k > page_token}
      BY <1>1, <1>2 DEF ListTypes, List!After
    <2>2. \A k \in keys : k \in Int /\ (k > page_token <=> ~(k <= page_token)) BY <1>3, <2>1
    <2> HIDE DEF S
    <2> QED BY <1>2, <2>1, <2>2 DEF Below
  <1>5. List!Page(names, token) /\ names = List!First(S, n) /\ (names = S => token = -1)
        /\ (names # S => token = List!Max(names))
    OBVIOUS
  <1>6. /\ names \subseteq S /\ \A x \in names, y \in S : y <= x => y \in names
        /\ (S # {} => names # {})
    <2> HIDE DEF S, token
    <2>1. n \in Nat \ {0} BY <1>2
    <2> QED BY <1>2, <1>4, <1>5, <2>1, FirstOf
  <1>7. page_token' = token /\ UNCHANGED config BY <1>5 DEF List!Page
  <1>8. S \subseteq keys BY DEF List!After
  <1> HIDE DEF S, token
  <1>9. ASSUME names # S
        PROVE  token \in names /\ \A y \in names : y <= token
    <2>1. names # {} /\ names \subseteq 1 .. config.NKeys BY <1>4, <1>6, <1>9
    <2> QED BY <1>2, <1>5, <1>9, <2>1, GreatestOf
  <1>10. token \in {-1} \cup Nat
    <2>1. CASE names = S BY <1>5, <2>1
    <2>2. CASE names # S
      <3>1. token \in 1 .. config.NKeys BY <1>4, <1>6, <1>9, <2>2
      <3> QED BY <1>2, <3>1
    <2> QED BY <2>1, <2>2
  <1>11. ASSUME NEW k \in names PROVE ~Below(k) BY <1>4, <1>6, <1>8
  <1>12. ASSUME token # -1 PROVE page_token <= token /\ \A k \in names : Below(k)'
    <2>1. token \in names /\ \A y \in names : y <= token BY <1>5, <1>9, <1>12
    <2>2. ~Below(token) /\ token \in Nat BY <1>11, <2>1, <1>4, <1>6
    <2> QED BY <1>2, <1>3, <1>7, <2>1, <2>2 DEF Below
  <1>13. ASSUME NEW k \in always \ List!Temp, ~Below(k), token = -1 \/ Below(k)' PROVE k \in names
    <2>1. k \in S BY <1>1, <1>4, <1>13 DEF ListTypes
    <2>2. CASE names = S BY <2>1, <2>2
    <2>3. CASE names # S
      <3>1. token \in names /\ token # -1 BY <1>4, <1>6, <1>9, <2>3
      <3>2. k <= token BY <1>2, <1>7, <1>13, <3>1 DEF Below
      <3> QED BY <1>6, <2>1, <3>1, <3>2
    <2> QED BY <2>2, <2>3
  <1>14. names \in SUBSET List!Key BY <1>2, <1>4, <1>6
  <1> QED BY <1>5, <1>10, <1>11, <1>12, <1>13, <1>14, ListPageInv

LEMMA ListMarkedInv ==
  ASSUME ListInv, UNCHANGED config, List!s3c_list_page \/ List!gs_list_page PROVE ListInv'
  <1>1. at = "page" /\ List!Backend \in {"s3c", "gs"} /\ UNCHANGED List!server
    BY DEF List!s3c_list_page, List!gs_list_page, List!Page
  <1>2. ASSUME NEW n \in 1 .. PageSize, NEW names, names = List!First(List!After(page_token), n),
               List!Page(names, IF names = List!After(page_token) THEN -1 ELSE List!Max(names))
        PROVE  ListInv'
    BY <1>1, <1>2, ListAfterInv
  <1>3. ASSUME NEW m \in List!Key, m > page_token, List!After(m) = List!After(page_token),
               List!Page({}, m)
        PROVE  ListInv'
    <2>1. ListTypes BY DEF ListInv
    <2>2. List!Key = 1 .. config.NKeys /\ config.NKeys \in Nat /\ config.Backend # "b2"
      BY <1>1, <2>1, ListSetting DEF ListTypes
    <2>3. m \in Nat /\ page_token \in Nat /\ page_token <= m /\ page_token' = m
      BY <1>1, <1>3, <2>1, <2>2 DEF ListTypes, List!Page
    <2>4. ASSUME NEW k \in always, ~Below(k), Below(k)' PROVE FALSE
      <3>1. k \in keys /\ k \in Nat BY <2>1, <2>2, <2>4 DEF ListTypes
      <3>2. k > page_token /\ ~(k > m) BY <2>2, <2>3, <2>4, <3>1 DEF Below
      <3>3. k \in List!After(page_token) BY <3>1, <3>2 DEF List!After
      <3>4. k \in List!After(m) BY <1>3, <3>3
      <3>5. k > m BY <3>4 DEF List!After
      <3> QED BY <3>2, <3>5
    <2>5. {} \in SUBSET List!Key /\ m \in {-1} \cup Nat /\ m # -1 BY <2>3
    <2>6. \A k \in always \ List!Temp : ~Below(k) /\ (m = -1 \/ Below(k)') => k \in {} BY <2>4, <2>5
    <2> QED BY <1>1, <1>3, <2>3, <2>5, <2>6, ListPageInv
  <1>4. CASE List!gs_list_page
    BY <1>2, <1>4 DEF List!gs_list_page, List!nextPageToken
  <1>5. CASE List!s3c_list_page
    <2>1. \/ \E n \in 1 .. PageSize :
               LET names == List!First(List!After(page_token), n) IN
               List!Page(names, IF names = List!After(page_token) THEN -1 ELSE List!Max(names))
          \/ \E m \in List!Key :
               m > page_token /\ List!After(m) = List!After(page_token) /\ List!Page({}, m)
      BY <1>5 DEF List!s3c_list_page, List!IsTruncated, List!LastName, List!NextMarker
    <2> QED BY <1>2, <1>3, <2>1
  <1> QED BY <1>4, <1>5

\* Swift: a page that is not full is the last one.
LEMMA ListSwiftInv ==
  ASSUME ListInv, UNCHANGED config, List!swift_list_page PROVE ListInv'
  <1> DEFINE S == List!After(page_token)
             page == List!First(S, PageSize)
             names == page \ config.Temp
             token == IF Cardinality(page) = PageSize THEN List!Max(names) ELSE -1
  <1>1. ListTypes BY DEF ListInv
  <1>2. /\ List!Backend = "swift" /\ config.Backend = "swift" /\ at = "page"
        /\ List!Temp = config.Temp /\ config.Temp \subseteq 1 .. config.NKeys
        /\ Cardinality(config.Temp) < PageSize /\ PageSize \in Nat \ {0}
        /\ List!Key = 1 .. config.NKeys /\ config.NKeys \in Nat
    BY <1>1, ListSetting DEF ListTypes, List!swift_list_page
  <1>3. List!Page(names, token)
    BY <1>2, ListCardinality DEF List!swift_list_page, List!Names, List!Count, List!LastName
  <1>4. page_token \in Nat BY <1>1, <1>2 DEF ListTypes
  <1>5. S \subseteq 1 .. config.NKeys /\ \A k \in keys : k \in S <=> ~Below(k)
    <2>1. keys \subseteq 1 .. config.NKeys /\ S = {k \in keys : k > page_token}
      BY <1>1, <1>2 DEF ListTypes, List!After
    <2>2. \A k \in keys : k \in Int /\ (k > page_token <=> ~(k <= page_token)) BY <1>4, <2>1
    <2> HIDE DEF S
    <2> QED BY <1>2, <2>1, <2>2 DEF Below
  <1>6. S \subseteq keys BY DEF List!After
  <1> HIDE DEF S
  <1>7. /\ page \subseteq S /\ IsFiniteSet(page)
        /\ \A x \in page, y \in S : y <= x => y \in page
        /\ Cardinality(page) <= PageSize /\ (Cardinality(page) < PageSize => page = S)
    BY <1>2, <1>5, FirstOf
  <1>8. page_token' = token /\ UNCHANGED <<config, List!server>> BY <1>3 DEF List!Page
  <1> HIDE DEF page
  <1>9. page \subseteq config.Temp => Cardinality(page) < PageSize
    <2>1. IsFiniteSet(1 .. config.NKeys) BY <1>2, FS_Interval
    <2>2. IsFiniteSet(config.Temp) BY <1>2, <2>1, FS_Subset
    <2>3. Cardinality(config.Temp) \in Nat BY <2>2, FS_CardinalityType
    <2>4. Cardinality(page) \in Nat BY <1>7, FS_CardinalityType
    <2>5. page \subseteq config.Temp => Cardinality(page) <= Cardinality(config.Temp)
      BY <2>2, FS_Subset
    <2> QED BY <1>2, <2>3, <2>4, <2>5
  <1>10. Cardinality(page) # PageSize => page = S
    <2>1. Cardinality(page) \in Nat BY <1>7, FS_CardinalityType
    <2> QED BY <1>2, <1>7, <2>1
  <1>11. ASSUME Cardinality(page) = PageSize PROVE token \in names /\ \A y \in names : y <= token
    <2>1. names # {} BY <1>2, <1>9, <1>11
    <2>2. names \subseteq 1 .. config.NKeys BY <1>5, <1>7
    <2>3. token = List!Max(names) BY <1>11
    <2> HIDE DEF names, token
    <2> QED BY <1>2, <2>1, <2>2, <2>3, GreatestOf
  <1>12. Cardinality(page) # PageSize => token = -1 OBVIOUS
  <1>13. names \subseteq page /\ \A k \in page : k \in names <=> k \notin config.Temp OBVIOUS
  <1> HIDE DEF names, token
  <1>14. token \in {-1} \cup Nat /\ (Cardinality(page) = PageSize => token # -1)
    <2>1. CASE Cardinality(page) = PageSize
      <3>1. token \in 1 .. config.NKeys BY <1>5, <1>7, <1>11, <1>13, <2>1
      <3> QED BY <1>2, <3>1
    <2>2. CASE Cardinality(page) # PageSize BY <1>12, <2>2
    <2> QED BY <2>1, <2>2
  <1>15. ASSUME NEW k \in names PROVE ~Below(k) BY <1>5, <1>6, <1>7, <1>13
  <1>16. ASSUME token # -1 PROVE page_token <= token /\ \A k \in names : Below(k)'
    <2>1. token \in names /\ \A y \in names : y <= token BY <1>11, <1>12, <1>16
    <2>2. ~Below(token) /\ token \in Nat BY <1>14, <1>15, <1>16, <2>1
    <2> QED BY <1>2, <1>4, <1>8, <2>1, <2>2 DEF Below
  <1>17. ASSUME NEW k \in always \ List!Temp, ~Below(k), token = -1 \/ Below(k)' PROVE k \in names
    <2>1. k \in S BY <1>1, <1>5, <1>17 DEF ListTypes
    <2>2. k \in page
      <3>1. CASE Cardinality(page) # PageSize BY <1>10, <2>1, <3>1
      <3>2. CASE Cardinality(page) = PageSize
        <4>1. token \in page /\ token # -1 BY <1>11, <1>13, <1>14, <3>2
        <4>2. k <= token BY <1>2, <1>8, <1>17, <4>1 DEF Below
        <4> QED BY <1>7, <2>1, <4>1, <4>2
      <3> QED BY <3>1, <3>2
    <2> QED BY <1>2, <1>13, <1>17, <2>2
  <1>18. names \in SUBSET List!Key BY <1>2, <1>5, <1>7, <1>13
  <1> QED BY <1>2, <1>3, <1>8, <1>14, <1>15, <1>16, <1>17, <1>18, ListPageInv

\* B2: the next page starts with the first name that is not on this one.
LEMMA ListFromInv ==
  ASSUME ListInv, UNCHANGED config, List!b2_list_page PROVE ListInv'
  <1> DEFINE S == List!From(page_token)
             names == List!First(S, PageSize)
             token == IF names = S THEN -1 ELSE List!Min(S \ names)
  <1>1. ListTypes BY DEF ListInv
  <1>2. /\ config.Backend = "b2" /\ at = "page" /\ PageSize \in Nat \ {0}
        /\ List!Key = 1 .. config.NKeys /\ config.NKeys \in Nat
    BY <1>1, ListSetting DEF ListTypes, List!b2_list_page
  <1>3. List!Page(names, token) BY DEF List!b2_list_page, List!nextFileName
  <1>4. page_token \in Nat BY <1>1, <1>2 DEF ListTypes
  <1>5. S \subseteq 1 .. config.NKeys /\ \A k \in keys : k \in S <=> ~Below(k)
    <2>1. keys \subseteq 1 .. config.NKeys /\ S = {k \in keys : k >= page_token}
      BY <1>1, <1>2 DEF ListTypes, List!From
    <2>2. \A k \in keys : k \in Int /\ (k >= page_token <=> ~(k < page_token)) BY <1>4, <2>1
    <2> HIDE DEF S
    <2> QED BY <1>2, <2>1, <2>2 DEF Below
  <1>6. S \subseteq keys BY DEF List!From
  <1> HIDE DEF S
  <1>7. names \subseteq S /\ \A x \in names, y \in S : y <= x => y \in names
    BY <1>2, <1>5, FirstOf
  <1>8. page_token' = token /\ UNCHANGED <<config, List!server>> BY <1>3 DEF List!Page
  <1> HIDE DEF names
  <1>9. names = S => token = -1 OBVIOUS
  <1>10. ASSUME names # S PROVE token \in S \ names /\ \A y \in S \ names : token <= y
    <2>1. token = List!Min(S \ names) BY <1>10
    <2> HIDE DEF token
    <2>2. S \ names # {} BY <1>7, <1>10
    <2>3. S \ names \subseteq Nat
      <3>1. 1 .. config.NKeys \subseteq Nat BY <1>2
      <3>2. S \subseteq Nat BY <1>5, <3>1, Zenon
      <3> QED BY <3>2, Zenon
    <2> QED BY <2>1, <2>2, <2>3, LeastOf
  <1> HIDE DEF token
  <1>11. token \in {-1} \cup Nat /\ (names # S => token # -1)
    <2>1. CASE names = S BY <1>9, <2>1
    <2>2. CASE names # S
      <3>1. token \in 1 .. config.NKeys BY <1>5, <1>10, <2>2
      <3> QED BY <1>2, <2>2, <3>1
    <2> QED BY <2>1, <2>2
  <1>12. ASSUME NEW k \in names PROVE ~Below(k) BY <1>5, <1>6, <1>7
  <1>13. ASSUME token # -1 PROVE page_token <= token /\ \A k \in names : Below(k)'
    <2>1. token \in S \ names BY <1>9, <1>10, <1>13
    <2>2. ~Below(token) /\ token \in Nat BY <1>5, <1>6, <1>11, <1>13, <2>1
    <2>3. ASSUME NEW k \in names PROVE k < token
      <3>1. k \in Nat /\ ~(token <= k) BY <1>5, <1>7, <2>1
      <3> QED BY <2>2, <3>1
    <2> QED BY <1>2, <1>4, <1>8, <2>2, <2>3 DEF Below
  <1>14. ASSUME NEW k \in always \ List!Temp, ~Below(k), token = -1 \/ Below(k)' PROVE k \in names
    <2>1. k \in S BY <1>1, <1>5, <1>14 DEF ListTypes
    <2>2. CASE names = S BY <2>1, <2>2
    <2>3. CASE names # S
      <3>1. token # -1 /\ token \in Nat BY <1>11, <2>3
      <3>2. k < token /\ k \in Nat BY <1>2, <1>5, <1>8, <1>14, <2>1, <3>1 DEF Below
      <3>3. ~(token <= k) BY <3>1, <3>2
      <3> QED BY <1>10, <2>1, <2>3, <3>3
    <2> QED BY <2>2, <2>3
  <1>15. names \in SUBSET List!Key BY <1>2, <1>5, <1>7
  <1> QED BY <1>2, <1>3, <1>8, <1>11, <1>12, <1>13, <1>14, <1>15, ListPageInv

\* The consumer takes a name of the page, or asks for the next one.
LEMMA ListItemInv ==
  ASSUME ListInv, UNCHANGED config, List!list PROVE ListInv'
  <1>0. PICK K : K = List!Key OBVIOUS
  <1>1. /\ ListTypes /\ ListOrder /\ ListCovers /\ at = "items"
        /\ UNCHANGED <<config, keys, always, page_token>>
        /\ List!Key' = List!Key /\ List!Temp' = List!Temp
    BY DEF ListInv, List!list, List!server, List!Key, List!NKeys, List!Temp
  <1>2. \A k : Below(k)' <=> Below(k) BY <1>1 DEF Below
  <1>3. CASE els = <<>>
    <2>1. UNCHANGED <<listed, els>> /\ at' = IF page_token = -1 THEN "done" ELSE "page"
      BY <1>3 DEF List!list
    <2>2. ListTypes' BY <1>1, <1>3, <2>1 DEF ListTypes
    <2>3. ListOrder' BY <1>1, <1>2, <2>1 DEF ListOrder
    <2>4. ListCovers' BY <1>1, <1>2, <2>1 DEF ListCovers
    <2> QED BY <2>2, <2>3, <2>4 DEF ListInv
  <1>4. CASE els # <<>>
    <2>1. listed' = Append(listed, Head(els)) /\ els' = Tail(els) /\ UNCHANGED at
      BY <1>4 DEF List!list
    <2>2. listed \in Seq(K) /\ els \in Seq(K) /\ K \subseteq Nat
      <3>1. List!Key = 1 .. config.NKeys BY <1>1, ListSetting DEF ListTypes
      <3> QED BY <1>0, <1>1, <3>1 DEF ListTypes
    <2>3. /\ Len(els) \in Nat \ {0} /\ Head(els) = els[1] /\ els[1] \in K
          /\ els' \in Seq(K) /\ DOMAIN els' = 1 .. Len(els) - 1
          /\ \A k \in 1 .. Len(els) - 1 : els'[k] = els[k + 1]
          /\ Range(els') = {els[k] : k \in 2 .. Len(els)}
          /\ Range(els) = {els[1]} \cup Range(els')
      BY <1>4, <2>1, <2>2, TailOf
    <2>4. PICK x \in K : x = els[1] BY <2>3
    <2>5. listed' = Append(listed, x) BY <2>1, <2>3, <2>4
    <2>6. /\ listed' \in Seq(K) /\ DOMAIN listed' = 1 .. Len(listed) + 1
          /\ \A k \in 1 .. Len(listed) : listed'[k] = listed[k]
          /\ listed'[Len(listed) + 1] = x
          /\ Range(listed') = Range(listed) \cup {x}
      BY <2>2, <2>4, <2>5, Appended
    <2>7. /\ DOMAIN els = 1 .. Len(els) /\ DOMAIN listed = 1 .. Len(listed) /\ Len(listed) \in Nat
      BY <2>2, LenProperties
    <2>8. Range(listed') \cup Range(els') = Range(listed) \cup Range(els) BY <2>3, <2>4, <2>6
    <2>9. ListTypes' BY <1>0, <1>1, <2>1, <2>3, <2>6 DEF ListTypes
    <2>10. List!Increasing(listed')
      <3>1. \A k \in 1 .. Len(listed) : listed[k] < x
        BY <1>1, <2>3, <2>4, <2>7 DEF ListOrder, Range
      <3>2. ASSUME NEW a \in DOMAIN listed', NEW b \in DOMAIN listed', a < b
            PROVE  listed'[a] < listed'[b]
        <4>1. a \in 1 .. Len(listed) BY <2>6, <2>7, <3>2
        <4>2. CASE b = Len(listed) + 1 BY <2>6, <3>1, <4>1, <4>2
        <4>3. CASE b # Len(listed) + 1
          <5>1. b \in 1 .. Len(listed) BY <2>6, <2>7, <4>3
          <5> QED BY <1>1, <2>6, <2>7, <3>2, <4>1, <5>1 DEF ListOrder, List!Increasing
        <4> QED BY <4>2, <4>3
      <3> QED BY <3>2 DEF List!Increasing
    <2>11. List!Increasing(els')
      <3>1. ASSUME NEW a \in DOMAIN els', NEW b \in DOMAIN els', a < b PROVE els'[a] < els'[b]
        <4>1. a + 1 \in DOMAIN els /\ b + 1 \in DOMAIN els /\ a + 1 < b + 1 BY <2>3, <2>7, <3>1
        <4>2. els[a + 1] < els[b + 1] BY <1>1, <4>1 DEF ListOrder, List!Increasing
        <4> QED BY <2>3, <4>2
      <3> QED BY <3>1 DEF List!Increasing
    <2>12. \A y \in Range(els') : x < y
      <3>1. ASSUME NEW k \in 2 .. Len(els) PROVE els[1] < els[k]
        <4>1. 1 \in DOMAIN els /\ k \in DOMAIN els /\ 1 < k BY <2>3, <2>7
        <4> QED BY <1>1, <4>1 DEF ListOrder, List!Increasing
      <3> QED BY <2>3, <2>4, <3>1
    <2>13. \A y \in Range(listed'), z \in Range(els') : y < z
      BY <1>1, <2>3, <2>6, <2>12 DEF ListOrder
    <2>14. ListOrder' BY <1>1, <1>2, <2>8, <2>10, <2>11, <2>13 DEF ListOrder
    <2>15. ListCovers' BY <1>1, <1>2, <2>8 DEF ListCovers
    <2> QED BY <2>9, <2>14, <2>15 DEF ListInv
  <1> QED BY <1>3, <1>4

\* Whatever is stored and deleted.
LEMMA ListChangeInv ==
  ASSUME ListInv, UNCHANGED config, NEW k \in List!Key, List!Change(k) PROVE ListInv'
  <1>1. /\ ListTypes /\ ListOrder /\ ListCovers
        /\ keys' \subseteq keys \cup {k} /\ always' = always \cap keys'
        /\ UNCHANGED <<config, at, page_token, els, listed>>
        /\ List!Key' = List!Key /\ List!Temp' = List!Temp
    BY DEF ListInv, List!Change, List!Key, List!NKeys, List!Temp
  <1>2. \A j : Below(j)' <=> Below(j) BY <1>1 DEF Below
  <1>3. ListTypes' BY <1>1 DEF ListTypes
  <1>4. ListOrder' BY <1>1, <1>2 DEF ListOrder
  <1>5. ListCovers' BY <1>1, <1>2 DEF ListCovers
  <1> QED BY <1>3, <1>4, <1>5 DEF ListInv

LEMMA ListStutterInv ==
  ASSUME ListInv, UNCHANGED <<config, keys, at, page_token, els, listed, always>> PROVE ListInv'
  <1>1. List!Key' = List!Key /\ List!Temp' = List!Temp BY DEF List!Key, List!NKeys, List!Temp
  <1>2. \A j : Below(j)' <=> Below(j) BY DEF Below
  <1>3. ListTypes /\ ListOrder /\ ListCovers BY DEF ListInv
  <1>4. ListTypes' BY <1>1, <1>3 DEF ListTypes
  <1>5. ListOrder' BY <1>2, <1>3 DEF ListOrder
  <1>6. ListCovers' BY <1>1, <1>2, <1>3 DEF ListCovers
  <1> QED BY <1>4, <1>5, <1>6 DEF ListInv

LEMMA ListNextInv ==
  ASSUME ListInv, UNCHANGED config, List!Next PROVE ListInv'
  <1>1. CASE List!Retry
    BY <1>1, ListStutterInv DEF List!Retry, List!server
  <1>2. ~List!swift_no_content BY DEF List!swift_no_content
  <1>3. ASSUME NEW k \in List!Key, List!Change(k) PROVE ListInv' BY <1>3, ListChangeInv
  <1> QED BY <1>1, <1>2, <1>3, ListMarkedInv, ListSwiftInv, ListFromInv, ListItemInv
          DEF List!Next, List!ListStep

LEMMA ListInvExact ==
  ASSUME ListInv PROVE List!ListedOnce /\ List!Complete
  <1>1. ListTypes /\ ListOrder /\ ListCovers BY DEF ListInv
  <1>2. List!ListedOnce
    <2>1. ASSUME NEW a \in DOMAIN listed, NEW b \in DOMAIN listed, listed[a] = listed[b] PROVE a = b
      <3>1. DOMAIN listed = 1 .. Len(listed) /\ Len(listed) \in Nat /\ List!Key = 1 .. config.NKeys
        BY <1>1, LenProperties, ListSetting DEF ListTypes
      <3>2. listed \in Seq(List!Key) BY <1>1 DEF ListTypes
      <3>3. listed[a] \in List!Key BY <3>1, <3>2, ElementOfSeq
      <3>4. listed[a] \in Int /\ a \in Int /\ b \in Int BY <3>1, <3>3
      <3>5. ~(a < b) /\ ~(b < a)
        <4>1. ~(listed[a] < listed[b]) /\ ~(listed[b] < listed[a]) BY <2>1, <3>4
        <4> QED BY <1>1, <4>1 DEF ListOrder, List!Increasing
      <3> QED BY <3>4, <3>5
    <2> QED BY <2>1 DEF List!ListedOnce, List!IsInjective
  <1>3. ASSUME at = "done" PROVE always \ List!Temp \subseteq List!ToSet(listed)
    <2>1. page_token = -1 /\ els = <<>> BY <1>1, <1>3 DEF ListTypes
    <2>2. Range(els) = {} /\ List!ToSet(listed) = Range(listed) BY <2>1 DEF Range, List!ToSet
    <2> QED BY <1>1, <2>1, <2>2 DEF ListCovers
  <1> QED BY <1>2, <1>3 DEF List!Complete

-----------------------------------------------------------------------------
(***************************************************************************)
(* One of them runs.                                                       *)
(***************************************************************************)
BatchesInv ==
    \/ part = "tool" /\ ToolInv
    \/ part = "destroy" /\ EndInv
    \/ part = "bulk" /\ BulkInv
    \/ part = "list" /\ ListInv

LEMMA BatchesInit == Init => BatchesInv
  BY ToolInitInv, EndInitInv, BulkInitInv, ListInitInv DEF Init, BatchesInv

LEMMA BatchesStep == BatchesInv /\ [Next]_vars => BatchesInv'
  <1> SUFFICES ASSUME BatchesInv, [Next]_vars PROVE BatchesInv' OBVIOUS
  <1>1. CASE BulkNext BY <1>1, BulkNextInv DEF BulkNext, BatchesInv
  <1>2. CASE ListNext BY <1>2, ListNextInv DEF ListNext, BatchesInv
  <1>3. CASE ToolNext BY <1>3, ToolNextInv DEF ToolNext, BatchesInv
  <1>4. CASE UNCHANGED vars
    <2>1. part' = part BY <1>4 DEF vars
    <2>2. ListInv => ListInv' BY <1>4, ListStutterInv DEF vars
    <2> QED BY <1>4, <2>1, <2>2, ToolStutterInv, EndStutterInv, BulkStutterInv DEF BatchesInv
  <1>5. CASE EndNext
    <2>1. UNCHANGED End!vars => UNCHANGED vars BY <1>5 DEF EndNext, End!vars, vars, NoEnd
    <2> QED BY <1>4, <1>5, <2>1, EndNextInv DEF EndNext, BatchesInv
  <1> QED BY <1>1, <1>2, <1>3, <1>4, <1>5 DEF Next, Rest

\* Whatever fails, and in whatever order.
THEOREM BatchesStaySound == Spec => []BatchesInv
  BY BatchesInit, BatchesStep, PTL DEF Spec

\* A tool that ends without an error has processed every object, and verify
\* reports every damaged or missing one, once, and nothing else
\* (verify.py:163, adm.py, contrib/clone_fs.py).
THEOREM ToolsDoAll == Spec => []ToolExact
  <1>1. BatchesInv => ToolExact BY ToolInvExact DEF BatchesInv, ToolExact
  <1> QED BY <1>1, BatchesStaySound, PTL

\* A key that still exists is still in the list, whatever has failed, and
\* none is left when delete_multi returns without an error (common.py:395).
\* Swift forgets keys if a failure comes without a list of keys.
THEOREM BulkForgetsNothing == Spec => []BulkExact
  <1>1. BatchesInv => BulkExact BY BulkInvExact DEF BatchesInv, BulkExact
  <1> QED BY <1>1, BatchesStaySound, PTL

\* list returns every key that exists all the time, and none twice, whatever
\* is stored and deleted between two pages (s3c.py:277, swift.py:720, gs.py,
\* b2_backend.py:569).
THEOREM ListsAll == Spec => []ListExact
  <1>1. BatchesInv => ListExact BY ListInvExact DEF BatchesInv, ListExact
  <1> QED BY <1>1, BatchesStaySound, PTL

\* When destroy returns, an object that should be removed is left only if a
\* thread died, and an entry is dirty only if all upload threads died or the
\* removal queue failed (block_cache.py:254).
THEOREM DestroyExplains == Spec => []DestroyExact
  <1>1. BatchesInv => DestroyExact BY EndExact DEF BatchesInv, DestroyExact, EndAlone
  <1> QED BY <1>1, BatchesStaySound, PTL

=============================================================================
