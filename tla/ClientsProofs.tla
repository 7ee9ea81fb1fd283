---------------------------- MODULE ClientsProofs ----------------------------
(***************************************************************************)
(* What a call of the remote backends returns and leaves behind, for every *)
(* number of faults, repetitions, threads, keys and every setting.         *)
(***************************************************************************)
EXTENDS MCClients, SequenceTheorems, TLAPS

-----------------------------------------------------------------------------
(***************************************************************************)
(* S3 (S3Client).  The first request of a delete meets what there was when *)
(* the call began, and a copy does not change its source.                  *)
(***************************************************************************)
S3Phases == {"idle", "fn", "send", "body", "undo", "done"}

OpFields == {"name", "key", "to", "force", "val"}

S3Inv ==
    /\ DOMAIN op = OpFields /\ op.val \in Int
    /\ server \in [Keys -> Int] /\ before \in [Keys -> Int] /\ inner \in Nat
    /\ config \in S3Settings /\ S3Tries \in Nat
    /\ phase \in S3Phases
    /\ phase # "idle" => op.key \in Keys
    /\ phase \in {"idle", "fn", "send", "undo"} => conn \in {"free", "clean"}
    /\ phase \in {"fn", "send", "undo"} => conn = "clean"
    /\ phase \in {"fn", "undo"} => op.name = "write"
    /\ phase = "body" => op.name = "read"
    /\ phase = "send" /\ op.name = "delete" /\ inner = 0 => server = before
    /\ phase # "idle" /\ op.name = "copy" =>
          op.to \in Keys /\ op.to # op.key /\ server[op.key] = before[op.key]
    /\ writes \in Nat
    /\ S3!ReadExact /\ S3!WriteExact /\ S3!DeleteExact
    /\ ~config.DumbCopy => S3!CopyExact

LEMMA S3InitInv == ASSUME S3!Init PROVE S3Inv
  BY ClientsAssumption DEF S3!Init, OpFields, S3Inv, S3!NoOp, S3Phases, S3!ReadExact, S3!WriteExact, S3!DeleteExact,
         S3!CopyExact, S3!Returned

\* A call begins.
LEMMA S3BeginInv ==
  ASSUME S3Inv, UNCHANGED config, NEW o, DOMAIN o = OpFields, o.key \in Keys, o.val \in Int, S3!Begin(o),
         o.name = "copy" => o.to \in Keys /\ o.to # o.key, writes' \in Nat
  PROVE  S3Inv'
  BY DEF S3!Begin, S3Inv, S3Phases, S3!ReadExact, S3!WriteExact, S3!DeleteExact, S3!CopyExact,
         S3!Returned

LEMMA S3DeleteInv ==
  ASSUME S3Inv, UNCHANGED config, NEW k \in Keys, NEW force \in BOOLEAN, S3!delete(k, force)
  PROVE  S3Inv'
  <1> DEFINE o == [S3!NoOp EXCEPT !.name = "delete", !.key = k, !.force = force]
  <1>1. writes \in Nat BY DEF S3Inv
  <1>2. DOMAIN o = OpFields /\ o.key = k /\ o.val \in Int
        /\ (o.name = "copy" => o.to \in Keys /\ o.to # o.key)
    BY <1>1 DEF S3!NoOp, OpFields
  <1>3. S3!Begin(o) /\ writes' \in Nat BY <1>1 DEF S3!delete
  <1> HIDE DEF o
  <1> QED BY <1>2, <1>3, S3BeginInv

LEMMA S3LookupInv ==
  ASSUME S3Inv, UNCHANGED config, NEW k \in Keys, S3!lookup(k)
  PROVE  S3Inv'
  <1> DEFINE o == [S3!NoOp EXCEPT !.name = "lookup", !.key = k]
  <1>1. writes \in Nat BY DEF S3Inv
  <1>2. DOMAIN o = OpFields /\ o.key = k /\ o.val \in Int
        /\ (o.name = "copy" => o.to \in Keys /\ o.to # o.key)
    BY <1>1 DEF S3!NoOp, OpFields
  <1>3. S3!Begin(o) /\ writes' \in Nat BY <1>1 DEF S3!lookup
  <1> HIDE DEF o
  <1> QED BY <1>2, <1>3, S3BeginInv

LEMMA S3OpenReadInv ==
  ASSUME S3Inv, UNCHANGED config, NEW k \in Keys, S3!perform_read(k)
  PROVE  S3Inv'
  <1> DEFINE o == [S3!NoOp EXCEPT !.name = "read", !.key = k]
  <1>1. writes \in Nat BY DEF S3Inv
  <1>2. DOMAIN o = OpFields /\ o.key = k /\ o.val \in Int
        /\ (o.name = "copy" => o.to \in Keys /\ o.to # o.key)
    BY <1>1 DEF S3!NoOp, OpFields
  <1>3. S3!Begin(o) /\ writes' \in Nat BY <1>1 DEF S3!perform_read
  <1> HIDE DEF o
  <1> QED BY <1>2, <1>3, S3BeginInv

LEMMA S3OpenWriteInv ==
  ASSUME S3Inv, UNCHANGED config, NEW k \in Keys, S3!perform_write(k)
  PROVE  S3Inv'
  <1> DEFINE o == [S3!NoOp EXCEPT !.name = "write", !.key = k, !.val = writes + 1]
  <1>1. writes \in Nat BY DEF S3Inv
  <1>2. DOMAIN o = OpFields /\ o.key = k /\ o.val \in Int
        /\ (o.name = "copy" => o.to \in Keys /\ o.to # o.key)
    BY <1>1 DEF S3!NoOp, OpFields
  <1>3. S3!Begin(o) /\ writes' \in Nat BY <1>1 DEF S3!perform_write
  <1> HIDE DEF o
  <1> QED BY <1>2, <1>3, S3BeginInv

LEMMA S3CopyInv ==
  ASSUME S3Inv, UNCHANGED config, NEW k \in Keys, NEW to \in Keys \ {k}, S3!copy(k, to)
  PROVE  S3Inv'
  <1> DEFINE o == [S3!NoOp EXCEPT !.name = "copy", !.key = k, !.to = to]
  <1>1. writes \in Nat BY DEF S3Inv
  <1>2. DOMAIN o = OpFields /\ o.key = k /\ o.val \in Int
        /\ (o.name = "copy" => o.to \in Keys /\ o.to # o.key)
    BY <1>1 DEF S3!NoOp, OpFields
  <1>3. S3!Begin(o) /\ writes' \in Nat BY <1>1 DEF S3!copy
  <1> HIDE DEF o
  <1> QED BY <1>2, <1>3, S3BeginInv

S3Promises ==
    /\ S3!ReadExact /\ S3!WriteExact /\ S3!DeleteExact
    /\ ~config.DumbCopy => S3!CopyExact

\* A request is made again, or the call fails.
LEMMA S3RetryInv ==
  ASSUME S3Inv, UNCHANGED <<config, op, before, writes>>, S3!Retry, conn' = "clean", phase # "idle",
         server' \in [Keys -> Int],
         op.name = "copy" => server'[op.key] = server[op.key]
  PROVE  S3Inv'
  <1>1. op.name = "delete" => ~S3!Nested BY DEF S3!Nested
  <1>2. phase' = "done" => result' = "error" BY DEF S3!Retry, S3!Return, S3Inv
  <1>3. phase' \in {"send", "fn", "done"} /\ (phase' = "fn" => op.name = "write")
    BY DEF S3!Retry, S3!Return
  <1>4. inner' \in Nat /\ (op.name = "delete" /\ phase' = "send" => inner' # 0)
    BY <1>1 DEF S3!Retry, S3!Return, S3Inv
  <1>5. S3Promises'
    BY <1>2, <1>3 DEF S3Promises, S3!ReadExact, S3!WriteExact, S3!DeleteExact, S3!CopyExact, S3!Returned
  <1> QED BY <1>3, <1>4, <1>5 DEF S3Inv, S3Phases, S3Promises

\* What an effect may be.
LEMMA S3Effect ==
  ASSUME S3Inv, phase = "send"
  PROVE  /\ S3!Effect \in [Keys -> Int]
         /\ op.name = "copy" => S3!Effect[op.key] = server[op.key]
         /\ op.name = "copy" /\ ~S3!Missing => S3!Effect[op.to] = server[op.key]
         /\ op.name = "delete" => S3!Effect[op.key] = 0
         /\ op.name = "write" => S3!Effect[op.key] = op.val
  BY DEF S3Inv, OpFields, S3!Effect, S3!Missing

LEMMA S3StepInv ==
  ASSUME S3Inv, UNCHANGED config, S3!Step PROVE S3Inv'
  <1>1. CASE S3!fn
    BY <1>1 DEF S3!fn, S3!NoFault, S3!Fault, S3Inv, OpFields, S3Phases, S3!ReadExact, S3!WriteExact,
           S3!DeleteExact, S3!CopyExact, S3!Returned
  <1>2. CASE S3!TempFailure
    <2>1. server' \in [Keys -> Int] /\ (op.name = "copy" => server'[op.key] = server[op.key])
      BY <1>2, S3Effect DEF S3!TempFailure, S3Inv
    <2> QED BY <1>2, <2>1, S3RetryInv DEF S3!TempFailure
  <1>3. CASE S3!PermanentFailure
    BY <1>3 DEF S3!PermanentFailure, S3!Return, S3Inv, S3Phases, S3!ReadExact, S3!WriteExact,
           S3!DeleteExact, S3!CopyExact, S3!Returned
  <1>4. CASE S3!NoSuchKey
    BY <1>4 DEF S3!NoSuchKey, S3!Missing, S3!is_retry, S3!Return, S3!NoFault, S3Inv, S3Phases,
           S3!ReadExact, S3!WriteExact, S3!DeleteExact, S3!CopyExact, S3!Returned
  <1>5. CASE S3!Success
    <2>1. /\ server' \in [Keys -> Int]
          /\ op.name = "copy" => server'[op.key] = server[op.key] /\ server'[op.to] = server[op.key]
          /\ op.name = "delete" => server'[op.key] = 0
      BY <1>5, S3Effect DEF S3!Success
    <2> QED BY <1>5, <2>1 DEF S3!Success, S3!Return, S3!NoFault, S3Inv, S3Phases,
           S3!ReadExact, S3!WriteExact, S3!DeleteExact, S3!CopyExact, S3!Returned
  <1>6. CASE S3!CopyError
    <2>1. CASE config.DumbCopy
      BY <1>6, <2>1 DEF S3!CopyError, S3!CopyFailed, S3!DumbCopy, S3!Return, S3!Fault, S3Inv, S3Phases,
             S3!ReadExact, S3!WriteExact, S3!DeleteExact, S3!CopyExact, S3!Returned
    <2>2. CASE ~config.DumbCopy
      <3>1. S3!Retry /\ UNCHANGED <<op, before, writes, server>> /\ conn' = "clean" /\ phase # "idle"
        BY <1>6, <2>2 DEF S3!CopyError, S3!CopyFailed, S3!DumbCopy, S3Inv
      <3> QED BY <3>1, S3RetryInv DEF S3Inv
    <2> QED BY <2>1, <2>2
  <1>7. CASE S3!Upload
    <2>1. server' \in [Keys -> Int] /\ server'[op.key] = op.val
      BY <1>7, S3Effect DEF S3!Upload
    <2> QED BY <1>7, <2>1 DEF S3!Upload, S3!Return, S3!NoFault, S3Inv, S3Phases,
           S3!ReadExact, S3!WriteExact, S3!DeleteExact, S3!CopyExact, S3!Returned
  <1>8. CASE S3!UploadGarbled
    BY <1>8 DEF S3!UploadGarbled, S3!Garbled, S3!Fault, S3Inv, S3Phases,
           S3!ReadExact, S3!WriteExact, S3!DeleteExact, S3!CopyExact, S3!Returned
  <1>9. CASE S3!Undo
    <2>1. S3!Retry /\ UNCHANGED <<op, before, writes>> /\ conn' = "clean" /\ phase # "idle"
          /\ server' \in [Keys -> Int] /\ op.name = "write"
      BY <1>9 DEF S3!Undo, S3Inv
    <2> QED BY <2>1, S3RetryInv
  <1>10. CASE S3!OpenRead
    BY <1>10 DEF S3!OpenRead, S3!NoFault, S3Inv, S3Phases, S3!ReadExact, S3!WriteExact,
           S3!DeleteExact, S3!CopyExact, S3!Returned
  <1>11. CASE S3!BadMeta
    <2>1. S3!Retry /\ UNCHANGED <<op, before, writes, server>> /\ conn' = "clean" /\ phase # "idle"
      BY <1>11 DEF S3!BadMeta
    <2> QED BY <2>1, S3RetryInv DEF S3Inv
  <1>12. ASSUME NEW v, S3!Read(v) PROVE S3Inv'
    BY <1>12 DEF S3!Read, S3!DigestMatches, S3!OuterRetry, S3!Return, S3Inv, S3Phases, S3!ReadExact,
           S3!WriteExact, S3!DeleteExact, S3!CopyExact, S3!Returned
  <1>13. ASSUME NEW temp, S3!ReadFails(temp) PROVE S3Inv'
    BY <1>13 DEF S3!ReadFails, S3!CloseEarly, S3!OuterRetry, S3!Return, S3Inv, S3Phases, S3!ReadExact,
           S3!WriteExact, S3!DeleteExact, S3!CopyExact, S3!Returned
  <1>14. CASE S3!End
    BY <1>14 DEF S3!End, S3!NoOp, S3Inv, OpFields, S3Phases, S3!ReadExact, S3!WriteExact,
           S3!DeleteExact, S3!CopyExact, S3!Returned
  <1> QED BY <1>1, <1>2, <1>3, <1>4, <1>5, <1>6, <1>7, <1>8, <1>9, <1>10, <1>11, <1>12, <1>13, <1>14
          DEF S3!Step

LEMMA S3NextInv ==
  ASSUME S3Inv, UNCHANGED config, S3!Next PROVE S3Inv'
  BY S3StepInv, S3DeleteInv, S3LookupInv, S3OpenReadInv, S3OpenWriteInv, S3CopyInv DEF S3!Next

-----------------------------------------------------------------------------
(***************************************************************************)
(* Swift (SwiftClient).  While a call is made the objects are what they    *)
(* were or what the call makes them; the temporary object is nothing, the  *)
(* source, or what the destination will be.  A write whose data is spoiled *)
(* has only its own object in hand.                                        *)
(***************************************************************************)
SwiftObject == [data : (0 .. SwiftCalls) \cup {Part}, meta : Metas]
SwiftObjects == [Keys -> {None} \cup SwiftObject]
SwiftFields == {"name", "key", "to", "data", "meta", "force"}
SwiftNames == {"delete", "lookup", "read", "write", "update_meta", "copy", "put_post"}

\* The arguments of a call.
SwiftCall ==
    /\ DOMAIN op = SwiftFields
    /\ op.name \in SwiftNames /\ op.key \in Keys
    /\ op.name \in {"write", "update_meta"} => op.meta \in Metas
    /\ op.name \in {"copy", "put_post"} =>
          op.to \in Keys /\ op.to # op.key /\ op.meta \in Metas \cup {None}
    /\ op.name = "write" => op.data \in (0 .. SwiftCalls) \cup {Part}

SwiftTypes ==
    /\ objects \in SwiftObjects /\ before \in SwiftObjects /\ temps \in SwiftObjects
    /\ calls \in 0 .. SwiftCalls /\ stage \in 0 .. 3
    /\ at \in {"ok", "NoSuchObject", "error", "idle", "fn", "send", "read"}
    /\ at \in {"fn", "send", "read"} => stage > 0
    /\ at # "idle" => SwiftCall

\* How far a copy is that needs a temporary object.
SwiftStages ==
    at \in {"fn", "send", "read"} =>
        /\ stage = 1 /\ ~is_retry => objects = before
        /\ stage > 1 => op.name = "put_post" /\ op.meta # None /\ before[op.key] # None
        /\ stage = 2 => objects = before
        /\ stage = 2 => temps[op.to] \in {None, before[op.key], Swift!WithMeta(before[op.key], op.meta)}
        /\ stage = 3 => temps[op.to] \in {None, Swift!WithMeta(before[op.key], op.meta)}
        /\ stage = 1 /\ Swift!UsesTemp => objects = before

\* A call on its way to its goal.
SwiftSound ==
    /\ SwiftTypes /\ SwiftStages
    /\ objects \in {before, Swift!Goal}
    /\ at = "fn" => op.name = "write" /\ stage = 1 /\ ~is_retry
    /\ at = "read" => op.name = "read" /\ got = before[op.key]
    /\ at # "idle" /\ op.name = "write" => op.data = calls
    /\ Swift!OkMeansDone /\ Swift!MissingExact

\* A write whose data was cut short or damaged.
SwiftSpoiled ==
    /\ SwiftTypes
    /\ at \in {"send", "error"} /\ Swift!Raises
    /\ objects \in {before, [before EXCEPT ![op.key] = Swift!Written], [before EXCEPT ![op.key] = None]}

SwiftInv == SwiftSound \/ SwiftSpoiled

LEMMA SwiftWithMeta ==
  ASSUME NEW o \in SwiftObject, NEW m \in Metas \cup {None}, None \notin Metas
  PROVE  /\ Swift!WithMeta(o, m) \in SwiftObject
         /\ Swift!WithMeta(Swift!WithMeta(o, m), m) = Swift!WithMeta(o, m)
         /\ m = None => Swift!WithMeta(o, m) = o
  BY DEF Swift!WithMeta, SwiftObject

LEMMA SwiftNone ==
  None \notin SwiftObject /\ None \notin Metas /\ SwiftCalls \in Nat /\ Part \notin 0 .. SwiftCalls
  BY ClientsAssumption DEF SwiftObject

LEMMA SwiftInitInv == ASSUME Swift!Init PROVE SwiftSound
  <1>1. [data : {0}, meta : Metas] \subseteq SwiftObject
    BY ClientsAssumption DEF SwiftObject
  <1>2. objects \in SwiftObjects /\ temps \in SwiftObjects
    BY <1>1 DEF Swift!Init, SwiftObjects
  <1>3. SwiftTypes
    BY <1>2, SwiftNone DEF Swift!Init, SwiftTypes
  <1> QED
    BY <1>3 DEF Swift!Init, SwiftSound, SwiftStages, Swift!OkMeansDone, Swift!MissingExact

LEMMA SwiftBeginInv ==
  ASSUME SwiftInv, UNCHANGED config, NEW o, Swift!Call(o), SwiftCall',
         o.name = "write" => o.data = calls + 1
  PROVE  SwiftSound'
  <1>1. SwiftTypes'
    BY SwiftNone DEF Swift!Call, Swift!Server, Swift!Result, SwiftInv, SwiftSound, SwiftSpoiled, SwiftTypes
  <1>2. /\ stage' = 1 /\ ~is_retry' /\ before' = objects /\ objects' = objects
        /\ at' = (IF op'.name = "write" THEN "fn" ELSE "send")
        /\ op'.name = "write" => op'.data = calls'
    BY DEF Swift!Call, Swift!Server
  <1> QED
    BY <1>1, <1>2 DEF SwiftSound, SwiftStages, Swift!OkMeansDone, Swift!MissingExact

LEMMA SwiftDeleteInv ==
  ASSUME SwiftInv, UNCHANGED config, NEW k \in Keys, NEW f \in BOOLEAN, Swift!delete(k, f)
  PROVE  SwiftSound'
  <1> DEFINE o == [Swift!NoOp EXCEPT !.name = "delete", !.key = k, !.force = f]
  <1>1. SwiftCall' BY DEF Swift!delete, Swift!Call, Swift!NoOp, SwiftCall, SwiftFields, SwiftNames
  <1>2. Swift!Call(o) BY DEF Swift!delete
  <1>3. o.name # "write" BY DEF Swift!NoOp
  <1> HIDE DEF o
  <1> QED BY <1>1, <1>2, <1>3, SwiftBeginInv

LEMMA SwiftLookupInv ==
  ASSUME SwiftInv, UNCHANGED config, NEW k \in Keys, Swift!lookup(k)
  PROVE  SwiftSound'
  <1> DEFINE o == [Swift!NoOp EXCEPT !.name = "lookup", !.key = k]
  <1>1. SwiftCall' BY DEF Swift!lookup, Swift!Call, Swift!NoOp, SwiftCall, SwiftFields, SwiftNames
  <1>2. Swift!Call(o) BY DEF Swift!lookup
  <1>3. o.name # "write" BY DEF Swift!NoOp
  <1> HIDE DEF o
  <1> QED BY <1>1, <1>2, <1>3, SwiftBeginInv

LEMMA SwiftOpenReadInv ==
  ASSUME SwiftInv, UNCHANGED config, NEW k \in Keys, Swift!perform_read(k)
  PROVE  SwiftSound'
  <1> DEFINE o == [Swift!NoOp EXCEPT !.name = "read", !.key = k]
  <1>1. SwiftCall' BY DEF Swift!perform_read, Swift!Call, Swift!NoOp, SwiftCall, SwiftFields, SwiftNames
  <1>2. Swift!Call(o) BY DEF Swift!perform_read
  <1>3. o.name # "write" BY DEF Swift!NoOp
  <1> HIDE DEF o
  <1> QED BY <1>1, <1>2, <1>3, SwiftBeginInv

LEMMA SwiftOpenWriteInv ==
  ASSUME SwiftInv, UNCHANGED config, NEW k \in Keys, NEW m \in Metas, Swift!perform_write(k, m)
  PROVE  SwiftSound'
  <1> DEFINE o == [Swift!NoOp EXCEPT !.name = "write", !.key = k, !.data = calls + 1, !.meta = m]
  <1>2. Swift!Call(o) BY DEF Swift!perform_write
  <1>3. /\ DOMAIN o = SwiftFields /\ o.name = "write" /\ o.key = k /\ o.meta = m
        /\ o.data = calls + 1
    BY DEF Swift!NoOp, SwiftFields
  <1> HIDE DEF o
  <1>4. calls + 1 \in 0 .. SwiftCalls
    BY <1>2, SwiftNone DEF SwiftInv, SwiftSound, SwiftSpoiled, SwiftTypes, Swift!Call
  <1>1. SwiftCall' BY <1>2, <1>3, <1>4 DEF Swift!Call, SwiftCall, SwiftNames
  <1> QED BY <1>1, <1>2, <1>3, SwiftBeginInv

LEMMA SwiftUpdateMetaInv ==
  ASSUME SwiftInv, UNCHANGED config, NEW k \in Keys, NEW m \in Metas, Swift!update_meta(k, m)
  PROVE  SwiftSound'
  <1> DEFINE o == [Swift!NoOp EXCEPT !.name = "update_meta", !.key = k, !.meta = m]
  <1>1. SwiftCall' BY DEF Swift!update_meta, Swift!Call, Swift!NoOp, SwiftCall, SwiftFields, SwiftNames
  <1>2. Swift!Call(o) BY DEF Swift!update_meta
  <1>3. o.name # "write" BY DEF Swift!NoOp
  <1> HIDE DEF o
  <1> QED BY <1>1, <1>2, <1>3, SwiftBeginInv

LEMMA SwiftCopyInv ==
  ASSUME SwiftInv, UNCHANGED config, NEW k \in Keys, NEW to \in Keys \ {k}, NEW m \in Metas \cup {None},
         Swift!copy(k, to, m)
  PROVE  SwiftSound'
  <1> DEFINE o == [Swift!NoOp EXCEPT !.name = IF has_copy THEN "copy" ELSE "put_post",
                              !.key = k, !.to = to, !.meta = m]
  <1>1. SwiftCall' BY DEF Swift!copy, Swift!Call, Swift!NoOp, SwiftCall, SwiftFields, SwiftNames
  <1>2. Swift!Call(o) BY DEF Swift!copy
  <1>3. o.name # "write" BY DEF Swift!NoOp
  <1> HIDE DEF o
  <1> QED BY <1>1, <1>2, <1>3, SwiftBeginInv

-----------------------------------------------------------------------------
\* The key that a call changes, and what it makes of it.
SwiftDest == IF op.name \in {"copy", "put_post"} THEN op.to ELSE op.key

SwiftFinal ==
    CASE op.name = "delete" -> None
      [] op.name = "write" -> [data |-> calls, meta |-> op.meta]
      [] OTHER -> IF before[op.key] = None THEN before[SwiftDest]
                  ELSE Swift!WithMeta(before[op.key], op.meta)

SwiftChanges == op.name \notin {"lookup", "read"}

LEMMA SwiftGoalIs ==
  ASSUME SwiftTypes, SwiftCall
  PROVE  /\ SwiftDest \in Keys /\ (SwiftChanges => SwiftFinal \in {None} \cup SwiftObject)
         /\ ~SwiftChanges => Swift!Goal = before
         /\ SwiftChanges => Swift!Goal = [before EXCEPT ![SwiftDest] = SwiftFinal]
  <1> USE DEF SwiftDest, SwiftFinal, SwiftChanges
  <1>1. SwiftDest \in Keys BY DEF SwiftCall
  <1>2. before \in SwiftObjects /\ op.key \in Keys /\ op.name \in SwiftNames
    BY DEF SwiftTypes, SwiftCall
  <1>3. before[op.key] \in {None} \cup SwiftObject /\ before[SwiftDest] \in {None} \cup SwiftObject
    BY <1>1, <1>2 DEF SwiftObjects
  <1>4. op.name = "write" => [data |-> calls, meta |-> op.meta] \in SwiftObject
    BY DEF SwiftTypes, SwiftCall, SwiftObject
  <1>5. op.name \in {"update_meta", "copy", "put_post"} /\ before[op.key] # None =>
            Swift!WithMeta(before[op.key], op.meta) \in SwiftObject
    BY <1>3, SwiftNone, SwiftWithMeta DEF SwiftCall
  <1>6. SwiftChanges => SwiftFinal \in {None} \cup SwiftObject
    BY <1>2, <1>3, <1>4, <1>5 DEF SwiftNames
  <1>7. ~SwiftChanges => Swift!Goal = before BY DEF Swift!Goal
  <1>8. CASE op.name = "delete" BY <1>1, <1>6, <1>7, <1>8 DEF Swift!Goal
  <1>9. CASE op.name = "write" BY <1>1, <1>6, <1>7, <1>9 DEF Swift!Goal
  <1>10. CASE op.name = "update_meta"
    <2>1. op.meta # None BY <1>10, SwiftNone DEF SwiftCall
    <2> QED BY <1>1, <1>6, <1>7, <1>10, <2>1 DEF Swift!Goal, Swift!WithMeta
  <1>11. CASE op.name \in {"copy", "put_post"} BY <1>1, <1>6, <1>7, <1>11 DEF Swift!Goal
  <1> QED BY <1>1, <1>2, <1>6, <1>7, <1>8, <1>9, <1>10, <1>11 DEF SwiftNames

LEMMA SwiftSet ==
  ASSUME NEW f \in SwiftObjects, NEW g \in SwiftObjects, NEW k \in Keys,
         NEW v \in {None} \cup SwiftObject, f \in {g, [g EXCEPT ![k] = v]}
  PROVE  [f EXCEPT ![k] = v] = [g EXCEPT ![k] = v] /\ [f EXCEPT ![k] = v] \in SwiftObjects
  BY DEF SwiftObjects

LEMMA SwiftSource ==
  ASSUME SwiftSound, SwiftCall
  PROVE  /\ op.name \in {"lookup", "read", "copy", "put_post"} => objects[op.key] = before[op.key]
         /\ objects[op.key] \in {None} \cup SwiftObject /\ before[op.key] \in {None} \cup SwiftObject
         /\ before[SwiftDest] \in {None} \cup SwiftObject
  BY SwiftGoalIs DEF SwiftSound, SwiftTypes, SwiftCall, SwiftObjects, SwiftDest, SwiftChanges

\* A request that changes the object itself.
LEMMA SwiftEffectOne ==
  ASSUME SwiftSound, at = "send", Swift!Needed # None, Swift!Effect, SwiftChanges, ~Swift!UsesTemp
  PROVE  objects' = [objects EXCEPT ![SwiftDest] = SwiftFinal] /\ temps' = temps
  <1> USE DEF SwiftDest
  <1>0. SwiftCall /\ stage > 0 /\ stage \in 0 .. 3 BY DEF SwiftSound, SwiftTypes
  <1>1. stage = 1 \/ op.name = "put_post" BY <1>0 DEF SwiftSound, SwiftStages
  <1>2. op.name = "put_post" => stage = 1 /\ op.meta = None
    BY <1>0 DEF SwiftSound, SwiftStages, Swift!UsesTemp
  <1>3. CASE op.name = "delete"
    BY <1>3 DEF Swift!Effect, Swift!ObjectTo, SwiftFinal
  <1>4. CASE op.name = "write"
    BY <1>1, <1>4 DEF Swift!Effect, Swift!ObjectTo, Swift!Written, SwiftFinal, SwiftSound
  <1>5. CASE op.name \in {"copy", "put_post"}
    <2>1. objects[op.key] # None BY <1>2, <1>5 DEF Swift!Needed
    <2>2. objects[op.key] = before[op.key] /\ before[op.key] \in SwiftObject
      BY <1>0, <1>5, <2>1, SwiftSource
    <2>3. SwiftFinal = Swift!WithMeta(before[op.key], op.meta) BY <1>5, <2>1, <2>2 DEF SwiftFinal
    <2>4. CASE op.name = "copy"
      BY <2>2, <2>3, <2>4 DEF Swift!Effect, Swift!ViaCopy, Swift!ObjectTo
    <2>5. CASE op.name = "put_post"
      <3>1. Swift!WithMeta(before[op.key], op.meta) = before[op.key]
        BY <1>2, <2>2, <2>5, SwiftWithMeta, SwiftNone
      <3> QED BY <1>2, <2>2, <2>3, <2>5, <3>1 DEF Swift!Effect, Swift!PutPost, Swift!ObjectTo
    <2> QED BY <1>5, <2>4, <2>5
  <1>6. CASE op.name = "update_meta"
    <2>1. objects[op.key] # None /\ op.key \in Keys /\ op.meta \in Metas \cup {None}
      BY <1>0, <1>6 DEF Swift!Needed, SwiftCall
    <2>2. objects' = [objects EXCEPT ![op.key] = Swift!WithMeta(objects[op.key], op.meta)] /\ temps' = temps
      BY <1>6 DEF Swift!Effect, Swift!ObjectTo
    <2>3. objects \in {before, [before EXCEPT ![op.key] = SwiftFinal]} /\ before \in SwiftObjects
      BY <1>0, <1>6, SwiftGoalIs DEF SwiftSound, SwiftTypes
    <2>4. objects[op.key] \in {before[op.key], SwiftFinal} BY <2>1, <2>3 DEF SwiftObjects
    <2>5. before[op.key] # None BY <1>6, <2>1, <2>4 DEF SwiftFinal
    <2>6. SwiftFinal = Swift!WithMeta(before[op.key], op.meta) BY <1>6, <2>5 DEF SwiftFinal
    <2>7. before[op.key] \in SwiftObject BY <1>0, <2>5, SwiftSource
    <2>8. Swift!WithMeta(objects[op.key], op.meta) = SwiftFinal
      BY <2>1, <2>4, <2>6, <2>7, SwiftWithMeta, SwiftNone
    <2> QED BY <1>6, <2>2, <2>8
  <1> QED BY <1>0, <1>3, <1>4, <1>5, <1>6 DEF SwiftCall, SwiftNames, SwiftChanges

\* A request of a copy with a temporary object.
LEMMA SwiftEffectTemp ==
  ASSUME SwiftSound, at = "send", Swift!Needed # None, Swift!Effect, Swift!UsesTemp
  PROVE  /\ stage \in {1, 2} => objects' = before /\ before[op.key] # None /\ temps' \in SwiftObjects
         /\ stage = 1 => temps'[op.to] = before[op.key]
         /\ stage = 2 => temps'[op.to] = Swift!WithMeta(before[op.key], op.meta)
         /\ stage = 3 => objects' = [objects EXCEPT ![SwiftDest] = SwiftFinal] /\ temps' = temps
  <1>1. /\ SwiftCall /\ temps \in SwiftObjects /\ op.name = "put_post" /\ op.to \in Keys
        /\ op.meta \in Metas \cup {None}
    BY DEF SwiftSound, SwiftTypes, SwiftCall, Swift!UsesTemp
  <1>2. objects[op.key] = before[op.key] /\ before[op.key] \in {None} \cup SwiftObject
    BY <1>1, SwiftSource
  <1>3. CASE stage = 1
    <2>1. before[op.key] # None BY <1>1, <1>2, <1>3 DEF Swift!Needed
    <2>2. temps' = [temps EXCEPT ![op.to] = before[op.key]] /\ objects' = objects
      BY <1>1, <1>2, <1>3 DEF Swift!Effect, Swift!PutPost, Swift!TempTo
    <2>3. objects = before BY <1>3 DEF SwiftSound, SwiftStages
    <2> QED BY <1>1, <1>2, <1>3, <2>1, <2>2, <2>3 DEF SwiftObjects
  <1>4. CASE stage = 2
    <2>1. temps[op.to] # None BY <1>1, <1>4 DEF Swift!Needed
    <2>2. objects = before /\ before[op.key] # None
          /\ temps[op.to] \in {before[op.key], Swift!WithMeta(before[op.key], op.meta)}
      BY <1>4, <2>1 DEF SwiftSound, SwiftStages
    <2>3. before[op.key] \in SwiftObject BY <1>2, <2>2
    <2>4. /\ Swift!WithMeta(temps[op.to], op.meta) = Swift!WithMeta(before[op.key], op.meta)
          /\ Swift!WithMeta(before[op.key], op.meta) \in SwiftObject
      BY <1>1, <2>2, <2>3, SwiftWithMeta, SwiftNone
    <2>5. temps' = [temps EXCEPT ![op.to] = Swift!WithMeta(before[op.key], op.meta)] /\ objects' = objects
      BY <1>1, <1>4, <2>4 DEF Swift!Effect, Swift!PutPost, Swift!TempTo
    <2> QED BY <1>1, <1>4, <2>2, <2>4, <2>5 DEF SwiftObjects
  <1>5. CASE stage = 3
    <2>1. temps[op.to] # None BY <1>1, <1>5 DEF Swift!Needed
    <2>2. before[op.key] # None /\ temps[op.to] = Swift!WithMeta(before[op.key], op.meta)
      BY <1>5, <2>1 DEF SwiftSound, SwiftStages
    <2>3. SwiftFinal = Swift!WithMeta(before[op.key], op.meta) /\ SwiftDest = op.to
      BY <1>1, <2>2 DEF SwiftFinal, SwiftDest
    <2> QED BY <1>1, <1>5, <2>2, <2>3 DEF Swift!Effect, Swift!PutPost, Swift!ObjectTo
  <1> QED BY <1>3, <1>4, <1>5

LEMMA SwiftEffect ==
  ASSUME SwiftSound, at = "send", Swift!Needed # None, Swift!Effect
  PROVE  /\ objects' \in SwiftObjects /\ temps' \in SwiftObjects
         /\ stage < Swift!Stages =>
              /\ Swift!UsesTemp /\ stage \in {1, 2} /\ objects' = before /\ before[op.key] # None
              /\ stage = 1 => temps'[op.to] = before[op.key]
              /\ stage = 2 => temps'[op.to] = Swift!WithMeta(before[op.key], op.meta)
         /\ ~(stage < Swift!Stages) => objects' = Swift!Goal /\ temps' = temps
         /\ ~SwiftChanges => objects' = objects
  <1>1. SwiftTypes /\ SwiftCall /\ stage \in 1 .. 3 /\ objects \in SwiftObjects /\ before \in SwiftObjects
        /\ temps \in SwiftObjects /\ objects \in {before, Swift!Goal}
    BY DEF SwiftSound, SwiftTypes
  <1>2. CASE ~SwiftChanges
    <2>1. objects' = objects /\ temps' = temps /\ ~Swift!UsesTemp
      BY <1>1, <1>2 DEF Swift!Effect, SwiftChanges, Swift!UsesTemp
    <2>2. Swift!Goal = before BY <1>1, <1>2, SwiftGoalIs
    <2> QED BY <1>1, <2>1, <2>2 DEF Swift!Stages
  <1>3. CASE SwiftChanges
    <2>1. /\ SwiftDest \in Keys /\ SwiftFinal \in {None} \cup SwiftObject
          /\ Swift!Goal = [before EXCEPT ![SwiftDest] = SwiftFinal]
      BY <1>1, <1>3, SwiftGoalIs
    <2>2. /\ [objects EXCEPT ![SwiftDest] = SwiftFinal] = Swift!Goal
          /\ [objects EXCEPT ![SwiftDest] = SwiftFinal] \in SwiftObjects
      <3>1. objects \in {before, [before EXCEPT ![SwiftDest] = SwiftFinal]} BY <1>1, <2>1
      <3> HIDE DEF SwiftObjects
      <3> QED BY <1>1, <2>1, <3>1, SwiftSet
    <2>3. CASE ~Swift!UsesTemp
      <3>1. objects' = [objects EXCEPT ![SwiftDest] = SwiftFinal] /\ temps' = temps
        BY <1>3, <2>3, SwiftEffectOne
      <3> QED BY <1>1, <1>3, <2>2, <2>3, <3>1 DEF Swift!Stages
    <2>4. CASE Swift!UsesTemp
      <3>1. Swift!Stages = 3 BY <2>4 DEF Swift!Stages
      <3>2. CASE stage = 3
        <4>1. objects' = [objects EXCEPT ![SwiftDest] = SwiftFinal] /\ temps' = temps
          BY <2>4, <3>2, SwiftEffectTemp
        <4> QED BY <1>1, <1>3, <2>2, <3>1, <3>2, <4>1
      <3>3. CASE stage \in {1, 2}
        BY <1>1, <1>3, <2>4, <3>1, <3>3, SwiftEffectTemp
      <3> QED BY <1>1, <3>2, <3>3
    <2> QED BY <2>3, <2>4
  <1> QED BY <1>2, <1>3

\* What a step that leaves the objects as they are has to show.
LEMMA SwiftStillInv ==
  ASSUME SwiftSound, UNCHANGED <<op, before, calls, objects, stage>>, at # "idle",
         temps' \in SwiftObjects, \A k \in Keys : temps'[k] \in {None, temps[k]},
         at' \in {"fn", "send", "read", "error"},
         at' \in {"fn", "send", "read"} => at \in {"fn", "send", "read"},
         at' = "send" => is_retry' \/ (at \in {"fn", "send"} /\ (is_retry' <=> is_retry)),
         at' = "fn" => at = "fn" /\ (is_retry' <=> is_retry),
         at' = "read" => at = "read" /\ got' = got
  PROVE  SwiftSound'
  <1>1. SwiftTypes' BY DEF SwiftSound, SwiftTypes, SwiftCall
  <1>2. Swift!Goal' = Swift!Goal
    BY DEF Swift!Goal, Swift!WithMeta
  <1>3. SwiftStages'
    <2> SUFFICES ASSUME at' \in {"fn", "send", "read"} PROVE SwiftStages' BY DEF SwiftStages
    <2>1. SwiftCall /\ stage \in 1 .. 3 BY DEF SwiftSound, SwiftTypes
    <2>2. CASE stage = 1
      <3>1. at' = "read" => op.name = "read" BY DEF SwiftSound
      <3>2. at' = "read" => objects = before
        BY <2>1, <3>1, SwiftGoalIs DEF SwiftSound, SwiftChanges
      <3> QED BY <2>2, <3>2 DEF SwiftSound, SwiftStages, Swift!UsesTemp
    <2>3. CASE stage \in {2, 3}
      <3>1. op.to \in Keys BY <2>1, <2>3 DEF SwiftSound, SwiftStages, SwiftCall
      <3>2. temps'[op.to] \in {None, temps[op.to]} BY <3>1
      <3> QED BY <2>3, <3>2 DEF SwiftSound, SwiftStages, Swift!UsesTemp, Swift!WithMeta
    <2> QED BY <2>1, <2>2, <2>3
  <1> QED BY <1>1, <1>2, <1>3 DEF SwiftSound, Swift!OkMeansDone, Swift!MissingExact

LEMMA SwiftFailInv ==
  ASSUME SwiftSound, UNCHANGED config,
         \/ Swift!_get_conn \/ Swift!ConnectFails \/ Swift!Unauthorized \/ Swift!PermanentFailure
         \/ Swift!Expire
  PROVE  SwiftSound'
  <1>0. temps \in SwiftObjects BY DEF SwiftSound, SwiftTypes
  <1>1. CASE Swift!_get_conn
    BY <1>0, <1>1, SwiftStillInv DEF Swift!_get_conn
  <1>2. CASE Swift!ConnectFails
    BY <1>0, <1>2, SwiftStillInv DEF Swift!ConnectFails, Swift!Again, Swift!Return, Swift!Server, Swift!Kept
  <1>3. CASE Swift!Unauthorized
    BY <1>0, <1>3, SwiftStillInv DEF Swift!Unauthorized, Swift!Again, Swift!Server, Swift!Kept
  <1>4. CASE Swift!PermanentFailure
    BY <1>0, <1>4, SwiftStillInv DEF Swift!PermanentFailure, Swift!Asked, Swift!Return, Swift!Server, Swift!Kept
  <1>5. CASE Swift!Expire
    <2>1. temps' \in SwiftObjects /\ \A k \in Keys : temps'[k] \in {None, temps[k]}
      BY <1>0, <1>5 DEF Swift!Expire, SwiftObjects
    <2>2. UNCHANGED <<op, before, calls, objects, stage, at, is_retry, got>>
      BY <1>5 DEF Swift!Expire, Swift!Kept
    <2>3. CASE at \in {"fn", "send", "read", "error"} BY <2>1, <2>2, <2>3, SwiftStillInv
    <2>4. CASE at \notin {"fn", "send", "read", "error"}
      <3>1. SwiftTypes' BY <2>1, <2>2 DEF SwiftSound, SwiftTypes, SwiftCall
      <3>2. Swift!Goal' = Swift!Goal BY <2>2 DEF Swift!Goal, Swift!WithMeta
      <3> QED BY <2>2, <2>4, <3>1, <3>2 DEF SwiftSound, SwiftStages, Swift!OkMeansDone, Swift!MissingExact
    <2> QED BY <2>3, <2>4
  <1> QED BY <1>1, <1>2, <1>3, <1>4, <1>5

\* A response that says that the request was done.
LEMMA SwiftSuccessInv ==
  ASSUME SwiftSound, UNCHANGED config, Swift!Success PROVE SwiftSound'
  <1>1. /\ at = "send" /\ UNCHANGED <<op, before, calls>>
        /\ Swift!Needed # None /\ Swift!Effect
        /\ op.name \in {"lookup", "read"} => got' = objects[op.key]
    BY DEF Swift!Success, Swift!Asked, Swift!Kept
  <1>2. SwiftTypes /\ SwiftCall /\ stage \in 1 .. 3 BY <1>1 DEF SwiftSound, SwiftTypes
  <1>3. Swift!Goal' = Swift!Goal BY <1>1 DEF Swift!Goal, Swift!WithMeta
  <1>4. op.name \in {"lookup", "read"} => got' = before[op.key] BY <1>1, <1>2, SwiftSource
  <1>5. CASE op.name = "read"
    <2>0. ~(stage < Swift!Stages) BY <1>2, <1>5 DEF Swift!Stages, Swift!UsesTemp
    <2>1. at' = "read" /\ UNCHANGED stage BY <1>5, <2>0 DEF Swift!Success
    <2>2. Swift!Goal = before /\ ~SwiftChanges /\ ~Swift!UsesTemp
      BY <1>2, <1>5, SwiftGoalIs DEF SwiftChanges, Swift!UsesTemp
    <2>3. stage = 1 BY <1>1, <1>2, <1>5 DEF SwiftSound, SwiftStages
    <2>4. objects' = before /\ temps' \in SwiftObjects /\ objects' \in SwiftObjects
      BY <1>1, <2>2, SwiftEffect DEF SwiftSound
    <2>5. SwiftTypes' BY <1>1, <1>2, <2>1, <2>4 DEF SwiftTypes, SwiftCall
    <2> QED BY <1>1, <1>4, <1>5, <2>1, <2>3, <2>4, <2>5 DEF SwiftSound, SwiftStages, Swift!OkMeansDone, Swift!MissingExact
  <1>6. CASE op.name # "read" /\ stage < Swift!Stages
    <2>1. at' = "send" /\ stage' = stage + 1 BY <1>1, <1>6 DEF Swift!Success
    <2>2. /\ Swift!UsesTemp /\ stage \in {1, 2} /\ objects' = before /\ before[op.key] # None
          /\ stage = 1 => temps'[op.to] = before[op.key]
          /\ stage = 2 => temps'[op.to] = Swift!WithMeta(before[op.key], op.meta)
          /\ objects' \in SwiftObjects /\ temps' \in SwiftObjects
      BY <1>1, <1>6, SwiftEffect
    <2>3. SwiftTypes' BY <1>1, <1>2, <2>1, <2>2 DEF SwiftTypes, SwiftCall
    <2>4. SwiftStages'
      BY <1>1, <2>1, <2>2 DEF SwiftStages, Swift!UsesTemp, Swift!WithMeta
    <2> QED BY <1>1, <2>1, <2>2, <2>3, <2>4 DEF SwiftSound, Swift!OkMeansDone, Swift!MissingExact
  <1>7. CASE op.name # "read" /\ ~(stage < Swift!Stages)
    <2>0. ~Swift!Raises
      BY <1>1, <1>2, SwiftNone DEF SwiftSound, SwiftTypes, Swift!Raises
    <2>1. at' = "ok" /\ UNCHANGED stage BY <1>1, <1>7, <2>0 DEF Swift!Success, Swift!Return
    <2>2. objects' = Swift!Goal /\ objects' \in SwiftObjects /\ temps' \in SwiftObjects
      BY <1>1, <1>7, SwiftEffect
    <2>3. SwiftTypes' BY <1>1, <1>2, <2>1, <2>2 DEF SwiftTypes, SwiftCall
    <2> QED BY <1>1, <1>3, <1>4, <2>1, <2>2, <2>3 DEF SwiftSound, SwiftStages, Swift!OkMeansDone, Swift!MissingExact
  <1> QED BY <1>5, <1>6, <1>7

\* No response, and the request may have been done.
LEMMA SwiftTempInv ==
  ASSUME SwiftSound, UNCHANGED config, Swift!TempFailure PROVE SwiftSound'
  <1>1. at = "send" /\ UNCHANGED <<op, before, calls, stage, got>> /\ at' = "send" /\ is_retry'
    BY DEF Swift!TempFailure, Swift!Asked, Swift!Again, Swift!Kept
  <1>2. CASE UNCHANGED <<objects, temps>>
    <2>1. temps' \in SwiftObjects /\ \A k \in Keys : temps'[k] \in {None, temps[k]}
      BY <1>2 DEF SwiftSound, SwiftTypes
    <2> QED BY <1>1, <1>2, <2>1, SwiftStillInv
  <1>3. CASE Swift!Needed # None /\ Swift!Effect
    <2>1. SwiftTypes /\ stage \in 1 .. 3 BY <1>1 DEF SwiftSound, SwiftTypes
    <2>2. Swift!Goal' = Swift!Goal BY <1>1 DEF Swift!Goal, Swift!WithMeta
    <2>3. objects' \in SwiftObjects /\ temps' \in SwiftObjects BY <1>1, <1>3, SwiftEffect
    <2>4. SwiftTypes' BY <1>1, <2>1, <2>3 DEF SwiftTypes, SwiftCall
    <2>5. CASE stage < Swift!Stages
      <3>1. /\ Swift!UsesTemp /\ stage \in {1, 2} /\ objects' = before /\ before[op.key] # None
            /\ stage = 2 => temps'[op.to] = Swift!WithMeta(before[op.key], op.meta)
        BY <1>1, <1>3, <2>5, SwiftEffect
      <3>2. SwiftStages'
        BY <1>1, <3>1 DEF SwiftSound, SwiftStages, Swift!UsesTemp, Swift!WithMeta
      <3> QED BY <1>1, <2>4, <3>1, <3>2 DEF SwiftSound, Swift!OkMeansDone, Swift!MissingExact
    <2>6. CASE ~(stage < Swift!Stages)
      <3>1. objects' = Swift!Goal /\ temps' = temps BY <1>1, <1>3, <2>6, SwiftEffect
      <3>2. stage = 3 \/ (stage = 1 /\ ~Swift!UsesTemp)
        BY <1>1, <2>1, <2>6 DEF SwiftSound, SwiftStages, Swift!Stages, Swift!UsesTemp
      <3>3. SwiftStages'
        BY <1>1, <3>1, <3>2 DEF SwiftSound, SwiftStages, Swift!UsesTemp, Swift!WithMeta
      <3> QED BY <1>1, <2>2, <2>4, <3>1, <3>3 DEF SwiftSound, Swift!OkMeansDone, Swift!MissingExact
    <2> QED BY <2>5, <2>6
  <1> QED BY <1>2, <1>3 DEF Swift!TempFailure

\* The server has no such object.
LEMMA SwiftMissingInv ==
  ASSUME SwiftSound, UNCHANGED config, Swift!NotFound PROVE SwiftSound'
  <1>1. /\ at = "send" /\ UNCHANGED <<op, before, calls, stage, got, objects, temps>>
        /\ Swift!Needed = None
        /\ at' = CASE Swift!MayBeMissing -> "ok"
                   [] stage > 1 \/ op.name = "update_meta" -> "error"
                   [] OTHER -> "NoSuchObject"
    BY DEF Swift!NotFound, Swift!Asked, Swift!Return, Swift!Kept, Swift!Server
  <1>2. SwiftTypes /\ SwiftCall /\ stage \in 1 .. 3 BY <1>1 DEF SwiftSound, SwiftTypes
  <1>3. Swift!Goal' = Swift!Goal BY <1>1 DEF Swift!Goal, Swift!WithMeta
  <1>4. at' \in {"ok", "error", "NoSuchObject"} BY <1>1
  <1>5. SwiftTypes' BY <1>1, <1>2, <1>4 DEF SwiftTypes, SwiftCall
  <1>6. ASSUME at' = "ok" PROVE op.name = "delete" /\ objects = Swift!Goal
    <2>1. op.name = "delete" BY <1>1, <1>6 DEF Swift!MayBeMissing
    <2>2. objects[op.key] = None BY <1>1, <2>1 DEF Swift!Needed
    <2>3. Swift!Goal = [before EXCEPT ![op.key] = None] BY <2>1 DEF Swift!Goal
    <2>4. before \in SwiftObjects /\ op.key \in Keys BY <1>2 DEF SwiftTypes, SwiftCall
    <2>5. objects = before => before = [before EXCEPT ![op.key] = None]
      BY <2>2, <2>4 DEF SwiftObjects
    <2> QED BY <2>1, <2>3, <2>5 DEF SwiftSound
  <1>7. ASSUME at' = "NoSuchObject" PROVE before[op.key] = None
    <2>1. ~Swift!MayBeMissing /\ stage = 1 /\ op.name # "update_meta"
      BY <1>1, <1>2, <1>7
    <2>2. op.name # "write"
      BY <1>1, <1>2, <2>1, SwiftNone DEF Swift!Needed, Swift!Written, SwiftCall, SwiftObject
    <2>3. objects[op.key] = None BY <1>1, <2>1, <2>2 DEF Swift!Needed
    <2>4. CASE op.name = "delete"
      BY <1>1, <2>1, <2>3, <2>4 DEF SwiftSound, SwiftStages, Swift!MayBeMissing
    <2>5. CASE op.name # "delete"
      BY <1>2, <2>1, <2>2, <2>3, <2>5, SwiftSource DEF SwiftCall, SwiftNames
    <2> QED BY <2>4, <2>5
  <1> QED BY <1>1, <1>3, <1>4, <1>5, <1>6, <1>7 DEF SwiftSound, SwiftStages, Swift!OkMeansDone, Swift!MissingExact

\* The data of a read.
LEMMA SwiftReadInv ==
  ASSUME SwiftSound, UNCHANGED config, Swift!Read PROVE SwiftSound'
  <1>1. at = "read" /\ UNCHANGED <<op, before, calls, stage, got, objects, temps>>
    BY DEF Swift!Read, Swift!Return, Swift!Again, Swift!Kept, Swift!Server
  <1>2. temps' \in SwiftObjects /\ \A k \in Keys : temps'[k] \in {None, temps[k]}
    BY <1>1 DEF SwiftSound, SwiftTypes
  <1>3. \/ at' = "ok" \/ at' = "error" \/ (at' = "send" /\ is_retry')
    BY DEF Swift!Read, Swift!Return, Swift!Again
  <1>4. CASE at' = "ok"
    <2>1. SwiftTypes' BY <1>1, <1>4 DEF SwiftSound, SwiftTypes, SwiftCall
    <2>2. Swift!Goal' = Swift!Goal BY <1>1 DEF Swift!Goal, Swift!WithMeta
    <2>3. op.name = "read" /\ Swift!Goal = before /\ got = before[op.key]
      BY <1>1, SwiftGoalIs DEF SwiftSound, SwiftTypes, SwiftChanges
    <2> QED BY <1>1, <1>4, <2>1, <2>2, <2>3 DEF SwiftSound, SwiftStages, Swift!OkMeansDone, Swift!MissingExact
  <1>5. CASE at' # "ok" BY <1>1, <1>2, <1>3, <1>5, SwiftStillInv
  <1> QED BY <1>4, <1>5

\* The function that writes has not failed.
LEMMA SwiftFnInv ==
  ASSUME SwiftSound, UNCHANGED config, Swift!fn, UNCHANGED op PROVE SwiftSound'
  <1>1. temps \in SwiftObjects BY DEF SwiftSound, SwiftTypes
  <1> QED BY <1>1, SwiftStillInv DEF Swift!fn, Swift!Server

\* Data becomes spoiled: fn fails, or an upload is damaged.
LEMMA SwiftSpoilInv ==
  ASSUME SwiftInv, UNCHANGED <<config, before, calls, temps>>, at' = "send", stage' > 0, stage' \in 0 .. 3,
         op.name = "write", SwiftCall, op' = [op EXCEPT !.data = Part],
         objects' \in {before, [before EXCEPT ![op.key] = Swift!Written']}
  PROVE  SwiftSpoiled'
  <1>1. SwiftTypes BY DEF SwiftInv, SwiftSound, SwiftSpoiled
  <1>2. /\ DOMAIN op' = DOMAIN op /\ op'.name = "write" /\ op'.key = op.key /\ op'.meta = op.meta
        /\ op'.data = Part
    BY DEF SwiftCall, SwiftFields
  <1>3. SwiftCall' BY <1>2 DEF SwiftCall
  <1>4. Swift!Written' \in SwiftObject
    BY <1>2 DEF Swift!Written, SwiftObject, SwiftCall
  <1>5. objects' \in SwiftObjects BY <1>1, <1>4 DEF SwiftTypes, SwiftObjects
  <1>6. SwiftTypes' BY <1>1, <1>3, <1>5 DEF SwiftTypes
  <1> QED BY <1>2, <1>6 DEF SwiftSpoiled, Swift!Raises

LEMMA SwiftFnFailsInv ==
  ASSUME SwiftSound, UNCHANGED config, Swift!fn, op' = [op EXCEPT !.data = Part] PROVE SwiftSpoiled'
  <1>1. at = "fn" /\ at' = "send" /\ UNCHANGED <<before, calls, temps, objects, stage>>
    BY DEF Swift!fn, Swift!Server
  <1>2. SwiftCall /\ stage \in 0 .. 3 /\ stage > 0 BY <1>1 DEF SwiftSound, SwiftTypes
  <1>3. op.name = "write" /\ objects = before BY <1>1 DEF SwiftSound, SwiftStages
  <1> QED BY <1>1, <1>2, <1>3, SwiftSpoilInv DEF SwiftInv

LEMMA SwiftReset ==
  ASSUME NEW f \in SwiftObjects, NEW g \in SwiftObjects, NEW k, NEW v,
         \A j \in Keys : j # k => f[j] = g[j]
  PROVE  [f EXCEPT ![k] = v] = [g EXCEPT ![k] = v]
  BY DEF SwiftObjects

LEMMA SwiftDamagedInv ==
  ASSUME SwiftInv, UNCHANGED config, Swift!UploadDamaged PROVE SwiftSpoiled'
  <1> DEFINE w == [data |-> Part, meta |-> op.meta]
  <1>1. /\ at = "send" /\ at' = "send" /\ UNCHANGED <<before, calls, temps>> /\ stage' = 2
        /\ op.name = "write" /\ op' = [op EXCEPT !.data = Part]
        /\ objects' = [objects EXCEPT ![op.key] = [data |-> Part, meta |-> op.meta]]
    BY DEF Swift!UploadDamaged, Swift!Asked, Swift!ObjectTo
  <1>2. SwiftTypes /\ SwiftCall BY <1>1 DEF SwiftInv, SwiftSound, SwiftSpoiled, SwiftTypes
  <1>3. Swift!Written' = [data |-> Part, meta |-> op.meta]
    BY <1>1, <1>2 DEF Swift!Written, SwiftCall, SwiftFields
  <1>4. \A k \in Keys : k # op.key => objects[k] = before[k]
    <2>1. CASE SwiftSound
      <3>1. Swift!Goal = [before EXCEPT ![op.key] = [data |-> calls, meta |-> op.meta]]
        BY <1>1 DEF Swift!Goal
      <3> QED BY <2>1, <3>1 DEF SwiftSound, SwiftTypes, SwiftObjects
    <2>2. CASE SwiftSpoiled BY <2>2 DEF SwiftSpoiled, SwiftTypes, SwiftObjects
    <2> QED BY <2>1, <2>2 DEF SwiftInv
  <1>5. objects' = [before EXCEPT ![op.key] = Swift!Written']
    <2>1. objects \in SwiftObjects /\ before \in SwiftObjects BY <1>2 DEF SwiftTypes
    <2>2. objects' = [objects EXCEPT ![op.key] = w] /\ Swift!Written' = w BY <1>1, <1>3
    <2> HIDE DEF w
    <2>3. [objects EXCEPT ![op.key] = w] = [before EXCEPT ![op.key] = w]
      BY ONLY <1>4, <2>1, SwiftReset
    <2> QED BY <2>2, <2>3
  <1>6. UNCHANGED <<config, before, calls, temps>> /\ stage' > 0 /\ stage' \in 0 .. 3 BY <1>1
  <1> HIDE DEF w
  <1> QED BY <1>1, <1>2, <1>5, <1>6, SwiftSpoilInv

\* The other steps of a write whose data is spoiled.
LEMMA SwiftSpoiledInv ==
  ASSUME SwiftSpoiled, UNCHANGED config, Swift!Work \/ Swift!Expire, ~Swift!UploadDamaged
  PROVE  SwiftSpoiled'
  <1>1. SwiftTypes /\ SwiftCall /\ op.name = "write" /\ op.data = Part /\ at \in {"send", "error"}
    BY DEF SwiftSpoiled, SwiftTypes, Swift!Raises
  <1>2. before \in SwiftObjects /\ op.key \in Keys /\ Swift!Written \in SwiftObject
    BY <1>1 DEF SwiftTypes, SwiftCall, Swift!Written, SwiftObject
  <1>3. ASSUME UNCHANGED <<op, before, calls>>, stage' = stage, at' \in {"send", "error"},
               at' = "send" => at = "send",
               temps' \in SwiftObjects,
               \/ objects' = objects
               \/ objects' \in {[objects EXCEPT ![op.key] = Swift!Written], [objects EXCEPT ![op.key] = None]}
        PROVE  SwiftSpoiled'
    <2>1. objects' \in {before, [before EXCEPT ![op.key] = Swift!Written], [before EXCEPT ![op.key] = None]}
      BY <1>2, <1>3 DEF SwiftSpoiled, SwiftObjects
    <2>2. objects' \in SwiftObjects BY <1>2, <2>1 DEF SwiftObjects
    <2>3. SwiftTypes' BY <1>1, <1>3, <2>2 DEF SwiftTypes, SwiftCall
    <2> QED BY <1>3, <2>1, <2>3 DEF SwiftSpoiled, Swift!Raises, Swift!Written
  <1>4. temps \in SwiftObjects /\ (at = "send" => stage > 0) /\ stage \in 0 .. 3 BY <1>1 DEF SwiftTypes
  <1>5. CASE Swift!_get_conn \/ Swift!ConnectFails \/ Swift!Unauthorized \/ Swift!PermanentFailure
    BY <1>1, <1>3, <1>4, <1>5 DEF Swift!_get_conn, Swift!ConnectFails, Swift!Unauthorized,
       Swift!PermanentFailure, Swift!Asked, Swift!Again, Swift!Return, Swift!Server, Swift!Kept
  <1>6. CASE Swift!Expire
    <2>1. temps' \in SwiftObjects BY <1>4, <1>6 DEF Swift!Expire, SwiftObjects
    <2> QED BY <1>1, <1>3, <1>6, <2>1 DEF Swift!Expire, Swift!Kept
  <1>7. CASE Swift!fn \/ Swift!Read
    BY <1>1, <1>7 DEF Swift!fn, Swift!Read
  <1>8. Swift!Effect =>
            /\ UNCHANGED temps
            /\ objects' \in {[objects EXCEPT ![op.key] = Swift!Written], [objects EXCEPT ![op.key] = None]}
    BY <1>1 DEF Swift!Effect, Swift!ObjectTo
  <1>9. CASE Swift!Success
    <2>1. at = "send" /\ UNCHANGED <<op, before, calls>> /\ Swift!Effect
      BY <1>9 DEF Swift!Success, Swift!Asked, Swift!Kept
    <2>2. ~(stage < Swift!Stages) BY <1>1, <1>4, <2>1 DEF Swift!Stages, Swift!UsesTemp
    <2>3. at' = "error" /\ stage' = stage
      BY <1>1, <1>9, <2>2 DEF Swift!Success, Swift!Return, Swift!Raises
    <2> QED BY <1>3, <1>4, <1>8, <2>1, <2>3
  <1>10. CASE Swift!NotFound
    <2>1. at = "send" /\ UNCHANGED <<op, before, calls, stage, temps, objects>> /\ Swift!Needed = None
      BY <1>10 DEF Swift!NotFound, Swift!Asked, Swift!Return, Swift!Kept, Swift!Server
    <2>2. stage > 1
      BY <1>1, <1>2, <1>4, <2>1, SwiftNone DEF Swift!Needed
    <2>3. at' = "error"
      BY <1>1, <1>10, <2>2 DEF Swift!NotFound, Swift!Return, Swift!MayBeMissing
    <2> QED BY <1>3, <1>4, <2>1, <2>3
  <1>11. CASE Swift!TempFailure
    <2>1. at = "send" /\ at' = "send" /\ UNCHANGED <<op, before, calls, stage>>
      BY <1>11 DEF Swift!TempFailure, Swift!Asked, Swift!Again, Swift!Kept
    <2>2. UNCHANGED <<objects, temps>> \/ Swift!Effect BY <1>11 DEF Swift!TempFailure
    <2> QED BY <1>3, <1>4, <1>8, <2>1, <2>2
  <1> QED BY <1>5, <1>6, <1>7, <1>9, <1>10, <1>11 DEF Swift!Work

LEMMA SwiftNextInv ==
  ASSUME SwiftInv, UNCHANGED config, Swift!Next PROVE SwiftInv'
  <1>1. CASE SwiftSound /\ (Swift!Work \/ Swift!Expire)
    <2>1. Swift!fn => op' = op \/ op' = [op EXCEPT !.data = Part] BY DEF Swift!fn
    <2> QED
      BY <1>1, <2>1, SwiftFailInv, SwiftSuccessInv, SwiftTempInv, SwiftMissingInv, SwiftReadInv,
         SwiftFnInv, SwiftFnFailsInv, SwiftDamagedInv DEF Swift!Work, SwiftInv
  <1>2. CASE SwiftSpoiled /\ (Swift!Work \/ Swift!Expire)
    BY <1>2, SwiftSpoiledInv, SwiftDamagedInv DEF SwiftInv
  <1> QED
    BY <1>1, <1>2, SwiftDeleteInv, SwiftLookupInv, SwiftOpenReadInv, SwiftOpenWriteInv,
       SwiftUpdateMetaInv, SwiftCopyInv DEF Swift!Next, SwiftInv

-----------------------------------------------------------------------------
(***************************************************************************)
(* Backblaze (B2Client).  What is left to delete is what there is, or all  *)
(* but the version whose deletion was not answered; and an upload URL is   *)
(* in use only while there is an upload.                                   *)
(***************************************************************************)
B2Version == Nat \X Int
B2Phases == {"idle", "fn", "url", "upload", "list", "ids", "head", "copy", "get", "done"}

\* Different versions have different ids, which were given out.
B2Good(s, n) ==
    /\ s \in Seq(B2Version)
    /\ \A i \in 1 .. Len(s) : s[i][1] <= n
    /\ \A i, j \in 1 .. Len(s) : s[i] = s[j] => i = j

B2Types ==
    /\ files \in [Keys -> Seq(B2Version)] /\ before \in [Keys -> Seq(B2Version)]
    /\ nid \in Nat /\ count \in Nat /\ latest \in [Keys -> Int] /\ ids \in Seq(B2Version)
    /\ \A k \in Keys : B2Good(files[k], nid)
    /\ phase \in B2Phases
    /\ phase # "idle" => op.key \in Keys /\ op.val \in Int
    /\ phase # "idle" /\ op.name = "copy" => op.to \in Keys
    /\ phase \in {"fn", "url", "upload"} => op.name = "write"
    /\ phase = "fn" => {"name", "key", "val"} \subseteq DOMAIN op
    /\ phase \in {"list", "ids"} => op.name = "delete"
    /\ phase \in {"head", "copy"} => op.name = "copy"
    /\ phase = "get" => op.name = "read"

\* What a delete still has to do.
B2Deleting ==
    phase = "ids" =>
        /\ ids # <<>> /\ B2Good(ids, nid)
        /\ \/ files[op.key] # <<>> /\ files[op.key][1] = ids[1]
           \/ retried /\ ~B2!Exists(ids[1])
        /\ \/ B2!DisableVersions /\ Tail(ids) = <<>>
           \/ ~B2!DisableVersions /\ (files[op.key] = ids \/ files[op.key] = Tail(ids))

B2Newest ==
    ~B2!DisableVersions /\ "refused" \notin B2!Kinds =>
        \A k \in Keys : (phase = "ids" => k # op.key) => B2!Newest(k) \in {0, latest[k]}

B2Urls ==
    B2!Kinds \cap {"expired", "limited", "refused"} = {} =>
        \A u \in DOMAIN urls : urls[u] => phase = "upload" /\ u = url

B2Inv ==
    /\ B2Types /\ B2Deleting /\ B2Newest /\ B2Urls
    /\ phase = "list" => files = before
    /\ B2!WriteExact /\ B2!DeleteExact

LEMMA B2TailGood ==
  ASSUME NEW n, NEW s, B2Good(s, n), s # <<>>
  PROVE  B2Good(Tail(s), n) /\ Len(Tail(s)) = Len(s) - 1
         /\ \A i \in 1 .. Len(Tail(s)) : Tail(s)[i] = s[i + 1]
  BY HeadTailProperties DEF B2Good

LEMMA B2AddGood ==
  ASSUME NEW n \in Nat, NEW v \in Int, NEW s, B2Good(s, n)
  PROVE  /\ B2Good(<<<<n + 1, v>>>> \o s, n + 1) /\ B2Good(s, n + 1)
         /\ (<<<<n + 1, v>>>> \o s)[1] = <<n + 1, v>> /\ <<<<n + 1, v>>>> \o s # <<>>
  <1> DEFINE f == <<<<n + 1, v>>>>
             t == f \o s
  <1>1. s \in Seq(B2Version) /\ f \in Seq(B2Version) /\ Len(f) = 1 /\ f[1] = <<n + 1, v>>
    BY DEF B2Good, B2Version
  <1>2. t \in Seq(B2Version) /\ Len(t) = Len(s) + 1 /\ Len(s) \in Nat
        /\ \A i \in 1 .. Len(t) : t[i] = IF i = 1 THEN <<n + 1, v>> ELSE s[i - 1]
    <2> HIDE DEF f
    <2>1. t \in Seq(B2Version) /\ Len(t) = Len(f) + Len(s) BY <1>1, ConcatProperties
    <2>2. \A i \in 1 .. Len(f) + Len(s) : t[i] = IF i <= Len(f) THEN f[i] ELSE s[i - Len(f)]
      BY <1>1, ConcatProperties
    <2>3. Len(s) \in Nat BY <1>1, LenProperties
    <2> HIDE DEF t
    <2>4. Len(t) = Len(s) + 1 BY <1>1, <2>1, <2>3
    <2>5. ASSUME NEW i \in 1 .. Len(t) PROVE t[i] = IF i = 1 THEN <<n + 1, v>> ELSE s[i - 1]
      <3>1. CASE i = 1 BY <1>1, <2>2, <2>3, <2>4, <3>1
      <3>2. CASE i # 1 BY <1>1, <2>2, <2>3, <2>4, <3>2
      <3> QED BY <3>1, <3>2
    <2> QED BY <2>1, <2>3, <2>4, <2>5
  <1> HIDE DEF t
  <1>3. \A i \in 1 .. Len(s) : s[i] \in B2Version /\ s[i][1] <= n /\ s[i][1] \in Nat
    BY <1>1 DEF B2Good, B2Version
  <1>4. ASSUME NEW i \in 1 .. Len(t) PROVE t[i][1] <= n + 1
    <2>1. CASE i = 1 BY <1>2, <2>1
    <2>2. CASE i # 1
      <3>1. i - 1 \in 1 .. Len(s) /\ t[i] = s[i - 1] BY <1>2, <2>2
      <3> QED BY <1>3, <3>1
    <2> QED BY <2>1, <2>2
  <1>5. ASSUME NEW i \in 1 .. Len(t), NEW j \in 1 .. Len(t), t[i] = t[j] PROVE i = j
    <2>1. CASE i = 1 /\ j # 1
      <3>1. j - 1 \in 1 .. Len(s) /\ t[j] = s[j - 1] /\ t[i] = <<n + 1, v>> BY <1>2, <2>1
      <3>2. s[j - 1][1] = n + 1 BY <3>1, <1>5
      <3> QED BY <3>1, <3>2, <1>3
    <2>2. CASE i # 1 /\ j = 1
      <3>1. i - 1 \in 1 .. Len(s) /\ t[i] = s[i - 1] /\ t[j] = <<n + 1, v>> BY <1>2, <2>2
      <3>2. s[i - 1][1] = n + 1 BY <3>1, <1>5
      <3> QED BY <3>1, <3>2, <1>3
    <2>3. CASE i # 1 /\ j # 1
      <3>1. i - 1 \in 1 .. Len(s) /\ j - 1 \in 1 .. Len(s) /\ s[i - 1] = s[j - 1] BY <1>2, <1>5, <2>3
      <3> QED BY <3>1 DEF B2Good
    <2> QED BY <2>1, <2>2, <2>3
  <1>6. B2Good(s, n + 1) BY <1>1, <1>3 DEF B2Good
  <1>7. B2Good(t, n + 1) BY <1>2, <1>4, <1>5 DEF B2Good
  <1>8. t[1] = <<n + 1, v>> /\ t # <<>> BY <1>2
  <1> QED BY <1>6, <1>7, <1>8 DEF t

LEMMA B2DropFirst ==
  ASSUME NEW s \in Seq(B2Version), s # <<>>
  PROVE  SubSeq(s, 1, 1 - 1) \o SubSeq(s, 1 + 1, Len(s)) = Tail(s)
  <1>1. SubSeq(s, 1, 0) = <<>> BY SubSeqProperties
  <1>2. SubSeq(s, 2, Len(s)) = Tail(s) BY HeadTailProperties
  <1>3. Tail(s) \in Seq(B2Version) BY HeadTailProperties
  <1> QED BY <1>1, <1>2, <1>3, ConcatEmptySeq

\* A version is the first one, or it is gone.
LEMMA B2Remove ==
  ASSUME B2Types, op.key \in Keys, NEW v, B2!Remove(v),
         (files[op.key] # <<>> /\ files[op.key][1] = v) \/ ~B2!Exists(v)
  PROVE  IF B2!Exists(v) THEN files' = [files EXCEPT ![op.key] = Tail(@)]
                              /\ files[op.key] # <<>> /\ files[op.key][1] = v
         ELSE files' = files
  <1>1. CASE ~B2!Exists(v) BY <1>1 DEF B2!Remove
  <1>2. CASE B2!Exists(v)
    <2> DEFINE s == files[op.key]
    <2>1. s # <<>> /\ s[1] = v /\ s \in Seq(B2Version) /\ B2Good(s, nid) BY <1>2 DEF B2Types
    <2>2. 1 \in DOMAIN s /\ DOMAIN s = 1 .. Len(s) BY <2>1
    <2>3. \A i \in DOMAIN s : s[i] = v => i = 1 BY <2>1, <2>2 DEF B2Good
    <2>4. B2!Place(v) = 1 BY <2>1, <2>2, <2>3 DEF B2!Place
    <2>5. SubSeq(s, 1, 1 - 1) \o SubSeq(s, 1 + 1, Len(s)) = Tail(s) BY <2>1, B2DropFirst
    <2>6. files' = [files EXCEPT ![op.key] = SubSeq(s, 1, 1 - 1) \o SubSeq(s, 1 + 1, Len(s))]
      BY <1>2, <2>4 DEF B2!Remove
    <2> QED BY <1>2, <2>1, <2>5, <2>6
  <1> QED BY <1>1, <1>2

LEMMA B2InitInv == ASSUME B2!Init PROVE B2Inv
  <1>1. \A k \in Keys : B2Good(<<>>, 0) BY DEF B2Good
  <1>2. B2Types BY <1>1 DEF B2!Init, B2Types, B2Phases
  <1> QED
    BY <1>2 DEF B2!Init, B2Inv, B2Deleting, B2Newest, B2Urls, B2!Newest, B2!WriteExact, B2!DeleteExact,
           B2!Returned

LEMMA B2BeginInv ==
  ASSUME B2Inv, UNCHANGED config, NEW o, o.key \in Keys, o.val \in Int, count' \in Nat,
         o.name = "copy" => o.to \in Keys, NEW p, B2!Begin(o, p),
         \/ p = "fn" /\ o.name = "write" /\ {"name", "key", "val"} \subseteq DOMAIN o
         \/ p = "list" /\ o.name = "delete"
         \/ p = "head" /\ o.name = "copy"
         \/ p = "get" /\ o.name = "read"
  PROVE  B2Inv'
  <1>1. phase = "idle" /\ op' = o /\ phase' = p /\ ids' = <<>> /\ before' = files
        /\ UNCHANGED <<files, nid, latest, urls, url>>
    BY DEF B2!Begin
  <1>2. B2Types' BY <1>1 DEF B2Inv, B2Types, B2Phases
  <1>3. B2Newest' BY <1>1 DEF B2Inv, B2Newest, B2!Newest, B2!DisableVersions, B2!Kinds
  <1>4. B2Urls' BY <1>1 DEF B2Inv, B2Urls, B2!Kinds
  <1> QED BY <1>1, <1>2, <1>3, <1>4 DEF B2Inv, B2Deleting, B2!WriteExact, B2!DeleteExact, B2!Returned

\* A step that changes no file, and does not go on with a delete.
LEMMA B2QuietInv ==
  ASSUME B2Inv, UNCHANGED <<config, files, nid, latest, op, before, count>>,
         phase # "idle", ids' \in Seq(B2Version), phase # "ids", phase' # "ids",
         phase' = "list" => phase = "list",
         phase' # "fn", phase' \in {"url", "upload"} => phase \in {"url", "upload"},
         phase' \in {"head", "copy"} => phase \in {"head", "copy"},
         phase' = "get" => phase = "get", phase' \in B2Phases, B2Urls',
         phase' = "done" /\ phase # "done" => result' \notin {"ok"} \/ phase = "get",
         phase' = "done" /\ phase # "done" => op.name # "delete",
         phase = "done" => phase' \in {"done", "idle"} /\ result' = result
  PROVE  B2Inv'
  <1>1. B2Types' BY DEF B2Inv, B2Types
  <1>2. B2Newest' BY DEF B2Inv, B2Newest, B2!Newest, B2!DisableVersions, B2!Kinds
  <1>3. B2!WriteExact'
    BY DEF B2Inv, B2Types, B2!WriteExact, B2!Returned, B2!Newest
  <1>4. B2!DeleteExact'
    BY DEF B2Inv, B2Types, B2!DeleteExact, B2!Returned, B2!DisableVersions, B2!Kinds
  <1> QED BY <1>1, <1>2, <1>3, <1>4 DEF B2Inv, B2Deleting

\* A version is added.
LEMMA B2AddInv ==
  ASSUME B2Inv, UNCHANGED <<config, op, before, count, ids>>, NEW k \in Keys, B2!AddVersion(k, op.val),
         phase \in {"upload", "copy"}, phase' \in {"url", "head", "done"},
         phase' = "url" => phase = "upload", phase' = "head" => phase = "copy",
         phase' = "done" => k = IF phase = "copy" THEN op.to ELSE op.key, B2Urls'
  PROVE  B2Inv'
  <1>1. op.val \in Int /\ nid \in Nat /\ files \in [Keys -> Seq(B2Version)] /\ latest \in [Keys -> Int]
        /\ \A j \in Keys : B2Good(files[j], nid)
    BY DEF B2Inv, B2Types
  <1> DEFINE s == <<<<nid + 1, op.val>>>> \o files[k]
  <1>2. files' = [files EXCEPT ![k] = s] /\ nid' = nid + 1 /\ latest' = [latest EXCEPT ![k] = op.val]
    BY DEF B2!AddVersion
  <1>3. B2Good(s, nid + 1) /\ s[1] = <<nid + 1, op.val>> /\ s # <<>>
    BY <1>1, B2AddGood
  <1> HIDE DEF s
  <1>4. \A j \in Keys : B2Good(files[j], nid + 1) BY <1>1, B2AddGood
  <1>5. s \in Seq(B2Version) BY <1>3 DEF B2Good
  <1>6. \A j \in Keys : files'[j] = IF j = k THEN s ELSE files[j] BY <1>1, <1>2
  <1>7. B2Types'
    <2>1. \A j \in Keys : B2Good(files'[j], nid') BY <1>2, <1>3, <1>4, <1>6
    <2>2. files' \in [Keys -> Seq(B2Version)] /\ latest' \in [Keys -> Int] /\ nid' \in Nat
      BY <1>1, <1>2, <1>5
    <2> QED BY <2>1, <2>2 DEF B2Inv, B2Types, B2Phases
  <1>8. \A j \in Keys : /\ B2!Newest(j)' = IF j = k THEN op.val ELSE B2!Newest(j)
                       /\ latest'[j] = IF j = k THEN op.val ELSE latest[j]
    BY <1>1, <1>2, <1>3, <1>6 DEF B2!Newest
  <1>9. B2Newest' BY <1>8 DEF B2Inv, B2Newest, B2!DisableVersions, B2!Kinds
  <1>10. B2!WriteExact' /\ B2!DeleteExact'
    BY <1>8 DEF B2Inv, B2Types, B2!WriteExact, B2!DeleteExact, B2!Returned
  <1> QED BY <1>7, <1>9, <1>10 DEF B2Inv, B2Deleting

LEMMA B2OpenWriteInv ==
  ASSUME B2Inv, UNCHANGED config, NEW k \in Keys, B2!perform_write(k)
  PROVE  B2Inv'
  <1> DEFINE o == [B2!NoOp EXCEPT !.name = "write", !.key = k, !.val = count + 1]
  <1>1. count \in Nat BY DEF B2Inv, B2Types
  <1>2. B2!Begin(o, "fn") /\ count' \in Nat BY <1>1 DEF B2!perform_write
  <1>3. o.key \in Keys /\ o.val \in Int /\ (o.name = "copy" => o.to \in Keys)
        /\ o.name = "write" /\ {"name", "key", "val"} \subseteq DOMAIN o
    BY <1>1 DEF B2!NoOp
  <1> HIDE DEF o
  <1> QED BY <1>2, <1>3, B2BeginInv

LEMMA B2DeleteInv ==
  ASSUME B2Inv, UNCHANGED config, NEW k \in Keys, NEW force \in BOOLEAN, B2!delete(k, force)
  PROVE  B2Inv'
  <1> DEFINE o == [B2!NoOp EXCEPT !.name = "delete", !.key = k, !.force = force]
  <1>1. count \in Nat BY DEF B2Inv, B2Types
  <1>2. B2!Begin(o, "list") /\ count' \in Nat BY <1>1 DEF B2!delete
  <1>3. o.key \in Keys /\ o.val \in Int /\ (o.name = "copy" => o.to \in Keys)
        /\ o.name = "delete"
    BY <1>1 DEF B2!NoOp
  <1> HIDE DEF o
  <1> QED BY <1>2, <1>3, B2BeginInv

LEMMA B2CopyInv ==
  ASSUME B2Inv, UNCHANGED config, NEW k \in Keys, NEW to \in Keys, B2!copy(k, to)
  PROVE  B2Inv'
  <1> DEFINE o == [B2!NoOp EXCEPT !.name = "copy", !.key = k, !.to = to, !.val = count + 1]
  <1>1. count \in Nat BY DEF B2Inv, B2Types
  <1>2. B2!Begin(o, "head") /\ count' \in Nat BY <1>1 DEF B2!copy
  <1>3. o.key \in Keys /\ o.val \in Int /\ (o.name = "copy" => o.to \in Keys)
        /\ o.name = "copy"
    BY <1>1 DEF B2!NoOp
  <1> HIDE DEF o
  <1> QED BY <1>2, <1>3, B2BeginInv

LEMMA B2OpenReadInv ==
  ASSUME B2Inv, UNCHANGED config, NEW k \in Keys, B2!perform_read(k)
  PROVE  B2Inv'
  <1> DEFINE o == [B2!NoOp EXCEPT !.name = "read", !.key = k]
  <1>1. count \in Nat BY DEF B2Inv, B2Types
  <1>2. B2!Begin(o, "get") /\ count' \in Nat BY <1>1 DEF B2!perform_read
  <1>3. o.key \in Keys /\ o.val \in Int /\ (o.name = "copy" => o.to \in Keys)
        /\ o.name = "read"
    BY <1>1 DEF B2!NoOp
  <1> HIDE DEF o
  <1> QED BY <1>2, <1>3, B2BeginInv

\* The token, and the phases of a call in which nothing is changed.
LEMMA B2TokenInv ==
  ASSUME B2Inv, UNCHANGED config, B2!_authorize_account \/ B2!Expire \/ B2!Unauthorized
  PROVE  B2Inv'
  <1>1. /\ UNCHANGED <<files, nid, latest, urls, op, url, ids, retried, before, count, result>>
        /\ phase' = phase \/ (phase = "copy" /\ phase' = "head")
    BY DEF B2!_authorize_account, B2!Expire, B2!Unauthorized
  <1>2. B2Types' BY <1>1 DEF B2Inv, B2Types, B2Phases
  <1>3. B2Deleting'
    BY <1>1 DEF B2Inv, B2Deleting, B2!Exists, B2!DisableVersions
  <1>4. B2Newest' BY <1>1 DEF B2Inv, B2Newest, B2!Newest, B2!DisableVersions, B2!Kinds
  <1>5. B2Urls' BY <1>1 DEF B2Inv, B2Urls, B2!Kinds
  <1>6. B2!WriteExact' /\ B2!DeleteExact'
    BY <1>1 DEF B2Inv, B2!WriteExact, B2!DeleteExact, B2!Returned, B2!Newest, B2!DisableVersions, B2!Kinds
  <1> QED BY <1>1, <1>2, <1>3, <1>4, <1>5, <1>6 DEF B2Inv

LEMMA B2FnInv ==
  ASSUME B2Inv, UNCHANGED config, B2!fn PROVE B2Inv'
  <1>1. /\ phase = "fn" /\ phase' = "url" /\ UNCHANGED <<files, nid, latest, urls, url, ids, before, count>>
        /\ op' = op \/ op' = [op EXCEPT !.val = -op.val]
    BY DEF B2!fn, B2!Goto
  <1>2. op'.key = op.key /\ op'.name = op.name /\ (op.val \in Int => op'.val \in Int)
    BY <1>1 DEF B2Inv, B2Types
  <1>3. B2Types' BY <1>1, <1>2 DEF B2Inv, B2Types, B2Phases
  <1>4. B2Newest' BY <1>1 DEF B2Inv, B2Newest, B2!Newest, B2!DisableVersions, B2!Kinds
  <1>5. B2Urls' BY <1>1 DEF B2Inv, B2Urls, B2!Kinds
  <1> QED BY <1>1, <1>3, <1>4, <1>5 DEF B2Inv, B2Deleting, B2!WriteExact, B2!DeleteExact, B2!Returned

LEMMA B2UrlInv ==
  ASSUME B2Inv, UNCHANGED config, B2!_get_upload_url_info
  PROVE  B2Inv'
  <1>1. /\ phase = "url" /\ phase' = "upload"
        /\ UNCHANGED <<files, nid, latest, op, ids, retried, before, count>>
    BY DEF B2!_get_upload_url_info, B2!Goto
  <1>2. \/ urls' = [urls EXCEPT ![url'] = TRUE]
        \/ urls' = [u \in DOMAIN urls \cup {nurl + 1} |-> IF u = nurl + 1 THEN TRUE ELSE urls[u]]
           /\ url' = nurl + 1
    BY DEF B2!_get_upload_url_info
  <1>3. B2Urls'
    <2> SUFFICES ASSUME B2!Kinds \cap {"expired", "limited", "refused"} = {}, NEW u \in DOMAIN urls', urls'[u]
                 PROVE  u = url'
      BY <1>1 DEF B2Urls, B2!Kinds
    <2>1. \A w \in DOMAIN urls : ~urls[w] BY <1>1 DEF B2Inv, B2Urls
    <2>2. u # url' => u \in DOMAIN urls /\ urls'[u] = urls[u]
      <3>1. CASE urls' = [urls EXCEPT ![url'] = TRUE] BY <3>1
      <3> DEFINE n == nurl + 1
      <3>2. CASE urls' = [w \in DOMAIN urls \cup {n} |-> IF w = n THEN TRUE ELSE urls[w]] /\ url' = n
        <4> HIDE DEF n
        <4> QED BY <3>2
      <3> QED BY <1>2, <3>1, <3>2
    <2> QED BY <2>1, <2>2
  <1> QED BY <1>1, <1>3, B2QuietInv DEF B2Inv, B2Types, B2Phases

LEMMA B2UploadInv ==
  ASSUME B2Inv, UNCHANGED config,
         B2!Upload \/ B2!UploadTemp \/ B2!UploadB2Error \/ B2!UploadOther
  PROVE  B2Inv'
  <1>1. phase = "upload" /\ UNCHANGED <<op, ids, before, count, url>>
        /\ op.name = "write" /\ op.key \in Keys
    BY DEF B2!Upload, B2!UploadTemp, B2!UploadB2Error, B2!UploadOther, B2Inv, B2Types
  <1>2. B2Urls'
    <2>1. CASE B2!Upload \/ B2!UploadOther
      BY <1>1, <2>1 DEF B2!Upload, B2!UploadOther, B2Inv, B2Urls, B2!Kinds
    <2>2. CASE B2!UploadTemp
      BY <1>1, <2>2 DEF B2!UploadTemp, B2!_invalidate_upload_url, B2!Without, B2Inv, B2Urls, B2!Kinds
    <2>3. CASE B2!UploadB2Error
      BY <2>3 DEF B2!UploadB2Error, B2!Fault, B2Urls, B2!Kinds
    <2> QED BY <2>1, <2>2, <2>3
  <1>3. ids \in Seq(B2Version) BY DEF B2Inv, B2Types
  <1>4. CASE B2!Upload
    BY <1>1, <1>2, <1>4, B2AddInv DEF B2!Upload, B2!Return
  <1>5. CASE B2!UploadTemp
    <2>1. phase' = "url" BY <1>5 DEF B2!UploadTemp, B2!Goto
    <2>2. CASE B2!AddVersion(op.key, op.val) BY <1>1, <1>2, <2>1, <2>2, B2AddInv
    <2>3. CASE UNCHANGED <<files, nid, latest>>
      BY <1>1, <1>2, <1>3, <2>1, <2>3, B2QuietInv DEF B2Phases
    <2> QED BY <1>5, <2>2, <2>3 DEF B2!UploadTemp
  <1>6. CASE B2!UploadB2Error \/ B2!UploadOther
    <2>1. UNCHANGED <<files, nid, latest>> /\ (phase' = "url" \/ (phase' = "done" /\ result' = "error"))
      BY <1>6 DEF B2!UploadB2Error, B2!UploadOther, B2!Return, B2!Goto
    <2> QED BY <1>1, <1>2, <1>3, <2>1, B2QuietInv DEF B2Phases
  <1> QED BY <1>4, <1>5, <1>6

\* copy and read.
LEMMA B2CopyFileInv ==
  ASSUME B2Inv, UNCHANGED config,
         B2!_get_file_id_and_name \/ B2!CopyFile \/ B2!Read
  PROVE  B2Inv'
  <1>0. files \in [Keys -> Seq(B2Version)] /\ ids \in Seq(B2Version) /\ phase \in B2Phases
        /\ (phase # "idle" => op.key \in Keys)
    BY DEF B2Inv, B2Types
  <1>1. CASE B2!_get_file_id_and_name
    <2>1. phase = "head" /\ UNCHANGED <<files, nid, latest, op, before, count, urls, url>>
          /\ phase' \in {"copy", "done"} /\ (phase' = "done" => result' = "NoSuchObject")
      BY <1>1 DEF B2!_get_file_id_and_name, B2!Can, B2!Return, B2!Goto
    <2>2. ids' \in Seq(B2Version)
      <3> DEFINE s == files[op.key]
      <3>1. s \in Seq(B2Version) BY <1>0, <2>1
      <3>2. ids' = ids \/ (s # <<>> /\ ids' = <<s[1]>>)
        BY <1>1 DEF B2!_get_file_id_and_name, B2!Return, B2!Goto
      <3> HIDE DEF s
      <3>3. s # <<>> => s[1] \in B2Version BY <3>1
      <3>4. s # <<>> => <<s[1]>> \in Seq(B2Version)
        <4> HIDE DEF B2Version
        <4> QED BY <3>3
      <3> QED BY <1>0, <3>2, <3>4
    <2>3. op.name = "copy" BY <2>1 DEF B2Inv, B2Types
    <2>4. B2Urls' BY <2>1 DEF B2Inv, B2Urls, B2!Kinds
    <2> QED BY <2>1, <2>2, <2>3, <2>4, B2QuietInv DEF B2Phases
  <1>2. CASE B2!CopyFile
    <2>1. phase = "copy" /\ phase' \in {"head", "done"} /\ UNCHANGED <<op, before, count, urls, url, ids>>
          /\ op.name = "copy" /\ op.to \in Keys
      BY <1>2 DEF B2!CopyFile, B2!Can, B2!Return, B2!Goto, B2Inv, B2Types
    <2>2. B2Urls' BY <2>1 DEF B2Inv, B2Urls, B2!Kinds
    <2>3. CASE B2!AddVersion(op.to, op.val) BY <2>1, <2>2, <2>3, B2AddInv
    <2>4. CASE UNCHANGED <<files, nid, latest>> /\ phase' = "head"
      BY <1>0, <2>1, <2>2, <2>4, B2QuietInv DEF B2Phases
    <2> QED BY <1>2, <2>3, <2>4 DEF B2!CopyFile, B2!Goto
  <1>3. CASE B2!Read
    <2>1. phase = "get" /\ phase' \in {"get", "done"}
          /\ UNCHANGED <<files, nid, latest, op, before, count, urls, url, ids>>
      BY <1>3 DEF B2!Read, B2!Can, B2!Return, B2!Goto
    <2>2. B2Urls' BY <2>1 DEF B2Inv, B2Urls, B2!Kinds
    <2>3. op.name = "read" BY <2>1 DEF B2Inv, B2Types
    <2> QED BY <1>0, <2>1, <2>2, <2>3, B2QuietInv DEF B2Phases
  <1> QED BY <1>1, <1>2, <1>3

\* delete.
LEMMA B2ListInv ==
  ASSUME B2Inv, UNCHANGED config, B2!ListVersions PROVE B2Inv'
  <1> DEFINE s == files[op.key]
  <1>1. /\ phase = "list" /\ UNCHANGED <<files, nid, latest, urls, op, url, retried, before, count>>
        /\ op.name = "delete" /\ op.key \in Keys /\ files = before
        /\ s \in Seq(B2Version) /\ B2Good(s, nid)
    BY DEF B2!ListVersions, B2!Can, B2Inv, B2Types
  <1>2. IF ids' = <<>> THEN phase' = "done" /\ result' = "NoSuchObject" ELSE phase' = "ids"
    BY DEF B2!ListVersions, B2!Return, B2!Goto
  <1>3. ids' = IF B2!DisableVersions THEN IF s = <<>> THEN <<>> ELSE <<s[1]>> ELSE s
    BY DEF B2!ListVersions, B2!_list_file_versions
  <1> HIDE DEF s
  <1>4. s # <<>> => s[1] \in B2Version /\ s[1][1] <= nid BY <1>1 DEF B2Good
  <1>5. s # <<>> => /\ <<s[1]>> \in Seq(B2Version) /\ Len(<<s[1]>>) = 1 /\ Tail(<<s[1]>>) = <<>>
                    /\ <<s[1]>>[1] = s[1] /\ <<s[1]>> # <<>>
    <2> HIDE DEF B2Version
    <2> QED BY <1>4
  <1>6. s # <<>> => B2Good(<<s[1]>>, nid)
    <2> DEFINE f == <<s[1]>>
    <2> HIDE DEF f
    <2>1. s # <<>> => f \in Seq(B2Version) /\ Len(f) = 1 /\ f[1] = s[1] BY <1>5 DEF f
    <2>2. ASSUME s # <<>> PROVE B2Good(f, nid)
      <3>0. Len(f) = 1 BY <2>1, <2>2
      <3>1. \A i \in 1 .. Len(f) : i = 1 BY <3>0
      <3> QED BY <1>4, <2>1, <2>2, <3>1 DEF B2Good
    <2> QED BY <2>2 DEF f
  <1>7. ids' = <<>> <=> s = <<>> BY <1>3, <1>5
  <1>8. ids' \in Seq(B2Version) /\ (s # <<>> => B2Good(ids', nid) /\ ids'[1] = s[1])
    BY <1>1, <1>3, <1>5, <1>6
  <1>9. B2Types' BY <1>1, <1>2, <1>8 DEF B2Inv, B2Types, B2Phases
  <1>10. B2Deleting'
    BY <1>1, <1>2, <1>3, <1>5, <1>7, <1>8 DEF B2Deleting, B2!DisableVersions, s
  <1>11. B2Newest' BY <1>1, <1>2 DEF B2Inv, B2Newest, B2!Newest, B2!DisableVersions, B2!Kinds
  <1>12. B2Urls' BY <1>1, <1>2 DEF B2Inv, B2Urls, B2!Kinds
  <1>13. B2!WriteExact' /\ B2!DeleteExact'
    BY <1>1, <1>2, <1>7 DEF B2Inv, B2!WriteExact, B2!DeleteExact, B2!Returned, s
  <1> QED BY <1>1, <1>2, <1>9, <1>10, <1>11, <1>12, <1>13 DEF B2Inv

\* After a version was deleted, or found missing.
LEMMA B2Gone ==
  ASSUME B2Inv, UNCHANGED <<config, op, nid, latest>>, phase = "ids", B2!Remove(ids[1])
  PROVE  /\ files' \in [Keys -> Seq(B2Version)] /\ \A k \in Keys : B2Good(files'[k], nid)
         /\ \A k \in Keys : k # op.key => files'[k] = files[k]
         /\ ~B2!DisableVersions => files'[op.key] = Tail(ids)
         /\ \A i \in DOMAIN files'[op.key] : files'[op.key][i] # ids[1]
  <1> DEFINE s == files[op.key]
             v == ids[1]
  <1>1. /\ B2Types /\ op.key \in Keys /\ ids # <<>> /\ B2Good(ids, nid)
        /\ (s # <<>> /\ s[1] = v) \/ (retried /\ ~B2!Exists(v))
        /\ files \in [Keys -> Seq(B2Version)] /\ \A k \in Keys : B2Good(files[k], nid)
        /\ ~B2!DisableVersions => s = ids \/ s = Tail(ids)
    BY DEF B2Inv, B2Deleting, B2Types
  <1>2. IF B2!Exists(v) THEN files' = [files EXCEPT ![op.key] = Tail(@)] /\ s # <<>> /\ s[1] = v
        ELSE files' = files
    BY <1>1, B2Remove
  <1>3. CASE ~B2!Exists(v)
    <2>1. files' = files BY <1>2, <1>3
    <2>2. s # ids
      <3>1. 1 \in 1 .. Len(ids) /\ ids \in Seq(B2Version) BY <1>1 DEF B2Good
      <3>2. s = ids => B2!Exists(v) BY <3>1 DEF B2!Exists
      <3> QED BY <3>2, <1>3
    <2>3. \A i \in DOMAIN files'[op.key] : files'[op.key][i] # v BY <1>3, <2>1 DEF B2!Exists
    <2> QED BY <1>1, <2>1, <2>2, <2>3
  <1>4. CASE B2!Exists(v)
    <2>1. files' = [files EXCEPT ![op.key] = Tail(s)] /\ s # <<>> /\ s[1] = v BY <1>2, <1>4
    <2>2. B2Good(s, nid) BY <1>1
    <2> DEFINE t == Tail(s)
    <2>3. B2Good(t, nid) /\ Len(t) = Len(s) - 1 /\ \A i \in 1 .. Len(t) : t[i] = s[i + 1]
      BY <2>1, <2>2, B2TailGood
    <2> HIDE DEF t
    <2>4. t \in Seq(B2Version) /\ s \in Seq(B2Version) BY <2>2, <2>3 DEF B2Good
    <2>5. \A i \in 1 .. Len(t) : t[i] # v
      <3> SUFFICES ASSUME NEW i \in 1 .. Len(t) PROVE s[i + 1] # s[1] BY <2>1, <2>3
      <3>1. i + 1 \in 1 .. Len(s) /\ 1 \in 1 .. Len(s) /\ i + 1 # 1 BY <2>3, <2>4
      <3> QED BY <2>2, <3>1 DEF B2Good
    <2>6. files' = [files EXCEPT ![op.key] = t] BY <2>1 DEF t
    <2>7. files' \in [Keys -> Seq(B2Version)] /\ files'[op.key] = t
          /\ \A k \in Keys : k # op.key => files'[k] = files[k]
      BY <1>1, <2>4, <2>6
    <2>8. \A k \in Keys : B2Good(files'[k], nid) BY <1>1, <2>3, <2>7
    <2>9. \A i \in DOMAIN files'[op.key] : files'[op.key][i] # v BY <2>4, <2>5, <2>7
    <2>10. s # Tail(ids)
      <3> SUFFICES ASSUME s = Tail(ids) PROVE FALSE OBVIOUS
      <3>1. Len(Tail(ids)) = Len(ids) - 1 /\ \A i \in 1 .. Len(Tail(ids)) : Tail(ids)[i] = ids[i + 1]
        BY <1>1, B2TailGood
      <3>2. 1 \in 1 .. Len(s) BY <2>1, <2>4
      <3>3. ids[1 + 1] = ids[1] BY <2>1, <3>1, <3>2
      <3>4. 1 + 1 \in 1 .. Len(ids) /\ 1 \in 1 .. Len(ids) /\ ids \in Seq(B2Version)
        BY <1>1, <3>1, <3>2 DEF B2Good
      <3> QED BY <1>1, <3>3, <3>4 DEF B2Good
    <2>11. ~B2!DisableVersions => t = Tail(ids) BY <1>1, <2>10 DEF t
    <2> QED BY <2>7, <2>8, <2>9, <2>11
  <1> QED BY <1>3, <1>4

LEMMA B2DeleteIdInv ==
  ASSUME B2Inv, UNCHANGED config, B2!_delete_file_id PROVE B2Inv'
  <1>1. /\ phase = "ids" /\ UNCHANGED <<nid, latest, urls, op, url, retried, before, count>>
        /\ op.name = "delete" /\ op.key \in Keys
        /\ ids # <<>> /\ ids \in Seq(B2Version) /\ B2Good(ids, nid)
    BY DEF B2!_delete_file_id, B2!Can, B2Inv, B2Types, B2Deleting
  <1>2. B2!Exists(ids[1]) \/ B2!MayBeMissing
    <2>1. CASE files[op.key] # <<>> /\ files[op.key][1] = ids[1]
      <3>1. files[op.key] \in Seq(B2Version) BY <1>1 DEF B2Inv, B2Types
      <3>2. 1 \in DOMAIN files[op.key] BY <2>1, <3>1
      <3> QED BY <2>1, <3>2 DEF B2!Exists
    <2>2. CASE retried BY <2>2 DEF B2!MayBeMissing
    <2> QED BY <1>1, <2>1, <2>2 DEF B2Inv, B2Deleting
  <1>3. B2!Remove(ids[1]) /\ ids' = Tail(ids)
        /\ IF ids' = <<>> THEN phase' = "done" /\ result' = "ok" ELSE phase' = "ids"
    BY <1>2 DEF B2!_delete_file_id, B2!Return, B2!Goto
  <1>4. /\ files' \in [Keys -> Seq(B2Version)] /\ \A k \in Keys : B2Good(files'[k], nid)
        /\ \A k \in Keys : k # op.key => files'[k] = files[k]
        /\ ~B2!DisableVersions => files'[op.key] = Tail(ids)
    BY <1>1, <1>3, B2Gone
  <1>5. B2Good(ids', nid) /\ ids' \in Seq(B2Version) BY <1>1, <1>3, B2TailGood DEF B2Good
  <1>6. B2Types' BY <1>1, <1>3, <1>4, <1>5 DEF B2Inv, B2Types, B2Phases
  <1>7. B2!DisableVersions => ids' = <<>> BY <1>1, <1>3 DEF B2Inv, B2Deleting
  <1>8. B2Deleting' BY <1>1, <1>3, <1>4, <1>5, <1>7 DEF B2Deleting, B2!DisableVersions
  <1>9. B2Newest'
    BY <1>1, <1>3, <1>4 DEF B2Inv, B2Newest, B2!Newest, B2!DisableVersions, B2!Kinds
  <1>10. B2Urls' BY <1>1, <1>3 DEF B2Inv, B2Urls, B2!Kinds
  <1>11. B2!WriteExact' /\ B2!DeleteExact'
    BY <1>1, <1>3, <1>4 DEF B2Inv, B2!WriteExact, B2!DeleteExact, B2!Returned, B2!DisableVersions
  <1> QED BY <1>1, <1>3, <1>6, <1>8, <1>9, <1>10, <1>11 DEF B2Inv

LEMMA B2DeleteTempInv ==
  ASSUME B2Inv, UNCHANGED config, B2!DeleteTemp PROVE B2Inv'
  <1>1. /\ phase = "ids" /\ UNCHANGED <<nid, latest, urls, op, phase, url, ids, result, before, count>>
        /\ op.key \in Keys /\ retried'
        /\ files' = files \/ B2!Remove(ids[1])
    BY DEF B2!DeleteTemp, B2Inv, B2Types
  <1>2. /\ files' \in [Keys -> Seq(B2Version)] /\ \A k \in Keys : B2Good(files'[k], nid)
        /\ \A k \in Keys : k # op.key => files'[k] = files[k]
        /\ ~B2!DisableVersions => files'[op.key] \in {ids, Tail(ids)}
        /\ \/ files'[op.key] # <<>> /\ files'[op.key][1] = ids[1]
           \/ \A i \in DOMAIN files'[op.key] : files'[op.key][i] # ids[1]
    <2>1. CASE B2!Remove(ids[1]) BY <1>1, <2>1, B2Gone
    <2>2. CASE files' = files
      <3>1. ~B2!DisableVersions => files[op.key] = ids \/ files[op.key] = Tail(ids)
        BY <1>1 DEF B2Inv, B2Deleting
      <3>2. \/ files[op.key] # <<>> /\ files[op.key][1] = ids[1]
            \/ ~B2!Exists(ids[1])
        BY <1>1 DEF B2Inv, B2Deleting
      <3> QED BY <2>2, <3>1, <3>2 DEF B2Inv, B2Types, B2!Exists
    <2> QED BY <1>1, <2>1, <2>2
  <1>3. B2Types' BY <1>1, <1>2 DEF B2Inv, B2Types
  <1>4. B2Deleting' BY <1>1, <1>2 DEF B2Inv, B2Deleting, B2!DisableVersions, B2!Exists
  <1>5. B2Newest' BY <1>1, <1>2 DEF B2Inv, B2Newest, B2!Newest, B2!DisableVersions, B2!Kinds
  <1>6. B2Urls' BY <1>1 DEF B2Inv, B2Urls, B2!Kinds
  <1>7. B2!WriteExact' /\ B2!DeleteExact' BY <1>1 DEF B2!WriteExact, B2!DeleteExact, B2!Returned
  <1> QED BY <1>1, <1>3, <1>4, <1>5, <1>6, <1>7 DEF B2Inv

LEMMA B2RefusedInv ==
  ASSUME B2Inv, UNCHANGED config, B2!DeleteRefused PROVE B2Inv'
  <1>1. /\ phase = "ids" /\ phase' = "done" /\ result' = "error" /\ "refused" \in B2!Kinds
        /\ UNCHANGED <<files, nid, latest, urls, op, url, ids, before, count>>
        /\ op.name = "delete"
    BY DEF B2!DeleteRefused, B2!Can, B2!Fault, B2!Return, B2Inv, B2Types
  <1>2. B2Types' BY <1>1 DEF B2Inv, B2Types, B2Phases
  <1>3. B2Newest' BY <1>1 DEF B2Newest, B2!Kinds
  <1>4. B2Urls' BY <1>1 DEF B2Inv, B2Urls, B2!Kinds
  <1>5. B2!WriteExact' /\ B2!DeleteExact'
    BY <1>1 DEF B2!WriteExact, B2!DeleteExact, B2!Returned, B2!Kinds
  <1> QED BY <1>1, <1>2, <1>3, <1>4, <1>5 DEF B2Inv, B2Deleting

LEMMA B2EndInv ==
  ASSUME B2Inv, UNCHANGED config, B2!End PROVE B2Inv'
  <1>1. /\ phase = "done" /\ phase' = "idle" /\ ids' = <<>> /\ before' = files
        /\ UNCHANGED <<files, nid, latest, urls, count>>
    BY DEF B2!End
  <1>2. B2Types' BY <1>1 DEF B2Inv, B2Types, B2Phases
  <1>3. B2Newest' BY <1>1 DEF B2Inv, B2Newest, B2!Newest, B2!DisableVersions, B2!Kinds
  <1>4. B2Urls' BY <1>1 DEF B2Inv, B2Urls, B2!Kinds
  <1> QED BY <1>1, <1>2, <1>3, <1>4 DEF B2Inv, B2Deleting, B2!WriteExact, B2!DeleteExact, B2!Returned

LEMMA B2NextInv ==
  ASSUME B2Inv, UNCHANGED config, B2!Next PROVE B2Inv'
  <1>1. ASSUME B2!Step PROVE B2Inv'
    BY <1>1, B2TokenInv, B2FnInv, B2UrlInv, B2UploadInv, B2ListInv, B2DeleteIdInv, B2DeleteTempInv, B2RefusedInv,
       B2CopyFileInv, B2EndInv DEF B2!Step
  <1> QED
    BY <1>1, B2TokenInv, B2OpenWriteInv, B2OpenReadInv, B2DeleteInv, B2CopyInv DEF B2!Next

-----------------------------------------------------------------------------
(***************************************************************************)
(* Google Storage (GsClient).  What a thread has received is what the      *)
(* object was during its call, and a delete that has removed the object    *)
(* and is made again knows that it is.                                     *)
(***************************************************************************)
GsFields == {"at", "op", "key", "to", "force", "new", "used", "again", "is_retry", "gs_meta", "got",
             "pending", "mine", "seen"}
GsValue == {None} \cup Gs!Object
GsObjects == [Gs!Key -> GsValue]

\* The call c, if the object was s while it was made.
GsWith(c, s) ==
    /\ DOMAIN c = GsFields
    /\ c.at # "idle" => c.key \in Gs!Key
    /\ c.gs_meta # None => c.gs_meta \in Gs!Object /\ c.gs_meta \in s
    /\ c.at = "read" => /\ c.op = "read" /\ c.gs_meta # None
                        /\ c.got \in Gs!Object /\ c.got \in s
    /\ c.at = "ok" /\ c.op \in {"read", "lookup"} => c.got \in s
    /\ c.at = "ok" /\ c.op \in {"write", "update_meta", "copy"} => c.mine
    /\ c.at = "ok" /\ c.op = "write" => c.new.data # Part
    /\ c.at # "idle" /\ c.op = "write" => c.new \in Gs!Object
    /\ c.at # "idle" /\ c.op = "update_meta" => c.new \in Gs!Meta
    /\ c.at # "idle" /\ c.op = "copy" => c.to \in Gs!Key /\ c.new \in Gs!Meta \cup {None}
    /\ c.at = "body" => c.op = "write"
    /\ c.op = "delete" => /\ c.at = "ok" => None \in s
                          /\ c.at = "NoSuchObject" => ~c.mine
                          /\ c.at \in Gs!Step /\ c.mine => c.is_retry
    /\ c.pending => c.at = "read"

GsGood(c) == GsWith(c, c.seen)

GsInv ==
    /\ config \in GsSettings
    /\ objects \in GsObjects /\ DOMAIN call = Thread
    /\ \A t \in Thread : GsGood(call[t])

LEMMA GsNone ==
  ASSUME config \in GsSettings
  PROVE  None \notin Gs!Object /\ Gs!Stored \subseteq GsValue
  BY ClientsAssumption DEF Gs!Object, Gs!Data, Gs!Meta, Gs!Stored, GsValue

LEMMA GsInitInv == ASSUME Gs!Init PROVE GsInv
  <1>1. config \in GsSettings /\ objects \in GsObjects
    BY GsNone DEF Gs!Init, GsObjects
  <1>2. GsGood(Gs!Idle) BY DEF GsGood, GsWith, Gs!Idle, GsFields, Gs!Step
  <1>3. call = [t \in Thread |-> Gs!Idle] BY DEF Gs!Init
  <1> QED BY <1>1, <1>2, <1>3 DEF GsInv

\* The object is seen once more.
LEMMA GsSee ==
  ASSUME NEW c, NEW x, GsWith(c, c.seen \cup {x})
  PROVE  GsGood([c EXCEPT !.seen = @ \cup {x}])
  <1> DEFINE d == [c EXCEPT !.seen = @ \cup {x}]
  <1>0. DOMAIN c = GsFields BY DEF GsWith
  <1>1. /\ DOMAIN d = GsFields /\ d.seen = c.seen \cup {x}
        /\ d.at = c.at /\ d.op = c.op /\ d.key = c.key /\ d.to = c.to /\ d.new = c.new
        /\ d.is_retry = c.is_retry /\ d.gs_meta = c.gs_meta /\ d.got = c.got
        /\ d.pending = c.pending /\ d.mine = c.mine
    BY <1>0 DEF GsFields
  <1> HIDE DEF d
  <1>2. GsGood(d) BY <1>1 DEF GsGood, GsWith
  <1> QED BY <1>2 DEF d

LEMMA GsMore ==
  ASSUME NEW c, NEW x, GsGood(c) PROVE GsWith(c, c.seen \cup {x})
  BY DEF GsGood, GsWith

LEMMA GsBecomes ==
  ASSUME GsInv, UNCHANGED config, NEW t \in Thread, NEW c, NEW o \in GsObjects,
         Gs!Becomes(t, c, o), GsWith(c, c.seen \cup {o[c.key]})
  PROVE  GsInv'
  <1>1. objects' = o /\ DOMAIN call' = Thread BY DEF Gs!Becomes
  <1>2. ASSUME NEW u \in Thread PROVE GsGood(call'[u])
    <2>1. CASE u = t
      <3> DEFINE x == o[c.key]
      <3>1. call'[u] = [c EXCEPT !.seen = @ \cup {x}] BY <2>1 DEF Gs!Becomes
      <3>2. GsWith(c, c.seen \cup {x}) OBVIOUS
      <3> HIDE DEF x
      <3>3. GsGood([c EXCEPT !.seen = @ \cup {x}]) BY <3>2, GsSee
      <3> QED BY <3>1, <3>3
    <2>2. CASE u # t
      <3> DEFINE d == call[u]
      <3>1. GsGood(d) BY DEF GsInv
      <3>2. call'[u] = [d EXCEPT !.seen = @ \cup {o[d.key]}] \/ call'[u] = d
        BY <2>2 DEF Gs!Becomes
      <3> HIDE DEF d
      <3>3. GsGood([d EXCEPT !.seen = @ \cup {o[d.key]}]) BY <3>1, GsMore, GsSee
      <3> QED BY <3>1, <3>2, <3>3
    <2> QED BY <2>1, <2>2
  <1>3. ASSUME NEW u \in Thread PROVE GsGood(call[u])'
    <2>1. GsGood(call'[u]) BY <1>2
    <2> QED BY <2>1 DEF GsGood, GsWith, Gs!Key, Gs!Object, Gs!Data, Gs!Meta
  <1> QED
    BY <1>1, <1>3 DEF GsInv, GsObjects, GsValue, Gs!Key, Gs!Object, Gs!Data, Gs!Meta

GsSame(c, d) ==
    /\ DOMAIN c = GsFields /\ c.op = d.op /\ c.key = d.key /\ c.to = d.to /\ c.new = d.new
    /\ c.seen = d.seen

LEMMA GsAgainGood ==
  ASSUME NEW c, NEW d, NEW x, GsGood(d), d.at \in Gs!Step, GsSame(c, d),
         c.at = "start", c.is_retry, c.gs_meta = None, ~c.pending
  PROVE  GsWith(c, c.seen \cup {x})
  BY DEF GsGood, GsWith, GsSame, Gs!Step

LEMMA GsMoveGood ==
  ASSUME NEW c, NEW d, NEW x, GsGood(d), d.at \in Gs!Step, GsSame(c, d),
         c.at \in {"start", "send", "lock", "refresh", "resend"} \/ (c.at = "body" /\ c.op = "write"),
         c.is_retry = d.is_retry, c.mine = d.mine, c.gs_meta = d.gs_meta, ~c.pending
  PROVE  GsWith(c, c.seen \cup {x})
  BY DEF GsGood, GsWith, GsSame, Gs!Step

LEMMA GsFailGood ==
  ASSUME NEW c, NEW d, NEW x, GsGood(d), d.at \in Gs!Step, GsSame(c, d),
         c.at \in {"error", "AuthenticationError", "KeyError"}, c.gs_meta = d.gs_meta, ~c.pending
  PROVE  GsWith(c, c.seen \cup {x})
  BY DEF GsGood, GsWith, GsSame, Gs!Step

\* The changes of a record of a call.
LEMMA GsRecords ==
  ASSUME NEW t, GsGood(call[t]), call[t].at \in Gs!Step
  PROVE  /\ \A pc : LET c == Gs!At(t, pc) IN
               /\ GsSame(c, call[t]) /\ c.at = pc /\ c.is_retry = call[t].is_retry
               /\ c.mine = call[t].mine /\ c.gs_meta = call[t].gs_meta /\ c.pending = call[t].pending
         /\ \A r : LET c == Gs!Return(t, r) IN
               /\ GsSame(c, call[t]) /\ c.at = r /\ c.is_retry = call[t].is_retry
               /\ c.mine = call[t].mine /\ c.gs_meta = call[t].gs_meta /\ ~c.pending
               /\ c.got = call[t].got
         /\ LET c == Gs!Again(t) IN
               /\ GsSame(c, call[t]) /\ c.at = "start" /\ c.is_retry /\ c.gs_meta = None /\ ~c.pending
         /\ LET c == [Gs!Again(t) EXCEPT !.mine = TRUE] IN
               /\ GsSame(c, call[t]) /\ c.at = "start" /\ c.is_retry /\ c.gs_meta = None /\ ~c.pending
  <1>1. DOMAIN call[t] = GsFields BY DEF GsGood, GsWith
  <1> QED BY <1>1 DEF GsSame, GsFields, Gs!At, Gs!Return, Gs!Again

LEMMA GsMoves ==
  ASSUME NEW t, NEW d, d = call[t], GsGood(d), NEW pc, NEW c, c = Gs!At(t, pc)
  PROVE  /\ GsSame(c, d) /\ c.at = pc /\ c.is_retry = d.is_retry
         /\ c.mine = d.mine /\ c.gs_meta = d.gs_meta /\ c.pending = d.pending
  <1>1. DOMAIN d = GsFields BY DEF GsGood, GsWith
  <1> QED BY <1>1 DEF GsSame, GsFields, Gs!At

LEMMA GsReturns ==
  ASSUME NEW t, NEW d, d = call[t], GsGood(d), d.at \in Gs!Step, NEW r, NEW c, c = Gs!Return(t, r)
  PROVE  /\ GsSame(c, d) /\ c.at = r /\ c.mine = d.mine /\ c.gs_meta = d.gs_meta /\ ~c.pending
         /\ c.got = d.got
  <1>1. DOMAIN d = GsFields BY DEF GsGood, GsWith
  <1> QED BY <1>1 DEF GsSame, GsFields, Gs!Return

LEMMA GsStart ==
  ASSUME GsInv, NEW t \in Thread, call[t].at \in Gs!Step
  PROVE  /\ GsGood(call[t]) /\ call[t].key \in Gs!Key /\ objects \in GsObjects
         /\ objects[call[t].key] \in GsValue
         /\ call[t].at # "read" => ~call[t].pending
  BY DEF GsInv, GsGood, GsWith, Gs!Step, GsObjects

\* The token.
LEMMA GsTokenInv ==
  ASSUME GsInv, UNCHANGED config, NEW t \in Thread,
         \/ Gs!Start(t) \/ Gs!Acquire(t) \/ Gs!_get_access_token(t) \/ Gs!RefreshFails(t)
         \/ Gs!Resend(t) \/ Gs!Unauthorized(t) \/ Gs!AccessTokenExpired(t)
         \/ Gs!PermanentFailure(t) \/ Gs!Continue(t) \/ Gs!ReadFails(t)
  PROVE  GsInv'
  <1> DEFINE d == call[t]
             x == objects[d.key]
  <1>1. d.at \in Gs!Step
    BY DEF Gs!Start, Gs!Acquire, Gs!_get_access_token, Gs!RefreshFails, Gs!Resend, Gs!Unauthorized,
           Gs!AccessTokenExpired, Gs!PermanentFailure, Gs!Continue, Gs!ReadFails, Gs!Asked, Gs!Step
  <1>2. GsGood(d) /\ objects \in GsObjects /\ (d.at # "read" => ~d.pending) BY <1>1, GsStart
  <1>3. ASSUME NEW c, Gs!Becomes(t, c, objects), GsWith(c, c.seen \cup {x}), c.key = d.key PROVE GsInv'
    BY <1>2, <1>3, GsBecomes
  <1>4. CASE Gs!Start(t)
    <2> DEFINE c == [call[t] EXCEPT !.at = IF access_token = 0 THEN "lock" ELSE "send",
                                    !.used = access_token, !.again = FALSE]
    <2>1. Gs!Becomes(t, c, objects) /\ d.at = "start" BY <1>4 DEF Gs!Start
    <2>2. DOMAIN d = GsFields BY <1>2 DEF GsGood, GsWith
    <2>3. /\ GsSame(c, d) /\ c.at \in {"lock", "send"} /\ c.is_retry = d.is_retry /\ c.mine = d.mine
          /\ c.gs_meta = d.gs_meta /\ c.pending = d.pending
      BY <2>2 DEF GsSame, GsFields
    <2> HIDE DEF c, d, x
    <2>4. GsWith(c, c.seen \cup {x}) BY <1>1, <1>2, <2>1, <2>3, GsMoveGood
    <2> QED BY <1>3, <2>1, <2>3, <2>4 DEF GsSame
  <1>5. CASE Gs!Resend(t) /\ access_token # 0
    <2> DEFINE c == [call[t] EXCEPT !.at = "send", !.used = access_token, !.again = TRUE]
    <2>1. Gs!Becomes(t, c, objects) /\ d.at = "resend" BY <1>5 DEF Gs!Resend
    <2>2. DOMAIN d = GsFields BY <1>2 DEF GsGood, GsWith
    <2>3. /\ GsSame(c, d) /\ c.at = "send" /\ c.is_retry = d.is_retry /\ c.mine = d.mine
          /\ c.gs_meta = d.gs_meta /\ c.pending = d.pending
      BY <2>2 DEF GsSame, GsFields
    <2> HIDE DEF c, d, x
    <2>4. GsWith(c, c.seen \cup {x}) BY <1>1, <1>2, <2>1, <2>3, GsMoveGood
    <2> QED BY <1>3, <2>1, <2>3, <2>4 DEF GsSame
  <1>6. ASSUME NEW pc, Gs!Becomes(t, Gs!At(t, pc), objects), d.at # "read",
               pc \in {"lock", "refresh", "resend"} \/ (pc = "body" /\ d.op = "write")
        PROVE  GsInv'
    <2> DEFINE c == Gs!At(t, pc)
    <2>1. /\ GsSame(c, d) /\ c.at = pc /\ c.is_retry = d.is_retry /\ c.mine = d.mine
          /\ c.gs_meta = d.gs_meta /\ c.pending = d.pending
      <3>1. c = Gs!At(t, pc) /\ d = call[t] OBVIOUS
      <3> HIDE DEF c, d, x
      <3> QED BY <1>2, <3>1, GsMoves
    <2>2. Gs!Becomes(t, c, objects) BY <1>6
    <2> HIDE DEF c
    <2>3. c.op = d.op /\ c.key = d.key BY <2>1 DEF GsSame
    <2> HIDE DEF d, x
    <2>4. GsWith(c, c.seen \cup {x}) BY <1>1, <1>2, <1>6, <2>1, <2>3, GsMoveGood
    <2> QED BY <1>3, <2>2, <2>3, <2>4
  <1>7. ASSUME NEW r, Gs!Becomes(t, Gs!Return(t, r), objects),
               r \in {"error", "AuthenticationError", "KeyError"}
        PROVE  GsInv'
    <2> DEFINE c == Gs!Return(t, r)
    <2>1. GsSame(c, d) /\ c.at = r /\ c.gs_meta = d.gs_meta /\ ~c.pending
      <3>1. c = Gs!Return(t, r) /\ d = call[t] OBVIOUS
      <3> HIDE DEF c, d, x
      <3> QED BY <1>1, <1>2, <3>1, GsReturns
    <2>2. Gs!Becomes(t, c, objects) BY <1>7
    <2> HIDE DEF c
    <2>3. c.key = d.key BY <2>1 DEF GsSame
    <2> HIDE DEF d, x
    <2>4. GsWith(c, c.seen \cup {x}) BY <1>1, <1>2, <1>7, <2>1, GsFailGood
    <2> QED BY <1>3, <2>2, <2>3, <2>4
  <1>8. ASSUME Gs!Becomes(t, Gs!Again(t), objects) PROVE GsInv'
    <2> DEFINE c == Gs!Again(t)
    <2>1. GsSame(c, d) /\ c.at = "start" /\ c.is_retry /\ c.gs_meta = None /\ ~c.pending
      BY <1>1, <1>2, GsRecords
    <2>2. Gs!Becomes(t, c, objects) BY <1>8
    <2> HIDE DEF c
    <2>3. c.key = d.key BY <2>1 DEF GsSame
    <2> HIDE DEF d, x
    <2>4. GsWith(c, c.seen \cup {x}) BY <1>1, <1>2, <2>1, GsAgainGood
    <2> QED BY <1>3, <2>2, <2>3, <2>4
  <1>9. CASE Gs!Acquire(t)
    BY <1>6, <1>9 DEF Gs!Acquire
  <1>10. CASE Gs!_get_access_token(t)
    BY <1>6, <1>10 DEF Gs!_get_access_token
  <1>11. CASE Gs!RefreshFails(t)
    BY <1>7, <1>8, <1>11 DEF Gs!RefreshFails
  <1>12. CASE Gs!Resend(t) /\ access_token = 0
    BY <1>7, <1>12 DEF Gs!Resend
  <1>13. CASE Gs!Unauthorized(t)
    BY <1>6, <1>7, <1>13 DEF Gs!Unauthorized
  <1>14. CASE Gs!AccessTokenExpired(t)
    BY <1>8, <1>14 DEF Gs!AccessTokenExpired
  <1>15. CASE Gs!PermanentFailure(t)
    BY <1>7, <1>15 DEF Gs!PermanentFailure
  <1>16. CASE Gs!Continue(t)
    BY <1>6, <1>16 DEF Gs!Continue, Gs!Asked
  <1>17. CASE Gs!ReadFails(t)
    BY <1>7, <1>8, <1>17 DEF Gs!ReadFails, Gs!CloseEarly
  <1> QED
    BY <1>4, <1>5, <1>9, <1>10, <1>11, <1>12, <1>13, <1>14, <1>15, <1>16, <1>17

LEMMA GsEffect ==
  ASSUME GsInv, NEW t \in Thread, call[t].at \in Gs!Step, ~Gs!Missing(t), call[t].op # "write"
  PROVE  /\ Gs!Effect(t) \in GsObjects
         /\ call[t].op = "delete" => Gs!Effect(t)[call[t].key] = None
         /\ call[t].op \in {"lookup", "read"} => Gs!Effect(t) = objects
  <1> DEFINE d == call[t]
  <1>1. GsGood(d) /\ d.key \in Gs!Key /\ objects \in GsObjects BY GsStart
  <1>2. objects[d.key] \in Gs!Object BY <1>1 DEF Gs!Missing, GsObjects, GsValue
  <1>3. /\ d.op = "update_meta" => d.new \in Gs!Meta
        /\ d.op = "copy" => d.to \in Gs!Key /\ d.new \in Gs!Meta \cup {None}
    BY <1>1 DEF GsGood, GsWith, Gs!Step
  <1>4. CASE d.op = "delete" BY <1>1, <1>4 DEF Gs!Effect, GsObjects, GsValue
  <1>5. CASE d.op = "update_meta"
    <2>1. [objects[d.key] EXCEPT !.meta = d.new] \in GsValue
      BY <1>2, <1>3, <1>5 DEF Gs!Object, GsValue
    <2>2. Gs!Effect(t) = [objects EXCEPT ![d.key] = [objects[d.key] EXCEPT !.meta = d.new]]
      BY <1>1, <1>5 DEF Gs!Effect, GsObjects
    <2> QED BY <1>1, <1>5, <2>1, <2>2 DEF GsObjects
  <1>6. CASE d.op = "copy"
    <2> DEFINE m == IF d.new = None THEN objects[d.key].meta ELSE d.new
    <2>1. m \in Gs!Meta BY <1>2, <1>3, <1>6 DEF Gs!Object
    <2>2. Gs!Effect(t) = [objects EXCEPT ![d.to] = [objects[d.key] EXCEPT !.meta = m]]
      BY <1>6 DEF Gs!Effect
    <2> HIDE DEF m
    <2>3. [objects[d.key] EXCEPT !.meta = m] \in GsValue BY <1>2, <2>1 DEF Gs!Object, GsValue
    <2> QED BY <1>1, <1>3, <1>6, <2>2, <2>3 DEF GsObjects
  <1>7. CASE d.op \notin {"delete", "update_meta", "copy"} BY <1>1, <1>7 DEF Gs!Effect
  <1> QED BY <1>4, <1>5, <1>6, <1>7

\* The server has no such object.
LEMMA GsMissingInv ==
  ASSUME GsInv, UNCHANGED config, NEW t \in Thread, Gs!NotFound(t) PROVE GsInv'
  <1> DEFINE d == call[t]
             r == IF Gs!MayBeMissing(t) THEN "ok" ELSE "NoSuchObject"
             c == Gs!Return(t, r)
  <1>1. /\ d.at = "send" /\ d.op # "write" /\ objects[d.key] = None
        /\ Gs!Becomes(t, c, objects)
    BY DEF Gs!NotFound, Gs!Asked, Gs!Missing
  <1>2. GsGood(d) /\ objects \in GsObjects BY <1>1, GsStart DEF Gs!Step
  <1>3. GsSame(c, d) /\ c.at = r /\ c.gs_meta = d.gs_meta /\ ~c.pending /\ c.mine = d.mine
    <2>1. d.at \in Gs!Step BY <1>1 DEF Gs!Step
    <2>2. c = Gs!Return(t, r) /\ d = call[t] OBVIOUS
    <2> HIDE DEF c, d, r
    <2> QED BY <1>2, <2>1, <2>2, GsReturns
  <1>4. r = "ok" => d.op = "delete" BY DEF Gs!MayBeMissing
  <1>5. r = "NoSuchObject" /\ d.op = "delete" => ~d.mine
    BY <1>1, <1>2 DEF Gs!MayBeMissing, GsGood, GsWith, Gs!Step
  <1>6. r \in {"ok", "NoSuchObject"} OBVIOUS
  <1> HIDE DEF c, r
  <1>7. GsWith(c, c.seen \cup {None})
    BY <1>1, <1>2, <1>3, <1>4, <1>5, <1>6 DEF GsGood, GsWith, GsSame, Gs!Step
  <1>8. objects[c.key] = None BY <1>1, <1>3 DEF GsSame
  <1> QED BY <1>1, <1>2, <1>7, <1>8, GsBecomes

LEMMA GsSuccessInv ==
  ASSUME GsInv, UNCHANGED config, NEW t \in Thread, Gs!Success(t) PROVE GsInv'
  <1> DEFINE d == call[t]
             ok == "ok"
             b == Gs!Return(t, ok)
             c == [Gs!Return(t, "ok") EXCEPT !.mine = Gs!Changes(t), !.got = objects[call[t].key]]
             o == Gs!Effect(t)
  <1>1. /\ d.at = "send" /\ ~Gs!Missing(t) /\ Gs!Becomes(t, c, o)
        /\ d.op \in {"delete", "update_meta", "copy", "lookup"}
    BY DEF Gs!Success, Gs!Asked, Gs!Changes
  <1>2. GsGood(d) /\ d.at \in Gs!Step BY <1>1, GsStart DEF Gs!Step
  <1>3. GsSame(b, d) /\ b.at = ok /\ b.gs_meta = d.gs_meta /\ ~b.pending
    <2>1. b = Gs!Return(t, ok) /\ d = call[t] OBVIOUS
    <2> HIDE DEF b, d, ok
    <2> QED BY <1>2, <2>1, GsReturns
  <1>4. /\ GsSame(c, d) /\ c.at = "ok" /\ c.gs_meta = d.gs_meta /\ ~c.pending
        /\ c.got = objects[d.key] /\ (c.mine <=> Gs!Changes(t))
    <2> HIDE DEF b
    <2>1. c = [b EXCEPT !.mine = Gs!Changes(t), !.got = objects[call[t].key]] BY DEF b
    <2> HIDE DEF c
    <2>2. c.mine <=> Gs!Changes(t)
      <3>1. CASE Gs!Changes(t)
        <4>1. c = [b EXCEPT !.mine = TRUE, !.got = objects[call[t].key]] BY <2>1, <3>1
        <4> QED BY <1>3, <3>1, <4>1 DEF GsSame, GsFields
      <3>2. CASE ~Gs!Changes(t)
        <4>0. Gs!Changes(t) = FALSE BY <3>2 DEF Gs!Changes
        <4>1. c = [b EXCEPT !.mine = FALSE, !.got = objects[call[t].key]] BY <2>1, <4>0
        <4> QED BY <1>3, <3>2, <4>1 DEF GsSame, GsFields
      <3> QED BY <3>1, <3>2
    <2> QED BY <1>3, <2>1, <2>2 DEF GsSame, GsFields
  <1>5. o \in GsObjects /\ (d.op = "delete" => o[d.key] = None) /\ (d.op = "lookup" => o = objects)
    BY <1>1, <1>2, GsEffect
  <1> HIDE DEF c, o
  <1>6. GsWith(c, c.seen \cup {o[c.key]})
    BY <1>1, <1>2, <1>4, <1>5 DEF GsGood, GsWith, GsSame, Gs!Step, Gs!Changes
  <1> QED BY <1>1, <1>5, <1>6, GsBecomes

LEMMA GsTempInv ==
  ASSUME GsInv, UNCHANGED config, NEW t \in Thread, Gs!TempFailure(t) PROVE GsInv'
  <1> DEFINE d == call[t]
  <1>1. d.at = "send" /\ d.at \in Gs!Step BY DEF Gs!TempFailure, Gs!Asked, Gs!Step
  <1>2. GsGood(d) /\ objects \in GsObjects BY <1>1, GsStart
  <1>3. ASSUME NEW c, c \in {Gs!Again(t), [Gs!Again(t) EXCEPT !.mine = TRUE]}, NEW o \in GsObjects,
               Gs!Becomes(t, c, o)
        PROVE  GsInv'
    <2>1. GsSame(c, d) /\ c.at = "start" /\ c.is_retry /\ c.gs_meta = None /\ ~c.pending
      <3>1. CASE c = Gs!Again(t) BY <1>1, <1>2, <3>1, GsRecords
      <3>2. CASE c = [Gs!Again(t) EXCEPT !.mine = TRUE] BY <1>1, <1>2, <3>2, GsRecords
      <3> QED BY <1>3, <3>1, <3>2
    <2> HIDE DEF d
    <2>2. GsWith(c, c.seen \cup {o[c.key]}) BY <1>1, <1>2, <2>1, GsAgainGood
    <2> QED BY <1>3, <2>2, GsBecomes
  <1>4. CASE Gs!Becomes(t, Gs!Again(t), objects) BY <1>2, <1>3, <1>4
  <1>5. CASE ~Gs!Missing(t) /\ Gs!Changes(t)
             /\ Gs!Becomes(t, [Gs!Again(t) EXCEPT !.mine = TRUE], Gs!Effect(t))
    <2>1. Gs!Effect(t) \in GsObjects BY <1>1, <1>5, GsEffect DEF Gs!Changes
    <2> QED BY <1>3, <1>5, <2>1
  <1> QED BY <1>4, <1>5 DEF Gs!TempFailure

\* A read.
LEMMA GsGetInv ==
  ASSUME GsInv, UNCHANGED config, NEW t \in Thread, Gs!GetMeta(t) \/ Gs!GetData(t) PROVE GsInv'
  <1> DEFINE d == call[t]
             x == objects[d.key]
  <1>1. d.at = "send" /\ d.op = "read" /\ x # None
    BY DEF Gs!GetMeta, Gs!GetData, Gs!Asked, Gs!Missing
  <1>2. GsGood(d) /\ objects \in GsObjects /\ x \in Gs!Object /\ DOMAIN d = GsFields
    BY <1>1, GsStart DEF Gs!Step, GsValue, GsGood, GsWith
  <1>3. CASE Gs!GetMeta(t)
    <2> DEFINE c == [d EXCEPT !.at = "start", !.gs_meta = x]
    <2>1. Gs!Becomes(t, c, objects) BY <1>3 DEF Gs!GetMeta, Gs!At
    <2>2. GsSame(c, d) /\ c.at = "start" /\ c.gs_meta = x /\ c.pending = d.pending
      BY <1>2 DEF GsSame, GsFields
    <2> HIDE DEF c
    <2>3. c.key = d.key BY <2>2 DEF GsSame
    <2> HIDE DEF d, x
    <2>4. GsWith(c, c.seen \cup {x})
      BY <1>1, <1>2, <2>2 DEF GsGood, GsWith, GsSame, Gs!Step
    <2> QED BY <1>2, <2>1, <2>3, <2>4, GsBecomes DEF x
  <1>4. CASE Gs!GetData(t)
    <2> DEFINE c == [d EXCEPT !.at = "read", !.got = x, !.pending = TRUE]
    <2>1. Gs!Becomes(t, c, objects) /\ d.gs_meta # None BY <1>4 DEF Gs!GetData, Gs!At
    <2>2. GsSame(c, d) /\ c.at = "read" /\ c.got = x /\ c.gs_meta = d.gs_meta /\ c.mine = d.mine
          /\ c.is_retry = d.is_retry
      BY <1>2 DEF GsSame, GsFields
    <2> HIDE DEF c
    <2>3. c.key = d.key BY <2>2 DEF GsSame
    <2> HIDE DEF d, x
    <2>4. GsWith(c, c.seen \cup {x})
      BY <1>1, <1>2, <2>1, <2>2 DEF GsGood, GsWith, GsSame, Gs!Step
    <2> QED BY <1>2, <2>1, <2>3, <2>4, GsBecomes DEF x
  <1> QED BY <1>3, <1>4

LEMMA GsSameObject ==
  ASSUME NEW a \in Gs!Object, NEW b \in Gs!Object, a.data = b.data
  PROVE  [a EXCEPT !.meta = b.meta] = b
  BY DEF Gs!Object

LEMMA GsReadAllInv ==
  ASSUME GsInv, UNCHANGED config, NEW t \in Thread, Gs!ReadAll(t) PROVE GsInv'
  <1> DEFINE d == call[t]
  <1>1. d.at = "read" /\ d.at \in Gs!Step BY DEF Gs!ReadAll, Gs!Step
  <1>2. GsGood(d) /\ objects \in GsObjects /\ DOMAIN d = GsFields
    BY <1>1, GsStart DEF GsGood, GsWith
  <1>3. /\ d.op = "read" /\ d.got \in Gs!Object /\ d.got \in d.seen
        /\ d.gs_meta \in Gs!Object /\ d.gs_meta \in d.seen
    BY <1>1, <1>2 DEF GsGood, GsWith
  <1>4. CASE Gs!DigestMatches(t)
    <2> DEFINE g == [d.got EXCEPT !.meta = d.gs_meta.meta]
               c == [d EXCEPT !.at = "ok", !.pending = FALSE, !.got = g]
    <2>1. g = d.gs_meta BY <1>3, <1>4, GsSameObject DEF Gs!DigestMatches
    <2>2. Gs!Becomes(t, c, objects)
      <3>1. [Gs!Return(t, "ok") EXCEPT !.got.meta = call[t].gs_meta.meta] = c
        BY <1>2 DEF Gs!Return, GsFields
      <3> QED BY <1>4, <3>1 DEF Gs!ReadAll
    <2> HIDE DEF g
    <2>3. GsSame(c, d) /\ c.at = "ok" /\ c.got = g /\ c.gs_meta = d.gs_meta /\ ~c.pending
      BY <1>2 DEF GsSame, GsFields
    <2> HIDE DEF c, d
    <2>4. GsWith(c, c.seen \cup {objects[c.key]})
      BY <1>1, <1>2, <1>3, <2>1, <2>3 DEF GsGood, GsWith, GsSame, Gs!Step
    <2> QED BY <1>2, <2>2, <2>4, GsBecomes
  <1>5. CASE ~Gs!DigestMatches(t)
    <2> DEFINE c == Gs!Again(t)
    <2>1. Gs!Becomes(t, c, objects) BY <1>5 DEF Gs!ReadAll
    <2>2. GsSame(c, d) /\ c.at = "start" /\ c.is_retry /\ c.gs_meta = None /\ ~c.pending
      BY <1>1, <1>2, GsRecords
    <2> HIDE DEF c, d
    <2>3. GsWith(c, c.seen \cup {objects[c.key]}) BY <1>1, <1>2, <2>2, GsAgainGood
    <2> QED BY <1>2, <2>1, <2>3, GsBecomes
  <1> QED BY <1>4, <1>5

\* The end of an upload.
LEMMA GsUploadInv ==
  ASSUME GsInv, UNCHANGED config, NEW t \in Thread, Gs!Upload(t) PROVE GsInv'
  <1> DEFINE d == call[t]
             o == [objects EXCEPT ![call[t].key] = call[t].new]
  <1>1. d.at = "body" /\ d.at \in Gs!Step BY DEF Gs!Upload, Gs!Step
  <1>2. GsGood(d) /\ objects \in GsObjects /\ DOMAIN d = GsFields
    BY <1>1, GsStart DEF GsGood, GsWith
  <1>3. d.op = "write" /\ d.key \in Gs!Key /\ d.new \in Gs!Object
    BY <1>1, <1>2 DEF GsGood, GsWith
  <1>4. o \in GsObjects BY <1>2, <1>3 DEF GsObjects, GsValue
  <1>5. ASSUME NEW c, c \in {Gs!Again(t), [Gs!Again(t) EXCEPT !.mine = TRUE]}, NEW p \in GsObjects,
               Gs!Becomes(t, c, p)
        PROVE  GsInv'
    <2>1. GsSame(c, d) /\ c.at = "start" /\ c.is_retry /\ c.gs_meta = None /\ ~c.pending
      <3>1. CASE c = Gs!Again(t) BY <1>1, <1>2, <3>1, GsRecords
      <3>2. CASE c = [Gs!Again(t) EXCEPT !.mine = TRUE] BY <1>1, <1>2, <3>2, GsRecords
      <3> QED BY <1>5, <3>1, <3>2
    <2> HIDE DEF d, o
    <2>2. GsWith(c, c.seen \cup {p[c.key]}) BY <1>1, <1>2, <2>1, GsAgainGood
    <2> QED BY <1>5, <2>2, GsBecomes
  <1> DEFINE r == IF call[t].new.data = Part THEN "error" ELSE "ok"
             b == Gs!Return(t, r)
             c == [b EXCEPT !.mine = TRUE]
  <1>6. CASE Gs!Becomes(t, c, o)
    <2>1. GsSame(b, d) /\ b.at = r /\ b.gs_meta = d.gs_meta /\ ~b.pending
      <3>1. b = Gs!Return(t, r) /\ d = call[t] OBVIOUS
      <3> HIDE DEF b, d, r, o
      <3> QED BY <1>1, <1>2, <3>1, GsReturns
    <2> HIDE DEF b
    <2>2. GsSame(c, d) /\ c.at = r /\ c.mine /\ c.gs_meta = d.gs_meta /\ ~c.pending
      BY <2>1 DEF GsSame, GsFields
    <2>3. r \in {"error", "ok"} /\ (r = "ok" => d.new.data # Part) OBVIOUS
    <2>4. Gs!Becomes(t, c, o) BY <1>6
    <2> HIDE DEF c, d, r, o
    <2>5. GsWith(c, c.seen \cup {o[c.key]})
      BY <1>1, <1>2, <1>3, <2>2, <2>3 DEF GsGood, GsWith, GsSame, Gs!Step
    <2> QED BY <1>4, <2>4, <2>5, GsBecomes
  <1>7. \/ Gs!Becomes(t, c, o) \/ Gs!Becomes(t, [Gs!Again(t) EXCEPT !.mine = TRUE], o)
        \/ Gs!Becomes(t, Gs!Again(t), objects)
    BY DEF Gs!Upload
  <1> HIDE DEF c, o
  <1> QED BY <1>2, <1>4, <1>5, <1>6, <1>7

\* A call begins.
GsNew(c) ==
    /\ DOMAIN c = GsFields /\ c.key \in Gs!Key /\ c.gs_meta = None /\ ~c.mine /\ ~c.pending
    /\ c.op = "write" => c.new \in Gs!Object
    /\ c.op = "update_meta" => c.new \in Gs!Meta
    /\ c.op = "copy" => c.to \in Gs!Key /\ c.new \in Gs!Meta \cup {None}

LEMMA GsBeginInv ==
  ASSUME GsInv, UNCHANGED config, NEW t \in Thread, NEW c, Gs!Call(t, c), GsNew(c)
  PROVE  GsInv'
  <1> DEFINE x == {objects[c.key]}
             r == [c EXCEPT !.at = "start", !.seen = x]
  <1>1. call' = [call EXCEPT ![t] = r] /\ objects' = objects BY DEF Gs!Call
  <1>2. DOMAIN c = GsFields BY DEF GsNew
  <1>3. /\ DOMAIN r = GsFields /\ r.at = "start" /\ r.op = c.op /\ r.key = c.key /\ r.to = c.to
        /\ r.new = c.new /\ r.gs_meta = c.gs_meta
    <2> HIDE DEF x
    <2> QED BY <1>2 DEF GsFields
  <1>4. (r.mine <=> c.mine) /\ (r.pending <=> c.pending)
    <2> HIDE DEF x
    <2> QED BY <1>2 DEF GsFields
  <1> HIDE DEF r
  <1>5. GsGood(r) BY <1>3, <1>4 DEF GsNew, GsGood, GsWith, Gs!Step
  <1>6. ASSUME NEW u \in Thread PROVE GsGood(call[u])'
    <2>1. GsGood(call'[u])
      <3>1. GsGood(call[u]) BY DEF GsInv
      <3>2. DOMAIN call = Thread BY DEF GsInv
      <3>3. call'[u] = IF u = t THEN r ELSE call[u] BY <1>1, <3>2
      <3> QED BY <1>5, <3>1, <3>3
    <2> QED BY <2>1 DEF GsGood, GsWith, Gs!Key, Gs!Object, Gs!Data, Gs!Meta
  <1> QED
    BY <1>1, <1>6 DEF GsInv, GsObjects, GsValue, Gs!Key, Gs!Object, Gs!Data, Gs!Meta

LEMMA GsDeleteInv ==
  ASSUME GsInv, UNCHANGED config, NEW t \in Thread, NEW k \in Gs!Key, NEW f \in BOOLEAN, Gs!delete(t, k, f)
  PROVE  GsInv'
  <1> DEFINE c == [Gs!Idle EXCEPT !.op = "delete", !.key = k, !.force = f]
  <1>1. GsNew(c) BY DEF Gs!Idle, GsNew, GsFields, Gs!Object, Gs!Data, Gs!Meta
  <1>2. Gs!Call(t, c) BY DEF Gs!delete
  <1> HIDE DEF c
  <1> QED BY <1>1, <1>2, GsBeginInv

LEMMA GsLookupInv ==
  ASSUME GsInv, UNCHANGED config, NEW t \in Thread, NEW k \in Gs!Key, Gs!lookup(t, k)
  PROVE  GsInv'
  <1> DEFINE c == [Gs!Idle EXCEPT !.op = "lookup", !.key = k]
  <1>1. GsNew(c) BY DEF Gs!Idle, GsNew, GsFields, Gs!Object, Gs!Data, Gs!Meta
  <1>2. Gs!Call(t, c) BY DEF Gs!lookup
  <1> HIDE DEF c
  <1> QED BY <1>1, <1>2, GsBeginInv

LEMMA GsOpenReadInv ==
  ASSUME GsInv, UNCHANGED config, NEW t \in Thread, NEW k \in Gs!Key, Gs!perform_read(t, k)
  PROVE  GsInv'
  <1> DEFINE c == [Gs!Idle EXCEPT !.op = "read", !.key = k]
  <1>1. GsNew(c) BY DEF Gs!Idle, GsNew, GsFields, Gs!Object, Gs!Data, Gs!Meta
  <1>2. Gs!Call(t, c) BY DEF Gs!perform_read
  <1> HIDE DEF c
  <1> QED BY <1>1, <1>2, GsBeginInv

LEMMA GsOpenWriteInv ==
  ASSUME GsInv, UNCHANGED config, NEW t \in Thread, NEW k \in Gs!Key, NEW d \in Gs!Data \cup {Part}, NEW m \in Gs!Meta,
         Gs!perform_write(t, k, d, m)
  PROVE  GsInv'
  <1> DEFINE c == [Gs!Idle EXCEPT !.op = "write", !.key = k, !.new = [data |-> d, meta |-> m]]
  <1>1. GsNew(c) BY DEF Gs!Idle, GsNew, GsFields, Gs!Object, Gs!Data, Gs!Meta
  <1>2. Gs!Call(t, c) BY DEF Gs!perform_write
  <1> HIDE DEF c
  <1> QED BY <1>1, <1>2, GsBeginInv

LEMMA GsUpdateMetaInv ==
  ASSUME GsInv, UNCHANGED config, NEW t \in Thread, NEW k \in Gs!Key, NEW m \in Gs!Meta, Gs!update_meta(t, k, m)
  PROVE  GsInv'
  <1> DEFINE c == [Gs!Idle EXCEPT !.op = "update_meta", !.key = k, !.new = m]
  <1>1. GsNew(c) BY DEF Gs!Idle, GsNew, GsFields, Gs!Object, Gs!Data, Gs!Meta
  <1>2. Gs!Call(t, c) BY DEF Gs!update_meta
  <1> HIDE DEF c
  <1> QED BY <1>1, <1>2, GsBeginInv

LEMMA GsCopyInv ==
  ASSUME GsInv, UNCHANGED config, NEW t \in Thread, NEW k \in Gs!Key, NEW to \in Gs!Key \ {k}, NEW m \in Gs!Meta \cup {None},
         Gs!copy(t, k, to, m)
  PROVE  GsInv'
  <1> DEFINE c == [Gs!Idle EXCEPT !.op = "copy", !.key = k, !.to = to, !.new = m]
  <1>1. GsNew(c) BY DEF Gs!Idle, GsNew, GsFields, Gs!Object, Gs!Data, Gs!Meta
  <1>2. Gs!Call(t, c) BY DEF Gs!copy
  <1> HIDE DEF c
  <1> QED BY <1>1, <1>2, GsBeginInv

LEMMA GsNextInv ==
  ASSUME GsInv, UNCHANGED config, Gs!Next PROVE GsInv'
  <1>1. CASE Gs!Expire
    <2>1. UNCHANGED <<objects, call>> BY <1>1 DEF Gs!Expire
    <2> QED
      BY <2>1 DEF GsInv, GsObjects, GsValue, GsGood, GsWith, Gs!Key, Gs!Object, Gs!Data, Gs!Meta
  <1>2. ASSUME NEW t \in Thread, Gs!Work(t) PROVE GsInv'
    BY <1>2, GsTokenInv, GsMissingInv, GsSuccessInv, GsTempInv, GsGetInv, GsReadAllInv, GsUploadInv
       DEF Gs!Work
  <1>3. ASSUME NEW t \in Thread, Gs!Call_(t) PROVE GsInv'
    BY <1>3, GsDeleteInv, GsLookupInv, GsOpenReadInv, GsOpenWriteInv, GsUpdateMetaInv, GsCopyInv
       DEF Gs!Call_
  <1> QED BY <1>1, <1>2, <1>3 DEF Gs!Next

-----------------------------------------------------------------------------
(***************************************************************************)
(* The clients, one of which runs.                                         *)
(***************************************************************************)
ClientsInv ==
    \/ part = "s3" /\ S3Inv
    \/ part = "b2" /\ B2Inv
    \/ part = "gs" /\ GsInv
    \/ part = "swift" /\ SwiftInv

LEMMA ClientsInit == Init => ClientsInv
  BY S3InitInv, B2InitInv, GsInitInv, SwiftInitInv DEF Init, ClientsInv, SwiftInv

\* Nothing changes.
LEMMA S3StutterInv == ASSUME S3Inv, UNCHANGED vars PROVE S3Inv'
  BY DEF vars, S3Inv, S3!ReadExact, S3!WriteExact, S3!DeleteExact, S3!CopyExact, S3!Returned

LEMMA B2StutterInv == ASSUME B2Inv, UNCHANGED vars PROVE B2Inv'
  <1>1. B2Types' /\ B2Deleting' /\ B2Newest' /\ B2Urls'
    BY DEF vars, B2Inv, B2Types, B2Deleting, B2Newest, B2Urls, B2!DisableVersions, B2!Kinds, B2!Exists,
           B2!Newest
  <1> QED
    BY <1>1 DEF vars, B2Inv, B2!WriteExact, B2!DeleteExact, B2!Returned, B2!Newest, B2!DisableVersions,
           B2!Kinds

LEMMA GsStutterInv == ASSUME GsInv, UNCHANGED vars PROVE GsInv'
  BY DEF vars, GsInv, GsObjects, GsValue, GsGood, GsWith, Gs!Key, Gs!Object, Gs!Data, Gs!Meta

LEMMA SwiftStutterInv == ASSUME SwiftInv, UNCHANGED vars PROVE SwiftInv'
  <1>1. SwiftTypes' BY DEF vars, SwiftInv, SwiftSound, SwiftSpoiled, SwiftTypes, SwiftCall
  <1>2. Swift!Goal' = Swift!Goal BY DEF vars, Swift!Goal
  <1>3. CASE SwiftSound
    <2>1. SwiftStages' BY <1>3 DEF vars, SwiftSound, SwiftStages, Swift!UsesTemp
    <2> QED
      BY <1>1, <1>2, <1>3, <2>1 DEF vars, SwiftInv, SwiftSound, Swift!OkMeansDone, Swift!MissingExact
  <1>4. CASE SwiftSpoiled
    BY <1>1, <1>4 DEF vars, SwiftInv, SwiftSpoiled, Swift!Raises, Swift!Written
  <1> QED BY <1>3, <1>4 DEF SwiftInv

LEMMA ClientsStep == ClientsInv /\ [Next]_vars => ClientsInv'
  <1> SUFFICES ASSUME ClientsInv, [Next]_vars PROVE ClientsInv' OBVIOUS
  <1>1. CASE S3Next BY <1>1, S3NextInv DEF S3Next, ClientsInv
  <1>2. CASE B2Next BY <1>2, B2NextInv DEF B2Next, ClientsInv
  <1>3. CASE GsNext BY <1>3, GsNextInv DEF GsNext, ClientsInv
  <1>4. CASE SwiftNext BY <1>4, SwiftNextInv DEF SwiftNext, ClientsInv
  <1>5. CASE UNCHANGED vars
    <2>1. part' = part BY <1>5 DEF vars
    <2> QED
      BY <1>5, <2>1, S3StutterInv, B2StutterInv, GsStutterInv, SwiftStutterInv DEF ClientsInv
  <1> QED BY <1>1, <1>2, <1>3, <1>4, <1>5 DEF Next

\* Whatever is lost, damaged or repeated, and however often.
THEOREM ClientsStaySound == Spec => []ClientsInv
  BY ClientsInit, ClientsStep, PTL DEF Spec

LEMMA GsExact ==
  ASSUME GsInv PROVE Gs!ReadExact /\ Gs!WriteExact /\ Gs!DeleteExact /\ Gs!InStep
  BY DEF GsInv, GsGood, GsWith, Gs!ReadExact, Gs!WriteExact, Gs!DeleteExact, Gs!InStep, Gs!Done

\* What a call of a remote backend returns is right: a read is what the object
\* was during the call, a write without an error stored all of it, a delete
\* that succeeds leaves nothing, a copy is what its source is (gs.py:333,
\* s3c.py:905, swift.py:407).
THEOREM AnswersStayExact == Spec => []AnswersExact
  <1>1. ClientsInv => AnswersExact
    BY GsExact DEF ClientsInv, AnswersExact, S3Inv, B2Inv, SwiftInv, SwiftSound, SwiftSpoiled,
       Swift!OkMeansDone, Swift!MissingExact
  <1> QED BY <1>1, ClientsStaySound, PTL

\* No request is sent while the last response is still to be read, whatever
\* failed before (s3c.py:838, gs.py:848).
THEOREM ConnectionsStayInStep == Spec => []InStep
  <1>1. S3Inv => S3!InStep BY DEF S3Inv, S3!InStep
  <1>2. ClientsInv => InStep BY <1>1, GsExact DEF ClientsInv, InStep
  <1> QED BY <1>2, ClientsStaySound, PTL

\* At every step of a call, and so wherever the process dies: every object of
\* Swift is as it was or as the call makes it, but for the object of a write
\* whose function failed or whose data was damaged (swift.py:600, s3c.py:905);
\* no older version of a Backblaze file shows, but for the file that is being
\* deleted, if versions are kept and no request is refused
\* (b2_backend.py:476); and no upload URL is lost, if no token expires and the
\* server neither limits nor refuses requests (b2_backend.py:292).
THEOREM CallsLeaveOrder == Spec => []LeftInOrder
  <1>1. SwiftInv => Swift!AllOrNothing
    <2>1. SwiftSound => Swift!AllOrNothing BY DEF SwiftSound, Swift!AllOrNothing
    <2>2. SwiftSpoiled => Swift!AllOrNothing
      BY DEF SwiftSpoiled, SwiftTypes, SwiftCall, SwiftObjects, Swift!AllOrNothing
    <2> QED BY <2>1, <2>2 DEF SwiftInv
  <1>2. B2Inv /\ ~config.DisableVersions /\ "refused" \notin config.Kinds => B2!NoResurrection
    BY DEF B2Inv, B2Newest, B2!NoResurrection, B2!Idle, B2!DisableVersions, B2!Kinds
  <1>3. B2Inv /\ config.Kinds \cap {"expired", "limited", "refused"} = {} => B2!UrlsAvailable
    BY DEF B2Inv, B2Urls, B2!UrlsAvailable, B2!Idle, B2!Kinds
  <1>4. ClientsInv => LeftInOrder BY <1>1, <1>2, <1>3 DEF ClientsInv, LeftInOrder
  <1> QED BY <1>4, ClientsStaySound, PTL
=============================================================================
