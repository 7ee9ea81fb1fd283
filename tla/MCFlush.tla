------------------------------ MODULE MCFlush -------------------------------
(***************************************************************************)
(* MCBlockCache with a history variable, for what flush and start_flush    *)
(* promise about the blocks of the moment they are called.                 *)
(***************************************************************************)
EXTENDS MCBlockCache

VARIABLE unchanged  \* per task: the blocks whose content nobody changed
                    \* since the task's operation was called

\* The blocks a step writes (the same content, even).
Written == {task[t].arg : t \in {u \in Task : /\ task[u].op = "write"
                                             /\ task'[u].op = None}}

\* Bookkeeping for flush and copy, the operations that promise something
\* about the blocks of the moment they were called.
Track ==
    unchanged' = [t \in Task |->
        IF task'[t].op \notin {"flush", "copy"} THEN {}
        ELSE IF task[t].pc = "idle" THEN Block
        ELSE {b \in unchanged[t] \ Written : Content(b)' = Content(b)}]

HInit == MCInit /\ unchanged = [t \in Task |-> {}]

HNext == MCNext /\ Track

HSpec == HInit /\ [][HNext]_<<mcvars, unchanged>>

-----------------------------------------------------------------------------
(***************************************************************************)
(* flush: when it returns, every block that was not changed meanwhile has  *)
(* its content in the backend (s3qlctrl flushcache, s3qlumount).  This     *)
(* does not hold: a block that is de-duplicated against an object which    *)
(* the CommitTask is still uploading does not make flush wait              *)
(* (block_cache.py:878).                                                   *)
(***************************************************************************)
FlushUploads ==
    [][\A t \in Task :
         task[t].op = "flush" /\ task'[t].pc = "idle" =>
            \A b \in unchanged[t] :
               /\ Content(b) = Saved(b)
               /\ inode_blocks[b] \in DOMAIN store \cup {None}]_<<mcvars, unchanged>>

(***************************************************************************)
(* start_flush: when it returns to copy_tree, every block of the inode     *)
(* that was not changed meanwhile is registered in the database, so the    *)
(* copy gets its content.                                                  *)
(***************************************************************************)
CopyIsCurrent ==
    [][\A t \in Task :
         task[t].op = "copy" /\ task'[t].pc = "idle" =>
            \A b \in unchanged[t] :
               b[1] = task[t].arg => Content(b) = Saved(b)]_<<mcvars, unchanged>>

-----------------------------------------------------------------------------
CommitFlush == [t \in Task |-> CASE t = t1 -> {"write"}
                                 [] t = t2 -> {"flush"}
                                 [] t = t3 -> {"commit"}]
=============================================================================
