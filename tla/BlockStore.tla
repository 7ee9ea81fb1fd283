----------------------------- MODULE BlockStore -----------------------------
(***************************************************************************)
(* What the block cache promises to the file system: every block has a     *)
(* content and a saved content, which is what the metadata database        *)
(* records for it.  The content changes only where a request to write or   *)
(* to remove the block is served, and never behind the back of the users.  *)
(* Saving a block records its current content, never an older one;         *)
(* replicating a file shares the saved contents.  Caching, de-duplication, *)
(* uploads, eviction, downloads and the removal of objects do not show.    *)
(***************************************************************************)
CONSTANTS Task, Inode, BlockNo, Data, Zero

VARIABLES content, saved,
          req       \* the requests of each task that are still to be served

Block == Inode \X BlockNo

Init ==
    /\ content \in [Block -> Data]
    /\ saved = content
    /\ req = [t \in Task |-> {}]

AskWrite(t, b) ==
    /\ req[t] = {}
    /\ req' = [req EXCEPT ![t] = {<<"write", b>>}]
    /\ UNCHANGED <<content, saved>>

AskRemove(t, i, N) ==
    /\ req[t] = {}
    /\ req' = [req EXCEPT ![t] = {<<"remove", <<i, n>>>> : n \in N}]
    /\ UNCHANGED <<content, saved>>

Write(t, b, d) ==
    /\ <<"write", b>> \in req[t]
    /\ req' = [req EXCEPT ![t] = @ \ {<<"write", b>>}]
    /\ content' = [content EXCEPT ![b] = d]
    /\ UNCHANGED saved

Remove(t, b) ==
    /\ <<"remove", b>> \in req[t]
    /\ req' = [req EXCEPT ![t] = @ \ {<<"remove", b>>}]
    /\ content' = [content EXCEPT ![b] = Zero]
    /\ saved' = [saved EXCEPT ![b] = Zero]

Save(b) ==
    /\ saved' = [saved EXCEPT ![b] = content[b]]
    /\ UNCHANGED <<content, req>>

\* File j is new.
Replicate(i, j) ==
    /\ \A n \in BlockNo : content[<<j, n>>] = Zero /\ saved[<<j, n>>] = Zero
    /\ content' = [b \in Block |-> IF b[1] = j THEN saved[<<i, b[2]>>]
                                   ELSE content[b]]
    /\ saved' = [b \in Block |-> IF b[1] = j THEN saved[<<i, b[2]>>]
                                 ELSE saved[b]]
    /\ UNCHANGED req

Next ==
    \/ \E t \in Task, b \in Block :
          AskWrite(t, b) \/ Remove(t, b) \/ \E d \in Data : Write(t, b, d)
    \/ \E t \in Task, i \in Inode, N \in SUBSET BlockNo : AskRemove(t, i, N)
    \/ \E b \in Block : Save(b)
    \/ \E i, j \in Inode : Replicate(i, j)

Spec == Init /\ [][Next]_<<content, saved, req>>
=============================================================================
