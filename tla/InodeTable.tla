---------------------------- MODULE InodeTable ----------------------------
(***************************************************************************)
(* What the inode cache promises its callers: a table of inode rows in     *)
(* which every change is seen by everybody from then on.                   *)
(***************************************************************************)
CONSTANTS Id, Value, NoRow

VARIABLE rows   \* id -> attributes, or NoRow

Init == rows = [i \in Id |-> NoRow]

Create(i, v) == rows[i] = NoRow /\ rows' = [rows EXCEPT ![i] = v]
Change(i, v) == rows[i] # NoRow /\ rows' = [rows EXCEPT ![i] = v]
Delete(i)    == rows[i] # NoRow /\ rows' = [rows EXCEPT ![i] = NoRow]

Next == \E i \in Id : Delete(i) \/ \E v \in Value : Create(i, v) \/ Change(i, v)

Spec == Init /\ [][Next]_rows
=============================================================================
