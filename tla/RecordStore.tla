---------------------------- MODULE RecordStore ----------------------------
(***************************************************************************)
(* What the node database promises its clients: every command changes one   *)
(* record at a time, and an update changes the parameter it names and       *)
(* leaves the others as they were.  The promise ends (trusted is FALSE)     *)
(* when a client dies while it holds the database lock.                     *)
(***************************************************************************)
CONSTANTS Keys, Recs, NoRec

VARIABLES store, trusted

vars == <<store, trusted>>

Fields == {"node", "iface"}

Init == store \in [Keys -> Recs] /\ trusted = TRUE

Create(k) == store[k] = NoRec /\ store'[k] \in Recs \ {NoRec}

Remove(k) == store[k] # NoRec /\ store'[k] = NoRec

Update(k) == /\ store[k] # NoRec /\ store'[k] # NoRec
             /\ \E f \in Fields : store'[k] = [store[k] EXCEPT ![f] = store'[k][f]]

Others(k) == \A j \in Keys \ {k} : store'[j] = store[j]

Forsake == trusted' = FALSE /\ store' \in [Keys -> Recs]

Next == \/ /\ trusted
           /\ store' \in [Keys -> Recs] /\ UNCHANGED trusted
           /\ \E k \in Keys : (Create(k) \/ Remove(k) \/ Update(k)) /\ Others(k)
        \/ Forsake

Spec == Init /\ [][Next]_vars
=============================================================================
