------------------------------ MODULE AtomicPrd ------------------------------
(***************************************************************************)
(* What the prd verbs promise whoever dispatches them, however many run at *)
(* once: a dispatch that answers success took effect exactly once, on the  *)
(* rows as they were at that moment, and one that answers an error left    *)
(* .gm/prd.yml as it found it.  PrdStore, with its reads and its           *)
(* compare-and-swap retries, is shown to implement this.                   *)
(***************************************************************************)
EXTENDS PrdRows

VARIABLES rows, outcome

avars == <<rows, outcome>>

AInit == /\ rows \in InitialRows
         /\ outcome = [d \in Dispatches |-> "pending"]

Apply(d) ==
    /\ outcome[d] = "pending"
    /\ \E r \in Requests : /\ ~Unknown(r, rows)
                           /\ rows' = Modified(r, rows)
    /\ outcome' = [outcome EXCEPT ![d] = "applied"]

Refuse(d) ==
    /\ outcome[d] = "pending"
    /\ outcome' = [outcome EXCEPT ![d] = "refused"]
    /\ UNCHANGED rows

ANext == \E d \in Dispatches : Apply(d) \/ Refuse(d)

AtomicSpec == AInit /\ [][ANext]_avars
=============================================================================
