------------------------------ MODULE MCGitVerbs ------------------------------
(***************************************************************************)
(* Instances of GitVerbs: two verbs of up to two git calls; two edits of   *)
(* one file here, and commits of another clone that touch this file or     *)
(* another one.                                                            *)
(***************************************************************************)
EXTENDS GitVerbs, TLC

CONSTANTS k1, k2, e1, e2, o1, o2, m, f, g

Two == {k1, k2}
MyEdits == {e1, e2}
TheirEdits == {o1, o2}
FileNames == e1 :> f @@ e2 :> f @@ o1 :> f @@ o2 :> g @@ m :> f

ASSUME delivery!GitDeliveryAssumption
=============================================================================
