-------------------------- MODULE RowStores_proofs --------------------------
(***************************************************************************)
(* The two row files, for every set of ids, of dispatches and of requests  *)
(* and every bound.                                                        *)
(*                                                                         *)
(* Mutables: "some unresolved id waits for nothing" is not inductive, as   *)
(* it speaks of one set of ids and a new row may depend on others.  The    *)
(* strengthening says the same of every set of ids, whatever the statuses; *)
(* the cycle check covers the sets that meet what the new row reaches.     *)
(*                                                                         *)
(* Work list: Losses counts the swaps a dispatch has lost by the others    *)
(* that have written, so that the last attempt cannot lose; Carried        *)
(* follows each comment from the request that brings it to its commit;     *)
(* Distinct and Vouched say what one dispatch after another has looked at. *)
(* Each action is first reduced to what it makes of one dispatch (Moved).  *)
(***************************************************************************)
EXTENDS RowStores, FiniteSetTheorems, TLAPS

\* Every id occurs once.
Unique == \A n, m \in DOMAIN muts : muts[n].id = muts[m].id => n = m

\* Every nonempty set of ids has a member that depends on no member.
Grounded ==
    \A S \in SUBSET Ids : S # {} =>
        \E i \in S : \A n \in RowsOf(i) : muts[n].depends_on \cap S = {}

IInv == TypeOK /\ Unique /\ Grounded

-----------------------------------------------------------------------------
LEMMA InitIInv == Init => IInv
<1> SUFFICES ASSUME Init PROVE IInv
  OBVIOUS
<1>1. DOMAIN muts = {} /\ muts \in Seq(Rows) BY DEF Init
<1>2. TypeOK BY <1>1 DEF Init, TypeOK
<1>3. \A i : RowsOf(i) = {} BY <1>1 DEF RowsOf
<1>4. Unique /\ Grounded BY <1>1, <1>3 DEF Unique, Grounded
<1> QED BY <1>2, <1>4 DEF IInv

LEMMA RowShape == TypeOK => \A n \in DOMAIN muts : muts[n] \in Rows
  BY DEF TypeOK

\* A step that keeps ids, dependencies and the length of the file keeps the
\* invariant about them.
LEMMA SameRows ==
    ASSUME IInv, muts' \in Seq(Rows), DOMAIN muts' = DOMAIN muts,
           \A n \in DOMAIN muts : /\ muts'[n].id = muts[n].id
                                  /\ muts'[n].depends_on = muts[n].depends_on
    PROVE  Unique' /\ Grounded'
<1>1. Unique' BY DEF IInv, Unique
<1>2. \A i : RowsOf(i)' = RowsOf(i) BY DEF RowsOf
<1>3. ASSUME NEW S \in SUBSET Ids, S # {}
      PROVE  \E i \in S : \A n \in RowsOf(i)' : muts'[n].depends_on \cap S = {}
  <2>1. PICK i \in S : \A n \in RowsOf(i) : muts[n].depends_on \cap S = {}
    BY <1>3 DEF IInv, Grounded
  <2>2. \A n \in RowsOf(i)' : n \in DOMAIN muts /\ muts'[n].depends_on = muts[n].depends_on
    BY <1>2 DEF RowsOf
  <2> QED BY <1>2, <2>1, <2>2
<1> QED BY <1>1, <1>3 DEF Grounded

LEMMA SameObligations ==
    ASSUME IInv, UNCHANGED <<muts, remembered>>, marker' \in BOOLEAN
    PROVE  IInv'
<1>1. muts' \in Seq(Rows) /\ remembered' \subseteq Ids BY DEF IInv, TypeOK
<1>2. TypeOK' BY <1>1 DEF TypeOK, Rows
<1>3. Unique' /\ Grounded' BY <1>1, SameRows
<1> QED BY <1>2, <1>3 DEF IInv

\* Rewriting some rows with rows of the same id and dependencies.
LEMMA Rewritten ==
    ASSUME NEW T \in SUBSET DOMAIN muts, NEW new \in [T -> Rows], IInv,
           \A n \in T : /\ new[n].id = muts[n].id
                        /\ new[n].depends_on = muts[n].depends_on,
           muts' = [n \in DOMAIN muts |-> IF n \in T THEN new[n] ELSE muts[n]]
    PROVE  muts' \in Seq(Rows) /\ Unique' /\ Grounded'
<1>1. muts \in Seq(Rows) BY DEF IInv, TypeOK
<1>2. DOMAIN muts = 1 .. Len(muts) /\ Len(muts) \in Nat BY <1>1
<1>3. \A n \in 1 .. Len(muts) : muts[n] \in Rows BY <1>1
<1>4. muts' \in [1 .. Len(muts) -> Rows] BY <1>2, <1>3
<1>5. muts' \in Seq(Rows) BY <1>2, <1>4
<1>6. DOMAIN muts' = DOMAIN muts BY <1>2, <1>4
<1>7. \A n \in DOMAIN muts : /\ muts'[n].id = muts[n].id
                             /\ muts'[n].depends_on = muts[n].depends_on
  OBVIOUS
<1> QED BY <1>5, <1>6, <1>7, SameRows

-----------------------------------------------------------------------------
\* The new row of a fresh id, accepted by the cycle check.
LEMMA FreshAddKeepsGrounded ==
    ASSUME IInv, NEW i \in Ids, NEW k \in Kinds \cup {None}, NEW D \in SUBSET Ids,
           i \notin Known, Add(i, k, D)
    PROVE  IInv'
<1> DEFINE row == [id |-> i, status |-> "unknown", deferred |-> FALSE,
                   kind |-> k, depends_on |-> D]
           deps == Dependencies(i, D)
<1>1. muts \in Seq(Rows) /\ Len(muts) \in Nat /\ DOMAIN muts = 1 .. Len(muts)
  BY DEF IInv, TypeOK
<1>2. row \in Rows BY DEF Rows
<1>3. muts' = Append(muts, row) BY DEF Add
<1>4. /\ muts' \in Seq(Rows)
      /\ DOMAIN muts' = 1 .. Len(muts) + 1
      /\ \A n \in 1 .. Len(muts) : muts'[n] = muts[n]
      /\ muts'[Len(muts) + 1] = row
  BY <1>1, <1>2, <1>3
<1>5. TypeOK'
  BY <1>4 DEF TypeOK, Add, IInv
<1>6. \A n \in 1 .. Len(muts) : muts[n].id # i
  BY <1>1 DEF Known
<1>7. Unique'
  BY <1>1, <1>4, <1>6 DEF IInv, Unique
<1>8. RowsOf(i)' = {Len(muts) + 1}
  BY <1>1, <1>4, <1>6 DEF RowsOf
<1>9. \A j \in Ids \ {i} : RowsOf(j)' = RowsOf(j)
  BY <1>1, <1>4 DEF RowsOf
<1>10. \A j \in Ids : \A S \in SUBSET Ids :
          deps[j] \cap S = {} => \A n \in RowsOf(j)' : muts'[n].depends_on \cap S = {}
  <2> SUFFICES ASSUME NEW j \in Ids, NEW S \in SUBSET Ids, deps[j] \cap S = {},
                      NEW n \in RowsOf(j)'
               PROVE  muts'[n].depends_on \cap S = {}
    OBVIOUS
  <2>1. CASE j = i
    <3>1. deps[i] = D BY DEF Dependencies
    <3> QED BY <2>1, <3>1, <1>8, <1>4
  <2>2. CASE j # i
    <3>1. n \in RowsOf(j) /\ n \in 1 .. Len(muts) BY <2>2, <1>9, <1>1 DEF RowsOf
    <3>2. \A m \in RowsOf(j) : m = n
      BY <3>1 DEF RowsOf, IInv, Unique
    <3>3. \A l \in RowsOf(j) : l <= n BY <3>1, <3>2
    <3>4. n \in {m \in RowsOf(j) : \A l \in RowsOf(j) : l <= m} BY <3>1, <3>3
    <3>5. deps[j] = UNION {muts[m].depends_on :
                             m \in {x \in RowsOf(j) : \A l \in RowsOf(j) : l <= x}}
      BY <2>2 DEF Dependencies
    <3>6. muts[n].depends_on \subseteq deps[j] BY <3>4, <3>5
    <3> QED BY <3>1, <3>6, <1>4
  <2> QED BY <2>1, <2>2
<1>11. \A j \in Ids \ {i} : \A n \in RowsOf(j)' : n \in RowsOf(j) /\ muts'[n] = muts[n]
  BY <1>9, <1>4, <1>1 DEF RowsOf
<1>12. deps \in [Ids -> SUBSET Ids]
  <2>1. \A n \in 1 .. Len(muts) : muts[n].depends_on \in SUBSET Ids
    BY <1>1, RowShape DEF Rows, IInv
  <2> QED BY <2>1, <1>1 DEF Dependencies, RowsOf
<1>13. Grounded'
  <2> SUFFICES ASSUME NEW S \in SUBSET Ids, S # {}
               PROVE  \E j \in S : \A n \in RowsOf(j)' : muts'[n].depends_on \cap S = {}
    BY DEF Grounded
  <2>1. CASE i \notin S
    <3>1. PICK j \in S : \A n \in RowsOf(j) : muts[n].depends_on \cap S = {}
      BY DEF IInv, Grounded
    <3> QED BY <2>1, <3>1, <1>11
  <2>2. CASE i \in S /\ D = {}
    <3>1. deps[i] \cap S = {} BY <2>2 DEF Dependencies
    <3> QED BY <2>2, <3>1, <1>10
  <2>3. CASE i \in S /\ D # {}
    <3> DEFINE R == Reachable(i, deps)
               T == S \cap R
    <3>1. ~FindCycle(i, deps) BY <2>3 DEF Add, Acceptable
    <3>2. i \in R BY DEF Reachable
    <3>3. T # {} /\ T \in SUBSET R BY <2>3, <3>2
    <3>4. PICK j \in T : deps[j] \cap T = {} BY <3>1, <3>3 DEF FindCycle
    <3>5. deps[j] \subseteq R
      <4>1. SUFFICES ASSUME NEW x \in deps[j], NEW U \in SUBSET Ids, i \in U, Closed(U, deps)
                     PROVE  x \in U
        BY <1>12 DEF Reachable
      <4>2. j \in U BY <4>1 DEF Reachable
      <4> QED BY <4>1, <4>2 DEF Closed
    <3>6. deps[j] \cap S = {} BY <3>4, <3>5
    <3> QED BY <3>4, <3>6, <1>10
  <2> QED BY <2>1, <2>2, <2>3
<1> QED BY <1>5, <1>7, <1>13 DEF IInv

LEMMA ResolveKeepsIInv ==
    ASSUME IInv, NEW i \in Ids, NEW x \in BOOLEAN, Resolve(i, x)
    PROVE  IInv'
<1> DEFINE new == [n \in RowsOf(i) |-> [muts[n] EXCEPT !.status = "witnessed"]]
<1>1. RowsOf(i) \in SUBSET DOMAIN muts BY DEF RowsOf
<1>2. \A n \in DOMAIN muts : muts[n] \in Rows BY RowShape DEF IInv
<1>3. \A n \in RowsOf(i) : /\ new[n] \in Rows
                           /\ new[n].id = muts[n].id
                           /\ new[n].depends_on = muts[n].depends_on
  BY <1>1, <1>2 DEF Rows
<1>4. muts' = [n \in DOMAIN muts |-> IF n \in RowsOf(i) THEN new[n] ELSE muts[n]]
  BY DEF Resolve
<1>7. new \in [RowsOf(i) -> Rows] BY <1>3
<1>5. muts' \in Seq(Rows) /\ Unique' /\ Grounded'
  <2> HIDE DEF new
  <2> QED BY <1>1, <1>3, <1>4, <1>7, Rewritten
<1>6. marker' \in BOOLEAN /\ remembered' \subseteq Ids BY DEF Resolve, IInv, TypeOK
<1> QED BY <1>5, <1>6 DEF IInv, TypeOK

LEMMA DeferKeepsIInv ==
    ASSUME IInv, NEW i \in Ids, Defer(i)
    PROVE  IInv'
<1> DEFINE new == [n \in RowsOf(i) |-> [muts[n] EXCEPT !.deferred = TRUE]]
<1>1. RowsOf(i) \in SUBSET DOMAIN muts BY DEF RowsOf
<1>2. \A n \in DOMAIN muts : muts[n] \in Rows BY RowShape DEF IInv
<1>3. \A n \in RowsOf(i) : /\ new[n] \in Rows
                           /\ new[n].id = muts[n].id
                           /\ new[n].depends_on = muts[n].depends_on
  BY <1>1, <1>2 DEF Rows
<1>4. muts' = [n \in DOMAIN muts |-> IF n \in RowsOf(i) THEN new[n] ELSE muts[n]]
  BY DEF Defer
<1>7. new \in [RowsOf(i) -> Rows] BY <1>3
<1>5. muts' \in Seq(Rows) /\ Unique' /\ Grounded'
  <2> HIDE DEF new
  <2> QED BY <1>1, <1>3, <1>4, <1>7, Rewritten
<1>6. marker' \in BOOLEAN /\ remembered' \subseteq Ids BY DEF Defer, IInv, TypeOK
<1> QED BY <1>5, <1>6 DEF IInv, TypeOK

LEMMA StepKeepsIInv == IInv /\ [FreshNext]_vars => IInv'
<1> SUFFICES ASSUME IInv, [FreshNext]_vars PROVE IInv'
  OBVIOUS
<1>1. ASSUME NEW i \in Ids, i \notin Known, AddAny(i) PROVE IInv'
  BY <1>1, FreshAddKeepsGrounded DEF AddAny
<1>2. ASSUME NEW i \in Ids, Change(i) PROVE IInv'
  BY <1>2, ResolveKeepsIInv, DeferKeepsIInv DEF Change
<1>3. ASSUME UNCHANGED muts, marker' \in BOOLEAN, remembered' \subseteq Ids PROVE IInv'
  <2>1. TypeOK' BY <1>3 DEF IInv, TypeOK
  <2>2. Unique' /\ Grounded' BY <1>3, SameRows DEF IInv, TypeOK
  <2> QED BY <2>1, <2>2 DEF IInv
<1>4. CASE ScanFires
  BY <1>3, <1>4 DEF ScanFires, IInv, TypeOK
<1>5. CASE UNCHANGED vars
  BY <1>3, <1>5 DEF vars, IInv, TypeOK
<1> QED BY <1>1, <1>2, <1>4, <1>5 DEF FreshNext

\* Among the unresolved ids some one depends on none of them.
LEMMA IInvImpliesNoCircularWait == IInv => NoCircularWait
<1> SUFFICES ASSUME IInv, UnresolvedIds # {}
             PROVE  \E i \in UnresolvedIds : \A n \in RowsOf(i) : Blockers(n) = {}
  BY DEF NoCircularWait
<1>1. \A n \in DOMAIN muts : muts[n].id \in Ids BY RowShape DEF IInv, Rows
<1>2. UnresolvedIds \in SUBSET Ids BY <1>1 DEF UnresolvedIds
<1>3. PICK i \in UnresolvedIds :
         \A n \in RowsOf(i) : muts[n].depends_on \cap UnresolvedIds = {}
  BY <1>2 DEF IInv, Grounded
<1> QED BY <1>3 DEF Blockers

-----------------------------------------------------------------------------

LEMMA GateVouches == IInv => ReadyMeansWitnessable
<1> SUFFICES ASSUME IInv, NEW kinds \in {ProveKinds, StateKinds}, ObligationsReady(kinds),
                    NEW n \in Pending, InScope(n, kinds),
                    NEW i \in Blockers(n), NEW m \in RowsOf(i), muts[m].status = "unknown",
                    ~muts[m].deferred
             PROVE  FALSE
  BY DEF ReadyMeansWitnessable
<1>1. i \in muts[n].depends_on BY DEF Blockers
<1>2. i \in PendingIds
  BY DEF PendingIds, Pending, RowsOf
<1>3. n \in ObligationBlockers(kinds) BY <1>1, <1>2 DEF ObligationBlockers
<1> QED BY <1>3 DEF ObligationsReady

-----------------------------------------------------------------------------
(* The work list: what each verb makes of the rows *)

LEMMA PrdShape ==
    \A rows : rows \in work!Prds <=>
        DOMAIN rows \in SUBSET PrdIds /\ rows \in [DOMAIN rows -> work!Rows]
  BY DEF work!Prds

LEMMA RowFields ==
    ASSUME NEW row \in work!Rows
    PROVE  /\ row.status \in {"open", "closed"} /\ row.external \in BOOLEAN
           /\ row.witness \in Witnesses \cup {None} /\ row.comment \in Comments \cup {None}
  BY DEF work!Rows

LEMMA RequestFields ==
    ASSUME RowStoresAssumption, NEW r \in Requests
    PROVE  /\ r \in work!RequestType
           /\ r.verb \in {"add", "defer", "resolve", "commit", "scan"} /\ r.id \in PrdIds
           /\ r.status \in {"open", "closed"} /\ r.external \in BOOLEAN
           /\ r.witness \in Witnesses \cup {None} /\ r.comment \in Comments \cup {None}
<1>1. r \in work!RequestType BY DEF RowStoresAssumption, work!RowsAssumption
<1> QED BY <1>1 DEF work!RequestType

LEMMA AddedShape ==
    ASSUME RowStoresAssumption, NEW r \in Requests, NEW rows \in work!Prds
    PROVE  LET new == work!Added(r, rows)
           IN /\ new \in work!Prds
              /\ DOMAIN new = DOMAIN rows \cup {r.id}
              /\ \A i \in DOMAIN rows \ {r.id} : new[i] = rows[i]
              /\ new[r.id].witness = None /\ new[r.id].comment = None
<1> DEFINE new == work!Added(r, rows)
           row == [status |-> r.status, external |-> r.external, witness |-> None,
                   comment |-> None]
<1>1. row \in work!Rows BY RequestFields DEF work!Rows
<1>2. row.witness = None /\ row.comment = None OBVIOUS
<1>3. DOMAIN rows \in SUBSET PrdIds /\ \A i \in DOMAIN rows : rows[i] \in work!Rows
  BY PrdShape
<1>4. r.id \in PrdIds BY RequestFields
<1>5. new = [i \in DOMAIN rows \cup {r.id} |-> IF i = r.id THEN row ELSE rows[i]]
  BY Zenon DEF work!Added
<1> HIDE DEF row, new
<1>6. DOMAIN new = DOMAIN rows \cup {r.id} /\ new \in [DOMAIN new -> work!Rows]
  BY <1>1, <1>3, <1>5
<1>7. new[r.id] = row /\ \A i \in DOMAIN rows \ {r.id} : new[i] = rows[i]
  BY <1>5
<1>8. new \in work!Prds BY <1>3, <1>4, <1>6, PrdShape
<1> QED BY <1>2, <1>6, <1>7, <1>8 DEF new

LEMMA DeferredShape ==
    ASSUME RowStoresAssumption, NEW r \in Requests, NEW rows \in work!Prds, r.id \in DOMAIN rows
    PROVE  LET new == work!Deferred(r, rows)
           IN /\ new \in work!Prds
              /\ DOMAIN new = DOMAIN rows
              /\ \A i \in DOMAIN rows : /\ new[i].status = rows[i].status
                                        /\ new[i].witness = rows[i].witness
                                        /\ new[i].comment = rows[i].comment
<1> DEFINE new == work!Deferred(r, rows)
           row == [rows[r.id] EXCEPT !.external = TRUE]
<1>1. DOMAIN rows \in SUBSET PrdIds /\ \A i \in DOMAIN rows : rows[i] \in work!Rows
  BY PrdShape
<1>2. /\ row \in work!Rows /\ row.status = rows[r.id].status
      /\ row.witness = rows[r.id].witness /\ row.comment = rows[r.id].comment
  BY <1>1 DEF work!Rows
<1>3. new = [rows EXCEPT ![r.id] = row] BY DEF work!Deferred
<1> HIDE DEF row, new
<1>4. /\ DOMAIN new = DOMAIN rows /\ new[r.id] = row
      /\ \A i \in DOMAIN rows \ {r.id} : new[i] = rows[i]
  BY <1>3
<1>5. new \in [DOMAIN new -> work!Rows]
  BY <1>1, <1>2, <1>3
<1>6. new \in work!Prds BY <1>1, <1>4, <1>5, PrdShape
<1> QED BY <1>2, <1>4, <1>6 DEF new

LEMMA ResolvedShape ==
    ASSUME RowStoresAssumption, NEW r \in Requests, NEW rows \in work!Prds, r.id \in DOMAIN rows
    PROVE  LET new == work!Resolved(r, rows)
           IN /\ new \in work!Prds
              /\ DOMAIN new = DOMAIN rows
              /\ \A i \in DOMAIN rows \ {r.id} : new[i] = rows[i]
              /\ new[r.id].status = "closed" /\ new[r.id].witness = r.witness
              /\ new[r.id].comment = IF r.comment = None THEN rows[r.id].comment ELSE r.comment
<1> DEFINE new == work!Resolved(r, rows)
           comment == IF r.comment = None THEN rows[r.id].comment ELSE r.comment
           row == [rows[r.id] EXCEPT !.status = "closed", !.witness = r.witness,
                                     !.comment = comment]
<1>1. DOMAIN rows \in SUBSET PrdIds /\ \A i \in DOMAIN rows : rows[i] \in work!Rows
  BY PrdShape
<1>2. comment \in Comments \cup {None} /\ r.witness \in Witnesses \cup {None}
  BY <1>1, RequestFields, RowFields
<1>3. new = [rows EXCEPT ![r.id] = row] BY <1>1 DEF work!Resolved, work!Rows
<1> HIDE DEF comment
<1>4. /\ row \in work!Rows /\ row.status = "closed" /\ row.witness = r.witness
      /\ row.comment = comment
  <2> DEFINE old == rows[r.id]
  <2>1. old \in work!Rows BY <1>1
  <2> HIDE DEF old
  <2>2. row = [old EXCEPT !.status = "closed", !.witness = r.witness, !.comment = comment]
    BY Zenon DEF row, old
  <2> HIDE DEF row
  <2> QED BY <1>2, <2>1, <2>2 DEF work!Rows
<1> HIDE DEF row, new
<1>5. /\ DOMAIN new = DOMAIN rows /\ new[r.id] = row
      /\ \A i \in DOMAIN rows \ {r.id} : new[i] = rows[i]
  BY <1>3
<1>6. new \in [DOMAIN new -> work!Rows]
  BY <1>1, <1>3, <1>4
<1>7. new \in work!Prds BY <1>1, <1>5, <1>6, PrdShape
<1> QED BY <1>4, <1>5, <1>7 DEF new, comment

LEMMA DrainedShape ==
    ASSUME NEW rows \in work!Prds
    PROVE  LET new == work!Drained(rows)
           IN /\ new \in work!Prds
              /\ DOMAIN new = {i \in DOMAIN rows : rows[i].status = "open"}
              /\ \A i \in DOMAIN new : new[i] = rows[i]
<1> DEFINE new == work!Drained(rows)
           open == {i \in DOMAIN rows : rows[i].status = "open"}
<1>1. DOMAIN rows \in SUBSET PrdIds /\ \A i \in DOMAIN rows : rows[i] \in work!Rows
  BY PrdShape
<1>2. new = [i \in open |-> rows[i]] BY DEF work!Drained
<1>3. open \in SUBSET DOMAIN rows OBVIOUS
<1> HIDE DEF new, open
<1>4. DOMAIN new = open /\ new \in [DOMAIN new -> work!Rows] /\ \A i \in DOMAIN new : new[i] = rows[i]
  BY <1>1, <1>2, <1>3
<1>5. new \in work!Prds BY <1>1, <1>3, <1>4, PrdShape
<1> QED BY <1>4, <1>5 DEF new, open

LEMMA ModifiedIs ==
    ASSUME RowStoresAssumption, NEW r \in Requests, NEW rows
    PROVE  /\ r.verb = "add" => work!Modified(r, rows) = work!Added(r, rows)
           /\ r.verb = "defer" => work!Modified(r, rows) = work!Deferred(r, rows)
           /\ r.verb = "resolve" => work!Modified(r, rows) = work!Resolved(r, rows)
           /\ r.verb = "commit" => work!Modified(r, rows) = work!Drained(rows)
           /\ r.verb = "scan" => work!Modified(r, rows) = rows
  BY DEF work!Modified

LEMMA ModifiedTyped ==
    ASSUME RowStoresAssumption, NEW r \in Requests, NEW rows \in work!Prds,
           ~work!Unknown(r, rows)
    PROVE  work!Modified(r, rows) \in work!Prds
<1>1. r.verb \in {"defer", "resolve"} => r.id \in DOMAIN rows BY DEF work!Unknown
<1>2. CASE r.verb = "add" BY <1>2, ModifiedIs, AddedShape
<1>3. CASE r.verb = "defer" BY <1>1, <1>3, ModifiedIs, DeferredShape
<1>4. CASE r.verb = "resolve" BY <1>1, <1>4, ModifiedIs, ResolvedShape
<1>5. CASE r.verb = "commit" BY <1>5, ModifiedIs, DrainedShape
<1>6. CASE r.verb = "scan" BY <1>6, ModifiedIs
<1> QED BY <1>2, <1>3, <1>4, <1>5, <1>6, RequestFields

-----------------------------------------------------------------------------
(* The work list: what a dispatch is doing *)

Pcs == {"idle", "check", "read", "swap", "invalidate", "commit", "scan", "mark"}
           \cup work!Finished

JobType ==
    [pc : Pcs, req : Requests \cup {None}, before : work!Prds,
     attempt : 0 .. setting.attempts, drained : SUBSET Comments, replay : BOOLEAN]

\* What a dispatch holds at each of its steps.
Sound(j) ==
    /\ j.pc = "idle" => j = work!Idle
    /\ j.pc # "idle" => j.req \in setting.requests
    /\ j.replay => setting.parks /\ j.req.verb = "commit" /\ j.pc \in {"read", "swap"}
    /\ j.pc = "read" => j.attempt < setting.attempts
    /\ j.pc = "check" => j.req.verb = "resolve" /\ j.attempt = 0
    /\ j.pc \in {"scan", "mark"} => j.req.verb = "scan"
    /\ j.pc = "commit" => j.req.verb = "commit" /\ j.attempt = 0
    /\ j.pc = "invalidate" => j.req.verb \in {"add", "defer"}
    /\ j.pc = "swap" =>
           /\ ~work!Unknown(j.req, j.before)
           /\ j.drained = IF j.req.verb = "commit" THEN work!DrainedComments(j.before) ELSE {}
    /\ j.pc \in work!Finished => j.drained = {}

PrdTyped ==
    /\ setting \in Settings /\ prd \in work!Prds /\ marker \in BOOLEAN
    /\ attached \subseteq Comments /\ delivered \in [Comments -> Nat]
    /\ job \in [Dispatches -> JobType]
    /\ \A d \in Dispatches : Sound(job[d])

LEMMA HostShape ==
    ASSUME RowStoresAssumption, setting \in Settings
    PROVE  /\ setting.requests \subseteq Requests /\ setting.dispatches \in Nat
           /\ setting.attempts \in Nat \ {0} /\ setting.faulty \in BOOLEAN
           /\ setting.parks \in BOOLEAN /\ setting.sequential \in BOOLEAN
  BY DEF RowStoresAssumption, work!SettingsAssumption, work!SettingType

LEMMA NothingYet ==
    ASSUME RowStoresAssumption, setting \in Settings
    PROVE  work!Idle \in JobType /\ Sound(work!Idle) /\ work!NoRows \in work!Prds
<1>1. work!NoRows \in work!Prds
  <2>1. work!NoRows = [i \in {} |-> None] BY DEF work!NoRows
  <2>2. DOMAIN work!NoRows = {} /\ work!NoRows \in [{} -> work!Rows] BY <2>1
  <2> QED BY <2>2, PrdShape
<1>2. work!Idle \in JobType
  BY <1>1, HostShape DEF work!Idle, JobType, Pcs
<1> QED BY <1>1, <1>2 DEF Sound, work!Idle, work!Finished

\* The answer of a dispatch, and what is left of it then.
Answered(j, outcome) == [work!Idle EXCEPT !.pc = outcome, !.req = j.req]

LEMMA AnswerShape ==
    ASSUME RowStoresAssumption, setting \in Settings, NEW j, j.req \in setting.requests,
           NEW outcome \in work!Finished
    PROVE  /\ Answered(j, outcome) \in JobType /\ Sound(Answered(j, outcome))
           /\ Answered(j, outcome).pc = outcome /\ Answered(j, outcome).req = j.req
           /\ ~Answered(j, outcome).replay
<1>1. /\ work!Idle \in JobType /\ ~work!Idle.replay /\ work!Idle.drained = {}
      /\ j.req \in Requests /\ outcome \in Pcs
      /\ outcome \notin {"idle", "check", "read", "swap", "invalidate", "commit", "scan", "mark"}
  BY NothingYet, HostShape DEF Pcs, work!Idle, work!Finished
<1>2. Answered(j, outcome) \in JobType BY <1>1 DEF Answered, JobType
<1>3. /\ Answered(j, outcome).pc = outcome /\ Answered(j, outcome).req = j.req
      /\ ~Answered(j, outcome).replay /\ Answered(j, outcome).drained = {}
  BY <1>1 DEF Answered, JobType
<1> QED BY <1>1, <1>2, <1>3 DEF Sound

\* What a dispatch does once its write has returned.
Returned(j, ok) ==
    CASE j.req.verb = "commit" /\ ~j.replay ->
            [j EXCEPT !.pc = "commit", !.before = work!NoRows, !.attempt = 0]
      [] j.req.verb = "commit" /\ j.replay  -> Answered(j, "applied")
      [] j.req.verb \in {"add", "defer"} /\ ok ->
            [j EXCEPT !.pc = "invalidate", !.before = work!NoRows, !.attempt = 0]
      [] OTHER -> Answered(j, IF ok THEN "applied" ELSE "refused")

LEMMA AfterWriteIs ==
    ASSUME NEW d \in Dispatches, NEW ok \in BOOLEAN, job \in [Dispatches -> JobType],
           work!AfterWrite(d, ok)
    PROVE  job' = [job EXCEPT ![d] = Returned(job[d], ok)]
<1> DEFINE j == job[d]
<1>1. CASE j.req.verb = "commit" /\ ~j.replay
  BY <1>1 DEF work!AfterWrite, Returned
<1>2. CASE j.req.verb = "commit" /\ j.replay
  BY <1>2 DEF work!AfterWrite, Returned, work!Answer, Answered
<1>3. CASE j.req.verb # "commit" /\ j.req.verb \in {"add", "defer"} /\ ok
  BY <1>3 DEF work!AfterWrite, Returned
<1>4. CASE j.req.verb # "commit" /\ ~(j.req.verb \in {"add", "defer"} /\ ok)
  BY <1>4 DEF work!AfterWrite, Returned, work!Answer, Answered
<1> QED BY <1>1, <1>2, <1>3, <1>4

LEMMA ReturnedShape ==
    ASSUME RowStoresAssumption, setting \in Settings, NEW j \in JobType, Sound(j),
           j.pc = "swap", NEW ok \in BOOLEAN
    PROVE  /\ Returned(j, ok) \in JobType /\ Sound(Returned(j, ok))
           /\ Returned(j, ok).req = j.req /\ ~Returned(j, ok).replay
           /\ Returned(j, ok).pc \in {"commit", "invalidate"} \cup work!Finished
           /\ Returned(j, ok).pc = "commit" => Returned(j, ok).drained = j.drained
           /\ ok => Returned(j, ok).pc # "refused"
           /\ j.req.verb = "commit" /\ ~j.replay => Returned(j, ok).pc = "commit"
           /\ j.req.verb # "commit" /\ ~ok => Returned(j, ok).pc = "refused"
           /\ j.req.verb \in {"add", "defer"} /\ ok => Returned(j, ok).pc = "invalidate"
           /\ j.req.verb \in {"resolve", "scan"} /\ ok => Returned(j, ok).pc = "applied"
<1>0. /\ work!NoRows \in work!Prds /\ j.req \in setting.requests
      /\ {"commit", "invalidate"} \subseteq Pcs /\ 0 \in 0 .. setting.attempts
      /\ j.req.verb \in {"add", "defer", "resolve", "commit", "scan"}
  BY NothingYet, HostShape, RequestFields DEF Sound, Pcs
<1>1. CASE j.req.verb = "commit" /\ ~j.replay
  <2>1. Returned(j, ok) = [j EXCEPT !.pc = "commit", !.before = work!NoRows, !.attempt = 0]
    BY <1>1 DEF Returned
  <2>2. Returned(j, ok) \in JobType BY <1>0, <2>1 DEF JobType
  <2>3. /\ Returned(j, ok).pc = "commit" /\ Returned(j, ok).req = j.req
        /\ Returned(j, ok).attempt = 0 /\ Returned(j, ok).replay = j.replay
        /\ Returned(j, ok).drained = j.drained
    BY <2>1 DEF JobType
  <2> QED BY <1>0, <1>1, <2>2, <2>3 DEF Sound, work!Finished
<1>2. CASE j.req.verb = "commit" /\ j.replay
  <2>1. Returned(j, ok) = Answered(j, "applied") BY <1>2 DEF Returned
  <2> QED BY <1>0, <1>2, <2>1, AnswerShape DEF work!Finished
<1>3. CASE j.req.verb # "commit" /\ j.req.verb \in {"add", "defer"} /\ ok
  <2>1. Returned(j, ok) = [j EXCEPT !.pc = "invalidate", !.before = work!NoRows, !.attempt = 0]
    BY <1>3 DEF Returned
  <2>2. Returned(j, ok) \in JobType BY <1>0, <2>1 DEF JobType
  <2>3. /\ Returned(j, ok).pc = "invalidate" /\ Returned(j, ok).req = j.req
        /\ Returned(j, ok).attempt = 0 /\ Returned(j, ok).replay = j.replay
    BY <2>1 DEF JobType
  <2>4. ~j.replay BY <1>3 DEF Sound
  <2> QED BY <1>0, <1>3, <2>2, <2>3, <2>4 DEF Sound, work!Finished
<1>4. CASE j.req.verb # "commit" /\ ~(j.req.verb \in {"add", "defer"} /\ ok)
  <2>1. Returned(j, ok) = Answered(j, IF ok THEN "applied" ELSE "refused")
    BY <1>4 DEF Returned
  <2>2. CASE ok BY <1>0, <1>4, <2>1, <2>2, AnswerShape DEF work!Finished
  <2>3. CASE ~ok BY <1>0, <1>4, <2>1, <2>3, AnswerShape DEF work!Finished
  <2> QED BY <2>2, <2>3
<1> QED BY <1>1, <1>2, <1>3, <1>4

-----------------------------------------------------------------------------
(* The work list: the steps *)

Moved(d, new) == job' = [job EXCEPT ![d] = new] /\ new \in JobType /\ Sound(new)

shared == <<setting, prd, marker, attached, delivered>>

LEMMA StartMoves ==
    ASSUME RowStoresAssumption, PrdTyped, NEW d \in Dispatches, NEW r \in Requests,
           work!Start(d, r)
    PROVE  /\ UNCHANGED shared /\ job[d] = work!Idle /\ r \in setting.requests
           /\ \E new : /\ Moved(d, new) /\ new.req = r /\ new.attempt = 0 /\ ~new.replay
                       /\ new.pc \in {"check", "scan", "read"} /\ new.drained = {}
                       /\ r.verb = "resolve" => new.pc = "check"
<1>1. /\ UNCHANGED shared /\ job[d].pc = "idle" /\ r \in setting.requests
      /\ job[d] \in JobType /\ Sound(job[d]) /\ job \in [Dispatches -> JobType]
  BY DEF work!Start, shared, PrdTyped
<1>2. job[d] = work!Idle BY <1>1 DEF Sound
<1>3. /\ job[d].attempt = 0 /\ ~job[d].replay /\ job[d].drained = {}
      /\ 0 < setting.attempts
  BY <1>2, HostShape DEF work!Idle, PrdTyped
<1> DEFINE pc == CASE r.verb = "resolve" -> "check"
                   [] r.verb = "scan"    -> "scan"
                   [] OTHER              -> "read"
           new == [job[d] EXCEPT !.req = r, !.pc = pc]
<1>4. /\ pc \in {"check", "scan", "read"} /\ pc \in Pcs
      /\ r.verb = "resolve" => pc = "check"
      /\ pc = "check" => r.verb = "resolve"
      /\ pc = "scan" => r.verb = "scan"
  BY DEF Pcs
<1>5. job' = [job EXCEPT ![d] = new] BY <1>1 DEF work!Start
<1> HIDE DEF pc
<1>6. new \in JobType BY <1>1, <1>4 DEF JobType
<1>7. /\ new.pc = pc /\ new.req = r /\ new.attempt = 0 /\ ~new.replay /\ new.drained = {}
  BY <1>1, <1>3 DEF JobType
<1> HIDE DEF new
<1>8. Sound(new) BY <1>1, <1>3, <1>4, <1>7 DEF Sound, work!Finished
<1> QED BY <1>1, <1>2, <1>4, <1>5, <1>6, <1>7, <1>8 DEF Moved

LEMMA GotoMoves ==
    ASSUME RowStoresAssumption, PrdTyped, NEW d \in Dispatches, NEW pc \in Pcs,
           work!Goto(d, pc)
    PROVE  LET new == [job[d] EXCEPT !.pc = pc]
           IN /\ job' = [job EXCEPT ![d] = new] /\ new \in JobType /\ new.pc = pc
              /\ new.req = job[d].req /\ new.attempt = job[d].attempt
              /\ new.replay = job[d].replay /\ new.drained = job[d].drained
              /\ new.before = job[d].before
<1>1. job[d] \in JobType /\ job \in [Dispatches -> JobType] BY DEF PrdTyped
<1> QED BY <1>1 DEF work!Goto, JobType

LEMMA AnswerMoves ==
    ASSUME RowStoresAssumption, PrdTyped, NEW d \in Dispatches, job[d].pc # "idle",
           NEW outcome \in work!Finished, work!Answer(d, outcome)
    PROVE  \E new : /\ Moved(d, new) /\ new.pc = outcome /\ new.req = job[d].req
                    /\ ~new.replay
<1> DEFINE new == Answered(job[d], outcome)
<1>1. job[d].req \in setting.requests /\ setting \in Settings BY DEF PrdTyped, Sound
<1>2. job' = [job EXCEPT ![d] = new] BY DEF work!Answer, Answered
<1> HIDE DEF new
<1>3. /\ new \in JobType /\ Sound(new) /\ new.pc = outcome /\ new.req = job[d].req
      /\ ~new.replay
  BY <1>1, AnswerShape DEF new
<1> QED BY <1>2, <1>3 DEF Moved

LEMMA CheckMoves ==
    ASSUME RowStoresAssumption, PrdTyped, NEW d \in Dispatches, work!CheckWitness(d)
    PROVE  /\ UNCHANGED shared /\ job[d].pc = "check"
           /\ \E new : /\ Moved(d, new) /\ new.req = job[d].req /\ ~new.replay
                       /\ \/ new.pc = "refused"
                          \/ /\ new.pc = "read" /\ new.attempt = job[d].attempt
                             /\ ~work!DuplicateWitness(job[d].req, prd)
<1>1. UNCHANGED shared /\ job[d].pc = "check" BY DEF work!CheckWitness, shared
<1>2. CASE work!Answer(d, "refused")
  BY <1>1, <1>2, AnswerMoves DEF work!Finished
<1>3. CASE work!Goto(d, "read") /\ ~work!DuplicateWitness(job[d].req, prd)
  <2> DEFINE new == [job[d] EXCEPT !.pc = "read"]
  <2>1. /\ job' = [job EXCEPT ![d] = new] /\ new \in JobType /\ new.pc = "read"
        /\ new.req = job[d].req /\ new.attempt = job[d].attempt
        /\ new.replay = job[d].replay
    BY <1>3, GotoMoves DEF Pcs
  <2> HIDE DEF new
  <2>2. Sound(job[d]) /\ setting.attempts \in Nat \ {0} BY HostShape DEF PrdTyped
  <2>3. Sound(new) /\ ~new.replay BY <1>1, <2>1, <2>2 DEF Sound, work!Finished
  <2> QED BY <1>1, <1>3, <2>1, <2>3 DEF Moved
<1> QED BY <1>2, <1>3 DEF work!CheckWitness

LEMMA DrainedCommentsTyped ==
    ASSUME NEW rows \in work!Prds
    PROVE  work!DrainedComments(rows) \in SUBSET Comments
<1>1. \A i \in DOMAIN rows : rows[i] \in work!Rows BY PrdShape
<1>2. \A i \in DOMAIN rows : rows[i].comment \in Comments \cup {None} BY <1>1, RowFields
<1> QED BY <1>2 DEF work!DrainedComments

LEMMA ReadMoves ==
    ASSUME RowStoresAssumption, PrdTyped, NEW d \in Dispatches, work!Read(d)
    PROVE  /\ UNCHANGED shared /\ job[d].pc = "read"
           /\ \E new : /\ Moved(d, new) /\ new.req = job[d].req
                       /\ \/ /\ new.pc = "refused" /\ ~new.replay /\ ~job[d].replay
                             /\ work!Unknown(job[d].req, prd)
                          \/ /\ new.pc = "swap" /\ new.before = prd
                             /\ new.attempt = job[d].attempt + 1
                             /\ new.replay = job[d].replay
<1>1. UNCHANGED shared /\ job[d].pc = "read" BY DEF work!Read, shared
<1>2. CASE work!Unknown(job[d].req, prd) /\ work!Answer(d, "refused")
  <2>1. ~job[d].replay BY <1>2 DEF PrdTyped, Sound, work!Unknown
  <2>2. PICK new : Moved(d, new) /\ new.pc = "refused" /\ new.req = job[d].req /\ ~new.replay
    BY <1>1, <1>2, AnswerMoves DEF work!Finished
  <2> QED BY <1>1, <1>2, <2>1, <2>2
<1>3. CASE ~work!Unknown(job[d].req, prd)
  <2> DEFINE drains == IF job[d].req.verb = "commit" THEN work!DrainedComments(prd) ELSE {}
             new == [job[d] EXCEPT !.pc = "swap", !.before = prd,
                                   !.attempt = job[d].attempt + 1, !.drained = drains]
  <2>1. job' = [job EXCEPT ![d] = new] BY <1>1, <1>3 DEF work!Read
  <2>2. /\ job[d] \in JobType /\ Sound(job[d]) /\ prd \in work!Prds /\ "swap" \in Pcs
        /\ drains \in SUBSET Comments
    BY DrainedCommentsTyped DEF PrdTyped, Pcs
  <2>3. job[d].attempt + 1 \in 0 .. setting.attempts
    BY <1>1, <2>2, HostShape DEF JobType, PrdTyped, Sound
  <2>4. new \in JobType
    <3> HIDE DEF drains
    <3> DEFINE a == job[d].attempt + 1
    <3>1. a \in 0 .. setting.attempts BY <2>3
    <3> HIDE DEF a
    <3>2. [job[d] EXCEPT !.pc = "swap", !.before = prd, !.attempt = a, !.drained = drains] \in JobType
      BY <2>2, <3>1 DEF JobType
    <3> QED BY <3>2, Zenon DEF a
  <2>5. /\ new.pc = "swap" /\ new.before = prd /\ new.attempt = job[d].attempt + 1
        /\ new.drained = drains /\ new.req = job[d].req /\ new.replay = job[d].replay
    <3> HIDE DEF drains
    <3> QED BY <2>2 DEF JobType
  <2> HIDE DEF new
  <2>6. Sound(new) BY <1>1, <1>3, <2>2, <2>5 DEF Sound, work!Finished
  <2> QED BY <1>1, <2>1, <2>4, <2>5, <2>6 DEF Moved
<1> QED BY <1>2, <1>3 DEF work!Read

\* A swap takes place on the text that was read.
LEMMA SwapMoves ==
    ASSUME RowStoresAssumption, PrdTyped, NEW d \in Dispatches, work!Swap(d)
    PROVE  /\ job[d].pc = "swap" /\ prd = job[d].before /\ job[d].req \in Requests
           /\ ~work!Unknown(job[d].req, prd)
           /\ prd' = work!Modified(job[d].req, prd) /\ prd' \in work!Prds
           /\ attached' = IF job[d].req.verb = "resolve"
                          THEN attached \cup ({job[d].req.comment} \ {None}) ELSE attached
           /\ UNCHANGED <<setting, marker, delivered>>
           /\ Moved(d, Returned(job[d], TRUE))
<1>1. /\ job[d].pc = "swap" /\ prd = job[d].before
      /\ prd' = work!Modified(job[d].req, prd)
      /\ attached' = IF job[d].req.verb = "resolve"
                     THEN attached \cup ({job[d].req.comment} \ {None}) ELSE attached
      /\ UNCHANGED <<setting, marker, delivered>>
      /\ work!AfterWrite(d, TRUE)
  BY DEF work!Swap
<1>2. /\ job[d] \in JobType /\ Sound(job[d]) /\ setting \in Settings
      /\ job \in [Dispatches -> JobType] /\ prd \in work!Prds
  BY DEF PrdTyped
<1>3. job[d].req \in Requests /\ ~work!Unknown(job[d].req, prd)
  BY <1>1, <1>2, HostShape DEF Sound
<1>4. prd' \in work!Prds BY <1>1, <1>2, <1>3, ModifiedTyped
<1>5. Moved(d, Returned(job[d], TRUE))
  BY <1>1, <1>2, AfterWriteIs, ReturnedShape DEF Moved
<1> QED BY <1>1, <1>3, <1>4, <1>5

LEMMA SwapFailedMoves ==
    ASSUME RowStoresAssumption, PrdTyped, NEW d \in Dispatches, work!SwapFailed(d)
    PROVE  /\ UNCHANGED shared /\ job[d].pc = "swap"
           /\ prd # job[d].before \/ setting.faulty
           /\ \E new : /\ Moved(d, new) /\ new.req = job[d].req
                       /\ \/ /\ new.pc = "read" /\ new.attempt = job[d].attempt
                             /\ new.replay = job[d].replay
                          \/ /\ job[d].attempt >= setting.attempts
                             /\ new = Returned(job[d], FALSE)
<1>1. /\ UNCHANGED shared /\ job[d].pc = "swap" /\ (prd # job[d].before \/ setting.faulty)
  BY DEF work!SwapFailed, shared
<1>2. /\ job[d] \in JobType /\ Sound(job[d]) /\ setting \in Settings
      /\ job \in [Dispatches -> JobType] /\ setting.attempts \in Nat \ {0}
      /\ job[d].attempt \in 0 .. setting.attempts
  BY HostShape DEF PrdTyped, JobType
<1>3. CASE job[d].attempt < setting.attempts /\ work!Goto(d, "read")
  <2> DEFINE new == [job[d] EXCEPT !.pc = "read"]
  <2>1. /\ job' = [job EXCEPT ![d] = new] /\ new \in JobType /\ new.pc = "read"
        /\ new.req = job[d].req /\ new.attempt = job[d].attempt
        /\ new.replay = job[d].replay
    BY <1>3, GotoMoves DEF Pcs
  <2> HIDE DEF new
  <2>2. Sound(new) BY <1>1, <1>2, <1>3, <2>1 DEF Sound, work!Finished
  <2> QED BY <1>1, <2>1, <2>2 DEF Moved
<1>4. CASE ~(job[d].attempt < setting.attempts) /\ work!AfterWrite(d, FALSE)
  <2>0. job[d].attempt >= setting.attempts BY <1>2, <1>4
  <2> DEFINE new == Returned(job[d], FALSE)
  <2>1. job' = [job EXCEPT ![d] = new] BY <1>2, <1>4, AfterWriteIs
  <2>2. new \in JobType /\ Sound(new) /\ new.req = job[d].req
    BY <1>1, <1>2, ReturnedShape
  <2> HIDE DEF new
  <2> QED BY <1>1, <2>0, <2>1, <2>2 DEF Moved, new
<1> QED BY <1>3, <1>4 DEF work!SwapFailed

LEMMA InvalidateMoves ==
    ASSUME RowStoresAssumption, PrdTyped, NEW d \in Dispatches, work!Invalidate(d)
    PROVE  /\ job[d].pc = "invalidate" /\ ~marker'
           /\ UNCHANGED <<setting, prd, attached, delivered>> /\ marker' \in BOOLEAN
           /\ \E new : Moved(d, new) /\ new.pc = "applied" /\ new.req = job[d].req /\ ~new.replay
<1>1. /\ job[d].pc = "invalidate" /\ marker' = FALSE
      /\ UNCHANGED <<setting, prd, attached, delivered>>
      /\ work!Answer(d, "applied")
  BY DEF work!Invalidate
<1> QED BY <1>1, AnswerMoves DEF work!Finished

LEMMA CommitLandsMoves ==
    ASSUME RowStoresAssumption, PrdTyped, NEW d \in Dispatches, work!CommitLands(d)
    PROVE  /\ job[d].pc = "commit" /\ UNCHANGED <<setting, prd, marker, attached>>
           /\ delivered' = [c \in Comments |->
                              IF c \in job[d].drained THEN delivered[c] + 1 ELSE delivered[c]]
           /\ delivered' \in [Comments -> Nat]
           /\ \E new : /\ Moved(d, new) /\ new.req = job[d].req
                       /\ \/ new.pc = "applied" /\ ~new.replay /\ ~setting.parks
                          \/ /\ new.pc = "read" /\ new.replay /\ setting.parks
                             /\ new.attempt = 0
<1>1. /\ job[d].pc = "commit" /\ UNCHANGED <<setting, prd, marker, attached>>
      /\ delivered' = [c \in Comments |->
                         IF c \in job[d].drained THEN delivered[c] + 1 ELSE delivered[c]]
  BY DEF work!CommitLands
<1>2. /\ job[d] \in JobType /\ Sound(job[d]) /\ setting.attempts \in Nat \ {0}
      /\ delivered \in [Comments -> Nat] /\ job \in [Dispatches -> JobType]
  BY HostShape DEF PrdTyped
<1>3. delivered' \in [Comments -> Nat]
  <2> DEFINE more == [c \in Comments |->
                        IF c \in job[d].drained THEN delivered[c] + 1 ELSE delivered[c]]
  <2>1. \A c \in Comments : delivered[c] \in Nat /\ delivered[c] + 1 \in Nat BY <1>2
  <2>2. more \in [Comments -> Nat] BY <2>1
  <2> QED BY <1>1, <2>2
<1>4. CASE ~setting.parks
  <2>1. work!Answer(d, "applied") BY <1>4 DEF work!CommitLands
  <2> QED BY <1>1, <1>3, <1>4, <2>1, AnswerMoves DEF work!Finished
<1>5. CASE setting.parks
  <2> DEFINE new == [job[d] EXCEPT !.pc = "read", !.drained = {}, !.replay = TRUE]
  <2>1. job' = [job EXCEPT ![d] = new] BY <1>5 DEF work!CommitLands
  <2>2. new \in JobType BY <1>2 DEF JobType, Pcs
  <2>3. /\ new.pc = "read" /\ new.replay /\ new.req = job[d].req
        /\ new.attempt = job[d].attempt
    BY <1>2 DEF JobType
  <2> HIDE DEF new
  <2>4. Sound(new) /\ new.attempt = 0 BY <1>1, <1>2, <1>5, <2>3 DEF Sound, work!Finished
  <2> QED BY <1>1, <1>3, <1>5, <2>1, <2>2, <2>3, <2>4 DEF Moved
<1> QED BY <1>4, <1>5

LEMMA CommitFailsMoves ==
    ASSUME RowStoresAssumption, PrdTyped, NEW d \in Dispatches, work!CommitFails(d)
    PROVE  /\ job[d].pc = "commit" /\ UNCHANGED shared /\ setting.faulty
           /\ \E new : Moved(d, new) /\ new.pc = "refused" /\ new.req = job[d].req /\ ~new.replay
<1>1. /\ job[d].pc = "commit" /\ UNCHANGED shared /\ setting.faulty
      /\ work!Answer(d, "refused")
  BY DEF work!CommitFails, shared
<1> QED BY <1>1, AnswerMoves DEF work!Finished

LEMMA ScanMoves ==
    ASSUME RowStoresAssumption, PrdTyped, NEW d \in Dispatches,
           work!ScanPrd(d) \/ work!ScanSkip(d) \/ work!ScanFire(d)
    PROVE  /\ UNCHANGED <<setting, prd, attached, delivered>> /\ marker' \in BOOLEAN
           /\ job[d].pc \in {"scan", "mark"} /\ job[d].req.verb = "scan"
           /\ \E new : /\ Moved(d, new) /\ new.req = job[d].req /\ ~new.replay
                       /\ \/ new.pc = "refused" /\ UNCHANGED marker
                          \/ new.pc = "mark" /\ UNCHANGED marker /\ work!OpenIds(prd) = {}
                          \/ new.pc = "applied" /\ job[d].pc = "mark" /\ marker'
<1>1. /\ UNCHANGED <<setting, prd, attached, delivered>> /\ marker' \in BOOLEAN
      /\ job[d].pc \in {"scan", "mark"}
  BY DEF work!ScanPrd, work!ScanSkip, work!ScanFire, PrdTyped
<1>2. job[d].req.verb = "scan" BY <1>1 DEF PrdTyped, Sound
<1>3. CASE work!Answer(d, "refused") /\ UNCHANGED marker
  BY <1>1, <1>2, <1>3, AnswerMoves DEF work!Finished
<1>4. CASE work!Goto(d, "mark") /\ UNCHANGED marker /\ work!OpenIds(prd) = {}
  <2> DEFINE new == [job[d] EXCEPT !.pc = "mark"]
  <2>1. /\ job' = [job EXCEPT ![d] = new] /\ new \in JobType /\ new.pc = "mark"
        /\ new.req = job[d].req /\ new.replay = job[d].replay
    BY <1>4, GotoMoves DEF Pcs
  <2> HIDE DEF new
  <2>2. Sound(job[d]) BY DEF PrdTyped
  <2>3. Sound(new) /\ ~new.replay BY <1>1, <1>2, <2>1, <2>2 DEF Sound, work!Finished
  <2> QED BY <1>1, <1>2, <1>4, <2>1, <2>3 DEF Moved
<1>5. CASE work!ScanFire(d)
  <2>1. job[d].pc = "mark" /\ marker' /\ work!Answer(d, "applied")
    BY <1>5 DEF work!ScanFire
  <2> QED BY <1>1, <1>2, <2>1, AnswerMoves DEF work!Finished
<1> QED BY <1>3, <1>4, <1>5 DEF work!ScanPrd, work!ScanSkip

LEMMA MoveKeepsTypes ==
    ASSUME PrdTyped, NEW d \in Dispatches, NEW new, Moved(d, new), UNCHANGED setting,
           prd' \in work!Prds, marker' \in BOOLEAN, attached' \subseteq Comments,
           delivered' \in [Comments -> Nat]
    PROVE  PrdTyped' /\ job'[d] = new /\ \A e \in Dispatches \ {d} : job'[e] = job[e]
<1>1. /\ job'[d] = new /\ \A e \in Dispatches \ {d} : job'[e] = job[e]
      /\ job' \in [Dispatches -> JobType]
  BY DEF PrdTyped, Moved
<1>2. JobType' = JobType BY DEF JobType, Pcs
<1>3. \A j : Sound(j)' <=> Sound(j) BY DEF Sound
<1> QED BY <1>1, <1>2, <1>3 DEF PrdTyped, Moved

LEMMA StepTyped ==
    ASSUME RowStoresAssumption, PrdTyped, NEW d \in Dispatches,
           work!Step(d) \/ \E r \in Requests : work!Start(d, r)
    PROVE  PrdTyped' /\ \A e \in Dispatches \ {d} : job'[e] = job[e]
<1> USE DEF shared, PrdTyped
<1>1. ASSUME NEW r \in Requests, work!Start(d, r)
      PROVE  PrdTyped' /\ \A e \in Dispatches \ {d} : job'[e] = job[e]
  BY <1>1, StartMoves, MoveKeepsTypes
<1>2. CASE work!CheckWitness(d) BY <1>2, CheckMoves, MoveKeepsTypes
<1>3. CASE work!Read(d) BY <1>3, ReadMoves, MoveKeepsTypes
<1>4. CASE work!Swap(d)
  <2>1. attached' \subseteq Comments
    <3>1. job[d].req \in Requests BY <1>4, SwapMoves
    <3>2. job[d].req.comment \in Comments \cup {None} BY <3>1, RequestFields
    <3> QED BY <1>4, <3>2, SwapMoves
  <2> QED BY <1>4, <2>1, SwapMoves, MoveKeepsTypes
<1>5. CASE work!SwapFailed(d) BY <1>5, SwapFailedMoves, MoveKeepsTypes
<1>6. CASE work!Invalidate(d) BY <1>6, InvalidateMoves, MoveKeepsTypes
<1>7. CASE work!CommitLands(d) BY <1>7, CommitLandsMoves, MoveKeepsTypes
<1>8. CASE work!CommitFails(d) BY <1>8, CommitFailsMoves, MoveKeepsTypes
<1>9. CASE work!ScanPrd(d) \/ work!ScanSkip(d) \/ work!ScanFire(d)
  BY <1>9, ScanMoves, MoveKeepsTypes
<1> QED BY <1>1, <1>2, <1>3, <1>4, <1>5, <1>6, <1>7, <1>8, <1>9 DEF work!Step

-----------------------------------------------------------------------------
(* One dispatch after another: the witnesses and the marker *)

Busy(d) == job[d].pc \notin {"idle"} \cup work!Finished

Solo == setting.sequential => \A d, e \in Dispatches : Busy(d) /\ Busy(e) => d = e

\* The witness a resolve has looked for is still on no other row.
Distinct ==
    setting.sequential =>
        /\ \A i, k \in DOMAIN prd :
               prd[i].witness = prd[k].witness => i = k \/ prd[i].witness = None
        /\ \A d \in Dispatches :
               job[d].pc \in {"read", "swap"} /\ job[d].req.verb = "resolve"
                   => ~work!DuplicateWitness(job[d].req, prd)

\* Open rows under a fired marker are about to take it back.
Vouched ==
    setting.sequential =>
        /\ marker /\ work!OpenIds(prd) # {} => \E d \in Dispatches : job[d].pc = "invalidate"
        /\ \A d \in Dispatches : job[d].pc = "mark" => work!OpenIds(prd) = {}

LEMMA SoloKept ==
    ASSUME RowStoresAssumption, PrdTyped, Solo, NEW d \in Dispatches,
           work!Step(d) \/ \E r \in Requests : work!Start(d, r)
    PROVE  /\ Solo'
           /\ setting.sequential => \A e \in Dispatches \ {d} : job'[e] = job[e] /\ ~Busy(e)
           /\ UNCHANGED setting
<1>1. UNCHANGED setting /\ \A e \in Dispatches \ {d} : job'[e] = job[e]
  BY StepTyped DEF work!Step, work!CheckWitness, work!Read, work!Swap, work!SwapFailed,
     work!Invalidate, work!CommitLands, work!CommitFails, work!ScanPrd, work!ScanSkip,
     work!ScanFire, work!Start
<1>2. setting.sequential => \A e \in Dispatches \ {d} : ~Busy(e)
  <2>1. CASE work!Step(d)
    <3>1. Busy(d)
      BY <2>1 DEF Busy, work!Finished, work!Step, work!CheckWitness, work!Read, work!Swap,
         work!SwapFailed, work!Invalidate, work!CommitLands, work!CommitFails, work!ScanPrd,
         work!ScanSkip, work!ScanFire
    <3> QED BY <3>1 DEF Solo
  <2>2. CASE \E r \in Requests : work!Start(d, r)
    BY <2>2 DEF work!Start, work!Alone, Busy, work!Finished
  <2> QED BY <2>1, <2>2
<1>3. Solo' BY <1>1, <1>2 DEF Solo, Busy
<1> QED BY <1>1, <1>2, <1>3

LEMMA RowsStayDistinct ==
    ASSUME RowStoresAssumption, PrdTyped, Solo, Distinct, NEW d \in Dispatches,
           work!Step(d) \/ \E r \in Requests : work!Start(d, r)
    PROVE  Distinct'
<1> SUFFICES ASSUME setting.sequential
             PROVE  /\ \A i, k \in DOMAIN prd' :
                          prd'[i].witness = prd'[k].witness => i = k \/ prd'[i].witness = None
                    /\ job'[d].pc \in {"read", "swap"} /\ job'[d].req.verb = "resolve"
                           => ~work!DuplicateWitness(job'[d].req, prd')
  <2>1. setting' = setting /\ (setting.sequential =>
          \A e \in Dispatches \ {d} : job'[e].pc \in {"idle"} \cup work!Finished)
    BY SoloKept DEF Busy
  <2> QED BY <2>1 DEF Distinct, work!Finished, work!DuplicateWitness
<1> USE DEF shared
<1>0. /\ \A i, k \in DOMAIN prd :
             prd[i].witness = prd[k].witness => i = k \/ prd[i].witness = None
      /\ job[d].pc \in {"read", "swap"} /\ job[d].req.verb = "resolve"
             => ~work!DuplicateWitness(job[d].req, prd)
  BY DEF Distinct
<1>1. ASSUME NEW r \in Requests, work!Start(d, r), job'[d].req.verb = "resolve"
      PROVE  job'[d].pc = "check" /\ UNCHANGED prd
  BY <1>1, StartMoves, MoveKeepsTypes DEF PrdTyped
<1>2. CASE work!CheckWitness(d)
  <2>1. PICK new : Moved(d, new) /\ new.req = job[d].req
                   /\ (new.pc = "refused" \/ ~work!DuplicateWitness(job[d].req, prd))
    BY <1>2, CheckMoves
  <2>2. job'[d] = new BY <2>1 DEF Moved, PrdTyped
  <2> QED BY <1>0, <1>2, <2>1, <2>2, CheckMoves
<1>3. CASE work!Read(d)
  <2>1. PICK new : Moved(d, new) /\ new.req = job[d].req BY <1>3, ReadMoves
  <2>2. job'[d] = new BY <2>1 DEF Moved, PrdTyped
  <2> QED BY <1>0, <1>3, <2>1, <2>2, ReadMoves
<1>4. CASE work!Swap(d)
  <2> DEFINE r == job[d].req
  <2>1. /\ r \in Requests /\ prd \in work!Prds /\ ~work!Unknown(r, prd)
        /\ prd' = work!Modified(r, prd) /\ job[d].pc = "swap"
    BY <1>4, SwapMoves DEF PrdTyped
  <2>2. job'[d].pc \notin {"read", "swap"}
    <3>1. /\ job[d] \in JobType /\ Sound(job[d]) /\ setting \in Settings
          /\ job'[d] = Returned(job[d], TRUE)
      BY <1>4, SwapMoves DEF Moved, PrdTyped
    <3>2. Returned(job[d], TRUE).pc \in {"commit", "invalidate"} \cup work!Finished
      BY <2>1, <3>1, ReturnedShape
    <3> QED BY <3>1, <3>2 DEF work!Finished
  <2>3. r.verb \in {"defer", "resolve"} => r.id \in DOMAIN prd BY <2>1 DEF work!Unknown
  <2> HIDE DEF r
  <2>4. CASE r.verb = "add"
    <3>1. /\ DOMAIN prd' = DOMAIN prd \cup {r.id} /\ prd'[r.id].witness = None
          /\ \A i \in DOMAIN prd \ {r.id} : prd'[i] = prd[i]
      <4>1. prd' = work!Added(r, prd) BY <2>1, <2>4, ModifiedIs
      <4> DEFINE new == work!Added(r, prd)
      <4>2. DOMAIN new = DOMAIN prd \cup {r.id} BY <2>1, AddedShape
      <4>3. new[r.id].witness = None BY <2>1, AddedShape
      <4>4. \A i \in DOMAIN prd \ {r.id} : new[i] = prd[i] BY <2>1, AddedShape
      <4> HIDE DEF new
      <4> QED BY <4>1, <4>2, <4>3, <4>4 DEF new
    <3> QED BY <1>0, <2>2, <3>1
  <2>5. CASE r.verb = "defer"
    <3>1. DOMAIN prd' = DOMAIN prd /\ \A i \in DOMAIN prd : prd'[i].witness = prd[i].witness
      BY <2>1, <2>3, <2>5, ModifiedIs, DeferredShape
    <3> QED BY <1>0, <2>2, <3>1
  <2>6. CASE r.verb = "resolve"
    <3>1. /\ DOMAIN prd' = DOMAIN prd /\ prd'[r.id].witness = r.witness
          /\ \A i \in DOMAIN prd \ {r.id} : prd'[i] = prd[i]
      BY <2>1, <2>3, <2>6, ModifiedIs, ResolvedShape
    <3>2. \A i \in DOMAIN prd : i # r.id => prd[i].witness # r.witness
      BY <1>0, <2>1, <2>6 DEF work!DuplicateWitness, r
    <3> QED BY <1>0, <2>2, <3>1, <3>2
  <2>7. CASE r.verb = "commit"
    <3>1. /\ DOMAIN prd' \subseteq DOMAIN prd
          /\ \A i \in DOMAIN prd' : prd'[i] = prd[i]
      BY <2>1, <2>7, ModifiedIs, DrainedShape
    <3> QED BY <1>0, <2>2, <3>1
  <2>8. CASE r.verb = "scan"
    BY <1>0, <2>1, <2>2, <2>8, ModifiedIs
  <2> QED BY <2>1, <2>4, <2>5, <2>6, <2>7, <2>8, RequestFields
<1>5. CASE work!SwapFailed(d)
  <2>1. PICK new : Moved(d, new) /\ new.req = job[d].req BY <1>5, SwapFailedMoves
  <2>2. job'[d] = new BY <2>1 DEF Moved, PrdTyped
  <2> QED BY <1>0, <1>5, <2>1, <2>2, SwapFailedMoves
<1>6. CASE work!Invalidate(d) \/ work!CommitFails(d)
  <2>1. PICK new : Moved(d, new) /\ new.pc \in {"applied", "refused"}
    BY <1>6, InvalidateMoves, CommitFailsMoves
  <2>2. job'[d] = new BY <2>1 DEF Moved, PrdTyped
  <2> QED BY <1>0, <1>6, <2>1, <2>2, InvalidateMoves, CommitFailsMoves
<1>7. CASE work!CommitLands(d)
  <2>1. PICK new : Moved(d, new) /\ new.req = job[d].req BY <1>7, CommitLandsMoves
  <2>2. job'[d] = new BY <2>1 DEF Moved, PrdTyped
  <2>3. job[d].req.verb = "commit" BY <1>7, CommitLandsMoves DEF PrdTyped, Sound
  <2> QED BY <1>0, <1>7, <2>1, <2>2, <2>3, CommitLandsMoves
<1>8. CASE work!ScanPrd(d) \/ work!ScanSkip(d) \/ work!ScanFire(d)
  <2>1. PICK new : Moved(d, new) /\ new.req = job[d].req BY <1>8, ScanMoves
  <2>2. job'[d] = new BY <2>1 DEF Moved, PrdTyped
  <2> QED BY <1>0, <1>8, <2>1, <2>2, ScanMoves
<1>9. CASE \E r \in Requests : work!Start(d, r)
  <2>1. PICK r \in Requests : work!Start(d, r) BY <1>9
  <2> QED BY <1>0, <1>1, <2>1, StartMoves
<1> QED BY <1>2, <1>3, <1>4, <1>5, <1>6, <1>7, <1>8, <1>9 DEF work!Step

LEMMA FewerOpen ==
    ASSUME RowStoresAssumption, NEW r \in Requests, NEW rows \in work!Prds,
           ~work!Unknown(r, rows), r.verb \in {"resolve", "commit", "scan"},
           work!OpenIds(rows) = {}
    PROVE  work!OpenIds(work!Modified(r, rows)) = {}
<1>1. r.verb = "resolve" => r.id \in DOMAIN rows BY DEF work!Unknown
<1>2. CASE r.verb = "resolve"
  <2> DEFINE new == work!Resolved(r, rows)
  <2>1. /\ DOMAIN new = DOMAIN rows /\ new[r.id].status = "closed"
        /\ \A i \in DOMAIN rows \ {r.id} : new[i] = rows[i]
    BY <1>1, <1>2, ResolvedShape
  <2>2. work!Modified(r, rows) = new BY <1>2, ModifiedIs
  <2> HIDE DEF new
  <2> QED BY <2>1, <2>2 DEF work!OpenIds
<1>3. CASE r.verb = "commit"
  <2> DEFINE new == work!Drained(rows)
  <2>1. DOMAIN new \subseteq DOMAIN rows /\ \A i \in DOMAIN new : new[i] = rows[i]
    BY <1>3, DrainedShape
  <2>2. work!Modified(r, rows) = new BY <1>3, ModifiedIs
  <2> HIDE DEF new
  <2> QED BY <2>1, <2>2 DEF work!OpenIds
<1>4. CASE r.verb = "scan" BY <1>4, ModifiedIs
<1> QED BY <1>2, <1>3, <1>4

LEMMA MarkerStaysSound ==
    ASSUME RowStoresAssumption, PrdTyped, Solo, Vouched, NEW d \in Dispatches,
           work!Step(d) \/ \E r \in Requests : work!Start(d, r)
    PROVE  Vouched'
<1>1. /\ setting' = setting /\ PrdTyped'
      /\ setting.sequential =>
           \A e \in Dispatches \ {d} : job'[e] = job[e] /\ job[e].pc \notin {"mark", "invalidate"}
  BY SoloKept, StepTyped DEF Busy, work!Finished
<1> SUFFICES ASSUME setting.sequential
             PROVE  /\ marker' /\ work!OpenIds(prd') # {} => job'[d].pc = "invalidate"
                    /\ job'[d].pc = "mark" => work!OpenIds(prd') = {}
  BY <1>1 DEF Vouched, work!OpenIds
<1> USE DEF shared
<1>0. /\ marker /\ work!OpenIds(prd) # {} => job[d].pc = "invalidate"
      /\ job[d].pc = "mark" => work!OpenIds(prd) = {}
  BY <1>1 DEF Vouched
<1>2. CASE \E r \in Requests : work!Start(d, r)
  <2>1. PICK r \in Requests : work!Start(d, r) BY <1>2
  <2>2. PICK new : Moved(d, new) /\ new.pc # "mark" BY <2>1, StartMoves
  <2>3. job'[d] = new /\ job[d].pc = "idle" BY <2>1, <2>2 DEF Moved, PrdTyped, work!Start
  <2> QED BY <1>0, <2>1, <2>2, <2>3, StartMoves
<1>3. CASE work!CheckWitness(d) \/ work!Read(d)
  <2>1. PICK new : Moved(d, new) /\ new.pc # "mark" BY <1>3, CheckMoves, ReadMoves
  <2>2. job'[d] = new BY <2>1 DEF Moved, PrdTyped
  <2> QED BY <1>0, <1>3, <2>1, <2>2, CheckMoves, ReadMoves
<1>4. CASE work!Swap(d)
  <2> DEFINE r == job[d].req
  <2>1. /\ r \in Requests /\ prd \in work!Prds /\ ~work!Unknown(r, prd)
        /\ prd' = work!Modified(r, prd) /\ job[d].pc = "swap" /\ marker' = marker
        /\ job[d] \in JobType /\ Sound(job[d]) /\ setting \in Settings
        /\ job'[d] = Returned(job[d], TRUE)
    BY <1>4, SwapMoves DEF PrdTyped, Moved
  <2>2. /\ Returned(job[d], TRUE).pc \in {"commit", "invalidate"} \cup work!Finished
        /\ r.verb \in {"add", "defer"} => Returned(job[d], TRUE).pc = "invalidate"
    BY <2>1, ReturnedShape
  <2>3. job'[d].pc # "mark" BY <2>1, <2>2 DEF work!Finished
  <2> HIDE DEF r
  <2>4. r.verb \in {"add", "defer", "resolve", "commit", "scan"} BY <2>1, RequestFields
  <2>5. CASE r.verb \in {"add", "defer"} BY <2>1, <2>2, <2>3, <2>5
  <2>6. CASE r.verb \in {"resolve", "commit", "scan"}
    <3>1. marker => work!OpenIds(prd') = {} BY <1>0, <2>1, <2>6, FewerOpen
    <3> QED BY <2>1, <2>3, <3>1
  <2> QED BY <2>4, <2>5, <2>6
<1>5. CASE work!SwapFailed(d)
  <2>1. PICK new : /\ Moved(d, new)
                   /\ new.pc = "read" \/ new = Returned(job[d], FALSE)
    BY <1>5, SwapFailedMoves
  <2>2. job'[d] = new /\ job[d] \in JobType /\ Sound(job[d]) /\ job[d].pc = "swap"
        /\ setting \in Settings
    BY <1>5, <2>1, SwapFailedMoves DEF Moved, PrdTyped
  <2>3. Returned(job[d], FALSE).pc \in {"commit", "invalidate"} \cup work!Finished
    BY <2>2, ReturnedShape
  <2>4. job'[d].pc # "mark" BY <2>1, <2>2, <2>3 DEF work!Finished
  <2> QED BY <1>0, <1>5, <2>2, <2>4, SwapFailedMoves
<1>6. CASE work!Invalidate(d)
  <2>1. PICK new : Moved(d, new) /\ new.pc = "applied" BY <1>6, InvalidateMoves
  <2>2. job'[d] = new BY <2>1 DEF Moved, PrdTyped
  <2> QED BY <1>6, <2>1, <2>2, InvalidateMoves
<1>7. CASE work!CommitLands(d) \/ work!CommitFails(d)
  <2>1. PICK new : Moved(d, new) /\ new.pc \in {"applied", "read", "refused"}
    BY <1>7, CommitLandsMoves, CommitFailsMoves
  <2>2. job'[d] = new BY <2>1 DEF Moved, PrdTyped
  <2> QED BY <1>0, <1>7, <2>1, <2>2, CommitLandsMoves, CommitFailsMoves
<1>8. CASE work!ScanPrd(d) \/ work!ScanSkip(d) \/ work!ScanFire(d)
  <2>1. /\ UNCHANGED prd /\ job[d].pc \in {"scan", "mark"} BY <1>8, ScanMoves
  <2>2. PICK new : /\ Moved(d, new)
                   /\ \/ new.pc = "refused" /\ UNCHANGED marker
                      \/ new.pc = "mark" /\ UNCHANGED marker /\ work!OpenIds(prd) = {}
                      \/ new.pc = "applied" /\ job[d].pc = "mark"
    BY <1>8, ScanMoves
  <2>3. job'[d] = new BY <2>2 DEF Moved, PrdTyped
  <2> QED BY <1>0, <2>1, <2>2, <2>3
<1> QED BY <1>2, <1>3, <1>4, <1>5, <1>6, <1>7, <1>8 DEF work!Step

-----------------------------------------------------------------------------
(* As many attempts as dispatches *)

\* Those whose write has returned: each has made the others lose one swap at most.
Done == {d \in Dispatches : job[d].pc \in {"applied", "invalidate", "commit"}}

Losses ==
    ~setting.faulty /\ ~setting.parks =>
        /\ Cardinality(work!Started) <= setting.dispatches
        /\ \A d \in Dispatches :
             /\ job[d].pc = "read" => job[d].attempt <= Cardinality(Done)
             /\ job[d].pc = "swap" =>
                  /\ job[d].attempt <= Cardinality(Done) + 1
                  /\ prd # job[d].before => job[d].attempt <= Cardinality(Done)

LEMMA Counting ==
    ASSUME RowStoresAssumption
    PROVE  /\ IsFiniteSet(Dispatches)
           /\ \A S \in SUBSET Dispatches : IsFiniteSet(S) /\ Cardinality(S) \in Nat
           /\ \A S, T \in SUBSET Dispatches : S \subseteq T => Cardinality(S) <= Cardinality(T)
           /\ \A S \in SUBSET Dispatches : \A d \in Dispatches \ S :
                  Cardinality(S \cup {d}) = Cardinality(S) + 1
<1>1. IsFiniteSet(Dispatches)
  BY FS_Interval DEF Dispatches, RowStoresAssumption
<1>2. \A S \in SUBSET Dispatches : IsFiniteSet(S) /\ Cardinality(S) \in Nat
  BY <1>1, FS_Subset, FS_CardinalityType
<1>3. \A S, T \in SUBSET Dispatches : S \subseteq T => Cardinality(S) <= Cardinality(T)
  BY <1>2, FS_Subset
<1>4. \A S \in SUBSET Dispatches : \A d \in Dispatches \ S :
         Cardinality(S \cup {d}) = Cardinality(S) + 1
  BY <1>2, FS_AddElement
<1> QED BY <1>1, <1>2, <1>3, <1>4

\* What the steps of others leave of a dispatch that is writing.
LEMMA LossesKept ==
    ASSUME RowStoresAssumption, PrdTyped, Losses, NEW d \in Dispatches, UNCHANGED setting,
           ~setting.faulty, ~setting.parks, PrdTyped',
           \A e \in Dispatches \ {d} : job'[e] = job[e],
           Cardinality(work!Started') <= setting.dispatches,
           Done \subseteq Done',
           prd' # prd => d \in Done' \ Done,
           job'[d].pc = "read" => job'[d].attempt <= Cardinality(Done'),
           job'[d].pc = "swap" =>
               /\ job'[d].attempt <= Cardinality(Done') + 1
               /\ prd' # job'[d].before => job'[d].attempt <= Cardinality(Done')
    PROVE  Losses'
<1>1. Done \in SUBSET Dispatches /\ Done' \in SUBSET Dispatches BY DEF Done
<1>2. /\ Cardinality(Done) \in Nat /\ Cardinality(Done') \in Nat
      /\ Cardinality(Done) <= Cardinality(Done')
  BY <1>1, Counting
<1>3. prd' # prd => Cardinality(Done') >= Cardinality(Done) + 1
  <2>1. SUFFICES ASSUME prd' # prd PROVE Cardinality(Done') >= Cardinality(Done) + 1
    OBVIOUS
  <2>2. d \notin Done /\ Done \cup {d} \subseteq Done' /\ Done \cup {d} \in SUBSET Dispatches
    BY <1>1, <2>1
  <2>3. Cardinality(Done \cup {d}) = Cardinality(Done) + 1 BY <1>1, <2>2, Counting
  <2>4. Cardinality(Done \cup {d}) <= Cardinality(Done') BY <1>1, <2>2, Counting
  <2> QED BY <1>2, <2>3, <2>4
<1>4. \A e \in Dispatches : job[e].attempt \in Nat
  BY HostShape DEF PrdTyped, JobType
<1>5. ASSUME NEW e \in Dispatches \ {d}
      PROVE  /\ job'[e].pc = "read" => job'[e].attempt <= Cardinality(Done')
             /\ job'[e].pc = "swap" =>
                  /\ job'[e].attempt <= Cardinality(Done') + 1
                  /\ prd' # job'[e].before => job'[e].attempt <= Cardinality(Done')
  <2>1. /\ job[e].pc = "read" => job[e].attempt <= Cardinality(Done)
        /\ job[e].pc = "swap" =>
             /\ job[e].attempt <= Cardinality(Done) + 1
             /\ prd # job[e].before => job[e].attempt <= Cardinality(Done)
    BY DEF Losses
  <2>2. job'[e] = job[e] /\ job[e].attempt \in Nat BY <1>4
  <2>3. CASE prd' = prd BY <1>2, <2>1, <2>2, <2>3
  <2>4. CASE prd' # prd BY <1>2, <1>3, <2>1, <2>2, <2>4
  <2> QED BY <2>3, <2>4
<1> QED BY <1>5 DEF Losses

\* The work list counts as the library does.
LEMMA SameCount == ASSUME NEW S PROVE work!Cardinality(S) = Cardinality(S)
  BY Zenon DEF work!Cardinality, Cardinality

\* Where each step leaves a dispatch.
LEMMA StepGoesOn ==
    ASSUME RowStoresAssumption, PrdTyped, NEW d \in Dispatches, work!Step(d)
    PROVE  /\ job[d].pc \notin {"idle"} \cup work!Finished /\ job'[d].pc # "idle"
           /\ job'[d].req = job[d].req /\ setting' = setting
<1>1. job[d].pc \notin {"idle"} \cup work!Finished /\ setting' = setting
  BY DEF work!Step, work!CheckWitness, work!Read, work!Swap, work!SwapFailed,
     work!Invalidate, work!CommitLands, work!CommitFails, work!ScanPrd, work!ScanSkip,
     work!ScanFire, work!Finished
<1>2. ASSUME NEW new, Moved(d, new) PROVE job'[d] = new
  BY <1>2 DEF Moved, PrdTyped
<1> DEFINE Goes == job'[d].pc # "idle" /\ job'[d].req = job[d].req
<1>3. CASE work!CheckWitness(d)
  <2>1. PICK new : Moved(d, new) /\ new.req = job[d].req /\ new.pc # "idle"
    BY <1>3, CheckMoves
  <2> QED BY <1>1, <1>2, <2>1
<1>4. CASE work!Read(d)
  <2>1. PICK new : Moved(d, new) /\ new.req = job[d].req /\ new.pc # "idle"
    BY <1>4, ReadMoves
  <2> QED BY <1>1, <1>2, <2>1
<1>5. ASSUME NEW ok \in BOOLEAN, job[d].pc = "swap"
      PROVE  Returned(job[d], ok).pc # "idle" /\ Returned(job[d], ok).req = job[d].req
  <2>1. job[d] \in JobType /\ Sound(job[d]) /\ setting \in Settings BY DEF PrdTyped
  <2>2. /\ Returned(job[d], ok).pc \in {"commit", "invalidate"} \cup work!Finished
        /\ Returned(job[d], ok).req = job[d].req
    BY <1>5, <2>1, ReturnedShape
  <2> QED BY <2>2 DEF work!Finished
<1>6. CASE work!Swap(d) BY <1>1, <1>2, <1>5, <1>6, SwapMoves
<1>7. CASE work!SwapFailed(d)
  <2>1. PICK new : /\ Moved(d, new) /\ new.req = job[d].req
                   /\ new.pc = "read" \/ new = Returned(job[d], FALSE)
    BY <1>7, SwapFailedMoves
  <2>2. job[d].pc = "swap" BY <1>7, SwapFailedMoves
  <2> QED BY <1>1, <1>2, <1>5, <2>1, <2>2
<1>8. CASE work!Invalidate(d)
  <2>1. PICK new : Moved(d, new) /\ new.req = job[d].req /\ new.pc # "idle"
    BY <1>8, InvalidateMoves
  <2> QED BY <1>1, <1>2, <2>1
<1>9. CASE work!CommitLands(d)
  <2>1. PICK new : Moved(d, new) /\ new.req = job[d].req /\ new.pc # "idle"
    BY <1>9, CommitLandsMoves
  <2> QED BY <1>1, <1>2, <2>1
<1>10. CASE work!CommitFails(d)
  <2>1. PICK new : Moved(d, new) /\ new.req = job[d].req /\ new.pc # "idle"
    BY <1>10, CommitFailsMoves
  <2> QED BY <1>1, <1>2, <2>1
<1>11. CASE work!ScanPrd(d) \/ work!ScanSkip(d) \/ work!ScanFire(d)
  <2>1. PICK new : Moved(d, new) /\ new.req = job[d].req /\ new.pc # "idle"
    BY <1>11, ScanMoves
  <2> QED BY <1>1, <1>2, <2>1
<1> QED BY <1>3, <1>4, <1>6, <1>7, <1>8, <1>9, <1>10, <1>11 DEF work!Step

LEMMA LossesStay ==
    ASSUME RowStoresAssumption, PrdTyped, Losses, NEW d \in Dispatches,
           work!Step(d) \/ \E r \in Requests : work!Start(d, r)
    PROVE  Losses'
<1> USE DEF shared
<1>1. /\ PrdTyped' /\ \A e \in Dispatches \ {d} : job'[e] = job[e]
  BY StepTyped
<1>2. UNCHANGED setting
  BY DEF work!Step, work!CheckWitness, work!Read, work!Swap, work!SwapFailed,
     work!Invalidate, work!CommitLands, work!CommitFails, work!ScanPrd, work!ScanSkip,
     work!ScanFire, work!Start
<1> SUFFICES ASSUME ~setting.faulty, ~setting.parks PROVE Losses'
  BY <1>2 DEF Losses
<1>3. /\ Cardinality(work!Started) <= setting.dispatches
      /\ job[d].pc = "read" => job[d].attempt <= Cardinality(Done)
      /\ job[d].pc = "swap" =>
           /\ job[d].attempt <= Cardinality(Done) + 1
           /\ prd # job[d].before => job[d].attempt <= Cardinality(Done)
  BY DEF Losses
<1>4. /\ work!Started \in SUBSET Dispatches /\ Done \in SUBSET Dispatches
      /\ Done' \in SUBSET Dispatches
      /\ Cardinality(Done) \in Nat /\ Cardinality(Done') \in Nat
      /\ Done \subseteq Done' => Cardinality(Done) <= Cardinality(Done')
      /\ job[d].attempt \in Nat /\ setting.attempts \in Nat /\ setting.dispatches \in Nat
  <2>1. setting.attempts \in Nat /\ setting.dispatches \in Nat BY HostShape DEF PrdTyped
  <2>2. job[d].attempt \in 0 .. setting.attempts BY DEF PrdTyped, JobType
  <2>3. /\ work!Started \in SUBSET Dispatches /\ Done \in SUBSET Dispatches
        /\ Done' \in SUBSET Dispatches
    BY DEF work!Started, Done
  <2> QED BY <2>1, <2>2, <2>3, Counting
<1>5. ASSUME NEW new, Moved(d, new) PROVE job'[d] = new
  BY <1>5 DEF Moved, PrdTyped
<1>6. Cardinality(work!Started') <= setting.dispatches
  <2>1. CASE work!Step(d)
    <3>1. work!Started' = work!Started BY <1>1, <2>1, StepGoesOn DEF work!Started
    <3> QED BY <1>3, <3>1
  <2>2. CASE \E r \in Requests : work!Start(d, r)
    <3>1. job[d].pc = "idle" /\ Cardinality(work!Started) < setting.dispatches
      <4>1. PICK r \in Requests : work!Start(d, r) BY <2>2
      <4>2. /\ job[d].pc = "idle"
            /\ work!Cardinality(work!Started) < setting.dispatches
        BY <4>1 DEF work!Start
      <4> QED BY <4>2, SameCount
    <3>2. d \in Dispatches \ work!Started /\ work!Started' \subseteq work!Started \cup {d}
      BY <1>1, <3>1 DEF work!Started
    <3>3. Cardinality(work!Started \cup {d}) = Cardinality(work!Started) + 1
      BY <1>4, <3>2, Counting
    <3>4. /\ Cardinality(work!Started') <= Cardinality(work!Started \cup {d})
          /\ Cardinality(work!Started) \in Nat /\ Cardinality(work!Started') \in Nat
      BY <1>4, <3>2, Counting
    <3> QED BY <1>4, <3>1, <3>3, <3>4
  <2> QED BY <2>1, <2>2
<1> DEFINE Follows ==
        /\ Done \subseteq Done'
        /\ prd' # prd => d \in Done' \ Done
        /\ job'[d].pc = "read" => job'[d].attempt <= Cardinality(Done')
        /\ job'[d].pc = "swap" =>
             /\ job'[d].attempt <= Cardinality(Done') + 1
             /\ prd' # job'[d].before => job'[d].attempt <= Cardinality(Done')
<1>7. Follows => Losses' BY <1>1, <1>2, <1>6, LossesKept
<1>8. /\ (d \in Done => d \in Done') => Done \subseteq Done'
      /\ d \in Done <=> job[d].pc \in {"applied", "invalidate", "commit"}
      /\ d \in Done' <=> job'[d].pc \in {"applied", "invalidate", "commit"}
  BY <1>1 DEF Done
<1> HIDE DEF Losses
<1>9. CASE \E r \in Requests : work!Start(d, r)
  <2>1. PICK r \in Requests : work!Start(d, r) BY <1>9
  <2>2. PICK new : Moved(d, new) /\ new.attempt = 0 /\ new.pc \in {"check", "scan", "read"}
    BY <2>1, StartMoves
  <2>3. job[d].pc = "idle" BY <2>1 DEF work!Start
  <2> QED BY <1>4, <1>5, <1>7, <1>8, <2>1, <2>2, <2>3, StartMoves
<1>10. CASE work!CheckWitness(d)
  <2>1. /\ UNCHANGED prd /\ job[d].pc = "check" /\ job[d].attempt = 0
    BY <1>10, CheckMoves DEF PrdTyped, Sound
  <2>2. PICK new : /\ Moved(d, new)
                   /\ \/ new.pc = "refused"
                      \/ new.pc = "read" /\ new.attempt = job[d].attempt
    BY <1>10, CheckMoves
  <2> QED BY <1>4, <1>5, <1>7, <1>8, <2>1, <2>2
<1>11. CASE work!Read(d)
  <2>1. UNCHANGED prd /\ job[d].pc = "read" BY <1>11, ReadMoves
  <2>2. PICK new : /\ Moved(d, new)
                   /\ \/ new.pc = "refused"
                      \/ new.pc = "swap" /\ new.before = prd /\ new.attempt = job[d].attempt + 1
    BY <1>11, ReadMoves
  <2> QED BY <1>3, <1>4, <1>5, <1>7, <1>8, <2>1, <2>2
<1>12. CASE work!Swap(d)
  <2>1. /\ job[d] \in JobType /\ Sound(job[d]) /\ setting \in Settings /\ job[d].pc = "swap"
        /\ job'[d] = Returned(job[d], TRUE)
    BY <1>5, <1>12, SwapMoves DEF PrdTyped
  <2>2. /\ job'[d].pc \in {"commit", "invalidate"} \cup work!Finished
        /\ job'[d].pc # "refused"
    BY <2>1, ReturnedShape
  <2>3. job'[d].pc \in {"applied", "invalidate", "commit"} BY <2>2 DEF work!Finished
  <2> QED BY <1>7, <1>8, <2>1, <2>3
<1>13. CASE work!SwapFailed(d)
  <2>1. /\ UNCHANGED prd /\ job[d].pc = "swap" /\ prd # job[d].before
        /\ job[d] \in JobType /\ Sound(job[d]) /\ setting \in Settings
    BY <1>13, SwapFailedMoves DEF PrdTyped
  <2>2. PICK new : /\ Moved(d, new)
                   /\ \/ new.pc = "read" /\ new.attempt = job[d].attempt
                      \/ new = Returned(job[d], FALSE)
    BY <1>13, SwapFailedMoves
  <2>3. Returned(job[d], FALSE).pc \in {"commit", "invalidate"} \cup work!Finished
    BY <2>1, ReturnedShape
  <2>4. \/ job'[d].pc = "read" /\ job'[d].attempt = job[d].attempt
        \/ job'[d].pc \notin {"read", "swap"}
    BY <1>5, <2>2, <2>3 DEF work!Finished
  <2>5. job[d].attempt <= Cardinality(Done) BY <1>3, <2>1
  <2> QED BY <1>4, <1>7, <1>8, <2>1, <2>4, <2>5
<1>14. CASE work!Invalidate(d)
  <2>1. PICK new : Moved(d, new) /\ new.pc = "applied" BY <1>14, InvalidateMoves
  <2> QED BY <1>5, <1>7, <1>8, <1>14, <2>1, InvalidateMoves
<1>15. CASE work!CommitLands(d)
  <2>1. PICK new : Moved(d, new) /\ new.pc = "applied" BY <1>15, CommitLandsMoves
  <2> QED BY <1>5, <1>7, <1>8, <1>15, <2>1, CommitLandsMoves
<1>16. CASE work!CommitFails(d) BY <1>16, CommitFailsMoves
<1>17. CASE work!ScanPrd(d) \/ work!ScanSkip(d) \/ work!ScanFire(d)
  <2>1. /\ UNCHANGED prd /\ job[d].pc \in {"scan", "mark"} BY <1>17, ScanMoves
  <2>2. PICK new : Moved(d, new) /\ new.pc \in {"refused", "mark", "applied"}
    BY <1>17, ScanMoves
  <2> QED BY <1>5, <1>7, <1>8, <2>1, <2>2
<1> QED BY <1>9, <1>10, <1>11, <1>12, <1>13, <1>14, <1>15, <1>16, <1>17 DEF work!Step

\* The last attempt of a dispatch meets the text it has read.
LEMMA LastAttemptWins ==
    ASSUME RowStoresAssumption, PrdTyped, Losses
    PROVE  work!NoContentionFailure
<1> SUFFICES ASSUME work!Calm, NEW d \in Dispatches, job[d].pc = "swap",
                    job[d].attempt = setting.attempts, prd # job[d].before
             PROVE  FALSE
  BY DEF work!NoContentionFailure
<1>1. /\ Cardinality(work!Started) <= setting.dispatches
      /\ setting.attempts <= Cardinality(Done)
  BY DEF Losses, work!Calm
<1>2. /\ Done \in SUBSET Dispatches /\ d \notin Done /\ Done \cup {d} \in SUBSET Dispatches
      /\ work!Started \in SUBSET Dispatches /\ Done \cup {d} \subseteq work!Started
  BY DEF Done, work!Started
<1>3. /\ Cardinality(Done \cup {d}) = Cardinality(Done) + 1
      /\ Cardinality(Done \cup {d}) <= Cardinality(work!Started)
      /\ Cardinality(Done) \in Nat /\ Cardinality(work!Started) \in Nat
  BY <1>2, Counting
<1>4. setting.dispatches <= setting.attempts /\ setting.dispatches \in Nat
      /\ setting.attempts \in Nat
  BY HostShape DEF PrdTyped, work!Calm
<1> QED BY <1>1, <1>3, <1>4

-----------------------------------------------------------------------------
(* Comments *)

Brings(d, c) == job[d].pc # "idle" /\ job[d].req.comment = c

\* A comment is brought by one dispatch, and is on a row or was once that has answered.
Brought ==
    /\ \A c \in work!NewComments : \A d, e \in Dispatches :
           Brings(d, c) /\ Brings(e, c) => d = e
    /\ attached \subseteq work!NewComments
    /\ \A c \in attached : \E d \in Dispatches : job[d].pc = "applied" /\ job[d].req.comment = c

\* A row that carries one is closed, and was named by the request that brought it.
Carriers ==
    \A i \in DOMAIN prd : prd[i].comment \in work!NewComments =>
        /\ prd[i].status = "closed"
        /\ \E r \in setting.requests :
               r.verb = "resolve" /\ r.id = i /\ r.comment = prd[i].comment

Flies(d, c) == job[d].pc = "commit" /\ c \in job[d].drained

Place(c) ==
    /\ c \notin attached => ~work!OnARow(c) /\ ~work!InFlight(c) /\ delivered[c] = 0
    /\ c \in attached => /\ work!OnARow(c) => ~work!InFlight(c)
                         /\ work!OnARow(c) \/ work!InFlight(c) => delivered[c] = 0
                         /\ work!OnARow(c) \/ work!InFlight(c) \/ delivered[c] = 1
    /\ \A d, e \in Dispatches : Flies(d, c) /\ Flies(e, c) => d = e

Carried ==
    work!Calm /\ work!KeepsComments =>
        Brought /\ Carriers /\ \A c \in work!NewComments : Place(c)

LEMMA CarriedMeansAccounted ==
    ASSUME RowStoresAssumption, PrdTyped, Carried
    PROVE  work!CommentsAccounted
<1> SUFFICES ASSUME work!Calm, work!KeepsComments, NEW c \in attached
             PROVE  /\ delivered[c] + (IF work!OnARow(c) THEN 1 ELSE 0) <= 1
                    /\ work!OnARow(c) \/ work!InFlight(c) \/ delivered[c] = 1
  BY DEF work!CommentsAccounted
<1>1. Place(c) BY DEF Carried, Brought
<1> QED BY <1>1 DEF Place

LEMMA BroughtStays ==
    ASSUME RowStoresAssumption, PrdTyped, Brought, NEW d \in Dispatches,
           \/ work!Step(d) /\ UNCHANGED attached
           \/ \E r \in Requests : work!Start(d, r)
    PROVE  Brought'
<1>1. \A e \in Dispatches \ {d} : job'[e] = job[e] BY StepTyped
<1>2. CASE work!Step(d) /\ UNCHANGED attached
  <2>1. /\ job[d].pc \notin {"idle", "applied"} /\ job'[d].pc # "idle"
        /\ job'[d].req = job[d].req
    BY <1>2, StepGoesOn DEF work!Finished
  <2> QED BY <1>1, <1>2, <2>1 DEF Brought, Brings
<1>3. CASE \E r \in Requests : work!Start(d, r)
  <2>1. PICK r \in Requests : work!Start(d, r) BY <1>3
  <2>2. PICK new : Moved(d, new) /\ new.req = r BY <2>1, StartMoves
  <2>3. job'[d].req = r /\ job[d].pc = "idle" /\ UNCHANGED attached
    BY <2>1, <2>2 DEF Moved, PrdTyped, work!Start
  <2>4. work!Unused(r.comment) BY <2>1 DEF work!Start
  <2>5. None \notin work!NewComments BY DEF work!NewComments
  <2>6. \A c \in work!NewComments : \A e, f \in Dispatches :
          Brings(e, c)' /\ Brings(f, c)' => e = f
    BY <1>1, <2>3, <2>4, <2>5 DEF Brought, Brings, work!Unused
  <2>7. \A c \in attached : \E e \in Dispatches : job'[e].pc = "applied" /\ job'[e].req.comment = c
    BY <1>1, <2>3 DEF Brought
  <2> QED BY <2>3, <2>6, <2>7 DEF Brought
<1> QED BY <1>2, <1>3

\* Steps that neither write the file nor start or end a commit.
LEMMA CarriedKept ==
    ASSUME RowStoresAssumption, PrdTyped, Carried, NEW d \in Dispatches,
           work!Step(d) \/ \E r \in Requests : work!Start(d, r),
           UNCHANGED <<prd, attached, delivered>>,
           job[d].pc # "commit", job'[d].pc # "commit"
    PROVE  Carried'
<1>1. setting' = setting /\ \A e \in Dispatches \ {d} : job'[e] = job[e]
  BY StepTyped, StepGoesOn DEF work!Start
<1>2. (work!Calm' <=> work!Calm) /\ (work!KeepsComments' <=> work!KeepsComments)
  BY <1>1 DEF work!Calm, work!KeepsComments
<1> SUFFICES ASSUME work!Calm, work!KeepsComments, Brought, Carriers,
                    \A c \in work!NewComments : Place(c)
             PROVE  Brought' /\ Carriers' /\ \A c \in work!NewComments : Place(c)'
  BY <1>2 DEF Carried
<1>3. Brought' BY BroughtStays
<1>4. Carriers' BY <1>1 DEF Carriers
<1>5. ASSUME NEW c \in work!NewComments PROVE Place(c)'
  <2>1. \A e \in Dispatches : Flies(e, c)' <=> Flies(e, c) BY <1>1 DEF Flies
  <2>2. work!InFlight(c)' <=> work!InFlight(c)
    BY <2>1 DEF work!InFlight, Flies
  <2>3. work!OnARow(c)' <=> work!OnARow(c) BY DEF work!OnARow
  <2> QED BY <2>1, <2>2, <2>3 DEF Place
<1> QED BY <1>3, <1>4, <1>5

\* What a swap makes of the rows that carry a comment c.
LEMMA CarriersAfterSwap ==
    ASSUME RowStoresAssumption, PrdTyped, work!KeepsComments, Brought, Carriers,
           \A c \in work!NewComments : Place(c),
           NEW d \in Dispatches, work!Swap(d), NEW r, r = job[d].req
    PROVE  /\ Carriers'
           /\ r.verb = "resolve" /\ r.comment # None =>
                  /\ r.comment \in work!NewComments \ attached
                  /\ work!OnARow(r.comment)'
           /\ \A c \in work!NewComments :
                  IF r.verb = "commit"
                  THEN /\ ~work!OnARow(c)'
                       /\ c \in work!DrainedComments(prd) <=> work!OnARow(c)
                  ELSE r.verb # "resolve" \/ c # r.comment =>
                           (work!OnARow(c)' <=> work!OnARow(c))
<1>1. /\ r \in Requests /\ r \in setting.requests /\ prd \in work!Prds
      /\ ~work!Unknown(r, prd) /\ prd' = work!Modified(r, prd) /\ setting' = setting
      /\ job[d].pc = "swap"
  BY SwapMoves DEF PrdTyped, Sound
<1>2. None \notin work!NewComments BY DEF work!NewComments
<1>3. \A i \in DOMAIN prd : prd[i].comment \in work!NewComments =>
        /\ prd[i].status = "closed"
        /\ \E s \in setting.requests :
               s.verb = "resolve" /\ s.id = i /\ s.comment = prd[i].comment
  BY DEF Carriers
<1>4. r.verb \in {"defer", "resolve"} => r.id \in DOMAIN prd BY <1>1 DEF work!Unknown
<1>5. r.verb = "resolve" /\ r.comment # None => r.comment \in work!NewComments \ attached
  <2>1. SUFFICES ASSUME r.verb = "resolve", r.comment # None, r.comment \in attached
                 PROVE  FALSE
    BY <1>1 DEF work!NewComments
  <2>2. PICK e \in Dispatches : job[e].pc = "applied" /\ job[e].req.comment = r.comment
    BY <2>1 DEF Brought
  <2>3. e # d BY <1>1, <2>2
  <2> QED BY <1>1, <2>1, <2>2, <2>3 DEF Brought, Brings
<1>6. r.id \in DOMAIN prd /\ prd[r.id].comment \in work!NewComments =>
        /\ r.verb # "add"
        /\ r.verb = "resolve" => r.comment = None
  <2>1. SUFFICES ASSUME r.id \in DOMAIN prd, prd[r.id].comment \in work!NewComments
                 PROVE  /\ r.verb # "add"
                        /\ r.verb = "resolve" => r.comment = None
    OBVIOUS
  <2>2. PICK s \in setting.requests :
          s.verb = "resolve" /\ s.id = r.id /\ s.comment = prd[r.id].comment
    BY <1>3, <2>1
  <2>3. s.comment # None BY <1>2, <2>1, <2>2
  <2>4. r.verb # "add" /\ (r.verb = "resolve" => r.comment \in {None, s.comment})
    BY <1>1, <2>2, <2>3 DEF work!KeepsComments
  <2>5. r.verb = "resolve" => r.comment # s.comment
    <3>1. SUFFICES ASSUME r.verb = "resolve", r.comment = prd[r.id].comment PROVE FALSE
      BY <2>2
    <3>2. r.comment \in work!NewComments \ attached BY <1>2, <1>5, <2>1, <3>1
    <3>3. ~work!OnARow(r.comment) BY <3>2 DEF Place
    <3> QED BY <2>1, <3>1, <3>3 DEF work!OnARow
  <2> QED BY <2>4, <2>5
<1> DEFINE Good == /\ Carriers'
                   /\ r.verb = "resolve" /\ r.comment # None => work!OnARow(r.comment)'
                   /\ \A c \in work!NewComments :
                        IF r.verb = "commit"
                        THEN /\ ~work!OnARow(c)'
                             /\ c \in work!DrainedComments(prd) <=> work!OnARow(c)
                        ELSE r.verb # "resolve" \/ c # r.comment =>
                                 (work!OnARow(c)' <=> work!OnARow(c))
<1>7. CASE r.verb = "add"
  <2>1. /\ DOMAIN prd' = DOMAIN prd \cup {r.id} /\ prd'[r.id].comment = None
        /\ \A i \in DOMAIN prd \ {r.id} : prd'[i] = prd[i]
    <3>1. prd' = work!Added(r, prd) BY <1>1, <1>7, ModifiedIs
    <3> DEFINE new == work!Added(r, prd)
    <3>2. DOMAIN new = DOMAIN prd \cup {r.id} BY <1>1, AddedShape
    <3>3. new[r.id].comment = None BY <1>1, AddedShape
    <3>4. \A i \in DOMAIN prd \ {r.id} : new[i] = prd[i] BY <1>1, AddedShape
    <3> HIDE DEF new
    <3> QED BY <3>1, <3>2, <3>3, <3>4 DEF new
  <2>2. Carriers' BY <1>1, <1>2, <1>3, <2>1 DEF Carriers
  <2>3. \A c \in work!NewComments : work!OnARow(c)' <=> work!OnARow(c)
    BY <1>2, <1>6, <1>7, <2>1 DEF work!OnARow
  <2> QED BY <1>7, <2>2, <2>3
<1>8. CASE r.verb = "defer"
  <2>1. /\ DOMAIN prd' = DOMAIN prd
        /\ \A i \in DOMAIN prd : prd'[i].status = prd[i].status /\ prd'[i].comment = prd[i].comment
    BY <1>1, <1>4, <1>8, ModifiedIs, DeferredShape
  <2>2. Carriers' BY <1>1, <1>3, <2>1 DEF Carriers
  <2>3. \A c \in work!NewComments : work!OnARow(c)' <=> work!OnARow(c)
    BY <2>1 DEF work!OnARow
  <2> QED BY <1>8, <2>2, <2>3
<1>9. CASE r.verb = "resolve"
  <2>1. /\ DOMAIN prd' = DOMAIN prd /\ r.id \in DOMAIN prd
        /\ prd'[r.id].status = "closed"
        /\ prd'[r.id].comment = IF r.comment = None THEN prd[r.id].comment ELSE r.comment
        /\ \A i \in DOMAIN prd \ {r.id} : prd'[i] = prd[i]
    BY <1>1, <1>4, <1>9, ModifiedIs, ResolvedShape
  <2>2. Carriers'
    <3>1. ASSUME NEW i \in DOMAIN prd', prd'[i].comment \in work!NewComments
          PROVE  /\ prd'[i].status = "closed"
                 /\ \E s \in setting.requests :
                        s.verb = "resolve" /\ s.id = i /\ s.comment = prd'[i].comment
      <4>1. CASE i # r.id BY <1>3, <2>1, <3>1, <4>1
      <4>2. CASE i = r.id /\ r.comment = None BY <1>3, <2>1, <3>1, <4>2
      <4>3. CASE i = r.id /\ r.comment # None BY <1>1, <1>9, <2>1, <4>3
      <4> QED BY <4>1, <4>2, <4>3
    <3> QED BY <1>1, <3>1 DEF Carriers
  <2>3. r.comment # None => work!OnARow(r.comment)' BY <2>1 DEF work!OnARow
  <2>4. \A c \in work!NewComments : c # r.comment => (work!OnARow(c)' <=> work!OnARow(c))
    BY <1>2, <1>6, <1>9, <2>1 DEF work!OnARow
  <2>5. \A c \in work!NewComments :
          r.verb # "resolve" \/ c # r.comment => (work!OnARow(c)' <=> work!OnARow(c))
    BY <1>9, <2>4
  <2>6. r.verb # "commit" BY <1>9
  <2>7. ASSUME NEW c \in work!NewComments
        PROVE  IF r.verb = "commit"
               THEN /\ ~work!OnARow(c)'
                    /\ c \in work!DrainedComments(prd) <=> work!OnARow(c)
               ELSE r.verb # "resolve" \/ c # r.comment =>
                        (work!OnARow(c)' <=> work!OnARow(c))
    BY <2>5, <2>6
  <2> QED BY <1>5, <2>2, <2>3, <2>7
<1>10. CASE r.verb = "commit"
  <2>1. /\ DOMAIN prd' = {i \in DOMAIN prd : prd[i].status = "open"}
        /\ \A i \in DOMAIN prd' : prd'[i] = prd[i]
    <3>1. prd' = work!Drained(prd) BY <1>1, <1>10, ModifiedIs
    <3> QED BY <1>1, <3>1, DrainedShape
  <2>2. \A i \in DOMAIN prd' : prd'[i].comment \notin work!NewComments BY <1>3, <2>1
  <2>3. Carriers' BY <2>2 DEF Carriers
  <2>4. \A c \in work!NewComments : ~work!OnARow(c)' BY <2>2 DEF work!OnARow
  <2>5. \A c \in work!NewComments : c \in work!DrainedComments(prd) <=> work!OnARow(c)
    BY <1>2, <1>3 DEF work!OnARow, work!DrainedComments
  <2> QED BY <1>10, <2>3, <2>4, <2>5
<1>11. CASE r.verb = "scan"
  <2>1. prd' = prd BY <1>1, <1>11, ModifiedIs
  <2>2. Carriers' BY <1>1, <2>1 DEF Carriers
  <2>3. \A c \in work!NewComments : work!OnARow(c)' <=> work!OnARow(c)
    BY <2>1 DEF work!OnARow
  <2> QED BY <1>11, <2>2, <2>3
<1>12. Good BY <1>1, <1>7, <1>8, <1>9, <1>10, <1>11, RequestFields
<1> QED BY <1>5, <1>12

LEMMA SwapAccounts ==
    ASSUME RowStoresAssumption, PrdTyped, work!Calm, work!KeepsComments, Brought, Carriers,
           \A c \in work!NewComments : Place(c),
           NEW d \in Dispatches, work!Swap(d)
    PROVE  Brought' /\ Carriers' /\ \A c \in work!NewComments : Place(c)'
<1> PICK r : r = job[d].req OBVIOUS
<1>1. /\ job[d].pc = "swap" /\ prd = job[d].before /\ r \in Requests
      /\ attached' = IF r.verb = "resolve" THEN attached \cup ({r.comment} \ {None})
                     ELSE attached
      /\ delivered' = delivered /\ setting' = setting
      /\ job[d] \in JobType /\ Sound(job[d]) /\ setting \in Settings
      /\ job'[d] = Returned(job[d], TRUE)
  BY SwapMoves DEF PrdTyped, Moved
<1>2. \A e \in Dispatches \ {d} : job'[e] = job[e] BY StepTyped DEF work!Step
<1>3. /\ job'[d].req = r
      /\ r.verb # "commit" => job'[d].pc # "commit"
      /\ r.verb = "commit" => /\ job'[d].pc = "commit"
                              /\ job'[d].drained = work!DrainedComments(prd)
      /\ r.verb = "resolve" => job'[d].pc = "applied"
  <2>1. ~job[d].replay BY <1>1 DEF Sound, work!Calm
  <2>2. Sound(Returned(job[d], TRUE)) /\ Returned(job[d], TRUE).req = r
    BY <1>1, ReturnedShape
  <2>3. /\ r.verb = "commit" => Returned(job[d], TRUE).pc = "commit"
        /\ r.verb = "resolve" => Returned(job[d], TRUE).pc = "applied"
        /\ Returned(job[d], TRUE).pc = "commit" => Returned(job[d], TRUE).drained = job[d].drained
    BY <1>1, <2>1, ReturnedShape
  <2>4. Returned(job[d], TRUE).pc = "commit" => r.verb = "commit" BY <2>2 DEF Sound
  <2>5. r.verb = "commit" => job[d].drained = work!DrainedComments(prd) BY <1>1 DEF Sound
  <2> QED BY <1>1, <2>2, <2>3, <2>4, <2>5
<1>4. /\ Carriers'
      /\ r.verb = "resolve" /\ r.comment # None =>
             r.comment \in work!NewComments \ attached /\ work!OnARow(r.comment)'
      /\ \A c \in work!NewComments :
             IF r.verb = "commit"
             THEN /\ ~work!OnARow(c)'
                  /\ c \in work!DrainedComments(prd) <=> work!OnARow(c)
             ELSE r.verb # "resolve" \/ c # r.comment =>
                      (work!OnARow(c)' <=> work!OnARow(c))
  BY CarriersAfterSwap
<1> DEFINE brings == r.verb = "resolve" /\ r.comment # None
<1>5. /\ brings => attached' = attached \cup {r.comment}
      /\ ~brings => attached' = attached
  BY <1>1
<1>6. Brought'
  <2>1. CASE ~brings BY <1>5, <2>1, BroughtStays DEF work!Step
  <2>2. CASE brings
    <3>1. \A c \in work!NewComments : \A e, f \in Dispatches :
            Brings(e, c)' /\ Brings(f, c)' => e = f
      <4>1. \A c, e : e \in Dispatches /\ Brings(e, c)' => Brings(e, c)
        BY <1>1, <1>2, <1>3 DEF Brings
      <4> QED BY <4>1 DEF Brought
    <3>2. attached' \subseteq work!NewComments BY <1>4, <1>5, <2>2 DEF Brought
    <3>3. \A c \in attached' : \E e \in Dispatches :
            job'[e].pc = "applied" /\ job'[e].req.comment = c
      <4>1. ASSUME NEW c \in attached
            PROVE  \E e \in Dispatches : job'[e].pc = "applied" /\ job'[e].req.comment = c
        <5>1. PICK e \in Dispatches : job[e].pc = "applied" /\ job[e].req.comment = c
          BY DEF Brought
        <5>2. e # d BY <1>1, <5>1
        <5> QED BY <1>2, <5>1, <5>2
      <4>2. job'[d].pc = "applied" /\ job'[d].req.comment = r.comment BY <1>3, <2>2
      <4> QED BY <1>5, <2>2, <4>1, <4>2
    <3> QED BY <3>1, <3>2, <3>3 DEF Brought
  <2> QED BY <2>1, <2>2
<1>7. ASSUME NEW c \in work!NewComments PROVE Place(c)'
  <2>1. /\ \A e \in Dispatches \ {d} : Flies(e, c)' <=> Flies(e, c)
        /\ ~Flies(d, c)
        /\ Flies(d, c)' <=> r.verb = "commit" /\ c \in work!DrainedComments(prd)
    BY <1>1, <1>2, <1>3 DEF Flies
  <2>2. /\ work!InFlight(c) <=> \E e \in Dispatches : Flies(e, c)
        /\ work!InFlight(c)' <=> \E e \in Dispatches : Flies(e, c)'
    BY DEF work!InFlight, Flies
  <2>3. Place(c) OBVIOUS
  <2>4. CASE r.verb = "commit"
    <3>1. attached' = attached BY <1>1, <2>4
    <3>2. ~work!OnARow(c)' BY <1>4, <2>4
    <3>3. Flies(d, c)' <=> work!OnARow(c) BY <1>4, <2>1, <2>4
    <3> QED BY <1>1, <2>1, <2>2, <2>3, <3>1, <3>2, <3>3 DEF Place
  <2>5. CASE r.verb # "commit"
    <3>1. /\ work!InFlight(c)' <=> work!InFlight(c)
          /\ \A e \in Dispatches : Flies(e, c)' <=> Flies(e, c)
      BY <2>1, <2>2, <2>5
    <3>2. CASE ~(brings /\ c = r.comment)
      <4>1. work!OnARow(c)' <=> work!OnARow(c)
        BY <1>4, <2>5, <3>2 DEF work!NewComments
      <4>2. c \in attached' <=> c \in attached BY <1>5, <3>2
      <4> QED BY <1>1, <2>3, <3>1, <4>1, <4>2 DEF Place
    <3>3. CASE brings /\ c = r.comment
      <4>1. c \in attached' /\ c \notin attached /\ work!OnARow(c)' BY <1>4, <1>5, <3>3
      <4> QED BY <1>1, <2>3, <3>1, <4>1 DEF Place
    <3> QED BY <3>2, <3>3
  <2> QED BY <2>4, <2>5
<1> QED BY <1>4, <1>6, <1>7

LEMMA LandingAccounts ==
    ASSUME RowStoresAssumption, PrdTyped, work!Calm, Brought, Carriers,
           \A c \in work!NewComments : Place(c),
           NEW d \in Dispatches, work!CommitLands(d)
    PROVE  Brought' /\ Carriers' /\ \A c \in work!NewComments : Place(c)'
<1>1. /\ job[d].pc = "commit" /\ UNCHANGED <<setting, prd, marker, attached>>
      /\ delivered' = [c \in Comments |->
                         IF c \in job[d].drained THEN delivered[c] + 1 ELSE delivered[c]]
  BY CommitLandsMoves
<1>2. \A e \in Dispatches \ {d} : job'[e] = job[e] BY StepTyped DEF work!Step
<1>3. job'[d].pc = "applied"
  <2>1. PICK new : Moved(d, new) /\ new.pc = "applied" BY CommitLandsMoves DEF work!Calm
  <2> QED BY <2>1 DEF Moved, PrdTyped
<1>4. Brought' BY <1>1, BroughtStays DEF work!Step
<1>5. Carriers' BY <1>1 DEF Carriers
<1>6. work!NewComments \subseteq Comments BY RequestFields DEF work!NewComments
<1>7. ASSUME NEW c \in work!NewComments PROVE Place(c)'
  <2>1. /\ \A e \in Dispatches \ {d} : Flies(e, c)' <=> Flies(e, c)
        /\ ~Flies(d, c)'
        /\ Flies(d, c) <=> c \in job[d].drained
    BY <1>1, <1>2, <1>3 DEF Flies
  <2>2. /\ work!InFlight(c) <=> \E e \in Dispatches : Flies(e, c)
        /\ work!InFlight(c)' <=> \E e \in Dispatches : Flies(e, c)'
    BY DEF work!InFlight, Flies
  <2>3. work!OnARow(c)' <=> work!OnARow(c) BY <1>1 DEF work!OnARow
  <2>4. Place(c) OBVIOUS
  <2>5. delivered'[c] = IF Flies(d, c) THEN delivered[c] + 1 ELSE delivered[c]
    BY <1>1, <1>6, <2>1
  <2> QED BY <1>1, <2>1, <2>2, <2>3, <2>4, <2>5 DEF Place
<1> QED BY <1>4, <1>5, <1>7

LEMMA CarriedStays ==
    ASSUME RowStoresAssumption, PrdTyped, Losses, Carried, NEW d \in Dispatches,
           work!Step(d) \/ \E r \in Requests : work!Start(d, r)
    PROVE  Carried'
<1>1. setting' = setting BY StepGoesOn DEF work!Start
<1>2. (work!Calm' <=> work!Calm) /\ (work!KeepsComments' <=> work!KeepsComments)
  BY <1>1 DEF work!Calm, work!KeepsComments
<1> SUFFICES ASSUME work!Calm, work!KeepsComments, Brought, Carriers,
                    \A c \in work!NewComments : Place(c)
             PROVE  Carried'
  BY <1>2 DEF Carried
<1> USE DEF shared
<1>3. ASSUME NEW new, Moved(d, new) PROVE job'[d] = new
  BY <1>3 DEF Moved, PrdTyped
<1>4. CASE \E r \in Requests : work!Start(d, r)
  <2>1. PICK r \in Requests : work!Start(d, r) BY <1>4
  <2>2. PICK new : Moved(d, new) /\ new.pc # "commit" BY <2>1, StartMoves
  <2> QED BY <1>3, <2>1, <2>2, CarriedKept DEF work!Start
<1>5. CASE work!CheckWitness(d)
  <2>1. PICK new : Moved(d, new) /\ new.pc # "commit" BY <1>5, CheckMoves
  <2> QED BY <1>3, <1>5, <2>1, CheckMoves, CarriedKept
<1>6. CASE work!Read(d)
  <2>1. PICK new : Moved(d, new) /\ new.pc # "commit" BY <1>6, ReadMoves
  <2> QED BY <1>3, <1>6, <2>1, ReadMoves, CarriedKept
<1>7. CASE work!Swap(d) BY <1>2, <1>7, SwapAccounts DEF Carried
<1>8. CASE work!SwapFailed(d)
  <2>1. /\ UNCHANGED shared /\ job[d].pc = "swap" /\ prd # job[d].before
    BY <1>8, SwapFailedMoves DEF work!Calm
  <2>2. PICK new : /\ Moved(d, new)
                   /\ new.pc = "read" \/ job[d].attempt >= setting.attempts
    BY <1>8, SwapFailedMoves
  <2>3. job[d].attempt < setting.attempts
    <3>1. /\ job[d].attempt \in 0 .. setting.attempts /\ setting.attempts \in Nat
          /\ job[d].attempt # setting.attempts
      BY <2>1, LastAttemptWins, HostShape DEF PrdTyped, JobType, work!NoContentionFailure
    <3> QED BY <3>1
  <2>4. new.pc = "read"
    <3>1. job[d].attempt \in 0 .. setting.attempts /\ setting.attempts \in Nat
      BY HostShape DEF PrdTyped, JobType
    <3> QED BY <2>2, <2>3, <3>1
  <2> QED BY <1>3, <1>8, <2>1, <2>2, <2>4, CarriedKept
<1>9. CASE work!Invalidate(d)
  <2>1. PICK new : Moved(d, new) /\ new.pc # "commit" BY <1>9, InvalidateMoves
  <2> QED BY <1>3, <1>9, <2>1, InvalidateMoves, CarriedKept
<1>10. CASE work!CommitLands(d) BY <1>2, <1>10, LandingAccounts DEF Carried
<1>11. CASE work!CommitFails(d) BY <1>11, CommitFailsMoves DEF work!Calm
<1>12. CASE work!ScanPrd(d) \/ work!ScanSkip(d) \/ work!ScanFire(d)
  <2>1. PICK new : Moved(d, new) /\ new.pc # "commit" BY <1>12, ScanMoves
  <2> QED BY <1>3, <1>12, <2>1, ScanMoves, CarriedKept
<1> QED BY <1>4, <1>5, <1>6, <1>7, <1>8, <1>9, <1>10, <1>11, <1>12 DEF work!Step

-----------------------------------------------------------------------------
(* Atomicity *)

Outcomes == [d \in Dispatches |-> work!Outcome(d)]

\* The abstract specification computes the rows as the work list does.
LEMMA SameRowsComputed ==
    ASSUME NEW r, NEW rows
    PROVE  /\ work!Atomic!Modified(r, rows) = work!Modified(r, rows)
           /\ work!Atomic!Unknown(r, rows) <=> work!Unknown(r, rows)
<1>1. work!Atomic!Modified(r, rows) = work!Modified(r, rows)
  BY Zenon DEF work!Atomic!Modified, work!Modified, work!Atomic!Added, work!Added,
     work!Atomic!Deferred, work!Deferred, work!Atomic!Resolved, work!Resolved,
     work!Atomic!Drained, work!Drained
<1>2. work!Atomic!Unknown(r, rows) <=> work!Unknown(r, rows)
  BY DEF work!Atomic!Unknown, work!Unknown
<1> QED BY <1>1, <1>2

LEMMA OthersKeepOutcome ==
    ASSUME RowStoresAssumption, PrdTyped, NEW d \in Dispatches,
           \A e \in Dispatches \ {d} : job'[e] = job[e]
    PROVE  Outcomes' = [Outcomes EXCEPT ![d] = work!Outcome(d)']
<1>1. \A e \in Dispatches \ {d} : work!Outcome(e)' = work!Outcome(e)
  BY DEF work!Outcome
<1>2. Outcomes' = [e \in Dispatches |-> IF e = d THEN work!Outcome(d)' ELSE work!Outcome(e)]
  BY <1>1 DEF Outcomes
<1> QED BY <1>2 DEF Outcomes

LEMMA StepIsAtomic ==
    ASSUME RowStoresAssumption, PrdTyped, Losses, work!Calm, NEW d \in Dispatches,
           work!Step(d) \/ \E r \in Requests : work!Start(d, r)
    PROVE  work!Atomic!ANext \/ UNCHANGED work!Atomic!avars
<1> USE DEF shared
<1> DEFINE old == work!Outcome(d)
           Same == prd' = prd /\ work!Outcome(d)' = old
           Refused == prd' = prd /\ old = "pending" /\ work!Outcome(d)' = "refused"
           Applied == /\ old = "pending" /\ work!Outcome(d)' = "applied"
                      /\ \E r \in Requests : /\ ~work!Unknown(r, prd)
                                             /\ prd' = work!Modified(r, prd)
<1>1. Outcomes' = [Outcomes EXCEPT ![d] = work!Outcome(d)'] BY StepTyped, OthersKeepOutcome
<1>2. Same => UNCHANGED work!Atomic!avars
  <2>1. SUFFICES ASSUME Same PROVE UNCHANGED work!Atomic!avars OBVIOUS
  <2>2. Outcomes' = Outcomes BY <1>1, <2>1 DEF Outcomes
  <2> QED BY <2>1, <2>2 DEF work!Atomic!avars, Outcomes
<1>3. Refused => work!Atomic!Refuse(d)
  BY <1>1 DEF work!Atomic!Refuse, Outcomes
<1>4. Applied => work!Atomic!Apply(d)
  BY <1>1, SameRowsComputed DEF work!Atomic!Apply, Outcomes
<1>5. SUFFICES Same \/ Refused \/ Applied BY <1>2, <1>3, <1>4 DEF work!Atomic!ANext
<1>6. ~job[d].replay /\ ~setting.parks /\ ~setting.faulty
  BY DEF PrdTyped, Sound, work!Calm
<1>7. /\ job[d].pc \in {"idle", "check", "read", "swap", "scan", "mark"} => old = "pending"
      /\ job[d].pc \in {"invalidate", "commit"} => old = "applied"
  BY <1>6 DEF work!Outcome
<1>8. ASSUME NEW new, Moved(d, new), ~new.replay
      PROVE  /\ new.pc = "refused" => work!Outcome(d)' = "refused"
             /\ new.pc \in {"applied", "invalidate", "commit"} => work!Outcome(d)' = "applied"
             /\ new.pc \in {"check", "read", "swap", "scan", "mark"} => work!Outcome(d)' = "pending"
  <2>1. job'[d] = new BY <1>8 DEF Moved, PrdTyped
  <2> QED BY <1>8, <2>1 DEF work!Outcome
<1> HIDE DEF old
<1>9. CASE \E r \in Requests : work!Start(d, r)
  <2>1. PICK r \in Requests : work!Start(d, r) BY <1>9
  <2>2. PICK new : Moved(d, new) /\ ~new.replay /\ new.pc \in {"check", "scan", "read"}
    BY <2>1, StartMoves
  <2> QED BY <1>7, <1>8, <2>1, <2>2 DEF work!Start
<1>10. CASE work!CheckWitness(d)
  <2>1. PICK new : Moved(d, new) /\ ~new.replay /\ new.pc \in {"refused", "read"}
    BY <1>10, CheckMoves
  <2> QED BY <1>7, <1>8, <1>10, <2>1, CheckMoves
<1>11. CASE work!Read(d)
  <2>1. PICK new : Moved(d, new) /\ ~new.replay /\ new.pc \in {"refused", "swap"}
    BY <1>6, <1>11, ReadMoves
  <2> QED BY <1>7, <1>8, <1>11, <2>1, ReadMoves
<1>12. CASE work!Swap(d)
  <2>1. /\ job[d] \in JobType /\ Sound(job[d]) /\ setting \in Settings /\ job[d].pc = "swap"
        /\ Moved(d, Returned(job[d], TRUE)) /\ job[d].req \in Requests
        /\ ~work!Unknown(job[d].req, prd) /\ prd' = work!Modified(job[d].req, prd)
    BY <1>12, SwapMoves DEF PrdTyped
  <2>2. /\ Returned(job[d], TRUE).pc \in {"commit", "invalidate"} \cup work!Finished
        /\ Returned(job[d], TRUE).pc # "refused" /\ ~Returned(job[d], TRUE).replay
    BY <2>1, ReturnedShape
  <2>3. Returned(job[d], TRUE).pc \in {"applied", "invalidate", "commit"}
    BY <2>2 DEF work!Finished
  <2>4. work!Outcome(d)' = "applied" BY <1>8, <2>1, <2>2, <2>3
  <2> QED BY <1>7, <2>1, <2>4
<1>13. CASE work!SwapFailed(d)
  <2>1. /\ UNCHANGED shared /\ job[d].pc = "swap" /\ prd # job[d].before
    BY <1>6, <1>13, SwapFailedMoves
  <2>2. PICK new : /\ Moved(d, new)
                   /\ \/ new.pc = "read" /\ new.replay = job[d].replay
                      \/ job[d].attempt >= setting.attempts
    BY <1>13, SwapFailedMoves
  <2>3. /\ job[d].attempt \in 0 .. setting.attempts /\ setting.attempts \in Nat
        /\ job[d].attempt # setting.attempts
    BY <2>1, LastAttemptWins, HostShape DEF PrdTyped, JobType, work!NoContentionFailure
  <2>4. new.pc = "read" /\ ~new.replay BY <1>6, <2>2, <2>3
  <2> QED BY <1>7, <1>8, <2>1, <2>2, <2>4
<1>14. CASE work!Invalidate(d)
  <2>1. PICK new : Moved(d, new) /\ ~new.replay /\ new.pc = "applied"
    BY <1>14, InvalidateMoves
  <2> QED BY <1>7, <1>8, <1>14, <2>1, InvalidateMoves
<1>15. CASE work!CommitLands(d)
  <2>1. PICK new : Moved(d, new) /\ ~new.replay /\ new.pc = "applied"
    BY <1>6, <1>15, CommitLandsMoves
  <2> QED BY <1>7, <1>8, <1>15, <2>1, CommitLandsMoves
<1>16. CASE work!CommitFails(d) BY <1>6, <1>16, CommitFailsMoves
<1>17. CASE work!ScanPrd(d) \/ work!ScanSkip(d) \/ work!ScanFire(d)
  <2>1. /\ UNCHANGED prd /\ job[d].pc \in {"scan", "mark"} /\ job[d].req.verb = "scan"
    BY <1>17, ScanMoves
  <2>2. PICK new : Moved(d, new) /\ ~new.replay /\ new.pc \in {"refused", "mark", "applied"}
    BY <1>17, ScanMoves
  <2>3. job[d].req \in Requests BY <2>1, HostShape DEF PrdTyped, Sound
  <2>4. ~work!Unknown(job[d].req, prd) /\ prd = work!Modified(job[d].req, prd)
    BY <2>1, <2>3, ModifiedIs DEF work!Unknown
  <2> QED BY <1>7, <1>8, <2>1, <2>2, <2>3, <2>4
<1> QED BY <1>9, <1>10, <1>11, <1>12, <1>13, <1>14, <1>15, <1>16, <1>17 DEF work!Step

-----------------------------------------------------------------------------
(* Both files *)

RowsInv ==
    /\ IInv /\ PrdTyped /\ Solo /\ Vouched /\ Losses /\ Carried
    /\ using = "mutables" => prd = work!NoRows

LEMMA PrdAtStart ==
    ASSUME RowStoresAssumption, work!Init
    PROVE  PrdTyped /\ Solo /\ Vouched /\ Losses /\ Carried
<1>1. /\ setting \in Settings /\ prd \in work!Prds /\ marker = FALSE /\ attached = {}
      /\ job = [d \in Dispatches |-> work!Idle]
      /\ delivered = [c \in Comments |-> 0]
      /\ \A i \in DOMAIN prd : prd[i].comment \notin work!NewComments
  BY DEF work!Init, RowStoresAssumption, work!RowsAssumption
<1>2. \A d \in Dispatches : job[d].pc = "idle" BY <1>1 DEF work!Idle
<1>3. PrdTyped BY <1>1, NothingYet DEF PrdTyped
<1>4. Solo BY <1>2 DEF Solo, Busy
<1>5. Vouched BY <1>1, <1>2 DEF Vouched
<1>6. Losses
  <2>1. work!Started = {} BY <1>2 DEF work!Started
  <2>2. Cardinality({}) = 0 BY FS_EmptySet
  <2>3. setting.dispatches \in Nat BY <1>1, HostShape
  <2> QED BY <1>2, <2>1, <2>2, <2>3 DEF Losses
<1>7. work!NewComments \subseteq Comments BY RequestFields DEF work!NewComments
<1>8. Carried
  BY <1>1, <1>2, <1>7 DEF Carried, Brought, Brings, Carriers, Place, Flies, work!OnARow,
     work!InFlight
<1> QED BY <1>3, <1>4, <1>5, <1>6, <1>8

LEMMA InitRowsInv ==
    ASSUME RowStoresAssumption, RowsInit
    PROVE  RowsInv
<1>1. Init /\ work!Init /\ (using = "mutables" => prd = work!NoRows)
  BY DEF RowsInit
<1> QED BY <1>1, InitIInv, PrdAtStart DEF RowsInv

\* A step on the obligations changes the marker alone of what the work list looks at.
LEMMA ObligationsKeepRowsInv ==
    ASSUME RowStoresAssumption, RowsInv, Obligations
    PROVE  RowsInv' /\ UNCHANGED rest
<1>1. /\ FreshNext /\ UNCHANGED <<setting, prd, job, attached, delivered, using>>
      /\ prd = work!NoRows
  BY DEF Obligations, RowsInv, rest
<1>2. IInv' BY <1>1, StepKeepsIInv DEF RowsInv
<1>3. marker' \in BOOLEAN BY <1>2 DEF IInv, TypeOK
<1>4. PrdTyped'
  BY <1>1, <1>3 DEF RowsInv, PrdTyped, JobType, Pcs, Sound
<1>5. Solo' BY <1>1 DEF RowsInv, Solo, Busy
<1>6. work!OpenIds(prd') = {}
  <2>1. DOMAIN prd' = {} BY <1>1 DEF work!NoRows
  <2> QED BY <2>1 DEF work!OpenIds
<1>7. Vouched' BY <1>6 DEF Vouched
<1>8. Losses' BY <1>1 DEF RowsInv, Losses, Done, work!Started
<1>9. Carried'
  BY <1>1 DEF RowsInv, Carried, Brought, Brings, Carriers, Place, Flies, work!OnARow,
     work!InFlight, work!Calm, work!KeepsComments
<1> QED BY <1>1, <1>2, <1>4, <1>5, <1>7, <1>8, <1>9 DEF RowsInv, rest

LEMMA WorkKeepsRowsInv ==
    ASSUME RowStoresAssumption, RowsInv, Work
    PROVE  RowsInv'
<1>1. PICK d \in Dispatches : work!Step(d) \/ \E r \in Requests : work!Start(d, r)
  BY DEF Work, work!Next
<1>2. UNCHANGED <<muts, remembered, using>> /\ using = "prd" BY DEF Work
<1>3. PrdTyped' /\ Solo' /\ Vouched' /\ Losses' /\ Carried'
  BY <1>1, StepTyped, SoloKept, MarkerStaysSound, LossesStay, CarriedStays DEF RowsInv
<1>4. IInv'
  BY <1>2, <1>3, SameObligations DEF RowsInv, PrdTyped
<1> QED BY <1>2, <1>3, <1>4 DEF RowsInv

LEMMA StepKeepsRowsInv ==
    ASSUME RowStoresAssumption
    PROVE  RowsInv /\ [Obligations \/ Work]_all => RowsInv'
<1> SUFFICES ASSUME RowsInv, [Obligations \/ Work]_all PROVE RowsInv'
  OBVIOUS
<1>1. CASE Obligations BY <1>1, ObligationsKeepRowsInv
<1>2. CASE Work BY <1>2, WorkKeepsRowsInv
<1>3. CASE UNCHANGED all
  <2>1. UNCHANGED <<muts, marker, remembered, setting, prd, job, attached, delivered, using>>
    BY <1>3 DEF all, vars, rest
  <2>2. IInv' BY <2>1, SameObligations DEF RowsInv, IInv, TypeOK
  <2>3. PrdTyped' BY <2>1 DEF RowsInv, PrdTyped, JobType, Pcs, Sound
  <2>4. Solo' /\ Vouched' BY <2>1 DEF RowsInv, Solo, Busy, Vouched, work!OpenIds
  <2>5. Losses' BY <2>1 DEF RowsInv, Losses, Done, work!Started
  <2>6. Carried'
    BY <2>1 DEF RowsInv, Carried, Brought, Brings, Carriers, Place, Flies, work!OnARow,
       work!InFlight, work!Calm, work!KeepsComments
  <2> QED BY <2>1, <2>2, <2>3, <2>4, <2>5, <2>6 DEF RowsInv
<1> QED BY <1>1, <1>2, <1>3

LEMMA RowsInvariant ==
    ASSUME RowStoresAssumption
    PROVE  RowsSpec => []RowsInv
<1>1. RowsInit => RowsInv BY InitRowsInv
<1>2. RowsInv /\ [Obligations \/ Work]_all => RowsInv' BY StepKeepsRowsInv
<1> QED BY <1>1, <1>2, PTL DEF RowsSpec

-----------------------------------------------------------------------------
\* Both files keep their shape, and what a dispatch holds fits its step.
THEOREM RowsTypeCorrect ==
    ASSUME RowStoresAssumption
    PROVE  RowsSpec => [](TypeOK /\ work!TypeOK)
<1>1. ASSUME RowsInv PROVE TypeOK /\ work!TypeOK
  <2>1. TypeOK /\ PrdTyped BY <1>1 DEF RowsInv, IInv
  <2>2. \A d \in Dispatches : job[d] \in JobType BY <2>1 DEF PrdTyped
  <2>3. work!TypeOK BY <2>1, <2>2 DEF work!TypeOK, PrdTyped, JobType, Pcs
  <2> QED BY <2>1, <2>3
<1> QED BY <1>1, RowsInvariant, PTL

\* With fresh ids, as long as an obligation is unresolved, handle_resolve
\* accepts some unresolved id: its cycle check suffices, for every set of ids.
THEOREM ObligationsCanBeDischarged ==
    ASSUME RowStoresAssumption
    PROVE  RowsSpec => []NoCircularWait
<1>1. RowsInv => NoCircularWait BY IInvImpliesNoCircularWait DEF RowsInv
<1> QED BY <1>1, RowsInvariant, PTL

\* An open phase gate vouches for the obligations of its phase: handle_resolve
\* refuses a pending one only because of rows that have been deferred.
THEOREM OpenGatesVouch ==
    ASSUME RowStoresAssumption
    PROVE  RowsSpec => []ReadyMeansWitnessable
<1>1. RowsInv => ReadyMeansWitnessable BY GateVouches DEF RowsInv
<1> QED BY <1>1, RowsInvariant, PTL

\* However many dispatches run at once, with an attempt for each of them a write
\* is never given up for contention.
THEOREM NoWriteIsGivenUp ==
    ASSUME RowStoresAssumption
    PROVE  RowsSpec => []NoContentionFailure
<1>1. RowsInv => NoContentionFailure
  BY LastAttemptWins DEF RowsInv, NoContentionFailure
<1> QED BY <1>1, RowsInvariant, PTL

\* A commit_comment is on its row, in a commit that is being made, or in exactly one
\* that has been made.
THEOREM CommentsAreToldOnce ==
    ASSUME RowStoresAssumption
    PROVE  RowsSpec => []CommentsAccounted
<1>1. RowsInv => CommentsAccounted
  BY CarriedMeansAccounted DEF RowsInv, CommentsAccounted
<1> QED BY <1>1, RowsInvariant, PTL

\* Between dispatches that run one after another, a fired marker vouches for a work
\* list without open rows.
THEOREM MarkerCanBeTrusted ==
    ASSUME RowStoresAssumption
    PROVE  RowsSpec => []MarkerVouches
<1>1. ASSUME RowsInv PROVE work!MarkerVouches
  <2>1. Vouched BY <1>1 DEF RowsInv
  <2> QED BY <2>1 DEF Vouched, work!MarkerVouches, work!Finished
<1>2. RowsInv => MarkerVouches BY <1>1 DEF MarkerVouches
<1> QED BY <1>2, RowsInvariant, PTL

\* The rows the file may start with close no two on the same evidence.
InitiallyDistinct ==
    \A rows \in InitialRows : \A i, k \in DOMAIN rows :
        rows[i].witness = rows[k].witness => i = k \/ rows[i].witness = None

\* Dispatches that run one after another close no two rows on the same evidence.
THEOREM EvidenceIsNotShared ==
    ASSUME RowStoresAssumption, InitiallyDistinct
    PROVE  RowsSpec => []WitnessesDistinct
<1>1. ASSUME RowsInit PROVE Distinct
  <2>1. work!Init BY <1>1 DEF RowsInit
  <2>2. \A d \in Dispatches : job[d].pc = "idle" BY <2>1 DEF work!Init, work!Idle
  <2> QED BY <2>1, <2>2 DEF work!Init, InitiallyDistinct, Distinct
<1>2. ASSUME RowsInv, Distinct, [Obligations \/ Work]_all PROVE Distinct'
  <2>1. CASE Work
    <3>1. PICK d \in Dispatches : work!Step(d) \/ \E r \in Requests : work!Start(d, r)
      BY <2>1 DEF Work, work!Next
    <3> QED BY <1>2, <3>1, RowsStayDistinct DEF RowsInv
  <2>2. CASE Obligations \/ UNCHANGED all
    <3>1. UNCHANGED <<setting, prd, job>> BY <2>2 DEF Obligations, all, rest
    <3> QED BY <1>2, <3>1 DEF Distinct, work!DuplicateWitness
  <2> QED BY <1>2, <2>1, <2>2
<1>3. Distinct => WitnessesDistinct
  BY DEF Distinct, WitnessesDistinct, work!WitnessesDistinct
<1>4. RowsSpec => [](RowsInv /\ Distinct)
  <2>1. RowsInit => RowsInv /\ Distinct BY <1>1, InitRowsInv
  <2>2. (RowsInv /\ Distinct) /\ [Obligations \/ Work]_all => (RowsInv /\ Distinct)'
    BY <1>2, StepKeepsRowsInv
  <2> QED BY <2>1, <2>2, PTL DEF RowsSpec
<1> QED BY <1>3, <1>4, PTL

\* prd-add, prd-defer, prd-resolve and the drain, with their reads and retried swaps,
\* implement verbs that take effect in one step or not at all.
THEOREM WritesAreAtomic ==
    ASSUME RowStoresAssumption
    PROVE  RowsSpec => ImplementsAtomicPrd
<1>1. RowsInit => work!Atomic!AInit
  <2>1. SUFFICES ASSUME RowsInit PROVE work!Atomic!AInit OBVIOUS
  <2>2. work!Init BY <2>1 DEF RowsInit
  <2>3. \A d \in Dispatches : work!Outcome(d) = "pending"
    BY <2>2 DEF work!Init, work!Idle, work!Outcome
  <2> QED BY <2>2, <2>3 DEF work!Init, work!Atomic!AInit
<1>2. RowsInv /\ [Obligations \/ Work]_all
        => [~work!Calm \/ work!Atomic!ANext]_(work!Atomic!avars)
  <2>1. SUFFICES ASSUME RowsInv, [Obligations \/ Work]_all, work!Calm
                 PROVE  work!Atomic!ANext \/ UNCHANGED work!Atomic!avars
    OBVIOUS
  <2>2. CASE Work
    <3>1. PICK d \in Dispatches : work!Step(d) \/ \E r \in Requests : work!Start(d, r)
      BY <2>2 DEF Work, work!Next
    <3> QED BY <2>1, <3>1, StepIsAtomic DEF RowsInv
  <2>3. CASE Obligations \/ UNCHANGED all
    <3>1. prd' = prd /\ job' = job BY <2>3 DEF Obligations, all, rest
    <3> QED BY <3>1 DEF work!Atomic!avars, work!Outcome
  <2> QED BY <2>1, <2>2, <2>3
<1>3. RowsSpec => work!Atomic!AInit /\ [][~work!Calm \/ work!Atomic!ANext]_(work!Atomic!avars)
  BY <1>1, <1>2, RowsInvariant, PTL DEF RowsSpec
<1> QED BY <1>3 DEF ImplementsAtomicPrd, work!ImplementsAtomicPrd
=============================================================================
