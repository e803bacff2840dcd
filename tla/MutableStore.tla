----------------------------- MODULE MutableStore -----------------------------
(***************************************************************************)
(* .gm/mutables.yml, the proof obligations a chain of work must discharge  *)
(* (orchestrator/mutables.rs), and the gates that read it.                 *)
(*                                                                         *)
(* A write is one step: cas_retry_write is atomic, as PrdStore shows, and  *)
(* no handler here decides anything outside its closure.  handle_add       *)
(* appends without looking whether the id is taken, so the rows are a      *)
(* sequence in which an id may occur twice.  Requests refused before a     *)
(* host call (no evidence, deferral language) change nothing and are left  *)
(* out; so is a body that supplies a status of its own.                    *)
(***************************************************************************)
EXTENDS Naturals, Sequences

CONSTANTS
    Ids,
    Kinds,          \* the obligation_kind texts a body may carry
    None,           \* no obligation_kind
    ProveKinds, StateKinds,
    MaxRows         \* bound on the rows, for model checking

ASSUME KindsAssumption ==
    /\ None \notin Kinds
    /\ ProveKinds \cap StateKinds = {}
ASSUME BoundAssumption == MaxRows \in Nat

VARIABLES
    muts,           \* .gm/mutables.yml
    marker,         \* a fired .gm/residual-check-fired
    remembered      \* resolved ids whose evidence memorize has stored

vars == <<muts, marker, remembered>>

Rows == [id : Ids, status : {"unknown", "witnessed"}, deferred : BOOLEAN,
         kind : Kinds \cup {None}, depends_on : SUBSET Ids]

TypeOK == /\ muts \in Seq(Rows)
          /\ marker \in BOOLEAN
          /\ remembered \subseteq Ids

Init == muts = <<>> /\ marker = FALSE /\ remembered = {}

-----------------------------------------------------------------------------
RowsOf(i) == {n \in DOMAIN muts : muts[n].id = i}
Known == {muts[n].id : n \in DOMAIN muts}

\* Every row that is not resolved, deferred ones included: what handle_resolve
\* holds a dependency against.
UnresolvedIds == {muts[n].id : n \in {m \in DOMAIN muts : muts[m].status = "unknown"}}

Blockers(n) == (muts[n].depends_on \cap UnresolvedIds) \ {muts[n].id}

\* The map handle_add builds: a later row of an id replaces an earlier one,
\* and the new row is already in it.
Dependencies(i, new) ==
    [k \in Ids |->
        IF k = i THEN new
        ELSE UNION {muts[n].depends_on :
                      n \in {m \in RowsOf(k) : \A l \in RowsOf(k) : l <= m}}]

Closed(S, deps) == \A k \in S : deps[k] \subseteq S

Reachable(i, deps) ==
    {k \in Ids : \A S \in SUBSET Ids : i \in S /\ Closed(S, deps) => k \in S}

\* find_cycle: the walk from i meets a node on its own path, that is, i
\* reaches ids that lead only into each other again.
FindCycle(i, deps) ==
    \E S \in SUBSET Reachable(i, deps) :
        S # {} /\ \A k \in S : deps[k] \cap S # {}

\* Mutant: only the new row's own direct dependencies are looked at.
AcceptableDirect(i, new) == i \notin new

Acceptable(i, new) == new = {} \/ ~FindCycle(i, Dependencies(i, new))

Add(i, kind, new) ==
    /\ Len(muts) < MaxRows
    /\ Acceptable(i, new)
    /\ muts' = Append(muts, [id |-> i, status |-> "unknown", deferred |-> FALSE,
                             kind |-> kind, depends_on |-> new])
    /\ marker' = FALSE
    /\ UNCHANGED remembered

\* A measured value above the bound of a resource-bound row refuses it.
Exceeded(n, exceeds) == exceeds /\ muts[n].kind = "resource-bound"

\* Every row of the id is witnessed, or none; memorize::handle_fire follows
\* and its failure is ignored.
Resolve(i, exceeds) ==
    /\ RowsOf(i) # {}
    /\ \A n \in RowsOf(i) : Blockers(n) = {} /\ ~Exceeded(n, exceeds)
    /\ muts' = [n \in DOMAIN muts |->
                  IF n \in RowsOf(i) THEN [muts[n] EXCEPT !.status = "witnessed"]
                                     ELSE muts[n]]
    /\ remembered' \in {remembered, remembered \cup {i}}
    /\ UNCHANGED marker

Defer(i) ==
    /\ RowsOf(i) # {}
    /\ muts' = [n \in DOMAIN muts |->
                  IF n \in RowsOf(i) THEN [muts[n] EXCEPT !.deferred = TRUE]
                                     ELSE muts[n]]
    /\ marker' = FALSE
    /\ UNCHANGED remembered

\* residual-scan, whose own checks do not read mutables.yml.
ScanFires == marker' = TRUE /\ UNCHANGED <<muts, remembered>>

Change(i) == (\E x \in BOOLEAN : Resolve(i, x)) \/ Defer(i)

AddAny(i) == \E k \in Kinds \cup {None}, D \in SUBSET Ids : Add(i, k, D)

Next == (\E i \in Ids : AddAny(i) \/ Change(i)) \/ ScanFires

Spec == Init /\ [][Next]_vars

\* Bodies that always bring an id nobody has used: what a caller that names a
\* row once does, and handle_add does not enforce.
FreshNext ==
    (\E i \in Ids : (i \notin Known /\ AddAny(i)) \/ Change(i)) \/ ScanFires

FreshSpec == Init /\ [][FreshNext]_vars

-----------------------------------------------------------------------------
\* pending_detailed: neither resolved nor blocked externally.
Pending == {n \in DOMAIN muts : muts[n].status = "unknown" /\ ~muts[n].deferred}
PendingIds == {muts[n].id : n \in Pending}

\* obligations_ready: a row without a kind counts as PROVE's, and a kind that
\* no list holds is in nobody's scope.
InScope(n, kinds) == muts[n].kind \in kinds \/ (muts[n].kind = None /\ kinds = ProveKinds)

\* Mutant: a dependency counts only if the same phase owns it.
ObligationBlockersInPhase(kinds) ==
    {n \in Pending :
        /\ InScope(n, kinds)
        /\ \/ muts[n].kind = None
           \/ \E m \in Pending : muts[m].id \in muts[n].depends_on /\ InScope(m, kinds)}

ObligationBlockers(kinds) ==
    {n \in Pending : /\ InScope(n, kinds)
                     /\ \/ muts[n].kind = None
                        \/ muts[n].depends_on \cap PendingIds # {}}

ObligationsReady(kinds) == ObligationBlockers(kinds) = {}

-----------------------------------------------------------------------------
\* As long as anything is unresolved, some id is waiting for nothing: no set
\* of obligations refuses all of its members because of each other (what
\* handle_add's cycle check is for).
NoCircularWait ==
    UnresolvedIds # {} =>
        \E i \in UnresolvedIds : \A n \in RowsOf(i) : Blockers(n) = {}

\* A phase gate that is open vouches for its rows: handle_resolve refuses a
\* pending one only because of rows that have been deferred.
ReadyMeansWitnessable ==
    \A kinds \in {ProveKinds, StateKinds} : ObligationsReady(kinds) =>
        \A n \in Pending : InScope(n, kinds) =>
            \A i \in Blockers(n) : \A m \in RowsOf(i) :
                muts[m].status = "unknown" => muts[m].deferred

\* The open mutables-all-typed gate means that every dependency of a pending
\* PROVE row has been resolved.
TypedMeansResolved ==
    ObligationsReady(ProveKinds) =>
        \A n \in Pending : muts[n].kind \in ProveKinds =>
            \A i \in muts[n].depends_on :
                \E m \in RowsOf(i) : muts[m].status = "witnessed"

\* A pending row whose kind nobody knows keeps some phase gate closed.
UnrecognizedKindBlocks ==
    (\E n \in Pending : muts[n].kind \notin ProveKinds \cup StateKinds \cup {None})
        => ~ObligationsReady(ProveKinds) \/ ~ObligationsReady(StateKinds)
=============================================================================
