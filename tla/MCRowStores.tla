------------------------------ MODULE MCRowStores ------------------------------
(***************************************************************************)
(* Instances of RowStores.  Of the prd: two rows, two witnesses, two       *)
(* comments; three concurrent dispatches on a host that works, four        *)
(* consecutive ones on one that fails and parks its git commands.  Of the  *)
(* mutables: three ids; two of the five lists of obligation kinds stand    *)
(* for all, as the lists are disjoint and used alike, except that only     *)
(* PROVE's takes the rows without a kind.                                  *)
(***************************************************************************)
EXTENDS RowStores

CONSTANTS a, b, w1, w2, c1, c2

MutableIds == 1 .. 3
Prove == {"invariant", "resource-bound"}
State == {"replay"}
Typed == {"resource-bound", "replay"}

-----------------------------------------------------------------------------
IdPool == {a, b}
WitnessPool == {w1, w2}
CommentPool == {c1, c2}

Request(verb, i) == [verb |-> verb, id |-> i, status |-> "open", external |-> FALSE,
                     witness |-> None, comment |-> None]
PrdAdd(i) == Request("add", i)
AddExternal(i) == [PrdAdd(i) EXCEPT !.external = TRUE]
PrdDefer(i) == Request("defer", i)
PrdResolve(i, w, c) == [Request("resolve", i) EXCEPT !.witness = w, !.comment = c]
Commit == Request("commit", a)
Scan == Request("scan", a)

OpenRow == [status |-> "open", external |-> FALSE, witness |-> None, comment |-> None]
UpToTwoOpen == {[i \in {} |-> OpenRow], [i \in {a} |-> OpenRow], [i \in {a, b} |-> OpenRow]}

\* Every verb against every other; the comment is on a row nobody rescopes.
Contended == {PrdAdd(b), AddExternal(b), PrdDefer(b), PrdResolve(b, w2, None),
              PrdResolve(a, w1, c1), PrdResolve(a, w2, None), Commit, Scan}

\* One dispatch after another, with rescoping, shared evidence and failures.
Everything == {PrdAdd(a), PrdAdd(b), AddExternal(b), PrdDefer(a), PrdDefer(b),
               PrdResolve(a, w1, c1), PrdResolve(b, w1, None), PrdResolve(b, w2, c2), Commit, Scan}

AllRequests == Contended \cup Everything

TwoHosts ==
    {[requests |-> Contended, dispatches |-> 3, attempts |-> 3,
      faulty |-> FALSE, parks |-> FALSE, sequential |-> FALSE],
     [requests |-> Everything, dispatches |-> 4, attempts |-> 2,
      faulty |-> TRUE, parks |-> TRUE, sequential |-> TRUE]}

ASSUME RowStoresAssumption

-----------------------------------------------------------------------------
\* find_cycle as it walks: depth first, with the ids on the current path.
RECURSIVE Walk(_, _, _)
Walk(node, onPath, deps) ==
    \E child \in deps[node] :
        child \in onPath \/ Walk(child, onPath \cup {child}, deps)

\* FindCycle says what the walk finds, on every map of dependencies.
ASSUME WalkAgrees ==
    \A deps \in [Ids -> SUBSET Ids] : \A i \in Ids :
        Walk(i, {i}, deps) <=> FindCycle(i, deps)
=============================================================================
