------------------------------- MODULE PrdRows -------------------------------
(***************************************************************************)
(* The rows of .gm/prd.yml and what each verb of orchestrator/prd.rs makes *)
(* of them: the closures handle_add, handle_defer, handle_resolve and      *)
(* drain_pending_commit_comments give to cas_retry_write.                  *)
(*                                                                         *)
(* The file is a sequence, but handle_add upserts by id, so no id occurs   *)
(* twice and no reader depends on the order: it is a function from the ids *)
(* present to rows.  A row keeps the fields some decision reads.  A        *)
(* witness stands for a text of at least 24 bytes (shorter ones are not    *)
(* compared), a comment for a non-blank one.                               *)
(***************************************************************************)
EXTENDS Naturals, FiniteSets

CONSTANTS
    Dispatches,     \* the dispatches of the run, each carrying one request
    Ids, Witnesses, Comments,
    None,           \* no witness, no comment
    Requests,       \* what a dispatch may carry
    InitialRows     \* the contents .gm/prd.yml may have at the start

Rows == [status : {"open", "closed"}, external : BOOLEAN,
         witness : Witnesses \cup {None}, comment : Comments \cup {None}]

Prds == UNION {[I -> Rows] : I \in SUBSET Ids}

RequestType ==
    [verb : {"add", "defer", "resolve", "commit", "scan"}, id : Ids,
     status : {"open", "closed"}, external : BOOLEAN,
     witness : Witnesses \cup {None}, comment : Comments \cup {None}]

\* The texts requests bring are on no row at the start: comments stand for dispatches
\* that bring them, and histories follow them.
NewComments == {r.comment : r \in Requests} \ {None}

RowsAssumption ==
    /\ None \notin Witnesses \cup Comments
    /\ Requests \subseteq RequestType
    /\ InitialRows \subseteq Prds
    /\ \A rows \in InitialRows : \A i \in DOMAIN rows : rows[i].comment \notin NewComments

\* Rows a residual scan and the prd-all-closed gate count as open.
OpenIds(rows) == {i \in DOMAIN rows : rows[i].status = "open" /\ ~rows[i].external}

\* The closure aborts: defer and resolve name a row that is not there.
Unknown(r, rows) == r.verb \in {"defer", "resolve"} /\ r.id \notin DOMAIN rows

Added(r, rows) ==
    [i \in DOMAIN rows \cup {r.id} |->
        IF i = r.id THEN [status |-> r.status, external |-> r.external,
                          witness |-> None, comment |-> None]
                    ELSE rows[i]]

Deferred(r, rows) == [rows EXCEPT ![r.id].external = TRUE]

Resolved(r, rows) ==
    [rows EXCEPT ![r.id].status = "closed",
                 ![r.id].witness = r.witness,
                 ![r.id].comment = IF r.comment = None THEN @ ELSE r.comment]

\* Mutant: the drain reports the comments and leaves their rows.
DrainedNothing(rows) == rows

\* The drain keeps the open rows only, whatever the closed ones carry.
Drained(rows) == [i \in {j \in DOMAIN rows : rows[j].status = "open"} |-> rows[i]]

DrainedComments(rows) ==
    {rows[i].comment : i \in {j \in DOMAIN rows : rows[j].status = "closed"}} \ {None}

Modified(r, rows) ==
    CASE r.verb = "add"     -> Added(r, rows)
      [] r.verb = "defer"   -> Deferred(r, rows)
      [] r.verb = "resolve" -> Resolved(r, rows)
      [] r.verb = "commit"  -> Drained(rows)
      [] OTHER              -> rows

\* Mutant: only rows still open are compared.
DuplicateOpenWitness(r, rows) ==
    \E i \in DOMAIN rows :
        i # r.id /\ rows[i].status = "open" /\ rows[i].witness = r.witness

\* Another row already carries the witness: what handle_resolve looks for in
\* the file before it starts to write.
DuplicateWitness(r, rows) ==
    \E i \in DOMAIN rows : i # r.id /\ rows[i].witness = r.witness
=============================================================================
