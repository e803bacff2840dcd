----------------------------- MODULE ConfigNotify -----------------------------
(***************************************************************************)
(* The notices of changed configs (orchestrator/config_notify.rs): a file  *)
(* of records, each with the sessions it has been handed to.  A sync adds  *)
(* a record, an instruction dispatch drains the ones its session has not   *)
(* seen; both read the whole file, compute and write it back.              *)
(***************************************************************************)
EXTENDS SequencesExt

CONSTANTS
    MaxRecords,     \* records that are kept (32)
    MaxDeliveredTo  \* sessions a record remembers (64)

\* The newest n of s: what goes over a cap goes from the oldest end.
Capped(s, n) == IF Len(s) <= n THEN s ELSE SubSeq(s, Len(s) - n + 1, Len(s))

\* record_change: a change is a record nobody has been handed.
Recorded(notices, rev) ==
    Capped(Append(notices, [rev |-> rev, old |-> FALSE, deliveredTo |-> <<>>]), MaxRecords)

\* Not older than MAX_RECORD_AGE_MS, whether or not everybody has collected it: the
\* records come in the order of their time, so what is kept follows the last one that is.
Kept(notices) ==
    SubSeq(notices, Max({i \in DOMAIN notices : notices[i].old} \cup {0}) + 1, Len(notices))

Has(n, session) == session \in ToSet(n.deliveredTo)

Undelivered(notices, session) ==
    {n.rev : n \in {m \in ToSet(Kept(notices)) : ~Has(m, session)}}

\* Mutant: a delivery is one for all sessions.
DrainedForAll(notices, session) == SelectSeq(Kept(notices), LAMBDA n : Has(n, session))

\* drain_for_session: what is left in the file once a session was handed all.
Drained(notices, session) ==
    [i \in DOMAIN Kept(notices) |->
        LET n == Kept(notices)[i]
        IN IF Has(n, session) THEN n
           ELSE [n EXCEPT !.deliveredTo = Capped(Append(@, session), MaxDeliveredTo)]]
=============================================================================
