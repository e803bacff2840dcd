----------------------------- MODULE CommitVectors -----------------------------
(***************************************************************************)
(* The vectors of the commits (git_commit_vectors.rs), which every         *)
(* codesearch brings up to the newest commits before it ranks them:        *)
(* sync_incremental_cfg, an SQL statement or a call of the embedder a step.*)
(***************************************************************************)
EXTENDS Naturals, Sequences, SequencesExt

CONSTANTS
    Commits,
    Unembeddable,   \* commits whose text the embedder traps on
    Scenarios,      \* bound: what git log answers, one after the other, each the newest
                    \* commits first; the failures that may happen, each once
    MinEmbeds,      \* git_commit_min_embeds_per_pass
    MaxRun,         \* git_commit_max_consecutive_embed_failures
    Main, Rival,    \* two sessions; the other one syncs once
    None

Workers == {Main, Rival}

\* git, a query of the live or of all the rows, an update, an insert or the embedder
\* fails; a sync is killed; another session syncs; a build with another embedder
\* takes over.
CommitFaultKinds ==
    {"git", "live", "present", "update", "insert", "embed", "killed", "rival", "upgrade"}

CommitVectorsAssumption ==
    /\ Unembeddable \subseteq Commits
    /\ \A s \in Scenarios : s.windows # <<>> /\ s.faults \subseteq CommitFaultKinds
    /\ {MinEmbeds, MaxRun} \subseteq Nat \ {0}

VARIABLES
    windows,    \* what git log answers now and later
    row,        \* of each commit: None, "live" or "deleted"
    made,       \* whether there is a table
    ours,       \* whether its marker names the embedder of the running build
    ensured,    \* SCHEMA_ENSURED of each session's process
    sync,       \* what each session's sync is doing
    left        \* the failures that may still happen

table == <<row, made, ours>>
vars == <<windows, table, ensured, sync, left>>

Rest == [pc |-> "rest", log |-> <<>>, gone |-> {}, present |-> {}, newest |-> None,
         run |-> 0, embedded |-> 0]

Log == Head(windows)
NoRow == [c \in Commits |-> None]

From(s) ==
    /\ windows = s.windows /\ left = s.faults
    /\ row = NoRow /\ made = FALSE /\ ours = TRUE
    /\ ensured = [w \in Workers |-> FALSE]
    /\ sync = [w \in Workers |-> Rest]
Init == \E s \in Scenarios : From(s)

Strikes(kind) == kind \in left /\ left' = left \ {kind}
Calm == UNCHANGED left

Doing(w, pc) == sync[w].pc = pc
Turn(w, pc) == sync' = [sync EXCEPT ![w].pc = pc]
Ends(w) == sync' = [sync EXCEPT ![w] = Rest]

\* A commit, an amend, a reset or a checkout.
Rewind ==
    /\ Len(windows) > 1 /\ windows' = Tail(windows)
    /\ UNCHANGED <<table, ensured, sync, left>>

Upgrade ==
    /\ Strikes("upgrade")
    /\ ours' = FALSE
    /\ ensured' = [w \in Workers |-> FALSE]
    /\ sync' = [w \in Workers |-> Rest]
    /\ UNCHANGED <<windows, row, made>>

-----------------------------------------------------------------------------
\* git_commit_rank, in a codesearch.
Sync(w) ==
    /\ Doing(w, "rest") /\ Turn(w, "schema")
    /\ IF w = Main THEN Calm ELSE Strikes("rival")
    /\ UNCHANGED <<windows, table, ensured>>

\* ensure_schema_cfg: a process that has ensured it does not look again; rows of
\* another embedder go with their table.
EnsureSchema(w) ==
    /\ Doing(w, "schema") /\ Turn(w, "log")
    /\ IF ensured[w] THEN UNCHANGED <<table, ensured>>
       ELSE /\ row' = IF made /\ ours THEN row ELSE NoRow
            /\ made' = TRUE /\ ours' = TRUE
            /\ ensured' = [ensured EXCEPT ![w] = TRUE]
    /\ UNCHANGED <<windows, left>>

\* Without a log, or with an empty history, nothing is reconciled.
ReadLog(w) ==
    /\ Doing(w, "log")
    /\ \/ /\ Calm
          /\ IF Log = <<>> THEN Ends(w)
             ELSE sync' = [sync EXCEPT ![w].pc = "live", ![w].log = Log]
       \/ Strikes("git") /\ Ends(w)
    /\ UNCHANGED <<windows, table, ensured>>

\* The rows of commits that left the window, ...
ReadLive(w) ==
    /\ Doing(w, "live")
    /\ \/ /\ Calm /\ made
          /\ sync' = [sync EXCEPT ![w].pc = "mark",
                        ![w].gone = {c \in Commits : row[c] = "live"} \ Range(sync[w].log)]
       \/ (Strikes("live") \/ (Calm /\ ~made)) /\ Turn(w, "present")
    /\ UNCHANGED <<windows, table, ensured>>

\* ... are marked, one after the other.
MarkDeleted(w) ==
    /\ Doing(w, "mark")
    /\ IF sync[w].gone = {} THEN Turn(w, "present") /\ Calm /\ UNCHANGED row
       ELSE \E c \in sync[w].gone :
              /\ sync' = [sync EXCEPT ![w].gone = @ \ {c}]
              /\ \/ Calm /\ row' = [row EXCEPT ![c] = IF @ = None THEN None ELSE "deleted"]
                 \/ Strikes("update") /\ UNCHANGED row
    /\ UNCHANGED <<windows, made, ours, ensured>>

\* The newest row and all of them, deleted ones too; the query that fails finds none.
ReadPresent(w) ==
    LET recorded == {c \in Commits : row[c] # None}
        Found(present) ==
            \E c \in IF recorded = {} THEN {None} ELSE recorded :
                sync' = [sync EXCEPT ![w].pc = "next", ![w].present = present,
                                     ![w].newest = c]
    IN /\ Doing(w, "present")
       /\ \/ Calm /\ Found(recorded)
          \/ recorded # {} /\ Strikes("present") /\ Found({})
       /\ UNCHANGED <<windows, table, ensured>>

Commit(w) == Head(sync[w].log)
Past(s) == [s EXCEPT !.pc = "next", !.log = Tail(@)]
Skips(w) == sync' = [sync EXCEPT ![w] = Past(@)]

\* Mutant: the time may be up before anything was embedded.
TakeCommitInTime(w) ==
    /\ Doing(w, "next")
    /\ IF sync[w].log = <<>> THEN Ends(w)
       ELSE IF Commit(w) \in sync[w].present \cup {sync[w].newest} THEN Skips(w)
       ELSE Turn(w, "embed") \/ Ends(w)
    /\ UNCHANGED <<windows, table, ensured, left>>

\* The next commit that is not there; the time is up only after MinEmbeds of them.
TakeCommit(w) ==
    /\ Doing(w, "next")
    /\ IF sync[w].log = <<>> THEN Ends(w)
       ELSE IF Commit(w) \in sync[w].present \cup {sync[w].newest} THEN Skips(w)
       ELSE \/ Turn(w, "embed")
            \/ sync[w].embedded >= MinEmbeds /\ Ends(w)
    /\ UNCHANGED <<windows, table, ensured, left>>

\* A run of failures opens the circuit: the sync is over.
Embed(w) ==
    LET traps == Commit(w) \in Unembeddable
    IN /\ Doing(w, "embed")
       /\ \/ /\ ~traps /\ Calm
             /\ sync' = [sync EXCEPT ![w].pc = "delete", ![w].run = 0]
          \/ /\ IF traps THEN Calm ELSE Strikes("embed")
             /\ IF sync[w].run + 1 >= MaxRun THEN Ends(w)
                ELSE sync' = [sync EXCEPT ![w] = [Past(@) EXCEPT !.run = @ + 1]]
       /\ UNCHANGED <<windows, table, ensured>>

DeleteRow(w) ==
    /\ Doing(w, "delete") /\ Turn(w, "insert")
    /\ row' = [row EXCEPT ![Commit(w)] = None]
    /\ UNCHANGED <<windows, made, ours, ensured, left>>

\* hash is UNIQUE: a row that another sync has inserted meanwhile stays.
InsertRow(w) ==
    /\ Doing(w, "insert")
    /\ \/ /\ made /\ row[Commit(w)] = None /\ Calm
          /\ row' = [row EXCEPT ![Commit(w)] = "live"]
          /\ sync' = [sync EXCEPT ![w] = [Past(@) EXCEPT !.embedded = @ + 1]]
       \/ /\ IF made /\ row[Commit(w)] = None THEN Strikes("insert") ELSE Calm
          /\ Skips(w) /\ UNCHANGED row
    /\ UNCHANGED <<windows, made, ours, ensured>>

Killed(w) ==
    /\ ~Doing(w, "rest") /\ Strikes("killed") /\ Ends(w)
    /\ UNCHANGED <<windows, table, ensured>>

SyncStep(w) ==
    \/ EnsureSchema(w) \/ ReadLog(w) \/ ReadLive(w) \/ MarkDeleted(w) \/ ReadPresent(w)
    \/ TakeCommit(w) \/ Embed(w) \/ DeleteRow(w) \/ InsertRow(w)

Next == Rewind \/ Upgrade \/ \E w \in Workers : Sync(w) \/ SyncStep(w) \/ Killed(w)

Spec == Init /\ [][Next]_vars /\ \A w \in Workers : WF_vars(SyncStep(w))

-----------------------------------------------------------------------------

\* A commit that was out of the window when it was reconciled stays deleted.
Ranked(c) ==
    IF c \in Range(Log) THEN row[c] = None => c \in Unembeddable ELSE row[c] # "live"

\* Searches that keep coming rank the commits of the window and no others, whatever
\* was interrupted, refused or deferred, or reset while a sync was under way; no run
\* of MaxRun commits traps the embedder (sync_incremental_cfg).
CommitsConverge ==
    []<><<Sync(Main)>>_vars /\ []<>made => \A c \in Commits : <>[]Ranked(c)
=============================================================================
