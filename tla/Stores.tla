-------------------------------- MODULE Stores --------------------------------
(***************************************************************************)
(* The derived stores of a project side by side: the memory table, the     *)
(* code chunks, the commit vectors and the generic cache share one         *)
(* database, gm.db.  Whoever finds it malformed deletes and recreates the  *)
(* file, and with it the tables of the others (shared_db.rs,               *)
(* memory_md.rs, code_index.rs).                                           *)
(***************************************************************************)
EXTENDS MemoryStore

CONSTANTS
    Paths, Place, Contents, Size, MaxSize, FileLimit, DigestMax,
    Generations, Width,
    Commits, Unembeddable, MinEmbeds, MaxRun,
    Main, Rival,
    CacheKeys, Users, Values, Bytes, MaxValueBytes, MaxCacheEntries, MaxCacheBytes,
    Forever, MaxPuts,
    Uses            \* bound: the stores in use, and a scenario of each

VARIABLES
    disk, manifest, chunks, vectors, edges, column, marker, embedder,
    codeDigest, codePass, edits, now, trouble, disturbed, had, dropped,
    windows, row, made, ours, ensured, sync, left,
    entries, time, user, puts, latest, usage,
    using           \* the stores that are worked on

code == INSTANCE CodeIndex
            WITH digest <- codeDigest, pass <- codePass, Scenarios <- {u.code : u \in Uses}
commits == INSTANCE CommitVectors WITH Scenarios <- {u.commits : u \in Uses}
cache == INSTANCE EntryCache WITH CacheSettings <- {u.cache : u \in Uses}

StoresAssumption ==
    /\ code!CodeIndexAssumption /\ commits!CommitVectorsAssumption
    /\ cache!EntryCacheAssumption
    /\ {u.memory : u \in Uses} \subseteq Scenarios

codeVars == <<disk, manifest, chunks, vectors, edges, column, marker, embedder,
              codeDigest, codePass, edits, now, trouble, disturbed, had, dropped>>
commitVars == <<windows, row, made, ours, ensured, sync, left>>
cacheVars == <<entries, time, user, puts, latest, usage>>
all == <<vars, codeVars, commitVars, cacheVars, using>>

StoresInit ==
    \E u \in Uses :
        /\ From(u.memory) /\ code!From(u.code) /\ commits!From(u.commits)
        /\ cache!FromCache(u.cache)
        /\ using = u.using

-----------------------------------------------------------------------------
\* memory_md::recover_malformed_db takes the code chunks and the commits with it, and
\* lets no other store know.
TakesCode ==
    /\ chunks' = [p \in Paths |-> <<>>]
    /\ column' = None
    /\ disturbed' = TRUE
    /\ UNCHANGED <<disk, manifest, vectors, edges, marker, embedder, codeDigest, codePass,
                   edits, now, trouble, had, dropped>>
TakesCommits ==
    /\ row' = commits!NoRow /\ made' = FALSE
    /\ UNCHANGED <<windows, ours, ensured, sync, left>>

\* A new process has ensured nothing.
Forgets ==
    /\ ensured' = [ensured EXCEPT ![Main] = FALSE]
    /\ UNCHANGED <<windows, row, made, ours, sync, left>>

\* What the other stores see of a step of the memories.
Beside ==
    /\ "memory" \in using /\ UNCHANGED using
    /\ IF damage' = "table" /\ damage # "table" THEN TakesCode /\ TakesCommits /\ cache!TakeEntries
       ELSE /\ UNCHANGED <<codeVars, cacheVars>>
            /\ IF damage = "table" /\ damage' = "row" THEN Forgets
               ELSE UNCHANGED commitVars

Remember == Next /\ Beside

IndexCode == "code" \in using /\ code!Indexing /\ UNCHANGED <<vars, commitVars, cacheVars, using>>

\* recover_malformed_shared_db makes the memory table anew and has the commits' made by
\* the next sync of this process.  A memory pass under way has lost rows it counts on.
RecreateDatabase ==
    /\ "code" \in using /\ code!Recreate
    /\ rows' = NothingKnown /\ known' = NothingKnown /\ digest' = None
    /\ damage' = IF damage = "none" /\ pass.pc = "rest" THEN "none" ELSE "row"
    /\ row' = commits!NoRow /\ made' = FALSE
    /\ cache!TakeEntries
    /\ ensured' = [ensured EXCEPT ![Main] = FALSE]
    /\ UNCHANGED <<store, session, pass, script, clock, faults, acked, pruned, origin,
                   windows, ours, sync, left, using>>

SyncCommits == "commits" \in using /\ commits!Next /\ UNCHANGED <<vars, codeVars, cacheVars, using>>

UseCache == "cache" \in using /\ cache!CacheNext /\ UNCHANGED <<vars, codeVars, commitVars, using>>

StoresNext == Remember \/ IndexCode \/ RecreateDatabase \/ SyncCommits \/ UseCache

CodePass(w) == code!PassStep(w) /\ IndexCode
CommitSync(w) == commits!SyncStep(w) /\ SyncCommits

StoresSpec ==
    /\ StoresInit /\ [][StoresNext]_all
    /\ WF_all(PassStep /\ Beside) /\ WF_all(Session /\ Beside) /\ WF_all(Restart /\ Beside)
    /\ \A w \in code!Workers : WF_all(CodePass(w)) /\ WF_all(CommitSync(w))

-----------------------------------------------------------------------------
FreshMeansIndexed == code!FreshMeansIndexed
ChunksConverge == code!ChunksConverge
CommitsConverge == commits!CommitsConverge
EvictsTheExcess == cache!EvictsTheExcess
=============================================================================
