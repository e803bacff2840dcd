------------------------------- MODULE CodeIndex -------------------------------
(***************************************************************************)
(* The code index (code_index.rs): a manifest per file, the chunk rows of  *)
(* gm.db and the embeddings and call edges of the key-value store, derived *)
(* from the tree by passes of index_cfg_impl; the digest file by which     *)
(* codesearch decides whether a pass is needed.                            *)
(*                                                                         *)
(* A content is the sequence of its chunks' bodies, a hash the content, a  *)
(* digest the set of files it was folded over.  A manifest lists chunks by *)
(* their places in the content it was made from.  Each SQL statement, file *)
(* read and stat of a pass is a step; a file's key-value calls go with the *)
(* statement beside them.                                                  *)
(***************************************************************************)
EXTENDS Naturals, FiniteSets, Sequences, Functions

CONSTANTS
    Paths,
    Place,          \* of each in the order in which the host lists them
    Contents,
    Size,           \* bytes of each content
    MaxSize,        \* index.max_file_bytes
    FileLimit,      \* files a pass takes
    DigestMax,      \* index.digest_max_files
    Scenarios,      \* bound: the tree, its edits in order, the failures, each once
    Generations,    \* models the embedder may be of, with the Width of their vectors
    Width,
    Main, Rival,    \* a session's passes; one pass of another session
    None

Workers == {Main, Rival}

\* The schema cannot be ensured, a row is refused, the embedder, the parser or the
\* listing fails, the wall budget runs out before a file or within one, the pass is
\* killed, another session indexes, a search asks for a rebuild or finds the
\* database malformed, a build with another embedder takes over.
IndexFaults == {"schema", "insert", "embed", "parse", "scan", "budget", "late",
                "killed", "rival", "rebuild", "malformed", "upgrade"}

Files == [content : Contents, mtime : Nat]
Manifests == [hash : Contents, mtime : Nat, places : Seq(Nat), skipped : Nat,
              readable : BOOLEAN]
Digests == [of : SUBSET (Paths \X Contents), whole : BOOLEAN]
Edits == [path : Paths, content : Contents \cup {None}, ticks : {0, 1}]

CodeIndexAssumption ==
    /\ IsFiniteSet(Paths) /\ Place \in [Paths -> Nat]
    /\ \A p, r \in Paths : Place[p] = Place[r] => p = r
    /\ \A c \in Contents : c \in Seq(Range(c))
    /\ Size \in [Contents -> Nat]
    /\ None \notin Contents \cup Files \cup Manifests \cup Digests
    /\ {FileLimit, DigestMax} \subseteq Nat \ {0}
    /\ \A s \in Scenarios :
          /\ s.files \in [Paths -> Files \cup {None}] /\ s.edits \in Seq(Edits)
          /\ s.faults \subseteq IndexFaults

VARIABLES
    disk,       \* None or the content and the modification time of each path
    manifest,   \* None or what a pass recorded of the file
    chunks,     \* code_chunks: the bodies of each path's rows
    vectors,    \* the embeddings kept under keys of a content and a place in it
    edges,      \* the contents whose call edges are kept for each path
    column,     \* the embedding column of code_chunks: None or its width
    marker,     \* .embed-generation of the table: None or a generation
    embedder,   \* the generation the running build embeds with
    digest,     \* .codeinsight-digest: None or the files folded, and if all were
    pass,       \* what each worker's pass is doing
    edits,      \* the edits still to come
    now,        \* the clock that stamps the files; an edit need not see it tick
    trouble,    \* the failures that may still happen
    disturbed,      \* history: a pass ran beside another's or without the table
    had,        \* history: the contents each path had before the one it has
    dropped     \* history: rows of another embedder were dropped since the last digest

schema == <<column, marker, embedder>>
derived == <<manifest, chunks, vectors, edges, digest, schema>>
tree == <<disk, edits, now, had>>
vars == <<derived, tree, pass, trouble, disturbed, dropped>>

Idle == [pc |-> "rest"]

\* collect_files
Listed == {p \in Paths : disk[p] # None}
First(n, files) == {p \in files : Cardinality({r \in files : Place[r] <= Place[p]}) <= n}
Small(p) == Size[disk[p].content] <= MaxSize

\* current_digest, and what codesearch makes of the stored one.
CurrentDigest ==
    {<<p, disk[p].content>> : p \in {q \in First(DigestMax, Listed) : Small(q)}}
Fresh == digest = [of |-> CurrentDigest, whole |-> TRUE]

Upto(n) == [i \in 1..n |-> i]
Keys(m) == {<<m.hash, i>> : i \in Range(m.places)}

\* What an undisturbed pass makes of a tree, and what is there before the first; a
\* build from before MIN_READABLE_MANIFEST_VERSION left manifests nobody reads.
Recorded(f) ==
    [hash |-> f.content, mtime |-> f.mtime, places |-> Upto(Len(f.content)), skipped |-> 0,
     readable |-> TRUE]
IndexedTree(files, readable) ==
    /\ manifest = [p \in Paths |-> IF files[p] = None THEN None
                                  ELSE [Recorded(files[p]) EXCEPT !.readable = readable]]
    /\ chunks = [p \in Paths |-> IF files[p] = None THEN <<>> ELSE files[p].content]
    /\ vectors = [p \in Paths |-> IF files[p] = None THEN {} ELSE Keys(Recorded(files[p]))]
    /\ edges = [p \in Paths |-> IF files[p] = None THEN {} ELSE {files[p].content}]
    /\ digest = [of |-> CurrentDigest, whole |-> TRUE]
    /\ column = Width[embedder] /\ marker = embedder
Unindexed ==
    /\ manifest = [p \in Paths |-> None]
    /\ chunks = [p \in Paths |-> <<>>]
    /\ vectors = [p \in Paths |-> {}]
    /\ edges = [p \in Paths |-> {}]
    /\ digest = None
    /\ column = None /\ marker = None

From(s) ==
    /\ disk = s.files /\ edits = s.edits /\ trouble = s.faults
    /\ embedder = s.embedder
    /\ IF s.was = "unindexed" THEN Unindexed
       ELSE IndexedTree(s.files, s.was = "indexed")
    /\ pass = [w \in Workers |-> Idle]
    /\ now = 0
    /\ disturbed = FALSE /\ dropped = FALSE
    /\ had = [p \in Paths |-> {}]
Init == \E s \in Scenarios : From(s)

Strikes(kind) == kind \in trouble /\ trouble' = trouble \ {kind}
Calm == UNCHANGED trouble

-----------------------------------------------------------------------------
\* The tree.

Edit ==
    /\ edits # <<>>
    /\ edits' = Tail(edits)
    /\ LET e == Head(edits)
       IN /\ now' = now + e.ticks
          /\ disk' = [disk EXCEPT ![e.path] =
                        IF e.content = None THEN None
                        ELSE [content |-> e.content, mtime |-> now']]
          /\ had' = [had EXCEPT ![e.path] =
                        IF disk[e.path] = None \/ disk[e.path].content = e.content THEN @
                        ELSE @ \cup {disk[e.path].content}]
    /\ UNCHANGED <<derived, pass, trouble, disturbed, dropped>>

\* Another build, with its own embedder: what runs is killed.
Upgrade ==
    /\ Strikes("upgrade")
    /\ embedder' \in Generations \ {embedder}
    /\ pass' = [w \in Workers |-> Idle]
    /\ UNCHANGED <<manifest, chunks, vectors, edges, column, marker, digest, tree, disturbed, dropped>>

\* recover_malformed_shared_db, in a search: the file of the database is deleted and
\* the schema made anew; the digest is not touched.
Recreate ==
    /\ Strikes("malformed")
    /\ chunks' = [p \in Paths |-> <<>>]
    /\ column' = Width[embedder] /\ marker' = embedder
    /\ disturbed' = TRUE
    /\ UNCHANGED <<manifest, vectors, edges, embedder, digest, tree, pass, dropped>>

-----------------------------------------------------------------------------
\* The verbs that start a pass.

Doing(w, pc) == pass[w].pc = pc
Turn(w, pc) == pass' = [pass EXCEPT ![w].pc = pc]
Becomes(w, p) == pass' = [pass EXCEPT ![w] = p]

Joins(w) ==
    IF w = Main THEN Calm /\ UNCHANGED disturbed ELSE Strikes("rival") /\ disturbed' = TRUE

\* codesearch, with a digest that is absent or differs.
CodeSearch(w) ==
    /\ Doing(w, "rest") /\ ~Fresh
    /\ Joins(w) /\ Becomes(w, [pc |-> "schema"])
    /\ UNCHANGED <<derived, tree, dropped>>

\* codeinsight_index
Reindex(w) ==
    /\ Doing(w, "rest")
    /\ Joins(w) /\ Becomes(w, [pc |-> "schema"])
    /\ UNCHANGED <<derived, tree, dropped>>

\* codesearch with rebuild: clear_codeinsight_full, key-value store then table.
ClearKeys(w) ==
    /\ w = Main /\ Doing(w, "rest")
    /\ Strikes("rebuild") /\ Becomes(w, [pc |-> "clear"])
    /\ manifest' = [p \in Paths |-> None]
    /\ vectors' = [p \in Paths |-> {}]
    /\ edges' = [p \in Paths |-> {}]
    /\ UNCHANGED <<chunks, digest, schema, tree, disturbed, dropped>>

ClearTable(w) ==
    /\ Doing(w, "clear") /\ Turn(w, "schema")
    /\ chunks' = [p \in Paths |-> <<>>]
    /\ UNCHANGED <<manifest, vectors, edges, digest, schema, tree, trouble, disturbed, dropped>>

Starts(w) == CodeSearch(w) \/ Reindex(w) \/ ClearKeys(w)

-----------------------------------------------------------------------------
\* A pass: what it reads before the first file.

\* drop_if_dim_mismatch_at_cfg: the table is of another width, or of another model
\* by its marker.
Outdated ==
    column # None /\ (column # Width[embedder] \/ (marker # None /\ marker # embedder))

\* ensure_schema_at.  Without a table the pass goes on over the key-value store alone.
EnsureSchema(w) ==
    /\ Doing(w, "schema")
    /\ \/ /\ Calm
          /\ Becomes(w, [pc |-> "load", table |-> TRUE])
          /\ chunks' = IF Outdated THEN [p \in Paths |-> <<>>] ELSE chunks
          /\ dropped' = (dropped \/ Outdated)
          /\ column' = Width[embedder] /\ marker' = embedder
          /\ UNCHANGED disturbed
       \/ /\ Strikes("schema")
          /\ Becomes(w, [pc |-> "load", table |-> FALSE])
          /\ disturbed' = TRUE /\ UNCHANGED <<chunks, column, marker, dropped>>
    /\ UNCHANGED <<manifest, vectors, edges, digest, embedder, tree>>

\* load_manifests: a manifest that is not readable goes, and its embeddings with it.
LoadManifests(w) ==
    /\ Doing(w, "load")
    /\ LET stale == {p \in Paths : manifest[p] # None /\ ~manifest[p].readable}
       IN /\ manifest' = [p \in Paths |-> IF p \in stale THEN None ELSE manifest[p]]
          /\ vectors' = [p \in Paths |-> IF p \in stale THEN vectors[p] \ Keys(manifest[p])
                                         ELSE vectors[p]]
    /\ Becomes(w, [pc |-> "survey", table |-> pass[w].table, prior |-> manifest'])
    /\ UNCHANGED <<chunks, edges, digest, schema, tree, trouble, disturbed, dropped>>

NoRows == [p \in Paths |-> 0]
RowCounts == [p \in Paths |-> Len(chunks[p])]

Underway(w, files) ==
    [pc |-> "files", table |-> pass[w].table, prior |-> pass[w].prior,
     count |-> IF pass[w].table THEN RowCounts ELSE NoRows,
     listed |-> files, todo |-> First(FileLimit, files),
     seen |-> {}, folded |-> {}, deferred |-> FALSE,
     file |-> None, rewrite |-> FALSE, plan |-> <<>>, places |-> <<>>, skipped |-> 0,
     intact |-> TRUE]

\* chunk_rows_by_path and collect_files.  A listing without files beside manifests
\* is a failed scan, not a tree that was emptied.
Survey(w) ==
    /\ Doing(w, "survey")
    /\ \E files \in {Listed, {}} :
         /\ IF files = Listed THEN Calm ELSE Strikes("scan")
         /\ Becomes(w, IF files = {} /\ \E p \in Paths : pass[w].prior[p] # None
                       THEN Idle ELSE Underway(w, files))
    /\ UNCHANGED <<derived, tree, disturbed, dropped>>

-----------------------------------------------------------------------------
\* A pass: one file after the other.

Earliest(files) == CHOOSE p \in files : \A r \in files : Place[p] <= Place[r]
Current(w) == Earliest(pass[w].todo)
PriorOf(w) == pass[w].prior[Current(w)]
Moved(p) == [p EXCEPT !.pc = "files", !.todo = @ \ {Earliest(@)}, !.file = None, !.rewrite = FALSE,
                      !.plan = <<>>, !.places = <<>>, !.skipped = 0, !.intact = TRUE]
Saw(p, f, c) == [p EXCEPT !.seen = @ \cup {f}, !.folded = @ \cup {<<f, c>>}]

\* Mutant: chunks that were not embedded are not asked for again.
CompleteByCount(w) ==
    pass[w].table /\ pass[w].count[Current(w)] = Len(PriorOf(w).places)

\* The rows are as many as the manifest lists, and every chunk was embedded.
Complete(w) ==
    /\ PriorOf(w).skipped = 0
    /\ pass[w].table /\ pass[w].count[Current(w)] = Len(PriorOf(w).places)

OutOfTime(w) ==
    /\ Doing(w, "files") /\ pass[w].todo # {}
    /\ Strikes("budget")
    /\ pass' = [pass EXCEPT ![w].todo = {}, ![w].deferred = TRUE]
    /\ UNCHANGED <<derived, tree, disturbed, dropped>>

\* The stat-only path.
Untouched(w) ==
    LET f == Current(w)
    IN /\ PriorOf(w) # None /\ disk[f] # None
       /\ disk[f].mtime = PriorOf(w).mtime
       /\ Size[disk[f].content] = Size[PriorOf(w).hash]
       /\ Complete(w)

StatFile(w) ==
    /\ Doing(w, "files") /\ pass[w].todo # {}
    /\ IF Untouched(w)
       THEN Becomes(w, Moved(Saw(pass[w], Current(w), PriorOf(w).hash)))
       ELSE Turn(w, "read")
    /\ UNCHANGED <<derived, tree, trouble, disturbed, dropped>>

ReadFile(w) ==
    LET f == Current(w)
    IN /\ Doing(w, "read")
       /\ Becomes(w, IF disk[f] = None \/ ~Small(f) THEN Moved(pass[w])
                     ELSE [Saw(pass[w], f, disk[f].content)
                             EXCEPT !.pc = "stat", !.file = disk[f]])
       /\ UNCHANGED <<derived, tree, trouble, disturbed, dropped>>

SameContent(w) ==
    PriorOf(w) # None /\ PriorOf(w).hash = pass[w].file.content /\ PriorOf(w).skipped = 0

\* The time comes from a stat after the read.  An unchanged file whose rows are not
\* all there gets them again from its manifest.
Compare(w) ==
    LET f == Current(w)
        mtime == IF disk[f] = None THEN 0 ELSE disk[f].mtime
    IN /\ Doing(w, "stat")
       /\ Becomes(w, IF SameContent(w) /\ Complete(w) THEN Moved(pass[w])
                     ELSE [pass[w] EXCEPT !.pc = "forget", !.file.mtime = mtime,
                                          !.rewrite = SameContent(w)])
       /\ UNCHANGED <<derived, tree, trouble, disturbed, dropped>>

\* The rows go before new ones come; with a new content the embeddings and the
\* edges of the old one go too.
Forget(w) ==
    LET f == Current(w)
    IN /\ Doing(w, "forget")
       /\ chunks' = IF pass[w].table THEN [chunks EXCEPT ![f] = <<>>] ELSE chunks
       /\ IF pass[w].rewrite
          THEN /\ pass' = [pass EXCEPT ![w].pc = "write", ![w].plan = PriorOf(w).places]
               /\ UNCHANGED <<vectors, edges>>
          ELSE /\ Turn(w, "extract")
               /\ vectors' = IF PriorOf(w) = None THEN vectors
                             ELSE [vectors EXCEPT ![f] = @ \ Keys(PriorOf(w))]
               /\ edges' = IF PriorOf(w) # None \/ pass[w].table
                           THEN [edges EXCEPT ![f] = {}] ELSE edges
       /\ UNCHANGED <<manifest, digest, schema, tree, trouble, disturbed, dropped>>

\* extract_chunks and extract_call_edges; a file the parser failed on has no chunks.
\* What is left of the wall budget bounds the chunks that are kept, to one at least.
Extract(w) ==
    LET f == Current(w)
        c == pass[w].file.content
        Plan(n) == pass' = [pass EXCEPT ![w].pc = "write", ![w].plan = Upto(n)]
    IN /\ Doing(w, "extract")
       /\ \/ Strikes("parse") /\ Plan(0) /\ UNCHANGED edges
          \/ /\ \/ Calm /\ Plan(Len(c))
                \/ Len(c) > 1 /\ Strikes("late") /\ Plan(1)
             /\ edges' = [edges EXCEPT ![f] = @ \cup {c}]
       /\ UNCHANGED <<manifest, chunks, vectors, digest, schema, tree, disturbed, dropped>>

\* A chunk of the same body, kind and name keeps its embedding.
Reused(w, i) ==
    \/ pass[w].rewrite
    \/ /\ PriorOf(w) # None
       /\ \E j \in Range(PriorOf(w).places) : PriorOf(w).hash[j] = pass[w].file.content[i]

\* write_chunk: the row, when there is a table, then the embedding.
WriteChunk(w) ==
    LET f == Current(w)
        i == Head(pass[w].plan)
        c == pass[w].file.content
        rest == Tail(pass[w].plan)
        Wrote(ok) ==
            /\ pass' = [pass EXCEPT ![w].plan = rest, ![w].places = Append(@, i),
                                    ![w].intact = @ /\ ok]
            /\ vectors' = [vectors EXCEPT ![f] = @ \cup {<<c, i>>}]
    IN /\ Doing(w, "write") /\ pass[w].plan # <<>>
       /\ \/ /\ Calm /\ Wrote(TRUE)
             /\ IF pass[w].table
                THEN column # None /\ chunks' = [chunks EXCEPT ![f] = Append(@, c[i])]
                ELSE UNCHANGED chunks
          \/ /\ pass[w].table /\ Wrote(FALSE)
             /\ IF column = None THEN Calm ELSE Strikes("insert")
             /\ UNCHANGED chunks
          \/ /\ ~Reused(w, i) /\ Strikes("embed")
             /\ pass' = [pass EXCEPT ![w].plan = rest, ![w].skipped = @ + 1]
             /\ UNCHANGED <<chunks, vectors>>
       /\ UNCHANGED <<manifest, edges, digest, schema, tree, disturbed, dropped>>

ManifestOf(w) ==
    [hash |-> pass[w].file.content, mtime |-> pass[w].file.mtime,
     places |-> pass[w].places, skipped |-> pass[w].skipped, readable |-> TRUE]

\* Mutant: the manifest is recorded whatever became of the rows.
FileDoneAnyway(w) ==
    LET f == Current(w)
    IN /\ Doing(w, "write") /\ pass[w].plan = <<>>
       /\ manifest' = [manifest EXCEPT ![f] = IF pass[w].rewrite THEN @ ELSE ManifestOf(w)]
       /\ Becomes(w, Moved(pass[w]))
       /\ UNCHANGED <<chunks, vectors, edges, digest, schema, tree, trouble, disturbed, dropped>>

\* A file with a row that was refused has no manifest, so that it is indexed again.
FileDone(w) ==
    LET f == Current(w)
    IN /\ Doing(w, "write") /\ pass[w].plan = <<>>
       /\ manifest' = [manifest EXCEPT ![f] = IF ~pass[w].intact THEN None
                                              ELSE IF pass[w].rewrite THEN @
                                              ELSE ManifestOf(w)]
       /\ Becomes(w, Moved(pass[w]))
       /\ UNCHANGED <<chunks, vectors, edges, digest, schema, tree, trouble, disturbed, dropped>>

-----------------------------------------------------------------------------
\* A pass: after the last file.

Gone(w) == {p \in Paths \ (pass[w].seen \cup pass[w].listed) : pass[w].prior[p] # None}

RemoveGone(w) ==
    /\ Doing(w, "files") /\ pass[w].todo = {}
    /\ Turn(w, "sweep")
    /\ manifest' = [p \in Paths |-> IF p \in Gone(w) THEN None ELSE manifest[p]]
    /\ vectors' = [p \in Paths |-> IF p \in Gone(w) THEN vectors[p] \ Keys(pass[w].prior[p])
                                   ELSE vectors[p]]
    /\ edges' = [p \in Paths |-> IF p \in Gone(w) THEN {} ELSE edges[p]]
    /\ UNCHANGED <<chunks, digest, schema, tree, trouble, disturbed, dropped>>

\* Rows of a path that is not in the tree and had no manifest when the pass began.
SweepOrphans(w) ==
    /\ Doing(w, "sweep") /\ Turn(w, "digest")
    /\ chunks' = [p \in Paths |->
                    IF pass[w].table /\ p \notin pass[w].listed /\ pass[w].prior[p] = None
                    THEN <<>> ELSE chunks[p]]
    /\ UNCHANGED <<manifest, vectors, edges, digest, schema, tree, trouble, disturbed, dropped>>

StoreDigest(w) ==
    /\ Doing(w, "digest") /\ Becomes(w, Idle)
    /\ digest' = [of |-> pass[w].folded, whole |-> ~pass[w].deferred]
    /\ dropped' = FALSE
    /\ UNCHANGED <<manifest, chunks, vectors, edges, schema, tree, trouble, disturbed>>

Killed(w) ==
    /\ ~Doing(w, "rest") /\ Strikes("killed") /\ Becomes(w, Idle)
    /\ UNCHANGED <<derived, tree, disturbed, dropped>>

PassStep(w) ==
    \/ ClearTable(w) \/ EnsureSchema(w) \/ LoadManifests(w) \/ Survey(w)
    \/ OutOfTime(w) \/ StatFile(w) \/ ReadFile(w) \/ Compare(w) \/ Forget(w)
    \/ Extract(w) \/ WriteChunk(w) \/ FileDone(w)
    \/ RemoveGone(w) \/ SweepOrphans(w) \/ StoreDigest(w)

\* What leaves the database to its other tables, and what does not.
Indexing == Edit \/ Upgrade \/ \E w \in Workers : Starts(w) \/ PassStep(w) \/ Killed(w)
Next == Indexing \/ Recreate

Spec == Init /\ [][Next]_vars /\ \A w \in Workers : WF_vars(PassStep(w))

-----------------------------------------------------------------------------

\* A file whose manifest admits that it is not all there, or that was cut short by
\* the parser or the budget.
Owed(p) ==
    \/ manifest[p] = None
    \/ manifest[p].skipped > 0
    \/ Len(manifest[p].places) < Len(manifest[p].hash)

\* A table has no order.
SameRows(r, s) ==
    /\ Len(r) = Len(s)
    /\ \A b \in Range(r) : Cardinality({i \in DOMAIN r : r[i] = b})
                           = Cardinality({i \in DOMAIN s : s[i] = b})
Faithful(p) ==
    manifest[p].hash = disk[p].content /\ SameRows(chunks[p], disk[p].content)

\* An edit took the file back to a content it has had before.
Restored(p) == disk[p] # None /\ disk[p].content \in had[p]

\* When codesearch finds the digest of the tree as it is and leaves the index alone, the
\* rows of every file that the digest covers are its chunks, when passes are killed and
\* rows refused before, but none ran beside another's or without a table (codesearch,
\* verbs.rs:1522-1539).  Three more are excepted: a file whose manifest shows that it is
\* owed; one that was edited back, as the digest of the content it has again outlives
\* what a killed pass did meanwhile; and all of them, when a pass that dropped the rows
\* of another embedder has stored no digest since.
FreshMeansIndexed ==
    Fresh /\ ~disturbed /\ ~dropped /\ (\A w \in Workers : Doing(w, "rest")) =>
        \A p \in First(FileLimit, Listed) \cap First(DigestMax, Listed) :
            Small(p) => Owed(p) \/ Restored(p) \/ Faithful(p)

\* What no pass can tell: a content as long as the one the manifest has and of the same
\* time, put there within a tick of the clock or between the read of that one and the stat
\* that gave the manifest its time; and as many rows as the manifest
\* lists that are those of a content the file had before, left there by a pass that was killed
\* before the file was edited back, or by one without a table that recorded the new content.
Masked(p) ==
    /\ disk[p].mtime = manifest[p].mtime /\ disk[p].content # manifest[p].hash
    /\ Size[disk[p].content] = Size[manifest[p].hash]
Mistaken(p) ==
    /\ disk[p].content = manifest[p].hash /\ Len(chunks[p]) = Len(manifest[p].places)
    /\ \E c \in had[p] : SameRows(chunks[p], c)

Settled(p) ==
    IF disk[p] = None THEN chunks[p] = <<>> /\ manifest[p] = None
    ELSE \/ ~Small(p)
         \/ /\ manifest[p] # None /\ manifest[p].skipped = 0
            /\ Owed(p) \/ Faithful(p) \/ Masked(p) \/ Mistaken(p)

\* Passes that keep being asked for bring the rows to the tree, after refused rows,
\* a dead embedder, a wall budget, a kill or a race with another session; a file the
\* parser failed on or the budget cut short stays as it is, and so does one whose change
\* no pass can tell (index_cfg_impl).
ChunksConverge ==
    []<><<Reindex(Main)>>_vars =>
        \A p \in Paths : <>[]Settled(p)

=============================================================================
