------------------------------ MODULE MemoryStore ------------------------------
(***************************************************************************)
(* The memories of one namespace: the markdown corpus under .gm/memories,  *)
(* which git carries and which is the durable store, and the vector table  *)
(* derived from it (memory_md.rs, rssearch_vectors.rs, the memorize verbs  *)
(* of wasm_dispatch/verbs.rs).                                             *)
(*                                                                         *)
(* One session memorizes and prunes, one dispatch after another, while     *)
(* passes of sync_index bring the table up to the corpus.  A file operation*)
(* or an SQL statement is a step; the two interleave anywhere.             *)
(*                                                                         *)
(* A text is its normalised form, a name the key of a file.  A memory is   *)
(* filed under content_key(text), Canon; a spelling of the same text with  *)
(* other line ends hashes to another name, and the next pass rekeys it.    *)
(* The files are found as git, an editor or a copy left them: the key in   *)
(* the front matter of one, its name and its text need not agree.  A       *)
(* file's digest is its content, a corpus' digest the corpus.              *)
(***************************************************************************)
EXTENDS Naturals, FiniteSets, Sequences

CONSTANTS
    Texts, Names,
    Canon,          \* content_key: the name of each text
    Spelled,        \* the text that a name is the hash of, in some spelling
    Scenarios,      \* bound: what the repository holds at first, the session's
                    \* dispatches in order, the failures that may happen, each once
    RekeyMax,       \* memory_sync.rekey_batch_max
    ExportMax,      \* EXPORT_BATCH_MAX
    None, Bad, Partial

Requests == [verb : {"memorize", "prune"}, name : Names, text : Texts]

\* The embedder answers nothing, a rename fails, the database is malformed, a
\* row cannot be written, the session's process or a pass is killed.
Kinds == {"embed", "rename", "malformed", "row", "memorize-dies", "pass-dies"}

Documents == [key : Names, text : Texts, stamp : Nat]

\* Who asks computes the name from the text; so did who wrote the legacy store.
ASSUME MemoryAssumption ==
    /\ Canon \in [Texts -> Names]
    /\ Spelled \in [Names -> Texts] /\ \A t \in Texts : Spelled[Canon[t]] = t
    /\ \A s \in Scenarios :
          /\ s.files \in [Names -> Documents \cup {None, Bad}]
          /\ \A n \in Names : s.flat[n] \in {None, Spelled[n]}
          /\ s.flat \in [Names -> Texts \cup {None}]
          /\ s.script \in Seq(Requests) /\ s.faults \subseteq Kinds
          /\ \A i \in DOMAIN s.script : s.script[i].text = Spelled[s.script[i].name]
    /\ {RekeyMax, ExportMax} \subseteq Nat \ {0}
    /\ {None, Bad} \cap Documents = {} /\ None # Bad
    /\ None \notin Texts
VARIABLES
    corpus,     \* the .md files: None, Bad (does not parse) or a document
    flat,       \* the legacy kv store: the text under each name
    exported,   \* .flat-export-done: the flat store it was written for
    rows,       \* the vector table: None or a text, live or tombstoned
    known,      \* the files table: the content last indexed, per name
    digest,     \* the meta table: None, Partial or a corpus
    session,    \* what the session's dispatch is doing
    pass,       \* what the running pass of sync_index is doing
    script,     \* the dispatches the session has still to make
    clock,      \* dispatches made so far; the stamp of what they write
    faults,     \* the kinds of failure that may still happen
    damage,     \* whether a row was lost to a failure, or the table with them
    acked,      \* history: texts filed at first or memorized, and not pruned since
    pruned,     \* history: texts pruned
    origin      \* history: the scenario

store == <<corpus, flat, exported>>
index == <<rows, known, digest>>
vars == <<store, index, session, pass, script, clock, faults, damage, acked, pruned, origin>>

Rows == [text : Texts, live : BOOLEAN]

Parsed(content) == content \notin {None, Bad}
Holds(n, t) == Parsed(corpus[n]) /\ corpus[n].text = t
Live(n) == rows[n] # None /\ rows[n].live

InCorpus(t) == \E n \in Names : Holds(n, t)
Recallable(t) == \E n \in Names : Live(n) /\ rows[n].text = t

AtRest == [pc |-> "rest", req |-> None]
NoPass == [pc |-> "rest", export |-> <<>>, marker |-> None, seen |-> None, todo |-> {},
           done |-> {}, moves |-> {}, file |-> None, embeds |-> 0, failed |-> FALSE,
           deferred |-> FALSE]

NothingKnown == [n \in Names |-> None]

From(s) ==
    /\ corpus = s.files /\ flat = s.flat /\ script = s.script /\ faults = s.faults
    /\ exported = None
    /\ rows = NothingKnown
    /\ known = NothingKnown
    /\ digest = None
    /\ session = AtRest
    /\ pass = NoPass
    /\ clock = 0
    /\ damage = "none"
    /\ acked = {t \in Texts : InCorpus(t)}
    /\ pruned = {}
    /\ origin = s
Init == \E s \in Scenarios : From(s)

Fails(kind) == kind \in faults /\ faults' = faults \ {kind}
Works == UNCHANGED faults

-----------------------------------------------------------------------------
\* The session.

At(pc) == session.pc = pc
Turn(pc) == session' = [session EXCEPT !.pc = pc]
Answer == session' = AtRest

\* A dispatch that is not "ok" leaves nothing behind it.
Refuse == Answer /\ UNCHANGED acked
Accept(t) == Answer /\ acked' = acked \cup {t}

\* A prune takes back the memory it is about.
Dispatch ==
    /\ At("rest") /\ script # <<>>
    /\ script' = Tail(script)
    /\ clock' = clock + 1
    /\ LET r == Head(script)
       IN /\ session' = [pc |-> IF r.verb = "prune" THEN "tombstone" ELSE "look", req |-> r]
          /\ acked' = IF r.verb = "prune" THEN acked \ {r.text} ELSE acked
          /\ pruned' = IF r.verb = "prune" THEN pruned \cup {r.text} ELSE pruned
    /\ UNCHANGED <<store, index, pass, faults, damage, origin>>

\* memory_text_matches and the flat copy: a text that is there is not embedded
\* again.
LookForDuplicate ==
    /\ At("look")
    /\ LET r == session.req
       IN Turn(IF flat[r.name] = r.text \/ Holds(r.name, r.text) THEN "again" ELSE "embed")
    /\ UNCHANGED <<store, index, pass, script, clock, faults, acked, pruned, origin, damage>>

EmbedPassage ==
    /\ At("embed")
    /\ \/ Turn("file") /\ Works /\ UNCHANGED acked
       \/ Fails("embed") /\ Refuse
    /\ UNCHANGED <<store, index, pass, script, clock, pruned, origin, damage>>

\* write_memory: the file is written unless it holds the text already.
FileOf(r) == [key |-> r.name, text |-> r.text, stamp |-> clock]
Written(r) ==
    IF Holds(r.name, r.text) THEN corpus ELSE [corpus EXCEPT ![r.name] = FileOf(r)]

\* For a duplicate the outcome of the write is not looked at.
FileAgain ==
    /\ At("again")
    /\ \/ corpus' = Written(session.req) /\ Works
       \/ ~Holds(session.req.name, session.req.text) /\ Fails("rename") /\ UNCHANGED corpus
    /\ Accept(session.req.text)
    /\ UNCHANGED <<flat, exported, index, pass, script, clock, pruned, origin, damage>>

\* The file comes first; without it the memory is refused.
WriteFile ==
    /\ At("file")
    /\ \/ corpus' = Written(session.req) /\ Works /\ Turn("row") /\ UNCHANGED acked
       \/ /\ ~Holds(session.req.name, session.req.text)
          /\ Fails("rename") /\ Refuse /\ UNCHANGED corpus
    /\ UNCHANGED <<flat, exported, index, pass, script, clock, pruned, origin, damage>>

\* While the table is missing no statement on it succeeds.
Tableless == damage = "table"
RowFails == IF Tableless THEN Works ELSE Fails("row")
RowLost == damage' = IF Tableless THEN damage ELSE "row"

Insert(n, t) == ~Tableless /\ rows' = [rows EXCEPT ![n] = [text |-> t, live |-> TRUE]]

\* The row is deleted and inserted; a failure is only reported as an event.
WriteRow ==
    /\ At("row")
    /\ LET r == session.req
       IN \/ Insert(r.name, r.text) /\ Works /\ UNCHANGED damage
          \/ /\ RowFails
             /\ rows' = [rows EXCEPT ![r.name] = None] /\ RowLost
    /\ Accept(session.req.text)
    /\ UNCHANGED <<store, known, digest, pass, script, clock, pruned, origin>>

Tombstoned(n) ==
    [rows EXCEPT ![n] = IF @ = None THEN None ELSE [@ EXCEPT !.live = FALSE]]

\* memorize_prune: the row first, ...
PruneRow ==
    /\ At("tombstone")
    /\ rows' = Tombstoned(session.req.name)
    /\ Turn("unflat")
    /\ UNCHANGED <<store, known, digest, pass, script, clock, faults, acked, pruned, origin, damage>>

\* ... then the legacy copies, ...
PruneFlat ==
    /\ At("unflat")
    /\ flat' = [flat EXCEPT ![session.req.name] = None]
    /\ Turn("remove")
    /\ UNCHANGED <<corpus, exported, index, pass, script, clock, faults, acked, pruned, origin, damage>>

\* ... then the file.
PruneFile ==
    /\ At("remove")
    /\ corpus' = [corpus EXCEPT ![session.req.name] = None]
    /\ Answer
    /\ UNCHANGED <<flat, exported, index, pass, script, clock, faults, acked, pruned, origin, damage>>

\* The process that memorizes is killed; the memory was not acknowledged.
SessionDies ==
    /\ session.pc \in {"again", "file", "row"}
    /\ Fails("memorize-dies")
    /\ Answer
    /\ UNCHANGED <<store, index, pass, script, clock, acked, pruned, origin, damage>>

Session ==
    \/ LookForDuplicate \/ EmbedPassage \/ FileAgain \/ WriteFile \/ WriteRow
    \/ PruneRow \/ PruneFlat \/ PruneFile \/ SessionDies
    \/ Dispatch

-----------------------------------------------------------------------------
\* The passes.  Only a review of prune candidates and the first recall of a
\* store without a digest start one.

Doing(pc) == pass.pc = pc
Pass(pc) == pass' = [pass EXCEPT !.pc = pc]
Ends == pass' = NoPass

Unexported == {n \in Names : flat[n] # None /\ corpus[n] = None}

\* export_flat_json looks at the marker and picks a batch ...
Review ==
    /\ Doing("rest")
    /\ IF exported = flat
       THEN pass' = [NoPass EXCEPT !.pc = "scan"]
       ELSE \E batch \in SUBSET Unexported :
              /\ Cardinality(batch) <= ExportMax
              /\ batch # Unexported => Cardinality(batch) = ExportMax
              /\ pass' = [NoPass EXCEPT !.pc = "export", !.export = [n \in batch |-> flat[n]],
                            !.marker = IF batch = Unexported THEN flat ELSE None]
    /\ UNCHANGED <<store, index, session, script, clock, faults, acked, pruned, origin, damage>>

\* ... and writes the texts it found; the marker is written when nothing is left.
Export ==
    /\ Doing("export")
    /\ \E failing \in {{}} \cup {{n} : n \in DOMAIN pass.export} :
         /\ IF failing = {} THEN Works ELSE Fails("rename")
         /\ corpus' = [n \in Names |->
                IF n \in DOMAIN pass.export \ failing
                THEN [key |-> n, text |-> pass.export[n], stamp |-> 0] ELSE corpus[n]]
         /\ exported' = IF pass.marker # None /\ failing = {} THEN pass.marker ELSE exported
    /\ Pass("scan")
    /\ UNCHANGED <<flat, index, session, script, clock, acked, pruned, origin, damage>>

FirstRecall ==
    /\ Doing("rest") /\ digest = None
    /\ pass' = [NoPass EXCEPT !.pc = "scan"]
    /\ UNCHANGED <<store, index, session, script, clock, faults, acked, pruned, origin, damage>>

Files(content) == {n \in Names : content[n] # None}

\* The manifest against the meta table: the pass is over when they agree;
\* otherwise rows and hashes of files that are gone are dropped at once.
Scan ==
    /\ Doing("scan")
    /\ IF digest = corpus
       THEN Ends /\ UNCHANGED index
       ELSE LET gone == Files(known) \ Files(corpus)
            IN /\ rows' = [n \in Names |-> IF n \in gone THEN Tombstoned(n)[n] ELSE rows[n]]
               /\ known' = [n \in Names |-> IF n \in gone THEN None ELSE known[n]]
               /\ pass' = [pass EXCEPT !.pc = "files", !.seen = corpus,
                             !.todo = {n \in Files(corpus) : known[n] # corpus[n]}]
               /\ UNCHANGED digest
    /\ UNCHANGED <<store, session, script, clock, faults, acked, pruned, origin, damage>>

Later == [pass EXCEPT !.todo = {}, !.deferred = TRUE]
Skipped(n) == [pass EXCEPT !.todo = @ \ {n}, !.deferred = TRUE]
Processed(n) == [pass EXCEPT !.todo = @ \ {n}, !.done = @ \cup {n}]

\* The wall-clock budget is used up: what is left of the pass is deferred.  It
\* is never used up before the first file.
OutOfTime ==
    /\ Doing("files") /\ pass.todo # {}
    /\ pass.done # {} \/ pass.moves # {} \/ pass.failed
    /\ pass' = Later
    /\ UNCHANGED <<store, index, session, script, clock, faults, acked, pruned, origin, damage>>

Target(doc) == Canon[doc.text]
WellFiled(n) == corpus[n].key = n /\ Target(corpus[n]) = n

\* Whether the legacy store may have an embedding for a key.
Legacy(k) == \E n \in Names : flat[n] # None /\ (n = k \/ Canon[flat[n]] = k)

\* What is queued for a file: of several with the same text the first is
\* written under its own name, if there was no file of that name then, and the
\* first has its row written.
Move(n) ==
    LET target == Target(corpus[n])
        first == \A m \in pass.moves : Target(m.doc) # target
    IN [from |-> n, doc |-> corpus[n], writes |-> first /\ corpus[target] = None,
        legacy |-> first /\ Legacy(corpus[n].key)]

\* A file that is gone by now, does not parse, has another key or another name than
\* its content's, has its row, or has none.  With another key the row that goes is
\* the key's.
TakeFile(n) ==
    /\ Doing("files") /\ n \in pass.todo
    /\ \/ /\ corpus[n] = None
          /\ pass' = Skipped(n)
          /\ UNCHANGED <<rows, known>>
       \/ /\ corpus[n] = Bad
          /\ pass' = Processed(n)
          /\ UNCHANGED <<rows, known>>
       \/ /\ Parsed(corpus[n]) /\ ~WellFiled(n)
          /\ IF Cardinality(pass.moves) >= RekeyMax
             THEN pass' = Skipped(n) /\ UNCHANGED <<rows, known>>
             ELSE /\ pass' = [pass EXCEPT !.todo = @ \ {n}, !.moves = @ \cup {Move(n)}]
                  /\ rows' = Tombstoned(corpus[n].key)
                  /\ known' = [known EXCEPT ![n] = None]
       \/ /\ Parsed(corpus[n]) /\ WellFiled(n) /\ rows[n] # None
          /\ rows[n].text = corpus[n].text
          /\ rows' = [rows EXCEPT ![n].live = TRUE]
          /\ pass' = Processed(n)
          /\ UNCHANGED known
       \/ /\ Parsed(corpus[n]) /\ WellFiled(n) /\ rows[n] = None
          /\ \/ pass' = [pass EXCEPT !.pc = "embed", !.file = [from |-> n, doc |-> corpus[n]], !.embeds = 1]
             \/ pass.embeds > 0 /\ pass' = Skipped(n)
          /\ UNCHANGED <<rows, known>>
    /\ UNCHANGED <<store, digest, session, script, clock, faults, acked, pruned, origin, damage>>

Failed(n) == [pass EXCEPT !.todo = @ \ {n}, !.failed = TRUE, !.pc = "files", !.file = None]
Indexed(n) == [Processed(n) EXCEPT !.pc = "files", !.file = None]

\* recover_malformed_db makes a new database, but not the vector table: its
\* schema counts as ensured for as long as the process lives.
Recreated ==
    /\ rows' = NothingKnown /\ known' = NothingKnown /\ digest' = None
    /\ damage' = "table"

\* The embedding and the row.  A row that cannot be written counts as a
\* failure, yet its file is put down as processed: write_row answers 0 below
\* the abort threshold.
IndexFile ==
    /\ Doing("embed")
    /\ LET n == pass.file.from
       IN \/ /\ Insert(n, pass.file.doc.text)
             /\ pass' = Indexed(n)
             /\ Works /\ UNCHANGED <<known, digest, damage>>
          \/ Fails("embed") /\ pass' = Failed(n) /\ UNCHANGED <<index, damage>>
          \/ ~Tableless /\ Fails("malformed") /\ Recreated /\ Ends
          \/ /\ RowFails
             /\ pass' = [Indexed(n) EXCEPT !.failed = TRUE]
             /\ RowLost /\ UNCHANGED index
    /\ UNCHANGED <<store, session, script, clock, acked, pruned, origin>>

FilesDone ==
    /\ Doing("files") /\ pass.todo = {}
    /\ Pass(IF pass.moves = {} THEN "hashes" ELSE "refile")
    /\ UNCHANGED <<store, index, session, script, clock, faults, acked, pruned, origin, damage>>

\* The rekeyed batch: the new files are written, ...
Refile ==
    /\ Doing("refile")
    /\ LET new == {m \in pass.moves : m.writes}
       IN \E failing \in {{}} \cup {{m} : m \in new} :
            /\ IF failing = {} THEN Works ELSE Fails("rename")
            /\ corpus' = [n \in Names |->
                   IF \E m \in new \ failing : Target(m.doc) = n
                   THEN [(CHOOSE m \in new : Target(m.doc) = n).doc EXCEPT !.key = n]
                   ELSE corpus[n]]
    /\ Pass("retire")
    /\ UNCHANGED <<flat, exported, index, session, script, clock, acked, pruned, origin, damage>>

\* Mutant: the old files go whether or not the new ones are there.
RetireUnverified ==
    /\ Doing("retire")
    /\ corpus' = [n \in Names |-> IF \E m \in pass.moves : m.from = n THEN None ELSE corpus[n]]
    /\ Pass("rekey")
    /\ UNCHANGED <<flat, exported, index, session, script, clock, faults, acked, pruned, origin, damage>>

\* ... the old files are removed where a file of the new name can be read, ...
Retire ==
    /\ Doing("retire")
    /\ corpus' = [n \in Names |->
           IF \E m \in pass.moves : m.from = n /\ corpus[Target(m.doc)] # None
           THEN None ELSE corpus[n]]
    /\ Pass("rekey")
    /\ UNCHANGED <<flat, exported, index, session, script, clock, faults, acked, pruned, origin, damage>>

\* ... and the rows that have a legacy embedding are written.
Rekey ==
    /\ Doing("rekey")
    /\ \E ms \in SUBSET {m \in pass.moves : m.legacy /\ ~Tableless} :
         rows' = [n \in Names |->
                    IF \E m \in ms : Target(m.doc) = n
                    THEN [text |-> Spelled[n], live |-> TRUE]
                    ELSE rows[n]]
    /\ Pass("hashes")
    /\ UNCHANGED <<store, known, digest, session, script, clock, faults, acked, pruned, origin, damage>>

Complete == ~pass.failed /\ ~pass.deferred /\ pass.moves = {}

\* The hashes of what was processed, and the orphans of a complete pass.
StoreHashes ==
    /\ Doing("hashes")
    /\ known' = [n \in Names |-> IF n \in pass.done THEN pass.seen[n] ELSE known[n]]
    /\ rows' = [n \in Names |->
                  IF Complete /\ n \notin Files(pass.seen) THEN Tombstoned(n)[n] ELSE rows[n]]
    /\ Pass("digest")
    /\ UNCHANGED <<store, digest, session, script, clock, faults, acked, pruned, origin, damage>>

\* Mutant: the digest of a deferred pass is stored untagged.
StoreAnyDigest ==
    /\ Doing("digest")
    /\ digest' = IF ~pass.failed /\ pass.moves = {} THEN pass.seen ELSE digest
    /\ Ends
    /\ UNCHANGED <<store, rows, known, session, script, clock, faults, acked, pruned, origin, damage>>

\* A deferred pass leaves a tagged digest, which no corpus equals.
StoreDigest ==
    /\ Doing("digest")
    /\ digest' = CASE Complete -> pass.seen
                   [] pass.deferred /\ ~pass.failed /\ pass.moves = {} -> Partial
                   [] OTHER -> digest
    /\ Ends
    /\ UNCHANGED <<store, rows, known, session, script, clock, faults, acked, pruned, origin, damage>>

PassDies ==
    /\ ~Doing("rest")
    /\ Fails("pass-dies")
    /\ Ends
    /\ UNCHANGED <<store, index, session, script, clock, acked, pruned, origin, damage>>

PassStep ==
    \/ Export \/ Scan \/ OutOfTime \/ (\E n \in Names : TakeFile(n)) \/ IndexFile
    \/ FilesDone \/ Refile \/ Retire \/ Rekey \/ StoreHashes \/ StoreDigest

Starts == Review \/ FirstRecall

-----------------------------------------------------------------------------
\* vacuum_tombstones: tombstoned rows are removed for good (memorize-vacuum,
\* and memorize-retention above its thresholds).
Vacuum ==
    /\ \E n \in Names : rows[n] # None /\ ~rows[n].live
    /\ rows' = [n \in Names |-> IF Live(n) THEN rows[n] ELSE None]
    /\ UNCHANGED <<store, known, digest, session, pass, script, clock, faults, acked, pruned, origin, damage>>

\* A new process ensures the schema anew.
Restart ==
    /\ Tableless /\ At("rest") /\ Doing("rest")
    /\ damage' = "row"
    /\ UNCHANGED <<store, index, session, pass, script, clock, faults, acked, pruned, origin>>

Next == Session \/ Starts \/ PassStep \/ PassDies \/ Vacuum \/ Restart

Spec == Init /\ [][Next]_vars /\ WF_vars(PassStep) /\ WF_vars(Session) /\ WF_vars(Restart)

-----------------------------------------------------------------------------

\* What a hand that edits, copies or breaks files exposes to loss: a memory whose own
\* name is that of a file which is not its document, as the removal of a rekeyed file
\* asks no more than whether there is one (memory_md.rs:674-677), of the file itself
\* where only its key is wrong; and where a file has another's text than its name's, both,
\* if a dispatch memorizes or prunes by that name.
Found(n) == origin.files[n]
Displaced(t) ==
    LET own == Found(Canon[t]) IN Parsed(own) => own.key # Canon[t] \/ own.text # t
AskedFor(n) == \E i \in DOMAIN origin.script : origin.script[i].name = n
Exposed(t) ==
    \/ Found(Canon[t]) # None /\ Displaced(t)
    \/ \E n \in Names : /\ AskedFor(n) /\ Parsed(Found(n)) /\ Found(n).text # Spelled[n]
                         /\ t \in {Found(n).text, Spelled[n]}

\* A memory that was acknowledged and not pruned is in the corpus, or still in the
\* legacy store, whatever is rekeyed, exported or killed meanwhile, and whatever the
\* files were when they were found, but for the exposed.
NoMemoryLost ==
    \A t \in acked : Exposed(t) \/ InCorpus(t) \/ \E n \in Names : flat[n] = t

\* The row that goes with a rekeyed file is the one of its key.
Shadowed(t) ==
    \E n \in Names \ {Canon[t]} : Parsed(Found(n)) /\ Found(n).key = Canon[t]

Faithful(t) ==
    /\ InCorpus(t) => Recallable(t) \/ Shadowed(t)
    /\ Recallable(t) => InCorpus(t) \/ t \in pruned

\* While reviews keep being asked for and no row is lost to the database, what
\* recall can find is in the end what the corpus holds: no memory stays
\* unindexed behind a digest, however passes are deferred, killed or overtaken, but
\* for one whose key another file bore.
IndexConverges ==
    []<><<Starts>>_vars /\ []<>(damage = "none") => <>[]\A t \in Texts : Faithful(t)

\* A row that could not be written is written by a later pass, if need be of a
\* new process ("will retry next sync").
LostRowsRetried ==
    []<><<Starts>>_vars => <>[]\A t \in Texts : Faithful(t)
=============================================================================
