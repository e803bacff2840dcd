------------------------------- MODULE MCStores -------------------------------
(***************************************************************************)
(* Instances of Stores.  Each store alone, with the failures of its own:   *)
(* two texts, one of them with a second name (a spelling, or a key of the  *)
(* legacy store), and two dispatches beside any number of passes; two      *)
(* files of three chunks, and up to two edits; three commits, one of which *)
(* the embedder traps on; a cache of two entries and three bytes under     *)
(* three keys.  Then two of them at a time over one malformed database.    *)
(* Last, the algorithms of the searches and of the embedding.              *)
(***************************************************************************)
EXTENDS Stores

CONSTANTS a, b, na, nb, nx, p, q, x, y, z, gen1, gen2, c1, c2, c3, vs, vb, vh, Always

\* Memories.
CanonDef == [t \in {a, b} |-> IF t = a THEN na ELSE nb]

Nothing == [n \in {na, nb, nx} |-> None]
SpelledDef == [n \in {na, nb, nx} |-> IF n = nb THEN b ELSE a]
Doc(k, t) == [key |-> k, text |-> t, stamp |-> 0]
Misfiled == [Nothing EXCEPT ![nx] = Doc(nx, a)]
BothFiled == [Nothing EXCEPT ![na] = Doc(na, a), ![nb] = Doc(nb, b)]
OneBroken == [Nothing EXCEPT ![nx] = Bad, ![nb] = Doc(nb, b)]
\* A file of a's name with another key; a in the file of b's name; a under
\* its second name beside a file of its own that is broken, is another's, or is there.
Rekeyed == [Nothing EXCEPT ![na] = Doc(nx, a), ![nb] = Doc(nb, b)]
Overwritten == [Nothing EXCEPT ![nb] = Doc(nb, a)]
Merged == [Nothing EXCEPT ![na] = Bad, ![nx] = Doc(nx, a)]
Swapped == [Nothing EXCEPT ![na] = Doc(na, b), ![nx] = Doc(nx, a)]
Copied == [Nothing EXCEPT ![na] = Doc(na, a), ![nx] = Doc(na, a)]
LegacyA == [Nothing EXCEPT ![nx] = a]

Memorize(n, t) == [verb |-> "memorize", name |-> n, text |-> t]
Prune(n, t) == [verb |-> "prune", name |-> n, text |-> t]

Memories(files, legacy, dispatches, failures) ==
    [files |-> files, flat |-> legacy, script |-> dispatches, faults |-> failures]

NoMemories == Memories(Nothing, Nothing, <<>>, {})
OneMemory == Memories([Nothing EXCEPT ![nb] = Doc(nb, b)], Nothing, <<>>, {"malformed"})
MemoryScenarios == {
    Memories(Misfiled, Nothing, <<Memorize(nb, b), Prune(nb, b)>>, {"rename", "memorize-dies"}),
    Memories(Nothing, LegacyA, <<Memorize(nx, a), Memorize(nb, b)>>, {"rename", "embed"}),
    Memories(BothFiled, Nothing, <<Prune(nb, b), Memorize(nb, b)>>, {"embed", "malformed", "row"}),
    Memories(OneBroken, Nothing, <<Memorize(nx, a), Memorize(na, a)>>, {"pass-dies", "embed"}),
    Memories(Rekeyed, Nothing, <<Memorize(na, a), Prune(nb, b)>>, {"pass-dies"}),
    Memories(Overwritten, Nothing, <<Memorize(nx, a)>>, {"rename", "pass-dies"}),
    Memories(Overwritten, Nothing, <<Prune(nb, b)>>, {}),
    Memories(Swapped, Nothing, <<>>, {"rename"}),
    Memories(Merged, Nothing, <<Memorize(nb, b)>>, {"rename"}),
    Memories(Copied, Nothing, <<Memorize(nb, b)>>, {"embed"})}
\* A text is memorized while a pass finds the database malformed.
TableLost == Memories(Nothing, Nothing, <<Memorize(nb, b)>>, {"malformed"})
AllMemories == MemoryScenarios \cup {NoMemories, OneMemory, TableLost}

\* Code.
Widths == [g \in {gen1, gen2} |-> 384]
Sources == {<<x>>, <<y>>, <<x, y>>, <<z, y>>}
Bulk == [c \in Sources |->
           IF c = <<x>> THEN 1 ELSE IF c = <<y>> THEN 2 ELSE 3]
Places == [f \in {p, q} |-> IF f = p THEN 1 ELSE 2]
File(c) == [content |-> c, mtime |-> 0]
To(path, c) == [path |-> path, content |-> c, ticks |-> 1]
AtOnce(path, c) == [path |-> path, content |-> c, ticks |-> 0]
OneTwo == [f \in {p, q} |-> IF f = p THEN File(<<x, y>>) ELSE File(<<y>>)]
OnlyP == [f \in {p, q} |-> IF f = p THEN File(<<x, y>>) ELSE None]

Tree(files, state, changes, failures) ==
    [files |-> files, was |-> state, edits |-> changes, faults |-> failures, embedder |-> gen1]

NoCode == Tree([f \in {p, q} |-> None], "unindexed", <<>>, {})
OneFile == Tree(OnlyP, "indexed", <<>>, {"malformed"})
CodeScenarios == {
    Tree(OneTwo, "indexed", <<To(p, <<z, y>>), To(q, None)>>, {"killed", "embed", "scan"}),
    Tree(OnlyP, "unindexed", <<To(q, <<y>>)>>, {"insert", "budget", "rebuild"}),
    Tree(OnlyP, "indexed", <<To(p, <<z, y>>)>>, {"rival", "killed"}),
    Tree(OnlyP, "indexed", <<AtOnce(p, <<z, y>>), AtOnce(p, <<y>>)>>, {"schema", "insert"}),
    Tree(OneTwo, "unindexed", <<>>, {"schema", "late"}),
    Tree(OneTwo, "indexed", <<>>, {"upgrade", "insert"}),
    Tree(OnlyP, "indexed", <<To(p, <<z, y>>), To(p, <<x, y>>)>>, {"killed", "insert"}),
    Tree(OnlyP, "indexed", <<To(p, <<z, y>>)>>, {"upgrade", "killed", "scan"}),
    Tree(OnlyP, "obsolete", <<To(p, <<y>>), To(p, <<z, y>>)>>, {"parse", "late", "embed"})}

\* Commits.
History(logs, failures) == [windows |-> logs, faults |-> failures]
NoCommits == History(<<<<>>>>, {})
OneCommit == History(<<<<c1>>>>, {})
CommitScenarios == {
    History(<<<<c2, c1>>, <<c3, c2>>>>, {"killed", "embed", "upgrade"}),
    History(<<<<c1>>, <<c3, c1>>>>, {"rival", "insert", "live"}),
    History(<<<<c3, c2, c1>>, <<c1>>>>, {"git", "present", "update"})}

\* The cache: a small value, a big one, and one too big.
Weight == [v \in {vs, vb, vh} |-> IF v = vs THEN 1 ELSE IF v = vb THEN 2 ELSE 5]
Caching(one, failures, ttls, latest_time) ==
    [alone |-> one, faults |-> failures, lifetimes |-> ttls, until |-> latest_time]
NoCache == Caching(TRUE, {}, {}, 0)
OneEntry == Caching(TRUE, {}, {Always}, 0)
\* While time stands still all entries are equally old, and any of them may go first.
CacheScenarios == {
    Caching(TRUE, {"purge", "touch"}, {1, Always}, 3),
    Caching(FALSE, {}, {0, Always}, 0),
    Caching(TRUE, {"select", "delete"}, {Always}, 2)}

Use(m, c, g, e, stores) ==
    [memory |-> m, code |-> c, commits |-> g, cache |-> e, using |-> stores]
UsesDef ==
    {Use(m, NoCode, NoCommits, NoCache, {"memory"}) : m \in MemoryScenarios}
    \cup {Use(NoMemories, c, NoCommits, NoCache, {"code"}) : c \in CodeScenarios}
    \cup {Use(NoMemories, NoCode, g, NoCache, {"commits"}) : g \in CommitScenarios}
    \cup {Use(NoMemories, NoCode, NoCommits, e, {"cache"}) : e \in CacheScenarios}
    \cup {Use(OneMemory, OneFile, NoCommits, NoCache, {"memory", "code"}),
          Use(OneMemory, NoCode, OneCommit, NoCache, {"memory", "commits"}),
          Use(NoMemories, OneFile, OneCommit, NoCache, {"code", "commits"}),
          Use(NoMemories, OneFile, NoCommits, OneEntry, {"code", "cache"})}

TableLostDef == {Use(TableLost, NoCode, NoCommits, NoCache, {"memory"})}

ASSUME StoresAssumption

-----------------------------------------------------------------------------
(* The algorithms of the code index (CodeSearch) *)
search == INSTANCE CodeSearch WITH Wildcard <- "*", AnyOne <- "?", Anonymous <- ""

Symbols == {"f", "g", "h"}
Calls == [caller : Symbols, callee : Symbols]

\* The impact of a symbol is what its calls lead to, at the length of the shortest way.
\* So it names what a symbol relies on and never what relies on it.
ASSUME ImpactIsWhatIsCalled ==
    \A E \in SUBSET Calls, s \in Symbols, depth \in 0 .. 3 :
        LET Ways(t, n) ==
                {w \in [0 .. n -> Symbols] : /\ w[0] = s /\ w[n] = t
                    /\ \A i \in 1 .. n : [caller |-> w[i - 1], callee |-> w[i]] \in E}
        IN search!ImpactOf(E, s, depth) =
             {r \in [symbol : Symbols \ {s}, depth : 1 .. search!Clamp(depth, 1, 10)] :
                 /\ Ways(r.symbol, r.depth) # {}
                 /\ \A n \in 0 .. r.depth - 1 : Ways(r.symbol, n) = {}}

\* a.m(x) on the second line of f, where the parse has a node for each name: the callee is
\* the name that ends first, the receiver.  In a function without a name, as the one around
\* g's call, a call counts for nobody (extract_call_edges).
ASSUME ReceiverIsTheCallee ==
    LET node(kind, from, to, line, name) ==
            [kind |-> kind, from |-> from, to |-> to, row |-> line, name |-> name]
        nodes == <<node("call", 0, 6, 1, ""), node("other", 0, 3, 1, ""), node("leaf", 0, 1, 1, "a"),
                   node("leaf", 2, 3, 1, "m"), node("leaf", 4, 5, 1, "x"),
                   node("call", 7, 10, 2, ""), node("leaf", 7, 8, 2, "g")>>
        bodies == {[name |-> "f", first |-> 1, last |-> 4], [name |-> "", first |-> 3, last |-> 3]}
    IN search!CallEdges(nodes, bodies) = {[caller |-> "f", callee |-> "a"]}

\* The parts of a chunk cover it in order and without a gap, and none is bigger than was asked for,
\* whatever the characters; below eight bytes the splitter may step into a character and
\* panic, and never above.
ASSUME PartsCoverTheBody ==
    \A n \in 0 .. 4 : \A body \in [1 .. n -> 1 .. 4], threshold \in 0 .. 9 :
        LET parts == search!SplitOversizedChunk(body, threshold)
            last == parts[Len(parts)]
            size(part) == part.to - part.from
        IN \/ threshold < 8 /\ last = search!Panic
           \/ /\ parts[1].from = 0 /\ last.to = search!BytesTo(body, n)
              /\ \A i \in DOMAIN parts :
                    /\ size(parts[i]) <= (IF threshold < 2 THEN 2 ELSE threshold)
                    /\ {parts[i].from, parts[i].to} \subseteq search!Boundaries(body)
                    /\ i > 1 => /\ parts[i - 1].from < parts[i].from
                                /\ parts[i].from <= parts[i - 1].to /\ parts[i - 1].to <= parts[i].to
ASSUME SmallThresholdsPanic ==
    \A threshold \in 2 .. 7 : LET parts == search!SplitOversizedChunk(<<4, 4>>, threshold) IN
        parts[Len(parts)] = search!Panic

\* The walk with one place to go back to matches what the pattern means.
ASSUME GlobIsItsMeaning ==
    LET Means[m \in 0 .. 4, t \in 0 .. 4] ==
            [pattern \in [1 .. m -> {"a", "b", "*", "?"}], text \in [1 .. t -> {"a", "b"}] |->
                CASE m = 0 -> t = 0
                  [] m > 0 /\ pattern[m] = "*" ->
                        \E k \in 0 .. t : Means[m - 1, k][SubSeq(pattern, 1, m - 1), SubSeq(text, 1, k)]
                  [] OTHER -> /\ t > 0 /\ pattern[m] \in {"?", text[t]}
                              /\ Means[m - 1, t - 1][SubSeq(pattern, 1, m - 1), SubSeq(text, 1, t - 1)]]
    IN \A m \in 0 .. 4, t \in 0 .. 3 :
         \A pattern \in [1 .. m -> {"a", "b", "*", "?"}], text \in [1 .. t -> {"a", "b"}] :
            search!GlobMatchSimple(pattern, text) <=> Means[m, t][pattern, text]

-----------------------------------------------------------------------------
(* Embedding: two texts, which are also queries, in two projects.  The     *)
(* hashes of both in the first project are the same, and so are those of   *)
(* the spilled queries.                                                    *)
Conditioned == [a |-> "for a", b |-> "for b"]
Embeddable == {"a", "b", "for a", "for b"}
Projects == {"one", "two"}
embed == INSTANCE Embedding WITH
    Slot <- [k \in Projects \X Embeddable |->
               IF k[1] = "one" /\ k[2] \in {"a", "b"} THEN "ab" ELSE k[1] \o k[2]],
    SpillKey <- [t \in {"a", "b"} |-> "qab"], ConditionQuery <- Conditioned,
    Cacheable <- {"a", "for a", "for b"}, Capacity <- 2, TimeToLive <- 2,
    MaxItems <- 2, MaxTokens <- 2, Probe <- "init-probe", Slim <- FALSE

\* The host embeds everything, one text, with or without the probe, or nothing.
Moments(times) ==
    {[host |-> h, loads |-> l, runs |-> r, encodes |-> e, root |-> project, now |-> t] :
        h \in {{}, {"a"}, {"a", "init-probe"}, Embeddable \cup {"init-probe"}}, l \in BOOLEAN,
        r \in {{"b"}, Embeddable}, e \in BOOLEAN, project \in Projects, t \in times}

\* What a process and its spill can have come to after so many calls at the times 0, 1, ...;
\* it may be killed between two calls.
Calling(proc, w, text) == embed!EmbedText(proc, w, text)
Asking(proc, kv, w, query) == embed!EmbedTextJsonQuery(proc, kv, w, query)
Batching(proc, w) == embed!EmbedTextsBatch(proc, w, <<"b", "a", "a">>, <<1, 2, 2>>)
ReachedDef == LET Reached[n \in 0 .. 3] ==
    IF n = 0 THEN {[process |-> embed!Started, spill |-> <<>>]}
    ELSE LET before == Reached[n - 1]
             moments == {w \in Moments({n - 1}) : w.encodes} IN
         before
         \cup {[process |-> embed!Started, spill |-> s.spill] : s \in before}
         \cup {[process |-> Calling(s.process, w, t).process, spill |-> s.spill] :
                   s \in before, w \in moments, t \in {"a", "b"}}
         \cup {[process |-> Batching(s.process, w).process, spill |-> s.spill] :
                   s \in before, w \in moments}
         \cup {LET r == Asking(s.process, s.spill, w, q2) IN [process |-> r.process, spill |-> r.spill] :
                   s \in before, w \in moments, q2 \in {"a", "b"}}
    IN Reached

\* A text, a query or a place of a batch is answered with its own embedding or with none,
\* whatever collides, expires, fails or was spilled by an earlier process; the
\* caches keep to their capacity and their order lists what they hold.
ASSUME EmbeddingsAreOfTheirTexts ==
    \A s \in ReachedDef[3], w \in Moments({3}) :
        LET answers == Batching(s.process, w).answer IN
        /\ \A t \in {"a", "b"} :
              /\ Calling(s.process, w, t).answer \in {t, None}
              /\ Asking(s.process, s.spill, w, t).answer \in {Conditioned[t], None}
        /\ \A i \in 1 .. 3 : answers[i] \in {<<"b", "a", "a">>[i], None}
ASSUME CachesKeepTheirOrder ==
    \A s \in ReachedDef[3] : \A c \in {s.process.plain, s.process.query} :
        /\ {c.order[i] : i \in DOMAIN c.order} = DOMAIN c.entries
        /\ Cardinality(DOMAIN c.entries) = Len(c.order) /\ Len(c.order) <= 2

\* Whoever can embed does, one text at a time, unless the fallback failed to load once.  A batch
\* does not where the host was chosen and is gone.
Embeds(proc, w, text) == text \in w.host \/ (w.loads /\ text \in w.runs /\ proc.fallback # "failed")
ASSUME EmbedsWhenItCan ==
    \A s \in ReachedDef[2], w \in Moments({2}) :
        /\ \A t \in {"a", "b"} : Embeds(s.process, w, t) => Calling(s.process, w, t).answer = t
        /\ Embeds(s.process, w, "b") /\ Batching(s.process, w).answer[1] = None =>
              s.process.context = "host" \/ "init-probe" \in w.host
ASSUME BatchesFallShort ==
    \E s \in ReachedDef[2], w \in Moments({2}) :
        Embeds(s.process, w, "b") /\ Batching(s.process, w).answer[1] = None

\* The runs of a batch are consecutive and complete, and as long as they may be: the budget in tokens
\* never ends one, since no text is longer than MaxTokens.
ASSUME RunsAreFull ==
    \A n \in 0 .. 5 : \A lengths \in [1 .. n -> 0 .. 2] :
        LET runs == embed!SubBatches(lengths) IN
        /\ Len(runs) = (n + 1) \div 2
        /\ \A i \in DOMAIN runs :
              runs[i].first = 2 * i - 1 /\ runs[i].last = (IF 2 * i <= n THEN 2 * i ELSE n)
=============================================================================
