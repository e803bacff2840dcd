---------------------------- MODULE MCPhaseMachine ----------------------------
(***************************************************************************)
(* Instances of PhaseMachine: a compiled graph with a feedback edge and a  *)
(* gated way into its terminal phase, files that replace it with fewer     *)
(* phases or with hooks, and files that validation refuses.                *)
(***************************************************************************)
EXTENDS PhaseMachine, TLC

CONSTANTS specify, decide, complete, review, p1, p2, p3, h1, h2, g1, g2, d1, d2

AllPhases == {specify, decide, complete}
AllGates == {g1, g2}
AllVerbs == {"transition", "revert", "prompt", "touch"}

Edge(from, to, gates) == [from |-> from, to |-> to, gates |-> gates]
Gate(predicate, hook, mode) == [predicate |-> predicate, hook |-> hook, mode |-> mode]

Default ==
    [states |-> AllPhases, initial |-> specify, terminal |-> complete,
     edges |-> <<Edge(specify, decide, <<>>), Edge(decide, complete, <<g1, g2>>),
                 Edge(decide, specify, <<>>), Edge(complete, complete, <<>>)>>,
     gates |-> g1 :> Gate(p1, None, "predicate-only") @@ g2 :> Gate(p2, None, "predicate-only"),
     prose |-> AllPhases, statuses |-> TRUE]

\* Two phases, and a gate that asks a predicate and a hook.
Configured ==
    [Default EXCEPT !.states = {specify, decide}, !.terminal = decide,
                    !.edges = <<Edge(specify, decide, <<g1>>), Edge(decide, specify, <<>>)>>,
                    !.gates = g1 :> Gate(p1, h1, "both")]

\* No edge leaves decide but the one back to itself.
DeadEnd == [Default EXCEPT !.edges = <<Edge(specify, decide, <<>>), Edge(specify, complete, <<>>),
                                       Edge(decide, decide, <<>>)>>]

\* The hook of a gate is not there.
NoHook == [Configured EXCEPT !.gates = g1 :> Gate(None, h2, "hook-only")]

\* A hook without a predicate and with the default mode: the gate always passes.
Unmoded == [Configured EXCEPT !.gates = g1 :> Gate(None, h1, "predicate-only")]

\* The way into the terminal phase asks for the predicate that is always false.
Refusing == [Configured EXCEPT !.gates = g1 :> Gate(p3, None, "predicate-only")]

LocalFiles == {Absent, Malformed, Configured, DeadEnd, Refusing}
RepoFiles == {Absent, NoHook, Configured}
UnmodedFiles == {Absent, Unmoded}

\* One dispatch after another while the files change, and two at once on a graph that stays.
Alone ==
    [dispatchers |-> {d1}, verbs |-> AllVerbs, locals |-> LocalFiles, repos |-> RepoFiles]
Pair ==
    [dispatchers |-> {d1, d2}, verbs |-> {"transition", "revert", "touch"},
     locals |-> {Absent}, repos |-> {Absent}]
AloneAndPair == {Alone, Pair}

-----------------------------------------------------------------------------
\* The fixpoint of Graph::validate, against sets that are closed under edges,
\* for every set of edges over three phases and every terminal one.
PhaseList == <<specify, decide, complete>>
AllEdges == [i \in 1 .. 9 |-> Edge(PhaseList[(i + 2) \div 3], PhaseList[(i % 3) + 1], <<>>)]

ASSUME CanReachIsReachability ==
    \A E \in SUBSET ToSet(AllEdges), t \in AllPhases :
        LET g == [Default EXCEPT !.terminal = t,
                                 !.edges = SelectSeq(AllEdges, LAMBDA e : e \in E)]
        IN CanReach(g) =
             {s \in AllPhases : \A S \in SUBSET AllPhases :
                 s \in S /\ (\A e \in E : e.from \in S => e.to \in S) => t \in S}

\* validate_gate has the registry answer for a gate: a document that can never be
\* finished is served when the predicate that shuts it is the registered one that is
\* always false ("this gate could never be satisfied" is said of unknown ones alone).
ASSUME RefusedGateIsAccepted ==
    /\ Valid(Refusing)
    /\ ~Leads(Refusing,
              {e \in ToSet(Refusing.edges) : \A name \in ToSet(e.gates) :
                  GatePasses(Refusing.gates[name], Evidence)}, Refusing.initial)

-----------------------------------------------------------------------------
(* Pipelines (Dataflow), the documents whose tiers mirror those of the graph. *)
flow == INSTANCE Dataflow

Query == flow!Object([query |-> flow!Atom("q"), mode |-> flow!Atom("m")])
Skipping == <<[name |-> "never", field |-> <<"mode">>, equals |-> flow!Null]>>

\* Three steps and two fuse nodes.  Each step reads the request or the answer of another
\* step, one of them may be skipped, and the fuse nodes read the steps and each other.
Reads == [{"a", "b", "c"} -> {"request", "a", "b", "c"}]
NodeStep(id, reads, skipped) ==
    [flow!Step(id, "plugin", id,
        [in |-> IF reads[id] = "request" THEN flow!Request("query") ELSE flow!Answer(reads[id], "out")])
     EXCEPT !.when = IF id = skipped THEN "never" ELSE None]
Fuses == {<<[id |-> "f", strategy |-> "rrf_fuse", sources |-> <<"a", x>>],
            [id |-> "g", strategy |-> "rrf_fuse", sources |-> <<y, "b">>]>> :
              x \in {"b", "g"}, y \in {"c", "f"}}
Samples ==
    {[entry |-> "e", steps |-> [i \in DOMAIN order |-> NodeStep(order[i], reads, skipped)],
      fuse |-> fuse, conditions |-> Skipping, output |-> output] :
        order \in SetToSeqs({"a", "b", "c"}), reads \in Reads, skipped \in {"a", None},
        fuse \in Fuses, output \in {"b", "c", "g"}}

Nodes(p) == p.steps \o p.fuse
Needs(node) ==
    IF "sources" \in DOMAIN node THEN ToSet(node.sources)
    ELSE {Head(node.input.in.path)} \cap {"a", "b", "c"}
InOrder(p) ==
    \A i \in DOMAIN Nodes(p) :
        Needs(Nodes(p)[i]) \subseteq {Nodes(p)[j].id : j \in 1 .. i - 1}

\* What the nodes answer when each is asked once all it reads has answered, in whichever
\* order they are listed.
ByNeed(p) ==
    LET Ask(outputs, node) ==
            IF "sources" \in DOMAIN node THEN flow!RunFuse(outputs, node)
            ELSE flow!RunStep(p, Query, outputs, node)
        R[n \in Nat] == IF n = 0 THEN <<>> ELSE FoldLeft(Ask, R[n - 1], Nodes(p))
    IN flow!Output(R[Len(Nodes(p))], p.output)

\* A pipeline that lists what it reads before the reader answers what its data flow says,
\* in whichever of those orders (the executor "does not yet reorder").
ASSUME RunFollowsTheFlow == \A p \in Samples : InOrder(p) => flow!Run(p, Query) = ByNeed(p)

\* Any other order is accepted as well, and then a node reads Null and answers all the
\* same (dataflow.rs, "fuse nodes run once every step their sources name has finished").
ASSUME OrderIsNotChecked ==
    /\ \A p \in Samples : flow!ValidPipeline(p)
    /\ \E p \in Samples : flow!Run(p, Query) # ByNeed(p)

\* The compiled document is refused where it is vendored unchanged: its own fuse strategy
\* is not a known one.  Its recall is accepted alone, and then searches with Null for the
\* vector of the query, like a verb whose override vanishes between its two resolutions
\* ("pointing at an unmodified default reproduces today's fixed call sequence").
ASSUME VendoredDefaultIsBlind ==
    LET recall == [e \in {"recall"} |-> flow!DefaultDocument.recall]
        blind == flow!Term("search_with_recency", flow!Null)
        runs(first, second) ==
            flow!Run(flow!Overriding("recall", flow!Tier(first, Absent),
                                     flow!Document(second, Absent)), Query)
    IN /\ flow!Tier(flow!DefaultDocument, Absent) = "compiled_default"
       /\ flow!Tier(recall, Absent) = "local_override"
       /\ runs(recall, recall) = blind /\ runs(recall, Absent) = blind

\* An entry point that the served document leaves out goes the compiled way, also when
\* the config repo has a pipeline for it; a local document that does not load makes way
\* for the repo's, where a local graph does not.
ASSUME OneDocumentServes ==
    LET mine == [e \in {"codesearch"} |-> [flow!DefaultDocument.recall EXCEPT !.entry = "codesearch"]]
        theirs == [e \in {"recall"} |-> flow!DefaultDocument.recall]
        for(entry, own, shared) ==
            flow!Overriding(entry, flow!Tier(own, shared), flow!Document(own, shared))
    IN /\ for("recall", mine, theirs) = None /\ for("codesearch", mine, theirs) = mine.codesearch
       /\ for("recall", Malformed, theirs) = theirs.recall
       /\ GraphDetailed(Malformed, Configured) = CompiledDefault

-----------------------------------------------------------------------------
(* The files of the graph (FsmVendor).  review is a phase of the project   *)
(* alone, no text is compiled in for it.                                   *)
Keys == {"k1", "k2"}
Dated(g, version, keys) == [version |-> version, keys |-> keys] @@ g
Current == Dated(Default, 2, Keys)

vendor == INSTANCE FsmVendor WITH
    CompiledDefault <- Current, PolicyKeys <- Keys,
    CompiledProse <- AllPhases \cup {"entry", "browser"},
    Unreadable <- Malformed

Reviewing == [Current EXCEPT !.states = @ \cup {review},
                             !.edges = @ \o <<Edge(specify, review, <<>>), Edge(review, decide, <<>>)>>]
Ungated == [Current EXCEPT !.edges[2].gates = <<g1>>]
Relaxed == [Current EXCEPT !.gates[g2] = Gate(p1, None, "predicate-only")]
Legacy == Dated(Configured, 0, {"k1"})
Documents == {Current, Reviewing, Ungated, Relaxed, Legacy, Dated(DeadEnd, 2, Keys)}
Found == Documents \cup {Absent, Malformed}

Paths == {"graph", "config", "reference", "entry", "browser", review} \cup AllPhases
Mine == [path \in Paths |-> [mine |-> path]]
Disks ==
    {[file |-> [path \in Paths |-> CASE path = "graph" -> graph_
                                     [] path = review -> text
                                     [] path = specify -> own
                                     [] OTHER -> Absent],
      bak |-> [path \in Paths |-> Absent]] :
        graph_ \in Found, text \in {Absent, Mine[review]}, own \in {Absent, Mine[specify]}}
Unwritable == {{}, {[side |-> "bak", path |-> "graph"]}, {[side |-> "file", path |-> "graph"]}}

\* Vendoring without force leaves every file that is there as it is; with force, what was
\* there is in the .bak wherever that could be written.  Where it could not, the file is
\* overwritten all the same (fsm_vendor.rs, "without this a hand-tuned graph or gate set
\* is gone with no undo and no copy anywhere").
ASSUME VendoringKeepsWhatWasThere ==
    LET lost(old, new) ==
            {path \in Paths : old.file[path] \notin {Absent, new.file[path], new.bak[path]}}
        after(d, force, fails) == vendor!Vendor(d, Absent, force, fails)
    IN /\ \A d \in Disks, fails \in Unwritable :
            /\ lost(d, after(d, FALSE, fails)) = {} /\ after(d, FALSE, fails).bak = d.bak
            /\ lost(d, after(d, TRUE, fails)) \subseteq {u.path : u \in {x \in fails : x.side = "bak"}}
       /\ \E d \in Disks, fails \in Unwritable : lost(d, after(d, TRUE, fails)) # {}

\* After a forced run that could write the graph the compiled default is in force from the
\* local file, with no finding and no notice of a rejection.
ASSUME ForcedVendoringRefreshes ==
    \A d \in Disks, r \in Found, fails \in Unwritable \ {{[side |-> "file", path |-> "graph"]}} :
        LET new == vendor!Vendor(d, r, TRUE, fails)
        IN /\ vendor!Served(new, r) = Current /\ vendor!TierOf(new, r) = "local_override"
           /\ ~vendor!VendorFindings(new) /\ ~vendor!ValidateFindings(new, r)
           /\ vendor!Rejection(new, r) = None

\* Without force it takes the config repo's graph out of force wherever there was no local
\* file: nothing in the answer says so, as it does for prose (shadows_config_repo).
ASSUME VendoringShadowsTheRepo ==
    \A d \in Disks, r \in Documents :
        /\ d.file["graph"] = Absent =>
             vendor!TierOf(vendor!Vendor(d, r, FALSE, {}), r) = "local_override"
        /\ d.file["graph"] # Absent =>
             vendor!Served(vendor!Vendor(d, r, FALSE, {}), r).edges = vendor!Served(d, r).edges

\* A placeholder is never scaffolded for a phase that has no text yet: a graph with such a
\* phase is refused, and the default has none.  It only ever replaces, under force, the text
\* that was written for the phase (fsm_vendor.rs, "scaffolds an obvious placeholder").
ASSUME PlaceholderReplacesProse ==
    LET scaffolded(d, force) ==
            vendor!Vendor(d, Absent, force, {}).file[review] = vendor!Placeholder(review)
    IN /\ \A d \in Disks : ~scaffolded(d, FALSE)
       /\ \A d \in Disks : scaffolded(d, TRUE) <=>
              d.file["graph"] = Reviewing /\ d.file[review] = Mine[review]

\* The notice of a rejection stands exactly while a file that is consulted is not served.
ASSUME RejectionTellsTheTruth ==
    \A d \in Disks, r \in Found :
        vendor!Rejection(d, r) # None <=>
            /\ {d.file["graph"], r} # {Absent}
            /\ vendor!TierOf(d, r) = "compiled_default"

\* A file without findings that defines the default's gates as the default does is at least
\* as strict on every edge of the default.  A gate that keeps its name and asks something
\* else is not found.
ASSUME NoFindingsMeansAsStrict ==
    LET passes(g, e, holds_) ==
            \A name \in vendor!Ask(g, e) : GatePasses(g.gates[name], holds_)
        stricter(g) == \A e \in vendor!DefaultEdges, h \in SUBSET Evidence :
                            passes(g, e, h) => passes(Current, e, h)
    IN /\ \A g \in Documents :
            ~vendor!HasFindings(g, g) /\ (\A name \in AllGates : g.gates[name] = Current.gates[name])
                => stricter(g)
       /\ ~vendor!HasFindings(Relaxed, Relaxed) /\ ~stricter(Relaxed)

\* fsm-validate takes the policy keys from the local file and the rest from the graph in
\* force: it finds nothing of keys the config repo's graph lacks, and of a refused local
\* file nothing but its keys ("how far the ACTIVE graph is behind").
ASSUME ValidateMixesTwoFiles ==
    LET Refused == Dated([DeadEnd EXCEPT !.statuses = FALSE], 2, Keys)
        on(graph_, r) == vendor!ValidateFindings(
            [CHOOSE d \in Disks : d.file["graph"] = Absent EXCEPT !.file["graph"] = graph_], r)
    IN /\ ~on(Absent, [Current EXCEPT !.keys = {}])
       /\ vendor!HasFindings(Refused, Absent) /\ ~on(Refused, Absent)

\* The comparison of versions is that of the numbers they are, whatever their lengths.
ASSUME OlderIsLess ==
    LET Versions == UNION {[1 .. n -> 0 .. 2] : n \in 1 .. 3}
        value(v) == 9 * vendor!At(v, 1) + 3 * vendor!At(v, 2) + vendor!At(v, 3)
    IN \A have, want \in Versions :
          (vendor!MinUnmet(want, have) = "unmet") <=> value(have) < value(want)

\* A proposal changes nothing until it is confirmed, a graph not without the witness of
\* the consent.  A graph that was applied is the one in force; what it replaced is in the
\* .bak unless that could not be written.
ASSUME ProposalsNeedConsent ==
    \A d \in Disks, fails \in Unwritable, text \in Found \ {Absent},
      cited, confirmed, witnessed \in BOOLEAN :
        LET r == [kind |-> "graph", path |-> "graph", text |-> text,
                  cited |-> cited, confirmed |-> confirmed, witnessed |-> witnessed]
            new == vendor!Propose(r, d, fails)
        IN /\ new # d => cited /\ confirmed /\ witnessed
           /\ new.file # d.file =>
                /\ vendor!Served(new, Absent).edges = text.edges
                /\ vendor!TierOf(new, Absent) = "local_override"
                /\ fails = {} /\ d.file["graph"] # Absent => new.bak["graph"] = d.file["graph"]
=============================================================================
