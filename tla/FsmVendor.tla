------------------------------ MODULE FsmVendor ------------------------------
(***************************************************************************)
(* What a project does to the files of its graph: vendoring the compiled   *)
(* defaults (orchestrator/fsm_vendor.rs), proposing an override            *)
(* (orchestrator/fsm_propose.rs), and what the reports of fsm.rs say of    *)
(* the graph in force.  One dispatch does all of it, so that a handler is  *)
(* a function of the disk.                                                 *)
(*                                                                         *)
(* A disk is [file, bak]: what each path holds and what its .bak holds.    *)
(* The paths are "graph", "config", the prose keys (a state is its own) and *)
(* "reference", which stands for all that is generated from the build and  *)
(* named by nothing yet.  fails is the set of the [side, path] that cannot *)
(* be written.                                                             *)
(*                                                                         *)
(* A document has, beyond what FsmGraph says, version (schema_version),    *)
(* keys (the policy keys that are spelled out in it) and minimum           *)
(* (min_plugkit_version: None, Unreadable or a sequence of numbers).       *)
(***************************************************************************)
EXTENDS FsmGraph

CONSTANTS
    PolicyKeys,         \* KNOWN_POLICY_KEYS
    CompiledProse,      \* the prose keys with a text compiled in
    Unreadable          \* a min_plugkit_version that is no dotted number

-----------------------------------------------------------------------------
(* Reports on a graph against the compiled default *)

Ask(g, e) == ToSet(EdgeBetween(g, e.from, e.to).gates)
DefaultEdges == ToSet(CompiledDefault.edges)

MissingStates(g) == CompiledDefault.states \ g.states
MissingEdges(g) == {e \in DefaultEdges : ~HasEdge(g, e.from, e.to)}
MissingGates(g) == DOMAIN CompiledDefault.gates \ DOMAIN g.gates
Weakened(g) ==
    {e \in DefaultEdges : HasEdge(g, e.from, e.to) /\ ~(ToSet(e.gates) \subseteq Ask(g, e))}
UnknownPredicates(g) ==
    {g.gates[name].predicate : name \in DOMAIN g.gates}
        \ (KnownPredicates \cup {None})

\* absent_policy_keys of the raw text, none when there is no such file.
MissingKeys(raw) == IF raw \in {Absent, Malformed} THEN {} ELSE PolicyKeys \ raw.keys

Stale(g) == g.version < CompiledDefault.version

\* staleness_report(g, raw).has_findings.
HasFindings(g, raw) ==
    \/ Stale(g)
    \/ MissingStates(g) \cup MissingGates(g) \cup UnknownPredicates(g) # {}
    \/ MissingEdges(g) \cup Weakened(g) # {}
    \/ MissingKeys(raw) # {}

-----------------------------------------------------------------------------
(* min_plugkit_version_unmet: the first place where the two differ decides, *)
(* and one that is not there is zero.                                      *)

At(version, i) == IF i \in DOMAIN version THEN version[i] ELSE 0

Older(have, want) ==
    \E i \in DOMAIN want :
        At(have, i) < want[i] /\ \A j \in 1 .. i - 1 : At(have, j) = At(want, j)

\* What is said of a minimum: nothing, that the build is older, or that it is ignored.
MinUnmet(minimum, running) ==
    CASE minimum = None -> "met"
      [] minimum = Unreadable -> "ignored"
      [] OTHER -> IF Older(running, minimum) THEN "unmet" ELSE "met"

-----------------------------------------------------------------------------
(* Resolution on a disk, with the notice it leaves *)

\* A state has prose when the text is compiled in or its file is there.
Parsed(doc, disk) ==
    IF doc \in {Absent, Malformed} THEN doc
    ELSE [doc EXCEPT !.prose =
            {s \in doc.states : s \in CompiledProse \/ disk.file[s] # Absent}]

LocalGraph(disk) == Parsed(disk.file["graph"], disk)
RepoGraph(disk, repo) == Parsed(repo, disk)

Served(disk, repo) == GraphDetailed(LocalGraph(disk), RepoGraph(disk, repo))

\* The file that is consulted: the config repo's only where there is no local one.
Consulted(disk, repo) ==
    IF LocalGraph(disk) # Absent THEN [tier |-> "local_override", doc |-> LocalGraph(disk)]
    ELSE [tier |-> "source_repo", doc |-> RepoGraph(disk, repo)]

TierOf(disk, repo) ==
    LET c == Consulted(disk, repo)
    IN IF c.doc # Absent /\ Loads(c.doc) THEN c.tier ELSE "compiled_default"

\* .gm/fsm-graph-rejected.json after a resolution.
Rejection(disk, repo) ==
    LET c == Consulted(disk, repo)
    IN IF c.doc = Absent \/ Loads(c.doc) THEN None
       ELSE [tier |-> c.tier, kind |-> IF c.doc = Malformed THEN "malformed" ELSE "invalid"]

-----------------------------------------------------------------------------
(* fsm-vendor *)

Put(disk, side, path, content, fails) ==
    IF [side |-> side, path |-> path] \in fails THEN disk
    ELSE [disk EXCEPT ![side][path] = content]

\* The previous content, where it is another one, goes to the .bak.
BackedUp(disk, path, content, fails) ==
    IF disk.file[path] \in {Absent, content} THEN disk
    ELSE Put(disk, "bak", path, disk.file[path], fails)

WriteIfAbsentOrForced(disk, path, content, force, fails) ==
    IF disk.file[path] # Absent /\ ~force THEN disk
    ELSE Put(BackedUp(disk, path, content, fails), "file", path, content, fails)

\* What this build has to say at a path, and what it scaffolds where it has nothing.
Compiled(path) == [compiled |-> path]
Placeholder(path) == [placeholder |-> path]
Prose(s) == IF s \in CompiledProse THEN Compiled(s) ELSE Placeholder(s)
ProseKeys(g) == g.states \cup {"entry", "browser"}

\* handle_vendor: the prose of every state of the graph in force, then the
\* graph and what is generated.  The config is scaffolded under another name.
Vendor(disk, repo, force, fails) ==
    LET Write(d, s) == WriteIfAbsentOrForced(d, s, Prose(s), force, fails)
        prose == FoldLeft(Write, disk, SetToSeq(ProseKeys(Served(disk, repo))))
        graph == WriteIfAbsentOrForced(prose, "graph", CompiledDefault, force, fails)
    IN WriteIfAbsentOrForced(graph, "reference", Compiled("reference"), force, fails)

\* The staleness part of its answer is about the file it found, valid or not.
VendorFindings(disk) ==
    LET raw == disk.file["graph"]
    IN raw \notin {Absent, Malformed} /\ HasFindings(raw, raw)

\* The staleness part of fsm-validate: the graph in force, the keys of the local file.
ValidateFindings(disk, repo) == HasFindings(Served(disk, repo), disk.file["graph"])

-----------------------------------------------------------------------------
(* fsm-propose-override.  A request is [kind, path, text, cited,            *)
(* confirmed, witnessed]: cited when it has a text, a reason and a witness, *)
(* witnessed when it has a confirmation_witness.                           *)

ValidText(r, disk) ==
    CASE r.kind = "prose"  -> TRUE
      [] r.kind = "config" -> r.text # Malformed
      [] r.kind = "graph"  -> Loads(Parsed(r.text, disk))

Outcome(r, disk) ==
    CASE ~r.cited \/ ~ValidText(r, disk)         -> "refused"
      [] ~r.confirmed                            -> "proposed"
      [] r.kind = "graph" /\ ~r.witnessed        -> "refused"
      [] OTHER                                   -> "applied"

Propose(r, disk, fails) ==
    IF Outcome(r, disk) # "applied" THEN disk
    ELSE Put(BackedUp(disk, r.path, r.text, fails), "file", r.path, r.text, fails)
=============================================================================
