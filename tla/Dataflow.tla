------------------------------- MODULE Dataflow -------------------------------
(***************************************************************************)
(* Pipelines as data (dataflow.rs, dataflow_exec.rs): a document names, by *)
(* entry point, the steps that answer a verb, how each step's request is   *)
(* built from the caller's and from earlier answers, and how answers are   *)
(* fused.  The document comes from a file of the project, one of the       *)
(* config repo or the compiled default; a verb runs a pipeline only when   *)
(* the document is not the default.                                        *)
(*                                                                         *)
(* A JSON value is Null, an atom, or an object; a plugin's answer is an    *)
(* object whose fields are terms over its request.  A document is Absent,  *)
(* Malformed or a function from entry points to pipelines                  *)
(*   [entry, steps, fuse, conditions, output]                              *)
(* with steps [id, plugin, verb, input, when], fuse nodes                  *)
(* [id, strategy, sources] and conditions [name, field, equals].  Names    *)
(* that are empty, which validation refuses, are left out.                 *)
(***************************************************************************)
EXTENDS Naturals, FiniteSets, SequencesExt

CONSTANTS None, Absent, Malformed

Null == [kind |-> "null"]
Atom(a) == [kind |-> "atom", is |-> a]
Object(fields) == [kind |-> "object", at |-> fields]
Term(operator, operand) == [kind |-> "term", op |-> operator, of |-> operand]

\* dig: a path that leaves the objects ends in Null.
Field(v, f) ==
    CASE v.kind = "object" /\ f \in DOMAIN v.at -> v.at[f]
      [] v.kind = "term" /\ v.op \notin {"vector", "fused"} -> Term(f, v)
      [] OTHER -> Null
Dig(v, path) == FoldLeft(Field, v, path)

-----------------------------------------------------------------------------
(* Validation *)

KnownFuseStrategy(strategy) == strategy = "rrf_fuse"

Ids(p) == [i \in 1 .. Len(p.steps) + Len(p.fuse) |->
             IF i <= Len(p.steps) THEN p.steps[i].id ELSE p.fuse[i - Len(p.steps)].id]

\* Pipeline::validate: which references an input has, and in which order the nodes
\* stand, is not looked at.
ValidPipeline(p) ==
    /\ IsInjective(Ids(p))
    /\ \A s \in ToSet(p.steps) : s.when # None => \E c \in ToSet(p.conditions) : c.name = s.when
    /\ \A f \in ToSet(p.fuse) :
          /\ f.sources # <<>>
          /\ ToSet(f.sources) \subseteq ToSet(Ids(p)) \ {f.id}
          /\ KnownFuseStrategy(f.strategy)
    /\ p.output \in ToSet(Ids(p))

ValidDocument(doc) == \A name \in DOMAIN doc : doc[name].entry = name /\ ValidPipeline(doc[name])

-----------------------------------------------------------------------------
(* Tiers *)

Loads(doc) == doc \notin {Absent, Malformed} /\ ValidDocument(doc)

\* document_detailed: a file that does not load makes way for the next tier.
Tier(local, repo) ==
    IF Loads(local) THEN "local_override" ELSE IF Loads(repo) THEN "source_repo" ELSE "compiled_default"

-----------------------------------------------------------------------------
(* Running a pipeline.  The state is what the nodes answered, by id. *)

\* resolve_ref on a reference [root, path] or a JSON value.
Resolve(ref, request, outputs) ==
    CASE ref.root = "value"   -> ref.value
      [] ref.root = "request" -> Dig(request, ref.path)
      [] ref.root = "steps" /\ Len(ref.path) > 1 /\ Head(ref.path) \in DOMAIN outputs ->
            Dig(outputs[Head(ref.path)], Tail(ref.path))
      [] OTHER -> Null

BuildBody(input, request, outputs) ==
    Object([f \in DOMAIN input |-> Resolve(input[f], request, outputs)])

\* The verbs of the core take the vector out of an object in their body.
Vector(query) == IF query = Null THEN Null ELSE Term("vector", query)
DispatchInternal(verb, body) ==
    CASE verb = "embed_query" -> Object([embedding |-> Vector(Field(body, "query"))])
      [] verb \in {"vector_search", "search_with_recency"} ->
            Term(verb, Dig(body, <<"embedding", "embedding">>))
      [] OTHER -> Term(verb, body)

DispatchStep(s, body) ==
    IF s.plugin = "gm" THEN DispatchInternal(s.verb, body) ELSE Term(s.verb, body)

EvalCondition(c, request) == Dig(request, c.field) = c.equals
ConditionOf(p, name) == SelectSeq(p.conditions, LAMBDA c : c.name = name)[1]

Put(outputs, id, v) == [x \in DOMAIN outputs \cup {id} |-> IF x = id THEN v ELSE outputs[x]]
Output(outputs, id) == IF id \in DOMAIN outputs THEN outputs[id] ELSE Null

RunStep(p, request, outputs, s) ==
    IF s.when # None /\ ~EvalCondition(ConditionOf(p, s.when), request) THEN outputs
    ELSE Put(outputs, s.id, DispatchStep(s, BuildBody(s.input, request, outputs)))

\* The ids a source offers; a source that did not run offers none.
IdList(v) == IF Field(v, "ids") # Null THEN Field(v, "ids") ELSE Field(v, "hits")
RunFuse(outputs, f) ==
    Put(outputs, f.id,
        CASE f.strategy = "rrf_fuse" ->
                Term("fused", [i \in DOMAIN f.sources |-> IdList(Output(outputs, f.sources[i]))])
          [] f.strategy = "present_both" ->
                Object([src \in ToSet(f.sources) |-> Output(outputs, src)]))

\* run: the steps in their order, then the fuse nodes in theirs.
Run(p, request) ==
    LET ran == FoldLeft(LAMBDA o, s : RunStep(p, request, o, s), <<>>, p.steps)
    IN Output(FoldLeft(RunFuse, ran, p.fuse), p.output)

-----------------------------------------------------------------------------
(* The compiled documents.  Inputs that only size or scope a search are left out. *)

Request(f) == [root |-> "request", path |-> <<f>>]
Answer(id, f) == [root |-> "steps", path |-> <<id, f>>]
Step(id, plugin, verb, input) ==
    [id |-> id, plugin |-> plugin, verb |-> verb, input |-> input, when |-> None]
Pipeline(entry, steps, fuse, output) ==
    [entry |-> entry, steps |-> steps, fuse |-> fuse, conditions |-> <<>>, output |-> output]

EmbedStep == Step("embed", "gm", "embed_query", [query |-> Request("query")])
Embedded == [embedding |-> Answer("embed", "embedding")]

DefaultDocument ==
    [codesearch |->
        Pipeline("codesearch",
            <<EmbedStep, Step("vector_search", "gm", "vector_search", Embedded),
              Step("bm25", "gm", "bm25_rank", [query |-> Request("query")]),
              Step("commits", "gm", "git_commit_rank", [query |-> Request("query")])>>,
            <<[id |-> "presented", strategy |-> "present_both",
               sources |-> <<"vector_search", "bm25", "commits">>]>>,
            "presented"),
     code_index |->
        Pipeline("code_index",
            <<Step("chunk", "gm", "extract_chunks", [source |-> Request("source")]),
              Step("embed_batch", "bert", "embed_batch", [texts |-> Answer("chunk", "bodies")]),
              Step("cache_write", "libsql", "upsert_chunks",
                   [chunks |-> Answer("chunk", "chunks"),
                    embeddings |-> Answer("embed_batch", "embeddings")])>>,
            <<>>, "cache_write"),
     recall |->
        Pipeline("recall",
            <<EmbedStep, Step("search", "gm", "search_with_recency", Embedded)>>,
            <<>>, "search")]

-----------------------------------------------------------------------------
(* recall and codesearch. *)

Document(local, repo) ==
    CASE Tier(local, repo) = "local_override" -> local
      [] Tier(local, repo) = "source_repo"    -> repo
      [] OTHER                                -> DefaultDocument

\* The verb resolves the document once for its tier and once more for the pipeline;
\* without one it goes the compiled way, which is not a pipeline.
Overriding(entry, tier, doc) ==
    IF tier # "compiled_default" /\ entry \in DOMAIN doc THEN doc[entry] ELSE None
=============================================================================
