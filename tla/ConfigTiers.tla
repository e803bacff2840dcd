----------------------------- MODULE ConfigTiers -----------------------------
(***************************************************************************)
(* Which configuration and which texts a project is served (config.rs,     *)
(* prose.rs, and the graph pointer of orchestrator/fsm.rs): functions of   *)
(* the files of the project p,                                             *)
(*   vendored   .gm/gm.config.json,                                        *)
(*   spec       .gm/config.source.json,                                    *)
(*   home       the one of the home directory, NoHome if there is none,    *)
(*   source     .gm/instructions/source.json,                              *)
(*   local      .gm/instructions/<key>.md, from keys to texts or None,     *)
(*   checkouts  what the fetcher left, from directories to the contents of *)
(*              a repo: [config, texts], texts from <<directory, name>>,   *)
(*   failing    the sources whose refresh reports an error.                *)
(*                                                                         *)
(* A document is None (no file), Blank, Malformed or a JSON value.  A spec *)
(* is None, Blank, Malformed or the sequence of its sources, an object     *)
(* being a sequence of one; a source is Invalid when it has no repo or one *)
(* of its fields fails validation.  A directory is a sequence of names; a  *)
(* key is [space, stem], the space a namespace of messages or "".          *)
(***************************************************************************)
EXTENDS Naturals, SequencesExt

CONSTANTS
    SchemaVersion,  \* the version this build writes
    MinReadable,    \* and the oldest it reads
    None, Blank, Malformed, Invalid, NoHome

-----------------------------------------------------------------------------
(* JSON *)

Leaf(x) == [is |-> "leaf", leaf |-> x]
Object(fields) == [is |-> "object", at |-> fields]

Has(v, k) == v.is = "object" /\ k \in DOMAIN v.at

\* The value at a path of keys, None if the path leads nowhere.
Lookup(v, path) ==
    LET down[i \in 0 .. Len(path)] ==
          IF i = 0 THEN v
          ELSE IF down[i - 1] # None /\ Has(down[i - 1], path[i]) THEN down[i - 1].at[path[i]]
          ELSE None
    IN down[Len(path)]

\* The scalar there, or another.
ScalarOr(v, path, default) ==
    LET found == Lookup(v, path) IN
        IF found # None /\ found.is = "leaf" /\ found.leaf # None THEN found.leaf ELSE default

RECURSIVE DeepMerge(_, _)
DeepMerge(base, over) ==
    IF base.is = "leaf" \/ over.is = "leaf" THEN over
    ELSE Object([k \in DOMAIN base.at \cup DOMAIN over.at |->
            CASE k \notin DOMAIN over.at -> base.at[k]
              [] k \notin DOMAIN base.at -> over.at[k]
              [] OTHER                   -> DeepMerge(base.at[k], over.at[k])])

-----------------------------------------------------------------------------
(* One document *)

BuiltinDefault ==
    Object([version |-> Leaf(SchemaVersion),
            instructions |-> Object([source |-> Leaf(None)]),
            index |-> Object([enabled |-> Leaf(TRUE)]),
            memory |-> Object([enabled |-> Leaf(TRUE)])])

AbsentLoad == [is |-> "absent"]
RejectedLoad == [is |-> "rejected"]
Accepted(config) == [is |-> "accepted", config |-> config]

\* check_version: a newer one is read all the same.
Readable(v) ==
    /\ Has(v, "version") /\ v.at["version"].is = "leaf"
    /\ v.at["version"].leaf \in Nat /\ v.at["version"].leaf >= MinReadable

ParseConfig(doc) ==
    IF doc \in {None, Blank} THEN AbsentLoad
    ELSE IF doc = Malformed \/ doc.is = "leaf" \/ ~Readable(doc) THEN RejectedLoad
    ELSE Accepted(DeepMerge(BuiltinDefault, doc))

-----------------------------------------------------------------------------
(* One tier *)

ProjectRoot == <<"config-source-cache">>
UserRoot == <<"home", "config-source-cache">>
DefaultRoot == <<"config-source-cache-default">>
ProseRoot == <<"instructions-source-cache">>

\* parse_source_entry: every source has a directory of its own below the root of its
\* tier, named by a hash of the three fields.
CacheDir(root, src) == Append(root, src)

FileAt(p, dir) == IF dir \in DOMAIN p.checkouts THEN p.checkouts[dir].config ELSE None

\* load_one_repo_source, after the refresh: whether that one failed makes no
\* difference to what is loaded, and a file without content is no reason to be absent.
LoadSource(p, root, src) ==
    LET load == ParseConfig(FileAt(p, CacheDir(root, src))) IN
        IF load.is = "absent" THEN RejectedLoad ELSE load

\* The sources that load, later ones below earlier ones.
MergeSources(p, root, spec) ==
    LET configs == SelectSeq([i \in DOMAIN spec |-> LoadSource(p, root, spec[i])],
                             LAMBDA load : load.is = "accepted")
        below[i \in DOMAIN configs] ==
            IF i = 1 THEN configs[1].config ELSE DeepMerge(configs[i].config, below[i - 1])
    IN IF configs = <<>> THEN RejectedLoad ELSE Accepted(below[Len(configs)])

\* load_repo_tier and parse_source_spec: one source that is invalid takes the others
\* with it.
LoadTier(p, root, spec) ==
    CASE spec \in {None, Blank, NoHome}                        -> AbsentLoad
      [] spec = Malformed                                      -> RejectedLoad
      [] OTHER -> IF spec = <<>> \/ Contains(spec, Invalid) THEN RejectedLoad
                  ELSE MergeSources(p, root, spec)

-----------------------------------------------------------------------------
(* The chain *)

Tier(name, load, dir) == [name |-> name, load |-> load, dir |-> dir]

Tiers(p) ==
    <<Tier("project_vendored", ParseConfig(p.vendored), None),
      Tier("project_repo_spec", LoadTier(p, ProjectRoot, p.spec), ProjectRoot),
      Tier("user_repo_spec", LoadTier(p, UserRoot, p.home), UserRoot),
      Tier("implicit_default_repo", ParseConfig(FileAt(p, DefaultRoot)), DefaultRoot),
      Tier("builtin_default", Accepted(BuiltinDefault), None)>>

\* resolve_with: the first tier that loads, where a repo tier's directory is its root,
\* and the ones above it that were there and did not.
ResolveWith(p) ==
    LET tiers == Tiers(p)
        won == SelectInSeq(tiers, LAMBDA t : t.load.is = "accepted")
    IN [tier |-> tiers[won].name, config |-> tiers[won].load.config, dir |-> tiers[won].dir,
        rejected |-> {tiers[i].name : i \in {j \in 1 .. won - 1 : tiers[j].load.is = "rejected"}}]

\* The tiers whose sources a resolution refreshes: below a vendored file all of them,
\* so that an override hears of what it shadows; below another tier none.
Refreshed(p) ==
    LET names == [i \in 2 .. 4 |-> Tiers(p)[i].name]
        won == SelectInSeq(Tiers(p), LAMBDA t : t.load.is = "accepted")
    IN {names[i] : i \in {j \in 2 .. 4 : won = 1 \/ j <= won}}

\* RESOLVE_CACHE: an answer of less than ttl ago is given again, even if the files have
\* changed; a forced resolution forgets it.
Remembered(cached, root, now, ttl) ==
    IF root \in DOMAIN cached /\ now - cached[root].at < ttl THEN cached[root].resolution ELSE None
Remember(cached, root, now, resolution) ==
    [r \in DOMAIN cached \cup {root} |->
        IF r = root THEN [at |-> now, resolution |-> resolution] ELSE cached[r]]
Forget(cached, root) == [r \in DOMAIN cached \ {root} |-> cached[r]]

\* source_repo_graph_path: where the pointer of the configuration leads.
GraphPath(r) ==
    LET pointer == ScalarOr(r.config, <<"fsm", "graph">>, None) IN
        IF pointer = None \/ r.dir = None THEN None ELSE Append(r.dir, pointer)

-----------------------------------------------------------------------------
(* Texts *)

Hit(text) == [is |-> "hit", text |-> text]
Miss == [is |-> "miss"]
NotConfigured == [is |-> "not_configured"]
Broken == [is |-> "degraded"]
Unreachable == [is |-> "config_repo_unreachable"]

Reads(p, dir, address) ==
    IF dir \in DOMAIN p.checkouts /\ address \in DOMAIN p.checkouts[dir].texts
    THEN Hit(p.checkouts[dir].texts[address]) ELSE Miss

\* message_location, instructions_location: the directory of a namespace if the config
\* file of the checkout names one, and else that of the instructions.
Location(config, key) ==
    LET messages == Lookup(config, <<"messages", key.space>>) IN
        IF key.space # "" /\ messages # None /\ messages.is = "leaf"
        THEN <<messages.leaf, [space |-> "", stem |-> key.stem]>>
        ELSE <<ScalarOr(config, <<"instructions", "dir">>, "prose"), key>>

\* read_from_cache_root: a config file that is not there or does not parse names none.
FromCacheRoot(p, dir, key) ==
    LET doc == FileAt(p, dir)
        config == IF doc \in {None, Blank, Malformed} THEN Leaf(None) ELSE doc
    IN Reads(p, dir, Location(config, key))

FromConfigRepo(p, key) ==
    LET r == ResolveWith(p) IN
        IF r.dir = None THEN Unreachable ELSE FromCacheRoot(p, r.dir, key)

\* read_from_source_repo: without a source.json the config repo; a spec that names a
\* repo is its checkout, and its path says nothing; one that names a path only is a
\* directory nothing fetches.  A source whose refresh failed is broken.
FromSourceRepo(p, key) ==
    LET source == p.source IN
        CASE source = None      -> FromConfigRepo(p, key)
          [] source = Blank     -> NotConfigured
          [] source = Malformed -> Broken
          [] source = Invalid   -> Broken
          [] OTHER -> IF source.repo = None THEN Reads(p, ProseRoot, <<source.path, key>>)
                      ELSE IF source \in p.failing THEN Broken
                      ELSE Reads(p, CacheDir(ProseRoot, source), <<"", key>>)

\* resolve_detailed: the first tier that has a text, or the compiled default; a broken
\* tier is reported, the text served the same.
ProseOutcome(p, key, default) ==
    LET read == FromSourceRepo(p, key) IN
        CASE p.local[key] # None          -> [text |-> p.local[key], outcome |-> "local_override"]
          [] OTHER ->
              CASE read.is = "hit"                        -> [text |-> read.text, outcome |-> "source_repo"]
                [] read.is \in {"miss", "not_configured"} -> [text |-> default, outcome |-> "compiled_default"]
                [] OTHER                                  -> [text |-> default, outcome |-> read.is]
=============================================================================
