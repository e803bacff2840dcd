------------------------------- MODULE MCKernel -------------------------------
(***************************************************************************)
(* Instances of Kernel: two agents who dispatch at their own pace, overlap *)
(* or work towards a gated phase; two entries over three modules; a chain  *)
(* of disciplines with a second provider and one in another realm.         *)
(***************************************************************************)
EXTENDS Kernel, TLC

CONSTANTS h1, h2, def, dp, da, db, de, dc, r1, r2, k0, kx, ka, kb, rm

Idling == [verbs |-> {"instruction", "browser", "fs_write", "health"}, together |-> TRUE,
           dispatches |-> 3, gaps |-> TRUE, content |-> 0, configured |-> FALSE, residual |-> {}]
Gated == [verbs |-> {"transition", "fs_write", "browser", "git_finalize"}, together |-> FALSE,
          dispatches |-> 4, gaps |-> FALSE, content |-> 1, configured |-> TRUE,
          residual |-> {"VERIFY"}]
Crowded == [Gated EXCEPT !.verbs = {"transition", "git_finalize"}, !.together = TRUE,
                         !.dispatches = 3]
ThreeSettings == {Idling, Gated, Crowded}

-----------------------------------------------------------------------------
TwoIds == <<"a", "b">>
ThreeUrls == <<"u", "v", "w">>
Url == [id \in {"a", "b"} |-> IF id = "a" THEN "u" ELSE "v"]
TwoKeys == <<"k", "l">>
Local == [id \in {"a", "b"} |-> IF id = "a" THEN "local:a" ELSE "local:b"]

\* Modules that import nothing, one another, or a third one.
Graph(u, v, w) == [m \in {"u", "v", "w"} |-> IF m = "u" THEN u ELSE IF m = "v" THEN v ELSE w]
Apart == Graph({}, {}, {})
OnW == Graph({"w"}, {"w"}, {})
Around == Graph({"v"}, {"w"}, {"u"})

Reload(changed, graph, source) ==
    [stashed |-> changed, externals |-> {}, imports |-> graph, source |-> source, fail |-> {}]

ReloadsDef ==
    {Reload({"u", "v"}, Apart, s) : s \in {"new", "newer", "broken"}}
    \cup {Reload({"w"}, OnW, "new"), Reload({"v", "w"}, OnW, "broken"),
          Reload({"v"}, Around, "new"), Reload({"v"}, Around, "broken"),
          [Reload({"v", "w"}, OnW, "new") EXCEPT !.externals = {"w"}],
          [Reload({"u", "v"}, OnW, "newer") EXCEPT !.fail = {"v"}]}

AnEntry(url, isolate, keys) ==
    [url |-> url, disabled |-> FALSE, isolate |-> isolate, config |-> 0, intercept |-> 0,
     keys |-> keys]
Pair(x, y) == [id \in {"a", "b"} |-> IF id = "a" THEN x ELSE y]
ListsDef ==
    {Pair(AnEntry("u", None, {"k", "l"}), AnEntry("v", "shared", {"k"})),
     Pair(AnEntry("u", "shared", {"k", "l"}), AnEntry("v", "local", {"k"})),
     Pair(AnEntry("u", "local:b", {"k"}), [AnEntry("v", "local", {"k"}) EXCEPT !.config = 1]),
     [id \in {"a"} |-> [AnEntry("u", "local", {"k"}) EXCEPT !.disabled = TRUE]]}

-----------------------------------------------------------------------------
Modules == {"u", "v", "w"}
Graphs == {g \in [Modules -> SUBSET Modules] : \A m \in Modules : m \notin g[m]}
Changes == {[Reload(s, g, "new") EXCEPT !.externals = e] :
              s \in (SUBSET Modules) \ {{}}, e \in SUBSET Modules, g \in Graphs}

\* classify accepts what changed and, beyond that, what imports an accepted module;
\* only a changed module that needs a restart is on both sides.
ASSUME AcceptedForAReason ==
    \A c \in Changes :
        LET class == loader!Classify(c)
        IN /\ \A m \in class.accepted \ c.stashed : c.imports[m] \cap class.accepted # {}
           /\ class.accepted \cap class.declined = c.stashed \cap c.externals

\* An entry that reaches a changed module past no declined one is stale, wherever it
\* is in the list.
ASSUME ChangedMeansStale ==
    \A c \in Changes : \A id \in {"a", "b"} :
        LET declined == loader!Classify(c).declined
            tree == loader!Dependencies(c.imports, Url[id], declined)
        IN tree \cap c.stashed # {} => \E i \in 1 .. 2 : 
              i \in DOMAIN loader!Detect(c).stale /\ loader!Detect(c).stale[i] = id

\* Algorithm 7 notifies nobody as long as no entry is registered as a provider, and
\* nothing registers one.
ASSUME NobodyAffected ==
    \A old, new \in Lists : \A id \in DOMAIN old \cap DOMAIN new, k \in {"k", "l"} :
        LET From == loader!RealmOf(id, old[id], k)
            To == loader!RealmOf(id, [old[id] EXCEPT !.isolate = new[id].isolate], k)
            state == loader!PatchIsolation(loader!NoState, id, old[id], new[id].isolate)
        IN loader!Affected(state, new, id, k, From, To) = {} /\ state.providers = <<>>

-----------------------------------------------------------------------------
\* A ring of da, db and de, which dp can start: da requires what de or dp provides.  dc
\* is of the other realm and requires it too, which nobody provides there.
Ring == {def, dp, da, db, de, dc}
RingRequires ==
    def :> {} @@ dp :> {k0} @@ da :> {kx} @@ db :> {ka} @@ de :> {kb} @@ dc :> {kx}
RingProvides ==
    def :> {k0} @@ dp :> {kx} @@ da :> {ka} @@ db :> {kb} @@ de :> {kx} @@ dc :> {kb}
RingRealm == [n \in Ring |-> IF n = dc THEN r2 ELSE r1]
\* Where dc is enabled, it moves kx into its own realm for everybody.
RingIsolation == [n \in Ring |-> IF n = dc THEN kx :> r2 ELSE [k \in {} |-> k]]
\* The ring is started, opened and closed; or dp is removed while dc is
\* edited.
EditedAndRemoved ==
    {[start |-> {da, db}, edits |-> {dp, de}, removals |-> {}],
     [start |-> {dp, da, de}, edits |-> {dc}, removals |-> {dp}]}

\* The same removal, and an entry is added meanwhile.
OneRemoved == {[start |-> {dp, da}, edits |-> {db}, removals |-> {dp}]}

ASSUME KernelAssumption
=============================================================================
