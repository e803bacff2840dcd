----------------------------- MODULE MCConfigSync -----------------------------
(***************************************************************************)
(* An instance of ConfigSync: two processes, three revisions; renames that *)
(* fail, processes that are killed, or sessions that are told; and what    *)
(* ConfigTiers makes of the checkouts, over small documents and specs.     *)
(***************************************************************************)
EXTENDS ConfigSync

CONSTANTS p1, p2
Two == {p1, p2}

Shared == [together |-> TRUE, sessions |-> {}, network |-> TRUE, crashes |-> 0, failures |-> 3]
Killed == [together |-> FALSE, sessions |-> {}, network |-> TRUE, crashes |-> 2, failures |-> 0]
Told == [together |-> FALSE, sessions |-> {"s1", "s2"}, network |-> FALSE,
         crashes |-> 1, failures |-> 0]
ThreeSettings == {Shared, Killed, Told}

-----------------------------------------------------------------------------
CONSTANTS Blank, Malformed, Invalid, NoHome

tiers == INSTANCE ConfigTiers WITH SchemaVersion <- 1, MinReadable <- 1
Leaf(v) == tiers!Leaf(v)
Object(fields) == tiers!Object(fields)

\* Documents of up to two fields, each a scalar or an object with one field.
Values == {Leaf(0), Leaf(1)} \cup {Object([f \in F |-> Leaf(1)]) : F \in SUBSET {"b"}}
Trees == UNION {{Object(f) : f \in [K -> Values]} : K \in SUBSET {"a", "b"}} \cup {Leaf(0)}
Paths == {<<>>, <<"a">>, <<"b">>, <<"a", "b">>, <<"b", "b">>}
Under(q, r) == Len(q) <= Len(r) /\ SubSeq(r, 1, Len(q)) = q

\* A merge has exactly the scalars of what is over it and those of the base that lie
\* on or under no scalar of it and over nothing of it.
ScalarAt(v, path) == tiers!Lookup(v, path) # None /\ tiers!Lookup(v, path).is = "leaf"
ASSUME MergeIsOverlay ==
    \A base, over \in Trees : \A path \in Paths :
        LET merged == tiers!DeepMerge(base, over)
            shadowed == \/ tiers!Lookup(over, path) # None
                        \/ \E q \in Paths : Under(q, path) /\ ScalarAt(over, q)
            replaced == \E q \in Paths :
                            Under(q, path) /\ ScalarAt(base, q) /\ tiers!Lookup(over, q) # None
        IN ScalarAt(merged, path) <=>
             ScalarAt(over, path) \/ (ScalarAt(base, path) /\ ~shadowed /\ ~replaced)

-----------------------------------------------------------------------------
Says(section, value) == Object([version |-> Leaf(1)] @@ section :> value)
Disabled == Says("index", Object([enabled |-> Leaf(FALSE)]))
Pointing == Says("fsm", Object([graph |-> Leaf("graph.json")]))
Documents == {None, Blank, Malformed, Leaf(0), Object([a \in {} |-> 0]), Disabled, Pointing,
              Object([version |-> Leaf(0)]), Object([version |-> Leaf(2)])}

Source(name) == [repo |-> name, ref |-> None, path |-> None]
Specs == {None, Blank, Malformed, <<>>, <<Invalid>>, <<Source("r")>>, <<Source("r"), Source("s")>>,
          <<Source("r"), Invalid>>}

Key == [space |-> "", stem |-> "entry"]
Holds(doc) == [config |-> doc, texts |-> [a \in {<<"prose", Key>>} |-> "theirs"]]

\* The files of a project whose two sources and whose default repo have been fetched.
Project(vendored, spec, home, r, s, default) ==
    [vendored |-> vendored, spec |-> spec, home |-> home, source |-> None, failing |-> {},
     local |-> [key \in {Key} |-> None],
     checkouts |-> [d \in {tiers!CacheDir(root, Source(n)) :
                              root \in {tiers!ProjectRoot, tiers!UserRoot}, n \in {"r", "s"}}
                          \cup {tiers!DefaultRoot} |->
                        Holds(IF d = tiers!DefaultRoot THEN default
                              ELSE IF d[Len(d)] = Source("r") THEN r ELSE s)]]

Projects == {Project(v, spec, h, r, s, d) :
               v \in {None, Malformed, Pointing}, spec \in Specs, h \in {NoHome, None, <<Source("s")>>},
               r \in Documents, s \in {Malformed, Disabled}, d \in {None, Blank, Pointing}}

\* Whatever the files hold, a configuration is found, it states every setting the
\* builtin one states, and a tier above it was either not there or is reported.
ASSUME AlwaysConfigured ==
    \A p \in Projects :
        LET r == tiers!ResolveWith(p) IN
            /\ \A path \in {<<"version">>, <<"index", "enabled">>, <<"memory", "enabled">>} :
                   tiers!Lookup(r.config, path) # None
            /\ \A i \in 1 .. 5 : tiers!Tiers(p)[i].name = r.tier =>
                   \A j \in 1 .. i - 1 :
                       /\ tiers!Tiers(p)[j].load.is # "accepted"
                       /\ tiers!Tiers(p)[j].load.is = "rejected" <=> tiers!Tiers(p)[j].name \in r.rejected

\* The checkout that supplied the configuration has been refreshed on the way; where no
\* checkout did, all of them have, those a vendored file shadows included.
ASSUME WinnersAreCurrent ==
    \A p \in Projects :
        LET r == tiers!ResolveWith(p) IN
            /\ r.dir # None => r.tier \in tiers!Refreshed(p)
            /\ r.dir = None => \A i \in 2 .. 4 : tiers!Tiers(p)[i].name \in tiers!Refreshed(p)

\* An answer is given again for its project only, for as long as it is fresh, and not
\* after a forced resolution.
ASSUME AnswersAreKeptPerProject ==
    \A root, other \in {"x", "y"}, at, now \in 0 .. 4, r \in {"one", "two"} :
        LET cached == tiers!Remember(tiers!Remember([q \in {} |-> None], other, at, "other"),
                                     root, at, r)
        IN at <= now =>
             /\ tiers!Remembered(cached, root, now, 2) = IF now < at + 2 THEN r ELSE None
             /\ tiers!Remembered(tiers!Forget(cached, root), root, now, 2) = None
             /\ root # other => tiers!Remembered(tiers!Forget(cached, root), other, at, 2) = "other"

\* What a source does not state it takes from the builtin configuration, and so states it
\* over every source after it.
ASSUME DefaultsShadowLaterSources ==
    \A spec \in {<<Source("r"), Source("s")>>} :
        LET p == Project(None, spec, None, Pointing, Disabled, None) IN
            tiers!Lookup(tiers!ResolveWith(p).config, <<"index", "enabled">>) = Leaf(TRUE)

\* A spec is as good as its worst source is valid, not as it loads.
ASSUME OneInvalidSourceTakesAll ==
    \A r \in Documents, s \in {Malformed, Disabled} :
        LET p == Project(None, <<Source("r"), Invalid>>, None, r, s, None)
            q == Project(None, <<Source("r"), Source("s")>>, None, r, s, None)
        IN /\ tiers!Tiers(p)[2].load.is = "rejected"
           /\ tiers!Tiers(q)[2].load.is = "accepted"
                <=> \E doc \in {r, s} : tiers!ParseConfig(doc).is = "accepted"

\* Only the tier of the default repo has its checkout where texts and the graph pointer
\* look for it.
ASSUME OnlyTheDefaultRepoIsRead ==
    \A p \in Projects :
        LET r == tiers!ResolveWith(p)
            served == tiers!ProseOutcome(p, Key, "compiled")
        IN /\ served.text = "theirs" => r.tier = "implicit_default_repo"
           /\ r.dir = None <=> served.outcome = "config_repo_unreachable"
           /\ tiers!GraphPath(r) # None => r.dir # None
=============================================================================
