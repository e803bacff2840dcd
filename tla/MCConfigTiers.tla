---------------------------- MODULE MCConfigTiers ----------------------------
(***************************************************************************)
(* A project with ConfigTiers: its operator writes one file after another, *)
(* and the fetcher leaves the checkout of each source in its directory.    *)
(***************************************************************************)
EXTENDS ConfigTiers

CONSTANTS k, ours, theirs, compiled

Key == [space |-> "", stem |-> k]
Source == [repo |-> "a", ref |-> None, path |-> None]
Repo == [config |-> Object([version |-> Leaf(1)]), texts |-> [a \in {<<"prose", Key>>} |-> theirs]]

VARIABLE project

Init ==
    project = [vendored |-> None, spec |-> None, home |-> None, source |-> None,
               local |-> [key \in {Key} |-> None], checkouts |-> [d \in {} |-> Repo],
               failing |-> {}]

Puts(field, value) == project' = [project EXCEPT ![field] = value]

\* The default repo lies in the directory of its tier, any other in one of its own.
Fetch(dir) ==
    project' = [project EXCEPT !.checkouts =
                   [d \in DOMAIN project.checkouts \cup {dir} |-> Repo]]

Next ==
    \/ Puts("spec", <<Source>>)
    \/ Puts("home", <<Source>>)
    \/ \E text \in {ours, None} : Puts("local", [key \in {Key} |-> text])
    \/ Fetch(DefaultRoot)
    \/ project.spec # None /\ Fetch(CacheDir(ProjectRoot, Source))
    \/ project.home # None /\ Fetch(CacheDir(UserRoot, Source))

Spec == Init /\ [][Next]_project

\* The directory of the checkout that supplied the configuration.
WonFrom(r) ==
    CASE r.tier = "project_repo_spec"     -> CacheDir(ProjectRoot, Source)
      [] r.tier = "user_repo_spec"        -> CacheDir(UserRoot, Source)
      [] r.tier = "implicit_default_repo" -> DefaultRoot

\* A text that neither the project nor a source.json overrides is the one of the checkout
\* the configuration came from: the reader "always looks at whichever directory the
\* ACTUALLY-winning tier used, whatever that tier turns out to be" (prose.rs:384-387).
ReadsTheWinner ==
    LET r == ResolveWith(project) IN
        r.dir # None /\ project.local[Key] = None =>
            ProseOutcome(project, Key, compiled).text = project.checkouts[WonFrom(r)].texts[<<"prose", Key>>]
=============================================================================
