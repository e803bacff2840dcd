--------------------------- MODULE ComponentLoader ---------------------------
(***************************************************************************)
(* The component loader (orchestrator/component_loader.rs and its dispatch *)
(* verbs): reconciliation of two lists of entries, reassignment of realms  *)
(* against the persisted loader state, and hot replacement of modules,     *)
(* which rolls back when an import fails.                                  *)
(*                                                                         *)
(* Entries are a sequence of ids, as the handlers walk them; modules are   *)
(* walked in the order of their urls.  The engine that disposes and        *)
(* instantiates fibers is the caller's (trait FiberSwap): an import fails  *)
(* by the source it is given, as a module with a syntax error does, or, in *)
(* the engine the verb brings (RecordingSwap), by its url.                 *)
(***************************************************************************)
EXTENDS SequencesExt

CONSTANTS
    Ids,            \* entry ids, in the order of the list
    Urls,           \* urls of modules, in their order
    UrlOf,          \* the module of each entry
    Keys,           \* keys that entries isolate
    LocalRealm,     \* the realm name "local:<id>" of an id
    Versions,       \* sources of modules
    First,          \* the one every module has at first
    Broken,         \* those whose import fails
    Cycles,         \* reloads that may be asked for
    Lists,          \* lists of entries that may be reconciled
    MaxCycles,      \* bound on reloads and reconciliations
    None

EntryIds == ToSet(Ids)
Modules == ToSet(Urls)

\* A reload: the changed modules, the ones that need a restart, what imports what,
\* the source the changed ones now have, and the urls whose imports fail.
CycleType ==
    [stashed : SUBSET Modules, externals : SUBSET Modules, imports : [Modules -> SUBSET Modules],
     source : Versions, fail : SUBSET Modules]

ComponentLoaderAssumption ==
    /\ Ids \in Seq(EntryIds) /\ Urls \in Seq(Modules) /\ UrlOf \in [EntryIds -> Modules]
    /\ Broken \subseteq Versions /\ First \in Versions \ Broken
    /\ MaxCycles \in Nat
    /\ \A c \in Cycles : c \in CycleType
    /\ \A l \in Lists : DOMAIN l \subseteq EntryIds

VARIABLES
    fibers,         \* what each entry runs: the source, or None
    current,        \* the source each module has
    reload,         \* the reload under way
    outcome,        \* of the last one
    entries,        \* the list that was reconciled last
    saved,          \* .gm/component-loader/loader-state.json
    drawn,          \* history: the tags each reassignment drew
    excused,        \* history: modules that need a restart, or whose url failed
    count           \* reloads and reconciliations

loaderVars == <<fibers, current, reload, outcome, entries, saved, drawn, excused, count>>

-----------------------------------------------------------------------------
(* Reconciliation *)

\* diff_entries, for an entry that was prev and is now next (an absent one is None):
\* the field that decides what is done.  A new entry is one with another url, an
\* entry that is gone is one that was disabled.
Fields == <<"url", "disabled", "isolate", "config", "intercept">>

Changed(prev, next) == SelectSeq(Fields, LAMBDA f : prev[f] # next[f])

Decision(prev, next) ==
    IF prev = None \/ next = None
    THEN IF prev # None THEN "disabled" ELSE IF next # None THEN "url" ELSE "nothing"
    ELSE IF Changed(prev, next) = <<>> THEN "nothing" ELSE Head(Changed(prev, next))

Entry(list, id) == IF id \in DOMAIN list THEN list[id] ELSE None

\* realm_for and realm_of: a key outside of what the entry isolates, and one under no
\* annotation, is in the default realm, None.
RealmOf(id, entry, key) ==
    IF entry.isolate = None \/ key \notin entry.keys THEN None
    ELSE IF entry.isolate = "local" THEN LocalRealm[id] ELSE entry.isolate

NoState == [tag |-> 0, tags |-> <<>>, providers |-> <<>>]

Set(f, x, y) == [z \in DOMAIN f \cup {x} |-> IF z = x THEN y ELSE f[z]]
Unset(f, x) == [z \in DOMAIN f \ {x} |-> f[z]]
Get(f, x) == IF x \in DOMAIN f THEN f[x] ELSE None

\* Line 12 of Algorithm 7: the entry was the provider, and nobody is in the new realm.
Moves(state, id, key, from, to) ==
    Get(state.providers, <<key, from>>) = id /\ <<key, to>> \notin DOMAIN state.providers

\* A fresh tag for the key, and the binding moved along with its provider.
Reassigned(state, id, key, from, to) ==
    [tag       |-> state.tag + 1,
     tags      |-> Set(state.tags, <<id, key>>, state.tag + 1),
     providers |-> IF Moves(state, id, key, from, to)
                   THEN Set(Unset(state.providers, <<key, from>>), <<key, to>>, id)
                   ELSE state.providers]

\* Lines 15 to 17: those whose view of the key changes with the move.
Affected(state, list, id, key, from, to) ==
    LET provider == Get(state.providers, <<key, from>>)
        theirs == IF provider = None THEN None ELSE Get(state.tags, <<provider, key>>)
    IN {d \in DOMAIN list \ {id} :
          /\ RealmOf(d, list[d], key) \in {from, to}
          /\ (Get(state.tags, <<d, key>>) = state.tag + 1)
             # (theirs # None /\ Get(state.tags, <<d, key>>) = theirs)}

\* patch_isolation, for the keys whose realm changes, in their order.
MovedKeys(id, prev, isolate) ==
    SelectSeq(Keys, LAMBDA k : RealmOf(id, prev, k) # RealmOf(id, [prev EXCEPT !.isolate = isolate], k))

PatchIsolation(state, id, prev, isolate) ==
    FoldLeft(LAMBDA s, k : Reassigned(s, id, k, RealmOf(id, prev, k),
                                      RealmOf(id, [prev EXCEPT !.isolate = isolate], k)),
             state, MovedKeys(id, prev, isolate))

\* serde_json takes no map whose keys are pairs: a state with any is not written.
Serializes(state) == state.tags = <<>> /\ state.providers = <<>>

\* handle_reconcile: the caller brings both lists, here the last one and the next.
Reconcile(list) ==
    LET moved == SelectSeq(Ids, LAMBDA i : Decision(Entry(entries, i), Entry(list, i)) = "isolate")
        state == FoldLeft(LAMBDA s, i : PatchIsolation(s, i, entries[i], list[i].isolate), saved, moved)
    IN /\ reload.pc = "idle" /\ count < MaxCycles
       /\ entries' = list
       /\ saved' = IF Serializes(state) THEN state ELSE saved
       /\ drawn' = IF moved = <<>> THEN drawn
                   ELSE Append(drawn, saved.tag + 1 .. state.tag)
       /\ count' = count + 1
       /\ UNCHANGED <<fibers, current, reload, outcome, excused>>

-----------------------------------------------------------------------------
(* Hot replacement *)

\* A module in a round of classify: accepted when it imports an accepted one, declined
\* when it imports declined ones only, and else its imports are to be decided first.
Judge(imports, round, url) ==
    LET its == imports[url]
    IN CASE its \cap round.accepted # {} ->
              [round EXCEPT !.accepted = @ \cup {url}, !.pending = @ \ {url}, !.progress = TRUE]
         [] its \cap round.accepted = {} /\ its # {} /\ its \subseteq round.declined ->
              [round EXCEPT !.declined = @ \cup {url}, !.pending = @ \ {url}, !.progress = TRUE]
         [] OTHER ->
              [round EXCEPT !.pending = @ \cup (its \ (round.accepted \cup round.declined))]

\* A round, and what it has made of the pending modules among the first n.
Judged(imports, round) ==
    LET judged[n \in 0 .. Len(Urls)] ==
            IF n = 0 THEN [round EXCEPT !.progress = FALSE]
            ELSE IF Urls[n] \in round.pending THEN Judge(imports, judged[n - 1], Urls[n])
            ELSE judged[n - 1]
    IN judged
Round(imports, round) == Judged(imports, round)[Len(Urls)]

\* Each round but the last decides a module.
Rounds(imports, first) ==
    LET after[n \in 0 .. Len(Urls) + 1] ==
            IF n = 0 THEN first
            ELSE IF after[n - 1].progress THEN Round(imports, after[n - 1]) ELSE after[n - 1]
    IN after

\* classify: what no round decided is declined.
Classify(c) ==
    LET start == [accepted |-> c.stashed, declined |-> c.externals, progress |-> TRUE,
                  pending  |-> (UNION {c.imports[u] : u \in c.stashed}) \ (c.stashed \cup c.externals)]
        final == Rounds(c.imports, start)[Len(Urls) + 1]
    IN [accepted |-> final.accepted, declined |-> final.declined \cup final.pending]

\* get_dependencies: the modules reached without a declined one, in n steps or fewer.
Reached(imports, root, declined) ==
    LET reached[n \in 0 .. Len(Urls)] ==
            IF n = 0 THEN {root} \ declined
            ELSE reached[n - 1] \cup ((UNION {imports[u] : u \in reached[n - 1]}) \ declined)
    IN reached
Dependencies(imports, root, declined) == Reached(imports, root, declined)[Len(Urls)]

\* detect: an entry is stale when its tree has an accepted module; the tree is
\* accepted, too, for the entries that come after it.
Examine(d, id, tree) ==
    IF tree \cap d.accepted = {} THEN d
    ELSE [stale |-> Append(d.stale, id), accepted |-> d.accepted \cup tree]
Examined(imports, class) ==
    LET after[n \in 0 .. Len(Ids)] ==
            IF n = 0 THEN [stale |-> <<>>, accepted |-> class.accepted]
            ELSE Examine(after[n - 1], Ids[n],
                         Dependencies(imports, UrlOf[Ids[n]], class.declined))
    IN after
Detect(c) == Examined(c.imports, Classify(c))[Len(Ids)]

Idle == [pc |-> "idle", cycle |-> None, stale |-> <<>>, at |-> 1, backup |-> <<>>]

\* hmr_cycle: the accepted modules are backed up before anything is disposed.
StartCycle(c) ==
    LET d == Detect(c)
    IN /\ reload.pc = "idle" /\ count < MaxCycles
       /\ reload' = [pc |-> "swap", cycle |-> c, stale |-> d.stale, at |-> 1,
                     backup |-> [u \in d.accepted |-> current[u]]]
       /\ outcome' = None
       /\ excused' = excused \cup c.fail \cup (c.externals \cap c.stashed)
       /\ count' = count + 1
       /\ UNCHANGED <<fibers, current, entries, saved, drawn>>

Stale == reload.stale[reload.at]
Url == UrlOf[Stale]
NextSource(u) == IF u \in reload.cycle.stashed THEN reload.cycle.source ELSE current[u]
More == reload.at <= Len(reload.stale)

\* FiberSwap: dispose and instantiate.
Imports(source) == source \notin Broken /\ Url \notin reload.cycle.fail
Runs(source) == fibers' = [fibers EXCEPT ![Stale] = IF Imports(source) THEN source ELSE None]

Swap ==
    LET source == NextSource(Url)
    IN /\ reload.pc = "swap" /\ More
       /\ Runs(source)
       /\ reload' = IF Imports(source) THEN [reload EXCEPT !.at = @ + 1]
                    ELSE [reload EXCEPT !.pc = "restore", !.at = 1]
       /\ UNCHANGED <<current, outcome, entries, saved, drawn, excused, count>>

\* Mutant: what was not reloaded is taken to run still.
RestoreReloaded ==
    LET failed == {i \in DOMAIN reload.stale : fibers[reload.stale[i]] = None}
    IN /\ reload.pc = "restore" /\ More
       /\ IF reload.at \in failed THEN UNCHANGED fibers ELSE Runs(reload.backup[Url])
       /\ reload' = [reload EXCEPT !.at = @ + 1]
       /\ UNCHANGED <<current, outcome, entries, saved, drawn, excused, count>>

\* Every stale entry is rebuilt from its backup, whether or not that works.
Restore ==
    /\ reload.pc = "restore" /\ More
    /\ Runs(reload.backup[Url])
    /\ reload' = [reload EXCEPT !.at = @ + 1]
    /\ UNCHANGED <<current, outcome, entries, saved, drawn, excused, count>>

Finish ==
    /\ reload.pc \in {"swap", "restore"} /\ ~More
    /\ outcome' = IF reload.pc = "swap" THEN "committed" ELSE "rolled back"
    /\ current' = IF reload.pc = "swap"
                  THEN [u \in Modules |-> IF u \in DOMAIN reload.backup THEN NextSource(u)
                                          ELSE current[u]]
                  ELSE current
    /\ reload' = Idle
    /\ UNCHANGED <<fibers, entries, saved, drawn, excused, count>>

LoaderInit ==
    /\ current = [u \in Modules |-> First]
    /\ fibers = [id \in EntryIds |-> current[UrlOf[id]]]
    /\ reload = Idle /\ outcome = None
    /\ entries = <<>>
    /\ saved = NoState
    /\ drawn = <<>> /\ excused = {} /\ count = 0

Loading ==
    \/ \E c \in Cycles : StartCycle(c)
    \/ Swap \/ Restore \/ Finish
    \/ \E l \in Lists : Reconcile(l)

-----------------------------------------------------------------------------
\* "The system never enters a half-reloaded state" (component_loader.rs:446):
\* between reloads, committed or rolled back, each entry runs the source its module
\* has, except for modules that only a restart replaces and urls that cannot be
\* imported at all.
NeverHalfReloaded ==
    reload.pc = "idle" =>
        \A id \in EntryIds : UrlOf[id] \in excused \/ fibers[id] = current[UrlOf[id]]

\* "A monotonic counter is a sound freshness source" (component_loader.rs:303): no
\* two reassignments draw the same tag.
TagsFresh == \A i, k \in DOMAIN drawn : i # k => drawn[i] \cap drawn[k] = {}
=============================================================================
