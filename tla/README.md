# Verification of plugkit-core

TLA+ models, TLC runs and TLAPS proofs for `crates/plugkit-core`, the wasm guest
that `agentplug-runner` calls once per dispatched verb. Paths without a prefix
are under `crates/plugkit-core/src/`.

## 1. The system

A *dispatch* is one call of the guest: a verb, a body, an answer. The guest keeps
no state of its own that matters: everything is in files under `.gm/` and in the
host's key-value store, read and written by host calls. Several dispatches run
at the same time (several agents and projects share one plugin instance), a
dispatch can be killed between two host calls, and people edit the same files by
hand. The hard behaviours all come from there: what was read is stale when it is
used, one of several writes is missing, a retry finds that its work was done.

| component | source | state | operations | what makes it correct |
|---|---|---|---|---|
| base calculus | `orchestrator/calculus.rs` | a registry of fibers with required and provided keys | insert, retire, remove, reload, unload, in any order | no two providers of a key; the order does not matter at rest |
| extended calculus | `orchestrator/calculus.rs` | four-state fibers, committed views, outcomes | begin, iterate, finish, divert, raise, leave, unload, insert, remove | providers outlive their dependents; no deadlock; errors are final |
| revertible effects | `orchestrator/calculus.rs` | none | composition and inverse of effects, two ways back | the ways back recover the state |
| disciplines | `orchestrator/discipline_note.rs`, `fiber_lifecycle.rs`, `coeffect_realm.rs` | `enabled.txt`, one `fiber-state.json` per discipline | a pass of `active_policies`, `discipline-check-removal`, hand edits | settles to the satisfiable set; a removal breaks nobody |
| work list | `orchestrator/prd.rs`, `cas.rs`, `yaml_util.rs` | `prd.yml` | prd-add, -defer, -resolve, the drain of a commit, over compare-and-swap | atomic; comments reach one commit; evidence is distinct |
| residual scan | `orchestrator/residual.rs` | `residual-check-fired` | residual-scan, invalidation by prd-add | the marker vouches for an empty work list |
| mutables | `orchestrator/mutables.rs` | `mutables.yml` | mutable-add, -defer, -resolve, the obligation gates | obligations never wait in a circle; open gates vouch |
| phase machine | `orchestrator/state.rs`, `transitions.rs`, `instructions/mod.rs` | `turn-state.json`: phase and history | transition, transition-revert, instruction | moves along edges under true gates; the history is a walk |
| fsm graph | `orchestrator/fsm.rs` | the graph of phases, from three tiers | parse, validate, look up | every accepted graph is well formed |
| fsm vendoring, proposals | `orchestrator/fsm_vendor.rs`, `fsm_propose.rs` | the graph, its policy and prose as files of the project | vendor, force, validate, report staleness, propose | nothing of the project is overwritten unasked; reports say what is in force |
| asynchronous git | `wasm_dispatch/verbs.rs`, `wasm_dispatch/host_abi.rs` | replay plans and tokens in the key-value store, the outbox | git verbs, git_poll | each git call runs once; polling ends |
| git delivery | `wasm_dispatch/verbs.rs` | the checkout, origin, `.ci-validated` | git_finalize, git_push, the CI marker | what is reported as pushed is on origin; nothing committed is lost; the marker vouches for green CI |
| config checkout | `config_sync.rs` | cache directory, staging, retired, lock, sync state | ensure_current | the last good copy survives; one refresher |
| config resolution | `config.rs`, `prose.rs`, `config_path.rs` | none, an answer kept for two seconds | load, merge, find a text | precedence of tiers; always a configuration; a rejected tier is reported |
| config notifications | `orchestrator/config_notify.rs` | a list of changes with rosters | record, drain for a session | each session is told once |
| pipelines | `pipeline.rs` | the pending step of a suspended verb | start, continue | a step is answered once, in its turn |
| gates | `gates.rs` | time stamps, residual flags | admit or refuse a verb | who works is not refused as idle; a refusal can be resolved |
| component loader | `orchestrator/component_loader.rs` | entries, realms, modules, backups | reconcile, classify, detect, reload | a reload is whole or taken back |
| dispatch ledger | `dispatch_ledger.rs` | a list of dispatches | append, query | an answer that was given can be cited |
| deviations, browser witness, tasks, audits | `orchestrator/deviations.rs`, `browser_witness.rs`, `task.rs`, `claim_audit.rs`, ... | counters, witnessed hashes, logs | record, read | what was witnessed opens the gate |
| memory | `orchestrator/memorize.rs`, `memory_md.rs`, `rssearch_vectors.rs`, `wasm_dispatch/verbs.rs` | markdown files carried by git, a vector table, digests, a legacy store | memorize, prune, export, rekey, passes of the index sync | no memory is lost; the table converges to the files |
| search indexes | `code_index.rs`, `git_commit_vectors.rs`, `vecns.rs`, ... | manifests, chunks, vectors, call edges, digests; a row per commit | passes within a budget, search, impact | a fresh digest vouches for the rows; the indexes converge |
| embedding | `embed.rs` | who embeds, caches, spilled queries | embed a text, a query, a batch | an answer is for its text; whoever can embed does |
| cache | `cache.rs` | rows of a namespace | put, get, sweep, evict, drop | within budget; only the excess goes |
| capability access | `orchestrator/capability_proxy.rs` | none (reads the disciplines) | resolve a key | only an active provider is resolved |
| plugin envelopes | `plugin_abi.rs`, `orchestrator/mediator.rs`, ... | none | envelopes to siblings | - |
| dataflow | `dataflow.rs`, `dataflow_exec.rs` | none | find the document, validate it, run a pipeline | each step sees the answers before it |
| text scanners | `prose.rs`, `filter.rs`, `gitignore.rs`, `scan_deps.rs`, ... | none | pure | - |
| Lean formalisation | `formal/` | - | - | a proof of the calculi's metatheory, beside the crate |

How they interact. `instruction` and `transition` share `turn-state.json`; the
gates of a transition read `prd.yml`, `mutables.yml`, the residual marker and the
worktree; prd-add deletes the marker the residual scan writes; git_commit takes
the comments of closed rows out of `prd.yml`; `instruction` runs the discipline
pass and drains the configuration notices a refresh has recorded; a configuration
refresh replaces the graph the next dispatch resolves. Every verb passes the
gates and leaves an entry in the dispatch ledger, which prd-resolve consults.
Memories, code chunks, commits and the cache share one database, `gm.db`, which
whoever finds it malformed deletes and recreates under the others.

`PROJECT.json` lists the hazards of this code line by line, with the properties
that would catch each.

## 2. What is modelled

Each component has a module. Components that share state, or that a project looks
at side by side, are composed by a module over them: `Calculi` (the two calculi, one or the other at
work), `RowStores` (mutables and work
list, which share the residual marker), `GitVerbs` (replay and delivery), `Kernel`
(dispatch, component loader, disciplines), `Stores` (memories, code, commits, cache over
one `gm.db`). A composition has a parameter `Uses`, the parts a behaviour works with;
each part keeps its own variables and the rest stands still. Parts that do not touch each other's
state are looked at one at a time, since their interleaving adds nothing; the
`Stores` are also run two at a time, because a database lost to one is lost to all. In the same way
`Settings` and `Scenarios` are sets of constants of one run: which failures may
happen, how many dispatches, whether they overlap. A behaviour picks one at its start
and keeps it, so that no run mixes all bounds at their largest.

`MC<module>` is the instance for TLC with a cfg of the same name; a `.cfg` with another name
is a second question to the same instance. Theorems are in `<module>_proofs`.
A definition whose comment begins with
"Mutant" is a plausible bug; the mutant runs put it in the place of the definition after it.

Where the code is a pure algorithm there is no state to explore: the operators are
compared with what they should compute by named `ASSUME`s in the MC module, over
all small inputs. `MCCalculi` does so for the pairs of effects, `MCPhaseMachine` for `FsmGraph`,
`Dataflow` and `FsmVendor`, `MCKernel` for classify, detect and reconcile, `MCConfigSync`
for `ConfigTiers`, `MCRowStores` for the cycle check, `MCStores` for `CodeSearch` and `Embedding`.
An assumption that states a surprising behaviour is one of the disagreements of section 5.

### The calculi and the disciplines

**BaseCalculus** (`Registry`). `fibers` is the map of the registry, one action per
rule. `KeyTable` is what it promises to a user of keys: each key has at most one
provider, and changes hands only through being free. The run takes a pool of five
candidates with two contenders for a key and one name declared twice; every
interleaving is explored, so the insertion order, retirement at any moment and
re-insertion after removal are all met.

**ExtendedCalculus** (`ExtendedRegistry`). The same registry with loading in
iterations, diversion, errors and committed views. `relied` compares a fiber
*name* with committed *keys*, as the code does. The run therefore takes a pool
whose keys are spelled like their providers, the only one in which `relied` can
mean what its comment says; section 5 says what happens in others. `Calculi` puts the two registries
side by side; they share nothing, so a behaviour is of one of them.

Revertible effects are the last part of `BaseCalculus`: an effect is a pair of functions over any set of
states, undone in the order of a stack or the first effect first. The laws are proved; the demo that
`calculus-model-check` runs is evaluated.

**Disciplines**. The transition table of `advance_fiber`, `enabled`, the persisted state of each fiber,
the pass of `active_policies` (one discipline at a time, in any order), the steps
of `discipline-check-removal` (the check, its two reads of `enabled.txt`, the swap), and what
`capability_proxy` resolves. Removals, passes and hand edits interleave at every step. Manifests are
constants; a behaviour has a plan, what is enabled at first, what is edited by hand and what is
removed. The run has a ring of three requirements, a provider outside that can start it, and a
dependent in another realm which, where enabled, moves the key of that provider into its own
realm. In one plan the ring is started, opened and closed again; in the other the
provider is removed while the isolating one is edited.

### Work list and mutables

**PrdRows, AtomicPrd, PrdStore**. `PrdRows` is what each verb does to the rows,
`AtomicPrd` the specification of a work list whose verbs are atomic, `PrdStore`
the program: a read, a computation, a compare-and-swap, retried, around it the
duplicate-witness check, the residual marker, the commit. One setting has
three dispatches at once over two rows and shows that the program implements
`AtomicPrd`; three attempts for three dispatches are what the retry bound has to
cover. The other runs four dispatches one after another with failing
writes, failing commits and resumed commits.

**MutableStore**. The rows of `mutables.yml` in order, the cycle check of
mutable-add as reachability (compared with the walk the code does on all
dependency maps over three ids), the blocking of mutable-resolve, the gates by
kind of obligation. The run adds every dependency map over three ids under fresh
ids; two of the five lists of kinds stand for all, which are used alike.

### The phase machine

**FsmGraph, PhaseMachine**. `FsmGraph` has what `fsm.rs` asks of a document before
it is served, the order of the tiers, and the evaluation of gates; its reachability
fixpoint is compared with the definition on every graph over three phases.
`PhaseMachine` adds the state: `turn` is the part of `turn-state.json` that matters,
`local` and `repo` the two files a graph may come from, `holds` the predicates and
hooks that are true now, `job` the dispatch in progress with the graph it resolved
and the state it read; `past` is history, the phase a dispatch found the turn in, the gates that have held
since and whether it was overtaken. Verbs are split at every read of the file and of the
configuration, and the evidence moves between any two steps. The run has a compiled graph with a feedback edge
and a two-gate edge into the terminal phase, and two settings: one dispatcher, with files that are absent, malformed,
refused (a dead end, a missing hook), good (fewer phases, a gate with a hook) or shut by the always-false predicate and
change at any moment; two dispatchers at once on the compiled graph. Two moves of history (three where two start together).

**FsmVendor**. Vendoring, forced vendoring, validation, staleness and proposals as
functions of a disk (each path with its `.bak`) and of the writes that fail.

**Dataflow**. Which document is in force, what validation lets through, and what a
pipeline answers: a request is a term, an answer a term over it, so that two evaluations
are equal exactly when they asked the same of the same plugins in the same order.

### Git

**GitAsync**. The store of the host as three maps (`outbox`, `plans`, `toks`),
each access a step; the verb is generic: after each result it ends or makes its
next call, up to `Length`, two in the run, which has two callers and one kill anywhere.

**GitDelivery**. The two verbs that deliver work, one git command per step: status,
add, commit, amend, fetch, push, pull with rebase, abort, verification, the CI
query and the marker. A history is the sequence of the edit sets its commits make
and stands for the sha of its last commit, so a rebase or an amend is another
commit with the same edits; an edit changes one file, and two edits of a file by
the two sides make a rebase stop. Between any two steps somebody writes into the
worktree or commits by hand, and another clone pushes. The run has two edits of one
file here, one commit of another clone (of this file or another), the three
rebases the code tries, and one mishap, a failing command or a kill, anywhere: a rebase left
behind by a kill is what makes the rebases run out. The calls go
straight to git; that replay makes no difference is what `GitAsync` shows.

### Dispatch and the component loader

**Dispatching**. What surrounds a handler: the long-gap gate and the escalation behind it,
the residual gate of a phase, the browser witness, the stamps and the ledger. A
dispatch is admitted, records what its body names, runs its handler for as long as
it takes, stamps, reads the ledger and writes it back; several overlap. Time is the age
of each stamp, capped a unit past the threshold. A check of the gates is one
step. The three settings are agents who idle, agents one after another on
the way to a gated phase, and agents who overlap.

**ComponentLoader**. reconcile (two lists of entries, realm reassignment against the persisted
state), classify and detect over the imports of modules, and the reload: stash, dispose,
import, instantiate, or restore from the backup. Modules
have versions, one of which fails to import. The run has two entries over three modules
that import nothing, a third one or one another in a ring, and up to four cycles of lists
and reloads. The fibers are what the recording engine of the verb counts; those of `Disciplines`
live in other files.

### Configuration

**ConfigSync, ConfigNotify**. The four directories and the lock as what they hold, each file
operation a step; a new revision is recorded as a notice, drained by the instruction
dispatches of each session, with the two caps. Three settings: two
processes at once with an unreachable remote and two failing renames; one process at a
time, killed twice anywhere; two sessions that are told of the changes. A third revision is
what makes a leftover of an earlier publish differ from both what is served and what comes.
In the last setting the spool can be written and sessions drain while no process is at
work, since a drain and a record that overlap overwrite each other (section 5).

**ConfigTiers**. Documents, their validation and merge, the five tiers with their refreshes, the
answer kept for two seconds, the search for a text and for the graph: functions of what
the files of a project hold.

### The stores of gm.db

**MemoryStore**. The corpus of markdown files, which git carries, the vector table derived from it, the
digests, the legacy store. A file has a name, a key in its front matter and a text, which need not
agree: it is found as git, an editor or a copy left it. One session memorizes and prunes while
passes of the index sync export, rekey, index, retire and store their digest; each file
operation and SQL statement is a step, a pass may run out of time, fail to embed, lose a row, find
the database malformed, be killed and restarted. Two texts, one with a second name. The scenarios
begin with files well filed, under a second name, broken, with another's key, with another's text,
copied, and beside a copy that is broken or another's.
Two kinds of memory are excepted by name from what is promised: the `Exposed`, which what was done to
the files by hand leaves to be lost, and for recall the `Shadowed`, whose key another file bore (section 5).

**CodeIndex, CommitVectors**. The passes over the tree and over the history, with budgets, withheld
manifests, failures of each statement, a rival pass, a changed embedder; two files of
three chunks and up to two edits, some of the same size, within a tick of the clock, or back to what was
there before. A file is passed over when its time and size are those of its manifest, as in the code; the time
comes from a stat after the read. `Restored`, `dropped`, `Masked` and `Mistaken` name what the code can not
tell or has lost, each an exception of a property that section 5 comes back to. Three commits in two windows, one of which the embedder traps on.

**EntryCache**. put, get, the sweep and the eviction, a statement at a time, two users,
three keys, two entries and three bytes of budget. Two users at once are looked at with the clock standing still, where
all entries are equally old and any of them may be evicted first.

**CodeSearch**. The call graph, impact, the splitting of a chunk, the pattern of a search for
files, against their meaning.

**Embedding**. What a process keeps to embed with, over three calls and a fourth that is looked
at, with colliding hashes, expiry, failing hosts and weights, and restarts between which the
spilled queries survive.

### Fairness

Only liveness uses it. Calculus: none; `LifecycleTerminates` says that the rules cannot
fire for ever. Disciplines: dispatches keep coming; removals and hand edits need not happen. GitAsync: a
dispatch runs on, a caller keeps polling as the envelope tells it, the host ends what it
drives. GitDelivery: a dispatch runs on, and git_finalize is dispatched again and again (the
gate into COMPLETE refuses until then); nothing is asked of the other actors. ConfigSync: a process runs on unless it is killed,
configs keep being resolved, and time passes (locks age, the debounce elapses). Memories, code and
commits: a pass that has begun runs on, a session answers its dispatch, a killed process
is restarted; that passes begin again is no assumption but the antecedent of the convergence properties,
as they begin when somebody searches. None assumes that the network, the embedder or git works.

## 3. What the runs show

| run | what it shows |
|---|---|
| `calculi` | base: exclusive provisions, one configuration at rest whatever the order, the lifecycle ends, a key table; extended, for keys spelled like their providers: a committed key keeps an installed provider, nothing is stuck for good, the precedence stays acyclic |
| `rows` | mutables: some obligation can always be discharged, an open gate vouches for its rows; work list: atomicity by refinement, the retry bound suffices, no comment lost or told twice, distinct evidence, a truthful marker |
| `phase_machine` | the turn can always be finished in the graph in force, unless the document shuts it itself; moves that are not overtaken keep the history a walk of the graph the dispatch resolved; a phase is entered along an edge from the phase that was read, each gate of which has held since |
| `git` | each git call runs once, in its turn, with a kill anywhere, and polling ends without one; what is answered as pushed is on origin, rebases and their abortion lose no commit, what is written here is delivered unless another clone changed the same file |
| `kernel` | who was active is not refused as idle, an answer that was given can be cited (where dispatches do not overlap); a reload is whole or taken back; after the last edit the grounded disciplines become and stay active, let through to what they require, and all others go down but those on or behind a ring; a removal breaks nobody its check has seen up in the realm, and changes no other entry, but for what is edited between its two reads |
| `config` | one refresher, no checkout lost or older than before, what is served was announced, each session is told once |
| `stores` | no memory is lost but the exposed; a fresh code digest vouches for the rows of files that were not edited back and whose embedder stayed, while no pass ran beside another or without a table; memories, chunks and commits converge to the corpus, the tree and the history, but for changes no pass can tell; an eviction leaves the cache within its budgets and takes only the excess |
| `edit_clobbered` | *violated*: an entry added to `enabled.txt` by hand during a removal is overwritten |
| `git_delivery_marker` | *violated*: the CI marker names a commit whose CI then fails |
| `witness_gate` | *violated*: an edit that was witnessed in a browser does not open the gate |
| `config_prose` | *violated*: the texts of a config repo of the project's own are never found |
| `memory_table_lost` | *violated*: after a malformed database a memory is never indexed again |

`calculi` has 5,967 distinct states; the other passing runs have between 386,000 (`git`, `stores`) and 960,000 (`rows`).
`TypeOK` of a module is a conjunct of the proved invariants where there are proofs; otherwise it
documents the variables and is no property of a run.

## 4. What is proved

Eight modules hold theorems, for every value of the constants that satisfies the named
`ASSUME`s, which TLC evaluates on the runs. Further hypotheses stand in the theorem.

`BaseCalculus_proofs`. The inductive invariant is `TypeOK /\ WellFormed /\ FromPool`
(every present fiber is declared as a candidate of the pool declares it). From it:
`TypeCorrect`, `Preservation` (no two present fibers provide a key), `Retirement`,
`Confluence` (two quiescent configurations of the same fibers are equal, when the
pool is acyclic: a minimal fiber they disagree on has its requirements met in both
or in neither) and `KeyTableRefinement` (the registry implements `KeyTable`).
`FromPool` is needed because acyclicity is a fact about the pool.
`LifecycleDescends` is what `LifecycleTerminates` rests on: a reload or unload brings the fiber it moves into agreement with its
target and disturbs none but those that require what that fiber provides, and over an acyclic finite pool this descent is
well-founded (a fiber that were disturbed for ever would need ever earlier ones). Only the temporal rule that no
behaviour descends for ever is left to TLC.
For any states and effects that obey their law where they were applied:
`LifoRecovers` (undone in the order of a stack they leave the state before), `NonlifoRecovers` (also
the first one first, when its inverse, as the code calls it, leaves the other effect
alone) and `DemoChecksCommutationOnly` (on effects like the demo's the checks cannot fail).

`ExtendedCalculus_proofs`, for the behaviours of `Calculi`, from `ExtendedCalculusAssumption` on the
names, keys and candidates. `TypeCorrect`, `ErrorsArePermanent` (with the invariant
that only an inactive fiber has an outcome), and under `SelfNamed`, that each
fiber provides at most the key spelled like its name: `WithdrawalWaits` (every committed key of an
installed fiber has an installed provider) and `SomebodyMoves` (`NeverStuck`). "No two fibers wait
for each other" is not inductive; that no set of fibers has a member waiting for each of its members is,
since a fiber that begins or is inserted is not waited for yet. `PrecedenceStaysAcyclic`: the cycle
check of `insert` covers every cycle a new fiber closes, and a retirement only removes edges.

`RowStores_proofs`, of both files under any requests, hosts and bounds. Mutables, with adds under fresh ids:
`ObligationsCanBeDischarged` (`NoCircularWait`) rests on `Unique /\ Grounded`: ids are unique, and
every nonempty set of ids has one that depends on none of the set, the inductive form of
acyclicity. `OpenGatesVouch` (`ReadyMeansWitnessable`) compares the two walks over the obligations.
Work list: `NoWriteIsGivenUp` by the invariant `Losses` (a dispatch has lost at most as many swaps as
others have started and not lost since), `CommentsAreToldOnce` by `Carried` (each comment is at one
place, from its request to its commit), `EvidenceIsNotShared` and `MarkerCanBeTrusted` by what one dispatch after
another has read (`Solo`, `Vouched`, `Distinct`; the former assumes distinct evidence at the start), and `WritesAreAtomic`, the refinement
of `AtomicPrd` step by step: a swap that succeeds writes what the verb makes of the rows it compared with.

`PhaseMachine_proofs`, for any graphs and evidence, which may change at any moment, and any number of
dispatchers: `TypeCorrect`, and `TurnsCanEnd` (`CanFinish`), which needs that the fixpoint
`Graph::validate` computes is closed under edges backwards, that every state is in it, and that a gate it accepts can
hold or asks for the always-false predicate. The invariant says that the state about to be written leads along an edge of
the graph the dispatch resolved, from the phase it read, whose gates have held since, and that while nobody else has written
it was computed from the one that is still in the file. From it
`MovesKeepTheWalk` (`MovesKeepWalks`; `set_phase` appends an edge that starts where the walk ends,
`revert` drops the last entry; an overtaken write is excepted in the property itself, which section 5 comes back to) and
`EntersOnlyOnTrueGates` (`EntersOnTrueGates`). That the gates of an edge hold together, or still hold when the phase is
written, is not claimed: each is asked once (`transitions.rs:580`) and the write comes later.
What a recursive *function* computes is in reach: the module proves induction for sets of
numbers (from well-foundedness), with it that the iterates of a family of functions exist (`Iteration`), and
from that the recurrence of the fixpoint.

`GitVerbs_proofs`, of both layers. `TypeCorrect`. For any number of callers, calls and kills
`EachCallRunsOnce` (`RunsOnce`). The invariant `Where` says, for each place a dispatch
can be at, where the results of its run are: in the dispatch, in the plan, or all
but the last in the plan and the last with the host or in the outbox. A kill
between taking a result and storing the plan leaves the case `Lost`: the token is
pending for ever and no further call is made, so nothing runs twice even then.
For any edits, clones, retries and mishaps `AnsweredMeansOnOrigin` (`PushedMeansLanded`) and `CommitsAreNotLost`
(`CommittedStays`): what a dispatch committed is in HEAD until it is pushed and on origin from then on, across amends and
rebases that apply; a rebase that stops has put away a HEAD that has all the rest; what the clone knows of origin is a
prefix of what origin has, so that the comparison of `verify_push_landed` with a stale `origin/main` is still good
evidence. That a rebase loses nothing rests on lemmas about histories (what the shared prefix, a
slice and an amended last commit contain).

`Kernel_proofs`, for any agents, thresholds, manifests and removers. `DispatchTypeCorrect`;
`AnswersCanBeCited` (`CitableAnswers`): one at a time, what a dispatch has read of the ledger is still the ledger, and the
ledger is the end of the sequence of answers; `NobodyAtWorkIsDenied` (`NoDenialInActivity`): a stamp that counts as
old is older than the last activity, which holds however dispatches overlap. For any removals, passes and edits at
once `OnlyTheTargetGoes` and `NobodyIsLeftBehind`, from the invariant `ReadsAgree`: what a removal read first and what it
expects differ by what was edited between its two reads, and nobody whom its check saw up in the realm requires what its
target provides. What both do not promise is in the properties: nothing of an entry that is edited
between the two reads, which `edit_clobbered` shows lost, nor of dependents of other realms or of keys the
target isolates (section 5).
`NothingStaysHalfReloaded` (`NeverHalfReloaded`), for any modules and import graphs, cycles included: the rounds of
`classify` decline of the changed modules only those that need a restart, so `detect` finds every entry whose module has
changed and backs up the module of each entry it finds (`DetectFinds`); the invariant `LoaderInv` then says, entry by
entry, which source it runs in the middle of a swap or a rollback. Its point is the conjunct on `Broken`: whatever entries run
can be imported again, or rolling back could not bring it back. That each of the four recursions
takes the values its steps keep is proved by induction over their index.

`ConfigSync_proofs`, for any processes, revisions and failures. `LockAdmitsOne` (`OneHolder`): until somebody
is killed the lock is there exactly while one process works under it, and is never found stale. On the strength of that one
process, what the four directories hold is said from where it is: `ServiceNeverGoesBack` (`ServedNeverOlder`),
`CheckoutIsNotLost` (`GoodCopyKept`; nothing is live only after a kill or a failure that is still to be paid for, and
then the copy moved aside is good) and `WhatIsServedWasAnnounced` (`ChangesAnnounced`). The two about the directories assume
`OneAtATime`: processes that run together are not killed.
`EachIsToldOnce` (`ToldExactlyOnce`) for any sessions, through kills and failing renames. The invariant `Told` has three parts. What
is about to be announced is newer than all that was (`Ahead`): a probe finds the remote ahead of the newest revision
that was ever live, and where a failed recovery has lost the checkout the remote is ahead already, since what was to replace it
had been fetched. So the file is in the order of the revisions, and so is what has grown a day old;
each record's roster says exactly which sessions were told (`Book`); and what has left the file is a day old or was
followed by as many as it holds. It assumes `OneAtATime`, and `RosterHolds`, that a roster has room for all sessions: with
more, the one that is dropped is told again, as `config_notify.rs:45` concedes and TLC shows with three sessions and two places.

`Stores_proofs`, of all four stores together, from `StoresAssumption` alone. `MemoriesAreKept` (`NoMemoryLost`), for any files
at first. The invariant is that whatever is written, kept, asked for or on its way in a pass is the text its name is the hash
of, that a file of a memory's own name is its document or not there unless the memory is `Exposed` (`Right`), and
that a dispatch which will acknowledge a memory has it, and one that prunes has taken it back (`Promised`): so
nothing is ever written over a memory but that memory, though passes and dispatches write late what they read
early. `MemoryAssumption` has that a name is the hash of one text, up to its line ends, and that whoever memorizes computes
the name; collisions are left out. The exposed memories are those the property does not promise, and section 5 lists how they are lost.
`CacheStaysWithinBudget` (`EvictsTheExcess`), for any budgets, lifetimes and users: whoever puts an entry selects
victims afterwards, so when nobody is about to select, the last selection was made of all there is. The invariant
`Excess` says so of what *will* remain once all the victims selected are deleted, since users delete
what they selected while others put; `Solitary` adds that among users who work one at a time what was put last is the
newest entry, the one a selection never takes. The size of the cache is a fold over its rows. That a fold of the
community modules over a finite set exists, is unique, and is the sum it looks like is proved in the
module, by well-founded induction on subsets, and is of use wherever a model folds.
`FreshIndexVouches` (`FreshMeansIndexed`), for any tree, edits, sizes, budgets, embedders, failing statements and kills in the
middle of a pass. A fresh digest names what it was folded over, so the invariant `Index` is about every file and content that
the digest, or the pass that runs, has folded: while the file has that content and never had another since (`Stays`), its
manifest owes something or the rows are that content's (`Vouched`); the file the pass has in hand is the exception, and there
`Emptied` and `Writing` say how far the rows are. The pass skips a file by comparing a time, a size and a count, so
`CountsSuffice`: a file that stays as its manifest has it is short of rows or has the right ones. Where a file is
edited while a pass has it in hand, or a pass is killed over it, the digest is stale from then on unless an
edit brings an old content back (`KnowsOfThePast`: whatever digest, manifests or the pass know of a file is what it has or has had). No hypothesis
is left on the scenarios: the property itself excepts a file that was `Restored` and the time after rows of another embedder
were `dropped`, and speaks of passes that run alone and with a table and of files within both limits. The index is false
there, and section 5 says how.

Proving corrected the project as often as it confirmed it. Several hypotheses above, and exceptions that the properties name, are
there because a case failed and TLC then showed the run (`Calm`, `KeepsComments`, `RecoveryWorks`, `Exposed`, `Restored`, `dropped`,
the keys a removed discipline isolates), each a behaviour of the code listed in section 5. A proof could also do without one: that sessions are told once was
first proved where `RecoveryWorks`, and turned out to hold where the checkout is lost as well. And the model was wrong once: an
export wrote the texts of the moment it wrote, where `export_flat_json` writes those it read when it chose its batch.

Every invariant and every action property that a passing run checks is a theorem. Only model-checked: liveness and everything
under fairness (`LifecycleTerminates`, `PollingEnds`, `Delivers`, `SettlesAtGrounded`, `ServesAgain`, `IndexConverges`, `ChunksConverge`,
`CommitsConverge`), which is out of the prover's reach. What the pure algorithms
of the `MC` modules compute is compared with a reference over bounded inputs and not proved,
and `ConfigTiers` and `MCRowStores`, which use `RECURSIVE`, cannot be reached by a proof.

## 5. Disagreements met while modelling

Five have a run of their own (section 3), with the code and the comment it contradicts in
`PROJECT.json`: a removal computes the new `enabled.txt` from one read and has the swap expect another, so that an edit between the
two is clobbered (`discipline_note.rs:563`); `.ci-validated` is written for a pushed commit whose CI has not started, when
the commit is older than two minutes (`verbs.rs:3354`); the gate on browser witnesses looks for
hashes where nothing writes them (`transitions.rs:480`); the texts of a config repo of the
project's own are looked for in the directory above its checkout (`prose.rs:413`, the same for
the graph pointer `fsm.rs:738`, hooks and the dataflow document); a database recreated during
a pass has no table, and the pass records its memories as done (`memory_md.rs:365`).

The others are reproduced by another value of a constant and the property named, or follow from
a definition. Several properties are kept in the modules for that alone and are in no run.

Calculi and disciplines
- `ExtendedCalculus`, with keys that are not spelled like fibers: `CommittedViewsStand` fails, as `relied`
  never holds (`calculus.rs:502`). Where a key is spelled like a fiber that does not provide it, two fibers
  can wait for each other, and `NeverStuck` fails too.
- `revert_nonlifo_pair` gives the first inverse the state before both effects, the Lean
  theorem it cites (`calculus.rs:804`) the state the second effect made of it: there are independent,
  lawful, commuting effects on which it does not recover (`IndependenceIsNotEnough`). The demo's
  inverses restore the whole state, so its checks cannot fail.
- a removal breaks more than it names: dependents of another realm, who get a key of the target's that is
  isolated into theirs, or that the target itself isolates (`discipline_note.rs:444`), and whoever came up between its check
  and its write. `RemovalLeavesNobodyBehind` is about those its check has seen, in the target's realm, and excepts the
  keys it isolates, and an edit between the two reads.
- a requires-ring "simply leaves every disc in it unsatisfied" (`discipline_note.rs:286`), but once a provider from outside
  has started it, it stays up when that provider is gone, or passes its activation round for ever, and so does what hangs
  on it; a discipline that provides the key it requires keeps itself active (`discipline_note.rs:298`), though access to
  it is refused. `SettlesAtGrounded` excepts what is on a ring or behind one (`Circular`); without that
  it fails in the run of `MCKernel`.
- capability access resolves to an active provider without asking that the provider's own
  requirements are met, which its comment promises (`capability_proxy.rs:70`).

Work list and mutables
- `PrdStore`, a setting that is not sequential and whose requests share evidence: `WitnessesDistinct` fails,
  `prd.rs:494` checks before the swap and not in it. `MarkerVouches` fails there too: a row
  added between a scan's read of the list and its marker is not known to it, and the marker that
  prd-add had deleted is back (`yaml_util.rs:104`). Requests that add an
  existing id with status closed close it without evidence (`prd.rs:215`). A concurrent setting that
  parks its git commands or is faulty: `CommentsAccounted` fails,
  a resumed commit drains again and discards, and a failed drain is not noticed
  (`prd.rs:60`); the drain comes before the commit, and no failing commit puts the
  comments back (`verbs.rs:2914`).
- `PrdStore`: a drain that loses all its swaps leaves the comments on the rows and the commit carries them
  nevertheless (`prd.rs:60`), adding a row again or resolving it once more drops its pending comment
  (`prd.rs:215`): the refinement of `AtomicPrd` and `CommentsAccounted` are stated under `Calm` and `KeepsComments`,
  which exclude these. They were met in trying to prove both for every bound.
- `MutableStore`, `Spec` instead of `FreshSpec`: `NoCircularWait` fails, mutable-add
  accepts a taken id and its cycle check sees one row per id (`mutables.rs:85`).
  `TypedMeansResolved` fails for a dependency nobody has added (`mutables.rs:195`);
  with unknown kinds `UnrecognizedKindBlocks` fails, the branch for
  unrecognised kinds can not be taken (`mutables.rs:177`).

Phase machine, graphs and dataflow
- `RefusedGateIsAccepted` of `MCPhaseMachine`: a document whose only way into the terminal phase asks for
  `remote-hook-refused` is served (`fsm.rs:393` looks the name up in the registry, `transitions.rs:43`), though that
  predicate is always false (`transitions.rs:54`): the chain can then never be finished. `CanFinish` excepts such gates by name.
- `PhaseMachine`, with `UnmodedFiles` for the locals: `NoVacuousGate` fails, a gate with a hook,
  no predicate and the default `hook_mode` is accepted (`fsm.rs:389`) and always
  passes (`transitions.rs:589`), where validation says of a gate with neither that
  it "can never be satisfied". Two dispatchers: `MovesKeepWalks` needs its exception for an
  overtaken write, `RecordsAnEdge` fails (`state.rs:197` reads again)
  and `OnlyRevertsForget` fails (a session write puts back the whole file,
  `instructions/mod.rs:455`). One dispatcher: `RevertUndoesLastMove` fails after a
  fresh prompt (`instructions/mod.rs:423`), `ReceiptOfOwnGraph` when the graph
  changes between the move and the terminal check (`transitions.rs:750`).
- the gates of an edge are asked one after another (`transitions.rs:580`) and the phase is written after that, on a second
  read: evidence that goes meanwhile, or a phase another dispatch has moved, is not noticed. `EntersOnTrueGates`
  promises of each gate only that it held at some moment since the phase was read.
- vendoring: forced vendoring overwrites a file although its `.bak` could not be written, and a
  second one overwrites the only `.bak` (`fsm_vendor.rs:365`); unforced vendoring makes the compiled
  graph shadow the config repo's without a note; placeholders replace the project's prose under force; validation says hooks
  execute only from the local file, the predicate admits those of the repo; a report mixes the policy keys of one file
  with the graph of another; a gate redefined under its name is not stale.
- dataflow: the compiled document, vendored unchanged, is refused, as its strategy
  `present_both` is none (`dataflow.rs:138`); the recall and codesearch pipelines of a document search with a null
  vector (`dataflow_exec.rs:96`); an invalid local document falls through to the repo's, which the graph's
  does not; a step may refer to one that comes after it, and reads null.

Git
- `GitAsync`, `PollsFirst = TRUE`: `PollingEnds` fails, an envelope's token is
  good for one call only. With a kill, polls are pending for ever: the result is
  deleted from the outbox before the plan has it (`verbs.rs:2620`).
- `GitDelivery`: after a kill between a rebase that stops and
  its abortion the next git_finalize commits the file with conflict markers, on
  a detached HEAD. With two mishaps `CommittedStays` needs its exception: `rebase --abort` also
  ends a rebase that another dispatch left, and drops what was committed in it. What is written
  between the conflict and `rebase --abort` is wiped with it. Not in the model: the `sha`
  git_finalize reports is the one before the rebase.

Dispatch and loader
- the denial for a long gap stamps the dispatch it denies, so the same verb is admitted at once
  (`gates.rs:6`), and the escalation needs another gap; a handler longer than the threshold has the next
  verb denied though the agent was busy; the count of a "stuck loop" survives another transition (`deviations.rs:55`).
- overlapping dispatches lose entries of the ledger, and prd-resolve then refuses their answers as
  fabricated (`prd.rs:480`): `CitableAnswers` is stated where they do not overlap.
- an edit is recorded with the hash from before its handler ran, and reads count as edits (`verbs.rs:3804`).
- the tags of realms repeat (`TagsFresh` fails): the state that counts them has maps keyed by
  tuples, which JSON cannot serialise (`component_loader.rs:303`). Nothing registers providers, so nobody is
  ever told of a move (`NobodyAffected`). The verb's engine fails by url, so the restoration fails too,
  which is ignored, leaves the entry on neither version and is reported as done (`component_loader.rs:505`);
  `NeverHalfReloaded` excepts such entries. classify stops after a round that only discovers modules.

Configuration
- `ConfigSync`, a setting with two processes at once and a kill: `OneHolder`, stated until somebody is killed, fails thereafter: both find the dead holder's
  lock stale, and the second removes the new lock of the first (`config_sync.rs:248`). A resolution between the
  two renames of a publish finds no checkout (`config_sync.rs:467`). The last good checkout is lost to three failing
  renames, or a kill and one: `recover_stranded` ignores that its rename failed, and the publish removes what it left
  as a leftover (`config_sync.rs:333`). `RecoveryWorks`, under which `GoodCopyKept` is stated and proved, excludes it. A kill between the publish and the record leaves a
  change unannounced, so `ChangesAnnounced` speaks of processes that are not killed.
- notices: drains and records that overlap lose marks or records (`config_notify.rs:94`; `ToldExactlyOnce` is stated where
  they do not), a full roster makes a session be told
  again, and so does a failing write.
- tiers: what a source leaves out is filled from the builtin document and then shadows the sources
  after it (`DefaultsShadowLaterSources`), though `config.rs:453` says later ones supply it; one invalid entry rejects the
  spec (`OneInvalidSourceTakesAll`), though that comment says a bad entry never blocks the others; the graph
  pointer of a vendored config is ignored though the example (`fsm_vendor.rs:61`) says to rename it "to apply it
  directly"; an invalid setting of retrieval discards all of them.

Stores
- memories lost to a rekeying, which asks of the file under the text's own name only that it can be read
  (`memory_md.rs:674`) and then removes the one it came from (`memory_md.rs:677`). A file under the right name whose front matter
  has another key is taken for one to rekey (`memory_md.rs:561`), onto itself: it is there, so nothing is written, and
  the only copy is removed. Beside a file of its name that does not parse, or that has another memory's text, a good copy under a
  second name is removed. And where a file has another's text than its name's, memorize overwrites it and prune removes it,
  whatever is in it. `NoMemoryLost` excepts these (`Exposed`); without the exception it fails in the scenarios `Rekeyed`,
  `Merged`, `Swapped` and `Overwritten` of `MCStores`.
- memories that cannot be recalled: the row of a rekeyed file is looked up under the key of its front matter, so that of a
  memory whose key another file bore may go (`Shadowed`, excepted by `IndexConverges`); a prune killed between row and file, and a
  pruned file that git restores unchanged, are never indexed again. What was pruned comes back when the retention window
  undeletes it (`verbs.rs:1335`), when a legacy entry of it is exported again, or when it was being rekeyed. memorize
  answers ok for a duplicate whose file could not be written.
- code: the digest is stored when a pass ends and never withdrawn when one begins (`code_index.rs:1611`), so a pass that
  ends early can leave a digest that is fresh over rows that are not there: for a file that is edited,
  met by a pass that is killed, and edited back; and after an embedder of another model, whose first pass drops the rows
  (`code_index.rs:286`) and is killed or finds no files. Both are in the scenarios of the run, and `FreshMeansIndexed`, which
  excepts them by name (`Restored`, `dropped`), fails without the exceptions. A pass that had no table, or ran beside another
  session's, stores its digest all the same (`disturbed`). The digest covers the first `DigestMax` files: were the limit
  of a pass above it, a change beyond would never be noticed.
- code: changes that no pass sees. A file is passed over when its time and size are those of its manifest (`code_index.rs:1302`);
  its hash comes from a read (`code_index.rs:1325`) and its time from a stat after it (`code_index.rs:1331`), so an edit
  of the same size between the two, or within one tick of the clock of the file system, stays unindexed until the next edit
  (`Masked`); the comment at `code_index.rs:1294` concedes it of the time alone. Rows are compared by their number
  (`code_index.rs:1347`): a pass without a table records the manifest of a new content over the rows of the old one
  (`code_index.rs:1553`), and a killed one leaves rows of the content before an edit back; as many of them as the manifest lists
  pass for its own (`Mistaken`). `ChunksConverge` excepts both, and fails without either.
- code: a complete digest is stored over a withheld manifest or unembedded chunks, contrary to
  `code_index.rs:1137`, and by a pass that had no table; the rows of removed files outlive their manifest; a file that
  failed to parse once keeps no chunks; a model of the same width keeps the old vectors; the limit of files (500) is below that
  of the digest (2000); a search of another root that finds its database malformed deletes the main
  project's (`code_index.rs:2143`). A callee written as a method call is recorded as its receiver, and a call in an
  anonymous function counts for nobody (`ReceiverIsTheCallee`); impact follows callees and not callers
  (`ImpactIsWhatIsCalled`); thresholds below eight bytes can panic (`SmallThresholdsPanic`).
- commits: one that left the window and came back stays deleted; a run of unembeddable newest
  commits blocks the older ones.
- cache: behind an entry that is too big, a smaller and older one is kept, where the comment says everything
  past that point goes (`cache.rs:446`); a victim is deleted by key, even when it was written again since.
- embedding: a batch leaves unembedded what the fallback model would embed one by one
  (`BatchesFallShort`), though the fallback is documented as closing that gap (`embed.rs:118`); a fallback that failed to load once is not
  tried again, a context is; queries are spilled by their text alone, not by model or project; the budget of tokens
  never ends a run of a batch (`RunsAreFull`).

## 6. Not modelled

- Pipelines: a verb suspends only to wait for an embedding of a sibling plugin, and nothing in
  this build starts such a step, so the code that continues one is unreachable.
- Tasks and audits are lists and read-only reports; plugin envelopes have no state; text scanners
  are pure string functions; the Lean development is a proof of the calculi's metatheory and no program.
  `gitignore.rs` and `legacy_reaper.rs` have no caller.
- Numeric code: model inference, scores, ranking and the fusion of rankings.
- The remaining git verbs (merge, reset, checkout, stash) are single commands under the replay of `GitAsync`.
- Below the abstraction everywhere: parsing (a file is its rows), wording of answers, event emission.
- Of modelled components: the checks of command lines and written texts in the gates, interception contexts of
  disciplines, the abortion of a memory pass whose rows' shadows cannot be written (`memory_md.rs:649`), the clearing of the key-value store at a change of width (`code_index.rs:1201`); that a clone with no
  reference takes the sha that was probed (`config_sync.rs:405`), where `FinishClone` always takes the remote as it is; the mirror of memories to a remote store, the move of a flat legacy index
  into the vector table (`rssearch_vectors.rs:539`).

## 7. Plan

Further work, in the order of what it would say:

1. A digest that is withdrawn when a pass begins would make the exceptions `Restored` and `dropped` of `FreshMeansIndexed`
   superfluous; the invariant `Index` is written so that it can be tried on such a change.
2. Convergence of the stores as a variant that every undisturbed pass lowers, proved as an action property beside the runs.
3. The resolution of the config (`ConfigTiers`) with recursive functions for its `RECURSIVE` operators, to be proved about.
