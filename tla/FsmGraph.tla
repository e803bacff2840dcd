------------------------------ MODULE FsmGraph ------------------------------
(***************************************************************************)
(* The graph of phases (orchestrator/fsm.rs, and evaluate_gate of          *)
(* transitions.rs): what a document must be to be served, which of the     *)
(* three tiers is served, and what an edge and its gates ask.              *)
(*                                                                         *)
(* A document is what serde makes of a file: Absent, Malformed or          *)
(*   [states, initial, terminal, edges, gates, prose, statuses]            *)
(* with edges a sequence of [from, to, gates] in the order of the file,    *)
(* gates a function from names to [predicate, hook, mode], prose the       *)
(* states whose prose_key leads to a text, and statuses whether both       *)
(* status lists of the policy have an entry.  Names are compared exactly:  *)
(* documents that differ from themselves in case only are left out.        *)
(***************************************************************************)
EXTENDS Naturals, SequencesExt

CONSTANTS
    KnownPredicates,    \* the compiled predicate registry
    RefusedPredicate,   \* the one of it that is always false (remote-hook-refused)
    HookFiles,          \* hooks that exist, vendored or in the config cache
    CompiledDefault,    \* default_graph()
    None, Absent, Malformed

-----------------------------------------------------------------------------
(* Lookups *)

HasState(g, s) == s \in g.states

EdgesBetween(g, from, to) ==
    {i \in DOMAIN g.edges : g.edges[i].from = from /\ g.edges[i].to = to}

HasEdge(g, from, to) == EdgesBetween(g, from, to) # {}

\* edge_between: the first one of the file.
EdgeBetween(g, from, to) == g.edges[Min(EdgesBetween(g, from, to))]

-----------------------------------------------------------------------------
(* Gates: holds is the set of predicates and hooks that are true now. *)

PredicateHolds(gate, holds) == gate.predicate = None \/ gate.predicate \in holds
HookPasses(gate, holds) == gate.hook \in holds

\* evaluate_gate.
GatePasses(gate, holds) ==
    CASE gate.mode = "predicate-only" -> PredicateHolds(gate, holds)
      [] gate.mode = "hook-only"      -> HookPasses(gate, holds)
      [] gate.mode = "both"           -> PredicateHolds(gate, holds) /\ HookPasses(gate, holds)

-----------------------------------------------------------------------------
(* Graph::validate finds no problem. *)

EdgesDeclared(g) ==
    \A i \in DOMAIN g.edges :
        /\ HasState(g, g.edges[i].from) /\ HasState(g, g.edges[i].to)
        /\ ToSet(g.edges[i].gates) \subseteq DOMAIN g.gates

\* What is asked of a gate.  The always-false predicate is a registered one.
GateAccepted(gate) ==
    /\ gate.predicate # None \/ gate.hook # None
    /\ gate.predicate \in KnownPredicates \cup {None}
    /\ gate.mode # "predicate-only" => gate.hook \in HookFiles

\* The states from which n edges or fewer lead to the terminal phase.
Reaching(g) ==
    LET R[n \in Nat] ==
          IF n = 0 THEN {g.terminal}
          ELSE R[n - 1] \cup {g.edges[i].from : i \in {k \in DOMAIN g.edges :
                                                         g.edges[k].to \in R[n - 1]}}
    IN R

CanReach(g) == Reaching(g)[Cardinality(g.states)]

\* Mutant: the last check is missing.
ValidEntered(g) ==
    /\ g.statuses
    /\ HasState(g, g.initial) /\ HasState(g, g.terminal)
    /\ EdgesDeclared(g)
    /\ \A name \in DOMAIN g.gates : GateAccepted(g.gates[name])
    /\ g.states \subseteq g.prose
    /\ \A s \in g.states \ {g.initial} : \E i \in DOMAIN g.edges : g.edges[i].to = s

Valid(g) ==
    /\ g.statuses
    /\ HasState(g, g.initial) /\ HasState(g, g.terminal)
    /\ EdgesDeclared(g)
    /\ \A name \in DOMAIN g.gates : GateAccepted(g.gates[name])
    /\ g.states \subseteq g.prose
    /\ \A s \in g.states \ {g.initial} : \E i \in DOMAIN g.edges : g.edges[i].to = s
    /\ g.states \subseteq CanReach(g)

-----------------------------------------------------------------------------
(* Tiers *)

\* load_tier.  Both tiers a file can come from may run hooks, so that none of
\* its hooks is stripped.
Loads(doc) == doc # Malformed /\ Valid(doc)

\* graph_detailed: a file that is there is served or else the compiled default
\* is; a local one that does not load never makes way for the config repo's.
GraphDetailed(local, repo) ==
    CASE local # Absent /\ Loads(local)                   -> local
      [] local = Absent /\ repo # Absent /\ Loads(repo)   -> repo
      [] OTHER                                            -> CompiledDefault
=============================================================================
