----------------------------- MODULE PhaseMachine -----------------------------
(***************************************************************************)
(* The phase of a turn (orchestrator/state.rs, transitions.rs and the      *)
(* phase part of instructions/mod.rs): .gm/turn-state.json under           *)
(* dispatches of transition, transition-revert and instruction, and under  *)
(* the verbs that only touch another field of the file.                    *)
(*                                                                         *)
(* The file is read and written whole, by host calls of their own and      *)
(* without a compare-and-swap.  The FSM graph comes from a file of the     *)
(* project or one of the config repo, either of which may be replaced at   *)
(* any moment; each call of fsm::graph() resolves it anew.  What the gates *)
(* of an edge look at (prd rows, mutables, the worktree, what a hook       *)
(* computes) is the set of predicates and hooks that hold now.             *)
(*                                                                         *)
(* A dispatcher handles one dispatch after another, so a single one is the *)
(* sequential program.                                                     *)
(***************************************************************************)
EXTENDS FsmGraph

CONSTANTS
    Phases,         \* names of phases
    GateNames,      \* names of gates
    Locals,         \* what .gm/instructions/fsm/graph.json may hold
    Repos,          \* what the fsm.graph of the config repo may hold
    Dispatchers,    \* whoever dispatches
    Verbs,          \* the verbs they dispatch
    Settings,       \* bounds: who dispatches which verbs, and what the files may become
    MaxHistory      \* bound: no transition starts while a history as long is in the
                    \* file or about to be written

Graphs == {GraphDetailed(l, r) : l \in Locals, r \in Repos}
Evidence == (KnownPredicates \ {RefusedPredicate}) \cup HookFiles

ASSUME GraphsAssumption ==
    \A g \in Graphs :
        /\ Valid(g)
        /\ g.states \subseteq Phases /\ IsFiniteSet(g.states)
        /\ DOMAIN g.gates \subseteq GateNames
        /\ \A name \in DOMAIN g.gates :
              g.gates[name].mode \in {"predicate-only", "hook-only", "both"}
        /\ g.edges \in Seq([from : Phases, to : Phases, gates : Seq(GateNames)])
ASSUME PhaseConstantsAssumption ==
    /\ Verbs \subseteq {"transition", "revert", "prompt", "touch"}
    /\ Settings \subseteq [dispatchers : SUBSET Dispatchers, verbs : SUBSET Verbs,
                            locals : SUBSET Locals, repos : SUBSET Repos]
    /\ MaxHistory \in Nat
    /\ RefusedPredicate \in KnownPredicates

VARIABLES
    turn,       \* turn-state.json: the phase and phase_history
    local,      \* the project's graph file
    repo,       \* the config repo's graph file
    holds,      \* the predicates and hooks that are true now
    job,        \* what each dispatcher is doing
    past,       \* history: what has been true for its dispatch so far
    setting     \* the bounds of this behaviour

tiers == <<local, repo>>
vars == <<turn, tiers, holds, job, past, setting>>

\* What a resolution finds now.
graph == GraphDetailed(local, repo)

Entries == [from : Phases, to : Phases]
Turns == [phase : Phases, history : Seq(Entries)]

Fresh(g) == [phase |-> g.initial, history |-> <<>>]

Jobs ==
    [pc : {"idle", "read", "gates", "pop", "prompt", "reset", "touch", "write", "terminal"},
     verb : Verbs \cup {"touch"}, g : Graphs, to : Phases, left : Seq(GateNames), s : Turns,
     receipt : BOOLEAN]

\* The phase a dispatch found the turn in, the gates that have held at some moment
\* since then, and whether nobody else has changed the file since.
Pasts == [from : Phases \cup {None}, held : SUBSET GateNames, alone : BOOLEAN]

TypeOK ==
    /\ turn \in Turns
    /\ local \in Locals /\ repo \in Repos
    /\ holds \subseteq Evidence
    /\ job \in [Dispatchers -> Jobs]
    /\ past \in [Dispatchers -> Pasts]
    /\ setting \in Settings

Idle(g, v) ==
    [pc |-> "idle", verb |-> v, g |-> g, to |-> g.initial, left |-> <<>>,
     s |-> Fresh(g), receipt |-> FALSE]

NoPast == [from |-> None, held |-> {}, alone |-> TRUE]

Init ==
    /\ setting \in Settings
    /\ local \in setting.locals /\ repo \in setting.repos
    /\ turn = Fresh(graph)
    /\ holds = {}
    /\ \E v \in setting.verbs : job = [d \in Dispatchers |-> Idle(graph, v)]
    /\ past = [d \in Dispatchers |-> NoPast]

-----------------------------------------------------------------------------
\* migrate_to_graph: a phase the graph does not have becomes its initial one.
Migrated(s, g) == IF HasState(g, s.phase) THEN s ELSE [s EXCEPT !.phase = g.initial]

\* set_phase_with_session_with_graph on the state it read.
Moved(s, to) ==
    IF s.phase = to THEN s
    ELSE [phase |-> to, history |-> Append(s.history, [from |-> s.phase, to |-> to])]

\* Mutant: the entry stays on the stack.
Peeked(s) == [s EXCEPT !.phase = Last(s.history).from]

\* revert_last_transition on the state it read.
Popped(s) == [phase |-> Last(s.history).from, history |-> Front(s.history)]

Goto(d, pc) == job' = [job EXCEPT ![d].pc = pc]

WriteNext(d, s) == job' = [job EXCEPT ![d].pc = "write", ![d].s = s]

\* The dispatcher forgets the dispatch; whether it wrote a receipt is history.
Answer(d, receipt) ==
    job' = [job EXCEPT ![d] = [Idle(graph, job[d].verb) EXCEPT !.receipt = receipt]]

Start(d, v) ==
    /\ job[d].pc = "idle" /\ d \in setting.dispatchers /\ v \in setting.verbs
    /\ v = "transition" =>
          \A s \in {turn} \cup {job[e].s : e \in Dispatchers} : Len(s.history) < MaxHistory
    /\ job' = [job EXCEPT ![d] =
                  [Idle(graph, v) EXCEPT
                      !.pc = CASE v = "transition" -> "read"
                               [] v = "revert"     -> "pop"
                               [] OTHER            -> v]]
    /\ UNCHANGED <<turn, tiers, holds>>

\* transitions::handle reads the state and looks the edge up in its graph.
FollowEdge(d, to) ==
    LET g == job[d].g
        from == Migrated(turn, g).phase
    IN /\ job[d].pc = "read"
       /\ IF HasEdge(g, from, to)
          THEN job' = [job EXCEPT ![d].pc = "gates", ![d].to = to,
                                  ![d].left = EdgeBetween(g, from, to).gates]
          ELSE Answer(d, FALSE)
       /\ UNCHANGED <<turn, tiers, holds>>

\* Mutant: one gate that passes is enough.
EvaluateFirstGate(d) ==
    /\ job[d].pc = "gates" /\ job[d].left # <<>>
    /\ IF GatePasses(job[d].g.gates[Head(job[d].left)], holds)
       THEN job' = [job EXCEPT ![d].left = <<>>]
       ELSE Answer(d, FALSE)
    /\ UNCHANGED <<turn, tiers, holds>>

\* gate_rejection runs the gates in order and stops at the first that fails.
EvaluateGate(d) ==
    /\ job[d].pc = "gates" /\ job[d].left # <<>>
    /\ IF GatePasses(job[d].g.gates[Head(job[d].left)], holds)
       THEN job' = [job EXCEPT ![d].left = Tail(@)]
       ELSE Answer(d, FALSE)
    /\ UNCHANGED <<turn, tiers, holds>>

\* set_phase_with_session_with_graph reads the state a second time.
SetPhase(d) ==
    /\ job[d].pc = "gates" /\ job[d].left = <<>>
    /\ WriteNext(d, Moved(Migrated(turn, job[d].g), job[d].to))
    /\ UNCHANGED <<turn, tiers, holds>>

Revert(d) ==
    LET s == Migrated(turn, job[d].g)
    IN /\ job[d].pc = "pop"
       /\ IF s.history = <<>> THEN Answer(d, FALSE) ELSE WriteNext(d, Popped(s))
       /\ UNCHANGED <<turn, tiers, holds>>

\* An instruction with a fresh prompt restarts a chain that is complete, or
\* stuck between phases without pending prd rows: read_state resolves the
\* graph again, the comparison is with the one of the dispatch.
FreshPrompt(d, pendingRows) ==
    LET phase == Migrated(turn, graph).phase
        g == job[d].g
    IN /\ job[d].pc = "prompt"
       /\ Goto(d, IF phase = g.terminal \/ (phase # g.initial /\ ~pendingRows)
                  THEN "reset" ELSE "touch")
       /\ UNCHANGED <<turn, tiers, holds>>

\* The restart reads the state again and writes no history.
Reset(d) ==
    /\ job[d].pc = "reset"
    /\ WriteNext(d, [Migrated(turn, graph) EXCEPT !.phase = job[d].g.initial])
    /\ UNCHANGED <<turn, tiers, holds>>

\* The session an instruction records and the pending step of a pipeline:
\* the file is read and written back with another field changed.
Touch(d) ==
    /\ job[d].pc = "touch"
    /\ job' = [job EXCEPT ![d].pc = "write", ![d].verb = "touch",
                          ![d].s = Migrated(turn, graph)]
    /\ UNCHANGED <<turn, tiers, holds>>

Write(d) ==
    /\ job[d].pc = "write"
    /\ turn' = job[d].s
    /\ CASE job[d].verb = "transition" -> Goto(d, "terminal")
         [] job[d].verb = "prompt"     -> Goto(d, "touch")
         [] OTHER                      -> Answer(d, FALSE)
    /\ UNCHANGED <<tiers, holds>>

\* The host refuses the write: a transition or a revert answers the error, an
\* instruction or a pipeline ignores it.
WriteFails(d) ==
    /\ job[d].pc = "write"
    /\ IF job[d].verb = "prompt" THEN Goto(d, "touch") ELSE Answer(d, FALSE)
    /\ UNCHANGED <<turn, tiers, holds>>

\* The evidence receipt, against the terminal phase of a graph resolved anew.
CheckTerminal(d) ==
    /\ job[d].pc = "terminal"
    /\ Answer(d, job[d].s.phase = graph.terminal)
    /\ UNCHANGED <<turn, tiers, holds>>

\* A person or fsm-vendor replaces the project's file.
EditLocal(doc) ==
    /\ doc # local /\ doc \in setting.locals
    /\ local' = doc
    /\ UNCHANGED <<turn, repo, holds, job>>

\* A refresh of the configuration replaces the repo's.
RefreshRepo(doc) ==
    /\ doc # repo /\ doc \in setting.repos
    /\ repo' = doc
    /\ UNCHANGED <<turn, local, holds, job>>

\* Rows are added or closed, the worktree is edited or committed, also while a
\* dispatch evaluates its gates.
Flip(x) ==
    /\ holds' = IF x \in holds THEN holds \ {x} ELSE holds \cup {x}
    /\ UNCHANGED <<turn, tiers, job>>

-----------------------------------------------------------------------------
Step(d) ==
    \/ \E to \in Phases : FollowEdge(d, to)
    \/ EvaluateGate(d) \/ SetPhase(d)
    \/ Revert(d)
    \/ \E pendingRows \in BOOLEAN : FreshPrompt(d, pendingRows)
    \/ Reset(d) \/ Touch(d)
    \/ Write(d) \/ WriteFails(d) \/ CheckTerminal(d)

Act ==
    \/ \E d \in Dispatchers : Step(d) \/ \E v \in Verbs : Start(d, v)
    \/ \E doc \in Locals : EditLocal(doc)
    \/ \E doc \in Repos : RefreshRepo(doc)
    \/ \E x \in Evidence : Flip(x)

\* The gates of its graph that hold now.
Holding(d) ==
    {name \in DOMAIN job[d].g.gates : GatePasses(job[d].g.gates[name], holds)}

\* What becomes of the history of a dispatch: it begins with the first read of the
\* file and ends with the answer.
NextPast(d) ==
    CASE job'[d].pc \notin {"gates", "write"} \/ job'[d].verb \notin {"transition", "revert"} -> NoPast
      [] job[d].pc \in {"read", "pop"} /\ job'[d] # job[d] ->
            [from |-> Migrated(turn, job[d].g).phase, held |-> Holding(d), alone |-> TRUE]
      [] OTHER ->
            [past[d] EXCEPT !.held = @ \cup Holding(d)', !.alone = @ /\ turn' = turn]

Next == Act /\ past' = [d \in Dispatchers |-> NextPast(d)] /\ setting' = setting

Spec == Init /\ [][Next]_vars

-----------------------------------------------------------------------------
\* What phase_history is for (state.rs, PhaseTransitionEntry): it is a walk
\* along the edges of the graph, from its initial phase to the phase the turn
\* is in, so that reverting entry by entry retraces it.
IsWalk(s, g) ==
    LET h == s.history
        at(i) == IF i = 0 THEN g.initial ELSE h[i].to
    IN /\ s.phase = at(Len(h))
       /\ \A i \in DOMAIN h :
             h[i].from = at(i - 1) /\ HasEdge(g, h[i].from, h[i].to)

\* Dispatcher d writes the phase or takes one off.
Moves(d) ==
    /\ job[d].pc = "write" /\ job[d].verb \in {"transition", "revert"}
    /\ job'[d] # job[d] /\ turn' # turn

\* A transition or a revert that finds a walk in its graph, and that no other
\* dispatch overtakes between its read and its write, leaves a walk: only a fresh
\* prompt, another configuration or an overtaken write takes a turn off its walk.
MovesKeepWalks ==
    [][\A d \in Dispatchers :
          Moves(d) /\ past[d].alone /\ IsWalk(turn, job[d].g)
          => IsWalk(turn', job[d].g)]_vars

\* A transition enters its phase along an edge of its graph from the phase it
\* found the turn in, which is the one it leaves unless it was overtaken, and
\* each gate of that edge has held at some moment since (gate_rejection before
\* set_phase).  That all of them held at one moment, or still do, is not
\* promised: they are asked one by one and never again.
EntersOnTrueGates ==
    [][\A d \in Dispatchers :
          Moves(d) /\ job[d].verb = "transition"
          => LET g == job[d].g
                 from == past[d].from
             IN /\ past[d].alone => from = Migrated(turn, g).phase
                /\ HasEdge(g, from, turn'.phase)
                /\ ToSet(EdgeBetween(g, from, turn'.phase).gates) \subseteq past[d].held]_vars

\* The gate asks for the predicate that is always false, which Graph::validate
\* lets through like any other of the registry.
Refuses(gate) == gate.predicate = RefusedPredicate /\ gate.mode # "hook-only"

\* The terminal phase of g is reached from s along edges of E.
Leads(g, E, s) ==
    \A S \in SUBSET g.states :
        s \in S /\ (\A e \in E : e.from \in S => e.to \in S) => g.terminal \in S

\* The chain can be finished: whatever the files hold and hold next, the phase
\* a dispatch finds the turn in leads to the terminal phase of the graph it
\* resolves, along edges whose gates can pass together, if it were not for gates
\* that the document itself shuts with the always-false predicate
\* (Graph::validate, "a chain entering it could never reach COMPLETE").
CanFinish ==
    Leads(graph,
          {e \in ToSet(graph.edges) : \A name \in ToSet(e.gates) :
              GatePasses(graph.gates[name], Evidence) \/ Refuses(graph.gates[name])},
          Migrated(turn, graph).phase)

\* A gate that guards an edge can be shut (the note of Graph::validate on an
\* edge that "would appear guarded while being unguarded").
NoVacuousGate ==
    \A e \in ToSet(graph.edges) : \A name \in ToSet(e.gates) :
        ~GatePasses(graph.gates[name], {})

\* What a transition records is an edge of the graph its own dispatch resolved,
\* however the configuration changes meanwhile (the note on migrate_to_graph).
RecordsAnEdge ==
    [][\A d \in Dispatchers :
          job[d].pc = "write" /\ turn' # turn /\ Len(turn'.history) > Len(turn.history)
          => LET e == Last(turn'.history) IN HasEdge(job[d].g, e.from, e.to)]_vars

\* Nothing but a revert takes an entry off the history ("a LIFO accumulator
\* every transition call appends to").
OnlyRevertsForget ==
    [][\A d \in Dispatchers :
          job[d].pc = "write" /\ turn' # turn /\ job[d].verb # "revert"
          => IsPrefix(turn.history, turn'.history)]_vars

\* A revert undoes the move that led to the present phase.
RevertUndoesLastMove ==
    [][\A d \in Dispatchers :
          job[d].pc = "write" /\ turn' # turn /\ job[d].verb = "revert"
          => Last(turn.history).to = turn.phase]_vars

\* Every check of a dispatch agrees on which graph is active: the receipt of a
\* completed chain is written if and only if the graph in which the
\* transition was allowed calls the phase terminal.
ReceiptOfOwnGraph ==
    [][\A d \in Dispatchers :
          job[d].pc = "terminal" /\ job'[d].pc = "idle"
          => (job'[d].receipt <=> job[d].s.phase = job[d].g.terminal)]_vars
=============================================================================
