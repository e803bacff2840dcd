-------------------------- MODULE PhaseMachine_proofs --------------------------
(***************************************************************************)
(* For every compiled graph, every set of files that may replace it, any   *)
(* evidence that moves at any moment and every number of dispatchers.      *)
(*                                                                         *)
(* What is in the file is a state of the machine, and from the phase it is *)
(* read in the terminal one can still be reached, where the document does  *)
(* not itself shut the way.  The second rests on what the validation of a  *)
(* graph computes, an iteration that the prover has to be shown to exist   *)
(* before a value of it can be spoken of.                                  *)
(*                                                                         *)
(* A dispatch enters a phase only through gates that have held since it    *)
(* read, and one that nobody overtakes keeps the history a walk.  Both     *)
(* follow from what is known of the state that is about to be written: it  *)
(* leads along an edge of the graph the dispatch resolved, from the phase  *)
(* it read, after each gate of that edge was found to hold; and while      *)
(* nobody else has written it was computed from the state that is still in *)
(* the file.                                                               *)
(***************************************************************************)
EXTENDS PhaseMachine, FiniteSetTheorems, TLAPS

\* The state the graph of the dispatch makes of the file.
Found(d) == Migrated(turn, job[d].g)

EdgeTaken(d) == EdgeBetween(job[d].g, past[d].from, job[d].to)

AlongEdge(d) == HasEdge(job[d].g, past[d].from, job[d].to)

\* The gates of the edge have held, except those that are still to be evaluated.
HeldExcept(d, names) == ToSet(EdgeTaken(d).gates) \ names \subseteq past[d].held

\* Nobody has overtaken d since it read.
Undisturbed(d) == past[d].alone => Found(d).phase = past[d].from

Where(d) ==
    /\ job[d].pc \in {"read", "gates", "terminal"} => job[d].verb = "transition"
    /\ job[d].pc = "pop" => job[d].verb = "revert"
    /\ job[d].pc \in {"prompt", "reset"} => job[d].verb = "prompt"
    /\ job[d].pc = "touch" => job[d].verb \in {"prompt", "touch"}
    /\ job[d].pc = "gates" =>
           AlongEdge(d) /\ HeldExcept(d, ToSet(job[d].left)) /\ Undisturbed(d)
    /\ job[d].pc = "write" /\ job[d].verb = "transition" =>
           /\ AlongEdge(d) /\ HeldExcept(d, {}) /\ Undisturbed(d)
           /\ job[d].s.phase = job[d].to
           /\ past[d].alone => job[d].s = Moved(Found(d), job[d].to)
    /\ job[d].pc = "write" /\ job[d].verb = "revert" /\ past[d].alone =>
           Found(d).history # <<>> /\ job[d].s = Popped(Found(d))

IInv == TypeOK /\ \A d \in Dispatchers : Where(d)

-----------------------------------------------------------------------------
(* Induction over the natural numbers, about sets and functions: a set of *)
(* numbers is used where the library's theorems take a predicate.         *)

\* A set of natural numbers that is not empty has a least one.
LEMMA LeastNumber ==
    ASSUME NEW S \in SUBSET Nat, S # {}
    PROVE  \E n \in S : \A m \in S : n <= m
<1> DEFINE R == OpToRel(<, Nat)
<1>1. IsWellFoundedOn(R, Nat) BY NatLessThanWellFounded
<1>2. R = {ss \in Nat \X Nat : ss[1] < ss[2]} BY DEF OpToRel
<1> HIDE DEF R
<1>3. \E x \in S : \A y \in S : ~(<<y, x>> \in R) BY <1>1, WFMin
<1>4. ASSUME NEW x \in Nat, NEW y \in Nat, <<y, x>> \notin R PROVE x <= y
  BY <1>2, <1>4
<1> QED BY <1>3, <1>4

LEMMA SetInduction ==
    ASSUME NEW S \in SUBSET Nat, 0 \in S, \A n \in S : n + 1 \in S
    PROVE  S = Nat
<1> SUFFICES ASSUME Nat \ S # {} PROVE FALSE OBVIOUS
<1>1. PICK n \in Nat \ S : \A m \in Nat \ S : n <= m BY LeastNumber
<1>2. n - 1 \in Nat BY <1>1
<1>3. n - 1 \in S BY <1>1, <1>2
<1>4. (n - 1) + 1 \in S BY <1>3
<1> QED BY <1>1, <1>4

-----------------------------------------------------------------------------
\* The beginning of length n of an iteration of G from b.
Iterates(f, n, b, G) ==
    f[0] = b /\ \A k \in Nat : k < n => f[k + 1] = G[k][f[k]]

\* The functions an iteration applies, one after another, and the whole of it.
Steps(X) == [Nat -> [X -> X]]
Iterated(f, b, G) == f[0] = b /\ \A n \in Nat : f[n + 1] = G[n][f[n]]

\* An iteration exists ...
LEMMA Iteration ==
    ASSUME NEW X, NEW b \in X, NEW G \in Steps(X)
    PROVE  \E f \in [Nat -> X] : Iterated(f, b, G)
<1>0. G \in [Nat -> [X -> X]] BY DEF Steps
<1> DEFINE S == {n \in Nat : \E f \in [Nat -> X] : Iterates(f, n, b, G)}
<1>1. 0 \in S
  <2> DEFINE f == [n \in Nat |-> b]
  <2>1. f \in [Nat -> X] /\ Iterates(f, 0, b, G) BY DEF Iterates
  <2> QED BY <2>1
<1>2. ASSUME NEW n \in S PROVE n + 1 \in S
  <2>1. PICK f \in [Nat -> X] : Iterates(f, n, b, G) BY <1>2
  <2> DEFINE g == [k \in Nat |-> IF k = n + 1 THEN G[n][f[n]] ELSE f[k]]
  <2>2. g \in [Nat -> X] BY <1>0
  <2>3. g[0] = b BY <2>1 DEF Iterates
  <2>4. ASSUME NEW k \in Nat, k < n + 1 PROVE g[k + 1] = G[k][g[k]]
    <3>1. CASE k = n BY <3>1
    <3>2. CASE k < n
      <4>1. g[k] = f[k] /\ g[k + 1] = f[k + 1] BY <3>2
      <4>2. f[k + 1] = G[k][f[k]] BY <2>1, <3>2 DEF Iterates
      <4> QED BY <4>1, <4>2
    <3> QED BY <2>4, <3>1, <3>2
  <2> HIDE DEF g
  <2>5. Iterates(g, n + 1, b, G) BY <2>3, <2>4 DEF Iterates
  <2> QED BY <2>2, <2>5
<1>3. S \in SUBSET Nat OBVIOUS
<1> HIDE DEF S
<1>4. S = Nat BY <1>1, <1>2, <1>3, SetInduction
<1>5. \A n \in Nat : \E f \in [Nat -> X] : Iterates(f, n, b, G) BY <1>4 DEF S
\* ... since any two agree as far as both go.
<1>6. ASSUME NEW f \in [Nat -> X], NEW g \in [Nat -> X], NEW m \in Nat, NEW n \in Nat,
             Iterates(f, m, b, G), Iterates(g, n, b, G)
      PROVE  \A k \in Nat : k <= m /\ k <= n => f[k] = g[k]
  <2> DEFINE T == {k \in Nat : k <= m /\ k <= n => f[k] = g[k]}
  <2>1. 0 \in T BY <1>6 DEF Iterates
  <2>2. ASSUME NEW k \in T PROVE k + 1 \in T BY <1>6, <2>2 DEF Iterates
  <2>3. T \in SUBSET Nat OBVIOUS
  <2> HIDE DEF T
  <2>4. T = Nat BY <2>1, <2>2, <2>3, SetInduction
  <2> QED BY <2>4 DEF T
<1> DEFINE F(n) == CHOOSE f \in [Nat -> X] : Iterates(f, n, b, G)
           h == [n \in Nat |-> F(n)[n]]
<1>7. \A n \in Nat : F(n) \in [Nat -> X] /\ Iterates(F(n), n, b, G) BY <1>5
<1> HIDE DEF F
<1>8. h \in [Nat -> X] BY <1>7
<1>9. h[0] = b BY <1>7 DEF Iterates
<1>10. ASSUME NEW n \in Nat PROVE h[n + 1] = G[n][h[n]]
  <2>1. F(n + 1)[n + 1] = G[n][F(n + 1)[n]] BY <1>7 DEF Iterates
  <2>2. F(n + 1)[n] = F(n)[n] BY <1>6, <1>7
  <2> QED BY <2>1, <2>2
<1> QED BY <1>8, <1>9, <1>10 DEF Iterated

-----------------------------------------------------------------------------
(* The first edge of a file *)

LEMMA Elements ==
    ASSUME NEW S, NEW e \in Seq(S)
    PROVE  DOMAIN e \subseteq Nat /\ \A i \in DOMAIN e : e[i] \in S
  OBVIOUS

LEMMA GraphShape ==
    ASSUME NEW g \in Graphs
    PROVE  /\ g.states \subseteq Phases /\ g.initial \in Phases /\ HasState(g, g.initial)
           /\ DOMAIN g.edges \subseteq Nat
           /\ \A i \in DOMAIN g.edges :
                 /\ g.edges[i].gates \in Seq(GateNames)
                 /\ HasState(g, g.edges[i].from) /\ HasState(g, g.edges[i].to)
<1>1. PICK e : e = g.edges
  OBVIOUS
<1>2. e \in Seq([from : Phases, to : Phases, gates : Seq(GateNames)])
  BY <1>1, GraphsAssumption
<1>3. /\ DOMAIN e \subseteq Nat
      /\ \A i \in DOMAIN e : e[i] \in [from : Phases, to : Phases, gates : Seq(GateNames)]
  BY <1>2, Elements
<1> QED BY <1>1, <1>3, GraphsAssumption DEF Valid, EdgesDeclared, HasState

LEMMA EdgeShape ==
    ASSUME NEW g \in Graphs, NEW from, NEW to, HasEdge(g, from, to)
    PROVE  /\ EdgeBetween(g, from, to).gates \in Seq(GateNames)
           /\ ToSet(EdgeBetween(g, from, to).gates) \subseteq DOMAIN g.gates
           /\ HasState(g, from) /\ HasState(g, to)
<1> DEFINE S == EdgesBetween(g, from, to)
<1>1. S # {} /\ S \subseteq DOMAIN g.edges /\ DOMAIN g.edges \subseteq Nat
  BY GraphShape DEF HasEdge, EdgesBetween
<1>2. \A i \in S : g.edges[i].from = from /\ g.edges[i].to = to BY DEF EdgesBetween
<1>3. Min(S) \in S
  <2> HIDE DEF S
  <2>1. \E n \in S : \A m \in S : n <= m BY <1>1, LeastNumber
  <2> QED BY <2>1, Zenon DEF Min
<1>4. PICK k \in S : EdgeBetween(g, from, to) = g.edges[k] BY <1>3 DEF EdgeBetween
<1>5. HasState(g, from) /\ HasState(g, to) /\ g.edges[k].gates \in Seq(GateNames)
  BY <1>1, <1>2, GraphShape
<1>6. ToSet(g.edges[k].gates) \subseteq DOMAIN g.gates
  BY <1>1, GraphsAssumption DEF Valid, EdgesDeclared
<1> QED BY <1>4, <1>5, <1>6

-----------------------------------------------------------------------------
(* The fixpoint of Graph::validate *)

Into(g, S) == {g.edges[i].from : i \in {k \in DOMAIN g.edges : g.edges[k].to \in S}}

\* What the recursion computes.
LEMMA ReachingSteps ==
    ASSUME NEW g
    PROVE  /\ Reaching(g)[0] = {g.terminal}
           /\ \A n \in Nat : Reaching(g)[n + 1] = Reaching(g)[n] \cup Into(g, Reaching(g)[n])
<1> DEFINE All == {g.terminal} \cup {g.edges[i].from : i \in DOMAIN g.edges}
           X == SUBSET All
           G == [n \in Nat |-> [S \in X |-> S \cup Into(g, S)]]
           Is(f) == f = [n \in Nat |-> IF n = 0 THEN {g.terminal}
                                       ELSE f[n - 1] \cup
                                            {g.edges[i].from : i \in {k \in DOMAIN g.edges :
                                                         g.edges[k].to \in f[n - 1]}}]
<1>1. {g.terminal} \in X
  OBVIOUS
<1>2. \A S \in X : S \cup Into(g, S) \in X BY DEF Into
<1>3. G \in Steps(X)
  <2> HIDE DEF X
  <2> QED BY <1>2 DEF Steps
<1>4. \E f \in [Nat -> X] : Iterated(f, {g.terminal}, G)
  <2> HIDE DEF X, G
  <2> QED BY <1>1, <1>3, Iteration
<1>5. PICK f \in [Nat -> X] :
          f[0] = {g.terminal} /\ \A n \in Nat : f[n + 1] = f[n] \cup Into(g, f[n])
  <2> HIDE DEF X
  <2> QED BY <1>4 DEF Iterated
<1>6. Is(f)
  <2>1. ASSUME NEW n \in Nat \ {0} PROVE f[n] = f[n - 1] \cup Into(g, f[n - 1])
    <3>1. n - 1 \in Nat /\ (n - 1) + 1 = n
      OBVIOUS
    <3> QED BY <1>5, <3>1
  <2> HIDE DEF X
  <2> QED BY <1>5, <2>1 DEF Into
<1>7. \E h : Is(h) BY <1>6
<1>8. Reaching(g) = CHOOSE h : Is(h) BY Zenon DEF Reaching
<1>9. PICK h : h = Reaching(g)
  OBVIOUS
<1>10. Is(h)
  <2> HIDE DEF Is
  <2> QED BY <1>7, <1>8, <1>9
<1>11. h[0] = {g.terminal} BY <1>10
<1>12. ASSUME NEW n \in Nat PROVE h[n + 1] = h[n] \cup Into(g, h[n])
  <2>1. n + 1 \in Nat /\ n + 1 # 0 /\ (n + 1) - 1 = n
    OBVIOUS
  <2> QED BY <1>10, <2>1 DEF Into
<1> QED BY <1>9, <1>11, <1>12

\* Whatever the edges never leave and the terminal phase is not in is never reached
\* from behind.
LEMMA ReachingAvoids ==
    ASSUME NEW g, NEW S, g.terminal \notin S,
           \A i \in DOMAIN g.edges : g.edges[i].from \in S => g.edges[i].to \in S
    PROVE  \A n \in Nat : Reaching(g)[n] \cap S = {}
<1> DEFINE N == {n \in Nat : Reaching(g)[n] \cap S = {}}
<1>1. 0 \in N BY ReachingSteps
<1>2. ASSUME NEW n \in N PROVE n + 1 \in N
  <2>1. Reaching(g)[n + 1] = Reaching(g)[n] \cup Into(g, Reaching(g)[n]) BY ReachingSteps
  <2>2. Into(g, Reaching(g)[n]) \cap S = {} BY DEF Into
  <2> QED BY <2>1, <2>2
<1>3. N \in SUBSET Nat
  OBVIOUS
<1> HIDE DEF N
<1>4. N = Nat BY <1>1, <1>2, <1>3, SetInduction
<1> QED BY <1>4 DEF N

LEMMA AcceptedOpens ==
    ASSUME NEW gate, GateAccepted(gate), gate.mode \in {"predicate-only", "hook-only", "both"}
    PROVE  GatePasses(gate, Evidence) \/ Refuses(gate)
  BY DEF GateAccepted, GatePasses, PredicateHolds, HookPasses, Evidence, Refuses

\* The last check of Graph::validate, for one state: a set that its edges do not leave and
\* the terminal phase is not in holds none of the states of the graph.
LEMMA AllReach ==
    ASSUME NEW g \in Graphs, NEW S, g.terminal \notin S,
           \A i \in DOMAIN g.edges : g.edges[i].from \in S => g.edges[i].to \in S
    PROVE  g.states \cap S = {}
<1>1. g.states \subseteq Reaching(g)[Cardinality(g.states)]
  BY GraphsAssumption DEF Valid, CanReach
<1>2. Cardinality(g.states) \in Nat BY GraphsAssumption, FS_CardinalityType
<1> QED BY <1>1, <1>2, ReachingAvoids

\* Graph::validate leaves no gate that cannot be opened but those that ask for the
\* predicate that is always false.
LEMMA EdgesCanOpen ==
    ASSUME NEW g \in Graphs, NEW i \in DOMAIN g.edges, NEW name \in ToSet(g.edges[i].gates)
    PROVE  GatePasses(g.gates[name], Evidence) \/ Refuses(g.gates[name])
<1>1. name \in DOMAIN g.gates /\ GateAccepted(g.gates[name])
  BY GraphsAssumption DEF Valid, EdgesDeclared
<1>2. g.gates[name].mode \in {"predicate-only", "hook-only", "both"}
  BY <1>1, GraphsAssumption
<1> QED BY <1>1, <1>2, AcceptedOpens

-----------------------------------------------------------------------------
(* What a state becomes *)

LEMMA MigratedShape ==
    ASSUME NEW s \in Turns, NEW g \in Graphs
    PROVE  /\ Migrated(s, g) \in Turns /\ Migrated(s, g).history = s.history
           /\ HasState(g, Migrated(s, g).phase)
           /\ HasState(g, s.phase) => Migrated(s, g) = s
  BY GraphShape DEF Migrated, Turns

LEMMA MovedShape ==
    ASSUME NEW s \in Turns, NEW to \in Phases
    PROVE  Moved(s, to) \in Turns
<1>1. [from |-> s.phase, to |-> to] \in Entries BY DEF Turns, Entries
<1>2. Append(s.history, [from |-> s.phase, to |-> to]) \in Seq(Entries)
  BY <1>1 DEF Turns
<1> QED BY <1>2 DEF Moved, Turns

LEMMA PoppedShape ==
    ASSUME NEW s \in Turns, s.history # <<>>
    PROVE  Popped(s) \in Turns
<1>1. s.history \in Seq(Entries) /\ Len(s.history) \in Nat \ {0} BY DEF Turns
<1>2. Last(s.history) \in Entries BY <1>1 DEF Last
<1>3. Front(s.history) \in Seq(Entries) BY <1>1 DEF Front
<1> QED BY <1>2, <1>3 DEF Popped, Turns, Entries

\* The phase at the end of a walk is one of the graph.
LEMMA WalkEnds ==
    ASSUME NEW s \in Turns, NEW g \in Graphs, IsWalk(s, g)
    PROVE  HasState(g, s.phase)
<1>1. s.history \in Seq(Entries) /\ Len(s.history) \in Nat BY DEF Turns
<1>2. CASE Len(s.history) = 0 BY <1>2, GraphShape DEF IsWalk
<1>3. CASE Len(s.history) # 0
  <2>1. Len(s.history) \in DOMAIN s.history BY <1>1, <1>3
  <2>2. /\ s.phase = s.history[Len(s.history)].to
        /\ HasEdge(g, s.history[Len(s.history)].from, s.phase)
    BY <1>3, <2>1 DEF IsWalk
  <2> QED BY <2>2, EdgeShape
<1> QED BY <1>2, <1>3

LEMMA WalkMoved ==
    ASSUME NEW s \in Turns, NEW g \in Graphs, IsWalk(s, g), NEW to, HasEdge(g, s.phase, to)
    PROVE  IsWalk(Moved(s, to), g)
<1>1. CASE s.phase = to BY <1>1 DEF Moved
<1>2. CASE s.phase # to
  <2> DEFINE e == [from |-> s.phase, to |-> to]
             h == Append(s.history, e)
             n == Len(s.history)
  <2>1. s.history \in Seq(Entries) /\ n \in Nat BY DEF Turns
  <2>2. /\ DOMAIN h = 1 .. n + 1 /\ Len(h) = n + 1 /\ h[n + 1] = e
        /\ \A i \in 1 .. n : h[i] = s.history[i]
        /\ DOMAIN s.history = 1 .. n
    BY <2>1
  <2>3. Moved(s, to) = [phase |-> to, history |-> h] BY <1>2 DEF Moved
  <2>4. h[n + 1].from = (IF n = 0 THEN g.initial ELSE h[n].to)
    BY <2>1, <2>2 DEF IsWalk
  <2>5. ASSUME NEW i \in 1 .. n
        PROVE  /\ h[i].from = (IF i - 1 = 0 THEN g.initial ELSE h[i - 1].to)
               /\ HasEdge(g, h[i].from, h[i].to)
    <3>1. h[i] = s.history[i] /\ (i - 1 # 0 => h[i - 1] = s.history[i - 1]) BY <2>1, <2>2
    <3> QED BY <2>2, <3>1 DEF IsWalk
  <2> HIDE DEF h
  <2>6. \A i \in DOMAIN h : /\ h[i].from = (IF i - 1 = 0 THEN g.initial ELSE h[i - 1].to)
                            /\ HasEdge(g, h[i].from, h[i].to)
    BY <2>1, <2>2, <2>4, <2>5
  <2> QED BY <2>1, <2>2, <2>3, <2>6 DEF IsWalk
<1> QED BY <1>1, <1>2

LEMMA WalkPopped ==
    ASSUME NEW s \in Turns, NEW g \in Graphs, IsWalk(s, g), s.history # <<>>
    PROVE  IsWalk(Popped(s), g)
<1> DEFINE h == Front(s.history)
<1>0. PICK n : n = Len(s.history)
  OBVIOUS
<1>1. s.history \in Seq(Entries) /\ n \in Nat \ {0} /\ DOMAIN s.history = 1 .. n
  BY <1>0 DEF Turns
<1>2. DOMAIN h = 1 .. n - 1 /\ Len(h) = n - 1 /\ \A i \in 1 .. n - 1 : h[i] = s.history[i]
  BY <1>0, <1>1 DEF Front
<1>3. Popped(s) = [phase |-> s.history[n].from, history |-> h] BY <1>0 DEF Popped, Last
<1>4. s.history[n].from = (IF n - 1 = 0 THEN g.initial ELSE h[n - 1].to)
  <2>1. s.history[n].from = (IF n - 1 = 0 THEN g.initial ELSE s.history[n - 1].to)
    <3>1. n \in DOMAIN s.history BY <1>1
    <3> DEFINE at(i) == IF i = 0 THEN g.initial ELSE s.history[i].to
    <3>2. \A i \in DOMAIN s.history : s.history[i].from = at(i - 1) BY DEF IsWalk
    <3> QED BY <3>1, <3>2
  <2>2. n - 1 # 0 => h[n - 1] = s.history[n - 1] BY <1>1, <1>2
  <2> QED BY <2>1, <2>2
<1>5. ASSUME NEW i \in 1 .. n - 1
      PROVE  /\ h[i].from = (IF i - 1 = 0 THEN g.initial ELSE h[i - 1].to)
             /\ HasEdge(g, h[i].from, h[i].to)
  <2>1. h[i] = s.history[i] /\ (i - 1 # 0 => h[i - 1] = s.history[i - 1]) BY <1>1, <1>2
  <2> QED BY <1>0, <1>1, <2>1 DEF IsWalk
<1> HIDE DEF h
<1> QED BY <1>1, <1>2, <1>3, <1>4, <1>5 DEF IsWalk

-----------------------------------------------------------------------------
(* The steps of a dispatch: what it makes of its job *)

LEMMA NewJob ==
    ASSUME TypeOK, NEW d \in Dispatchers, NEW j \in Jobs, job' = [job EXCEPT ![d] = j]
    PROVE  job' \in [Dispatchers -> Jobs] /\ job'[d] = j
  BY DEF TypeOK

LEMMA GraphNow == TypeOK => graph \in Graphs
  BY DEF TypeOK, graph, Graphs

LEMMA IdleJob ==
    ASSUME TypeOK, NEW v \in Verbs \cup {"touch"}
    PROVE  Idle(graph, v) \in Jobs
<1>1. graph \in Graphs /\ graph.initial \in Phases BY GraphNow, GraphShape
<1>2. Fresh(graph) \in Turns BY <1>1 DEF Fresh, Turns
<1> QED BY <1>1, <1>2 DEF Idle, Jobs

\* A dispatch that answers leaves an idle dispatcher.
LEMMA AnswerShape ==
    ASSUME TypeOK, NEW d \in Dispatchers, NEW r \in BOOLEAN, Answer(d, r)
    PROVE  job' \in [Dispatchers -> Jobs] /\ job'[d].pc = "idle"
<1> DEFINE j == [Idle(graph, job[d].verb) EXCEPT !.receipt = r]
<1>1. Idle(graph, job[d].verb) \in Jobs BY IdleJob DEF TypeOK, Jobs
<1>2. j \in Jobs /\ j.pc = "idle" BY <1>1 DEF Jobs, Idle
<1>3. job' = [job EXCEPT ![d] = j] BY DEF Answer
<1> HIDE DEF j
<1> QED BY <1>2, <1>3, NewJob

LEMMA GotoShape ==
    ASSUME TypeOK, NEW d \in Dispatchers, Goto(d, "prompt") \/ Goto(d, "reset") \/
           Goto(d, "touch") \/ Goto(d, "terminal")
    PROVE  /\ job' \in [Dispatchers -> Jobs]
           /\ job'[d].verb = job[d].verb
           /\ \A pc : Goto(d, pc) => job'[d].pc = pc
<1>1. job[d] \in Jobs BY DEF TypeOK
<1>2. PICK pc \in {"prompt", "reset", "touch", "terminal"} : Goto(d, pc)
  OBVIOUS
<1>3. [job[d] EXCEPT !.pc = pc] \in Jobs BY <1>1 DEF Jobs
<1>4. job' = [job EXCEPT ![d] = [job[d] EXCEPT !.pc = pc]] BY <1>2 DEF Goto
<1>5. job' \in [Dispatchers -> Jobs] /\ job'[d] = [job[d] EXCEPT !.pc = pc]
  BY <1>3, <1>4, NewJob
<1>6. job'[d].verb = job[d].verb BY <1>1, <1>5 DEF Jobs
<1>7. \A q : Goto(d, q) => job'[d].pc = q BY DEF TypeOK, Goto, Jobs
<1> QED BY <1>5, <1>6, <1>7

LEMMA WriteNextShape ==
    ASSUME TypeOK, NEW d \in Dispatchers, NEW s \in Turns, WriteNext(d, s)
    PROVE  /\ job' \in [Dispatchers -> Jobs]
           /\ job'[d] = [job[d] EXCEPT !.pc = "write", !.s = s]
<1>1. job[d] \in Jobs BY DEF TypeOK
<1>2. [job[d] EXCEPT !.pc = "write", !.s = s] \in Jobs BY <1>1 DEF Jobs
<1>3. job' = [job EXCEPT ![d] = [job[d] EXCEPT !.pc = "write", !.s = s]]
  BY DEF WriteNext, TypeOK
<1> QED BY <1>2, <1>3, NewJob

-----------------------------------------------------------------------------
(* The types *)

LEMMA StartTyped ==
    ASSUME TypeOK, NEW d \in Dispatchers, NEW v \in Verbs, Start(d, v)
    PROVE  job' \in [Dispatchers -> Jobs]
<1> DEFINE pc == CASE v = "transition" -> "read" [] v = "revert" -> "pop" [] OTHER -> v
           j == [Idle(graph, v) EXCEPT !.pc = pc]
<1>1. v \in {"transition", "revert", "prompt", "touch"} BY PhaseConstantsAssumption
<1>2. j \in Jobs BY <1>1, IdleJob DEF Jobs
<1>3. job' = [job EXCEPT ![d] = j] BY DEF Start
<1> HIDE DEF j
<1> QED BY <1>2, <1>3, NewJob

LEMMA FollowEdgeTyped ==
    ASSUME TypeOK, NEW d \in Dispatchers, NEW to \in Phases, FollowEdge(d, to)
    PROVE  job' \in [Dispatchers -> Jobs]
<1> DEFINE g == job[d].g
           from == Migrated(turn, g).phase
           gates == EdgeBetween(g, from, to).gates
           j == [job[d] EXCEPT !.pc = "gates", !.to = to, !.left = gates]
<1>1. CASE HasEdge(g, from, to)
  <2>1. job[d] \in Jobs /\ g \in Graphs BY DEF TypeOK, Jobs
  <2>2. gates \in Seq(GateNames) BY <1>1, <2>1, EdgeShape
  <2>3. job' = [job EXCEPT ![d] = j] BY <1>1 DEF FollowEdge, TypeOK
  <2>4. j \in Jobs BY <2>1, <2>2 DEF Jobs
  <2> HIDE DEF j
  <2> QED BY <2>3, <2>4, NewJob
<1>2. CASE ~HasEdge(g, from, to) BY <1>2, AnswerShape DEF FollowEdge
<1> QED BY <1>1, <1>2

LEMMA EvaluateGateTyped ==
    ASSUME TypeOK, NEW d \in Dispatchers, EvaluateGate(d)
    PROVE  job' \in [Dispatchers -> Jobs]
<1> DEFINE left == job[d].left
           j == [job[d] EXCEPT !.left = Tail(left)]
<1>1. CASE job' = [job EXCEPT ![d].left = Tail(@)]
  <2>1. job[d] \in Jobs /\ left \in Seq(GateNames) /\ left # <<>>
    BY DEF TypeOK, Jobs, EvaluateGate
  <2>2. Tail(left) \in Seq(GateNames) BY <2>1
  <2>3. job' = [job EXCEPT ![d] = j] BY <1>1 DEF TypeOK
  <2>4. j \in Jobs BY <2>1, <2>2 DEF Jobs
  <2> HIDE DEF j
  <2> QED BY <2>3, <2>4, NewJob
<1>2. CASE Answer(d, FALSE) BY <1>2, AnswerShape
<1> QED BY <1>1, <1>2 DEF EvaluateGate

LEMMA TouchTyped ==
    ASSUME TypeOK, NEW d \in Dispatchers, Touch(d)
    PROVE  job' \in [Dispatchers -> Jobs]
<1> DEFINE j == [job[d] EXCEPT !.pc = "write", !.verb = "touch", !.s = Migrated(turn, graph)]
<1>1. job[d] \in Jobs BY DEF TypeOK
<1>2. Migrated(turn, graph) \in Turns BY GraphNow, MigratedShape DEF TypeOK
<1>3. j \in Jobs BY <1>1, <1>2 DEF Jobs
<1>4. job' = [job EXCEPT ![d] = j] BY DEF Touch, TypeOK
<1> HIDE DEF j
<1> QED BY <1>3, <1>4, NewJob

\* The steps that compute what is written.
LEMMA ComputingTyped ==
    ASSUME TypeOK, NEW d \in Dispatchers, SetPhase(d) \/ Revert(d) \/ Reset(d)
    PROVE  job' \in [Dispatchers -> Jobs]
<1>1. turn \in Turns /\ job[d] \in Jobs /\ job[d].g \in Graphs /\ job[d].to \in Phases
  BY DEF TypeOK, Jobs
<1>2. Migrated(turn, job[d].g) \in Turns /\ Migrated(turn, graph) \in Turns
  BY <1>1, GraphNow, MigratedShape
<1>3. CASE SetPhase(d)
  <2>1. Moved(Migrated(turn, job[d].g), job[d].to) \in Turns BY <1>1, <1>2, MovedShape
  <2> QED BY <1>3, <2>1, WriteNextShape DEF SetPhase
<1>4. CASE Revert(d)
  <2>1. CASE Migrated(turn, job[d].g).history = <<>>
    BY <1>4, <2>1, AnswerShape DEF Revert
  <2>2. CASE Migrated(turn, job[d].g).history # <<>>
    <3>1. Popped(Migrated(turn, job[d].g)) \in Turns BY <1>2, <2>2, PoppedShape
    <3> QED BY <1>4, <2>2, <3>1, WriteNextShape DEF Revert
  <2> QED BY <2>1, <2>2
<1>5. CASE Reset(d)
  <2>1. job[d].g.initial \in Phases BY <1>1, GraphShape
  <2>2. [Migrated(turn, graph) EXCEPT !.phase = job[d].g.initial] \in Turns
    BY <1>2, <2>1 DEF Turns
  <2> QED BY <1>5, <2>2, WriteNextShape DEF Reset
<1> QED BY <1>3, <1>4, <1>5

LEMMA StepTyped ==
    ASSUME TypeOK, NEW d \in Dispatchers, Step(d)
    PROVE  /\ job' \in [Dispatchers -> Jobs] /\ turn' \in Turns
           /\ \A e \in Dispatchers \ {d} : job'[e] = job[e]
           /\ UNCHANGED <<tiers, holds>>
<1>1. job' \in [Dispatchers -> Jobs]
  <2>1. CASE FreshPrompt(d, TRUE) \/ FreshPrompt(d, FALSE)
    <3>1. Goto(d, "reset") \/ Goto(d, "touch") BY <2>1 DEF FreshPrompt
    <3> QED BY <3>1, GotoShape
  <2>2. CASE Write(d)
    <3>1. Goto(d, "terminal") \/ Goto(d, "touch") \/ Answer(d, FALSE) BY <2>2 DEF Write
    <3> QED BY <3>1, GotoShape, AnswerShape
  <2>3. CASE WriteFails(d)
    <3>1. Goto(d, "touch") \/ Answer(d, FALSE) BY <2>3 DEF WriteFails
    <3> QED BY <3>1, GotoShape, AnswerShape
  <2>4. CASE CheckTerminal(d)
    <3>1. PICK r \in BOOLEAN : Answer(d, r) BY <2>4 DEF CheckTerminal
    <3> QED BY <3>1, AnswerShape
  <2> QED BY <2>1, <2>2, <2>3, <2>4, FollowEdgeTyped, EvaluateGateTyped, ComputingTyped,
             TouchTyped DEF Step
<1>2. turn' \in Turns
  <2>1. turn' = turn \/ turn' = job[d].s
    BY DEF Step, FollowEdge, EvaluateGate, SetPhase, Revert, FreshPrompt, Reset, Touch, Write,
           WriteFails, CheckTerminal
  <2> QED BY <2>1 DEF TypeOK, Jobs
<1>3. UNCHANGED <<tiers, holds>>
  BY DEF Step, FollowEdge, EvaluateGate, SetPhase, Revert, FreshPrompt, Reset, Touch, Write,
         WriteFails, CheckTerminal
<1>4. \E j : job' = [job EXCEPT ![d] = j]
  BY Zenon DEF Step, FollowEdge, EvaluateGate, SetPhase, Revert, FreshPrompt, Reset, Touch, Write,
         WriteFails, CheckTerminal, Goto, WriteNext, Answer
<1>5. \A e \in Dispatchers \ {d} : job'[e] = job[e] BY <1>4 DEF TypeOK
<1> QED BY <1>1, <1>2, <1>3, <1>5

LEMMA HoldingTyped ==
    ASSUME NEW g \in Graphs, NEW H
    PROVE  {name \in DOMAIN g.gates : GatePasses(g.gates[name], H)} \subseteq GateNames
  BY GraphsAssumption

LEMMA NextPastTyped ==
    ASSUME TypeOK, job' \in [Dispatchers -> Jobs], NEW d \in Dispatchers
    PROVE  NextPast(d) \in Pasts
<1>1. job[d] \in Jobs /\ job'[d] \in Jobs /\ past[d] \in Pasts /\ turn \in Turns BY DEF TypeOK
<1>2. Holding(d) \subseteq GateNames /\ Holding(d)' \subseteq GateNames
  BY <1>1, HoldingTyped DEF Holding, Jobs
<1>3. Migrated(turn, job[d].g).phase \in Phases BY <1>1, MigratedShape DEF Jobs, Turns
<1>4. NoPast \in Pasts BY DEF NoPast, Pasts
<1>5. [from |-> Migrated(turn, job[d].g).phase, held |-> Holding(d), alone |-> TRUE] \in Pasts
  BY <1>2, <1>3 DEF Pasts
<1>6. [past[d] EXCEPT !.held = @ \cup Holding(d)', !.alone = @ /\ turn' = turn] \in Pasts
  BY <1>1, <1>2 DEF Pasts
<1> QED BY <1>4, <1>5, <1>6 DEF NextPast

LEMMA TypeKept == TypeOK /\ [Next]_vars => TypeOK'
<1> SUFFICES ASSUME TypeOK, [Next]_vars PROVE TypeOK'
  OBVIOUS
<1>1. CASE UNCHANGED vars BY <1>1 DEF vars, tiers, TypeOK
<1>2. CASE Next
  <2> DEFINE Typed == /\ job' \in [Dispatchers -> Jobs] /\ turn' \in Turns
                      /\ local' \in Locals /\ repo' \in Repos /\ holds' \subseteq Evidence
  <2>1. Typed
    <3>1. ASSUME NEW d \in Dispatchers, Step(d) PROVE Typed
      BY <3>1, StepTyped DEF TypeOK, tiers
    <3>2. ASSUME NEW d \in Dispatchers, NEW v \in Verbs, Start(d, v) PROVE Typed
      BY <3>2, StartTyped DEF Start, tiers, TypeOK
    <3>3. ASSUME NEW doc \in Locals, EditLocal(doc) PROVE Typed
      BY <3>3 DEF EditLocal, TypeOK
    <3>4. ASSUME NEW doc \in Repos, RefreshRepo(doc) PROVE Typed
      BY <3>4 DEF RefreshRepo, TypeOK
    <3>5. ASSUME NEW x \in Evidence, Flip(x) PROVE Typed
      BY <3>5 DEF Flip, TypeOK, tiers
    <3> QED BY <1>2, <3>1, <3>2, <3>3, <3>4, <3>5 DEF Next, Act
  <2>2. past' \in [Dispatchers -> Pasts]
    <3>1. \A d \in Dispatchers : NextPast(d) \in Pasts BY <2>1, NextPastTyped
    <3> QED BY <1>2, <3>1 DEF Next
  <2>3. setting' \in Settings BY <1>2 DEF Next, TypeOK
  <2> QED BY <2>1, <2>2, <2>3 DEF TypeOK
<1> QED BY <1>1, <1>2

LEMMA InitIInv == Init => IInv
<1> SUFFICES ASSUME Init PROVE IInv
  OBVIOUS
<1>0. local \in Locals /\ repo \in Repos /\ setting \in Settings /\ setting.verbs \subseteq Verbs
  BY PhaseConstantsAssumption DEF Init
<1>1. graph \in Graphs BY <1>0 DEF graph, Graphs
<1>2. turn \in Turns BY <1>1, GraphShape DEF Init, Fresh, Turns
<1>3. PICK v \in Verbs : job = [d \in Dispatchers |-> Idle(graph, v)] BY <1>0 DEF Init
<1>4. Idle(graph, v) \in Jobs /\ Idle(graph, v).pc = "idle"
  <2>1. graph.initial \in Phases BY <1>1, GraphShape
  <2>2. Fresh(graph) \in Turns BY <2>1 DEF Fresh, Turns
  <2> QED BY <1>1, <2>1, <2>2 DEF Idle, Jobs
<1>5. past \in [Dispatchers -> Pasts] BY DEF Init, NoPast, Pasts
<1>6. TypeOK BY <1>0, <1>2, <1>3, <1>4, <1>5 DEF Init, TypeOK
<1>7. \A d \in Dispatchers : Where(d) BY <1>3, <1>4 DEF Where
<1> QED BY <1>6, <1>7 DEF IInv

\* The files, the evidence and every dispatch keep their types.
THEOREM TypeCorrect == Spec => []TypeOK
<1>1. Init => TypeOK BY InitIInv DEF IInv
<1> QED BY <1>1, TypeKept, PTL DEF Spec

\* Graph::validate and migrate_to_graph: whatever files replace the graph, a turn is
\* never in a phase from which the terminal one of the graph now in force could not be
\* reached along gates that can open or that the document itself shuts with the
\* always-false predicate.
THEOREM TurnsCanEnd == Spec => []CanFinish
<1>1. TypeOK => CanFinish
  <2> DEFINE open == {e \in ToSet(graph.edges) : \A name \in ToSet(e.gates) :
                        GatePasses(graph.gates[name], Evidence) \/ Refuses(graph.gates[name])}
  <2> SUFFICES ASSUME TypeOK, NEW S \in SUBSET graph.states, Migrated(turn, graph).phase \in S,
                      \A e \in open : e.from \in S => e.to \in S, graph.terminal \notin S
               PROVE  FALSE
    BY DEF CanFinish, Leads
  <2>1. graph \in Graphs BY GraphNow
  <2>2. \A i \in DOMAIN graph.edges : graph.edges[i] \in open
    <3> SUFFICES ASSUME NEW i \in DOMAIN graph.edges PROVE graph.edges[i] \in open
      OBVIOUS
    <3>1. graph.edges[i] \in ToSet(graph.edges) BY DEF ToSet
    <3>2. \A name \in ToSet(graph.edges[i].gates) :
              GatePasses(graph.gates[name], Evidence) \/ Refuses(graph.gates[name])
      BY <2>1, EdgesCanOpen
    <3> QED BY <3>1, <3>2
  <2>3. \A i \in DOMAIN graph.edges : graph.edges[i].from \in S => graph.edges[i].to \in S
    <3> HIDE DEF open
    <3> QED BY <2>2
  <2>4. graph.states \cap S = {} BY <2>1, <2>3, AllReach
  <2> QED BY <2>4
<1> QED BY <1>1, TypeCorrect, PTL

-----------------------------------------------------------------------------
(* What a dispatch knows *)

\* The history of a dispatch that goes on with the same job: more gates have held, and it
\* was overtaken if the file changed.
LEMMA PastGoesOn ==
    ASSUME TypeOK, NEW d \in Dispatchers, past'[d] = NextPast(d),
           job'[d].pc \in {"gates", "write"}, job'[d].verb \in {"transition", "revert"},
           job[d].pc \notin {"read", "pop"} \/ job'[d] = job[d]
    PROVE  /\ past'[d].from = past[d].from
           /\ past'[d].held = past[d].held \cup Holding(d)'
           /\ past'[d].alone = (past[d].alone /\ turn' = turn)
<1>1. past[d] \in Pasts BY DEF TypeOK
<1>2. past'[d] = [past[d] EXCEPT !.held = @ \cup Holding(d)', !.alone = @ /\ turn' = turn]
  BY DEF NextPast
<1> QED BY <1>1, <1>2 DEF Pasts

\* Its history begins with its first read.
LEMMA PastBegins ==
    ASSUME TypeOK, NEW d \in Dispatchers, past'[d] = NextPast(d),
           job'[d].pc \in {"gates", "write"}, job'[d].verb \in {"transition", "revert"},
           job[d].pc \in {"read", "pop"}, job'[d] # job[d]
    PROVE  past'[d] = [from |-> Found(d).phase, held |-> Holding(d), alone |-> TRUE]
  BY DEF NextPast, Found

\* Whatever others do.
LEMMA OthersLeave ==
    ASSUME TypeOK, NEW d \in Dispatchers, Where(d), job'[d] = job[d], past'[d] = NextPast(d)
    PROVE  Where(d)'
<1>1. CASE job[d].pc = "gates" \/ (job[d].pc = "write" /\ job[d].verb \in {"transition", "revert"})
  <2>1. job[d].pc = "gates" => job[d].verb = "transition" BY DEF Where
  <2>2. /\ past'[d].from = past[d].from /\ past[d].held \subseteq past'[d].held
        /\ past'[d].alone => past[d].alone /\ turn' = turn
    BY <1>1, <2>1, PastGoesOn
  <2>3. EdgeTaken(d)' = EdgeTaken(d) BY <2>2 DEF EdgeTaken
  <2>4. past'[d].alone => Found(d)' = Found(d) BY <2>2 DEF Found
  <2>5. AlongEdge(d) => AlongEdge(d)' BY <2>2 DEF AlongEdge
  <2>6. \A names : HeldExcept(d, names) => HeldExcept(d, names)'
    BY <2>2, <2>3 DEF HeldExcept
  <2>7. HeldExcept(d, ToSet(job[d].left)) => HeldExcept(d, ToSet(job[d].left))'
    BY <2>2, <2>3 DEF HeldExcept
  <2>8. Undisturbed(d) => Undisturbed(d)' BY <2>2, <2>4 DEF Undisturbed
  <2> QED BY <1>1, <2>1, <2>2, <2>4, <2>5, <2>6, <2>7, <2>8 DEF Where
<1>2. CASE ~(job[d].pc = "gates" \/ (job[d].pc = "write" /\ job[d].verb \in {"transition", "revert"}))
  BY <1>2 DEF Where
<1> QED BY <1>1, <1>2

\* Nothing is asked of a dispatch that is not on its way to moving the turn.
LEMMA NotMoving ==
    ASSUME NEW d \in Dispatchers,
           \/ job'[d].pc = "idle"
           \/ job'[d].pc = "terminal" /\ job'[d].verb = "transition"
           \/ job'[d].pc \in {"reset", "touch"} /\ job'[d].verb = "prompt"
           \/ job'[d].pc = "write" /\ job'[d].verb \in {"prompt", "touch"}
    PROVE  Where(d)'
  BY DEF Where

LEMMA Answered ==
    ASSUME TypeOK, NEW d \in Dispatchers, NEW r \in BOOLEAN, Answer(d, r)
    PROVE  Where(d)'
  BY AnswerShape, NotMoving

LEMMA StartKeeps ==
    ASSUME TypeOK, NEW d \in Dispatchers, NEW v \in Verbs, Start(d, v)
    PROVE  Where(d)'
<1> DEFINE pc == CASE v = "transition" -> "read" [] v = "revert" -> "pop" [] OTHER -> v
           j == [Idle(graph, v) EXCEPT !.pc = pc]
<1>1. v \in {"transition", "revert", "prompt", "touch"} BY PhaseConstantsAssumption
<1>2. Idle(graph, v) \in Jobs BY IdleJob
<1>3. j \in Jobs /\ j.pc = pc /\ j.verb = v BY <1>1, <1>2 DEF Jobs, Idle
<1>4. job' = [job EXCEPT ![d] = j] BY DEF Start
<1>5. job'[d].pc = pc /\ job'[d].verb = v
  <2> HIDE DEF j
  <2> QED BY <1>3, <1>4, NewJob
<1> QED BY <1>1, <1>5 DEF Where

LEMMA FollowEdgeKeeps ==
    ASSUME TypeOK, NEW d \in Dispatchers, Where(d), NEW to \in Phases, FollowEdge(d, to),
           past'[d] = NextPast(d)
    PROVE  Where(d)'
<1> DEFINE g == job[d].g
           from == Migrated(turn, g).phase
           gates == EdgeBetween(g, from, to).gates
           j == [job[d] EXCEPT !.pc = "gates", !.to = to, !.left = gates]
<1>1. CASE HasEdge(g, from, to)
  <2>1. job[d] \in Jobs /\ g \in Graphs BY DEF TypeOK, Jobs
  <2>2. gates \in Seq(GateNames) BY <1>1, <2>1, EdgeShape
  <2>3. job' = [job EXCEPT ![d] = j] BY <1>1 DEF FollowEdge, TypeOK
  <2>4. /\ j \in Jobs /\ j.pc = "gates" /\ j.verb = job[d].verb /\ j.g = g /\ j.to = to
        /\ j.left = gates
    BY <2>1, <2>2 DEF Jobs
  <2>5. job'[d] = j
    <3> HIDE DEF j
    <3> QED BY <2>3, <2>4, NewJob
  <2>6. job[d].verb = "transition" /\ job[d].pc = "read" BY DEF Where, FollowEdge
  <2> HIDE DEF j
  <2>7. past'[d] = [from |-> from, held |-> Holding(d), alone |-> TRUE]
    BY <2>4, <2>5, <2>6, PastBegins DEF Found
  <2>8. past'[d].from = from BY <2>7
  <2>9. AlongEdge(d)' BY <1>1, <2>4, <2>5, <2>8 DEF AlongEdge
  <2>10. HeldExcept(d, ToSet(job[d].left))'
    BY <2>4, <2>5, <2>8 DEF HeldExcept, EdgeTaken
  <2>11. Undisturbed(d)' BY <2>4, <2>5, <2>8 DEF Undisturbed, Found, FollowEdge
  <2> QED BY <2>4, <2>5, <2>6, <2>9, <2>10, <2>11 DEF Where
<1>2. CASE ~HasEdge(g, from, to) BY <1>2, Answered DEF FollowEdge
<1> QED BY <1>1, <1>2

LEMMA EvaluateGateKeeps ==
    ASSUME TypeOK, NEW d \in Dispatchers, Where(d), EvaluateGate(d), past'[d] = NextPast(d)
    PROVE  Where(d)'
<1> DEFINE left == job[d].left
           passes == GatePasses(job[d].g.gates[Head(left)], holds)
           j == [job[d] EXCEPT !.left = Tail(left)]
<1>1. CASE passes
  <2>1. job[d] \in Jobs /\ left \in Seq(GateNames) /\ left # <<>>
    BY DEF TypeOK, Jobs, EvaluateGate
  <2>2. Tail(left) \in Seq(GateNames) BY <2>1
  <2>3. job' = [job EXCEPT ![d] = j] BY <1>1 DEF EvaluateGate, TypeOK
  <2>4. /\ j \in Jobs /\ j.pc = "gates" /\ j.verb = job[d].verb /\ j.g = job[d].g
        /\ j.to = job[d].to /\ j.left = Tail(left)
    BY <2>1, <2>2 DEF Jobs, EvaluateGate
  <2>5. job'[d] = j
    <3> HIDE DEF j
    <3> QED BY <2>3, <2>4, NewJob
  <2> HIDE DEF j
  <2>6. /\ job[d].pc = "gates" /\ job[d].verb = "transition"
        /\ AlongEdge(d) /\ HeldExcept(d, ToSet(left)) /\ Undisturbed(d)
    BY DEF Where, EvaluateGate
  <2>7. turn' = turn /\ holds' = holds BY DEF EvaluateGate
  <2>8. /\ past'[d].from = past[d].from /\ past'[d].held = past[d].held \cup Holding(d)'
        /\ past'[d].alone = past[d].alone
    <3>1. past[d].alone \in BOOLEAN BY DEF TypeOK, Pasts
    <3> QED BY <2>4, <2>5, <2>6, <2>7, <3>1, PastGoesOn
  <2>9. EdgeTaken(d)' = EdgeTaken(d) BY <2>4, <2>5, <2>8 DEF EdgeTaken
  <2>10. AlongEdge(d)' BY <2>4, <2>5, <2>6, <2>8 DEF AlongEdge
  <2>11. Undisturbed(d)' BY <2>4, <2>5, <2>6, <2>7, <2>8 DEF Undisturbed, Found
  <2>12. ToSet(left) \subseteq ToSet(Tail(left)) \cup {Head(left)}
    <3>1. \A i \in DOMAIN left : i = 1 \/ (i - 1 \in DOMAIN Tail(left) /\ left[i] = Tail(left)[i - 1])
      BY <2>1
    <3>2. Head(left) = left[1] BY <2>1
    <3> QED BY <3>1, <3>2 DEF ToSet
  <2>13. ToSet(EdgeTaken(d).gates) \subseteq DOMAIN job[d].g.gates
    <3>1. job[d].g \in Graphs BY <2>1 DEF Jobs
    <3> QED BY <2>6, <3>1, EdgeShape DEF AlongEdge, EdgeTaken
  <2>14. Head(left) \in DOMAIN job[d].g.gates => Head(left) \in Holding(d)'
    BY <1>1, <2>4, <2>5, <2>7 DEF Holding
  <2>15. HeldExcept(d, ToSet(job[d].left))'
    <3>1. ToSet(EdgeTaken(d).gates) \ ToSet(Tail(left)) \subseteq past[d].held \cup Holding(d)'
      BY <2>6, <2>12, <2>13, <2>14 DEF HeldExcept
    <3>2. job'[d].left = Tail(left) BY <2>4, <2>5
    <3> QED BY <2>8, <2>9, <3>1, <3>2 DEF HeldExcept
  <2> QED BY <2>4, <2>5, <2>6, <2>10, <2>11, <2>15 DEF Where
<1>2. CASE ~passes BY <1>2, Answered DEF EvaluateGate
<1> QED BY <1>1, <1>2

LEMMA SetPhaseKeeps ==
    ASSUME TypeOK, NEW d \in Dispatchers, Where(d), SetPhase(d), past'[d] = NextPast(d)
    PROVE  Where(d)'
<1> DEFINE s == Moved(Found(d), job[d].to)
<1>1. job[d] \in Jobs BY DEF TypeOK
<1>2. s \in Turns
  <2>1. turn \in Turns /\ job[d].g \in Graphs /\ job[d].to \in Phases
    BY <1>1 DEF TypeOK, Jobs
  <2> QED BY <2>1, MigratedShape, MovedShape DEF Found
<1>3. WriteNext(d, s) BY DEF SetPhase, Found
<1>4. job'[d] = [job[d] EXCEPT !.pc = "write", !.s = s]
  <2> HIDE DEF s
  <2> QED BY <1>2, <1>3, WriteNextShape
<1>5. /\ job'[d].pc = "write" /\ job'[d].verb = job[d].verb /\ job'[d].g = job[d].g
      /\ job'[d].to = job[d].to /\ job'[d].s = s
  <2> HIDE DEF s
  <2> QED BY <1>1, <1>4 DEF Jobs
<1>6. /\ job[d].pc = "gates" /\ job[d].verb = "transition"
      /\ AlongEdge(d) /\ HeldExcept(d, {}) /\ Undisturbed(d)
  <2>1. ToSet(<<>>) = {} BY DEF ToSet
  <2>2. HeldExcept(d, ToSet(job[d].left)) /\ job[d].left = <<>> BY DEF Where, SetPhase
  <2>3. HeldExcept(d, {}) BY <2>1, <2>2
  <2> QED BY <2>3 DEF Where, SetPhase
<1>7. turn' = turn BY DEF SetPhase
<1>8. /\ past'[d].from = past[d].from /\ past[d].held \subseteq past'[d].held
      /\ past'[d].alone = past[d].alone
  <2>1. past[d].alone \in BOOLEAN BY DEF TypeOK, Pasts
  <2> QED BY <1>5, <1>6, <1>7, <2>1, PastGoesOn
<1>9. Found(d)' = Found(d) /\ EdgeTaken(d)' = EdgeTaken(d)
  BY <1>5, <1>7, <1>8 DEF Found, EdgeTaken
<1>10. AlongEdge(d)' /\ HeldExcept(d, {})' /\ Undisturbed(d)'
  BY <1>5, <1>6, <1>8, <1>9 DEF AlongEdge, HeldExcept, Undisturbed
<1>11. s.phase = job[d].to BY DEF Moved
<1> HIDE DEF s
<1>12. job'[d].s = Moved(Found(d)', job'[d].to) BY <1>5, <1>9 DEF s
<1>13. job'[d].s.phase = job'[d].to BY <1>5, <1>11
<1> QED BY <1>5, <1>6, <1>10, <1>12, <1>13 DEF Where

LEMMA RevertKeeps ==
    ASSUME TypeOK, NEW d \in Dispatchers, Where(d), Revert(d)
    PROVE  Where(d)'
<1> DEFINE s == Popped(Found(d))
<1>1. CASE Found(d).history = <<>> BY <1>1, Answered DEF Revert, Found
<1>2. CASE Found(d).history # <<>>
  <2>1. job[d] \in Jobs BY DEF TypeOK
  <2>2. s \in Turns
    <3>1. turn \in Turns /\ job[d].g \in Graphs BY <2>1 DEF TypeOK, Jobs
    <3> QED BY <1>2, <3>1, MigratedShape, PoppedShape DEF Found
  <2>3. WriteNext(d, s) BY <1>2 DEF Revert, Found
  <2>4. job'[d] = [job[d] EXCEPT !.pc = "write", !.s = s]
    <3> HIDE DEF s
    <3> QED BY <2>2, <2>3, WriteNextShape
  <2>5. job'[d].pc = "write" /\ job'[d].verb = job[d].verb /\ job'[d].g = job[d].g /\ job'[d].s = s
    <3> HIDE DEF s
    <3> QED BY <2>1, <2>4 DEF Jobs
  <2>6. job[d].verb = "revert" BY DEF Where, Revert
  <2>7. Found(d)' = Found(d) BY <2>5 DEF Found, Revert
  <2> QED BY <1>2, <2>5, <2>6, <2>7 DEF Where
<1> QED BY <1>1, <1>2

LEMMA PromptKeeps ==
    ASSUME TypeOK, NEW d \in Dispatchers, Where(d),
           (\E pending \in BOOLEAN : FreshPrompt(d, pending)) \/ Reset(d) \/ Touch(d)
    PROVE  Where(d)'
<1>1. CASE \E pending \in BOOLEAN : FreshPrompt(d, pending)
  <2>1. Goto(d, "reset") \/ Goto(d, "touch") BY <1>1 DEF FreshPrompt
  <2>2. job'[d].verb = job[d].verb /\ job'[d].pc \in {"reset", "touch"} BY <2>1, GotoShape
  <2>3. job[d].verb = "prompt" BY <1>1 DEF Where, FreshPrompt
  <2> QED BY <2>2, <2>3, NotMoving
<1>2. CASE Reset(d)
  <2> DEFINE s == [Migrated(turn, graph) EXCEPT !.phase = job[d].g.initial]
  <2>1. job[d] \in Jobs BY DEF TypeOK
  <2>2. s \in Turns
    <3>1. Migrated(turn, graph) \in Turns BY GraphNow, MigratedShape DEF TypeOK
    <3>2. job[d].g.initial \in Phases BY <2>1, GraphShape DEF Jobs
    <3> QED BY <3>1, <3>2 DEF Turns
  <2>3. WriteNext(d, s) BY <1>2 DEF Reset
  <2>4. job[d].verb = "prompt" BY <1>2 DEF Where, Reset
  <2> HIDE DEF s
  <2>5. job'[d].pc = "write" /\ job'[d].verb = "prompt"
    BY <2>1, <2>2, <2>3, <2>4, WriteNextShape DEF Jobs
  <2> QED BY <2>5, NotMoving
<1>3. CASE Touch(d)
  <2> DEFINE j == [job[d] EXCEPT !.pc = "write", !.verb = "touch", !.s = Migrated(turn, graph)]
  <2>1. job[d] \in Jobs BY DEF TypeOK
  <2>2. Migrated(turn, graph) \in Turns BY GraphNow, MigratedShape DEF TypeOK
  <2>3. j \in Jobs /\ j.pc = "write" /\ j.verb = "touch" BY <2>1, <2>2 DEF Jobs
  <2>4. job' = [job EXCEPT ![d] = j] BY <1>3 DEF Touch, TypeOK
  <2> HIDE DEF j
  <2>5. job'[d] = j BY <2>3, <2>4, NewJob
  <2> QED BY <2>3, <2>5, NotMoving
<1> QED BY <1>1, <1>2, <1>3

\* A dispatch that goes on after its write.
LEMMA WriteKeeps ==
    ASSUME TypeOK, NEW d \in Dispatchers, Where(d), Write(d) \/ WriteFails(d) \/ CheckTerminal(d)
    PROVE  Where(d)'
<1>1. CASE Goto(d, "terminal") /\ job[d].verb = "transition" BY <1>1, GotoShape, NotMoving
<1>2. CASE Goto(d, "touch") /\ job[d].verb = "prompt" BY <1>2, GotoShape, NotMoving
<1>3. CASE \E r \in BOOLEAN : Answer(d, r) BY <1>3, Answered
<1> QED BY <1>1, <1>2, <1>3 DEF Write, WriteFails, CheckTerminal

LEMMA IInvKept == IInv /\ [Next]_vars => IInv'
<1> SUFFICES ASSUME IInv, [Next]_vars PROVE IInv'
  OBVIOUS
<1>1. TypeOK /\ TypeOK' BY TypeKept DEF IInv
<1>2. CASE UNCHANGED vars
  BY <1>1, <1>2 DEF IInv, vars, Where, AlongEdge, HeldExcept, EdgeTaken, Undisturbed, Found
<1>3. CASE Next
  <2> SUFFICES ASSUME NEW e \in Dispatchers PROVE Where(e)'
    BY <1>1 DEF IInv
  <2>1. Where(e) /\ past'[e] = NextPast(e) BY <1>3 DEF IInv, Next
  <2>2. CASE job' = job BY <1>1, <2>1, <2>2, OthersLeave
  <2>3. ASSUME NEW d \in Dispatchers, Step(d) PROVE Where(e)'
    <3>1. CASE e = d
      BY <1>1, <2>1, <2>3, <3>1, FollowEdgeKeeps, EvaluateGateKeeps, SetPhaseKeeps, RevertKeeps,
         PromptKeeps, WriteKeeps DEF Step
    <3>2. CASE e # d
      <4>1. job'[e] = job[e] BY <1>1, <2>3, <3>2, StepTyped
      <4> QED BY <1>1, <2>1, <4>1, OthersLeave
    <3> QED BY <3>1, <3>2
  <2>4. ASSUME NEW d \in Dispatchers, NEW v \in Verbs, Start(d, v) PROVE Where(e)'
    <3>1. CASE e = d BY <1>1, <2>4, <3>1, StartKeeps
    <3>2. CASE e # d
      <4>1. job'[e] = job[e] BY <1>1, <2>4, <3>2 DEF Start, TypeOK
      <4> QED BY <1>1, <2>1, <4>1, OthersLeave
    <3> QED BY <3>1, <3>2
  <2>5. (\E doc : EditLocal(doc) \/ RefreshRepo(doc)) \/ (\E x : Flip(x)) => job' = job
    BY DEF EditLocal, RefreshRepo, Flip
  <2> QED BY <1>3, <2>2, <2>3, <2>4, <2>5 DEF Next, Act
<1> QED BY <1>2, <1>3

\* Only a write changes the state, to what its dispatch computed.
LEMMA WritesWhatItComputed ==
    ASSUME IInv, [Next]_vars, NEW d \in Dispatchers, Moves(d)
    PROVE  turn' = job[d].s
<1>1. ASSUME NEW e \in Dispatchers, Step(e) PROVE e = d
  BY <1>1, StepTyped DEF IInv, Moves
<1>2. Step(d)
  <2>1. turn' # turn BY DEF Moves
  <2>2. \E e \in Dispatchers : Step(e)
    BY <2>1 DEF Next, Act, vars, Start, EditLocal, RefreshRepo, Flip
  <2> QED BY <1>1, <2>2
<1> QED BY <1>2 DEF Moves, Step, FollowEdge, EvaluateGate, SetPhase, Revert, FreshPrompt, Reset,
       Touch, Write, WriteFails, CheckTerminal

\* set_phase_with_session_with_graph and revert_last_transition: a transition or a
\* revert that is not overtaken takes a walk of its graph to a walk of its graph.
THEOREM MovesKeepTheWalk == Spec => MovesKeepWalks
<1> DEFINE A == \A d \in Dispatchers :
                  Moves(d) /\ past[d].alone /\ IsWalk(turn, job[d].g) => IsWalk(turn', job[d].g)
<1>1. IInv /\ [Next]_vars => [A]_vars
  <2> SUFFICES ASSUME IInv, [Next]_vars, NEW d \in Dispatchers,
                      Moves(d), past[d].alone, IsWalk(turn, job[d].g)
               PROVE  IsWalk(turn', job[d].g)
    OBVIOUS
  <2>1. turn \in Turns /\ job[d].g \in Graphs BY DEF IInv, TypeOK, Jobs
  <2>2. Found(d) = turn BY <2>1, WalkEnds, MigratedShape DEF Found
  <2>3. IsWalk(job[d].s, job[d].g)
    <3>1. CASE job[d].verb = "transition"
      BY <2>1, <2>2, <3>1, WalkMoved DEF IInv, Where, AlongEdge, Undisturbed, Moves
    <3>2. CASE job[d].verb = "revert"
      BY <2>1, <2>2, <3>2, WalkPopped DEF IInv, Where, Moves
    <3> QED BY <3>1, <3>2 DEF Moves
  <2> QED BY <2>3, WritesWhatItComputed
<1>2. IInv /\ [Next]_vars => IInv' BY IInvKept
<1> QED BY <1>1, <1>2, InitIInv, PTL DEF Spec, MovesKeepWalks

\* gate_rejection before set_phase, however the evidence moves and whoever else
\* dispatches: a transition enters a phase only along an edge of its graph from the
\* phase it read, each gate of which has held since.
THEOREM EntersOnlyOnTrueGates == Spec => EntersOnTrueGates
<1> DEFINE Enters(d) ==
              LET g == job[d].g
                  from == past[d].from
              IN /\ past[d].alone => from = Migrated(turn, g).phase
                 /\ HasEdge(g, from, turn'.phase)
                 /\ ToSet(EdgeBetween(g, from, turn'.phase).gates) \subseteq past[d].held
           A == \A d \in Dispatchers : Moves(d) /\ job[d].verb = "transition" => Enters(d)
<1>1. IInv /\ [Next]_vars => [A]_vars
  <2> SUFFICES ASSUME IInv, [Next]_vars, NEW d \in Dispatchers,
                      Moves(d), job[d].verb = "transition"
               PROVE  Enters(d)
    OBVIOUS
  <2>1. /\ AlongEdge(d) /\ HeldExcept(d, {}) /\ Undisturbed(d)
        /\ job[d].s.phase = job[d].to
    BY DEF IInv, Where, Moves
  <2>2. turn'.phase = job[d].to BY <2>1, WritesWhatItComputed
  <2> QED BY <2>1, <2>2 DEF AlongEdge, HeldExcept, EdgeTaken, Undisturbed, Found
<1>2. IInv /\ [Next]_vars => IInv' BY IInvKept
<1> QED BY <1>1, <1>2, InitIInv, PTL DEF Spec, EntersOnTrueGates
=============================================================================
