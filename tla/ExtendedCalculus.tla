-------------------------- MODULE ExtendedCalculus --------------------------
(***************************************************************************)
(* The four-state fiber calculus of orchestrator/calculus.rs               *)
(* (ExtendedRegistry): activation and withdrawal each pass through a state *)
(* of their own, an activation may be diverted or raise an error, and a    *)
(* fiber keeps the view omega it committed to when it began.               *)
(*                                                                         *)
(* Names and keys are strings in the code, so a key may be spelled like a  *)
(* name: Names and Caps may overlap, and relied, which looks a fiber name  *)
(* up among committed keys, is translated as it stands.                    *)
(***************************************************************************)
EXTENDS Naturals, FiniteSets

CONSTANTS
  Names,          \* fiber names
  Caps,           \* capability keys
  Candidates,     \* the fibers O-Insert may admit
  Unsatisfiable,  \* a key no candidate provides
  Errors,         \* what a raising activation may raise
  MaxIterations,  \* bound on the iterations an activation is seeded with
  None            \* no error outcome, and the provider of a free key

Candidate == [name : Names, requires : SUBSET Caps, provides : SUBSET Caps]

CandidatesAssumption ==
  /\ Candidates \subseteq Candidate
  /\ Unsatisfiable \in Caps
  /\ \A c \in Candidates : Unsatisfiable \notin c.provides

ExtendedCalculusAssumption ==
  /\ CandidatesAssumption
  /\ None \notin Names /\ None \notin Errors
  /\ MaxIterations \in Nat

VARIABLE fibers   \* the registry: a function from the present names to fibers

\* committed and left are empty and zero wherever the code's state has no such
\* field: left counts the iterations a reloading fiber has still to run.
Fiber == [requires : SUBSET Caps, provides : SUBSET Caps,
          state : {"Inactive", "Reloading", "Active", "Unloading"},
          committed : SUBSET Caps,
          left : 0..MaxIterations,
          outcome : Errors \cup {None}]

TypeOK ==
  /\ DOMAIN fibers \subseteq Names
  /\ fibers \in [DOMAIN fibers -> Fiber]

-----------------------------------------------------------------------------
(* Readings of a registry *)

In(n, s) == fibers[n].state = s

CoeffectContext ==
  UNION {fibers[n].provides : n \in {m \in DOMAIN fibers : In(m, "Active")}}

Satisfied(n) == fibers[n].requires \subseteq CoeffectContext

Installed(n) == ~In(n, "Inactive")

\* The target view is defined and still the view the fiber committed to.
TargetStands(n) == Satisfied(n) /\ fibers[n].requires = fibers[n].committed

\* Mutant: the fiber is not left out of its own dependents.
ReliedByItself(n) ==
  \E m \in DOMAIN fibers : Installed(m) /\ (m = n \/ n \in fibers[m].committed)

\* Mutant: only an Active dependent holds its provider.
ReliedByActive(n) ==
  \E m \in DOMAIN fibers \ {n} : In(m, "Active") /\ n \in fibers[m].committed

Relied(n) ==
  \E m \in DOMAIN fibers \ {n} : Installed(m) /\ n \in fibers[m].committed

\* n may provide a key m requires; a fiber is not compared with itself.
Precedes(n, m) == n # m /\ fibers[n].provides \cap fibers[m].requires # {}

\* A finite graph has a cycle iff in some set of nodes each has a successor.
HasCycle(nodes, Edge(_, _)) ==
  \E T \in SUBSET nodes : T # {} /\ \A n \in T : \E m \in T : Edge(n, m)

\* Mutant: the edges from the new fiber to the fibers it would serve are left out.
WouldCycleUpstreamOnly(c) ==
  LET Edge(n, m) ==
        IF n = c.name THEN FALSE
        ELSE IF m = c.name THEN fibers[n].provides \cap c.requires # {}
        ELSE Precedes(n, m)
  IN HasCycle(DOMAIN fibers \cup {c.name}, Edge)

WouldCreatePrecedenceCycle(c) ==
  LET Edge(n, m) ==
        IF n = c.name THEN m # n /\ c.provides \cap fibers[m].requires # {}
        ELSE IF m = c.name THEN fibers[n].provides \cap c.requires # {}
        ELSE Precedes(n, m)
  IN HasCycle(DOMAIN fibers \cup {c.name}, Edge)

-----------------------------------------------------------------------------
(* Operator rules and the caller's retirement *)

Init == fibers = [n \in {} |-> {}]

NewFiber(c) == [requires |-> c.requires, provides |-> c.provides,
                state |-> "Inactive", committed |-> {}, left |-> 0, outcome |-> None]

\* Mutant: collisions of provisions are looked for among active fibers only.
InsertBesideInactive(c) ==
  /\ c.name \notin DOMAIN fibers
  /\ \A m \in DOMAIN fibers :
       In(m, "Active") => fibers[m].provides \cap c.provides = {}
  /\ ~WouldCreatePrecedenceCycle(c)
  /\ fibers' = [m \in DOMAIN fibers \cup {c.name} |->
                  IF m = c.name THEN NewFiber(c) ELSE fibers[m]]

Insert(c) ==
  /\ c.name \notin DOMAIN fibers
  /\ \A m \in DOMAIN fibers : fibers[m].provides \cap c.provides = {}
  /\ ~WouldCreatePrecedenceCycle(c)
  /\ fibers' = [m \in DOMAIN fibers \cup {c.name} |->
                  IF m = c.name THEN NewFiber(c) ELSE fibers[m]]

\* The registry has no retirement flag: the caller drives requires to an
\* unsatisfiable set.
Retire(n) == fibers' = [fibers EXCEPT ![n].requires = {Unsatisfiable}]

Remove(n) ==
  /\ In(n, "Inactive")
  /\ ~Relied(n)
  /\ fibers' = [m \in DOMAIN fibers \ {n} |-> fibers[m]]

-----------------------------------------------------------------------------
(* Lifecycle rules *)

Begin(n, i) ==
  /\ In(n, "Inactive") /\ fibers[n].outcome = None
  /\ Satisfied(n)
  /\ fibers' = [fibers EXCEPT ![n] =
       [@ EXCEPT !.state = "Reloading", !.left = i, !.committed = fibers[n].requires]]

Iterate(n) ==
  /\ In(n, "Reloading") /\ fibers[n].left > 0
  /\ TargetStands(n)
  /\ fibers' = [fibers EXCEPT ![n].left = @ - 1]

Finish(n) ==
  /\ In(n, "Reloading") /\ fibers[n].left = 0
  /\ TargetStands(n)
  /\ fibers' = [fibers EXCEPT ![n].state = "Active"]

\* A fiber on its way down: what it committed to stands until it is unloaded.
Withdrawing(n, err) ==
  [fibers[n] EXCEPT !.state = "Unloading", !.left = 0, !.outcome = err]

Divert(n) ==
  /\ In(n, "Reloading")
  /\ ~TargetStands(n)
  /\ fibers' = [fibers EXCEPT ![n] = Withdrawing(n, None)]

Raise(n, err) ==
  /\ In(n, "Reloading")
  /\ fibers' = [fibers EXCEPT ![n] = Withdrawing(n, err)]

Leave(n) ==
  /\ In(n, "Active")
  /\ ~TargetStands(n)
  /\ fibers' = [fibers EXCEPT ![n] = Withdrawing(n, None)]

Unload(n) ==
  /\ In(n, "Unloading")
  /\ ~Relied(n)
  /\ fibers' = [fibers EXCEPT ![n] = [@ EXCEPT !.state = "Inactive", !.committed = {}]]

Lifecycle ==
  \E n \in DOMAIN fibers :
    \/ \E i \in 0..MaxIterations : Begin(n, i)
    \/ Iterate(n) \/ Finish(n) \/ Divert(n) \/ Leave(n) \/ Unload(n)

Next ==
  \/ \E c \in Candidates : Insert(c)
  \/ \E n \in DOMAIN fibers : Retire(n)
  \/ \E n \in DOMAIN fibers : Remove(n)
  \/ \E n \in DOMAIN fibers, i \in 0..MaxIterations : Begin(n, i)
  \/ \E n \in DOMAIN fibers : Iterate(n)
  \/ \E n \in DOMAIN fibers : Finish(n)
  \/ \E n \in DOMAIN fibers : Divert(n)
  \/ \E n \in DOMAIN fibers, err \in Errors : Raise(n, err)
  \/ \E n \in DOMAIN fibers : Leave(n)
  \/ \E n \in DOMAIN fibers : Unload(n)

Spec == Init /\ [][Next]_fibers

-----------------------------------------------------------------------------
(* Properties *)

\* The naming discipline under which a committed key names its provider: a
\* fiber provides at most the key spelled like its own name.
SelfNamed == \A c \in Candidates : c.provides \subseteq {c.name}

\* Withdrawal waits for dependents (relied and unload, Definition 50): while a
\* fiber is installed, each key of the view it committed to is provided by a
\* fiber that is still installed.
CommittedViewsStand ==
  \A m \in DOMAIN fibers : Installed(m) =>
    \A k \in fibers[m].committed :
      \E n \in DOMAIN fibers : Installed(n) /\ k \in fibers[n].provides

\* A fiber in the middle of a transition is never stuck for good on a fiber
\* that is itself stuck (the hypothesis of Theorem 66, which insert enforces):
\* whenever some fiber is in transition, some lifecycle rule applies.
InTransition(n) == In(n, "Reloading") \/ In(n, "Unloading")

CanMove(n) ==
  \/ In(n, "Reloading")
  \/ In(n, "Unloading") /\ ~Relied(n)
  \/ In(n, "Active") /\ ~TargetStands(n)
  \/ In(n, "Inactive") /\ fibers[n].outcome = None /\ Satisfied(n)

NeverStuck ==
  (\E n \in DOMAIN fibers : InTransition(n)) => \E n \in DOMAIN fibers : CanMove(n)

\* Insert keeps the precedence relation acyclic through every later removal
\* and retirement (would_create_precedence_cycle).
PrecedenceAcyclic == ~HasCycle(DOMAIN fibers, Precedes)

\* An error raised by an activation is what its withdrawal ends in, and a
\* fiber that failed never runs again under the same insertion.
ErrorsStick ==
  [][\A n \in DOMAIN fibers \cap DOMAIN fibers' :
       fibers[n].outcome # None =>
         /\ fibers'[n].outcome = fibers[n].outcome
         /\ fibers'[n].state \in {"Unloading", "Inactive"}]_fibers
=============================================================================
