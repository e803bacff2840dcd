---------------------------- MODULE BaseCalculus ----------------------------
(***************************************************************************)
(* The two-state fiber calculus of orchestrator/calculus.rs: a Registry of *)
(* named fibers, each of which requires and provides capability keys, and  *)
(* the five rules O-Insert, O-Retire, O-Remove, L-Reload and L-Unload.     *)
(*                                                                         *)
(* The rules are functions Registry -> Option<Registry>; a refused rule    *)
(* (None) is a disabled action.  Operators (insert, retire, remove) are    *)
(* called by whoever edits the registry, in any order, and the two         *)
(* lifecycle rules follow the target view.  Candidates is the pool         *)
(* O-Insert draws from, the insert_candidates of verify_calculus.          *)
(***************************************************************************)
EXTENDS FiniteSets

CONSTANTS
  Names,        \* fiber names
  Caps,         \* capability keys
  Candidates,   \* the fibers O-Insert may admit
  None          \* the provider of a key nobody provides

Candidate == [name : Names, requires : SUBSET Caps, provides : SUBSET Caps]

ASSUME CandidatesAssumption == Candidates \subseteq Candidate

ASSUME NoneAssumption == None \notin Names

VARIABLE fibers   \* the registry: a function from the present names to fibers

Fiber == [requires : SUBSET Caps, provides : SUBSET Caps,
          state : {"Inactive", "Active"}, retired : BOOLEAN]

TypeOK ==
  /\ DOMAIN fibers \subseteq Names
  /\ fibers \in [DOMAIN fibers -> Fiber]

-----------------------------------------------------------------------------
(* Readings of a registry *)

IsActive(n) == fibers[n].state = "Active"

\* Mutant: provisions of inactive fibers count as well.
CoeffectContextOfAll == UNION {fibers[n].provides : n \in DOMAIN fibers}

CoeffectContext ==
  UNION {fibers[n].provides : n \in {m \in DOMAIN fibers : IsActive(m)}}

Satisfied(n) == fibers[n].requires \subseteq CoeffectContext

TargetActive(n) == ~fibers[n].retired /\ Satisfied(n)

\* No fiber's lifecycle state disagrees with what its target demands.
Quiescent == \A n \in DOMAIN fibers : IsActive(n) <=> TargetActive(n)

-----------------------------------------------------------------------------
(* The rules *)

Init == fibers = [n \in {} |-> {}]

NewFiber(c) == [requires |-> c.requires, provides |-> c.provides,
                state |-> "Inactive", retired |-> FALSE]

\* Mutant: the provisions are compared with the active fibers' only.
InsertBesideInactive(c) ==
  /\ c.name \notin DOMAIN fibers
  /\ \A m \in DOMAIN fibers : IsActive(m) => fibers[m].provides \cap c.provides = {}
  /\ fibers' = [m \in DOMAIN fibers \cup {c.name} |->
                  IF m = c.name THEN NewFiber(c) ELSE fibers[m]]

Insert(c) ==
  /\ c.name \notin DOMAIN fibers
  /\ \A m \in DOMAIN fibers : fibers[m].provides \cap c.provides = {}
  /\ fibers' = [m \in DOMAIN fibers \cup {c.name} |->
                  IF m = c.name THEN NewFiber(c) ELSE fibers[m]]

Retire(n) == fibers' = [fibers EXCEPT ![n].retired = TRUE]

Remove(n) ==
  /\ fibers[n].retired
  /\ ~IsActive(n)
  /\ fibers' = [m \in DOMAIN fibers \ {n} |-> fibers[m]]

Reload(n) ==
  /\ ~IsActive(n)
  /\ TargetActive(n)
  /\ fibers' = [fibers EXCEPT ![n].state = "Active"]

\* Mutant: a fiber is unloaded whatever its target says.
UnloadOnTarget(n) ==
  /\ IsActive(n)
  /\ fibers' = [fibers EXCEPT ![n].state = "Inactive"]

Unload(n) ==
  /\ IsActive(n)
  /\ fibers[n].retired \/ ~Satisfied(n)
  /\ fibers' = [fibers EXCEPT ![n].state = "Inactive"]

Lifecycle == \E n \in DOMAIN fibers : Reload(n) \/ Unload(n)

Next ==
  \/ \E c \in Candidates : Insert(c)
  \/ \E n \in DOMAIN fibers : Retire(n)
  \/ \E n \in DOMAIN fibers : Remove(n)
  \/ \E n \in DOMAIN fibers : Reload(n)
  \/ \E n \in DOMAIN fibers : Unload(n)

Spec == Init /\ [][Next]_fibers

-----------------------------------------------------------------------------
(* Properties *)

\* Preservation (Theorem 59, well_formed): no two fibers, active or not,
\* provide a common key.
WellFormed ==
  \A m, n \in DOMAIN fibers :
    m # n => fibers[m].provides \cap fibers[n].provides = {}

\* The precedence of Definition 65 has no cycle over the pool, self-edges
\* included: every set of candidates has one that requires nothing the set
\* provides.
AcyclicCandidates ==
  \A T \in SUBSET Candidates :
    T # {} => \E c \in T : \A d \in T : d.provides \cap c.requires = {}

ActiveFibers == {n \in DOMAIN fibers : IsActive(n)}

\* S is a set of fibers that could be exactly the active ones at rest.
FixedPoint(S) ==
  \A n \in DOMAIN fibers :
    n \in S <=> /\ ~fibers[n].retired
               /\ fibers[n].requires \subseteq UNION {fibers[m].provides : m \in S}

\* Confluence: over an acyclic pool a registry at rest has one possible set
\* of active fibers, whatever the order in which its rules were applied.
ConfluentAtRest ==
  Quiescent => \A S \in SUBSET DOMAIN fibers : FixedPoint(S) => S = ActiveFibers

\* A retired fiber never comes back up and never loses its retirement flag;
\* it can only go down and be removed.
RetiredStaysDown ==
  [][\A n \in DOMAIN fibers \cap DOMAIN fibers' :
       fibers[n].retired => /\ fibers'[n].retired
                            /\ (fibers'[n].state = "Active" => IsActive(n))]_fibers

\* Once operators leave an acyclic registry alone, reloads and unloads cannot
\* chase one another for ever: from some point on nothing moves.
LifecycleTerminates ==
  <>[][Lifecycle]_fibers => <>[][FALSE]_fibers

\* The active fibers' provisions are a key table: the registry never hands a
\* key over in one step, and never activates half of a fiber's keys.
Providers(k) == {n \in DOMAIN fibers : IsActive(n) /\ k \in fibers[n].provides}

Owner(S) == IF S = {} THEN None ELSE CHOOSE n \in S : TRUE

provider == [k \in Caps |-> Owner(Providers(k))]

Table == INSTANCE KeyTable

ImplementsKeyTable == Table!Spec

-----------------------------------------------------------------------------
(* Effects with an inverse: RevertibleEffect and the checks of Definition  *)
(* 17 and Corollary 21 that calculus-model-check runs beside its           *)
(* exploration.  An effect on the states of a set Gamma is [fwd, inv]: inv *)
(* takes the state before the effect and the one it is undone in.          *)

\* RevertibleEffect and its law at a state (assert_left_inv).
Effects(Gamma) == [fwd : [Gamma -> Gamma], inv : [Gamma -> [Gamma -> Gamma]]]

LeftInv(e, s) == e.inv[s][e.fwd[s]] = s

Commute(e1, e2, s) == e1.fwd[e2.fwd[s]] = e2.fwd[e1.fwd[s]]

\* What e1 then e2 lead to from s0, and from there back in the order of a stack.
RevertLifo(e1, e2, s0) ==
    LET mid == e1.fwd[s0]
    IN e1.inv[s0][e2.inv[mid][e2.fwd[mid]]]

\* Back with e1 first, in the state e2 still stands in.  Both inverses are given s0.
RevertNonlifo(e1, e2, s0) ==
    LET mid == e1.fwd[s0]
    IN e2.inv[s0][e1.inv[s0][e2.fwd[mid]]]

\* The verdict of demo_revert_arbitrary_order on two effects and a state.
DemoPasses(e1, e2, s0) ==
    /\ LeftInv(e1, s0) /\ LeftInv(e2, e1.fwd[s0])
    /\ Commute(e1, e2, s0)
    /\ RevertLifo(e1, e2, s0) = s0
    /\ RevertNonlifo(e1, e2, s0) = s0

\* An effect whose inverse puts the whole former state back, as those of the demo do.
Restoring(e, Gamma) == \A s, t \in Gamma : e.inv[s][t] = s
=============================================================================
