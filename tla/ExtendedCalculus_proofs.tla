---------------------- MODULE ExtendedCalculus_proofs ----------------------
(***************************************************************************)
(* Theorems of the extended calculus for every set of names, keys and      *)
(* candidates: type correctness, the permanence of errors, an acyclic      *)
(* precedence and, under the naming discipline SelfNamed, that withdrawal  *)
(* waits for dependents and nobody for ever.                               *)
(***************************************************************************)
EXTENDS Calculi, Naturals, TLAPS

\* The steps that only change one present fiber.
Step(n) ==
  \/ ext!Retire(n) \/ ext!Iterate(n) \/ ext!Finish(n) \/ ext!Divert(n) \/ ext!Leave(n) \/ ext!Unload(n)
  \/ \E i \in 0..MaxIterations : ext!Begin(n, i)
  \/ \E err \in Errors : ext!Raise(n, err)

\* An error outcome is only carried by a fiber on its way down or down.
OutcomeOnlyDown ==
  \A n \in DOMAIN loading :
    loading[n].outcome # None => loading[n].state \in {"Unloading", "Inactive"}

\* Such a step replaces one fiber by another with the same provisions; it
\* installs a fiber only by committing it to keys that active fibers provide,
\* changes no other commitment, takes a fiber out only when nobody relies on
\* it, and keeps an error.
LEMMA StepEdits ==
  ASSUME ext!ExtendedCalculusAssumption,
         ext!TypeOK, OutcomeOnlyDown, NEW n \in DOMAIN loading, Step(n)
  PROVE  \E f \in ext!Fiber :
           /\ loading' = [loading EXCEPT ![n] = f]
           /\ f.provides = loading[n].provides
           /\ f.state # "Inactive" =>
                \/ f.committed = loading[n].committed /\ ext!Installed(n)
                \/ f.committed \subseteq ext!CoeffectContext
           /\ f.state = "Inactive" => ~ext!Installed(n) \/ ~ext!Relied(n)
           /\ loading[n].outcome # None => f.outcome = loading[n].outcome
           /\ f.outcome # None => f.state \in {"Unloading", "Inactive"}
<1> USE DEF ext!Installed, ext!In
<1>1. /\ loading[n] \in ext!Fiber
      /\ loading[n].outcome # None => loading[n].state \in {"Unloading", "Inactive"}
  BY DEF ext!TypeOK, OutcomeOnlyDown
<1>2. CASE ext!Retire(n)
  <2> DEFINE f == [loading[n] EXCEPT !.requires = {Unsatisfiable}]
  <2>1. f \in ext!Fiber
    BY <1>1 DEF ext!ExtendedCalculusAssumption, ext!CandidatesAssumption, ext!Fiber
  <2> QED BY <1>1, <1>2, <2>1 DEF ext!Retire, ext!Fiber
<1>3. CASE ext!Iterate(n)
  <2> DEFINE f == [loading[n] EXCEPT !.left = loading[n].left - 1]
  <2>1. f \in ext!Fiber
    BY <1>1, <1>3 DEF ext!ExtendedCalculusAssumption, ext!Iterate, ext!Fiber
  <2> QED BY <1>1, <1>3, <2>1 DEF ext!Iterate, ext!Fiber
<1>4. CASE ext!Finish(n)
  <2> DEFINE f == [loading[n] EXCEPT !.state = "Active"]
  <2>1. f \in ext!Fiber
    BY <1>1 DEF ext!Fiber
  <2> QED BY <1>1, <1>4, <2>1 DEF ext!Finish, ext!Fiber
<1>5. ASSUME NEW err \in Errors \cup {None}
      PROVE  ext!Withdrawing(n, err) \in ext!Fiber
  <2>1. 0 \in 0..MaxIterations
    BY DEF ext!ExtendedCalculusAssumption
  <2>2. loading[n] \in ext!Fiber
    BY <1>1
  <2> DEFINE g == [loading[n] EXCEPT !.state = "Unloading"]
             h == [g EXCEPT !.left = 0]
  <2>3. g \in ext!Fiber
    BY <2>2 DEF ext!Fiber
  <2>4. h \in ext!Fiber
    <3> HIDE DEF g
    <3> QED BY <2>1, <2>3 DEF ext!Fiber
  <2>5. [h EXCEPT !.outcome = err] \in ext!Fiber
    <3> HIDE DEF h
    <3> QED BY <2>4 DEF ext!Fiber
  <2> QED
    BY <2>5 DEF ext!Withdrawing
<1>6. CASE ext!Divert(n) \/ ext!Leave(n)
  <2> DEFINE f == ext!Withdrawing(n, None)
  <2>1. f \in ext!Fiber
    BY <1>5
  <2> QED BY <1>1, <1>6, <2>1 DEF ext!Divert, ext!Leave, ext!Withdrawing, ext!Fiber
<1>7. CASE \E err \in Errors : ext!Raise(n, err)
  <2>1. PICK err \in Errors : ext!Raise(n, err)
    BY <1>7
  <2> DEFINE f == ext!Withdrawing(n, err)
  <2>2. f \in ext!Fiber
    BY <1>5
  <2> QED BY <1>1, <2>1, <2>2 DEF ext!Raise, ext!Withdrawing, ext!Fiber
<1>8. CASE ext!Unload(n)
  <2> DEFINE f == [loading[n] EXCEPT !.state = "Inactive", !.committed = {}]
  <2>1. f \in ext!Fiber
    BY <1>1 DEF ext!Fiber
  <2> QED BY <1>1, <1>8, <2>1 DEF ext!Unload, ext!Fiber
<1>9. CASE \E i \in 0..MaxIterations : ext!Begin(n, i)
  <2>1. PICK i \in 0..MaxIterations : ext!Begin(n, i)
    BY <1>9
  <2> DEFINE f == [loading[n] EXCEPT !.state = "Reloading", !.left = i,
                                    !.committed = loading[n].requires]
  <2>2. f \in ext!Fiber
    BY <1>1 DEF ext!Fiber
  <2> QED BY <1>1, <2>1, <2>2 DEF ext!Begin, ext!Satisfied, ext!Fiber
<1> QED
  BY <1>2, <1>3, <1>4, <1>6, <1>7, <1>8, <1>9 DEF Step

\* What an insertion and a removal do to the registry.
LEMMA InsertEffect ==
  ASSUME ext!ExtendedCalculusAssumption, NEW c \in ExtendedCandidates, ext!Insert(c)
  PROVE  /\ c \in ext!Candidate
         /\ ext!NewFiber(c) \in ext!Fiber
         /\ c.name \notin DOMAIN loading
         /\ DOMAIN loading' = DOMAIN loading \cup {c.name}
         /\ loading'[c.name] = ext!NewFiber(c)
         /\ \A m \in DOMAIN loading : loading'[m] = loading[m]
BY DEF ext!ExtendedCalculusAssumption, ext!CandidatesAssumption, ext!Candidate, ext!Insert,
       ext!NewFiber, ext!Fiber

\* The inserted fiber is down, holds nothing and has not failed.
LEMMA InsertIsFresh ==
  ASSUME ext!ExtendedCalculusAssumption, NEW c \in ExtendedCandidates, ext!Insert(c)
  PROVE  /\ DOMAIN loading' = DOMAIN loading \cup {c.name}
         /\ \A m \in DOMAIN loading : loading'[m] = loading[m]
         /\ loading'[c.name].state = "Inactive"
         /\ loading'[c.name].outcome = None
         /\ loading'[c.name].provides = c.provides
<1>1. /\ ext!NewFiber(c).state = "Inactive"
      /\ ext!NewFiber(c).outcome = None
      /\ ext!NewFiber(c).provides = c.provides
  BY DEF ext!NewFiber
<1> QED
  BY <1>1, InsertEffect

LEMMA RemoveEffect ==
  ASSUME NEW n \in DOMAIN loading, ext!Remove(n)
  PROVE  /\ ~ext!Installed(n)
         /\ DOMAIN loading' = DOMAIN loading \ {n}
         /\ \A m \in DOMAIN loading \ {n} : loading'[m] = loading[m]
BY DEF ext!Remove, ext!Installed

LEMMA NextCases ==
  ASSUME ext!Next
  PROVE  \/ \E c \in ExtendedCandidates : ext!Insert(c)
         \/ \E n \in DOMAIN loading : ext!Remove(n)
         \/ \E n \in DOMAIN loading : Step(n)
BY DEF ext!Next, Step

-----------------------------------------------------------------------------
(* Types and errors *)

\* The registry of the extended calculus goes by its own rules, whichever is at work.
LEMMA Extended == CalculiSpec => ext!Spec
<1>1. CalculiInit => ext!Init
  BY DEF CalculiInit
<1>2. [CalculiNext]_all => [ext!Next]_loading
  BY DEF CalculiNext, all
<1> QED
  BY <1>1, <1>2, PTL DEF CalculiSpec, ext!Spec


IInv == ext!TypeOK /\ OutcomeOnlyDown

LEMMA InsertKeepsType ==
  ASSUME ext!ExtendedCalculusAssumption, ext!TypeOK, NEW c \in ExtendedCandidates, ext!Insert(c)
  PROVE  ext!TypeOK'
<1>1. c.name \in ExtendedNames
  BY InsertEffect DEF ext!Candidate
<1>2. \A m \in DOMAIN loading' : loading'[m] \in ext!Fiber
  BY InsertEffect DEF ext!TypeOK
<1>3. loading' = [m \in DOMAIN loading' |-> loading'[m]]
  BY DEF ext!Insert
<1> QED
  BY <1>1, <1>2, <1>3, InsertEffect DEF ext!TypeOK

\* The inductive invariant holds in every reachable state.
THEOREM Inductive ==
  ASSUME ext!ExtendedCalculusAssumption
  PROVE  CalculiSpec => []IInv
<1>1. ext!Init => IInv
  BY DEF ext!Init, IInv, ext!TypeOK, OutcomeOnlyDown
<1>2. IInv /\ [ext!Next]_loading => IInv'
  <2> SUFFICES ASSUME IInv, [ext!Next]_loading PROVE IInv'
    OBVIOUS
  <2>1. CASE UNCHANGED loading
    BY <2>1 DEF IInv, ext!TypeOK, OutcomeOnlyDown
  <2>2. CASE \E c \in ExtendedCandidates : ext!Insert(c)
    <3>1. PICK c \in ExtendedCandidates : ext!Insert(c)
      BY <2>2
    <3>2. ext!TypeOK'
      BY <3>1, InsertKeepsType DEF IInv
    <3>3. OutcomeOnlyDown'
      BY <3>1, InsertIsFresh DEF IInv, OutcomeOnlyDown
    <3> QED
      BY <3>2, <3>3 DEF IInv
  <2>3. CASE \E n \in DOMAIN loading : ext!Remove(n)
    <3>1. PICK n \in DOMAIN loading : ext!Remove(n)
      BY <2>3
    <3> QED
      BY <3>1, RemoveEffect DEF IInv, ext!TypeOK, OutcomeOnlyDown, ext!Remove
  <2>4. CASE \E n \in DOMAIN loading : Step(n)
    BY <2>4, StepEdits DEF IInv, ext!TypeOK, OutcomeOnlyDown
  <2> QED
    BY <2>1, <2>2, <2>3, <2>4, NextCases
<1> QED
  BY <1>1, <1>2, Extended, PTL DEF ext!Spec

\* Type correctness of the extended registry.
THEOREM TypeCorrect ==
  ASSUME ext!ExtendedCalculusAssumption
  PROVE  CalculiSpec => []ext!TypeOK
BY Inductive, PTL DEF IInv

\* A raised error is what the withdrawal ends in, and a failed fiber stays down.
THEOREM ErrorsArePermanent ==
  ASSUME ext!ExtendedCalculusAssumption
  PROVE  CalculiSpec => ext!ErrorsStick
<1> DEFINE Sticks == \A n \in DOMAIN loading \cap DOMAIN loading' :
                       loading[n].outcome # None =>
                         /\ loading'[n].outcome = loading[n].outcome
                         /\ loading'[n].state \in {"Unloading", "Inactive"}
<1>1. IInv /\ [ext!Next]_loading => [Sticks]_loading
  <2> SUFFICES ASSUME IInv, ext!Next PROVE Sticks
    OBVIOUS
  <2>1. CASE \E c \in ExtendedCandidates : ext!Insert(c)
    BY <2>1, InsertEffect DEF IInv, OutcomeOnlyDown
  <2>2. CASE \E n \in DOMAIN loading : ext!Remove(n)
    BY <2>2, RemoveEffect DEF IInv, OutcomeOnlyDown
  <2>3. CASE \E n \in DOMAIN loading : Step(n)
    BY <2>3, StepEdits DEF IInv, OutcomeOnlyDown, ext!TypeOK
  <2> QED
    BY <2>1, <2>2, <2>3, NextCases
<1> QED
  BY <1>1, Inductive, Extended, PTL DEF ext!Spec, ext!ErrorsStick

-----------------------------------------------------------------------------
(* Withdrawal waits for dependents *)

\* The naming discipline, read in a state.
ProvidesOwnName == \A n \in DOMAIN loading : loading[n].provides \subseteq {n}

WithdrawalInv == IInv /\ ProvidesOwnName /\ ext!CommittedViewsStand

\* A key of the coeffect context is provided by an installed fiber.
LEMMA ContextInstalled ==
  ASSUME NEW k \in ext!CoeffectContext
  PROVE  \E p \in DOMAIN loading : ext!Installed(p) /\ k \in loading[p].provides
BY DEF ext!CoeffectContext, ext!Installed, ext!In

\* The heart of the argument: a fiber that is unloaded is named by no other
\* committed view, so the provider of every committed key is some other fiber.
LEMMA StepKeepsViews ==
  ASSUME ext!ExtendedCalculusAssumption, WithdrawalInv, NEW n \in DOMAIN loading, Step(n)
  PROVE  ext!CommittedViewsStand'
<1> USE DEF ext!Installed, ext!In
<1>1. PICK f \in ext!Fiber :
        /\ loading' = [loading EXCEPT ![n] = f]
        /\ f.provides = loading[n].provides
        /\ f.state # "Inactive" =>
             \/ f.committed = loading[n].committed /\ ext!Installed(n)
             \/ f.committed \subseteq ext!CoeffectContext
        /\ f.state = "Inactive" => ~ext!Installed(n) \/ ~ext!Relied(n)
  BY StepEdits DEF WithdrawalInv, IInv
<1>2. DOMAIN loading' = DOMAIN loading
  BY <1>1
<1> SUFFICES ASSUME NEW m \in DOMAIN loading, ext!Installed(m)', NEW k \in loading'[m].committed
             PROVE  \E p \in DOMAIN loading : ext!Installed(p)' /\ k \in loading'[p].provides
  BY <1>2 DEF ext!CommittedViewsStand
<1>3. \E p \in DOMAIN loading : ext!Installed(p) /\ k \in loading[p].provides
  BY <1>1, ContextInstalled DEF WithdrawalInv, ext!CommittedViewsStand
<1>4. PICK p \in DOMAIN loading : ext!Installed(p) /\ k \in loading[p].provides
  BY <1>3
<1>5. CASE p # n \/ f.state # "Inactive"
  BY <1>1, <1>4, <1>5
<1>6. CASE p = n /\ f.state = "Inactive"
  <2>1. k = n
    BY <1>4, <1>6 DEF WithdrawalInv, ProvidesOwnName
  <2>2. m # n
    BY <1>1, <1>6
  <2>3. ext!Relied(n)
    BY <1>1, <2>1, <2>2 DEF ext!Relied
  <2> QED
    BY <1>1, <1>4, <1>6, <2>3
<1> QED
  BY <1>5, <1>6

LEMMA WithdrawalInvHolds ==
  ASSUME ext!ExtendedCalculusAssumption, ext!SelfNamed
  PROVE  CalculiSpec => []WithdrawalInv
<1>1. ext!Init => WithdrawalInv
  BY DEF ext!Init, WithdrawalInv, IInv, ext!TypeOK, OutcomeOnlyDown, ProvidesOwnName,
         ext!CommittedViewsStand
<1>2. WithdrawalInv /\ IInv' /\ [ext!Next]_loading => WithdrawalInv'
  <2> SUFFICES ASSUME WithdrawalInv, IInv', [ext!Next]_loading
               PROVE  ProvidesOwnName' /\ ext!CommittedViewsStand'
    BY DEF WithdrawalInv
  <2>1. CASE UNCHANGED loading
    BY <2>1 DEF WithdrawalInv, ProvidesOwnName, ext!CommittedViewsStand, ext!Installed, ext!In
  <2>2. CASE \E c \in ExtendedCandidates : ext!Insert(c)
    <3>1. PICK c \in ExtendedCandidates : ext!Insert(c)
      BY <2>2
    <3>2. ProvidesOwnName'
      <4>1. c.provides \subseteq {c.name}
        BY ext!SelfNamed DEF ext!SelfNamed
      <4>2. \A m \in DOMAIN loading : loading[m].provides \subseteq {m}
        BY DEF WithdrawalInv, ProvidesOwnName
      <4>3. ASSUME NEW m \in DOMAIN loading' PROVE loading'[m].provides \subseteq {m}
        <5>1. CASE m = c.name
          BY <3>1, <4>1, <5>1, InsertIsFresh
        <5>2. CASE m \in DOMAIN loading
          <6>1. loading'[m] = loading[m]
            BY <3>1, <5>2, InsertIsFresh
          <6> QED
            BY <4>2, <5>2, <6>1
        <5> QED
          BY <3>1, <5>1, <5>2, InsertIsFresh
      <4> QED
        BY <4>3 DEF ProvidesOwnName
    <3>3. ext!CommittedViewsStand'
      <4> SUFFICES ASSUME NEW m \in DOMAIN loading', ext!Installed(m)', NEW k \in loading'[m].committed
                   PROVE  \E p \in DOMAIN loading' : ext!Installed(p)' /\ k \in loading'[p].provides
        BY DEF ext!CommittedViewsStand
      <4>1. m \in DOMAIN loading /\ loading'[m] = loading[m]
        BY <3>1, InsertIsFresh DEF ext!Installed, ext!In
      <4>2. PICK p \in DOMAIN loading : ext!Installed(p) /\ k \in loading[p].provides
        BY <4>1 DEF WithdrawalInv, ext!CommittedViewsStand, ext!Installed, ext!In
      <4> QED
        BY <3>1, <4>2, InsertIsFresh DEF ext!Installed, ext!In
    <3> QED
      BY <3>2, <3>3
  <2>3. CASE \E n \in DOMAIN loading : ext!Remove(n)
    BY <2>3, RemoveEffect
    DEF WithdrawalInv, ProvidesOwnName, ext!CommittedViewsStand, ext!Installed, ext!In
  <2>4. CASE \E n \in DOMAIN loading : Step(n)
    <3>1. ProvidesOwnName'
      BY <2>4, StepEdits DEF WithdrawalInv, IInv, ProvidesOwnName
    <3> QED
      BY <2>4, <3>1, StepKeepsViews
  <2> QED
    BY <2>1, <2>2, <2>3, <2>4, NextCases
<1> QED
  BY <1>1, <1>2, Inductive, Extended, PTL DEF ext!Spec

\* When keys are spelled like the fibers that provide them, no fiber is taken
\* out while another still runs, or winds down, on a key it provides.
THEOREM WithdrawalWaits ==
  ASSUME ext!ExtendedCalculusAssumption, ext!SelfNamed
  PROVE  CalculiSpec => []CommittedViewsStand
<1>1. WithdrawalInv => CommittedViewsStand
  BY DEF WithdrawalInv, CommittedViewsStand
<1> QED
  BY <1>1, WithdrawalInvHolds, PTL

-----------------------------------------------------------------------------
(* Nobody waits on everybody *)

\* A step installs a fiber that was down, or leaves what it committed to.
LEMMA StepCommits ==
  ASSUME ext!TypeOK, NEW n \in DOMAIN loading, Step(n)
  PROVE  /\ DOMAIN loading' = DOMAIN loading
         /\ \A m \in DOMAIN loading \ {n} : loading'[m] = loading[m]
         /\ ext!Installed(n) /\ ext!Installed(n)' => loading'[n].committed = loading[n].committed
         /\ loading'[n].provides = loading[n].provides
         /\ loading'[n].requires \in {loading[n].requires, {Unsatisfiable}}
<1> USE DEF ext!Installed, ext!In
<1>1. loading[n] \in ext!Fiber
  BY DEF ext!TypeOK
<1>2. CASE ext!Retire(n)
  BY <1>1, <1>2 DEF ext!Retire, ext!Fiber
<1>3. CASE ext!Iterate(n) \/ ext!Finish(n)
  BY <1>1, <1>3 DEF ext!Iterate, ext!Finish, ext!Fiber
<1>4. CASE ext!Divert(n) \/ ext!Leave(n) \/ \E err \in Errors : ext!Raise(n, err)
  <2>1. PICK err : loading' = [loading EXCEPT ![n] = ext!Withdrawing(n, err)]
    BY <1>4 DEF ext!Divert, ext!Leave, ext!Raise
  <2>2. /\ ext!Withdrawing(n, err).committed = loading[n].committed
        /\ ext!Withdrawing(n, err).provides = loading[n].provides
        /\ ext!Withdrawing(n, err).requires = loading[n].requires
    BY <1>1 DEF ext!Withdrawing, ext!Fiber
  <2> QED
    BY <2>1, <2>2
<1>5. CASE ext!Unload(n)
  BY <1>1, <1>5 DEF ext!Unload, ext!Fiber
<1>6. CASE \E i \in 0..MaxIterations : ext!Begin(n, i)
  BY <1>1, <1>6 DEF ext!Begin, ext!Fiber
<1> QED
  BY <1>2, <1>3, <1>4, <1>5, <1>6 DEF Step

\* m is installed on a view that names n, and n waits for it.
Holds(m, n) == m # n /\ ext!Installed(m) /\ n \in loading[m].committed

\* Fibers of which each waits for another one of them.
WaitsInside(T) == T # {} /\ \A n \in T : \E m \in T : Holds(m, n)

NobodyWaitsOnAll == \A T \in SUBSET DOMAIN loading : ~WaitsInside(T)

WaitInv == WithdrawalInv /\ NobodyWaitsOnAll

\* Nobody is held who is not installed himself, so a fiber that begins, or is inserted,
\* comes last.
LEMMA HeldIsInstalled ==
  ASSUME WithdrawalInv, NEW m \in DOMAIN loading, NEW n, Holds(m, n)
  PROVE  n \in DOMAIN loading /\ ext!Installed(n)
BY DEF WithdrawalInv, ext!CommittedViewsStand, ProvidesOwnName, Holds

LEMMA WaitInvHolds ==
  ASSUME ext!ExtendedCalculusAssumption, ext!SelfNamed
  PROVE  CalculiSpec => []WaitInv
<1>1. ext!Init => NobodyWaitsOnAll
  BY DEF ext!Init, NobodyWaitsOnAll, WaitsInside
<1>2. WithdrawalInv /\ NobodyWaitsOnAll /\ [ext!Next]_loading => NobodyWaitsOnAll'
  <2> SUFFICES ASSUME WithdrawalInv, NobodyWaitsOnAll, [ext!Next]_loading,
                      NEW T \in SUBSET DOMAIN loading', WaitsInside(T)'
               PROVE  FALSE
    BY DEF NobodyWaitsOnAll
  <2>0. T # {} /\ \A n \in T : \E m \in T : Holds(m, n)'
    BY DEF WaitsInside
  <2>1. CASE UNCHANGED loading
    BY <2>0, <2>1 DEF NobodyWaitsOnAll, WaitsInside, Holds, ext!Installed, ext!In
  <2>2. CASE \E c \in ExtendedCandidates : ext!Insert(c)
    <3>1. PICK c \in ExtendedCandidates : ext!Insert(c)
      BY <2>2
    <3>2. /\ DOMAIN loading' = DOMAIN loading \cup {c.name}
          /\ \A m \in DOMAIN loading : loading'[m] = loading[m]
          /\ loading'[c.name].state = "Inactive" /\ c.name \notin DOMAIN loading
      BY <3>1, InsertIsFresh, InsertEffect
    <3>3. ASSUME NEW m \in T, NEW n \in T, Holds(m, n)'
          PROVE  m \in DOMAIN loading /\ n \in DOMAIN loading /\ Holds(m, n)
      <4>1. m # c.name
        BY <3>2, <3>3 DEF Holds, ext!Installed, ext!In
      <4>2. m \in DOMAIN loading /\ Holds(m, n)
        BY <3>2, <3>3, <4>1 DEF Holds, ext!Installed, ext!In
      <4> QED
        BY <4>2, HeldIsInstalled
    <3>4. T \in SUBSET DOMAIN loading
      BY <2>0, <3>3
    <3> QED
      BY <2>0, <3>3, <3>4 DEF NobodyWaitsOnAll, WaitsInside
  <2>3. CASE \E n \in DOMAIN loading : ext!Remove(n)
    <3>1. PICK r \in DOMAIN loading : ext!Remove(r)
      BY <2>3
    <3>2. /\ DOMAIN loading' = DOMAIN loading \ {r}
          /\ \A m \in DOMAIN loading \ {r} : loading'[m] = loading[m]
      BY <3>1, RemoveEffect
    <3>3. \A m, n \in T : Holds(m, n)' => Holds(m, n)
      BY <3>2 DEF Holds, ext!Installed, ext!In
    <3> QED
      BY <2>0, <3>2, <3>3 DEF NobodyWaitsOnAll, WaitsInside
  <2>4. CASE \E n \in DOMAIN loading : Step(n)
    <3>1. PICK s \in DOMAIN loading : Step(s)
      BY <2>4
    <3>2. /\ DOMAIN loading' = DOMAIN loading
          /\ \A m \in DOMAIN loading \ {s} : loading'[m] = loading[m]
          /\ ext!Installed(s) /\ ext!Installed(s)' => loading'[s].committed = loading[s].committed
      BY <3>1, StepCommits DEF WithdrawalInv, IInv
    <3>3. CASE ext!Installed(s)
      <4>1. \A m, n \in T : Holds(m, n)' => Holds(m, n)
        BY <3>2, <3>3 DEF Holds, ext!Installed, ext!In
      <4> QED
        BY <2>0, <3>2, <4>1 DEF NobodyWaitsOnAll, WaitsInside
    <3>4. CASE ~ext!Installed(s)
      <4>1. \A m \in T \ {s}, n \in T : Holds(m, n)' => Holds(m, n)
        BY <3>2 DEF Holds, ext!Installed, ext!In
      <4>2. \A m \in T : ~Holds(m, s)
        BY <3>2, <3>4, HeldIsInstalled
      <4>3. s \notin T
        <5> SUFFICES ASSUME s \in T PROVE FALSE
          OBVIOUS
        <5>1. PICK m \in T : Holds(m, s)'
          BY <2>0
        <5>2. m # s
          BY <5>1 DEF Holds
        <5> QED
          BY <4>1, <4>2, <5>1, <5>2
      <4> QED
        BY <2>0, <3>2, <4>1, <4>3 DEF NobodyWaitsOnAll, WaitsInside
    <3> QED
      BY <3>3, <3>4
  <2> QED
    BY <2>1, <2>2, <2>3, <2>4, NextCases
<1> QED
  BY <1>1, <1>2, WithdrawalInvHolds, Extended, PTL DEF ext!Spec, WaitInv

\* A fiber in transition is never stuck for good: the unload guards release in the reverse
\* of the order in which the fibers committed to their views, whatever was retired since.
THEOREM SomebodyMoves ==
  ASSUME ext!ExtendedCalculusAssumption, ext!SelfNamed
  PROVE  CalculiSpec => []NeverStuck
<1>1. WaitInv => NeverStuck
  <2> SUFFICES ASSUME WaitInv, NEW t \in DOMAIN loading, ext!InTransition(t),
                      \A n \in DOMAIN loading : ~ext!CanMove(n)
               PROVE  FALSE
    BY DEF NeverStuck, ext!NeverStuck
  <2> DEFINE U == {n \in DOMAIN loading : ext!In(n, "Unloading")}
  <2>1. t \in U
    BY DEF ext!InTransition, ext!CanMove
  <2>2. ASSUME NEW n \in U PROVE \E m \in U : Holds(m, n)
    <3>1. PICK m \in DOMAIN loading \ {n} : ext!Installed(m) /\ n \in loading[m].committed
      BY DEF ext!CanMove, ext!Relied
    <3>2. loading[m].state \in {"Inactive", "Reloading", "Active", "Unloading"}
      BY DEF WaitInv, WithdrawalInv, IInv, ext!TypeOK, ext!Fiber
    <3>3. ~ext!In(m, "Inactive") /\ ~ext!In(m, "Reloading")
      BY <3>1 DEF ext!Installed, ext!CanMove
    <3>4. ~ext!In(m, "Active")
      <4> SUFFICES ASSUME ext!In(m, "Active") PROVE FALSE
        OBVIOUS
      <4>1. n \in ext!CoeffectContext
        BY <3>1 DEF ext!CanMove, ext!TargetStands, ext!Satisfied
      <4>2. PICK p \in DOMAIN loading : ext!In(p, "Active") /\ n \in loading[p].provides
        BY <4>1 DEF ext!CoeffectContext
      <4>3. p = n
        BY <4>2 DEF WaitInv, WithdrawalInv, ProvidesOwnName
      <4> QED
        BY <4>2, <4>3 DEF ext!In
    <3> QED
      BY <3>1, <3>2, <3>3, <3>4 DEF Holds, ext!In
  <2>3. U \in SUBSET DOMAIN loading
    OBVIOUS
  <2> QED
    BY <2>1, <2>2, <2>3 DEF WaitInv, NobodyWaitsOnAll, WaitsInside
<1> QED
  BY <1>1, WaitInvHolds, PTL

-----------------------------------------------------------------------------
(* Precedence *)

AcyclicInv ==
  /\ \A n \in DOMAIN loading : Unsatisfiable \notin loading[n].provides
  /\ ext!PrecedenceAcyclic

\* What insert refuses is all it takes: a retirement only removes edges, since nobody
\* provides the key it asks for.  The declared relation keeps no cycle for any candidates.
THEOREM PrecedenceStaysAcyclic ==
  ASSUME ext!ExtendedCalculusAssumption
  PROVE  CalculiSpec => []PrecedenceAcyclic
<1>1. ext!Init => AcyclicInv
  BY DEF ext!Init, AcyclicInv, ext!PrecedenceAcyclic, ext!HasCycle
<1>2. IInv /\ AcyclicInv /\ [ext!Next]_loading => AcyclicInv'
  <2> SUFFICES ASSUME IInv, AcyclicInv, [ext!Next]_loading PROVE AcyclicInv'
    OBVIOUS
  <2>0. /\ \A n \in DOMAIN loading : Unsatisfiable \notin loading[n].provides
        /\ \A T \in SUBSET DOMAIN loading :
             T # {} => \E n \in T : \A m \in T : ~ext!Precedes(n, m)
    BY DEF AcyclicInv, ext!PrecedenceAcyclic, ext!HasCycle
  <2>1. ASSUME \A n \in DOMAIN loading' : Unsatisfiable \notin loading'[n].provides,
               \A T \in SUBSET DOMAIN loading' :
                 T # {} => \E n \in T : \A m \in T : ~ext!Precedes(n, m)'
        PROVE  AcyclicInv'
    BY <2>1 DEF AcyclicInv, ext!PrecedenceAcyclic, ext!HasCycle
  <2>2. CASE UNCHANGED loading
    BY <2>0, <2>1, <2>2 DEF ext!Precedes
  <2>3. CASE \E c \in ExtendedCandidates : ext!Insert(c)
    <3>1. PICK c \in ExtendedCandidates : ext!Insert(c)
      BY <2>3
    <3>2. /\ DOMAIN loading' = DOMAIN loading \cup {c.name}
          /\ \A m \in DOMAIN loading : loading'[m] = loading[m]
          /\ c.name \notin DOMAIN loading
          /\ loading'[c.name].provides = c.provides /\ loading'[c.name].requires = c.requires
      <4>1. ext!NewFiber(c).provides = c.provides /\ ext!NewFiber(c).requires = c.requires
        BY DEF ext!NewFiber
      <4> QED
        BY <3>1, <4>1, InsertEffect
    <3>3. \A n \in DOMAIN loading' : Unsatisfiable \notin loading'[n].provides
      BY <2>0, <3>2 DEF ext!ExtendedCalculusAssumption, ext!CandidatesAssumption
    <3>4. ASSUME NEW T \in SUBSET DOMAIN loading', T # {}
          PROVE  \E n \in T : \A m \in T : ~ext!Precedes(n, m)'
      <4>1. ~ext!WouldCreatePrecedenceCycle(c)
        BY <3>1 DEF ext!Insert
      <4>2. PICK n \in T : \A m \in T :
              ~(IF n = c.name THEN m # n /\ c.provides \cap loading[m].requires # {}
                ELSE IF m = c.name THEN loading[n].provides \cap c.requires # {}
                ELSE ext!Precedes(n, m))
        BY <3>2, <3>4, <4>1 DEF ext!WouldCreatePrecedenceCycle, ext!HasCycle
      <4>3. ASSUME NEW m \in T PROVE ~ext!Precedes(n, m)'
        BY <3>2, <4>2 DEF ext!Precedes
      <4> QED
        BY <4>3
    <3> QED
      BY <2>1, <3>3, <3>4
  <2>4. CASE \E n \in DOMAIN loading : ext!Remove(n)
    <3>1. PICK r \in DOMAIN loading : ext!Remove(r)
      BY <2>4
    <3>2. /\ DOMAIN loading' = DOMAIN loading \ {r}
          /\ \A m \in DOMAIN loading \ {r} : loading'[m] = loading[m]
      BY <3>1, RemoveEffect
    <3>3. \A n \in DOMAIN loading' : Unsatisfiable \notin loading'[n].provides
      BY <2>0, <3>2
    <3>4. \A n, m \in DOMAIN loading' : ext!Precedes(n, m)' => ext!Precedes(n, m)
      BY <3>2 DEF ext!Precedes
    <3> QED
      BY <2>0, <2>1, <3>2, <3>3, <3>4
  <2>5. CASE \E n \in DOMAIN loading : Step(n)
    <3>1. PICK s \in DOMAIN loading : Step(s)
      BY <2>5
    <3>2. /\ DOMAIN loading' = DOMAIN loading
          /\ \A m \in DOMAIN loading \ {s} : loading'[m] = loading[m]
          /\ loading'[s].provides = loading[s].provides
          /\ loading'[s].requires \in {loading[s].requires, {Unsatisfiable}}
      BY <3>1, StepCommits DEF IInv
    <3>3. \A n \in DOMAIN loading : loading'[n].provides = loading[n].provides
      BY <3>2
    <3>4. \A m \in DOMAIN loading : loading'[m].requires \in {loading[m].requires, {Unsatisfiable}}
      BY <3>2
    <3>5. \A n, m \in DOMAIN loading : ext!Precedes(n, m)' => ext!Precedes(n, m)
      BY <2>0, <3>3, <3>4 DEF ext!Precedes
    <3> QED
      BY <2>0, <2>1, <3>2, <3>3, <3>5
  <2> QED
    BY <2>2, <2>3, <2>4, <2>5, NextCases
<1>3. AcyclicInv => PrecedenceAcyclic
  BY DEF AcyclicInv, PrecedenceAcyclic
<1> QED
  BY <1>1, <1>2, <1>3, Inductive, Extended, PTL DEF ext!Spec
=============================================================================
