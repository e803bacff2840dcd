------------------------ MODULE BaseCalculus_proofs ------------------------
(***************************************************************************)
(* The theorems of orchestrator/calculus.rs's base calculus, for every set *)
(* of names, keys and candidates.                                          *)
(***************************************************************************)
EXTENDS BaseCalculus, FiniteSetTheorems, WellFoundedInduction, TLAPS

\* Every present fiber is declared as some candidate of the pool declares it.
FromPool ==
  \A n \in DOMAIN fibers :
    \E c \in Candidates : /\ c.name = n
                          /\ c.requires = fibers[n].requires
                          /\ c.provides = fibers[n].provides

\* The inductive invariant: FromPool is what ties a state to the acyclicity of
\* the pool, WellFormed is what lets one key have one provider.
IInv == TypeOK /\ WellFormed /\ FromPool

\* Retiring, reloading or unloading a fiber yields fibers of the same names and
\* declarations.
LEMMA SameDeclarations ==
  ASSUME TypeOK, NEW n \in DOMAIN fibers, Retire(n) \/ Reload(n) \/ Unload(n)
  PROVE  /\ DOMAIN fibers' = DOMAIN fibers
         /\ fibers' \in [DOMAIN fibers -> Fiber]
         /\ \A m \in DOMAIN fibers : /\ fibers'[m].requires = fibers[m].requires
                                    /\ fibers'[m].provides = fibers[m].provides
<1>1. PICK f \in Fiber : /\ fibers' = [fibers EXCEPT ![n] = f]
                         /\ f.requires = fibers[n].requires
                         /\ f.provides = fibers[n].provides
  <2>1. fibers[n] \in Fiber
    BY DEF TypeOK
  <2>2. CASE Retire(n)
    <3>1. [fibers[n] EXCEPT !.retired = TRUE] \in Fiber
      BY <2>1 DEF Fiber
    <3> QED
      BY <2>1, <2>2, <3>1 DEF Retire, Fiber
  <2>3. CASE Reload(n)
    <3>1. [fibers[n] EXCEPT !.state = "Active"] \in Fiber
      BY <2>1 DEF Fiber
    <3> QED
      BY <2>1, <2>3, <3>1 DEF Reload, Fiber
  <2>4. CASE Unload(n)
    <3>1. [fibers[n] EXCEPT !.state = "Inactive"] \in Fiber
      BY <2>1 DEF Fiber
    <3> QED
      BY <2>1, <2>4, <3>1 DEF Unload, Fiber
  <2> QED
    BY <2>2, <2>3, <2>4
<1> QED
  BY <1>1 DEF TypeOK

\* The inductive invariant holds in every reachable state.
THEOREM Inductive == Spec => []IInv
<1>1. Init => IInv
  BY DEF Init, IInv, TypeOK, WellFormed, FromPool
<1>2. IInv /\ [Next]_fibers => IInv'
  <2> SUFFICES ASSUME IInv, [Next]_fibers PROVE IInv'
    OBVIOUS
  <2>1. CASE UNCHANGED fibers
    BY <2>1 DEF IInv, TypeOK, WellFormed, FromPool
  <2>2. CASE \E c \in Candidates : Insert(c)
    <3>1. PICK c \in Candidates : Insert(c)
      BY <2>2
    <3>2. c \in Candidate /\ NewFiber(c) \in Fiber
      BY CandidatesAssumption DEF Candidate, NewFiber, Fiber
    <3>3. /\ DOMAIN fibers' = DOMAIN fibers \cup {c.name}
          /\ fibers'[c.name] = NewFiber(c)
          /\ \A m \in DOMAIN fibers : m # c.name /\ fibers'[m] = fibers[m]
      BY <3>1 DEF Insert
    <3>4. TypeOK'
      BY <3>1, <3>2, <3>3 DEF IInv, TypeOK, Candidate, Insert
    <3>5. WellFormed'
      BY <3>1, <3>3 DEF IInv, WellFormed, Insert, NewFiber
    <3>6. FromPool'
      BY <3>3 DEF IInv, FromPool, NewFiber
    <3> QED
      BY <3>4, <3>5, <3>6 DEF IInv
  <2>3. CASE \E n \in DOMAIN fibers : Remove(n)
    <3>1. PICK n \in DOMAIN fibers : Remove(n)
      BY <2>3
    <3>2. /\ DOMAIN fibers' = DOMAIN fibers \ {n}
          /\ \A m \in DOMAIN fibers' : fibers'[m] = fibers[m]
      BY <3>1 DEF Remove
    <3> QED
      BY <3>1, <3>2 DEF IInv, TypeOK, WellFormed, FromPool, Remove
  <2>4. CASE \E n \in DOMAIN fibers : Retire(n) \/ Reload(n) \/ Unload(n)
    BY <2>4, SameDeclarations DEF IInv, TypeOK, WellFormed, FromPool
  <2> QED
    BY <2>1, <2>2, <2>3, <2>4 DEF Next
<1> QED
  BY <1>1, <1>2, PTL DEF Spec

\* Type correctness of the registry.
THEOREM TypeCorrect == Spec => []TypeOK
BY Inductive, PTL DEF IInv

\* Preservation, Theorem 59 of the calculus.
THEOREM Preservation == Spec => []WellFormed
BY Inductive, PTL DEF IInv

\* Two sets of fibers that could both be the active ones at rest are equal:
\* a minimal fiber on which they differ has all its keys provided alike.
LEMMA FixedPointsAgree ==
  ASSUME AcyclicCandidates, FromPool,
         NEW S \in SUBSET DOMAIN fibers, FixedPoint(S),
         NEW R \in SUBSET DOMAIN fibers, FixedPoint(R)
  PROVE  S \subseteq R
<1> SUFFICES ASSUME S # R PROVE FALSE
  OBVIOUS
<1> DEFINE Decl(c) == /\ c.requires = fibers[c.name].requires
                      /\ c.provides = fibers[c.name].provides
           D == {n \in DOMAIN fibers : (n \in S) # (n \in R)}
           T == {c \in Candidates : c.name \in D /\ Decl(c)}
<1>1. \A n \in D : \E c \in T : c.name = n
  BY DEF FromPool
<1>2. T # {}
  BY <1>1
<1>3. PICK c \in T : \A d \in T : d.provides \cap c.requires = {}
  <2> HIDE DEF D
  <2> QED BY <1>2 DEF AcyclicCandidates
<1>4. \A m \in DOMAIN fibers :
        fibers[m].provides \cap fibers[c.name].requires # {} => (m \in S <=> m \in R)
  BY <1>1, <1>3
<1>5. fibers[c.name].requires \subseteq UNION {fibers[m].provides : m \in S}
      <=> fibers[c.name].requires \subseteq UNION {fibers[m].provides : m \in R}
  BY <1>4
<1> QED
  BY <1>3, <1>5 DEF FixedPoint

\* Confluence: over an acyclic pool of any size, the active fibers of a
\* registry at rest do not depend on the order its rules were applied in.
THEOREM Confluence ==
  ASSUME AcyclicCandidates
  PROVE  Spec => []ConfluentAtRest
<1>1. IInv => ConfluentAtRest
  <2> SUFFICES ASSUME IInv, Quiescent,
                      NEW S \in SUBSET DOMAIN fibers, FixedPoint(S)
               PROVE  S = ActiveFibers
    BY DEF ConfluentAtRest
  <2>1. ActiveFibers \in SUBSET DOMAIN fibers /\ FixedPoint(ActiveFibers)
    BY DEF ActiveFibers, FixedPoint, Quiescent, TargetActive, Satisfied, CoeffectContext
  <2>2. FromPool
    BY DEF IInv
  <2>3. S \subseteq ActiveFibers
    BY <2>1, <2>2, FixedPointsAgree
  <2>4. ActiveFibers \subseteq S
    BY <2>1, <2>2, FixedPointsAgree
  <2> QED
    BY <2>3, <2>4
<1> QED
  BY <1>1, Inductive, PTL

\* A retired fiber stays retired and stays down.
THEOREM Retirement == Spec => RetiredStaysDown
<1> DEFINE Step == \A n \in DOMAIN fibers \cap DOMAIN fibers' :
                     fibers[n].retired =>
                       /\ fibers'[n].retired
                       /\ (fibers'[n].state = "Active" => IsActive(n))
<1>1. IInv /\ [Next]_fibers => [Step]_fibers
  BY DEF IInv, TypeOK, Fiber, Next, Insert, Retire, Remove, Reload, Unload,
         TargetActive, IsActive
<1> QED
  BY <1>1, Inductive, PTL DEF Spec, RetiredStaysDown

-----------------------------------------------------------------------------
(* How the lifecycle ends *)

\* What the lifecycle leaves alone.
Settled(n) == IsActive(n) <=> TargetActive(n)

\* What a step of the lifecycle does to the fiber it moves and to the others.
Settles(n) ==
  /\ DOMAIN fibers' = DOMAIN fibers
  /\ ~Settled(n) /\ Settled(n)'
  /\ \A m \in DOMAIN fibers :
       Settled(m) /\ ~Settled(m)' => fibers[m].requires \cap fibers[n].provides # {}

LEMMA ReloadSettles ==
  ASSUME TypeOK, NEW n \in DOMAIN fibers, Reload(n)
  PROVE  Settles(n)
<1> DEFINE ctx == CoeffectContext
<1>1. /\ DOMAIN fibers' = DOMAIN fibers
      /\ \A m \in DOMAIN fibers : /\ fibers'[m].requires = fibers[m].requires
                                 /\ fibers'[m].provides = fibers[m].provides
                                 /\ fibers'[m].retired = fibers[m].retired
      /\ \A m \in DOMAIN fibers \ {n} : fibers'[m].state = fibers[m].state
      /\ fibers'[n].state = "Active"
  BY DEF Reload, TypeOK, Fiber
<1>2. \A k : k \in CoeffectContext' <=> k \in ctx \/ k \in fibers[n].provides
  <2>1. \A k : k \in CoeffectContext' <=>
               \E m \in DOMAIN fibers : k \in fibers[m].provides /\ fibers'[m].state = "Active"
    BY <1>1 DEF CoeffectContext, IsActive
  <2>2. \A k : k \in ctx <=>
               \E m \in DOMAIN fibers : k \in fibers[m].provides /\ fibers[m].state = "Active"
    BY DEF CoeffectContext, IsActive
  <2> HIDE DEF ctx
  <2>3. fibers[n].state # "Active" BY DEF Reload, IsActive
  <2> QED BY <1>1, <2>1, <2>2, <2>3
<1> HIDE DEF ctx
<1>3. ~Settled(n) BY DEF Reload, Settled
<1>4. Settled(n)'
  <2>1. ~fibers[n].retired /\ fibers[n].requires \subseteq ctx
    BY DEF Reload, TargetActive, Satisfied, ctx
  <2>2. ~fibers'[n].retired /\ fibers'[n].requires \subseteq CoeffectContext'
    BY <1>1, <1>2, <2>1
  <2> QED BY <1>1, <2>2 DEF Settled, TargetActive, Satisfied, IsActive
<1>5. ASSUME NEW m \in DOMAIN fibers, Settled(m), ~Settled(m)',
             fibers[m].requires \cap fibers[n].provides = {}
      PROVE  FALSE
  <2>1. m # n BY <1>3, <1>5
  <2>2. IsActive(m)' <=> IsActive(m) BY <1>1, <2>1 DEF IsActive
  <2>3. fibers'[m].requires \subseteq CoeffectContext' <=> fibers[m].requires \subseteq ctx
    BY <1>1, <1>2, <1>5
  <2>4. TargetActive(m)' <=> TargetActive(m)
    BY <1>1, <2>3 DEF TargetActive, Satisfied, ctx
  <2> QED BY <1>5, <2>2, <2>4 DEF Settled
<1> QED BY <1>1, <1>3, <1>4, <1>5 DEF Settles

LEMMA UnloadSettles ==
  ASSUME TypeOK, NEW n \in DOMAIN fibers, Unload(n)
  PROVE  Settles(n)
<1> DEFINE ctx == CoeffectContext
<1>1. /\ DOMAIN fibers' = DOMAIN fibers
      /\ \A m \in DOMAIN fibers : /\ fibers'[m].requires = fibers[m].requires
                                 /\ fibers'[m].provides = fibers[m].provides
                                 /\ fibers'[m].retired = fibers[m].retired
      /\ \A m \in DOMAIN fibers \ {n} : fibers'[m].state = fibers[m].state
      /\ fibers'[n].state = "Inactive" /\ fibers[n].state = "Active"
  BY DEF Unload, TypeOK, Fiber, IsActive
<1>2. /\ \A k : k \in CoeffectContext' => k \in ctx
      /\ \A k : k \in ctx /\ k \notin fibers[n].provides => k \in CoeffectContext'
  <2>1. \A k : k \in CoeffectContext' <=>
               \E m \in DOMAIN fibers : k \in fibers[m].provides /\ fibers'[m].state = "Active"
    BY <1>1 DEF CoeffectContext, IsActive
  <2>2. \A k : k \in ctx <=>
               \E m \in DOMAIN fibers : k \in fibers[m].provides /\ fibers[m].state = "Active"
    BY DEF CoeffectContext, IsActive
  <2> HIDE DEF ctx
  <2> QED BY <1>1, <2>1, <2>2
<1> HIDE DEF ctx
<1>3. fibers[n].retired \/ ~(fibers[n].requires \subseteq ctx)
  BY DEF Unload, Satisfied, ctx
<1>4. ~Settled(n) BY <1>3 DEF Unload, Settled, TargetActive, Satisfied, ctx
<1>5. Settled(n)'
  <2>1. fibers'[n].retired \/ ~(fibers'[n].requires \subseteq CoeffectContext')
    BY <1>1, <1>2, <1>3
  <2> QED BY <1>1, <2>1 DEF Settled, TargetActive, Satisfied, IsActive
<1>6. ASSUME NEW m \in DOMAIN fibers, Settled(m), ~Settled(m)',
             fibers[m].requires \cap fibers[n].provides = {}
      PROVE  FALSE
  <2>1. m # n BY <1>4, <1>6
  <2>2. IsActive(m)' <=> IsActive(m) BY <1>1, <2>1 DEF IsActive
  <2>3. fibers'[m].requires \subseteq CoeffectContext' <=> fibers[m].requires \subseteq ctx
    BY <1>1, <1>2, <1>6
  <2>4. TargetActive(m)' <=> TargetActive(m)
    BY <1>1, <2>3 DEF TargetActive, Satisfied, ctx
  <2> QED BY <1>6, <2>2, <2>4 DEF Settled
<1> QED BY <1>1, <1>4, <1>5, <1>6 DEF Settles

LEMMA StepSettles ==
  ASSUME IInv, Lifecycle PROVE \E n \in DOMAIN fibers : Settles(n)
  BY ReloadSettles, UnloadSettles DEF IInv, Lifecycle

\* The declarations of the fibers that the lifecycle still has to move.
Unsettled ==
  {c \in Candidates : /\ c.name \in DOMAIN fibers /\ ~Settled(c.name)
                      /\ fibers[c.name].requires = c.requires
                      /\ fibers[c.name].provides = c.provides}

\* One less, and more only of those that require what that one provides.
Descent ==
  {ss \in (SUBSET Candidates) \X (SUBSET Candidates) :
     \E c \in ss[2] \ ss[1] : \A d \in ss[1] \ ss[2] : d.requires \cap c.provides # {}}

LEMMA StepDescends ==
  ASSUME IInv, Lifecycle PROVE <<Unsettled', Unsettled>> \in Descent
<1>1. PICK n \in DOMAIN fibers : Settles(n) BY StepSettles
<1>2. PICK c \in Candidates : /\ c.name = n /\ c.requires = fibers[n].requires
                              /\ c.provides = fibers[n].provides
  BY DEF IInv, FromPool
<1>3. /\ DOMAIN fibers' = DOMAIN fibers
      /\ \A m \in DOMAIN fibers : /\ fibers'[m].requires = fibers[m].requires
                                 /\ fibers'[m].provides = fibers[m].provides
  BY SameDeclarations DEF IInv, Lifecycle
<1>4. c \in Unsettled /\ c \notin Unsettled'
  BY <1>1, <1>2 DEF Settles, Unsettled
<1>5. ASSUME NEW d \in Unsettled', d \notin Unsettled PROVE d.requires \cap c.provides # {}
  <2>1. /\ d \in Candidates /\ d.name \in DOMAIN fibers /\ ~Settled(d.name)'
        /\ d.requires = fibers[d.name].requires /\ d.provides = fibers[d.name].provides
    BY <1>3, <1>5 DEF Unsettled
  <2>2. Settled(d.name) BY <1>5, <2>1 DEF Unsettled
  <2> QED BY <1>1, <1>2, <2>1, <2>2 DEF Settles
<1>6. Unsettled \in SUBSET Candidates /\ Unsettled' \in SUBSET Candidates BY DEF Unsettled
<1> QED BY <1>4, <1>5, <1>6 DEF Descent

\* Finitely many things that each stop happening have all stopped from some moment on.
LEMMA AllStop ==
  ASSUME NEW C, IsFiniteSet(C), NEW s \in [Nat -> C], NEW I \in SUBSET C,
         \A c \in C \ I : \E i \in Nat : \A j \in Nat : j >= i => s[j] # c
  PROVE  \E i \in Nat : \A j \in Nat : j >= i => s[j] \in I
<1> DEFINE Stops(D) == \E i \in Nat : \A j \in Nat : j >= i => s[j] \notin D
           R == StrictSubsetOrdering(C)
           B == {D \in SUBSET C : D \cap I = {} /\ ~Stops(D)}
<1>1. SUFFICES B = {}
  <2>1. C \ I \in SUBSET C /\ (C \ I) \cap I = {} OBVIOUS
  <2>2. Stops(C \ I) BY <1>1, <2>1
  <2>3. PICK i \in Nat : \A j \in Nat : j >= i => s[j] \notin C \ I BY <2>2
  <2>4. \A j \in Nat : s[j] \in C OBVIOUS
  <2> QED BY <2>3, <2>4
<1>2. SUFFICES ASSUME B # {} PROVE FALSE OBVIOUS
<1>3. IsWellFoundedOn(R, SUBSET C)
  <2>1. IsWellFoundedOn(R, FiniteSubsetsOf(C)) BY FS_StrictSubsetOrderingWellFounded
  <2>2. FiniteSubsetsOf(C) = SUBSET C BY FS_FiniteSubsetsOfFinite
  <2> QED BY <2>1, <2>2
<1>4. R = {ss \in (SUBSET C) \X (SUBSET C) : ss[1] \subseteq ss[2] /\ ss[1] # ss[2]}
  BY DEF StrictSubsetOrdering
<1>5. B \subseteq SUBSET C OBVIOUS
<1>6. \A D : D \in B <=> D \in SUBSET C /\ D \cap I = {} /\ ~Stops(D) OBVIOUS
<1> HIDE DEF R, B
<1>7. PICK D \in B : \A E \in B : ~(<<E, D>> \in R) BY <1>2, <1>3, <1>5, WFMin
<1>8. D \in SUBSET C /\ D \cap I = {} /\ ~Stops(D) BY <1>6, <1>7
<1>9. D # {} BY <1>8
<1>10. PICK c \in D : TRUE BY <1>9
<1>11. PICK E : E = D \ {c} OBVIOUS
<1>12. E \in SUBSET C /\ E \cap I = {} /\ <<E, D>> \in R BY <1>4, <1>8, <1>10, <1>11
<1>13. Stops(E) BY <1>6, <1>7, <1>12
<1>14. PICK i \in Nat : \A j \in Nat : j >= i => s[j] \notin E BY <1>13
<1>15. c \in C \ I BY <1>8, <1>10
<1>16. PICK k \in Nat : \A j \in Nat : j >= k => s[j] # c BY <1>15
<1>17. PICK m \in Nat : m >= i /\ m >= k
  <2>1. i >= k \/ k >= i BY <1>14, <1>16
  <2> QED BY <1>14, <1>16, <2>1
<1>18. \A j \in Nat : j >= m => s[j] \notin D BY <1>11, <1>14, <1>16, <1>17
<1> QED BY <1>8, <1>17, <1>18

\* What holds at first and not later ends in between.
LEMMA LastBefore ==
  ASSUME NEW P \in [Nat -> BOOLEAN], NEW a \in Nat, NEW b \in Nat, a < b, ~P[a], P[b]
  PROVE  \E i \in Nat : a <= i /\ i < b /\ ~P[i] /\ P[i + 1]
<1> DEFINE T == {i \in Nat : a < i /\ i <= b /\ P[i]}
           R == OpToRel(<, Nat)
<1>1. T \subseteq Nat /\ b \in T OBVIOUS
<1>2. R = {ss \in Nat \X Nat : ss[1] < ss[2]} BY DEF OpToRel
<1>3. IsWellFoundedOn(R, Nat) BY NatLessThanWellFounded
<1>4. \A i : i \in T <=> i \in Nat /\ a < i /\ i <= b /\ P[i] OBVIOUS
<1> HIDE DEF R, T
<1>5. PICK m \in T : \A i \in T : ~(<<i, m>> \in R) BY <1>1, <1>3, WFMin
<1>6. m \in Nat /\ a < m /\ m <= b /\ P[m] BY <1>4, <1>5
<1>7. m - 1 \in Nat /\ a <= m - 1 /\ m - 1 < b /\ (m - 1) + 1 = m BY <1>6
<1>8. ~P[m - 1]
  <2>1. CASE m - 1 = a BY <2>1
  <2>2. CASE m - 1 # a
    <3>1. a < m - 1 /\ m - 1 <= b BY <1>7, <2>2
    <3>2. <<m - 1, m>> \in R BY <1>2, <1>6, <1>7
    <3>3. m - 1 \notin T
      <4> SUFFICES ASSUME m - 1 \in T PROVE FALSE OBVIOUS
      <4> QED BY <1>5, <3>2
    <3> QED BY <1>4, <1>7, <3>1, <3>3
  <2> QED BY <2>1, <2>2
<1> QED BY <1>6, <1>7, <1>8

\* In an acyclic pool no descent goes on for ever: among what moves again and again one
\* requires nothing of the others, so that nothing disturbs it once the rest has stopped.
LEMMA NoEndlessDescent ==
  ASSUME AcyclicCandidates, IsFiniteSet(Candidates)
  PROVE  IsWellFoundedOn(Descent, SUBSET Candidates)
<1> SUFFICES ASSUME NEW f \in [Nat -> SUBSET Candidates],
                    \A i \in Nat : <<f[i + 1], f[i]>> \in Descent
             PROVE  FALSE
  BY DEF IsWellFoundedOn
<1>1. \A i \in Nat : \E c \in Candidates :
        /\ c \in f[i] /\ c \notin f[i + 1]
        /\ \A d \in f[i + 1] \ f[i] : d.requires \cap c.provides # {}
  BY DEF Descent
<1>2. PICK s : s = [i \in Nat |-> CHOOSE c \in Candidates :
                      /\ c \in f[i] /\ c \notin f[i + 1]
                      /\ \A d \in f[i + 1] \ f[i] : d.requires \cap c.provides # {}]
  OBVIOUS
<1>3. /\ s \in [Nat -> Candidates]
      /\ \A i \in Nat : /\ s[i] \in f[i] /\ s[i] \notin f[i + 1]
                        /\ \A d \in f[i + 1] \ f[i] : d.requires \cap s[i].provides # {}
  BY <1>1, <1>2
<1>4. PICK I : I = {c \in Candidates : \A i \in Nat : \E j \in Nat : j >= i /\ s[j] = c}
  OBVIOUS
<1>5. I \in SUBSET Candidates BY <1>4
<1>6. \A c \in Candidates \ I : \E i \in Nat : \A j \in Nat : j >= i => s[j] # c BY <1>4
<1>7. PICK b \in Nat : \A j \in Nat : j >= b => s[j] \in I BY <1>3, <1>5, <1>6, AllStop
<1>8. I # {} BY <1>7
<1>9. PICK c \in I : \A d \in I : d.provides \cap c.requires = {}
  BY <1>5, <1>8 DEF AcyclicCandidates
<1>10. \A i \in Nat : \E j \in Nat : j >= i /\ s[j] = c BY <1>4, <1>9
<1>11. PICK m \in Nat : m >= b /\ s[m] = c BY <1>10
<1>12. m + 1 \in Nat BY <1>11
<1>13. PICK n \in Nat : n >= m + 1 /\ s[n] = c BY <1>10, <1>12
<1>14. PICK P : P = [i \in Nat |-> c \in f[i]] OBVIOUS
<1>15. P \in [Nat -> BOOLEAN] BY <1>14
<1>16. ~P[m + 1] /\ P[n]
  <2>1. \A j \in Nat : P[j] <=> c \in f[j] BY <1>14, Zenon
  <2>2. c \notin f[m + 1] /\ c \in f[n] BY <1>3, <1>11, <1>13
  <2> QED BY <1>12, <2>1, <2>2
<1>17. m + 1 < n
  <2>1. m + 1 # n BY <1>16
  <2> QED BY <1>11, <1>13, <2>1
<1>18. PICK i \in Nat : m + 1 <= i /\ i < n /\ ~P[i] /\ P[i + 1]
  BY <1>12, <1>13, <1>15, <1>16, <1>17, LastBefore
<1>19. i >= b BY <1>7, <1>11, <1>18
<1>20. s[i] \in I BY <1>7, <1>18, <1>19
<1>21. i + 1 \in Nat BY <1>18
<1>22. c \in f[i + 1] \ f[i] BY <1>14, <1>18, <1>21
<1>23. c.requires \cap s[i].provides # {} BY <1>3, <1>18, <1>22
<1> QED BY <1>9, <1>20, <1>23

\* A reload or an unload brings the fiber it moves into agreement with its target and
\* disturbs none but those that require what it provides; over an acyclic pool that cannot
\* go on for ever.  So lifecycle steps alone, in whatever order, come to an end.
THEOREM LifecycleDescends ==
  ASSUME AcyclicCandidates, IsFiniteSet(Candidates)
  PROVE  /\ IsWellFoundedOn(Descent, SUBSET Candidates)
         /\ Spec => [][Lifecycle => <<Unsettled', Unsettled>> \in Descent]_fibers
<1>1. IInv /\ [Next]_fibers => [Lifecycle => <<Unsettled', Unsettled>> \in Descent]_fibers
  BY StepDescends
<1>2. Spec => [][Lifecycle => <<Unsettled', Unsettled>> \in Descent]_fibers
  BY <1>1, Inductive, PTL DEF Spec
<1> QED
  BY <1>2, NoEndlessDescent

-----------------------------------------------------------------------------
(* The registry implements the key table *)

\* A key has at most one active provider.
LEMMA OneProvider ==
  ASSUME WellFormed, NEW k, NEW n \in Providers(k)
  PROVE  Providers(k) = {n}
BY DEF WellFormed, Providers

\* The owner of no providers is None and the owner of one provider is it.
LEMMA OwnerOf == Owner({}) = None /\ \A m : Owner({m}) = m
BY DEF Owner

\* The table names a key's active provider, if there is one.
LEMMA TableReads ==
  ASSUME IInv, NEW k \in Caps, NEW n \in Names
  PROVE  provider[k] = n <=> n \in Providers(k)
<1>1. CASE Providers(k) = {}
  BY <1>1, OwnerOf, NoneAssumption DEF provider
<1>2. CASE Providers(k) # {}
  <2>1. PICK m : m \in Providers(k)
    BY <1>2
  <2>2. Providers(k) = {m}
    BY <2>1, OneProvider DEF IInv
  <2>3. provider[k] = m
    BY <2>2, OwnerOf DEF provider
  <2> QED
    BY <2>2, <2>3
<1> QED
  BY <1>1, <1>2

\* A step that leaves the active fibers and their provisions alone leaves the
\* table alone.
LEMMA SameTable ==
  ASSUME \A k \in Caps : Providers(k)' = Providers(k)
  PROVE  provider' = provider
BY DEF provider

\* A reload grants all of a fiber's keys, and all of them were free.
LEMMA ReloadGrants ==
  ASSUME IInv, NEW n \in DOMAIN fibers, Reload(n)
  PROVE  Table!Grant(n, fibers[n].provides)
<1>1. n \in Names
  BY DEF IInv, TypeOK
<1>2. \A k \in Caps : Providers(k)' = IF k \in fibers[n].provides
                                        THEN Providers(k) \cup {n} ELSE Providers(k)
  BY SameDeclarations DEF IInv, TypeOK, Fiber, Reload, Providers, IsActive
<1>3. \A k \in Caps : n \notin Providers(k)
  BY DEF Reload, Providers
<1>4. \A k \in fibers[n].provides : k \in Caps /\ Providers(k) = {}
  BY <1>3 DEF IInv, TypeOK, Fiber, WellFormed, Providers
<1>5. Table!Held(n) = {}
  BY <1>1, <1>3, TableReads DEF Table!Held
<1>6. \A k \in fibers[n].provides : provider[k] = None
  BY <1>4, OwnerOf DEF provider
<1>7. provider' = [k \in Caps |-> IF k \in fibers[n].provides THEN n ELSE provider[k]]
  <2>1. \A k \in Caps : k \in fibers[n].provides => Providers(k)' = {n}
    BY <1>2, <1>4
  <2>2. \A k \in Caps : k \notin fibers[n].provides => Providers(k)' = Providers(k)
    BY <1>2
  <2> QED
    BY <2>1, <2>2, OwnerOf DEF provider
<1> QED
  BY <1>5, <1>6, <1>7 DEF Table!Grant

\* An unload withdraws all of a fiber's keys and no other.
LEMMA UnloadWithdraws ==
  ASSUME IInv, NEW n \in DOMAIN fibers, Unload(n)
  PROVE  Table!Withdraw(n)
<1>1. n \in Names
  BY DEF IInv, TypeOK
<1>2. \A k \in Caps : Providers(k)' = Providers(k) \ {n}
  BY SameDeclarations DEF IInv, TypeOK, Fiber, Unload, Providers, IsActive
<1>3. \A k \in Caps : provider[k] = n => Providers(k)' = {}
  BY <1>1, <1>2, TableReads, OneProvider DEF IInv
<1>4. \A k \in Caps : provider[k] # n => Providers(k)' = Providers(k)
  BY <1>1, <1>2, TableReads
<1>5. \A k \in Caps : provider'[k] = IF provider[k] = n THEN None ELSE provider[k]
  BY <1>3, <1>4, OwnerOf DEF provider
<1>6. provider' = [k \in Caps |-> provider'[k]]
  BY DEF provider
<1> QED
  BY <1>5, <1>6 DEF Table!Withdraw

\* Every step of the registry is a step of the key table or leaves it alone.
LEMMA StepRefines == IInv /\ [Next]_fibers => [Table!Next]_provider
<1> SUFFICES ASSUME IInv, [Next]_fibers PROVE [Table!Next]_provider
  OBVIOUS
<1>1. CASE UNCHANGED fibers
  BY <1>1 DEF provider, Providers, IsActive
<1>2. ASSUME NEW c \in Candidates, Insert(c) PROVE UNCHANGED provider
  <2>1. \A k \in Caps : Providers(k)' = Providers(k)
    BY <1>2 DEF Insert, NewFiber, Providers, IsActive
  <2> QED
    BY <2>1, SameTable
<1>3. ASSUME NEW n \in DOMAIN fibers, Retire(n) PROVE UNCHANGED provider
  <2>1. \A k \in Caps : Providers(k)' = Providers(k)
    BY <1>3 DEF IInv, TypeOK, Fiber, Retire, Providers, IsActive
  <2> QED
    BY <2>1, SameTable
<1>4. ASSUME NEW n \in DOMAIN fibers, Remove(n) PROVE UNCHANGED provider
  <2>1. \A k \in Caps : Providers(k)' = Providers(k)
    BY <1>4 DEF Remove, Providers, IsActive
  <2> QED
    BY <2>1, SameTable
<1>5. ASSUME NEW n \in DOMAIN fibers, Reload(n) PROVE Table!Next
  BY <1>5, ReloadGrants DEF IInv, TypeOK, Fiber, Table!Next
<1>6. ASSUME NEW n \in DOMAIN fibers, Unload(n) PROVE Table!Next
  BY <1>6, UnloadWithdraws DEF IInv, TypeOK, Table!Next
<1> QED
  BY <1>1, <1>2, <1>3, <1>4, <1>5, <1>6 DEF Next

\* The active fibers' provisions are a key table: keys are granted together,
\* only when free, and withdrawn together.
THEOREM KeyTableRefinement == Spec => ImplementsKeyTable
<1>1. Init => Table!Init
  BY OwnerOf DEF Init, Table!Init, provider, Providers
<1>2. IInv /\ [Next]_fibers => [Table!Next]_provider
  BY StepRefines
<1> QED
  BY <1>1, <1>2, Inductive, PTL DEF Spec, ImplementsKeyTable, Table!Spec

-----------------------------------------------------------------------------
(* Effects with an inverse *)

\* Whatever two effects do, undoing them in the order of a stack recovers the state they
\* started from, if each obeys its law where it was applied (revert_lifo_pair).
THEOREM LifoRecovers ==
    ASSUME NEW e1, NEW e2, NEW s0, LeftInv(e1, s0), LeftInv(e2, e1.fwd[s0])
    PROVE  RevertLifo(e1, e2, s0) = s0
BY DEF RevertLifo, LeftInv

\* Undoing the first one first recovers it as well, if undoing it under the other leaves
\* the other alone: the laws and commutation are not enough for that (revert_nonlifo_pair).
THEOREM NonlifoRecovers ==
    ASSUME NEW e1, NEW e2, NEW s0, LeftInv(e2, s0), Commute(e1, e2, s0),
           e1.inv[s0][e1.fwd[e2.fwd[s0]]] = e2.fwd[s0]
    PROVE  RevertNonlifo(e1, e2, s0) = s0
BY DEF RevertNonlifo, LeftInv, Commute

\* The effects of the demo recover in both orders whatever they do and whether they commute
\* or not, because each inverse alone puts everything back: of its checks the one of
\* commutation is the only one that can fail on such a pair (demo_revert_arbitrary_order).
THEOREM DemoChecksCommutationOnly ==
    ASSUME NEW Gamma, NEW e1 \in Effects(Gamma), NEW e2 \in Effects(Gamma), NEW s0 \in Gamma,
           Restoring(e1, Gamma), Restoring(e2, Gamma)
    PROVE  DemoPasses(e1, e2, s0) <=> Commute(e1, e2, s0)
<1>1. /\ e1.fwd[s0] \in Gamma
      /\ \A s, t \in Gamma : e1.inv[s][t] = s /\ e2.inv[s][t] = s
  BY DEF Effects, Restoring
<1>2. \A s \in Gamma : e1.fwd[s] \in Gamma /\ e2.fwd[s] \in Gamma
  BY DEF Effects
<1>3. LeftInv(e1, s0) /\ LeftInv(e2, e1.fwd[s0])
  BY <1>1, <1>2 DEF LeftInv
<1>4. RevertLifo(e1, e2, s0) = s0
  BY <1>3, LifoRecovers
<1>5. RevertNonlifo(e1, e2, s0) = s0
  BY <1>1, <1>2 DEF RevertNonlifo
<1> QED
  BY <1>3, <1>4, <1>5 DEF DemoPasses
=============================================================================
