---------------------------- MODULE Disciplines ----------------------------
(***************************************************************************)
(* Disciplines as fibers, orchestrator/discipline_note.rs: enabled.txt     *)
(* says which are eligible, each has a persisted lifecycle, and            *)
(* active_policies (once per instruction dispatch) advances every known    *)
(* one against a snapshot of the others.  discipline-check-removal takes   *)
(* one out of enabled.txt, and people edit that file by hand.              *)
(*                                                                         *)
(* A dispatch and a removal are each several file reads and writes, so     *)
(* they are several steps here, interleaved with one another and with hand *)
(* edits.                                                                  *)
(***************************************************************************)
EXTENDS FiniteSets

CONSTANTS
  Names,      \* disciplines with a directory under .gm/disciplines
  Default,    \* the one that is always eligible and not in enabled.txt
  Caps,       \* capability keys
  Realms,     \* isolation realms
  Requires,   \* requires.json "requires" of each discipline
  Provides,   \* its "provides", or its own name
  Realm,      \* its "realm"
  Isolation,  \* its "isolation": a function from some keys to realms
  Removers,   \* discipline-check-removal dispatches
  Plans       \* what a behaviour starts with and may edit and remove (bound)

ManifestAssumption ==
  /\ Default \in Names
  /\ Requires \in [Names -> SUBSET Caps]
  /\ Provides \in [Names -> (SUBSET Caps) \ {{}}]
  /\ Realm \in [Names -> Realms]
  /\ \A n \in Names : \E K \in SUBSET Caps : Isolation[n] \in [K -> Realms]

\* Two manifests that isolate one key agree on its realm: which of two entries
\* wins, the later in enabled.txt, is not modelled.
IsolationAssumption ==
  \A m, n \in Names : \A k \in DOMAIN Isolation[m] \cap DOMAIN Isolation[n] :
    Isolation[m][k] = Isolation[n][k]

PlanAssumption ==
  Plans \subseteq [start : SUBSET (Names \ {Default}), edits : SUBSET Names,
                  removals : SUBSET Names]

DisciplinesAssumption == ManifestAssumption /\ IsolationAssumption /\ PlanAssumption

-----------------------------------------------------------------------------
\* The persisted lifecycle of orchestrator/fiber_lifecycle.rs, shared by every kind of
\* component: a fiber provides while Active, and a withdrawn one stays Unloading for one
\* more advance.
LifecycleState == {"Inactive", "Active", "Unloading"}

Transition(s, satisfied) ==
  IF s = "Unloading" THEN "Inactive"
  ELSE IF satisfied THEN "Active"
  ELSE IF s = "Active" THEN "Unloading"
  ELSE "Inactive"

VARIABLES
  enabled,   \* the names in enabled.txt
  fiber,     \* fiber-state.json of each discipline
  pass,      \* the running active_policies: targets still to be advanced to
  removal,   \* what each discipline-check-removal dispatch has read and, for the
             \* properties, who its check has seen up and what was edited since
  plan       \* the plan of this behaviour

vars == <<enabled, fiber, pass, removal, plan>>

Idle == [pc |-> "idle"]

\* Type invariant: enabled.txt, the fibers and what each removal has read.
TypeOK ==
  /\ enabled \subseteq Names \ {Default}
  /\ fiber \in [Names -> LifecycleState]
  /\ \E todo \in SUBSET Names : pass \in [todo -> BOOLEAN]
  /\ removal \in [Removers ->
       {Idle}
       \cup [pc : {"checked"}, name : Names \ {Default}, seen : SUBSET Names]
       \cup [pc : {"named"}, name : Names \ {Default}, seen : SUBSET Names,
             names : SUBSET Names, edited : SUBSET Names]
       \cup [pc : {"read"}, name : Names \ {Default}, seen : SUBSET Names,
             names : SUBSET Names, edited : SUBSET Names, expected : SUBSET Names]]

-----------------------------------------------------------------------------
(* Coeffect resolution *)

IsActive(n) == fiber[n] = "Active"

EnabledNames == enabled \cup {Default}

\* The realm table of the eligible disciplines: the realms they isolate k into.
IsolatedInto(k) ==
  {Isolation[n][k] : n \in {m \in EnabledNames : k \in DOMAIN Isolation[m]}}

ResolveKeyRealm(n, k) ==
  IF IsolatedInto(k) = {} THEN Realm[n] ELSE CHOOSE r \in IsolatedInto(k) : TRUE

\* Who satisfies n's requirement of k now.
ActiveProviders(n, k) ==
  {p \in EnabledNames : /\ k \in Provides[p] /\ IsActive(p)
                        /\ ResolveKeyRealm(p, k) = ResolveKeyRealm(n, k)}

RequiresSatisfied(n) == \A k \in Requires[n] : ActiveProviders(n, k) # {}

\* The target view a dispatch computes for n.
Target(n) == n \in EnabledNames /\ RequiresSatisfied(n)

\* What n is told that names itself and asks for k (capability_proxy.rs): n never
\* provides for itself, and whether n or the provider's own requirements stand is not
\* asked.
Resolve(n, k) ==
  CASE k \notin Requires[n] -> "UNDECLARED_ACCESS"
    [] k \in Requires[n] /\ ActiveProviders(n, k) \subseteq {n} -> "INACTIVE_ACCESS"
    [] OTHER -> "authorized"

\* Mutant: a dependent does not count when some other eligible discipline,
\* active or not, provides the key.
RemovalDependentsReplaced(d) ==
  {n \in EnabledNames \ {d} :
     /\ Realm[n] = Realm[d] /\ IsActive(n) /\ RequiresSatisfied(n)
     /\ \E k \in Requires[n] \cap Provides[d] :
          \A p \in EnabledNames \ {d} : k \notin Provides[p]}

RemovalDependents(d) ==
  IF d \notin EnabledNames THEN {}
  ELSE {n \in EnabledNames \ {d} :
          /\ Realm[n] = Realm[d]
          /\ IsActive(n)
          /\ RequiresSatisfied(n)
          /\ Requires[n] \cap Provides[d] # {}}

-----------------------------------------------------------------------------
(* The steps *)

Init ==
  /\ plan \in Plans
  /\ enabled = plan.start
  /\ fiber = [n \in Names |-> "Inactive"]
  /\ pass = [n \in {} |-> FALSE]
  /\ removal = [r \in Removers |-> Idle]

\* The entries that S and T do not share.
Differing(S, T) == (S \ T) \cup (T \ S)

\* enabled.txt becomes S: each removal between its two reads of it notes what has changed.
Edits(S, running) ==
  /\ enabled' = S
  /\ removal' = [r \in Removers |->
       IF running[r].pc = "named"
       THEN [running[r] EXCEPT !.edited = @ \cup Differing(enabled, S)]
       ELSE running[r]]

\* A person edits enabled.txt.
Enable(n) ==
  /\ n \in plan.edits
  /\ n \notin EnabledNames
  /\ Edits(enabled \cup {n}, removal)
  /\ UNCHANGED <<fiber, pass>>

Disable(n) ==
  /\ n \in plan.edits
  /\ n \in enabled
  /\ Edits(enabled \ {n}, removal)
  /\ UNCHANGED <<fiber, pass>>

\* Mutant: a discipline taken out of enabled.txt is not advanced any more.
ActivePoliciesEligible ==
  /\ DOMAIN pass = {}
  /\ pass' = [n \in EnabledNames |-> Target(n)]
  /\ UNCHANGED <<enabled, fiber, removal>>

\* active_policies, first phase: every target from one snapshot.
ActivePolicies ==
  /\ DOMAIN pass = {}
  /\ pass' = [n \in Names |-> Target(n)]
  /\ UNCHANGED <<enabled, fiber, removal>>

\* active_policies, second phase: advance one fiber to its target.
AdvanceFiber(n) ==
  /\ n \in DOMAIN pass
  /\ fiber' = [fiber EXCEPT ![n] = Transition(fiber[n], pass[n])]
  /\ pass' = [m \in DOMAIN pass \ {n} |-> pass[m]]
  /\ UNCHANGED <<enabled, removal>>

\* Who is up: eligible, Active and with all it requires.
Up == {n \in EnabledNames : IsActive(n) /\ RequiresSatisfied(n)}

\* discipline-check-removal with remove: true, up to the SafeToWithdraw witness.
\* Nobody depends on a target that is not enabled, and who does is not looked at then.
\* A refusal changes nothing.
CheckRemoval(r, n) ==
  /\ removal[r] = Idle
  /\ n \in plan.removals \ {Default}
  /\ RemovalDependents(n) = {}
  /\ removal' = [removal EXCEPT ![r] =
       [pc |-> "checked", name |-> n, seen |-> IF n \in EnabledNames THEN Up ELSE {}]]
  /\ UNCHANGED <<enabled, fiber, pass>>

\* The names are read again, and an absent one ends the dispatch.
RemovalNames(r) ==
  LET R == removal[r] IN
  /\ R.pc = "checked"
  /\ removal' = [removal EXCEPT ![r] =
       IF R.name \in enabled
       THEN [pc |-> "named", name |-> R.name, seen |-> R.seen,
             names |-> EnabledNames, edited |-> {}]
       ELSE Idle]
  /\ UNCHANGED <<enabled, fiber, pass>>

\* The content cas_write is to expect is read just before it.
RemovalOriginal(r) ==
  LET R == removal[r] IN
  /\ R.pc = "named"
  /\ removal' = [removal EXCEPT ![r] =
       [pc |-> "read", name |-> R.name, seen |-> R.seen, names |-> R.names,
        edited |-> R.edited, expected |-> enabled]]
  /\ UNCHANGED <<enabled, fiber, pass>>

\* Mutant: a plain write, which expects nothing.
RemovalWritePlain(r) ==
  LET R == removal[r] IN
  /\ R.pc = "read"
  /\ Edits(R.names \ {R.name, Default}, [removal EXCEPT ![r] = Idle])
  /\ UNCHANGED <<fiber, pass>>

\* cas_write: swapped when enabled.txt still holds what was expected.
RemovalWrite(r) ==
  LET R == removal[r] IN
  /\ R.pc = "read"
  /\ Edits(IF enabled = R.expected THEN R.names \ {R.name, Default} ELSE enabled,
           [removal EXCEPT ![r] = Idle])
  /\ UNCHANGED <<fiber, pass>>

RemovalStep(r) ==
  \/ RemovalNames(r)
  \/ RemovalOriginal(r)
  \/ RemovalWrite(r)

Dispatch == ActivePolicies \/ \E n \in Names : AdvanceFiber(n)

Next ==
  /\ \/ \E n \in Names : Enable(n) \/ Disable(n)
     \/ Dispatch
     \/ \E r \in Removers, n \in Names : CheckRemoval(r, n)
     \/ \E r \in Removers : RemovalStep(r)
  /\ UNCHANGED plan

-----------------------------------------------------------------------------
(* Properties *)

\* A set of eligible disciplines is unfounded when each member requires a key
\* that only members of the set provide to it.
Unfounded(T) ==
  \A n \in T : \E k \in Requires[n] : \A p \in EnabledNames \ T :
    k \in Provides[p] => ResolveKeyRealm(p, k) # ResolveKeyRealm(n, k)

Grounded == EnabledNames \ UNION {T \in SUBSET EnabledNames : Unfounded(T)}

\* On a ring of eligible disciplines, each requiring what the next provides, or behind
\* one.
Circular ==
  UNION {T \in SUBSET EnabledNames :
           \A n \in T : \E k \in Requires[n], p \in T :
             k \in Provides[p] /\ ResolveKeyRealm(p, k) = ResolveKeyRealm(n, k)}

\* Once enabled.txt is left alone, the dispatches bring every discipline up that
\* is eligible and whose requirements bottom out, for good, and let it through to
\* all it requires (resolve, which decides about each access for itself); all
\* others go down for good, withdrawals cascading to the end, unless they are on
\* a requires-ring or behind one.  A ring, of which requires_satisfied says that
\* it is left unsatisfied, stays up once a provider outside has started it, or
\* passes being up from one member to the next for ever.
Settled ==
  LET active == {n \in Names : IsActive(n)} IN
  /\ Grounded \subseteq active /\ active \subseteq Grounded \cup Circular
  /\ \A n \in Grounded : \A k \in Requires[n] : Resolve(n, k) = "authorized"

SettlesAtGrounded == <>[][enabled' = enabled]_vars => <>[]Settled

\* A removal takes nobody down that its check has seen up in the target's realm
\* (removal_dependents: "naming every still-Active same-realm dependent that
\* would break"), whatever is edited and dispatched between the check and the
\* write: who is still up at the write, and stays enabled, has all it requires
\* after it too.  Not the removal's doing are entries that are edited between
\* its two reads; nor is it checked whom a key that the target isolates reaches.
RemovalLeavesNobodyBehind ==
  [][\A r \in Removers :
       removal[r].pc = "read" /\ removal'[r] = Idle /\ removal[r].edited = {} =>
         \A n \in Up \cap removal[r].seen :
           /\ n \in enabled' \cup {Default}
           /\ Realm[n] = Realm[removal[r].name]
           /\ Requires[n] \cap DOMAIN Isolation[removal[r].name] = {}
           => RequiresSatisfied(n)']_vars

\* A removal takes its own discipline out of enabled.txt and touches no entry
\* that anybody else edits before its first read or after its second, by hand or
\* by a removal of their own (the cas_write comment: a plain write "would silently
\* clobber a concurrent hand-edit").  An edit between the two reads is what the
\* swap cannot see.
RemovalDropsOnlyItsTarget ==
  [][\A r \in Removers : removal[r].pc = "read" /\ removal'[r] = Idle =>
       Differing(enabled, enabled') \subseteq removal[r].edited \cup {removal[r].name}]_vars

\* A removal takes its own discipline out of enabled.txt and touches no other entry,
\* whoever edits the file meanwhile: "cas_write fails closed on a content mismatch
\* instead" (discipline_note.rs:560).
NoEditIsClobbered ==
  [][\A r \in Removers : removal[r].pc = "read" /\ removal'[r] = Idle =>
       enabled' \in {enabled, enabled \ {removal[r].name}}]_vars
=============================================================================
