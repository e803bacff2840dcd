-------------------------------- MODULE Kernel --------------------------------
(***************************************************************************)
(* The dispatch of verbs and, behind some of them, the component loader    *)
(* and the disciplines.  The fibers of the loader are the engine's that    *)
(* drives it; what it and the disciplines keep are files of their own that *)
(* no gate reads.  A project is looked at through one of them at a time.   *)
(***************************************************************************)
EXTENDS Dispatching

CONSTANTS
    Ids, Urls, UrlOf, Keys, LocalRealm, Versions, First, Broken,
    Cycles, Lists, MaxCycles,
    Names, Default, Caps, Realms, Requires, Provides, Realm, Isolation, Removers, Plans,
    Uses            \* subset of {"gates", "loader", "disciplines"}

VARIABLES
    fibers, current, reload, outcome, entries, saved, drawn, excused, count,
    enabled, fiber, pass, removal, plan,
    using           \* the one looked at

loader == INSTANCE ComponentLoader
policies == INSTANCE Disciplines

KernelAssumption ==
    /\ DispatchingAssumption
    /\ loader!ComponentLoaderAssumption
    /\ policies!DisciplinesAssumption
    /\ Uses \subseteq {"gates", "loader", "disciplines"}

loaderVars == <<fibers, current, reload, outcome, entries, saved, drawn, excused, count>>
policyVars == <<enabled, fiber, pass, removal, plan>>
all == <<vars, loaderVars, policyVars, using>>

KernelInit == Init /\ loader!LoaderInit /\ policies!Init /\ using \in Uses

Dispatch == using = "gates" /\ Next /\ UNCHANGED <<loaderVars, policyVars, using>>

Load == using = "loader" /\ loader!Loading /\ UNCHANGED <<vars, policyVars, using>>

Beside == using = "disciplines" /\ UNCHANGED <<vars, loaderVars, using>>
Follow == Beside /\ policies!Next

\* Instruction dispatches keep coming; nothing else has to happen.
KernelSpec ==
    KernelInit /\ [][Dispatch \/ Load \/ Follow]_all /\ WF_all(Beside /\ policies!Dispatch /\ UNCHANGED plan)

-----------------------------------------------------------------------------
NeverHalfReloaded == loader!NeverHalfReloaded
TagsFresh == loader!TagsFresh
SettlesAtGrounded ==
    <>[][enabled' = enabled]_all => <>[](using = "disciplines" => policies!Settled)
RemovalLeavesNobodyBehind == policies!RemovalLeavesNobodyBehind
RemovalDropsOnlyItsTarget == policies!RemovalDropsOnlyItsTarget
NoEditIsClobbered == policies!NoEditIsClobbered
=============================================================================
