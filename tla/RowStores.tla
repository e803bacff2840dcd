------------------------------- MODULE RowStores -------------------------------
(***************************************************************************)
(* The two row files of a project, .gm/mutables.yml and .gm/prd.yml, which *)
(* share the residual-scan marker: a row added to or deferred in either    *)
(* takes it back, a scan of the prd sets it.  The marker is all they share,*)
(* and one of them is worked on at a time.                                 *)
(***************************************************************************)
EXTENDS MutableStore

CONSTANTS
    PrdIds, Witnesses, Comments, Requests, InitialRows, Settings,
    MaxDispatches,  \* bound on the dispatches to the prd
    Uses            \* subset of {"prd", "mutables"}

VARIABLES
    setting, prd, job, attached, delivered,
    using           \* the file that is worked on

Dispatches == 1 .. MaxDispatches

work == INSTANCE PrdStore WITH Ids <- PrdIds

RowStoresAssumption ==
    /\ work!RowsAssumption
    /\ work!SettingsAssumption
    /\ MaxDispatches \in Nat
    /\ Uses \subseteq {"prd", "mutables"}

rest == <<setting, prd, job, attached, delivered>>
all == <<vars, rest, using>>

\* Ids and dispatches are counted as they come up, which is only a matter of names.
Counted ==
    /\ \A n \in DOMAIN muts : muts[n].id = n
    /\ \A d \in Dispatches : job[d].pc # "idle" => \A e \in 1 .. d - 1 : job[e].pc # "idle"

\* Next to the mutables the prd has no rows and is left alone, and a scan fires.
RowsInit ==
    /\ Init
    /\ work!Init
    /\ using \in Uses
    /\ using = "prd" <=> prd # work!NoRows
    /\ using = "mutables" => setting.sequential

Obligations == using = "mutables" /\ FreshNext /\ UNCHANGED <<rest, using>> /\ Counted'

Work == using = "prd" /\ work!Next /\ UNCHANGED <<muts, remembered, using>> /\ Counted'

RowsSpec == RowsInit /\ [][Obligations \/ Work]_all

-----------------------------------------------------------------------------
ImplementsAtomicPrd == work!ImplementsAtomicPrd
NoContentionFailure == work!NoContentionFailure
CommentsAccounted == work!CommentsAccounted
WitnessesDistinct == work!WitnessesDistinct
MarkerVouches == work!MarkerVouches
=============================================================================
