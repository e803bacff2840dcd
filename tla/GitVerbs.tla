------------------------------- MODULE GitVerbs -------------------------------
(***************************************************************************)
(* The two layers of the git verbs: how a verb is parked and replayed,     *)
(* whatever its calls do (GitAsync), and what the calls of git_finalize    *)
(* and git_push do, however they are executed (GitDelivery).  GitAsync     *)
(* shows that a replayed verb is one run of its calls, which is what       *)
(* GitDelivery models; so they are looked at one at a time.                *)
(***************************************************************************)
EXTENDS GitAsync

CONSTANTS Mine, Theirs, FileOf, Markers, Retries, MaxTheirs, MaxMishaps

VARIABLES
    tree, index, head, rebasing, tracking, remote, marker, run, mishaps,
    dispatch,       \* the git_finalize or git_push in progress
    layer           \* the layer looked at

delivery == INSTANCE GitDelivery WITH job <- dispatch

clone == <<tree, index, head, rebasing, tracking, remote, marker, run, mishaps, dispatch>>
all == <<vars, clone, layer>>

GitInit == Init /\ delivery!Init /\ layer \in {"replay", "delivery"}

Replay(A) == layer = "replay" /\ A /\ UNCHANGED <<clone, layer>>
Deliver(A) == layer = "delivery" /\ A /\ UNCHANGED <<vars, layer>>

GitFairness ==
    /\ \A c \in Callers : WF_all(Replay(Step(c)))
    /\ \A t \in Tokens : WF_all(Replay(\E r \in Results : HostDone(t, r)))
    /\ WF_all(Deliver(delivery!Step))
    /\ SF_all(Deliver(delivery!Start("finalize")))

GitSpec == GitInit /\ [][Replay(Next) \/ Deliver(delivery!Next)]_all /\ GitFairness

-----------------------------------------------------------------------------
PushedMeansLanded == delivery!PushedMeansLanded
CommittedStays == delivery!CommittedStays
Delivers == delivery!Delivers
MarkerVouches == delivery!MarkerVouches
=============================================================================
