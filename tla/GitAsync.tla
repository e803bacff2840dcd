------------------------------- MODULE GitAsync -------------------------------
(***************************************************************************)
(* Git verbs on a host that cannot block (wasm_dispatch/verbs.rs): a verb  *)
(* is a sequence of git calls.  A call is answered inline or parked under  *)
(* a token; then the verb persists the results it has as a plan, maps the  *)
(* token to the plan and answers pending.  git_poll takes the parked       *)
(* result from the outbox, adds it to the plan and runs the verb from its  *)
(* start again, the calls of the plan answered by their place in it.       *)
(*                                                                         *)
(* Every access to the host's key-value store is a step of its own, and a  *)
(* dispatch may be killed between two of them.  A caller has one dispatch  *)
(* at a time.  A verb goes on to its next call or ends after any of them   *)
(* (nothing to commit, a failing call); what it answers is a function of   *)
(* the results.                                                            *)
(***************************************************************************)
EXTENDS Naturals, SequencesExt

CONSTANTS
    Callers,        \* each dispatches one verb and polls for it
    Length,         \* calls of the longest verb
    MaxCrashes,     \* bound on killed dispatches
    PollsFirst,     \* callers poll the token of the first envelope only
    None

ASSUME GitAsyncAssumption ==
    Length \in Nat \ {0} /\ MaxCrashes \in Nat /\ PollsFirst \in BOOLEAN

Results == {"more", "stop"}

\* The host mints a token for a call; the plan of a caller has one id.
Tokens == Callers \X (1 .. Length)

VARIABLES
    driving,    \* tokens of calls the host is executing
    outbox,     \* kv ns "outbox": token -> result
    plans,      \* kv ns "git_async": plan -> results by call order
    toks,       \* kv ns "git_async", "tok:": token -> plan
    told,       \* the tokens a caller has been given, in order
    job,        \* the dispatch of each caller
    answered,   \* the results the terminal envelope was computed from
    ran,        \* history: the results of the calls the host executed
    crashes     \* how many dispatches were killed

kv == <<outbox, plans, toks>>
vars == <<driving, outbox, plans, toks, told, job, answered, ran, crashes>>

Runs == BoundedSeq(Results, Length)

ASSUME NoneAssumption == None \notin Callers /\ None \notin Results /\ None \notin Runs

Idle == [pc |-> "idle", token |-> None, results |-> <<>>, raw |-> None]

Jobs ==
    [pc : {"new", "run", "persist", "map", "idle", "take", "lookup", "unmap", "load",
           "store", "over"},
     token : Tokens \cup {None},
     results : Runs,
     raw : Results \cup {None}]

TypeOK ==
    /\ driving \subseteq Tokens
    /\ outbox \in [Tokens -> Results \cup {None}]
    /\ plans \in [Callers -> Runs \cup {None}]
    /\ toks \in [Tokens -> Callers \cup {None}]
    /\ answered \in [Callers -> Runs \cup {None}]
    /\ ran \in [Callers -> Runs]
    /\ crashes \in 0 .. MaxCrashes
    /\ told \in [Callers -> Seq(Tokens)]
    /\ job \in [Callers -> Jobs]

Init ==
    /\ driving = {}
    /\ outbox = [t \in Tokens |-> None]
    /\ plans = [c \in Callers |-> None]
    /\ toks = [t \in Tokens |-> None]
    /\ told = [c \in Callers |-> <<>>]
    /\ job = [c \in Callers |-> [Idle EXCEPT !.pc = "new"]]
    /\ answered = [c \in Callers |-> None]
    /\ ran = [c \in Callers |-> <<>>]
    /\ crashes = 0

-----------------------------------------------------------------------------
Goto(c, pc) == job' = [job EXCEPT ![c].pc = pc]

\* The verb's code: after these results it answers, or makes its next call.
Ended(results) ==
    results # <<>> /\ (Last(results) = "stop" \/ Len(results) = Length)

Enter(c) ==
    /\ job[c].pc = "new"
    /\ Goto(c, "run")
    /\ UNCHANGED <<driving, kv, told, answered, ran, crashes>>

\* git_step_replayed_by_call_order: the host answers the next call inline ...
StepInline(c, r) ==
    /\ job[c].pc = "run" /\ ~Ended(job[c].results)
    /\ ran' = [ran EXCEPT ![c] = Append(@, r)]
    /\ job' = [job EXCEPT ![c].results = Append(@, r)]
    /\ UNCHANGED <<driving, kv, told, answered, crashes>>

\* ... or parks it under a token.
StepParked(c) ==
    LET t == <<c, Len(job[c].results) + 1>>
    IN /\ job[c].pc = "run" /\ ~Ended(job[c].results)
       /\ driving' = driving \cup {t}
       /\ job' = [job EXCEPT ![c].pc = "persist", ![c].token = t]
       /\ UNCHANGED <<kv, told, answered, ran, crashes>>

PersistPlan(c) ==
    /\ job[c].pc = "persist"
    /\ plans' = [plans EXCEPT ![c] = job[c].results]
    /\ Goto(c, "map")
    /\ UNCHANGED <<driving, outbox, toks, told, answered, ran, crashes>>

\* Mutant: the envelope names the token the verb was polled with.
MapTokenTellOld(c) ==
    /\ job[c].pc = "map"
    /\ toks' = [toks EXCEPT ![job[c].token] = c]
    /\ told' = [told EXCEPT ![c] = IF @ = <<>> THEN <<job[c].token>> ELSE Append(@, Last(@))]
    /\ job' = [job EXCEPT ![c] = Idle]
    /\ UNCHANGED <<driving, outbox, plans, answered, ran, crashes>>

\* The token is mapped to the plan and the pending envelope names it.
MapToken(c) ==
    /\ job[c].pc = "map"
    /\ toks' = [toks EXCEPT ![job[c].token] = c]
    /\ told' = [told EXCEPT ![c] = Append(@, job[c].token)]
    /\ job' = [job EXCEPT ![c] = Idle]
    /\ UNCHANGED <<driving, outbox, plans, answered, ran, crashes>>

\* git_async_entry: the plan is forgotten and the terminal envelope answered.
Finish(c) ==
    /\ job[c].pc = "run" /\ Ended(job[c].results)
    /\ plans' = [plans EXCEPT ![c] = None]
    /\ answered' = [answered EXCEPT ![c] = job[c].results]
    /\ job' = [job EXCEPT ![c] = [Idle EXCEPT !.pc = "over"]]
    /\ UNCHANGED <<driving, outbox, toks, told, ran, crashes>>

-----------------------------------------------------------------------------
\* The host finishes a parked call.
HostDone(t, r) ==
    /\ t \in driving
    /\ driving' = driving \ {t}
    /\ outbox' = [outbox EXCEPT ![t] = r]
    /\ ran' = [ran EXCEPT ![t[1]] = Append(@, r)]
    /\ UNCHANGED <<plans, toks, told, job, answered, crashes>>

Polled(c) == IF PollsFirst THEN Head(told[c]) ELSE Last(told[c])

\* git_poll: without a parked result it answers that the host is still
\* driving the call, and the caller polls again.
Poll(c) ==
    /\ job[c].pc = "idle"
    /\ outbox[Polled(c)] # None
    /\ job' = [job EXCEPT ![c].pc = "take", ![c].token = Polled(c),
                          ![c].raw = outbox[Polled(c)]]
    /\ UNCHANGED <<driving, kv, told, answered, ran, crashes>>

PollPending(c) ==
    /\ job[c].pc = "idle"
    /\ outbox[Polled(c)] = None
    /\ UNCHANGED vars

TakeResult(c) ==
    /\ job[c].pc = "take"
    /\ outbox' = [outbox EXCEPT ![job[c].token] = None]
    /\ Goto(c, "lookup")
    /\ UNCHANGED <<driving, plans, toks, told, answered, ran, crashes>>

\* A token without a plan is another caller's of the outbox: its result is
\* the answer.
LookUpPlan(c) ==
    /\ job[c].pc = "lookup"
    /\ IF toks[job[c].token] = None
       THEN /\ answered' = [answered EXCEPT ![c] = <<job[c].raw>>]
            /\ Goto(c, "over")
       ELSE Goto(c, "unmap") /\ UNCHANGED answered
    /\ UNCHANGED <<driving, kv, told, ran, crashes>>

UnmapToken(c) ==
    /\ job[c].pc = "unmap"
    /\ toks' = [toks EXCEPT ![job[c].token] = None]
    /\ Goto(c, "load")
    /\ UNCHANGED <<driving, outbox, plans, told, answered, ran, crashes>>

\* Mutant: the polled result is not among those the verb is resumed with.
LoadPlanOnly(c) ==
    /\ job[c].pc = "load"
    /\ IF plans[c] = None
       THEN /\ answered' = [answered EXCEPT ![c] = <<>>]
            /\ Goto(c, "over")
       ELSE /\ job' = [job EXCEPT ![c].pc = "store", ![c].results = plans[c]]
            /\ UNCHANGED answered
    /\ UNCHANGED <<driving, kv, told, ran, crashes>>

\* A token of a plan that is missing can not be resumed: an error.
LoadPlan(c) ==
    /\ job[c].pc = "load"
    /\ IF plans[c] = None
       THEN /\ answered' = [answered EXCEPT ![c] = <<>>]
            /\ Goto(c, "over")
       ELSE /\ job' = [job EXCEPT ![c].pc = "store",
                                  ![c].results = Append(plans[c], job[c].raw)]
            /\ UNCHANGED answered
    /\ UNCHANGED <<driving, kv, told, ran, crashes>>

\* The result joins the plan and git_async_reenter runs the verb again.
StoreResult(c) ==
    /\ job[c].pc = "store"
    /\ plans' = [plans EXCEPT ![c] = job[c].results]
    /\ job' = [job EXCEPT ![c].pc = "run", ![c].token = None, ![c].raw = None]
    /\ UNCHANGED <<driving, outbox, toks, told, answered, ran, crashes>>

\* The process of a poll is killed; what it had put into the store stays.
Crash(c) ==
    /\ crashes < MaxCrashes
    /\ told[c] # <<>> /\ job[c].pc \notin {"idle", "over"}
    /\ crashes' = crashes + 1
    /\ job' = [job EXCEPT ![c] = Idle]
    /\ UNCHANGED <<driving, kv, told, answered, ran>>

-----------------------------------------------------------------------------
Step(c) ==
    \/ Enter(c) \/ (\E r \in Results : StepInline(c, r)) \/ StepParked(c)
    \/ PersistPlan(c) \/ MapToken(c) \/ Finish(c)
    \/ Poll(c) \/ TakeResult(c) \/ LookUpPlan(c) \/ UnmapToken(c) \/ LoadPlan(c)
    \/ StoreResult(c)

Next ==
    \/ \E c \in Callers : Step(c) \/ PollPending(c) \/ Crash(c)
    \/ \E t \in Tokens, r \in Results : HostDone(t, r)

\* A dispatch that runs goes on, a caller keeps polling, the host finishes
\* what it drives.
Fairness ==
    /\ \A c \in Callers : WF_vars(Step(c))
    /\ \A t \in Tokens : WF_vars(\E r \in Results : HostDone(t, r))

Spec == Init /\ [][Next]_vars /\ Fairness

-----------------------------------------------------------------------------
\* Replay never makes the host execute a call twice or out of turn: what it
\* executed is one run of the verb, and the terminal answer is computed from
\* exactly that run.
RunsOnce ==
    \A c \in Callers :
        /\ \A i \in 1 .. Len(ran[c]) - 1 : ~Ended(SubSeq(ran[c], 1, i))
        /\ Len(ran[c]) <= Length
        /\ answered[c] # None => answered[c] = ran[c] /\ Ended(ran[c])

\* A caller that was given a token and keeps polling gets the terminal
\* envelope, unless a dispatch is killed.
PollingEnds ==
    \A c \in Callers : (told[c] # <<>>) ~> (answered[c] # None \/ crashes > 0)
=============================================================================
