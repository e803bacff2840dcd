----------------------------- MODULE Dispatching -----------------------------
(***************************************************************************)
(* What happens around the handler of a verb: the gates it has to pass     *)
(* (gates.rs), the browser witness that is taken of the files a body names *)
(* (browser_witness.rs), the time stamps and the dispatch ledger           *)
(* (wasm_dispatch/verbs.rs, dispatch_ledger.rs).                           *)
(*                                                                         *)
(* Callers are the agents of a project, each in a process of its own: a    *)
(* handler takes its time while others dispatch.  Time is the age of each  *)
(* stamp, in units of the same-burst window, and grows no further than a   *)
(* unit past the threshold.  A check of the gates takes no time and is one *)
(* step.  What handlers do is modelled elsewhere; here a handler may raise *)
(* or clear the residuals of a phase and write one client-side file.       *)
(***************************************************************************)
EXTENDS Naturals, Sequences, FiniteSets

CONSTANTS
    Callers,
    Phases,             \* targets of transitions
    Terminal,           \* policy.terminal_phase
    Threshold,          \* policy.longgap_threshold_ms
    EscalateAfter,      \* policy.long_gap_retry_escalate_after (2)
    RepeatThreshold,    \* policy.gate_repeat_escalate_threshold (3)
    MaxEntries,         \* entries of the ledger (500)
    Settings,           \* what is dispatched, and how
    MaxContent,         \* bound on versions of the file
    None

\* verbs: those that are dispatched; together: dispatches may overlap; dispatches:
\* a bound on them; gaps: they may be far apart; content, configured, residual:
\* how the project is at first.
SettingType ==
    [verbs : SUBSET STRING, together : BOOLEAN, dispatches : Nat, gaps : BOOLEAN,
     content : 0 .. MaxContent, configured : BOOLEAN, residual : SUBSET Phases]

Denials == {"long-gap", "retried", "residuals", "stuck"}

DispatchingAssumption ==
    /\ \A s \in Settings : s \in SettingType
    /\ Terminal \in Phases
    /\ {Threshold, EscalateAfter, RepeatThreshold, MaxEntries} \subseteq Nat \ {0}
    /\ MaxContent \in Nat
    /\ None \notin Nat \cup Denials

VARIABLES
    setting,            \* the one there is
    sinceInstruction,   \* age of .gm/last-instruction-ts
    sinceDispatch,      \* age of .gm/last-dispatch-ts
    retry,              \* .gm/long-gap-retry-state
    repeats,            \* .gate-deviation-repeats.json
    content,            \* the client-side file: 0 when there is none
    edited,             \* .turn-browser-edits.json: the hash of the file
    witnessed,          \* .turn-browser-witnessed: the hash of the file
    loads,              \* .app-loads-witnessed.json
    configured,         \* .gm/browser-config.json declares an entry point
    residual,           \* phases that other gates keep closed
    ledger,             \* .dispatch-ledger.json
    issued,             \* how many dispatches there were
    call,               \* what each caller has under way
    quiet,              \* history: time since the last activity
    answered            \* history: the ids of the answers, which rows may cite

stamps == <<sinceInstruction, sinceDispatch, retry>>
evidence == <<content, edited, witnessed, loads, configured, residual>>
vars == <<setting, stamps, repeats, evidence, ledger, issued, call, quiet, answered>>

Oldest == Threshold + 1
Ages == 0 .. Oldest
Refresh == {"instruction", "transition"}    \* policy.longgap_refresh_verbs
Exempt == {"health"}                        \* policy.longgap_exempt_verbs
Verbs == Refresh \cup Exempt \cup {"fs_write", "browser", "git_finalize"}

\* A dispatch: its verb, the phase it asks for, whether its body has the path
\* of the client-side file.
RequestType == [verb : Verbs, to : Phases \cup {None}, file : BOOLEAN]
Requests ==
    {[verb |-> v, to |-> None, file |-> FALSE] : v \in Verbs \ {"transition", "fs_write"}}
        \cup {[verb |-> "transition", to |-> p, file |-> FALSE] : p \in Phases}
        \cup {[verb |-> "fs_write", to |-> None, file |-> TRUE]}

Free == [pc |-> "free", id |-> 0, req |-> None, denied |-> None, seen |-> <<>>]

\* Type invariant: the stamps of turn-state.json, the ledger and what each caller is doing.
TypeOK ==
    /\ sinceInstruction \in Ages \cup {None} /\ sinceDispatch \in Ages \cup {None}
    /\ retry = None \/ retry \in [verb : Verbs, count : Nat, age : Ages]
    /\ repeats \in [Phases -> Nat]
    /\ content \in 0 .. MaxContent
    /\ edited \in 0 .. MaxContent \cup {None} /\ witnessed \in 0 .. MaxContent \cup {None}
    /\ loads \in {"unknown", "healthy", "unhealthy"} /\ configured \in BOOLEAN
    /\ residual \subseteq Phases
    /\ ledger \in Seq(1 .. issued) /\ issued \in 0 .. setting.dispatches
    /\ setting \in Settings
    /\ quiet \in Ages /\ answered \in Seq(1 .. issued)
    /\ \A c \in Callers :
         /\ call[c].pc \in {"free", "handler", "record", "append"} /\ call[c].id \in 0 .. issued
         /\ call[c].req \in RequestType \cup {None}
         /\ call[c].denied \in Denials \cup {None}

Init ==
    /\ sinceInstruction = None /\ sinceDispatch = None /\ retry = None
    /\ repeats = [p \in Phases |-> 0]
    /\ setting \in Settings
    /\ content = setting.content /\ configured = setting.configured
    /\ residual = setting.residual
    /\ edited = None /\ witnessed = None /\ loads = "unknown"
    /\ ledger = <<>> /\ issued = 0
    /\ call = [c \in Callers |-> Free]
    /\ quiet = 0
    /\ answered = <<>>

-----------------------------------------------------------------------------
(* check_dispatch *)

\* check_browser_witness_coverage_for_cwd looks for the hashes under a key that
\* record_witness does not write, and so finds none: it passes only where no
\* client-side file was recorded as edited.
Covered == edited = None

Residuals(p) ==
    \/ p \in residual
    \/ p = Terminal /\ (~Covered \/ (configured /\ loads # "healthy"))

Old(age) == age = None \/ age > Threshold

\* long_gap_should_fire, on the stamps as they were when the dispatch arrived.
LongGap(r) ==
    /\ r.verb \notin Refresh \cup Exempt
    /\ sinceInstruction # None /\ Old(sinceInstruction) /\ Old(sinceDispatch)

\* Denials of the same verb in bursts of their own.
Retried(v) ==
    [verb  |-> v,
     count |-> IF retry = None \/ retry.verb # v THEN 1
               ELSE IF retry.age > 1 THEN retry.count + 1 ELSE retry.count,
     age   |-> 0]

\* Every verb that is not exempt stamps the dispatch, admitted or not.
Stamp(r) ==
    /\ sinceDispatch' = IF r.verb \in Exempt THEN sinceDispatch ELSE 0
    /\ quiet' = IF r.verb \in Exempt \/ LongGap(r) THEN quiet ELSE 0
    /\ sinceInstruction' = IF r.verb \in Refresh THEN 0 ELSE sinceInstruction
    /\ retry' = IF LongGap(r) THEN Retried(r.verb)
                ELSE IF r.verb \in Refresh THEN None ELSE retry

Arrived(c, r, pc, why) ==
    call' = [call EXCEPT ![c] = [pc |-> pc, id |-> issued + 1, req |-> r, denied |-> why,
                                 seen |-> <<>>]]

Arrive(c, r) ==
    /\ call[c].pc = "free"
    /\ r.verb \in setting.verbs
    /\ setting.together \/ \A other \in Callers : call[other].pc = "free"
    /\ issued < setting.dispatches
    /\ issued' = issued + 1
    /\ Stamp(r)

DenyLongGap(c, r) ==
    /\ Arrive(c, r)
    /\ LongGap(r)
    /\ Arrived(c, r, "record", IF Retried(r.verb).count >= EscalateAfter THEN "retried" ELSE "long-gap")
    /\ UNCHANGED <<setting, repeats, evidence, ledger, answered>>

\* record_gate_repeat counts the denials of a target.
DenyTransition(c, r) ==
    /\ r.verb = "transition" /\ Residuals(r.to)
    /\ Arrive(c, r)
    /\ repeats' = [repeats EXCEPT ![r.to] = @ + 1]
    /\ Arrived(c, r, "record", IF repeats[r.to] + 1 >= RepeatThreshold THEN "stuck" ELSE "residuals")
    /\ UNCHANGED <<setting, evidence, ledger, answered>>

\* record_from_body takes the hash of the file before the handler writes it; of
\* no file there is no hash, and the entry stands for it all the same.
Admit(c, r) ==
    /\ ~LongGap(r)
    /\ r.verb = "transition" => ~Residuals(r.to)
    /\ Arrive(c, r)
    /\ repeats' = IF r.verb = "transition" THEN [repeats EXCEPT ![r.to] = 0] ELSE repeats
    /\ edited' = IF r.file THEN content ELSE edited
    /\ Arrived(c, r, "handler", None)
    /\ UNCHANGED <<setting, content, witnessed, loads, configured, residual, ledger, answered>>

-----------------------------------------------------------------------------
(* The handler, and what follows it *)

\* witness_all_pending_edits_by_rehashing_current_content and the health of the
\* page; a transport that fails witnesses no file.
Browse(health) ==
    /\ witnessed' \in {witnessed, IF edited # None /\ content > 0 THEN content ELSE witnessed}
    /\ loads' = health
    /\ UNCHANGED <<content, edited, configured, residual>>

Write ==
    /\ content < MaxContent
    /\ content' = content + 1
    /\ UNCHANGED <<edited, witnessed, loads, configured, residual>>

\* A handler of the others raises or clears what keeps a phase closed.
Work ==
    /\ \E p \in Phases : residual' \in {residual \cup {p}, residual \ {p}}
    /\ UNCHANGED <<content, edited, witnessed, loads, configured>>

\* Mutant: the stamp is left at the arrival of the dispatch.
RestampNothing(r) == UNCHANGED sinceInstruction

\* restamp_long_gap_marker_to_dispatch_completion_if_refresh_verb.
Restamp(r) == sinceInstruction' = IF r.verb \in Refresh THEN 0 ELSE sinceInstruction

Handle(c) ==
    LET r == call[c].req
    IN /\ call[c].pc = "handler"
       /\ CASE r.verb = "browser"  -> \E h \in {loads, "healthy", "unhealthy"} : Browse(h)
            [] r.verb = "fs_write" -> UNCHANGED evidence \/ Write
            [] r.verb = "git_finalize" -> UNCHANGED evidence \/ Work
            [] OTHER               -> UNCHANGED evidence
       /\ Restamp(r)
       /\ quiet' = IF r.verb \in Refresh THEN 0 ELSE quiet
       /\ call' = [call EXCEPT ![c].pc = "record"]
       /\ UNCHANGED <<setting, sinceDispatch, retry, repeats, ledger, issued, answered>>

\* A panic is caught outside of all that follows the handler.
Panic(c) ==
    /\ call[c].pc = "handler"
    /\ call' = [call EXCEPT ![c] = Free]
    /\ UNCHANGED <<setting, stamps, repeats, evidence, ledger, issued, quiet, answered>>

\* dispatch_ledger::record reads the ledger, ...
ReadLedger(c) ==
    /\ call[c].pc = "record"
    /\ call' = [call EXCEPT ![c].pc = "append", ![c].seen = ledger]
    /\ UNCHANGED <<setting, stamps, repeats, evidence, ledger, issued, quiet, answered>>

\* Mutant: a full ledger takes no more entries.
WriteWhileRoom(c) ==
    LET all == Append(call[c].seen, call[c].id)
    IN /\ call[c].pc = "append"
       /\ ledger' = SubSeq(all, 1, IF Len(all) > MaxEntries THEN MaxEntries ELSE Len(all))
       /\ answered' = Append(answered, call[c].id)
       /\ call' = [call EXCEPT ![c] = Free]
       /\ UNCHANGED <<setting, stamps, repeats, evidence, issued, quiet>>

\* ... and writes it back with the entry the answer names.
WriteLedger(c) ==
    LET all == Append(call[c].seen, call[c].id)
        over == IF Len(all) > MaxEntries THEN Len(all) - MaxEntries ELSE 0
    IN /\ call[c].pc = "append"
       /\ ledger' = SubSeq(all, over + 1, Len(all))
       /\ answered' = Append(answered, call[c].id)
       /\ call' = [call EXCEPT ![c] = Free]
       /\ UNCHANGED <<setting, stamps, repeats, evidence, issued, quiet>>

Older(age) == IF age = None THEN None ELSE IF age < Oldest THEN age + 1 ELSE Oldest

Tick ==
    /\ setting.gaps
    /\ sinceInstruction' = Older(sinceInstruction)
    /\ sinceDispatch' = Older(sinceDispatch)
    /\ retry' = IF retry = None THEN None ELSE [retry EXCEPT !.age = Older(@)]
    /\ quiet' = Older(quiet)
    /\ UNCHANGED <<setting, repeats, evidence, ledger, issued, call, answered>>

Next ==
    \/ \E c \in Callers :
         \/ \E r \in Requests : DenyLongGap(c, r) \/ DenyTransition(c, r) \/ Admit(c, r)
         \/ Handle(c) \/ Panic(c) \/ ReadLedger(c) \/ WriteLedger(c)
    \/ Tick

Spec == Init /\ [][Next]_vars

-----------------------------------------------------------------------------
\* Only who was idle for longer than the threshold is sent back to `instruction`
\* (fsm.rs, longgap_threshold_ms): no dispatch was let through since, and no verb
\* that refreshes the stamp ended.
NoDenialInActivity ==
    [][\A c \in Callers :
          call'[c].denied \in {"long-gap", "retried"} /\ call'[c].id # call[c].id
          => quiet > Threshold]_vars

\* A row may cite the id of any of the last MAX_ENTRIES answers (prd.rs:480),
\* those of denials included, where no two dispatches overlap.
CitableAnswers ==
    ~setting.together => \A i \in DOMAIN answered :
                    i > Len(answered) - MaxEntries
                    => \E k \in DOMAIN ledger : ledger[k] = answered[i]

\* "true when every client-side file edited this session ... has a matching entry
\* in .gm/exec-spool/.turn-browser-witnessed with the same content hash"
\* (transitions.rs:38).
WitnessOpensTheGate == edited # None /\ edited > 0 /\ witnessed = edited => Covered
=============================================================================
