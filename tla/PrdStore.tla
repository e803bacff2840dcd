------------------------------ MODULE PrdStore ------------------------------
(***************************************************************************)
(* .gm/prd.yml under concurrent dispatches (orchestrator/prd.rs over       *)
(* cas.rs), the residual-scan marker that vouches for it (residual.rs,     *)
(* yaml_util.rs) and the commits that carry the rows' comments away        *)
(* (wasm_dispatch/verbs.rs).                                               *)
(*                                                                         *)
(* A dispatch runs its request once, one host call per step.  Every write  *)
(* is a read of the whole file, a computation on it, and a host-side       *)
(* compare-and-swap against the text read, retried as often as the policy  *)
(* allows.  What happens beside that one critical section is the subject:  *)
(* the duplicate-witness check before it, the marker after it, the commit  *)
(* that follows a drain, and the drain a resumed commit runs again.        *)
(*                                                                         *)
(* Requests the handlers refuse without a host call (no id, no witness,    *)
(* deferral language) change nothing and are not modelled.                 *)
(***************************************************************************)
EXTENDS PrdRows

CONSTANT Settings  \* the hosts the store runs on, and what is asked of it there

\* attempts is Policy.cas_max_attempts (5 unless gm.json says else); faulty, the
\* host's cas_write and git commit may fail; parks, it parks git commands, so
\* that a commit is resumed; sequential, dispatches run one after another.
SettingType ==
    [requests : SUBSET Requests, dispatches : Nat, attempts : Nat \ {0},
     faulty : BOOLEAN, parks : BOOLEAN, sequential : BOOLEAN]

SettingsAssumption == \A s \in Settings : s \in SettingType

VARIABLES
    setting,    \* the one this host is
    prd,        \* .gm/prd.yml
    marker,     \* .gm/residual-check-fired exists and is not empty
    job,        \* what each dispatch is doing
    attached,   \* history: comments a resolve has put on a row
    delivered   \* history: how many commit messages carry each comment

vars == <<setting, prd, marker, job, attached, delivered>>

NoRows == [i \in {} |-> None]
Finished == {"applied", "refused"}
Idle == [pc |-> "idle", req |-> None, before |-> NoRows, attempt |-> 0,
         drained |-> {}, replay |-> FALSE]

\* Type invariant: the rows, the marker and what each dispatch is doing.
TypeOK ==
    /\ setting \in Settings
    /\ prd \in Prds
    /\ marker \in BOOLEAN
    /\ attached \subseteq Comments
    /\ delivered \in [Comments -> Nat]
    /\ \A d \in Dispatches :
         /\ job[d].pc \in {"idle", "check", "read", "swap", "invalidate", "commit",
                           "scan", "mark"} \cup Finished
         /\ job[d].req \in Requests \cup {None}
         /\ job[d].before \in Prds
         /\ job[d].attempt \in 0 .. setting.attempts
         /\ job[d].drained \subseteq Comments
         /\ job[d].replay \in BOOLEAN

Init ==
    /\ setting \in Settings
    /\ prd \in InitialRows
    /\ marker = FALSE
    /\ job = [d \in Dispatches |-> Idle]
    /\ attached = {}
    /\ delivered = [c \in Comments |-> 0]

-----------------------------------------------------------------------------
Goto(d, pc) == job' = [job EXCEPT ![d].pc = pc]

Answer(d, outcome) ==
    job' = [job EXCEPT ![d] = [Idle EXCEPT !.pc = outcome, !.req = job[d].req]]

\* Comments stand for distinct texts, so that history can follow each of them.
Unused(c) == c = None \/ \A d \in Dispatches : job[d].pc # "idle" => job[d].req.comment # c

\* The other dispatches have not started or have answered.
Alone(d) == \A e \in Dispatches \ {d} : job[e].pc \in {"idle"} \cup Finished

Started == {d \in Dispatches : job[d].pc # "idle"}

Start(d, r) ==
    /\ job[d].pc = "idle"
    /\ r \in setting.requests
    /\ Cardinality(Started) < setting.dispatches
    /\ setting.sequential => Alone(d)
    /\ Unused(r.comment)
    /\ job' = [job EXCEPT ![d].req = r,
                          ![d].pc = CASE r.verb = "resolve" -> "check"
                                      [] r.verb = "scan"    -> "scan"
                                      [] OTHER              -> "read"]
    /\ UNCHANGED <<setting, prd, marker, attached, delivered>>

\* handle_resolve reads the file once to look for the witness on another row.
CheckWitness(d) ==
    /\ job[d].pc = "check"
    /\ IF DuplicateWitness(job[d].req, prd) THEN Answer(d, "refused") ELSE Goto(d, "read")
    /\ UNCHANGED <<setting, prd, marker, attached, delivered>>

\* Mutant: a retry works on the text the first attempt read.
ReadOnce(d) ==
    /\ job[d].pc = "read"
    /\ IF Unknown(job[d].req, prd)
       THEN Answer(d, "refused")
       ELSE job' = [job EXCEPT ![d].pc = "swap",
                               ![d].before = IF job[d].attempt = 0 THEN prd ELSE @,
                               ![d].attempt = @ + 1,
                               ![d].drained = IF job[d].req.verb = "commit"
                                              THEN DrainedComments(prd) ELSE {}]
    /\ UNCHANGED <<setting, prd, marker, attached, delivered>>

\* An attempt of cas_retry_write up to the swap: read, parse, compute.
Read(d) ==
    /\ job[d].pc = "read"
    /\ IF Unknown(job[d].req, prd)
       THEN Answer(d, "refused")
       ELSE job' = [job EXCEPT ![d].pc = "swap", ![d].before = prd,
                               ![d].attempt = @ + 1,
                               ![d].drained = IF job[d].req.verb = "commit"
                                              THEN DrainedComments(prd) ELSE {}]
    /\ UNCHANGED <<setting, prd, marker, attached, delivered>>

\* What a dispatch does once its cas_retry_write has returned.  The drain
\* ignores whether it succeeded; a replayed one discards its comments too.
AfterWrite(d, ok) ==
    LET j == job[d]
    IN CASE j.req.verb = "commit" /\ ~j.replay ->
                job' = [job EXCEPT ![d].pc = "commit", ![d].before = NoRows,
                                   ![d].attempt = 0]
         [] j.req.verb = "commit" /\ j.replay  -> Answer(d, "applied")
         [] j.req.verb \in {"add", "defer"} /\ ok ->
                job' = [job EXCEPT ![d].pc = "invalidate", ![d].before = NoRows,
                                   ![d].attempt = 0]
         [] OTHER -> Answer(d, IF ok THEN "applied" ELSE "refused")

\* Mutant: cas_retry_write without its comparison.
SwapBlind(d) ==
    /\ job[d].pc = "swap"
    /\ prd' = Modified(job[d].req, job[d].before)
    /\ attached' = IF job[d].req.verb = "resolve"
                   THEN attached \cup ({job[d].req.comment} \ {None}) ELSE attached
    /\ AfterWrite(d, TRUE)
    /\ UNCHANGED <<setting, marker, delivered>>

Swap(d) ==
    /\ job[d].pc = "swap"
    /\ prd = job[d].before
    /\ prd' = Modified(job[d].req, job[d].before)
    /\ attached' = IF job[d].req.verb = "resolve"
                   THEN attached \cup ({job[d].req.comment} \ {None}) ELSE attached
    /\ AfterWrite(d, TRUE)
    /\ UNCHANGED <<setting, marker, delivered>>

SwapFailed(d) ==
    /\ job[d].pc = "swap"
    /\ prd # job[d].before \/ setting.faulty
    /\ IF job[d].attempt < setting.attempts THEN Goto(d, "read") ELSE AfterWrite(d, FALSE)
    /\ UNCHANGED <<setting, prd, marker, attached, delivered>>

\* Mutant: the marker outlives the row it did not know.
InvalidateNothing(d) ==
    /\ job[d].pc = "invalidate"
    /\ Answer(d, "applied")
    /\ UNCHANGED <<setting, prd, marker, attached, delivered>>

\* invalidate_residual_marker, after the new row is in the file.
Invalidate(d) ==
    /\ job[d].pc = "invalidate"
    /\ marker' = FALSE
    /\ Answer(d, "applied")
    /\ UNCHANGED <<setting, prd, attached, delivered>>

\* git commit with the drained comments in its message.  On an asynchronous
\* host the verb is run again from its start when the result arrives, and so
\* is the drain; the commit itself is replayed from the plan.
CommitLands(d) ==
    /\ job[d].pc = "commit"
    /\ delivered' = [c \in Comments |->
                        IF c \in job[d].drained THEN delivered[c] + 1 ELSE delivered[c]]
    /\ IF setting.parks
       THEN job' = [job EXCEPT ![d].pc = "read", ![d].drained = {}, ![d].replay = TRUE]
       ELSE Answer(d, "applied")
    /\ UNCHANGED <<setting, prd, marker, attached>>

CommitFails(d) ==
    /\ job[d].pc = "commit"
    /\ setting.faulty
    /\ Answer(d, "refused")
    /\ UNCHANGED <<setting, prd, marker, attached, delivered>>

\* handle_scan: the prd check, then the browser, task and worktree checks,
\* any of which ends the scan, then the marker.
ScanPrd(d) ==
    /\ job[d].pc = "scan"
    /\ IF OpenIds(prd) # {} THEN Answer(d, "refused") ELSE Goto(d, "mark")
    /\ UNCHANGED <<setting, prd, marker, attached, delivered>>

ScanSkip(d) ==
    /\ job[d].pc = "mark"
    /\ Answer(d, "refused")
    /\ UNCHANGED <<setting, prd, marker, attached, delivered>>

ScanFire(d) ==
    /\ job[d].pc = "mark"
    /\ marker' = TRUE
    /\ Answer(d, "applied")
    /\ UNCHANGED <<setting, prd, attached, delivered>>

-----------------------------------------------------------------------------
Step(d) ==
    \/ CheckWitness(d) \/ Read(d) \/ Swap(d) \/ SwapFailed(d) \/ Invalidate(d)
    \/ CommitLands(d) \/ CommitFails(d)
    \/ ScanPrd(d) \/ ScanSkip(d) \/ ScanFire(d)

Next == \E d \in Dispatches : Step(d) \/ \E r \in Requests : Start(d, r)

Spec == Init /\ [][Next]_vars

-----------------------------------------------------------------------------
\* A dispatch has taken effect from its swap on; a scan when it has fired.
Outcome(d) ==
    CASE job[d].pc = "refused" -> "refused"
      [] job[d].pc \in {"applied", "invalidate", "commit"} \/ job[d].replay -> "applied"
      [] OTHER -> "pending"

Atomic == INSTANCE AtomicPrd WITH rows <- prd,
                                  outcome <- [d \in Dispatches |-> Outcome(d)]

\* A host that does what it is asked at once, and an attempt per dispatch.  Anywhere
\* else a drain may have taken no effect, or a second one: a commit that fails has
\* drained its rows, one that is resumed drains again, and a drain that loses all its
\* swaps commits the comments it has read.
Calm == ~setting.faulty /\ ~setting.parks /\ setting.dispatches <= setting.attempts

\* Concurrent prd-add, prd-defer, prd-resolve and commits are atomic: every
\* dispatch that answers success took effect exactly once on the rows of that
\* moment, none overwrote another's row, and a refusal changed nothing.
ImplementsAtomicPrd ==
    Atomic!AInit /\ [][~Calm \/ Atomic!ANext]_(Atomic!avars)

\* With an attempt per dispatch a write never fails for contention: each lost
\* swap is some other dispatch's success (cas_retry_write's bound).
NoContentionFailure ==
    Calm =>
        \A d \in Dispatches :
            job[d].pc = "swap" /\ job[d].attempt = setting.attempts
                => prd = job[d].before

OnARow(c) == \E i \in DOMAIN prd : prd[i].comment = c
InFlight(c) == \E d \in Dispatches : job[d].pc = "commit" /\ c \in job[d].drained

\* What is asked of a row with a comment neither adds it again nor brings it another
\* comment, either of which takes its own away.
KeepsComments ==
    \A r, s \in setting.requests :
        r.verb = "resolve" /\ r.comment # None /\ s.id = r.id =>
            s.verb # "add" /\ (s.verb = "resolve" => s.comment \in {None, r.comment})

\* A commit_comment rides on its row until a commit carries it, and is then on no
\* row and in no second commit: never lost, never told twice.
CommentsAccounted ==
    Calm /\ KeepsComments => \A c \in attached :
        /\ delivered[c] + (IF OnARow(c) THEN 1 ELSE 0) <= 1
        /\ OnARow(c) \/ InFlight(c) \/ delivered[c] = 1

\* Dispatches that run one after another close no two rows on the same evidence
\* (handle_resolve's duplicate-witness refusal, which reads before it writes).
WitnessesDistinct ==
    setting.sequential => \A i, k \in DOMAIN prd :
        prd[i].witness = prd[k].witness => i = k \/ prd[i].witness = None

\* Where dispatches run one after another, while none is running, a fired
\* residual-scan marker vouches for a prd without open rows: whatever reopens
\* one has invalidated the marker.
MarkerVouches ==
    setting.sequential /\ marker /\ (\A d \in Dispatches : job[d].pc \in {"idle"} \cup Finished)
        => OpenIds(prd) = {}
=============================================================================
