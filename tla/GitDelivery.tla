------------------------------ MODULE GitDelivery ------------------------------
(***************************************************************************)
(* git_finalize and git_push (wasm_dispatch/verbs.rs): a change in the     *)
(* worktree becomes a commit, the commit reaches origin's main, the CI of  *)
(* the pushed commit is asked for and .ci-validated is written.            *)
(*                                                                         *)
(* Every git command is a step.  Between two of them somebody else writes  *)
(* to the worktree or commits, another clone pushes, the network or git    *)
(* fails, or the dispatch is killed.  A history is the sequence of the     *)
(* changes its commits make, each a set of edits; it stands for the sha of *)
(* its last commit, which is why a rebase or an amend yields another one.  *)
(* An edit changes one file.  The checkout is on main, with an upstream,   *)
(* and a finalize has a message.                                           *)
(***************************************************************************)
EXTENDS SequencesExt

CONSTANTS
    Mine, Theirs,   \* edits made in this checkout, and in other clones
    FileOf,         \* the file an edit changes
    Markers,        \* the edit that is a file with conflict markers in it
    Retries,        \* rebases a push tries (3)
    MaxTheirs,      \* bound on commits other clones push
    MaxMishaps,     \* bound on git commands that fail and dispatches killed
    None

Edits == Mine \cup Theirs \cup {Markers}
Verbs == {"finalize", "push"}

GitDeliveryAssumption ==
    /\ Mine \cap Theirs = {} /\ Markers \notin Mine \cup Theirs
    /\ Edits \subseteq DOMAIN FileOf
    /\ Retries \in Nat /\ MaxTheirs \in Nat /\ MaxMishaps \in Nat
    /\ None \notin Seq(SUBSET Edits)

VARIABLES
    tree,       \* edits in the worktree that are not staged
    index,      \* staged edits
    head,       \* HEAD
    rebasing,   \* HEAD from before the rebase that is in progress
    tracking,   \* origin/main as this clone knows it
    remote,     \* main of origin
    marker,     \* .ci-validated
    run,        \* the CI run of the commit the marker names
    job,        \* the dispatch in progress
    mishaps     \* how many commands failed and dispatches were killed

worktree == <<tree, index>>
refs == <<head, rebasing, tracking>>
ci == <<marker, run>>
vars == <<worktree, refs, remote, ci, job, mishaps>>

EditsOf(h) == UNION ToSet(h)
Files(E) == {FileOf[e] : e \in E}
Dirty == tree \cup index # {}

Histories == Seq(SUBSET Edits)
Runs == {"none", "pending", "success", "failure"}
Idle ==
    [pc |-> "idle", verb |-> "push", before |-> <<>>, dirty |-> FALSE, flush |-> FALSE,
     mine |-> None, attempts |-> 0, conflict |-> FALSE, seen |-> <<>>,
     sha |-> <<>>, pushed |-> FALSE]

\* Type invariant: the worktree, the three histories and the one job that works on them.
TypeOK ==
    /\ tree \subseteq Edits /\ index \subseteq Edits
    /\ head \in Histories /\ tracking \in Histories /\ remote \in Histories
    /\ rebasing \in Histories \cup {None} /\ marker \in Histories \cup {None}
    /\ run \in Runs
    /\ job.pc \in {"idle", "probe", "add", "commit", "moved", "ahead", "leftover", "absorb",
                   "restage", "amend", "recheck", "clean", "fetch", "push", "pull",
                   "rebased", "abort", "after", "verify", "sha", "ci"}
    /\ job.verb \in Verbs
    /\ job.mine \in (SUBSET Edits) \cup {None}
    /\ job.attempts \in 0 .. Retries
    /\ job.pushed \in BOOLEAN
    /\ mishaps \in 0 .. MaxMishaps

Init ==
    /\ tree = {} /\ index = {}
    /\ head = <<>> /\ rebasing = None /\ tracking = <<>>
    /\ remote = <<>>
    /\ marker = None /\ run = "none"
    /\ job = Idle
    /\ mishaps = 0

-----------------------------------------------------------------------------
Goto(pc) == job' = [job EXCEPT !.pc = pc]
Answer(pushed) == job' = [Idle EXCEPT !.pushed = pushed]
Refuse == Answer(FALSE)

\* The git command at hand works, or one more fails.
Works == UNCHANGED mishaps
Fails == mishaps < MaxMishaps /\ mishaps' = mishaps + 1

\* git status; one that fails counts as a dirty worktree (porcelain_or_dirty).
Status(dirty) == \/ Works /\ dirty = Dirty
                 \/ Fails /\ dirty = TRUE

Start(v) ==
    /\ job.pc = "idle"
    /\ job' = [Idle EXCEPT !.pc = IF v = "push" THEN "clean" ELSE "probe",
                           !.verb = v, !.before = head]
    /\ UNCHANGED <<worktree, refs, remote, ci, mishaps>>

\* A clean worktree is committed too when notes of prd rows wait for a commit.
\* Bound: one commit has nothing but notes.
Probe(dirty, notes) ==
    /\ job.pc = "probe"
    /\ notes => {} \notin ToSet(head)
    /\ Status(dirty)
    /\ job' = [job EXCEPT !.pc = IF dirty \/ notes THEN "add" ELSE "ahead",
                          !.dirty = dirty, !.flush = notes /\ ~dirty]
    /\ UNCHANGED <<worktree, refs, remote, ci>>

\* git add -A, whose result is not looked at.
Add(from, to) ==
    /\ job.pc = from
    /\ \/ Works /\ index' = index \cup tree /\ tree' = {}
       \/ Fails /\ UNCHANGED worktree
    /\ Goto(to)
    /\ UNCHANGED <<refs, remote, ci>>

Commit ==
    /\ job.pc = "commit"
    /\ Works
    /\ IF index = {} /\ ~job.flush
       THEN Goto("ahead") /\ UNCHANGED <<head, index>>
       ELSE /\ head' = Append(head, index)
            /\ index' = {}
            /\ job' = [job EXCEPT !.pc = "moved", !.mine = index]
    /\ UNCHANGED <<tree, rebasing, tracking, remote, ci>>

CommitFails ==
    /\ job.pc = "commit"
    /\ Fails
    /\ IF job.flush THEN Goto("ahead") ELSE Refuse
    /\ UNCHANGED <<worktree, refs, remote, ci>>

\* On to the second half, with the commit of the dispatch or what was there.
Proceed == job' = [Idle EXCEPT !.pc = "leftover", !.verb = job.verb, !.mine = job.mine,
                               !.before = IF job.mine = None THEN job.before ELSE <<>>]

\* HEAD must have moved since the dispatch began.
CheckMoved ==
    /\ job.pc = "moved"
    /\ IF head # job.before THEN Proceed
       ELSE IF job.flush THEN job' = [job EXCEPT !.pc = "ahead", !.mine = None]
       ELSE Refuse
    /\ UNCHANGED <<worktree, refs, remote, ci, mishaps>>

\* Commits of HEAD that origin/main, as it is known, does not have.
Unpushed == {i \in DOMAIN head : ~IsPrefix(SubSeq(head, 1, i), tracking)}

\* Mutant: without a commit of its own the dispatch is done.
NothingNew ==
    /\ job.pc = "ahead"
    /\ IF ~job.dirty THEN Refuse ELSE Proceed
    /\ UNCHANGED <<worktree, refs, remote, ci, mishaps>>

\* Nothing new was committed: what an earlier dispatch left is pushed.  A count
\* that fails is taken for none.
CheckAhead ==
    /\ job.pc = "ahead"
    /\ \/ Works /\ IF ~job.dirty /\ Unpushed = {} THEN Refuse ELSE Proceed
       \/ Fails /\ IF ~job.dirty THEN Refuse ELSE Proceed
    /\ UNCHANGED <<worktree, refs, remote, ci>>

\* What is dirty again was committed a moment ago: it is amended.
Absorbable == job.mine # None /\ Files(tree \cup index) \subseteq Files(Last(head))

Leftover(dirty) ==
    /\ job.pc \in {"leftover", "absorb", "recheck"}
    /\ Status(dirty)
    /\ IF ~dirty THEN Goto("clean")
       ELSE IF job.pc # "recheck" /\ Dirty /\ mishaps' = mishaps /\ Absorbable
       THEN Goto(IF job.pc = "leftover" THEN "absorb" ELSE "restage")
       ELSE Refuse
    /\ UNCHANGED <<worktree, refs, remote, ci>>

Amend ==
    /\ job.pc = "amend"
    /\ \/ /\ Works
          /\ head' = Append(Front(head), Last(head) \cup index)
          /\ index' = {}
          /\ job' = [job EXCEPT !.pc = "recheck", !.mine = @ \cup index]
       \/ Fails /\ Goto("recheck") /\ UNCHANGED <<head, index>>
    /\ UNCHANGED <<tree, rebasing, tracking, remote, ci>>

-----------------------------------------------------------------------------
(* git_push *)

ProbeClean(dirty) ==
    /\ job.pc = "clean"
    /\ Status(dirty)
    /\ IF dirty THEN Refuse ELSE Goto("fetch")
    /\ UNCHANGED <<worktree, refs, remote, ci>>

\* The result of a fetch is not looked at.
FetchOrNot ==
    \/ Works /\ tracking' = remote
    \/ Fails /\ UNCHANGED tracking

Fetch ==
    /\ job.pc = "fetch"
    /\ FetchOrNot
    /\ Goto("push")
    /\ UNCHANGED <<worktree, head, rebasing, remote, ci>>

Push ==
    /\ job.pc = "push"
    /\ IsPrefix(remote, head)
    /\ remote' = head /\ tracking' = head
    /\ Goto("after")
    /\ UNCHANGED <<worktree, head, rebasing, ci, mishaps>>

\* The remote has moved, or the push fails for another reason.
PushRejected ==
    /\ job.pc = "push"
    /\ \/ Works /\ ~IsPrefix(remote, head)
       \/ Fails
    /\ IF job.attempts < Retries
       THEN job' = [job EXCEPT !.pc = "pull", !.attempts = @ + 1]
       ELSE Refuse
    /\ UNCHANGED <<worktree, refs, remote, ci>>

\* How many commits HEAD and the remote share.
Shared == Max({n \in 0 .. Len(head) : n <= Len(remote) /\ SubSeq(head, 1, n) = SubSeq(remote, 1, n)})

\* The commits of HEAD that touch a file the new commits of the remote touch.
Clashing ==
    LET new == EditsOf(SubSeq(remote, Shared + 1, Len(remote)))
    IN {i \in Shared + 1 .. Len(head) : Files(head[i]) \cap Files(new) # {}}

\* git pull --rebase, which needs a clean worktree and no rebase in progress.
\* A commit that does not apply stops it, with conflict markers in the file.
PullRebase ==
    /\ job.pc = "pull"
    /\ Works /\ ~Dirty /\ rebasing = None
    /\ tracking' = remote
    /\ IF Clashing = {}
       THEN /\ head' = remote \o SubSeq(head, Shared + 1, Len(head))
            /\ Goto("rebased")
            /\ UNCHANGED <<tree, rebasing>>
       ELSE /\ head' = remote \o SubSeq(head, Shared + 1, Min(Clashing) - 1)
            /\ tree' = head[Min(Clashing)] \cup {Markers}
            /\ rebasing' = head
            /\ job' = [job EXCEPT !.pc = "rebased", !.conflict = TRUE]
    /\ UNCHANGED <<index, remote, ci>>

\* Its complaints go to stderr, which is not looked at.
PullFails ==
    /\ job.pc = "pull"
    /\ \/ Works /\ (Dirty \/ rebasing # None)
       \/ Fails
    /\ Goto("rebased")
    /\ UNCHANGED <<worktree, refs, remote, ci>>

CheckRebased(dirty) ==
    /\ job.pc = "rebased"
    /\ IF job.conflict THEN Works /\ dirty = FALSE ELSE Status(dirty)
    /\ Goto(IF job.conflict \/ dirty THEN "abort" ELSE "push")
    /\ UNCHANGED <<worktree, refs, remote, ci>>

\* Mutant: the rebase is left with --quit.
QuitRebase ==
    /\ job.pc = "abort"
    /\ IF rebasing # None
       THEN tree' = {} /\ index' = {} /\ rebasing' = None
       ELSE UNCHANGED <<worktree, rebasing>>
    /\ Refuse
    /\ UNCHANGED <<head, tracking, remote, ci, mishaps>>

\* git rebase --abort resets HEAD and the worktree, if a rebase is in progress.
AbortRebase ==
    /\ job.pc = "abort"
    /\ IF rebasing # None
       THEN tree' = {} /\ index' = {} /\ head' = rebasing /\ rebasing' = None
       ELSE UNCHANGED <<worktree, head, rebasing>>
    /\ Refuse
    /\ UNCHANGED <<tracking, remote, ci, mishaps>>

HeadAfterPush ==
    /\ job.pc = "after"
    /\ job' = [job EXCEPT !.pc = "verify", !.seen = head]
    /\ UNCHANGED <<worktree, refs, remote, ci, mishaps>>

\* Mutant: what git push says is believed.
BelievePush ==
    /\ job.pc = "verify"
    /\ FetchOrNot
    /\ IF job.verb = "finalize" THEN Goto("sha") ELSE Answer(TRUE)
    /\ UNCHANGED <<worktree, head, rebasing, remote, ci>>

\* verify_push_landed: origin/main, fetched again, is the local HEAD.
VerifyLanded ==
    /\ job.pc = "verify"
    /\ FetchOrNot
    /\ IF tracking' # job.seen THEN Refuse
       ELSE IF job.verb = "finalize" THEN Goto("sha")
       ELSE Answer(TRUE)
    /\ UNCHANGED <<worktree, head, rebasing, remote, ci>>

-----------------------------------------------------------------------------
(* The CI status of the pushed commit *)

HeadForCI ==
    /\ job.pc = "sha"
    /\ job' = [job EXCEPT !.pc = "ci", !.sha = head]
    /\ UNCHANGED <<worktree, refs, remote, ci, mishaps>>

\* ci_status_value: without a run, the age of the commit decides.
CIStatus(conclusion, old) ==
    IF conclusion # "none" THEN conclusion
    ELSE IF old THEN "no_applicable_workflow" ELSE "unknown"

\* What the CI has for the commit now, and whether the commit is older than two
\* minutes: then it was there when the dispatch began.  No answer of the
\* service is no error of git_finalize.
CheckCI(conclusion, old) ==
    /\ job.pc = "ci"
    /\ conclusion # "none" => IsPrefix(job.sha, remote)
    /\ job.sha = marker => conclusion = run
    /\ old => job.sha = job.before
    /\ IF CIStatus(conclusion, old) \in {"success", "no_applicable_workflow"}
       THEN marker' = job.sha /\ run' = conclusion
       ELSE UNCHANGED ci
    /\ Answer(TRUE)
    /\ UNCHANGED <<worktree, refs, remote, mishaps>>

-----------------------------------------------------------------------------
(* Everybody else *)

Written == tree \cup index \cup EditsOf(head) \cup EditsOf(remote)
              \cup (IF rebasing = None THEN {} ELSE EditsOf(rebasing))

\* Another process writes a file of this checkout.
Edit(e) ==
    /\ e \in Mine \ Written
    /\ tree' = tree \cup {e}
    /\ UNCHANGED <<index, refs, remote, ci, job, mishaps>>

\* Somebody commits by hand, though not in the middle of a rebase.
CommitByHand ==
    /\ Dirty /\ rebasing = None
    /\ head' = Append(head, tree \cup index)
    /\ tree' = {} /\ index' = {}
    /\ UNCHANGED <<rebasing, tracking, remote, ci, job, mishaps>>

PushFromElsewhere(e) ==
    /\ e \in Theirs \ EditsOf(remote)
    /\ Cardinality(Theirs \cap EditsOf(remote)) < MaxTheirs
    /\ remote' = Append(remote, {e})
    /\ UNCHANGED <<worktree, refs, ci, job, mishaps>>

\* CI takes up the commit the marker names, if main has been at it, and
\* concludes.
RunStarts ==
    /\ marker # None /\ run = "none" /\ IsPrefix(marker, remote)
    /\ run' = "pending"
    /\ UNCHANGED <<worktree, refs, remote, marker, job, mishaps>>

RunEnds(conclusion) ==
    /\ run = "pending"
    /\ run' = conclusion
    /\ UNCHANGED <<worktree, refs, remote, marker, job, mishaps>>

Kill ==
    /\ job.pc # "idle" /\ mishaps < MaxMishaps
    /\ mishaps' = mishaps + 1
    /\ job' = Idle
    /\ UNCHANGED <<worktree, refs, remote, ci>>

-----------------------------------------------------------------------------
Step ==
    \/ \E dirty \in BOOLEAN, notes \in BOOLEAN : Probe(dirty, notes)
    \/ Add("add", "commit") \/ Commit \/ CommitFails \/ CheckMoved \/ CheckAhead
    \/ \E dirty \in BOOLEAN : Leftover(dirty) \/ ProbeClean(dirty) \/ CheckRebased(dirty)
    \/ Add("restage", "amend") \/ Amend
    \/ Fetch \/ Push \/ PushRejected \/ PullRebase \/ PullFails \/ AbortRebase
    \/ HeadAfterPush \/ VerifyLanded \/ HeadForCI
    \/ \E conclusion \in Runs, old \in BOOLEAN : CheckCI(conclusion, old)

Next ==
    \/ \E v \in Verbs : Start(v)
    \/ Step
    \/ \E e \in Mine : Edit(e)
    \/ CommitByHand
    \/ \E e \in Theirs : PushFromElsewhere(e)
    \/ RunStarts \/ (\E conclusion \in {"success", "failure"} : RunEnds(conclusion))
    \/ Kill

\* Work is finalized again and again, and a dispatch goes on; nothing is asked
\* of anybody else.
Spec == Init /\ [][Next]_vars /\ WF_vars(Step) /\ SF_vars(Start("finalize"))

-----------------------------------------------------------------------------
\* What a dispatch answers as pushed is on origin: the HEAD it saw, and all it
\* committed itself, rebased or amended (verify_push_landed).
PushedMeansLanded ==
    [][job'.pushed /\ ~job.pushed =>
          /\ IsPrefix(job.seen, remote)
          /\ job.mine = None \/ job.mine \subseteq EditsOf(remote)]_vars

\* What was committed stays committed, here or on origin, through rebases that
\* fail and are aborted, unless a killed dispatch left the rebase.
CommittedStays ==
    [][LET kept == EditsOf(head) \cup EditsOf(remote)
                     \cup (IF rebasing = None THEN {} ELSE EditsOf(rebasing))
       IN ~(job.pc = "abort" /\ ~job.conflict) => kept \subseteq kept']_vars

Clash == Files(Theirs \cap EditsOf(remote)) \cap Files(Mine \cap Written) # {}

\* What is written here reaches origin, whatever fails or is killed on the way,
\* unless somebody else has changed the same file.
Delivers == \A e \in Mine : (e \in Written) ~> (e \in EditsOf(remote) \/ Clash)

\* The marker names a commit on main whose CI does not fail ("a witnessed-green
\* CI run for the exact pushed commit", transitions.rs:37).
MarkerVouches ==
    marker # None =>
        /\ IsPrefix(marker, remote)
        /\ run \in {"none", "success"}
=============================================================================
