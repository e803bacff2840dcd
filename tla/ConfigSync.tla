------------------------------ MODULE ConfigSync ------------------------------
(***************************************************************************)
(* The checkout of a repo-sourced config (config_sync.rs): processes that  *)
(* share one cache directory call ensure_current on every resolution; one  *)
(* of them, under a lock directory, probes the remote, clones into a       *)
(* staging directory and publishes it by two renames.                      *)
(*                                                                         *)
(* A directory is Absent, Partial (a clone that did not end) or the        *)
(* revision it holds.  Every file operation is a step; a process may be    *)
(* killed between two of them and a new one may run in its place.  Time is *)
(* flags: the probe of the source is due, the lock is older than           *)
(* LOCK_STALE_MS, a notice is older than a day.                            *)
(*                                                                         *)
(* A new revision is announced to the sessions of the project by a notice  *)
(* that their instruction dispatches drain (ConfigNotify).                 *)
(***************************************************************************)
EXTENDS Naturals, FiniteSets, ConfigNotify

CONSTANTS
    Procs,          \* processes that resolve the config
    MaxRevision,    \* bound: revisions the remote has in the end
    Settings,       \* what goes on around the checkout
    None, Absent, Partial

\* together: processes run at the same time; sessions: whose dispatches drain
\* notices, none of them while a process is at work; network: the remote may be
\* unreachable; crashes, failures: bounds on processes killed and on renames
\* and writes of the sync state that fail.
SettingType ==
    [together : BOOLEAN, sessions : SUBSET STRING, network : BOOLEAN,
     crashes : Nat, failures : Nat]

Revisions == 1 .. MaxRevision
Dirs == Revisions \cup {Absent, Partial}

ASSUME ConfigSyncAssumption ==
    /\ MaxRevision \in Nat \ {0}
    /\ Absent # Partial /\ {None, Absent, Partial} \cap Revisions = {}
    /\ None \notin {"fresh", "stale"}
    /\ MaxRecords \in Nat \ {0} /\ MaxDeliveredTo \in Nat \ {0}
    /\ \A s \in Settings : s \in SettingType

VARIABLES
    setting,    \* the one that goes on
    remote,     \* the revision the remote's ref is at
    live,       \* cache_dir
    staging,    \* the .staging directory
    retired,    \* the .retired directory
    lock,       \* the .lock directory: None, or whether it is stale
    due,        \* the persisted sync state allows a probe
    notices,    \* the file of config_notify
    notified,   \* history: revisions that were recorded in it
    expired,    \* history: those whose record grew a day old
    told,       \* history: what the dispatches of each session were handed
    proc,       \* what each process is doing
    best,       \* history: the newest revision that was ever live
    crashes,    \* how many processes were killed
    failures    \* how many renames failed

dirs == <<live, staging, retired>>
news == <<notices, notified, expired, told>>
vars == <<setting, remote, live, staging, retired, lock, due, notices, notified, expired, told,
          proc, best, crashes, failures>>

Good(dir) == dir \in Revisions

Fresh == [pc |-> "idle", due |-> FALSE, have |-> None, target |-> None, seen |-> <<>>,
          answer |-> "none"]

Locked == {"recover", "sweep", "look", "probe", "clone", "cloning", "retire", "move",
           "publish", "unwind", "discard", "clear", "record", "write", "unlock"}

\* Type invariant: the directories, the lock and what each process is doing.
TypeOK ==
    /\ setting \in Settings
    /\ remote \in Revisions
    /\ {live, staging, retired} \subseteq Dirs
    /\ lock \in {None, "fresh", "stale"}
    /\ due \in BOOLEAN
    /\ notified \subseteq Revisions /\ expired \subseteq notified
    /\ \A n \in ToSet(notices) : n.rev \in Revisions
    /\ \A s \in setting.sessions : told[s] \in Seq(Revisions)
    /\ best \in 0 .. MaxRevision
    /\ crashes \in 0 .. setting.crashes
    /\ failures \in 0 .. setting.failures
    /\ \A p \in Procs :
         /\ proc[p].pc \in {"idle", "local", "lock", "steal", "remake", "save"} \cup Locked
         /\ proc[p].due \in BOOLEAN
         /\ proc[p].have \in Revisions \cup {None}
         /\ proc[p].target \in Revisions \cup {None}
         /\ proc[p].answer \in {"none", "ok", "err"}

Init ==
    /\ setting \in Settings
    /\ remote = 1
    /\ live = Absent /\ staging = Absent /\ retired = Absent
    /\ lock = None
    /\ due = TRUE
    /\ notices = <<>>
    /\ notified = {} /\ expired = {}
    /\ told = [s \in setting.sessions |-> <<>>]
    /\ proc = [p \in Procs |-> Fresh]
    /\ best = 0
    /\ crashes = 0
    /\ failures = 0

-----------------------------------------------------------------------------
Goto(p, pc) == proc' = [proc EXCEPT ![p].pc = pc]

Answer(p, a) == proc' = [proc EXCEPT ![p] = [Fresh EXCEPT !.answer = a]]

\* The answer is kept while the lock is released and the state saved.
Conclude(p, a) == proc' = [proc EXCEPT ![p].pc = "unlock", ![p].answer = a]

Newest(n, dir) == IF Good(dir) /\ dir > n THEN dir ELSE n

SetLive(dir) == live' = dir /\ best' = Newest(best, dir)

RenameFails == failures < setting.failures /\ failures' = failures + 1

\* local_sha: rev-parse answers for a complete checkout only.
LocalSha == IF Good(live) THEN live ELSE None

Quiet == \A p \in Procs : proc[p].pc = "idle"

\* ensure_current reads the sync state and then the checkout.
Call(p) ==
    /\ proc[p].pc = "idle"
    /\ setting.together \/ Quiet
    /\ proc' = [proc EXCEPT ![p] = [Fresh EXCEPT !.pc = "local", !.due = due]]
    /\ UNCHANGED <<setting, remote, dirs, lock, due, news, best, crashes, failures>>

ReadLocal(p) ==
    /\ proc[p].pc = "local"
    /\ IF LocalSha # None /\ ~proc[p].due
       THEN Answer(p, "ok")
       ELSE proc' = [proc EXCEPT ![p].pc = "lock", ![p].have = LocalSha]
    /\ UNCHANGED <<setting, remote, dirs, lock, due, news, best, crashes, failures>>

\* A loser serves what it saw before.
Busy(p) == Answer(p, IF proc[p].have # None THEN "ok" ELSE "err")

\* Mutant: a lock that is there is respected however old it is.
TryLockOnly(p) ==
    /\ proc[p].pc = "lock"
    /\ IF lock = None
       THEN lock' = "fresh" /\ Goto(p, "recover")
       ELSE Busy(p) /\ UNCHANGED lock
    /\ UNCHANGED <<setting, remote, dirs, due, news, best, crashes, failures>>

\* Mutant: the lock is a file that is written, which succeeds for everyone.
TryLockByWrite(p) ==
    /\ proc[p].pc = "lock"
    /\ lock' = "fresh"
    /\ Goto(p, "recover")
    /\ UNCHANGED <<setting, remote, dirs, due, news, best, crashes, failures>>

\* try_lock: mkdir, or stat when the directory is there.
TryLock(p) ==
    /\ proc[p].pc = "lock"
    /\ CASE lock = None    -> lock' = "fresh" /\ Goto(p, "recover")
         [] lock = "fresh" -> Busy(p) /\ UNCHANGED lock
         [] lock = "stale" -> Goto(p, "steal") /\ UNCHANGED lock
    /\ UNCHANGED <<setting, remote, dirs, due, news, best, crashes, failures>>

\* The stale directory, or whatever has its name by now, is renamed aside; when
\* nothing has the name the rename fails and the lock is busy.
StealLock(p) ==
    /\ proc[p].pc = "steal"
    /\ IF lock = None THEN Busy(p) ELSE Goto(p, "remake")
    /\ lock' = None
    /\ UNCHANGED <<setting, remote, dirs, due, news, best, crashes, failures>>

\* The second mkdir may find that another process was faster.
RemakeLock(p) ==
    /\ proc[p].pc = "remake"
    /\ IF lock = None
       THEN lock' = "fresh" /\ Goto(p, "recover")
       ELSE Busy(p) /\ UNCHANGED lock
    /\ UNCHANGED <<setting, remote, dirs, due, news, best, crashes, failures>>

\* Mutant: a retired checkout comes back even where it was replaced.
RestoreAlways(p) ==
    /\ proc[p].pc = "recover"
    /\ IF retired # Absent
       THEN SetLive(retired) /\ retired' = Absent
       ELSE UNCHANGED <<live, best, retired>>
    /\ Goto(p, "sweep")
    /\ UNCHANGED <<setting, remote, staging, lock, due, news, crashes, failures>>

\* recover_stranded: a checkout that was moved aside and not replaced comes
\* back, one that was replaced is removed.
RecoverRetired(p) ==
    /\ proc[p].pc = "recover"
    /\ IF retired # Absent /\ live = Absent
       THEN \/ SetLive(retired) /\ retired' = Absent /\ UNCHANGED failures
            \/ RenameFails /\ UNCHANGED <<live, retired, best>>
       ELSE retired' = Absent /\ UNCHANGED <<live, best, failures>>
    /\ Goto(p, "sweep")
    /\ UNCHANGED <<setting, remote, staging, lock, due, news, crashes>>

SweepStaging(p) ==
    /\ proc[p].pc = "sweep"
    /\ staging' = Absent
    /\ Goto(p, "look")
    /\ UNCHANGED <<setting, remote, live, retired, lock, due, news, best, crashes, failures>>

LookAgain(p) ==
    /\ proc[p].pc = "look"
    /\ proc' = [proc EXCEPT ![p].pc = "probe",
                            ![p].have = IF LocalSha # None THEN LocalSha ELSE @]
    /\ UNCHANGED <<setting, remote, dirs, lock, due, news, best, crashes, failures>>

\* git ls-remote.
Probe(p) ==
    /\ proc[p].pc = "probe"
    /\ \/ /\ proc[p].have = remote
          /\ Conclude(p, "ok")
       \/ /\ proc[p].have # remote
          /\ proc' = [proc EXCEPT ![p].pc = "clone", ![p].target = remote]
       \/ /\ setting.network
          /\ Conclude(p, IF proc[p].have # None THEN "ok" ELSE "err")
    /\ UNCHANGED <<setting, remote, dirs, lock, due, news, best, crashes, failures>>

\* materialize: the clone takes what the ref is at when it runs.
StartClone(p) ==
    /\ proc[p].pc = "clone"
    /\ staging' = Partial
    /\ Goto(p, "cloning")
    /\ UNCHANGED <<setting, remote, live, retired, lock, due, news, best, crashes, failures>>

FinishClone(p) ==
    /\ proc[p].pc = "cloning"
    /\ \/ staging' = remote /\ Goto(p, "retire")
       \/ setting.network /\ Goto(p, "discard") /\ UNCHANGED staging
    /\ UNCHANGED <<setting, remote, live, retired, lock, due, news, best, crashes, failures>>

\* Mutant: the live checkout is removed, not moved aside.
RemoveLive(p) ==
    /\ proc[p].pc = "move"
    /\ live' = Absent
    /\ Goto(p, "publish")
    /\ UNCHANGED <<setting, remote, staging, retired, lock, due, news, best, crashes, failures>>

\* publish_staged: what is left of an earlier publish is removed, ...
RemoveLeftover(p) ==
    /\ proc[p].pc = "retire"
    /\ retired' = Absent
    /\ Goto(p, "move")
    /\ UNCHANGED <<setting, remote, live, staging, lock, due, news, best, crashes, failures>>

\* ... the live checkout is moved aside, ...
RetireLive(p) ==
    /\ proc[p].pc = "move"
    /\ \/ /\ live = Absent
          /\ Goto(p, "publish")
          /\ UNCHANGED <<live, retired, failures>>
       \/ /\ live # Absent
          /\ retired' = live /\ live' = Absent
          /\ Goto(p, "publish")
          /\ UNCHANGED failures
       \/ /\ live # Absent /\ RenameFails
          /\ Goto(p, "discard")
          /\ UNCHANGED <<live, retired>>
    /\ UNCHANGED <<setting, remote, staging, lock, due, news, best, crashes>>

\* ... and the staged one moved in its place; a rename does not replace a
\* directory that is there.
PublishStaged(p) ==
    /\ proc[p].pc = "publish"
    /\ \/ /\ live = Absent /\ staging # Absent
          /\ SetLive(staging) /\ staging' = Absent
          /\ Goto(p, "clear")
          /\ UNCHANGED failures
       \/ /\ IF live = Absent /\ staging # Absent
             THEN RenameFails
             ELSE UNCHANGED failures
          /\ Goto(p, "unwind")
          /\ UNCHANGED <<live, best, staging>>
    /\ UNCHANGED <<setting, remote, retired, lock, due, news, crashes>>

Unwind(p) ==
    /\ proc[p].pc = "unwind"
    /\ IF retired # Absent /\ live = Absent
       THEN \/ SetLive(retired) /\ retired' = Absent /\ UNCHANGED failures
            \/ RenameFails /\ UNCHANGED <<live, retired, best>>
       ELSE UNCHANGED <<live, retired, best, failures>>
    /\ Goto(p, "discard")
    /\ UNCHANGED <<setting, remote, staging, lock, due, news, crashes>>

\* The failure path: without a usable checkout the call is an error.
Discard(p) ==
    /\ proc[p].pc = "discard"
    /\ staging' = Absent
    /\ Conclude(p, IF LocalSha # None THEN "ok" ELSE "err")
    /\ UNCHANGED <<setting, remote, live, retired, lock, due, news, best, crashes, failures>>

ClearRetired(p) ==
    /\ proc[p].pc = "clear"
    /\ retired' = Absent
    /\ Goto(p, "record")
    /\ UNCHANGED <<setting, remote, live, staging, lock, due, news, best, crashes, failures>>

\* Mutant: what is announced is the revision the probe answered.
RecordProbed(p) ==
    /\ proc[p].pc = "write"
    /\ notices' = Recorded(proc[p].seen, proc[p].target)
    /\ notified' = notified \cup {proc[p].target}
    /\ Conclude(p, "ok")
    /\ UNCHANGED <<setting, remote, dirs, lock, due, expired, told, best, crashes, failures>>

\* record_change for the revision that is live now, unless it was before.
ReadNotices(p) ==
    LET now == IF LocalSha # None THEN LocalSha ELSE proc[p].target
    IN /\ proc[p].pc = "record"
       /\ IF now = proc[p].have THEN Conclude(p, "ok")
          ELSE proc' = [proc EXCEPT ![p].pc = "write", ![p].seen = notices]
       /\ UNCHANGED <<setting, remote, dirs, lock, due, news, best, crashes, failures>>

RecordChange(p) ==
    LET now == IF LocalSha # None THEN LocalSha ELSE proc[p].target
    IN /\ proc[p].pc = "write"
       /\ notices' = Recorded(proc[p].seen, now)
       /\ notified' = notified \cup {now}
       /\ proc' = [proc EXCEPT ![p].pc = "unlock", ![p].answer = "ok", ![p].seen = <<>>]
       /\ UNCHANGED <<setting, remote, dirs, lock, due, expired, told, best, crashes, failures>>

\* unlock removes the directory, whoever made it.
Unlock(p) ==
    /\ proc[p].pc = "unlock"
    /\ lock' = None
    /\ Goto(p, "save")
    /\ UNCHANGED <<setting, remote, dirs, due, news, best, crashes, failures>>

\* write_state, by a rename of its own, which may fail.
SaveState(p) ==
    /\ proc[p].pc = "save"
    /\ \/ due' = FALSE /\ UNCHANGED failures
       \/ RenameFails /\ UNCHANGED due
    /\ Answer(p, proc[p].answer)
    /\ UNCHANGED <<setting, remote, dirs, lock, news, best, crashes>>

-----------------------------------------------------------------------------
\* The process is killed; another may call in its place.
Crash(p) ==
    /\ crashes < setting.crashes
    /\ proc[p].pc # "idle"
    /\ crashes' = crashes + 1
    /\ proc' = [proc EXCEPT ![p] = Fresh]
    /\ UNCHANGED <<setting, remote, dirs, lock, due, news, best, failures>>

Holders == {p \in Procs : proc[p].pc \in Locked}

\* A refresh is assumed to end within LOCK_STALE_MS (ten minutes), so that only
\* the lock of a killed process grows stale.
LockGrowsStale ==
    /\ lock = "fresh"
    /\ Holders = {}
    /\ lock' = "stale"
    /\ UNCHANGED <<setting, remote, dirs, due, news, proc, best, crashes, failures>>

DebounceElapses ==
    /\ ~due
    /\ due' = TRUE
    /\ UNCHANGED <<setting, remote, dirs, lock, news, proc, best, crashes, failures>>

RemoteMoves ==
    /\ remote < MaxRevision
    /\ remote' = remote + 1
    /\ UNCHANGED <<setting, dirs, lock, due, news, proc, best, crashes, failures>>

\* An instruction dispatch of a session drains what it has not seen.
Drain(s) ==
    /\ s \in setting.sessions
    /\ Quiet
    /\ notices' = Drained(notices, s)
    /\ told' = [told EXCEPT ![s] = @ \o SetToSeq(Undelivered(notices, s))]
    /\ UNCHANGED <<setting, remote, dirs, lock, due, notified, expired, proc, best, crashes, failures>>

\* A notice is a day old.  The ones before it are, too.
NoticeAges ==
    /\ setting.sessions # {}
    /\ \E i \in DOMAIN notices :
         /\ ~notices[i].old /\ \A k \in 1 .. i - 1 : notices[k].old
         /\ notices' = [notices EXCEPT ![i].old = TRUE]
         /\ expired' = expired \cup {notices[i].rev}
    /\ UNCHANGED <<setting, remote, dirs, lock, due, notified, told, proc, best, crashes,
                   failures>>

Step(p) ==
    \/ ReadLocal(p) \/ TryLock(p) \/ StealLock(p) \/ RemakeLock(p)
    \/ RecoverRetired(p) \/ SweepStaging(p) \/ LookAgain(p) \/ Probe(p)
    \/ StartClone(p) \/ FinishClone(p) \/ RemoveLeftover(p) \/ RetireLive(p) \/ PublishStaged(p)
    \/ Unwind(p) \/ Discard(p) \/ ClearRetired(p) \/ ReadNotices(p)
    \/ RecordChange(p) \/ Unlock(p) \/ SaveState(p)

Next ==
    \/ \E p \in Procs : Call(p) \/ Step(p) \/ Crash(p)
    \/ LockGrowsStale \/ DebounceElapses \/ RemoteMoves
    \/ (\E s \in setting.sessions : Drain(s)) \/ NoticeAges

\* A process runs on, configs keep being resolved, time passes.
Fairness ==
    /\ \A p \in Procs : WF_vars(Step(p)) /\ WF_vars(Call(p))
    /\ WF_vars(LockGrowsStale) /\ WF_vars(DebounceElapses)

Spec == Init /\ [][Next]_vars /\ Fairness

-----------------------------------------------------------------------------
\* The lock directory admits one process to the git work at a time, as long as
\* no holder was killed (afterwards two may take the stale lock).
OneHolder == crashes = 0 => Cardinality(Holders) <= 1

\* recover_stranded does not look whether its rename succeeded.  Where it fails after
\* a publish that was killed, or after one that failed twice, the next publish_staged
\* removes the last good checkout as a leftover.
RecoveryWorks == failures = 0 \/ (crashes = 0 /\ failures <= 2)

\* Up to there a checkout, once there, is not lost: it is live or moved aside, through
\* every failure and kill in the middle of a publish.
GoodCopyKept == best > 0 /\ RecoveryWorks => Good(live) \/ Good(retired)

\* What is served never goes back to an older revision.
ServedNeverOlder == Good(live) => live = best

\* When nobody is refreshing, the revision that is served has been announced;
\* a refresh killed between its publish and its record never announces it.
ChangesAnnounced ==
    crashes = 0 /\ Holders = {} /\ Good(live) => live \in notified

\* "A session is notified exactly once and never again" (config_notify.rs:16),
\* whatever other sessions were handed before: a recorded change has been handed
\* to a session once, or is among what its next dispatch drains, unless it was a
\* day old or MAX_RECORDS newer ones came before the session did.
ToldExactlyOnce ==
    \A s \in setting.sessions :
        LET ahead == Undelivered(notices, s)
        IN /\ IsInjective(told[s]) /\ ToSet(told[s]) \cap ahead = {}
           /\ \A rev \in notified \ (ToSet(told[s]) \cup ahead) :
                 \/ rev \in expired
                 \/ Cardinality({n \in notified : n > rev}) >= MaxRecords

\* Once there was a checkout, one is served again whatever was killed in the
\* middle of a refresh, with no help from the network.
ServesAgain == (best > 0) ~> (Good(live) \/ ~RecoveryWorks)
=============================================================================
