-------------------------- MODULE ConfigSync_proofs --------------------------
(***************************************************************************)
(* The checkout of a config, for any number of processes, revisions and    *)
(* failing renames.                                                        *)
(*                                                                         *)
(* Who is between taking the lock directory and removing it works on the   *)
(* directories alone, so what they hold can be said from where that one    *)
(* process is (Stocked, Safe, Announced).  What it is about to announce is *)
(* newer than all that was (Told), and so the file of the notices stays in *)
(* the order of the revisions (Book).                                      *)
(***************************************************************************)
EXTENDS ConfigSync, FiniteSetTheorems, SequenceTheorems, WellFoundedInduction, TLAPS

Pcs == {"idle", "local", "lock", "steal", "remake", "save"} \cup Locked

Fields == {"pc", "due", "have", "target", "seen", "answer"}

\* The part of a process the lock and the directories depend on.
Shaped ==
    /\ DOMAIN proc = Procs
    /\ \A p \in Procs : DOMAIN proc[p] = Fields
    /\ proc = [p \in Procs |-> proc[p]]

Others(p) == DOMAIN proc' = Procs /\ \A q \in Procs \ {p} : proc'[q] = proc[q]

At(p, pc) == proc[p].pc = pc

LEMMA GotoMoves ==
    ASSUME Shaped, NEW p \in Procs, NEW pc, Goto(p, pc)
    PROVE  /\ Shaped' /\ Others(p) /\ proc'[p].pc = pc
           /\ proc'[p].have = proc[p].have /\ proc'[p].target = proc[p].target
  BY DEF Shaped, Goto, Others, Fields

LEMMA AnswerMoves ==
    ASSUME Shaped, NEW p \in Procs, NEW a, Answer(p, a)
    PROVE  Shaped' /\ Others(p) /\ proc'[p].pc = "idle" /\ proc'[p].have = None
  BY DEF Shaped, Answer, Others, Fields, Fresh

LEMMA ConcludeMoves ==
    ASSUME Shaped, NEW p \in Procs, NEW a, Conclude(p, a)
    PROVE  /\ Shaped' /\ Others(p) /\ proc'[p].pc = "unlock"
           /\ proc'[p].have = proc[p].have
  BY DEF Shaped, Conclude, Others, Fields

-----------------------------------------------------------------------------
(***************************************************************************)
(* Who holds the lock.                                                     *)
(***************************************************************************)

Typed ==
    /\ setting \in Settings
    /\ remote \in Revisions
    /\ crashes \in Nat /\ failures \in Nat
    /\ crashes <= setting.crashes
    /\ lock \in {None, "fresh", "stale"}
    /\ \A p \in Procs : proc[p].pc \in Pcs

\* No two hold it; nobody is at work twice where processes run in turn.
One == \A p, q \in Procs : proc[p].pc \in Locked /\ proc[q].pc \in Locked => p = q

Alone ==
    ~setting.together =>
        \A p, q \in Procs : proc[p].pc # "idle" /\ proc[q].pc # "idle" => p = q

\* Until a process is killed the lock is there while it is held and no longer.
Held ==
    crashes = 0 =>
        /\ One
        /\ lock # None <=> \E p \in Procs : proc[p].pc \in Locked
        /\ lock # "stale"
        /\ \A p \in Procs : proc[p].pc \notin {"steal", "remake"}

LockInv == Shaped /\ Typed /\ Alone /\ Held

Inside(p) ==
    proc[p].pc \in Locked /\ proc'[p].pc \in Locked /\ lock' = lock
Enters(p) ==
    /\ proc[p].pc \in {"lock", "remake"} /\ proc'[p].pc = "recover"
    /\ lock = None /\ lock' = "fresh"
Leaves(p) ==
    proc[p].pc = "unlock" /\ proc'[p].pc = "save" /\ lock' = None
Outside(p) ==
    /\ proc[p].pc \notin Locked /\ proc'[p].pc \notin Locked \cup {"remake"}
    /\ proc'[p].pc = "steal" => lock = "stale"
    /\ lock' = lock
Steals(p) ==
    /\ proc[p].pc = "steal" /\ proc'[p].pc \in {"idle", "remake"}
    /\ lock' = None

Path(p) == Inside(p) \/ Enters(p) \/ Leaves(p) \/ Outside(p) \/ Steals(p)

Walks(p) ==
    /\ Shaped' /\ Others(p) /\ Path(p)
    /\ proc[p].pc # "idle" /\ proc'[p].pc \in Pcs
    /\ setting' = setting /\ remote' = remote /\ crashes' = crashes
    /\ failures' \in Nat /\ failures' >= failures

\* Every step of a process takes, keeps or gives back the lock, or has nothing to do
\* with it.
LEMMA StepWalks ==
    ASSUME ConfigSyncAssumption, Shaped, Typed, NEW p \in Procs, Step(p)
    PROVE  Walks(p)
<1> USE DEF Pcs, Locked
<1>0. failures \in Nat BY DEF Typed
<1>1. CASE ReadLocal(p)
  <2>1. Shaped' /\ Others(p) /\ proc'[p].pc \in {"idle", "lock"}
    <3>1. CASE Answer(p, "ok") BY <3>1, AnswerMoves
    <3>2. CASE proc' = [proc EXCEPT ![p].pc = "lock", ![p].have = LocalSha]
      BY <3>2 DEF Shaped, Others, Fields
    <3> QED BY <1>1, <3>1, <3>2 DEF ReadLocal
  <2> QED BY <1>0, <1>1, <2>1 DEF ReadLocal, Walks, Path, Outside
<1>2. CASE TryLock(p)
  <2>1. CASE lock = None /\ lock' = "fresh" /\ Goto(p, "recover")
    BY <1>0, <1>2, <2>1, GotoMoves DEF TryLock, Walks, Path, Enters
  <2>2. CASE Busy(p) /\ UNCHANGED lock
    <3>1. PICK a : Answer(p, a) BY <2>2 DEF Busy
    <3> QED BY <1>0, <1>2, <2>2, <3>1, AnswerMoves DEF TryLock, Walks, Path, Outside
  <2>3. CASE lock = "stale" /\ Goto(p, "steal") /\ UNCHANGED lock
    BY <1>0, <1>2, <2>3, GotoMoves DEF TryLock, Walks, Path, Outside
  <2>4. CASE ~(lock = None) /\ ~(lock = "fresh") /\ ~(lock = "stale")
    BY <2>4 DEF Typed
  <2> QED BY <1>2, <2>1, <2>2, <2>3, <2>4 DEF TryLock
<1>3. CASE StealLock(p)
  <2>1. Shaped' /\ Others(p) /\ proc'[p].pc \in {"idle", "remake"}
    <3>1. CASE Busy(p)
      <4>1. PICK a : Answer(p, a) BY <3>1 DEF Busy
      <4> QED BY <4>1, AnswerMoves
    <3>2. CASE Goto(p, "remake") BY <3>2, GotoMoves
    <3> QED BY <1>3, <3>1, <3>2 DEF StealLock
  <2> QED BY <1>0, <1>3, <2>1 DEF StealLock, Walks, Path, Steals
<1>4. CASE RemakeLock(p)
  <2>1. CASE lock = None /\ lock' = "fresh" /\ Goto(p, "recover")
    BY <1>0, <1>4, <2>1, GotoMoves DEF RemakeLock, Walks, Path, Enters
  <2>2. CASE Busy(p) /\ UNCHANGED lock
    <3>1. PICK a : Answer(p, a) BY <2>2 DEF Busy
    <3> QED BY <1>0, <1>4, <2>2, <3>1, AnswerMoves DEF RemakeLock, Walks, Path, Outside
  <2> QED BY <1>4, <2>1, <2>2 DEF RemakeLock
<1>5. CASE Unlock(p)
  BY <1>0, <1>5, GotoMoves DEF Unlock, Walks, Path, Leaves
<1>6. CASE SaveState(p)
  <2>1. failures' \in Nat /\ failures' >= failures BY <1>0, <1>6 DEF SaveState, RenameFails
  <2> QED BY <1>6, <2>1, AnswerMoves DEF SaveState, Walks, Path, Outside
<1>7. ASSUME /\ proc[p].pc \in Locked
             /\ Shaped' /\ Others(p) /\ proc'[p].pc \in Locked
             /\ lock' = lock /\ setting' = setting /\ remote' = remote /\ crashes' = crashes
             /\ UNCHANGED failures \/ RenameFails
      PROVE  Walks(p)
  <2>1. failures' \in Nat /\ failures' >= failures BY <1>0, <1>7 DEF RenameFails
  <2> QED BY <1>7, <2>1 DEF Walks, Path, Inside
<1>8. CASE RecoverRetired(p) BY <1>7, <1>8, GotoMoves DEF RecoverRetired
<1>9. CASE SweepStaging(p) BY <1>7, <1>9, GotoMoves DEF SweepStaging
<1>10. CASE LookAgain(p)
  <2>1. Shaped' /\ Others(p) /\ proc'[p].pc = "probe"
    BY <1>10 DEF LookAgain, Shaped, Others, Fields
  <2> QED BY <1>7, <1>10, <2>1 DEF LookAgain
<1>11. CASE Probe(p)
  <2>1. Shaped' /\ Others(p) /\ proc'[p].pc \in {"unlock", "clone"}
    <3>1. CASE Conclude(p, "ok") BY <3>1, ConcludeMoves
    <3>2. CASE proc' = [proc EXCEPT ![p].pc = "clone", ![p].target = remote]
      BY <3>2 DEF Shaped, Others, Fields
    <3>3. CASE Conclude(p, IF proc[p].have # None THEN "ok" ELSE "err")
      BY <3>3, ConcludeMoves
    <3> QED BY <1>11, <3>1, <3>2, <3>3 DEF Probe
  <2> QED BY <1>7, <1>11, <2>1 DEF Probe
<1>12. CASE StartClone(p) BY <1>7, <1>12, GotoMoves DEF StartClone
<1>13. CASE FinishClone(p) BY <1>7, <1>13, GotoMoves DEF FinishClone
<1>14. CASE RemoveLeftover(p) BY <1>7, <1>14, GotoMoves DEF RemoveLeftover
<1>15. CASE RetireLive(p) BY <1>7, <1>15, GotoMoves DEF RetireLive
<1>16. CASE PublishStaged(p) BY <1>7, <1>16, GotoMoves DEF PublishStaged
<1>17. CASE Unwind(p) BY <1>7, <1>17, GotoMoves DEF Unwind
<1>18. CASE Discard(p) BY <1>7, <1>18, ConcludeMoves DEF Discard
<1>19. CASE ClearRetired(p) BY <1>7, <1>19, GotoMoves DEF ClearRetired
<1>20. CASE ReadNotices(p)
  <2>1. Shaped' /\ Others(p) /\ proc'[p].pc \in {"unlock", "write"}
    <3>1. CASE Conclude(p, "ok") BY <3>1, ConcludeMoves
    <3>2. CASE proc' = [proc EXCEPT ![p].pc = "write", ![p].seen = notices]
      BY <3>2 DEF Shaped, Others, Fields
    <3> QED BY <1>20, <3>1, <3>2 DEF ReadNotices
  <2> QED BY <1>7, <1>20, <2>1 DEF ReadNotices
<1>21. CASE RecordChange(p)
  <2>1. Shaped' /\ Others(p) /\ proc'[p].pc = "unlock"
    BY <1>21 DEF RecordChange, Shaped, Others, Fields
  <2> QED BY <1>7, <1>21, <2>1 DEF RecordChange
<1> QED
  BY <1>1, <1>2, <1>3, <1>4, <1>5, <1>6, <1>8, <1>9, <1>10, <1>11, <1>12, <1>13, <1>14,
     <1>15, <1>16, <1>17, <1>18, <1>19, <1>20, <1>21 DEF Step

LEMMA WalkKeepsLock ==
    ASSUME ConfigSyncAssumption, LockInv, NEW p \in Procs, Walks(p)
    PROVE  LockInv'
<1> USE DEF Pcs, Locked
<1>1. Shaped' BY DEF Walks
<1>2. Typed'
  <2>1. lock' \in {None, "fresh", "stale"}
    BY DEF Walks, LockInv, Typed, Path, Inside, Enters, Leaves, Outside, Steals
  <2>2. \A q \in Procs : proc'[q].pc \in Pcs
    BY DEF Walks, Others, LockInv, Typed
  <2> QED BY <2>1, <2>2 DEF LockInv, Typed, Walks
<1>3. Alone' BY DEF LockInv, Alone, Walks, Others
<1>4. Held'
  <2> SUFFICES ASSUME crashes = 0 PROVE Held' BY DEF Held, Walks
  <2>0. /\ One /\ lock # "stale" /\ None \notin {"fresh", "stale"}
        /\ lock # None <=> \E q \in Procs : proc[q].pc \in Locked
        /\ \A q \in Procs : proc[q].pc \notin {"steal", "remake"}
    BY DEF LockInv, Held, ConfigSyncAssumption
  <2>1. \A q \in Procs \ {p} : proc'[q] = proc[q] BY DEF Walks, Others
  <2>2. CASE Inside(p) BY <2>0, <2>1, <2>2 DEF Inside, Held, One
  <2>3. CASE Enters(p) BY <2>0, <2>1, <2>3 DEF Enters, Held, One
  <2>4. CASE Leaves(p)
    <3>1. \A q \in Procs : proc'[q].pc \notin Locked BY <2>0, <2>1, <2>4 DEF Leaves, One
    <3> QED BY <2>0, <2>1, <2>4, <3>1 DEF Leaves, Held, One
  <2>5. CASE Outside(p) BY <2>0, <2>1, <2>5 DEF Outside, Held, One
  <2>6. CASE Steals(p) BY <2>0, <2>6 DEF Steals
  <2> QED BY <2>2, <2>3, <2>4, <2>5, <2>6 DEF Walks, Path
<1> QED BY <1>1, <1>2, <1>3, <1>4 DEF LockInv

\* Calls, kills and what time does leave the lock with who holds it.
LEMMA CallKeepsLock ==
    ASSUME ConfigSyncAssumption, LockInv, NEW p \in Procs, Call(p)
    PROVE  LockInv' /\ Others(p) /\ proc[p].pc = "idle" /\ proc'[p].pc = "local"
<1> USE DEF Pcs, Locked
<1>1. Shaped' /\ Others(p) /\ proc'[p].pc = "local" /\ proc[p].pc = "idle"
  BY DEF LockInv, Call, Shaped, Others, Fields, Fresh
<1>2. Typed'
  <2>1. \A q \in Procs : proc'[q].pc \in Pcs BY <1>1 DEF Others, LockInv, Typed
  <2> QED BY <2>1 DEF LockInv, Typed, Call
<1>3. Alone' BY <1>1 DEF LockInv, Alone, Call, Quiet, Others
<1>4. Held' BY <1>1 DEF LockInv, Held, One, Call, Others
<1> QED BY <1>1, <1>2, <1>3, <1>4 DEF LockInv

LEMMA CrashKeepsLock ==
    ASSUME ConfigSyncAssumption, LockInv, NEW p \in Procs, Crash(p)
    PROVE  LockInv' /\ Others(p) /\ proc'[p].pc = "idle" /\ crashes' # 0 /\ crashes' \in Nat
<1> USE DEF Pcs, Locked
<1>1. Shaped' /\ Others(p) /\ proc'[p].pc = "idle"
  BY DEF LockInv, Crash, Shaped, Others, Fields, Fresh
<1>2. crashes' \in Nat /\ crashes' # 0 /\ crashes' <= setting.crashes /\ setting' = setting
  <2>1. setting.crashes \in Nat BY DEF LockInv, Typed, ConfigSyncAssumption, SettingType
  <2> QED BY <2>1 DEF LockInv, Typed, Crash
<1>3. Typed'
  <2>1. \A q \in Procs : proc'[q].pc \in Pcs BY <1>1 DEF Others, LockInv, Typed
  <2> QED BY <1>2, <2>1 DEF LockInv, Typed, Crash
<1>4. Alone' BY <1>1, <1>2 DEF LockInv, Alone, Others
<1>5. Held' BY <1>2 DEF Held
<1> QED BY <1>1, <1>2, <1>3, <1>4, <1>5 DEF LockInv

\* What is done by nobody of the processes.
Around ==
    \/ LockGrowsStale \/ DebounceElapses \/ RemoteMoves
    \/ (\E s \in setting.sessions : Drain(s)) \/ NoticeAges \/ UNCHANGED vars

LEMMA NextIsOneOf ==
    ASSUME [Next]_vars
    PROVE  Around \/ \E p \in Procs : Call(p) \/ Step(p) \/ Crash(p)
  BY DEF Next, Around

LEMMA AroundKeepsLock ==
    ASSUME ConfigSyncAssumption, LockInv, Around
    PROVE  /\ LockInv' /\ UNCHANGED <<setting, live, staging, retired, notified, proc, best,
                                      crashes, failures>>
           /\ remote' \in Revisions /\ remote' >= remote
<1> USE DEF Pcs, Locked
<1>1. UNCHANGED <<setting, live, staging, retired, notified, proc, best, crashes, failures>>
  BY DEF Around, LockGrowsStale, DebounceElapses, RemoteMoves, Drain, NoticeAges, vars, dirs, news
<1>2. remote' \in Revisions /\ remote' >= remote
  <2>1. remote \in Revisions /\ MaxRevision \in Nat
    BY DEF LockInv, Typed, ConfigSyncAssumption
  <2>2. CASE RemoteMoves BY <2>1, <2>2 DEF RemoteMoves, Revisions
  <2>3. CASE remote' = remote BY <2>1, <2>3 DEF Revisions
  <2>4. RemoteMoves \/ remote' = remote
    BY DEF Around, LockGrowsStale, DebounceElapses, RemoteMoves, Drain, NoticeAges, vars
  <2> QED BY <2>2, <2>3, <2>4
<1>3. \/ lock' = lock
      \/ /\ lock = "fresh" /\ lock' = "stale"
         /\ \A q \in Procs : proc[q].pc \notin Locked
  BY DEF Around, LockGrowsStale, DebounceElapses, RemoteMoves, Drain, NoticeAges, vars, Holders
<1>4. Shaped' /\ Typed' /\ Alone'
  BY <1>1, <1>2, <1>3 DEF LockInv, Shaped, Typed, Alone
<1>5. Held'
  <2>1. CASE lock' = lock BY <1>1, <2>1 DEF LockInv, Held, One
  <2>2. CASE lock = "fresh" /\ \A q \in Procs : proc[q].pc \notin Locked
    <3>1. None # "fresh" BY DEF ConfigSyncAssumption
    <3>2. crashes # 0 BY <2>2, <3>1 DEF LockInv, Held
    <3> QED BY <1>1, <3>2 DEF Held
  <2> QED BY <1>3, <2>1, <2>2
<1> QED BY <1>1, <1>2, <1>4, <1>5 DEF LockInv

-----------------------------------------------------------------------------
(***************************************************************************)
(* What the directories hold, seen from where the holder is.               *)
(***************************************************************************)

\* Processes that run at the same time are not killed: afterwards two may take the
\* stale lock, and what they do to the directories is no longer one refresh.
OneAtATime == \A s \in Settings : s.together => s.crashes = 0

LEMMA OneAtWork ==
    ASSUME ConfigSyncAssumption, OneAtATime, LockInv
    PROVE  One
<1>1. CASE setting.together
  <2>1. crashes = 0
    <3>1. setting.crashes = 0 BY <1>1 DEF OneAtATime, LockInv, Typed
    <3> QED BY <3>1 DEF LockInv, Typed
  <2> QED BY <2>1 DEF LockInv, Held
<1>2. CASE ~setting.together BY <1>2 DEF LockInv, Alone, One, Locked
<1> QED BY <1>1, <1>2

\* What is live is the newest there was; where nothing is live, what was moved aside is.
Newer ==
    /\ live \in Revisions \cup {Absent} /\ retired \in Revisions \cup {Absent}
    /\ best \in Nat /\ best <= remote
    /\ Good(live) => live = best
    /\ live = Absent /\ Good(retired) => retired = best

\* What is published is staged in full and not older than what was live.
Ready(q) ==
    /\ proc[q].pc \in {"retire", "move", "publish"} =>
         staging \in Revisions /\ best <= staging /\ staging <= remote
    /\ proc[q].pc \in {"publish", "unwind"} => live = Absent
    /\ proc[q].pc \in {"clear", "record", "write"} => Good(live)

Stocked == Newer /\ \A q \in Procs : Ready(q)

Stranded == live = Absent /\ best > 0

Between(q) == proc[q].pc \in {"publish", "unwind"}

\* Nothing is live for good only after two failures or a kill, nothing is live while
\* the next refresh goes on only after one more failure.
Blamed(q) ==
    /\ proc[q].pc \in {"sweep", "look", "probe", "clone", "cloning", "retire", "move"}
         => ~RecoveryWorks
    /\ proc[q].pc = "unwind" => failures >= 1

Safe ==
    /\ Stranded /\ RecoveryWorks => Good(retired)
    /\ Stranded /\ (\A q \in Procs : ~Between(q)) => failures >= 2 \/ crashes >= 1
    /\ Stranded => \A q \in Procs : Blamed(q)

DirInv == Stocked /\ Safe

LEMMA RevisionShape ==
    ASSUME ConfigSyncAssumption
    PROVE  /\ \A r \in Revisions : r \in Nat /\ r >= 1
           /\ Absent \notin Revisions /\ None \notin Revisions
  BY DEF ConfigSyncAssumption, Revisions

LEMMA NewestLive ==
    ASSUME ConfigSyncAssumption, best \in Nat, NEW d \in Revisions, best <= d, SetLive(d)
    PROVE  live' = d /\ best' = d
  BY RevisionShape DEF SetLive, Newest, Good

LEMMA WorksNoMore ==
    ASSUME Typed, failures' \in Nat, failures' >= failures, crashes' \in Nat, crashes' >= crashes,
           ~RecoveryWorks
    PROVE  ~RecoveryWorks'
  BY DEF RecoveryWorks, Typed

\* Where the holder leaves the directories decides for all.
LEMMA FromTheHolder ==
    ASSUME LockInv, One, NEW p \in Procs, Walks(p), proc[p].pc \in Locked
    PROVE  /\ Newer' /\ Ready(p)' => Stocked'
           /\ \A q \in Procs \ {p} : ~Between(q) /\ ~Between(q)'
           /\ (Stranded' => Blamed(p)') => (Stranded' => \A q \in Procs : Blamed(q)')
<1>1. \A q \in Procs \ {p} : proc[q].pc \notin Locked /\ proc'[q] = proc[q]
  BY DEF One, Walks, Others
<1>2. \A q \in Procs \ {p} : Ready(q)' BY <1>1 DEF Ready, Locked
<1>3. \A q \in Procs \ {p} : Blamed(q)' BY <1>1 DEF Blamed, Locked
<1> QED BY <1>1, <1>2, <1>3 DEF Stocked, Between, Locked

\* Without the lock, and on taking it, nothing is touched.
LEMMA OutsideKeepsDirs ==
    ASSUME ConfigSyncAssumption, LockInv, DirInv, NEW p \in Procs, Walks(p),
           proc'[p].pc \in (Pcs \ Locked) \cup {"recover"},
           proc[p].pc \notin Locked \/ proc[p].pc = "unlock",
           UNCHANGED <<live, staging, retired, best>>
    PROVE  DirInv'
<1>1. \A q \in Procs \ {p} : proc'[q] = proc[q] BY DEF Walks, Others
<1>2. Stocked'
  <2>1. Newer' BY DEF DirInv, Stocked, Newer, Walks, Good
  <2>2. \A q \in Procs : Ready(q)' BY <1>1 DEF Walks, DirInv, Stocked, Ready, Good, Locked, Pcs
  <2> QED BY <2>1, <2>2 DEF Stocked
<1>3. Safe'
  <2>0. /\ failures' \in Nat /\ failures' >= failures /\ failures \in Nat
        /\ crashes' = crashes /\ crashes \in Nat
    BY DEF Walks, LockInv, Typed
  <2>1. ~RecoveryWorks => ~RecoveryWorks' BY <2>0, WorksNoMore DEF LockInv
  <2>2. \A q \in Procs : Between(q)' <=> Between(q) BY <1>1 DEF Between, Locked, Pcs
  <2>3. Stranded' => \A q \in Procs : Blamed(q)'
    BY <1>1, <2>0, <2>1 DEF DirInv, Safe, Stranded, Blamed, Locked, Pcs
  <2>4. (\A q \in Procs : ~Between(q)') => \A q \in Procs : ~Between(q) BY <2>2
  <2>5. Stranded' <=> Stranded BY DEF Stranded
  <2>6. Good(retired)' <=> Good(retired) BY DEF Good
  <2> QED BY <2>0, <2>1, <2>3, <2>4, <2>5, <2>6 DEF DirInv, Safe
<1> QED BY <1>2, <1>3 DEF DirInv

\* The step of a holder keeps them: one step per operation on the directories.
LEMMA HolderKeepsDirs ==
    ASSUME ConfigSyncAssumption, OneAtATime, LockInv, DirInv, NEW p \in Procs,
           Step(p), Walks(p), proc[p].pc \in Locked, proc[p].pc # "unlock"
    PROVE  DirInv'
<1> DEFINE at == proc[p].pc
           to == proc'[p].pc
<1>1. One BY OneAtWork
<1>2. /\ failures \in Nat /\ crashes \in Nat /\ crashes' = crashes /\ remote' = remote
      /\ failures' \in Nat /\ failures' >= failures
      /\ remote \in Revisions
  BY DEF LockInv, Typed, Walks
<1>3. /\ Newer /\ Ready(p)
      /\ Stranded /\ RecoveryWorks => Good(retired)
      /\ Stranded /\ ~Between(p) => failures >= 2 \/ crashes >= 1
      /\ Stranded => Blamed(p)
  BY <1>1, FromTheHolder DEF DirInv, Stocked, Safe
<1>4. ~RecoveryWorks => ~RecoveryWorks' BY <1>2, WorksNoMore DEF LockInv
<1>5. ASSUME Newer', Ready(p)',
             (Stranded /\ RecoveryWorks => Good(retired))',
             (Stranded /\ ~Between(p) => failures >= 2 \/ crashes >= 1)',
             (Stranded => Blamed(p))'
      PROVE  DirInv'
  <2>1. Stocked' BY <1>1, <1>5, FromTheHolder
  <2>2. Stranded' => \A q \in Procs : Blamed(q)' BY <1>1, <1>5, FromTheHolder
  <2>3. (\A q \in Procs : ~Between(q)') => ~Between(p)' OBVIOUS
  <2> QED BY <1>5, <2>1, <2>2, <2>3 DEF DirInv, Safe
<1>6. ASSUME live' = live, retired' = retired, best' = best, failures' = failures,
             Ready(p)', at \notin {"recover", "publish", "unwind"},
             to \in {"retire", "move"} => at \in {"cloning", "retire"},
             to \in {"sweep", "look", "probe", "clone", "cloning"} =>
                at \in {"sweep", "look", "probe", "clone", "cloning"},
             to \notin {"publish", "unwind"}
      PROVE  DirInv'
  <2>1. Newer' BY <1>2, <1>3, <1>6 DEF Newer, Good
  <2>2. Stranded' <=> Stranded BY <1>6 DEF Stranded
  <2>3. RecoveryWorks' <=> RecoveryWorks BY <1>2, <1>6 DEF RecoveryWorks
  <2>4. ~Between(p) /\ ~Between(p)' BY <1>6 DEF Between
  <2>5. Stranded' => Blamed(p)' BY <1>3, <1>6, <2>2, <2>3 DEF Blamed
  <2>6. (Stranded /\ RecoveryWorks => Good(retired))'
    BY <1>3, <1>6, <2>2, <2>3 DEF Good
  <2>7. (Stranded /\ ~Between(p) => failures >= 2 \/ crashes >= 1)'
    BY <1>2, <1>3, <1>6, <2>2, <2>4
  <2> QED BY <1>5, <1>6, <2>1, <2>5, <2>6, <2>7
<1>7. /\ \A pc : Goto(p, pc) => to = pc
      /\ \A a : Conclude(p, a) => to = "unlock"
  BY GotoMoves, ConcludeMoves DEF LockInv
<1>8. CASE SweepStaging(p)
  <2>1. at = "sweep" /\ to = "look" BY <1>7, <1>8 DEF SweepStaging
  <2> QED BY <1>6, <1>8, <2>1 DEF SweepStaging, Ready
<1>9. CASE LookAgain(p)
  <2>1. at = "look" /\ to = "probe" BY <1>9 DEF LookAgain, LockInv, Shaped, Fields
  <2> QED BY <1>6, <1>9, <2>1 DEF LookAgain, Ready, dirs
<1>10. CASE Probe(p)
  <2>1. at = "probe" /\ to \in {"unlock", "clone"}
    <3>1. CASE proc' = [proc EXCEPT ![p].pc = "clone", ![p].target = remote]
      BY <1>10, <3>1 DEF Probe, LockInv, Shaped, Fields
    <3> QED BY <1>7, <1>10, <3>1 DEF Probe
  <2> QED BY <1>6, <1>10, <2>1 DEF Probe, Ready, dirs
<1>11. CASE StartClone(p)
  <2>1. at = "clone" /\ to = "cloning" BY <1>7, <1>11 DEF StartClone
  <2> QED BY <1>6, <1>11, <2>1 DEF StartClone, Ready
<1>12. CASE FinishClone(p)
  <2>1. at = "cloning" /\ to \in {"retire", "discard"} BY <1>7, <1>12 DEF FinishClone
  <2>2. to = "retire" => staging' = remote BY <1>7, <1>12 DEF FinishClone
  <2>3. Ready(p)'
    BY <1>2, <1>3, <1>12, <2>1, <2>2, RevisionShape DEF Ready, FinishClone, Newer
  <2> QED BY <1>6, <1>12, <2>1, <2>3 DEF FinishClone
<1>13. CASE Discard(p)
  <2>1. at = "discard" /\ to = "unlock" BY <1>7, <1>13 DEF Discard
  <2> QED BY <1>6, <1>13, <2>1 DEF Discard, Ready
<1>14. CASE ReadNotices(p)
  <2>1. at = "record" /\ to \in {"unlock", "write"}
    <3>1. CASE proc' = [proc EXCEPT ![p].pc = "write", ![p].seen = notices]
      BY <1>14, <3>1 DEF ReadNotices, LockInv, Shaped, Fields
    <3> QED BY <1>7, <1>14, <3>1 DEF ReadNotices
  <2>2. UNCHANGED <<live, staging, retired, best, failures>> BY <1>14 DEF ReadNotices, dirs
  <2>3. Ready(p)' BY <1>3, <2>1, <2>2 DEF Ready, Good
  <2> QED BY <1>6, <2>1, <2>2, <2>3
<1>15. CASE RecordChange(p)
  <2>1. at = "write" /\ to = "unlock" BY <1>15 DEF RecordChange, LockInv, Shaped, Fields
  <2> QED BY <1>6, <1>15, <2>1 DEF RecordChange, Ready, dirs
<1>16. CASE RemoveLeftover(p)
  <2>1. at = "retire" /\ to = "move" BY <1>7, <1>16 DEF RemoveLeftover
  <2>2. /\ live' = live /\ staging' = staging /\ best' = best /\ failures' = failures
        /\ retired' = Absent
    BY <1>16 DEF RemoveLeftover
  <2>3. Newer' /\ Ready(p)' BY <1>2, <1>3, <2>1, <2>2, RevisionShape DEF Newer, Ready, Good
  <2>4. Stranded' => ~RecoveryWorks' BY <1>3, <1>4, <2>1, <2>2 DEF Stranded, Blamed
  <2>5. Stranded' => failures' >= 2 \/ crashes' >= 1
    BY <1>2, <2>4 DEF RecoveryWorks
  <2>6. Stranded' => Blamed(p)' BY <2>1, <2>4 DEF Blamed
  <2> QED BY <1>5, <2>3, <2>4, <2>5, <2>6
<1>17. CASE RetireLive(p)
  <2>0. at = "move" /\ staging' = staging /\ best' = best BY <1>17 DEF RetireLive
  <2>1. CASE live = Absent /\ to = "publish" /\ UNCHANGED <<live, retired, failures>>
    <3>1. Newer' /\ Ready(p)' BY <1>2, <1>3, <2>0, <2>1 DEF Newer, Ready, Good
    <3>2. Stranded' => ~RecoveryWorks' BY <1>3, <1>4, <2>0, <2>1 DEF Stranded, Blamed
    <3> QED BY <1>5, <2>1, <3>1, <3>2 DEF Between, Blamed
  <2>2. CASE live # Absent /\ retired' = live /\ live' = Absent /\ to = "publish"
    <3>0. Good(live) BY <1>3, <2>2 DEF Newer, Good
    <3>1. Newer' /\ Ready(p)'
      BY <1>2, <1>3, <2>0, <2>2, <3>0, RevisionShape DEF Newer, Ready, Good
    <3>2. Good(retired)' BY <2>2, <3>0 DEF Good
    <3> QED BY <1>5, <2>2, <3>1, <3>2 DEF Between, Blamed
  <2>3. CASE live # Absent /\ to = "discard" /\ UNCHANGED <<live, retired>>
    <3>1. Newer' /\ Ready(p)' BY <1>2, <1>3, <2>0, <2>3 DEF Newer, Ready, Good
    <3>2. ~Stranded' BY <2>3 DEF Stranded
    <3> QED BY <1>5, <3>1, <3>2
  <2> QED BY <1>7, <1>17, <2>1, <2>2, <2>3 DEF RetireLive
<1>18. CASE PublishStaged(p)
  <2>0. /\ at = "publish" /\ retired' = retired /\ live = Absent
        /\ staging \in Revisions /\ best <= staging /\ best \in Nat
    BY <1>3, <1>18 DEF PublishStaged, Ready, Newer
  <2>1. CASE SetLive(staging) /\ to = "clear"
    <3>1. live' = staging /\ best' = staging BY <2>0, <2>1, NewestLive
    <3>2. staging <= remote /\ staging \in Nat
      BY <1>3, <2>0, RevisionShape DEF Ready
    <3>3. Newer' /\ Ready(p)'
      BY <1>2, <1>3, <2>0, <2>1, <3>1, <3>2, RevisionShape DEF Newer, Ready, Good
    <3>4. ~Stranded' BY <2>0, <3>1, RevisionShape DEF Stranded
    <3> QED BY <1>5, <3>3, <3>4
  <2>2. CASE RenameFails /\ to = "unwind" /\ UNCHANGED <<live, best, staging>>
    <3>1. Newer' /\ Ready(p)' BY <1>2, <1>3, <2>0, <2>2 DEF Newer, Ready, Good
    <3>2. failures' >= 1 BY <1>2, <2>2 DEF RenameFails
    <3>3. (Stranded /\ RecoveryWorks => Good(retired))'
      BY <1>3, <1>4, <2>0, <2>2 DEF Stranded, Good
    <3> QED BY <1>5, <2>2, <3>1, <3>2, <3>3 DEF Between, Blamed
  <2>3. staging # Absent BY <2>0, RevisionShape
  <2> QED BY <1>7, <1>18, <2>0, <2>1, <2>2, <2>3 DEF PublishStaged
<1>19. CASE RecoverRetired(p)
  <2>0. at = "recover" /\ to = "sweep" /\ staging' = staging
    BY <1>7, <1>19 DEF RecoverRetired
  <2>1. CASE retired # Absent /\ live = Absent /\ SetLive(retired) /\ retired' = Absent
    <3>1. live' = retired /\ best' = best /\ retired \in Revisions
      BY <1>3, <2>1, NewestLive DEF Newer, Good
    <3>2. Newer' /\ Ready(p)'
      BY <1>2, <1>3, <2>0, <2>1, <3>1, RevisionShape DEF Newer, Ready, Good
    <3>3. ~Stranded' BY <3>1, RevisionShape DEF Stranded
    <3> QED BY <1>5, <3>2, <3>3
  <2>2. CASE /\ retired # Absent /\ live = Absent /\ RenameFails
             /\ UNCHANGED <<live, retired, best>>
    <3>1. Newer' /\ Ready(p)' BY <1>2, <1>3, <2>0, <2>2 DEF Newer, Ready, Good
    <3>2. Stranded' => failures >= 2 \/ crashes >= 1
      BY <1>3, <2>0, <2>2 DEF Stranded, Between
    <3>3. failures' = failures + 1 BY <2>2 DEF RenameFails
    <3>4. Stranded' => ~RecoveryWorks' BY <1>2, <3>2, <3>3 DEF RecoveryWorks
    <3>5. Stranded' => failures' >= 2 \/ crashes' >= 1 BY <1>2, <3>2, <3>3
    <3>6. Stranded' => Blamed(p)' BY <2>0, <3>4 DEF Blamed
    <3> QED BY <1>5, <3>1, <3>4, <3>5, <3>6
  <2>3. CASE /\ ~(retired # Absent /\ live = Absent)
             /\ retired' = Absent /\ UNCHANGED <<live, best, failures>>
    <3>1. Newer' /\ Ready(p)'
      BY <1>2, <1>3, <2>0, <2>3, RevisionShape DEF Newer, Ready, Good
    <3>2. Stranded' => retired = Absent BY <2>3 DEF Stranded
    <3>3. Stranded' => ~RecoveryWorks'
      BY <1>3, <1>4, <2>3, <3>2, RevisionShape DEF Stranded, Good
    <3>4. Stranded' => failures' >= 2 \/ crashes' >= 1
      BY <1>2, <3>3 DEF RecoveryWorks
    <3>5. Stranded' => Blamed(p)' BY <2>0, <3>3 DEF Blamed
    <3> QED BY <1>5, <3>1, <3>3, <3>4, <3>5
  <2> QED BY <1>19, <2>1, <2>2, <2>3 DEF RecoverRetired
<1>20. CASE Unwind(p)
  <2>0. at = "unwind" /\ to = "discard" /\ staging' = staging /\ live = Absent
    BY <1>3, <1>7, <1>20 DEF Unwind, Ready
  <2>1. CASE retired # Absent /\ SetLive(retired) /\ retired' = Absent
    <3>1. live' = retired /\ best' = best /\ retired \in Revisions
      BY <1>3, <2>0, <2>1, NewestLive DEF Newer, Good
    <3>2. Newer' /\ Ready(p)'
      BY <1>2, <1>3, <2>0, <2>1, <3>1, RevisionShape DEF Newer, Ready, Good
    <3>3. ~Stranded' BY <3>1, RevisionShape DEF Stranded
    <3> QED BY <1>5, <3>2, <3>3
  <2>2. CASE retired # Absent /\ RenameFails /\ UNCHANGED <<live, retired, best>>
    <3>1. Newer' /\ Ready(p)' BY <1>2, <1>3, <2>0, <2>2 DEF Newer, Ready, Good
    <3>2. Stranded' => failures >= 1 BY <1>3, <2>0, <2>2 DEF Stranded, Blamed
    <3>3. Stranded' => failures' >= 2 BY <1>2, <2>2, <3>2 DEF RenameFails
    <3>4. Good(retired) BY <1>3, <2>2 DEF Newer, Good
    <3>5. Good(retired)' BY <2>2, <3>4 DEF Good
    <3> QED BY <1>5, <2>0, <3>1, <3>3, <3>5 DEF Blamed
  <2>3. CASE retired = Absent /\ UNCHANGED <<live, retired, best, failures>>
    <3>1. Newer' /\ Ready(p)' BY <1>2, <1>3, <2>0, <2>3 DEF Newer, Ready, Good
    <3>2. Stranded' => ~RecoveryWorks'
      BY <1>3, <1>4, <2>0, <2>3, RevisionShape DEF Stranded, Good
    <3>3. Stranded' => failures' >= 2 \/ crashes' >= 1
      BY <1>2, <3>2 DEF RecoveryWorks
    <3> QED BY <1>5, <2>0, <3>1, <3>2, <3>3 DEF Blamed
  <2> QED BY <1>20, <2>0, <2>1, <2>2, <2>3 DEF Unwind
<1>21. CASE ClearRetired(p)
  <2>1. at = "clear" /\ to = "record" BY <1>7, <1>21 DEF ClearRetired
  <2>2. /\ live' = live /\ staging' = staging /\ best' = best /\ retired' = Absent
        /\ Good(live) /\ Good(live)'
    BY <1>3, <1>21, <2>1 DEF ClearRetired, Ready, Good
  <2>3. Newer' /\ Ready(p)'
    BY <1>2, <1>3, <2>1, <2>2, RevisionShape DEF Newer, Ready, Good
  <2>4. ~Stranded' BY <2>2, RevisionShape DEF Stranded, Good
  <2> QED BY <1>5, <2>3, <2>4
<1> QED
  <2>1. ~ReadLocal(p) /\ ~TryLock(p) /\ ~StealLock(p) /\ ~RemakeLock(p) /\ ~Unlock(p)
        /\ ~SaveState(p)
    BY DEF Locked, ReadLocal, TryLock, StealLock, RemakeLock, Unlock, SaveState
  <2> QED
    BY <1>8, <1>9, <1>10, <1>11, <1>12, <1>13, <1>14, <1>15, <1>16, <1>17, <1>18, <1>19,
       <1>20, <1>21, <2>1 DEF Step

LEMMA StepKeepsDirs ==
    ASSUME ConfigSyncAssumption, OneAtATime, LockInv, DirInv, NEW p \in Procs,
           Step(p), Walks(p)
    PROVE  DirInv'
<1>1. CASE proc[p].pc \in Locked /\ proc[p].pc # "unlock" BY <1>1, HolderKeepsDirs
<1>2. CASE Unlock(p)
  <2>1. /\ proc[p].pc = "unlock" /\ proc'[p].pc \in (Pcs \ Locked) \cup {"recover"}
        /\ UNCHANGED <<live, staging, retired, best>>
    BY <1>2, GotoMoves DEF Unlock, LockInv, dirs, Pcs, Locked
  <2> QED BY <2>1, OutsideKeepsDirs
<1>3. CASE proc[p].pc \notin Locked
  <2>1. ReadLocal(p) \/ TryLock(p) \/ StealLock(p) \/ RemakeLock(p) \/ SaveState(p)
    BY <1>3 DEF Step, Locked, RecoverRetired, SweepStaging, LookAgain, Probe, StartClone,
       FinishClone, RemoveLeftover, RetireLive, PublishStaged, Unwind, Discard, ClearRetired,
       ReadNotices, RecordChange, Unlock
  <2>2. UNCHANGED <<live, staging, retired, best>>
    BY <2>1 DEF ReadLocal, TryLock, StealLock, RemakeLock, SaveState, dirs
  <2>3. proc'[p].pc \in (Pcs \ Locked) \cup {"recover"}
    BY <1>3 DEF Locked, Walks, Path, Inside, Enters, Leaves, Outside, Steals, Pcs
  <2> QED BY <1>3, <2>2, <2>3, OutsideKeepsDirs
<1>4. proc[p].pc = "unlock" => Unlock(p)
  BY DEF Step, ReadLocal, TryLock, StealLock, RemakeLock, SaveState, RecoverRetired,
     SweepStaging, LookAgain, Probe, StartClone, FinishClone, RemoveLeftover, RetireLive,
     PublishStaged, Unwind, Discard, ClearRetired, ReadNotices, RecordChange
<1> QED BY <1>1, <1>2, <1>3, <1>4

LEMMA CallKeepsDirs ==
    ASSUME ConfigSyncAssumption, LockInv, DirInv, NEW p \in Procs, Call(p)
    PROVE  DirInv'
<1>1. /\ proc[p].pc = "idle" /\ proc'[p].pc = "local"
      /\ \A q \in Procs \ {p} : proc'[q] = proc[q]
  BY CallKeepsLock DEF Others
<1>2. UNCHANGED <<live, staging, retired, best, remote, crashes, failures>>
  BY DEF Call, dirs
<1>3. /\ \A q \in Procs : Between(q)' <=> Between(q)
      /\ \A q \in Procs : Blamed(q) => Blamed(q)'
      /\ \A q \in Procs : Ready(q) => Ready(q)'
  BY <1>1, <1>2 DEF Between, Blamed, RecoveryWorks, Ready, Good
<1>4. Newer' /\ (Stranded' <=> Stranded) /\ (RecoveryWorks' <=> RecoveryWorks)
      /\ (Good(retired)' <=> Good(retired))
  BY <1>2 DEF DirInv, Stocked, Newer, Stranded, RecoveryWorks, Good
<1>5. Stocked' BY <1>3, <1>4 DEF DirInv, Stocked
<1>6. Safe' BY <1>2, <1>3, <1>4 DEF DirInv, Safe
<1> QED BY <1>5, <1>6 DEF DirInv

LEMMA CrashKeepsDirs ==
    ASSUME ConfigSyncAssumption, LockInv, DirInv, NEW p \in Procs, Crash(p)
    PROVE  DirInv'
<1>1. /\ proc'[p].pc = "idle" /\ \A q \in Procs \ {p} : proc'[q] = proc[q]
  BY CrashKeepsLock DEF Others
<1>2. UNCHANGED <<live, staging, retired, best, remote, failures>>
  BY DEF Crash, dirs
<1>3. /\ crashes \in Nat /\ crashes' = crashes + 1 /\ failures \in Nat
  BY DEF LockInv, Typed, Crash
<1>4. RecoveryWorks' => RecoveryWorks BY <1>2, <1>3 DEF RecoveryWorks
<1>5. /\ \A q \in Procs : Blamed(q) => Blamed(q)'
      /\ \A q \in Procs : Ready(q) => Ready(q)'
  BY <1>1, <1>2, <1>4 DEF Blamed, Ready, Good
<1>6. Newer' /\ (Stranded' <=> Stranded) /\ (Good(retired)' <=> Good(retired))
  BY <1>2 DEF DirInv, Stocked, Newer, Stranded, Good
<1>7. Stocked' BY <1>5, <1>6 DEF DirInv, Stocked
<1>8. Safe' BY <1>2, <1>3, <1>4, <1>5, <1>6 DEF DirInv, Safe
<1> QED BY <1>7, <1>8 DEF DirInv

LEMMA AroundKeepsDirs ==
    ASSUME ConfigSyncAssumption, LockInv, DirInv, Around
    PROVE  DirInv'
<1>1. /\ UNCHANGED <<live, staging, retired, proc, best, crashes, failures>>
      /\ remote' \in Revisions /\ remote' >= remote /\ remote \in Revisions
  BY AroundKeepsLock DEF LockInv, Typed
<1>2. /\ \A q \in Procs : Between(q)' <=> Between(q)
      /\ \A q \in Procs : Blamed(q)' <=> Blamed(q)
      /\ \A q \in Procs : Ready(q) => Ready(q)'
  BY <1>1, RevisionShape DEF Between, Blamed, RecoveryWorks, Ready, Good
<1>3. Newer' /\ (Stranded' <=> Stranded) /\ (RecoveryWorks' <=> RecoveryWorks)
      /\ (Good(retired)' <=> Good(retired))
  BY <1>1, RevisionShape DEF DirInv, Stocked, Newer, Stranded, RecoveryWorks, Good
<1>4. Stocked' BY <1>2, <1>3 DEF DirInv, Stocked
<1>5. Safe' BY <1>1, <1>2, <1>3 DEF DirInv, Safe
<1> QED BY <1>4, <1>5 DEF DirInv

-----------------------------------------------------------------------------
(***************************************************************************)
(* What has been announced.                                                *)
(***************************************************************************)
Publishes(q) == proc[q].pc \in {"clear", "record", "write"}

\* What a process saw before it has the lock was announced, or will be by the holder
\* that has just published it.
Knows(q) ==
    proc[q].have # None =>
        /\ proc[q].have \in Revisions
        /\ proc[q].pc \in Locked => proc[q].have \in notified
        /\ proc[q].pc = "lock" =>
             \/ proc[q].have \in notified
             \/ proc[q].have = live /\ \E r \in Procs : Publishes(r)

Announced ==
    crashes = 0 =>
        /\ Good(retired) => retired \in notified
        /\ Good(live) /\ (\A q \in Procs : ~Publishes(q)) => live \in notified
        /\ \A q \in Procs : Knows(q)

\* The step of the holder: what it leaves behind for itself and for who waits.
LEMMA HolderAnnounces ==
    ASSUME ConfigSyncAssumption, LockInv, Announced, NEW p \in Procs,
           Step(p), Walks(p), crashes = 0, proc[p].pc \in Locked
    PROVE  Announced'
<1> DEFINE at == proc[p].pc
           to == proc'[p].pc
           had == proc[p].have
           has == proc'[p].have
           After == {"clear", "record", "write"}
<1>0. None \notin Revisions BY RevisionShape
<1>1. /\ \A q \in Procs \ {p} : proc[q].pc \notin Locked /\ proc'[q] = proc[q]
      /\ to # "lock" /\ crashes' = 0
  BY DEF LockInv, Held, One, Walks, Others, Path, Inside, Enters, Leaves, Outside, Steals,
     Locked
<1>2. /\ Good(retired) => retired \in notified
      /\ Good(live) /\ at \notin After => live \in notified
      /\ had # None => had \in notified /\ had \in Revisions
      /\ \A q \in Procs : proc[q].have # None => proc[q].have \in Revisions
      /\ \A q \in Procs \ {p} : proc[q].pc = "lock" /\ proc[q].have # None =>
           proc[q].have \in notified \/ (proc[q].have = live /\ at \in After)
  BY <1>1 DEF Announced, Knows, Publishes, Locked
<1>3. ASSUME (Good(retired) => retired \in notified)',
             (Good(live) /\ at \notin After => live \in notified)',
             has = None \/ (has \in Revisions /\ has \in notified'),
             notified \subseteq notified',
             Good(live) /\ at \in After =>
                (live' = live /\ to \in After) \/ live \in notified'
      PROVE  Announced'
  <2>1. ASSUME NEW q \in Procs PROVE Knows(q)'
    <3>1. CASE q = p BY <1>1, <1>3, <3>1 DEF Knows
    <3>2. CASE q # p
      <4>1. proc'[q] = proc[q] /\ proc[q].pc \notin Locked BY <1>1, <3>2
      <4>2. CASE proc[q].pc = "lock" /\ proc[q].have # None
        <5>1. CASE proc[q].have \in notified BY <1>2, <1>3, <4>1, <4>2, <5>1 DEF Knows
        <5>2. CASE proc[q].have = live /\ at \in After /\ Good(live)
          <6>1. CASE live' = live /\ to \in After
            BY <4>1, <5>2, <6>1 DEF Knows, Publishes, Good
          <6>2. CASE live \in notified' BY <4>1, <5>2, <6>2 DEF Knows, Good
          <6> QED BY <1>3, <5>2, <6>1, <6>2
        <5> QED BY <1>2, <3>2, <4>2, <5>1, <5>2 DEF Good
      <4>3. CASE ~(proc[q].pc = "lock" /\ proc[q].have # None) BY <1>2, <4>1, <4>3 DEF Knows
      <4> QED BY <4>2, <4>3
    <3> QED BY <3>1, <3>2
  <2>2. (\A q \in Procs : ~Publishes(q)') => to \notin After BY DEF Publishes
  <2> QED BY <1>3, <2>1, <2>2 DEF Announced
<1>4. ASSUME live' = live, retired' = retired, notified' = notified, has = had,
             at \notin After
      PROVE  Announced'
  <2>1. (Good(retired) => retired \in notified)' BY <1>2, <1>4 DEF Good
  <2>2. (Good(live) /\ at \notin After => live \in notified)' BY <1>2, <1>4 DEF Good
  <2>3. has = None \/ (has \in Revisions /\ has \in notified') BY <1>2, <1>4
  <2> QED BY <1>3, <1>4, <2>1, <2>2, <2>3
<1>5. /\ \A pc : Goto(p, pc) => to = pc /\ has = had
      /\ \A a : Conclude(p, a) => to = "unlock" /\ has = had
  BY GotoMoves, ConcludeMoves DEF LockInv
<1>6. CASE SweepStaging(p) BY <1>4, <1>5, <1>6 DEF SweepStaging, news
<1>7. CASE LookAgain(p)
  <2>1. at = "look" /\ to = "probe" BY <1>7 DEF LookAgain, LockInv, Shaped, Fields
  <2>2. has = had \/ (Good(live) /\ has = live)
    BY <1>0, <1>7 DEF LookAgain, LocalSha, LockInv, Shaped, Fields
  <2>3. UNCHANGED <<live, retired, notified>> BY <1>7 DEF LookAgain, dirs, news
  <2>4. (Good(retired) => retired \in notified)' BY <1>2, <2>3 DEF Good
  <2>5. (Good(live) /\ at \notin After => live \in notified)' BY <1>2, <2>1, <2>3 DEF Good
  <2>6. has = None \/ (has \in Revisions /\ has \in notified')
    BY <1>2, <2>1, <2>2, <2>3 DEF Good
  <2> QED BY <1>3, <2>1, <2>3, <2>4, <2>5, <2>6
<1>8. CASE Probe(p)
  <2>1. has = had
    <3>1. CASE proc' = [proc EXCEPT ![p].pc = "clone", ![p].target = remote]
      BY <3>1 DEF LockInv, Shaped, Fields
    <3> QED BY <1>5, <1>8, <3>1 DEF Probe
  <2> QED BY <1>4, <1>8, <2>1 DEF Probe, news, dirs
<1>9. CASE StartClone(p) BY <1>4, <1>5, <1>9 DEF StartClone, news
<1>10. CASE FinishClone(p) BY <1>4, <1>5, <1>10 DEF FinishClone, news
<1>11. CASE Discard(p) BY <1>4, <1>5, <1>11 DEF Discard, news
<1>12. CASE Unlock(p) BY <1>4, <1>5, <1>12 DEF Unlock, news, dirs
<1>13. CASE RemoveLeftover(p)
  <2>1. at = "retire" /\ to = "move" /\ has = had BY <1>5, <1>13 DEF RemoveLeftover
  <2>2. UNCHANGED <<live, notified>> /\ retired' = Absent BY <1>13 DEF RemoveLeftover, news
  <2>3. (Good(retired) => retired \in notified)' BY <2>2, RevisionShape DEF Good
  <2>4. (Good(live) /\ at \notin After => live \in notified)' BY <1>2, <2>1, <2>2 DEF Good
  <2> QED BY <1>2, <1>3, <2>1, <2>2, <2>3, <2>4
<1>14. CASE RetireLive(p)
  <2>1. at = "move" /\ to \in {"publish", "discard"} /\ has = had /\ notified' = notified
    BY <1>5, <1>14 DEF RetireLive, news
  <2>2. \/ live' = live /\ retired' = retired
        \/ live' = Absent /\ retired' = live
    BY <1>14 DEF RetireLive
  <2>3. (Good(retired) => retired \in notified)' BY <1>2, <2>1, <2>2 DEF Good
  <2>4. (Good(live) /\ at \notin After => live \in notified)'
    BY <1>2, <2>1, <2>2, RevisionShape DEF Good
  <2> QED BY <1>2, <1>3, <2>1, <2>3, <2>4
<1>15. CASE PublishStaged(p)
  <2>1. /\ at = "publish" /\ to \in {"clear", "unwind"} /\ has = had
        /\ notified' = notified /\ retired' = retired
        /\ to = "unwind" => live' = live
    BY <1>5, <1>15 DEF PublishStaged, news
  <2>2. (Good(retired) => retired \in notified)' BY <1>2, <2>1 DEF Good
  <2>3. (Good(live) /\ at \notin After => live \in notified)' BY <1>2, <2>1 DEF Good
  <2> QED BY <1>2, <1>3, <2>1, <2>2, <2>3
<1>16. CASE RecoverRetired(p)
  <2>1. at = "recover" /\ to = "sweep" /\ has = had /\ notified' = notified
    BY <1>5, <1>16 DEF RecoverRetired, news
  <2>2. /\ live' = live \/ live' = retired
        /\ retired' = retired \/ retired' = Absent
    BY <1>16 DEF RecoverRetired, SetLive
  <2>3. (Good(retired) => retired \in notified)' BY <1>2, <2>1, <2>2, RevisionShape DEF Good
  <2>4. (Good(live) /\ at \notin After => live \in notified)' BY <1>2, <2>1, <2>2 DEF Good
  <2> QED BY <1>2, <1>3, <2>1, <2>3, <2>4
<1>17. CASE Unwind(p)
  <2>1. at = "unwind" /\ to = "discard" /\ has = had /\ notified' = notified
    BY <1>5, <1>17 DEF Unwind, news
  <2>2. /\ live' = live \/ live' = retired
        /\ retired' = retired \/ retired' = Absent
    BY <1>17 DEF Unwind, SetLive
  <2>3. (Good(retired) => retired \in notified)' BY <1>2, <2>1, <2>2, RevisionShape DEF Good
  <2>4. (Good(live) /\ at \notin After => live \in notified)' BY <1>2, <2>1, <2>2 DEF Good
  <2> QED BY <1>2, <1>3, <2>1, <2>3, <2>4
<1>18. CASE ClearRetired(p)
  <2>1. at = "clear" /\ to = "record" /\ has = had
        /\ UNCHANGED <<live, notified>> /\ retired' = Absent
    BY <1>5, <1>18 DEF ClearRetired, news
  <2>2. (Good(retired) => retired \in notified)' BY <2>1, RevisionShape DEF Good
  <2> QED BY <1>2, <1>3, <2>1, <2>2
<1>19. CASE ReadNotices(p)
  <2> DEFINE now == IF LocalSha # None THEN LocalSha ELSE proc[p].target
  <2>1. at = "record" /\ UNCHANGED <<live, retired, notified>>
    BY <1>19 DEF ReadNotices, news, dirs
  <2>2. (Good(retired) => retired \in notified)' BY <1>2, <2>1 DEF Good
  <2>3. CASE now = proc[p].have /\ Conclude(p, "ok")
    <3>1. to = "unlock" /\ has = had BY <1>5, <2>3
    <3>2. Good(live) => live = had /\ had # None BY <1>0, <2>3 DEF LocalSha, Good
    <3>3. Good(live) => live \in notified BY <1>2, <3>2
    <3>4. (Good(live) /\ at \notin After => live \in notified)' BY <2>1, <3>3 DEF Good
    <3>5. has = None \/ (has \in Revisions /\ has \in notified') BY <1>2, <2>1, <3>1
    <3> QED BY <1>3, <2>1, <2>2, <3>3, <3>4, <3>5
  <2>4. CASE proc' = [proc EXCEPT ![p].pc = "write", ![p].seen = notices]
    <3>1. to = "write" /\ has = had BY <2>4 DEF LockInv, Shaped, Fields
    <3> QED BY <1>2, <1>3, <2>1, <2>2, <3>1
  <2> QED BY <1>19, <2>3, <2>4 DEF ReadNotices
<1>20. CASE RecordChange(p)
  <2>1. at = "write" /\ to = "unlock" /\ has = had
    BY <1>20 DEF RecordChange, LockInv, Shaped, Fields
  <2>2. UNCHANGED <<live, retired>> BY <1>20 DEF RecordChange, dirs
  <2>3. notified \subseteq notified' /\ (Good(live) => live \in notified')
    BY <1>0, <1>20 DEF RecordChange, LocalSha, Good
  <2>4. (Good(retired) => retired \in notified)' BY <1>2, <2>2, <2>3 DEF Good
  <2>5. (Good(live) /\ at \notin After => live \in notified)' BY <2>2, <2>3 DEF Good
  <2>6. has = None \/ (has \in Revisions /\ has \in notified') BY <1>2, <2>1, <2>3
  <2> QED BY <1>3, <2>3, <2>4, <2>5, <2>6
<1> QED
  <2>1. ~ReadLocal(p) /\ ~TryLock(p) /\ ~StealLock(p) /\ ~RemakeLock(p) /\ ~SaveState(p)
    BY DEF Locked, ReadLocal, TryLock, StealLock, RemakeLock, SaveState
  <2> QED
    BY <1>6, <1>7, <1>8, <1>9, <1>10, <1>11, <1>12, <1>13, <1>14, <1>15, <1>16, <1>17,
       <1>18, <1>19, <1>20, <2>1 DEF Step

\* Who waits has seen a revision that was announced, or that the holder will announce.
LEMMA StepAnnounces ==
    ASSUME ConfigSyncAssumption, LockInv, Announced, NEW p \in Procs,
           Step(p), Walks(p)
    PROVE  Announced'
<1> SUFFICES ASSUME crashes = 0 PROVE Announced' BY DEF Announced, Walks
<1>1. CASE proc[p].pc \in Locked BY <1>1, HolderAnnounces
<1>2. CASE proc[p].pc \notin Locked
  <2>0. /\ None \notin Revisions /\ None \notin {"fresh", "stale"}
        /\ lock # None <=> \E q \in Procs : proc[q].pc \in Locked
        /\ proc[p].pc # "steal" /\ proc[p].pc # "remake"
    BY RevisionShape DEF ConfigSyncAssumption, LockInv, Held
  <2>1. \A q \in Procs \ {p} : proc'[q] = proc[q] BY DEF Walks, Others
  <2>2. ReadLocal(p) \/ TryLock(p) \/ SaveState(p)
    BY <1>2, <2>0 DEF Step, Locked, RecoverRetired, SweepStaging, LookAgain, Probe, StartClone,
       FinishClone, RemoveLeftover, RetireLive, PublishStaged, Unwind, Discard, ClearRetired,
       ReadNotices, RecordChange, Unlock, StealLock, RemakeLock
  <2>3. UNCHANGED <<live, retired, notified>>
    BY <2>2 DEF ReadLocal, TryLock, SaveState, dirs, news
  <2>4. \A q \in Procs : Publishes(q)' <=> Publishes(q)
    BY <1>2, <2>1 DEF Publishes, Locked, Walks, Path, Inside, Enters, Leaves, Outside, Steals
  <2>5. ASSUME NEW q \in Procs \ {p} PROVE Knows(q)'
    BY <2>1, <2>3, <2>4 DEF Announced, Knows
  <2>6. Knows(p)'
    <3>1. CASE ReadLocal(p)
      <4>1. CASE Answer(p, "ok") BY <4>1, AnswerMoves DEF Knows, LockInv
      <4>2. CASE proc' = [proc EXCEPT ![p].pc = "lock", ![p].have = LocalSha]
        <5>1. proc'[p].pc = "lock" /\ proc'[p].have = LocalSha
          BY <4>2 DEF LockInv, Shaped, Fields
        <5>2. LocalSha # None => Good(live) /\ LocalSha = live BY DEF LocalSha
        <5>3. Good(live) => live \in notified \/ \E r \in Procs : Publishes(r)
          BY DEF Announced
        <5> QED BY <2>3, <2>4, <5>1, <5>2, <5>3 DEF Knows, Locked, Good
      <4> QED BY <3>1, <4>1, <4>2 DEF ReadLocal
    <3>2. CASE TryLock(p)
      <4>1. CASE Busy(p)
        <5>1. PICK a : Answer(p, a) BY <4>1 DEF Busy
        <5> QED BY <5>1, AnswerMoves DEF Knows, LockInv
      <4>2. CASE lock = None /\ Goto(p, "recover")
        <5>1. \A q \in Procs : ~Publishes(q) BY <2>0, <4>2 DEF Publishes, Locked
        <5>2. proc[p].pc = "lock" BY <3>2 DEF TryLock
        <5>3. proc[p].have # None => proc[p].have \in Revisions /\ proc[p].have \in notified
          BY <5>1, <5>2 DEF Announced, Knows
        <5>4. proc'[p].have = proc[p].have /\ proc'[p].pc = "recover"
          BY <4>2, GotoMoves DEF LockInv
        <5> QED BY <2>3, <5>3, <5>4 DEF Knows
      <4>3. CASE lock = "stale" BY <4>3 DEF LockInv, Held
      <4>4. lock \in {None, "fresh", "stale"} BY DEF LockInv, Typed
      <4> QED BY <3>2, <4>1, <4>2, <4>3, <4>4 DEF TryLock
    <3>3. CASE SaveState(p) BY <3>3, AnswerMoves DEF SaveState, Knows, LockInv
    <3> QED BY <2>2, <3>1, <3>2, <3>3
  <2>7. \A q \in Procs : Knows(q)' BY <2>5, <2>6
  <2>8. (Good(retired) => retired \in notified)' BY <2>3 DEF Announced, Good
  <2>9. (Good(live) /\ (\A q \in Procs : ~Publishes(q)) => live \in notified)'
    BY <2>3, <2>4 DEF Announced, Good
  <2> QED BY <2>7, <2>8, <2>9 DEF Announced
<1> QED BY <1>1, <1>2

LEMMA RestAnnounces ==
    ASSUME ConfigSyncAssumption, LockInv, Announced,
           Around \/ \E p \in Procs : Call(p) \/ Crash(p)
    PROVE  Announced'
<1>1. CASE Around
  <2>1. UNCHANGED <<live, retired, notified, proc, crashes>> BY <1>1, AroundKeepsLock
  <2>2. /\ \A q \in Procs : Publishes(q)' <=> Publishes(q)
        /\ \A q \in Procs : Knows(q) => Knows(q)'
    BY <2>1 DEF Publishes, Knows
  <2> QED BY <2>1, <2>2 DEF Announced, Good
<1>2. ASSUME NEW p \in Procs, Call(p) PROVE Announced'
  <2>1. /\ \A q \in Procs \ {p} : proc'[q] = proc[q]
        /\ proc[p].pc = "idle" /\ proc'[p].pc = "local"
    BY <1>2, CallKeepsLock DEF Others
  <2>2. UNCHANGED <<live, retired, notified, crashes>> /\ proc'[p].have = None
    BY <1>2 DEF Call, dirs, news, Fresh, LockInv, Shaped
  <2>3. /\ \A q \in Procs : Publishes(q)' <=> Publishes(q)
        /\ \A q \in Procs : Knows(q) => Knows(q)'
    BY <2>1, <2>2 DEF Publishes, Knows
  <2> QED BY <2>2, <2>3 DEF Announced, Good
<1>3. ASSUME NEW p \in Procs, Crash(p) PROVE Announced'
  BY <1>3, CrashKeepsLock DEF Announced
<1> QED BY <1>1, <1>2, <1>3

-----------------------------------------------------------------------------
(***************************************************************************)
(* What sessions are told.                                                 *)
(***************************************************************************)

\* The end of a sequence.
LEMMA EndOfSequence ==
    ASSUME NEW X, NEW s \in Seq(X), NEW k \in 0 .. Len(s), NEW t, t = SubSeq(s, k + 1, Len(s))
    PROVE  /\ t \in Seq(X) /\ Len(t) = Len(s) - k
           /\ \A i \in 1 .. Len(t) : t[i] = s[k + i] /\ k + i \in 1 .. Len(s)
<1>1. Len(s) \in Nat BY LenProperties
<1>2. \A i \in k + 1 .. Len(s) : s[i] \in X BY <1>1, ElementOfSeq
<1>3. /\ t \in Seq(X)
      /\ Len(t) = IF k + 1 <= Len(s) THEN Len(s) - (k + 1) + 1 ELSE 0
      /\ \A i \in 1 .. Len(s) - (k + 1) + 1 : t[i] = s[(k + 1) + i - 1]
  BY <1>1, <1>2, SubSeqProperties
<1>4. Len(t) = Len(s) - k BY <1>1, <1>3
<1> QED BY <1>1, <1>3, <1>4

LEMMA CappedIsEnd ==
    ASSUME NEW X, NEW s \in Seq(X), NEW n \in Nat \ {0}
    PROVE  \E k \in 0 .. Len(s) :
              /\ Capped(s, n) = SubSeq(s, k + 1, Len(s))
              /\ k # 0 => Len(s) - k = n
<1>1. Len(s) \in Nat BY LenProperties
<1>2. CASE Len(s) <= n
  <2>1. Capped(s, n) = SubSeq(s, 1, Len(s)) BY <1>2, SubSeqFull DEF Capped
  <2> QED BY <1>1, <2>1
<1>3. CASE ~(Len(s) <= n)
  <2>1. PICK k \in Nat : k = Len(s) - n BY <1>1, <1>3
  <2>2. k + 1 = Len(s) - n + 1 BY <1>1, <2>1
  <2>3. Capped(s, n) = SubSeq(s, k + 1, Len(s)) BY <1>3, <2>2 DEF Capped
  <2>4. k \in 0 .. Len(s) /\ Len(s) - k = n BY <1>1, <2>1
  <2> QED BY <2>3, <2>4
<1> QED BY <1>2, <1>3

LEMMA LastOfAll ==
    ASSUME NEW n \in Nat, NEW S \in SUBSET (0 .. n), S # {}
    PROVE  Max(S) \in S /\ \A y \in S : Max(S) >= y
<1> DEFINE T == {m \in Nat : \A y \in S : y <= m}
<1>1. T \subseteq Nat /\ n \in T OBVIOUS
<1>2. PICK m \in T : \A i \in T : ~(<<i, m>> \in OpToRel(<, Nat))
  <2>1. IsWellFoundedOn(OpToRel(<, Nat), Nat) BY NatLessThanWellFounded
  <2> HIDE DEF T
  <2> QED BY <1>1, <2>1, WFMin
<1>3. \A i \in T : ~(i < m) BY <1>1, <1>2 DEF OpToRel
<1>4. m \in Nat /\ \A y \in S : y \in Nat /\ y <= m
  <2>1. \A y \in S : y \in 0 .. n OBVIOUS
  <2>2. m \in T BY <1>2
  <2>3. m \in Nat /\ \A y \in S : y <= m BY <2>2
  <2> QED BY <2>1, <2>3
<1>5. m \in S
  <2> SUFFICES ASSUME m \notin S PROVE FALSE OBVIOUS
  <2>1. \A y \in S : y \in Nat /\ y <= m /\ y # m BY <1>4
  <2>2. PICK z \in S : TRUE OBVIOUS
  <2>3. m - 1 \in Nat BY <1>4, <2>1, <2>2
  <2>4. \A y \in S : y <= m - 1 BY <1>4, <2>1
  <2>5. m - 1 \in T BY <2>3, <2>4
  <2> QED BY <1>3, <1>4, <2>5
<1>6. \E x \in S : \A y \in S : x >= y BY <1>4, <1>5
<1> QED BY <1>6 DEF Max

\* What comes before a notice that is a day old is, too.
AgeInOrder(ns) == \A i, j \in 1 .. Len(ns) : i < j /\ ns[j].old => ns[i].old

\* So what a recording keeps of the file is an end of it, and exactly the young part.
LEMMA KeptIsEnd ==
    ASSUME NEW X, NEW ns \in Seq(X), AgeInOrder(ns)
    PROVE  \E k \in 0 .. Len(ns) :
              /\ Kept(ns) = SubSeq(ns, k + 1, Len(ns))
              /\ \A i \in 1 .. Len(ns) : ns[i].old <=> i <= k
<1>1. Len(ns) \in Nat /\ DOMAIN ns = 1 .. Len(ns) BY LenProperties
<1> DEFINE S == {i \in DOMAIN ns : ns[i].old} \cup {0}
           k == Max(S)
<1>2. S \in SUBSET (0 .. Len(ns)) /\ S # {} BY <1>1
<1>3. \A i \in 1 .. Len(ns) : i \in S <=> ns[i].old BY <1>1
<1>4. Kept(ns) = SubSeq(ns, k + 1, Len(ns)) BY DEF Kept
<1> HIDE DEF S
<1>5. k \in S /\ \A y \in S : k >= y BY <1>1, <1>2, LastOfAll
<1>6. k \in 0 .. Len(ns) BY <1>2, <1>5
<1> HIDE DEF k
<1>7. ASSUME NEW i \in 1 .. Len(ns) PROVE ns[i].old <=> i <= k
  <2>1. CASE ns[i].old BY <1>3, <1>5, <2>1
  <2>2. CASE i <= k
    <3>1. k \in 1 .. Len(ns) /\ ns[k].old BY <1>1, <1>3, <1>5, <1>6, <2>2
    <3>2. CASE i = k BY <3>1, <3>2
    <3>3. CASE i < k BY <3>1, <3>3 DEF AgeInOrder
    <3> QED BY <1>6, <2>2, <3>2, <3>3
  <2> QED BY <2>1, <2>2
<1> QED BY <1>4, <1>6, <1>7

\* A finite set in some order.
LEMMA SetInOrder ==
    ASSUME NEW X, IsFiniteSet(X), NEW f, f = SetToSeq(X)
    PROVE  f \in Seq(X) /\ IsInjective(f) /\ ToSet(f) = X
<1> DEFINE n == Cardinality(X)
<1>1. n \in Nat /\ ExistsBijection(1 .. n, X) BY FS_CardinalityType
<1>2. \E g \in [1 .. n -> X] : IsInjective(g)
  BY <1>1 DEF ExistsBijection, Bijection, Injection, IsInjective
<1>3. f \in [1 .. n -> X] /\ IsInjective(f) BY <1>2 DEF SetToSeq
<1>4. f \in Injection(1 .. n, X) BY <1>3 DEF Injection, IsInjective
<1>5. IsFiniteSet(1 .. n) /\ Cardinality(1 .. n) = n BY <1>1, FS_Interval
<1>6. f \in Surjection(1 .. n, X) BY <1>1, <1>4, <1>5, FS_Injection
<1>7. \A x \in X : \E i \in 1 .. n : f[i] = x BY <1>6 DEF Surjection
<1> HIDE DEF n
<1>8. DOMAIN f = 1 .. n BY <1>3
<1>9. ToSet(f) = X BY <1>3, <1>7, <1>8 DEF ToSet
<1>10. f \in Seq(X) BY <1>1, <1>3
<1> QED BY <1>3, <1>9, <1>10

LEMMA JoinedSequences ==
    ASSUME NEW X, NEW s \in Seq(X), NEW t \in Seq(X), NEW u, u = s \o t
    PROVE  /\ u \in Seq(X)
           /\ \A x : x \in ToSet(u) <=> x \in ToSet(s) \/ x \in ToSet(t)
           /\ IsInjective(s) /\ IsInjective(t) /\ ToSet(s) \cap ToSet(t) = {} => IsInjective(u)
<1>1. /\ u \in Seq(X) /\ Len(u) = Len(s) + Len(t)
      /\ \A i \in 1 .. Len(s) + Len(t) : u[i] = IF i <= Len(s) THEN s[i] ELSE t[i - Len(s)]
  BY ConcatProperties
<1>2. /\ Len(s) \in Nat /\ Len(t) \in Nat /\ DOMAIN s = 1 .. Len(s) /\ DOMAIN t = 1 .. Len(t)
      /\ DOMAIN u = 1 .. Len(u)
  BY <1>1, LenProperties
<1>3. \A i \in 1 .. Len(s) : u[i] = s[i] BY <1>1, <1>2
<1>4. \A i \in 1 .. Len(t) : Len(s) + i \in 1 .. Len(u) /\ u[Len(s) + i] = t[i] BY <1>1, <1>2
<1>5. \A i \in 1 .. Len(u) :
        \/ i \in 1 .. Len(s)
        \/ i - Len(s) \in 1 .. Len(t) /\ i = Len(s) + (i - Len(s))
  BY <1>1, <1>2
<1>6. ToSet(u) = ToSet(s) \cup ToSet(t)
  <2>1. ASSUME NEW x \in ToSet(u) PROVE x \in ToSet(s) \cup ToSet(t)
    <3>1. PICK i \in 1 .. Len(u) : x = u[i] BY <1>2 DEF ToSet
    <3>2. CASE i \in 1 .. Len(s) BY <1>2, <1>3, <3>1, <3>2 DEF ToSet
    <3>3. CASE i - Len(s) \in 1 .. Len(t) /\ i = Len(s) + (i - Len(s))
      BY <1>2, <1>4, <3>1, <3>3 DEF ToSet
    <3> QED BY <1>5, <3>2, <3>3
  <2>2. ASSUME NEW x \in ToSet(s) PROVE x \in ToSet(u)
    BY <1>1, <1>2, <1>3 DEF ToSet
  <2>3. ASSUME NEW x \in ToSet(t) PROVE x \in ToSet(u)
    <3>1. PICK i \in 1 .. Len(t) : x = t[i] BY <1>2 DEF ToSet
    <3> QED BY <1>2, <1>4, <3>1 DEF ToSet
  <2> QED BY <2>1, <2>2, <2>3
<1>7. ASSUME IsInjective(s), IsInjective(t), ToSet(s) \cap ToSet(t) = {},
             NEW i \in 1 .. Len(u), NEW j \in 1 .. Len(u), u[i] = u[j]
      PROVE  i = j
  <2>1. \A m \in 1 .. Len(s), n \in 1 .. Len(t) : s[m] # t[n] BY <1>2, <1>7 DEF ToSet
  <2>2. CASE i \in 1 .. Len(s) /\ j \in 1 .. Len(s)
    BY <1>2, <1>3, <1>7, <2>2 DEF IsInjective
  <2>3. CASE i \in 1 .. Len(s) /\ j - Len(s) \in 1 .. Len(t)
    BY <1>3, <1>4, <1>5, <1>7, <2>1, <2>3
  <2>4. CASE i - Len(s) \in 1 .. Len(t) /\ j \in 1 .. Len(s)
    BY <1>3, <1>4, <1>5, <1>7, <2>1, <2>4
  <2>5. CASE i - Len(s) \in 1 .. Len(t) /\ j - Len(s) \in 1 .. Len(t)
    <3>1. u[i] = t[i - Len(s)] /\ u[j] = t[j - Len(s)] BY <1>2, <1>4, <2>5
    <3>2. i - Len(s) = j - Len(s) BY <1>2, <1>7, <2>5, <3>1 DEF IsInjective
    <3> QED BY <1>2, <3>2
  <2> QED BY <1>5, <2>2, <2>3, <2>4, <2>5
<1>8. IsInjective(s) /\ IsInjective(t) /\ ToSet(s) \cap ToSet(t) = {} => IsInjective(u)
  BY <1>2, <1>7 DEF IsInjective
<1> QED BY <1>1, <1>6, <1>8

\* One more on a roster that does not have it.
LEMMA RosterGrows ==
    ASSUME NEW S, IsFiniteSet(S), NEW d \in Seq(S), IsInjective(d), NEW s \in S, s \notin ToSet(d),
           NEW n \in Nat \ {0}, Cardinality(S) <= n, NEW e, e = Capped(Append(d, s), n)
    PROVE  e \in Seq(S) /\ IsInjective(e) /\ ToSet(e) = ToSet(d) \cup {s}
<1>1. PICK t : t = <<s>> OBVIOUS
<1>2. t \in Seq(S) /\ DOMAIN t = {1} /\ t[1] = s BY <1>1
<1>3. IsInjective(t) /\ ToSet(t) = {s} BY <1>2 DEF IsInjective, ToSet
<1>4. PICK u : u = Append(d, s) OBVIOUS
<1>5. u \in Seq(S) /\ IsInjective(u) /\ ToSet(u) = ToSet(d) \cup {s}
  <2>1. u = d \o t BY <1>1, <1>4, AppendIsConcat
  <2>2. ToSet(d) \cap ToSet(t) = {} BY <1>3
  <2>3. u \in Seq(S) BY <1>4, AppendProperties
  <2>4. IsInjective(u) BY <1>2, <1>3, <2>1, <2>2, JoinedSequences
  <2>5. ToSet(u) = ToSet(d) \cup {s}
    <3>1. \A x : x \in ToSet(u) <=> x \in ToSet(d) \/ x \in ToSet(t)
      BY <1>2, <2>1, JoinedSequences
    <3>2. \A x : x \in ToSet(t) <=> x = s BY <1>3
    <3> QED BY <3>1, <3>2
  <2> QED BY <2>3, <2>4, <2>5
<1>6. Len(u) \in Nat /\ u \in [1 .. Len(u) -> S] /\ DOMAIN u = 1 .. Len(u) BY <1>5, LenProperties
<1>7. u \in Injection(1 .. Len(u), S) BY <1>6, <1>5 DEF Injection, IsInjective
<1>8. Cardinality(1 .. Len(u)) = Len(u)
  <2>0. Len(u) \in Int /\ 1 \in Int BY <1>6
  <2>1. Cardinality(1 .. Len(u)) = IF 1 > Len(u) THEN 0 ELSE Len(u) - 1 + 1
    BY <2>0, FS_Interval
  <2> QED BY <1>6, <2>1
<1>9. Cardinality(S) \in Nat BY FS_CardinalityType
<1>10. Len(u) <= Cardinality(S) BY <1>7, <1>8, FS_Injection
<1>11. e = u BY <1>4, <1>6, <1>9, <1>10 DEF Capped
<1> QED BY <1>5, <1>11

\* A notice in the file says of every session whether it was told.
Notice == [rev : Revisions, old : BOOLEAN, deliveredTo : Seq(setting.sessions)]

Entry(n) ==
    /\ n \in Notice /\ n.rev \in notified /\ IsInjective(n.deliveredTo)
    /\ n.old => n.rev \in expired
    /\ \A s \in setting.sessions : Has(n, s) <=> n.rev \in ToSet(told[s])

Outrun(n) == Cardinality({m \in notified : m > n}) >= MaxRecords

InFile(ns, n) == \E i \in 1 .. Len(ns) : ns[i].rev = n

\* The file: in the order of the revisions, and what is no longer in it is a day old or
\* was followed by as many as it holds.
Book(ns) ==
    /\ ns \in Seq(Notice) /\ \A i \in 1 .. Len(ns) : Entry(ns[i])
    /\ \A i, j \in 1 .. Len(ns) : i < j => ns[i].rev < ns[j].rev
    /\ AgeInOrder(ns)
    /\ \A n \in notified : InFile(ns, n) \/ n \in expired \/ Outrun(n)

\* What sessions were told was announced, and none was told twice.
Tellings ==
    /\ told = [s \in setting.sessions |-> told[s]]
    /\ notified \subseteq Revisions
    /\ \A s \in setting.sessions :
         /\ told[s] \in Seq(Revisions) /\ IsInjective(told[s])
         /\ \A r \in ToSet(told[s]) : r \in notified

LEMMA RevisionsFinite ==
    ASSUME ConfigSyncAssumption, NEW R, R \subseteq Revisions
    PROVE  IsFiniteSet(R)
<1>1. MaxRevision \in Int /\ 1 \in Int BY DEF ConfigSyncAssumption
<1>2. IsFiniteSet(1 .. MaxRevision) BY <1>1, FS_Interval
<1>3. IsFiniteSet(Revisions) BY <1>2 DEF Revisions
<1> QED BY <1>3, FS_Subset

\* More notices of the past do not change what is in the file.
LEMMA BookStays ==
    ASSUME NEW ns, Book(ns), UNCHANGED <<setting, notified, told>>, expired \subseteq expired'
    PROVE  Book(ns)'
<1>1. Notice' = Notice BY DEF Notice
<1>2. \A i \in 1 .. Len(ns) : Entry(ns[i])' BY <1>1 DEF Book, Entry
<1>3. \A n \in notified' : InFile(ns, n) \/ n \in expired' \/ Outrun(n)'
  BY DEF Book, Outrun
<1>4. /\ ns \in Seq(Notice)' /\ AgeInOrder(ns)
      /\ \A i, j \in 1 .. Len(ns) : i < j => ns[i].rev < ns[j].rev
  BY <1>1 DEF Book
<1> QED BY <1>2, <1>3, <1>4 DEF Book, InFile, AgeInOrder

\* The book of who was told is kept when the eldest young notice grows a day old,
LEMMA AgingKeepsBook ==
    ASSUME Book(notices), UNCHANGED <<setting, notified, told>>, NEW i \in DOMAIN notices,
           \A k \in 1 .. i - 1 : notices[k].old,
           notices' = [notices EXCEPT ![i].old = TRUE],
           expired' = expired \cup {notices[i].rev}
    PROVE  Book(notices)'
<1>1. PICK ns : ns = notices OBVIOUS
<1>2. Book(ns) BY <1>1
<1>3. /\ Len(ns) \in Nat /\ DOMAIN ns = 1 .. Len(ns) /\ i \in 1 .. Len(ns)
      /\ ns \in Seq(Notice) /\ ns[i] \in Notice
  BY <1>1, <1>2, LenProperties, ElementOfSeq DEF Book
<1>4. PICK e : e = [ns[i] EXCEPT !.old = TRUE] OBVIOUS
<1>5. e \in Notice /\ e.old /\ e.rev = ns[i].rev /\ e.deliveredTo = ns[i].deliveredTo
  BY <1>3, <1>4 DEF Notice
<1>6. PICK after : after = [ns EXCEPT ![i] = e] OBVIOUS
<1>7. notices' = after BY <1>1, <1>4, <1>6
<1>8. /\ after \in Seq(Notice) /\ Len(after) = Len(ns)
      /\ \A j \in 1 .. Len(ns) : after[j] = IF j = i THEN e ELSE ns[j]
  BY <1>3, <1>5, <1>6, ExceptSeq
<1>9. Notice' = Notice BY DEF Notice
<1>10. expired \subseteq expired' /\ ns[i].rev \in expired' BY <1>1
<1>11. ASSUME NEW j \in 1 .. Len(ns) PROVE Entry(after[j])' /\ after[j].rev = ns[j].rev
  <2>1. CASE j = i
    <3>1. Entry(ns[i]) BY <1>2, <1>3 DEF Book
    <3>2. after[j] = e BY <1>8, <2>1
    <3> QED BY <1>5, <1>9, <1>10, <2>1, <3>1, <3>2 DEF Entry, Has
  <2>2. CASE j # i
    <3>1. Entry(ns[j]) /\ after[j] = ns[j] BY <1>2, <1>8, <2>2 DEF Book
    <3> QED BY <1>9, <1>10, <3>1 DEF Entry, Has
  <2> QED BY <2>1, <2>2
<1>12. \A j \in 1 .. Len(ns) : (ns[j].old => after[j].old) /\ (j # i /\ after[j].old => ns[j].old)
  BY <1>5, <1>8
<1>13. AgeInOrder(after)
  <2> SUFFICES ASSUME NEW j \in 1 .. Len(after), NEW l \in 1 .. Len(after), j < l, after[l].old
               PROVE  after[j].old
    BY DEF AgeInOrder
  <2>1. j \in 1 .. Len(ns) /\ l \in 1 .. Len(ns) BY <1>8
  <2>2. CASE l = i
    <3>1. j \in 1 .. i - 1 BY <1>3, <2>1, <2>2
    <3>2. ns[j].old BY <1>1, <3>1
    <3> QED BY <1>12, <2>1, <3>2
  <2>3. CASE l # i
    <3>1. ns[l].old BY <1>12, <2>1, <2>3
    <3>2. ns[j].old BY <1>2, <2>1, <3>1 DEF Book, AgeInOrder
    <3> QED BY <1>12, <2>1, <3>2
  <2> QED BY <2>2, <2>3
<1>14. \A j, l \in 1 .. Len(after) : j < l => after[j].rev < after[l].rev
  BY <1>2, <1>8, <1>11 DEF Book
<1>15. ASSUME NEW n \in notified' PROVE InFile(after, n) \/ n \in expired' \/ Outrun(n)'
  <2>1. InFile(ns, n) => InFile(after, n) BY <1>8, <1>11 DEF InFile
  <2>2. Outrun(n)' <=> Outrun(n) BY DEF Outrun
  <2> QED BY <1>2, <1>10, <2>1, <2>2 DEF Book
<1>16. /\ after \in Seq(Notice)' /\ \A j \in 1 .. Len(after) : Entry(after[j])'
  BY <1>8, <1>9, <1>11
<1>17. Book(after)' BY <1>13, <1>14, <1>15, <1>16 DEF Book, InFile, AgeInOrder
<1> QED BY <1>7, <1>17 DEF Book, InFile, AgeInOrder, Entry, Has

\* A set with m different members has no less.
LEMMA AsManyAs ==
    ASSUME NEW T, IsFiniteSet(T), NEW m \in Nat, NEW g \in Injection(1 .. m, T)
    PROVE  Cardinality(T) >= m
<1>1. Cardinality(1 .. m) = m
  <2>1. m \in Int /\ 1 \in Int OBVIOUS
  <2>2. Cardinality(1 .. m) = IF 1 > m THEN 0 ELSE m - 1 + 1 BY <2>1, FS_Interval
  <2> QED BY <2>2
<1>2. Cardinality(T) \in Nat BY FS_CardinalityType
<1>3. Cardinality(1 .. m) <= Cardinality(T) BY FS_Injection
<1> QED BY <1>1, <1>2, <1>3

\* when a revision newer than all announced ones is recorded, over what was read of the file,
LEMMA RecordKeepsBook ==
    ASSUME ConfigSyncAssumption, Tellings, NEW seen, Book(seen), NEW now \in Revisions,
           \A n \in notified : n < now,
           notices' = Recorded(seen, now), notified' = notified \cup {now},
           UNCHANGED <<setting, expired, told>>
    PROVE  Book(notices)'
<1>1. PICK new : new = [rev |-> now, old |-> FALSE, deliveredTo |-> <<>>] OBVIOUS
<1>2. /\ new \in Notice /\ new.rev = now /\ ~new.old /\ new.deliveredTo = <<>>
      /\ ToSet(new.deliveredTo) = {} /\ IsInjective(new.deliveredTo)
  BY <1>1 DEF Notice, ToSet, IsInjective
<1>3. PICK all : all = Append(seen, new) OBVIOUS
<1>4. /\ seen \in Seq(Notice) /\ Len(seen) \in Nat /\ \A i \in 1 .. Len(seen) : Entry(seen[i])
      /\ \A i, j \in 1 .. Len(seen) : i < j => seen[i].rev < seen[j].rev
      /\ AgeInOrder(seen)
      /\ \A n \in notified : InFile(seen, n) \/ n \in expired \/ Outrun(n)
  BY LenProperties DEF Book
<1>5. /\ all \in Seq(Notice) /\ Len(all) = Len(seen) + 1
      /\ \A i \in 1 .. Len(seen) : all[i] = seen[i]
      /\ all[Len(seen) + 1] = new
  BY <1>2, <1>3, <1>4, AppendProperties
<1>6. \A r \in Revisions : r \in Nat BY RevisionShape
<1>7. notified \subseteq Revisions /\ notified' \subseteq Revisions BY DEF Tellings
<1>8. IsFiniteSet(notified') BY <1>7, RevisionsFinite
<1>9. Notice' = Notice BY DEF Notice
<1>10. \A i \in 1 .. Len(all) : i \in 1 .. Len(seen) \/ i = Len(seen) + 1 BY <1>4, <1>5
<1>11. ASSUME NEW i \in 1 .. Len(all) PROVE Entry(all[i])'
  <2>1. CASE i \in 1 .. Len(seen)
    <3>1. Entry(seen[i]) /\ all[i] = seen[i] BY <1>4, <1>5, <2>1
    <3> QED BY <1>9, <3>1 DEF Entry, Has
  <2>2. CASE i = Len(seen) + 1
    <3>1. all[i] = new BY <1>5, <2>2
    <3>2. \A s \in setting.sessions : now \notin ToSet(told[s])
      <4>1. now \notin notified BY <1>6
      <4> QED BY <4>1 DEF Tellings
    <3> QED BY <1>2, <1>9, <3>1, <3>2 DEF Entry, Has
  <2> QED BY <1>10, <2>1, <2>2
<1>12. ASSUME NEW i \in 1 .. Len(all), NEW j \in 1 .. Len(all), i < j
       PROVE  all[i].rev < all[j].rev /\ (all[j].old => all[i].old)
  <2>1. i \in 1 .. Len(seen) /\ all[i] = seen[i] BY <1>4, <1>5, <1>12
  <2>2. CASE j \in 1 .. Len(seen)
    <3>1. all[j] = seen[j] BY <1>5, <2>2
    <3> QED BY <1>4, <1>12, <2>1, <2>2, <3>1 DEF AgeInOrder
  <2>3. CASE j = Len(seen) + 1
    <3>1. all[j] = new BY <1>5, <2>3
    <3>2. seen[i].rev \in notified BY <1>4, <2>1 DEF Entry
    <3> QED BY <1>2, <2>1, <3>1, <3>2
  <2> QED BY <1>10, <2>2, <2>3
<1>13. ASSUME NEW n \in notified' PROVE InFile(all, n) \/ n \in expired' \/ Outrun(n)'
  <2>1. CASE n = now
    <3>1. Len(seen) + 1 \in 1 .. Len(all) BY <1>4, <1>5
    <3> QED BY <1>2, <1>5, <2>1, <3>1 DEF InFile
  <2>2. CASE n # now
    <3>1. n \in notified BY <2>2
    <3>2. CASE InFile(seen, n)
      <4>1. PICK i \in 1 .. Len(seen) : seen[i].rev = n BY <3>2 DEF InFile
      <4>2. i \in 1 .. Len(all) /\ all[i].rev = n BY <1>4, <1>5, <4>1
      <4> QED BY <4>2 DEF InFile
    <3>3. CASE n \in expired BY <3>3
    <3>4. CASE Outrun(n)
      <4> DEFINE T == {m \in notified : m > n}
                 U == {m \in notified' : m > n}
      <4>1. T \subseteq U /\ IsFiniteSet(U) BY <1>8, FS_Subset
      <4>2. Cardinality(T) <= Cardinality(U) /\ IsFiniteSet(T) BY <4>1, FS_Subset
      <4>3. Cardinality(T) >= MaxRecords BY <3>4 DEF Outrun
      <4>4. Cardinality(T) \in Nat /\ Cardinality(U) \in Nat BY <4>1, <4>2, FS_CardinalityType
      <4>5. Cardinality(U) >= MaxRecords BY <4>2, <4>3, <4>4 DEF ConfigSyncAssumption
      <4> QED BY <4>5 DEF Outrun
    <3> QED BY <1>4, <3>1, <3>2, <3>3, <3>4
  <2> QED BY <2>1, <2>2
<1>14. MaxRecords \in Nat \ {0} BY DEF ConfigSyncAssumption
<1>15. PICK k \in 0 .. Len(all) :
         /\ Capped(all, MaxRecords) = SubSeq(all, k + 1, Len(all))
         /\ k # 0 => Len(all) - k = MaxRecords
  BY <1>5, <1>14, CappedIsEnd
<1>16. PICK after : after = SubSeq(all, k + 1, Len(all)) OBVIOUS
<1>17. notices' = after BY <1>1, <1>3, <1>15, <1>16 DEF Recorded
<1>18. /\ after \in Seq(Notice) /\ Len(after) = Len(all) - k /\ Len(after) \in Nat
       /\ \A i \in 1 .. Len(after) : after[i] = all[k + i] /\ k + i \in 1 .. Len(all)
  <2>1. /\ after \in Seq(Notice) /\ Len(after) = Len(all) - k
        /\ \A i \in 1 .. Len(after) : after[i] = all[k + i] /\ k + i \in 1 .. Len(all)
    BY <1>5, <1>16, EndOfSequence
  <2> QED BY <2>1, LenProperties
<1>19. \A i \in 1 .. Len(after) : Entry(after[i])' BY <1>11, <1>18
<1>20. ASSUME NEW i \in 1 .. Len(after), NEW j \in 1 .. Len(after), i < j
       PROVE  after[i].rev < after[j].rev /\ (after[j].old => after[i].old)
  <2>1. k + i < k + j BY <1>18, <1>20
  <2> QED BY <1>12, <1>18, <2>1
<1>21. ASSUME NEW n \in notified', InFile(all, n), ~InFile(after, n) PROVE Outrun(n)'
  <2>1. PICK i \in 1 .. Len(all) : all[i].rev = n BY <1>21 DEF InFile
  <2>2. i <= k
    <3> SUFFICES ASSUME ~(i <= k) PROVE FALSE OBVIOUS
    <3>1. i - k \in 1 .. Len(after) /\ k + (i - k) = i BY <1>4, <1>5, <1>18
    <3>2. after[i - k].rev = n BY <1>18, <2>1, <3>1
    <3> QED BY <1>21, <3>1, <3>2 DEF InFile
  <2>3. k # 0 /\ Len(after) = MaxRecords BY <1>15, <1>18, <2>2
  <2>4. \A j \in 1 .. Len(after) : n < after[j].rev
    <3> SUFFICES ASSUME NEW j \in 1 .. Len(after) PROVE n < after[j].rev OBVIOUS
    <3>1. i < k + j /\ k + j \in 1 .. Len(all) /\ after[j] = all[k + j] BY <1>18, <2>2
    <3> QED BY <1>12, <2>1, <3>1
  <2>5. \A j \in 1 .. Len(after) : after[j].rev \in notified' BY <1>19 DEF Entry
  <2>6. \A j, l \in 1 .. Len(after) : j < l => after[j].rev < after[l].rev BY <1>20
  <2>7. notified' \subseteq Nat BY <1>6, <1>7
  <2>8. Cardinality({r \in notified' : r > n}) >= Len(after)
    <3>1. PICK T : T = {r \in notified' : r > n} OBVIOUS
    <3>2. PICK m \in Nat : m = Len(after) BY <1>18
    <3>3. PICK g : g = [j \in 1 .. m |-> after[j].rev] OBVIOUS
    <3>4. IsFiniteSet(T) BY <1>8, <3>1, FS_Subset
    <3>5. \A j \in 1 .. m : after[j].rev \in T /\ after[j].rev \in Nat
      BY <2>4, <2>5, <2>7, <3>1, <3>2
    <3>6. ASSUME NEW a \in 1 .. m, NEW b \in 1 .. m, g[a] = g[b] PROVE a = b
      <4>1. after[a].rev = after[b].rev BY <3>3, <3>6
      <4> QED BY <2>6, <3>2, <3>5, <4>1
    <3>7. g \in Injection(1 .. m, T) BY <3>3, <3>5, <3>6 DEF Injection, IsInjective
    <3> QED BY <3>1, <3>2, <3>4, <3>7, AsManyAs
  <2> QED BY <2>3, <2>8 DEF Outrun
<1>22. \A n \in notified' : InFile(after, n) \/ n \in expired' \/ Outrun(n)' BY <1>13, <1>21
<1>23. after \in Seq(Notice)' BY <1>9, <1>18
<1>24. Book(after)' BY <1>19, <1>20, <1>22, <1>23 DEF Book, InFile, AgeInOrder
<1> QED BY <1>17, <1>24 DEF Book, InFile, AgeInOrder, Entry, Has

\* The roster of a notice has room for every session.
RosterHolds ==
    \A s \in Settings : IsFiniteSet(s.sessions) /\ Cardinality(s.sessions) <= MaxDeliveredTo

\* and when a session is told what its name is not on the roster of.
LEMMA DrainKeepsBook ==
    ASSUME ConfigSyncAssumption, RosterHolds, setting \in Settings, Tellings, Book(notices),
           NEW s \in setting.sessions, notices' = Drained(notices, s),
           told' = [told EXCEPT ![s] = @ \o SetToSeq(Undelivered(notices, s))],
           UNCHANGED <<setting, notified, expired>>
    PROVE  Book(notices)' /\ Tellings'
<1>1. PICK ns : ns = notices OBVIOUS
<1>2. PICK S : S = setting.sessions OBVIOUS
<1>3. /\ IsFiniteSet(S) /\ Cardinality(S) <= MaxDeliveredTo /\ MaxDeliveredTo \in Nat \ {0}
      /\ s \in S
  BY <1>2 DEF RosterHolds, ConfigSyncAssumption
<1>4. /\ ns \in Seq(Notice) /\ Len(ns) \in Nat /\ \A i \in 1 .. Len(ns) : Entry(ns[i])
      /\ \A i, j \in 1 .. Len(ns) : i < j => ns[i].rev < ns[j].rev
      /\ AgeInOrder(ns)
      /\ \A n \in notified : InFile(ns, n) \/ n \in expired \/ Outrun(n)
  BY <1>1, LenProperties DEF Book
<1>5. PICK k \in 0 .. Len(ns) :
         /\ Kept(ns) = SubSeq(ns, k + 1, Len(ns))
         /\ \A i \in 1 .. Len(ns) : ns[i].old <=> i <= k
  BY <1>4, KeptIsEnd
<1>6. PICK kept : kept = Kept(ns) OBVIOUS
<1>7. /\ kept \in Seq(Notice) /\ Len(kept) = Len(ns) - k
      /\ \A i \in 1 .. Len(kept) : kept[i] = ns[k + i] /\ k + i \in 1 .. Len(ns)
  BY <1>4, <1>5, <1>6, EndOfSequence
<1>8. Len(kept) \in Nat /\ DOMAIN kept = 1 .. Len(kept) BY <1>7, LenProperties
<1>9. \A i \in 1 .. Len(kept) : Entry(kept[i]) BY <1>4, <1>7
<1>10. PICK U : U = Undelivered(ns, s) OBVIOUS
<1>11. \A x : x \in U <=> \E i \in 1 .. Len(kept) : kept[i].rev = x /\ ~Has(kept[i], s)
  <2>1. \A n : n \in ToSet(Kept(ns)) <=> \E i \in 1 .. Len(kept) : kept[i] = n
    BY <1>6, <1>8 DEF ToSet
  <2>2. \A x : x \in U <=> \E n \in ToSet(Kept(ns)) : ~Has(n, s) /\ x = n.rev
    BY <1>10 DEF Undelivered
  <2> QED BY <2>1, <2>2
<1>12. \A x \in U : x \in Revisions /\ x \in notified /\ x \notin ToSet(told[s])
  BY <1>9, <1>11 DEF Entry, Notice
<1>13. PICK f : f = SetToSeq(U) OBVIOUS
<1>14. f \in Seq(Revisions) /\ IsInjective(f) /\ ToSet(f) = U
  <2>1. U \subseteq Revisions BY <1>12
  <2>2. IsFiniteSet(U) BY <2>1, RevisionsFinite
  <2>3. f \in Seq(U) /\ IsInjective(f) /\ ToSet(f) = U BY <1>13, <2>2, SetInOrder
  <2> QED BY <2>1, <2>3, SeqMonotonic
<1>15. PICK t : t = told[s] OBVIOUS
<1>16. t \in Seq(Revisions) /\ IsInjective(t) /\ \A r \in ToSet(t) : r \in notified
  BY <1>15 DEF Tellings
<1>17. PICK u : u = t \o f OBVIOUS
<1>18. /\ u \in Seq(Revisions) /\ IsInjective(u)
       /\ \A x : x \in ToSet(u) <=> x \in ToSet(t) \/ x \in U
  <2>1. ToSet(t) \cap ToSet(f) = {} BY <1>12, <1>14, <1>15
  <2>2. /\ u \in Seq(Revisions)
        /\ \A x : x \in ToSet(u) <=> x \in ToSet(t) \/ x \in ToSet(f)
    BY <1>14, <1>16, <1>17, JoinedSequences
  <2>3. IsInjective(u) BY <1>14, <1>16, <1>17, <2>1, JoinedSequences
  <2> QED BY <1>14, <2>2, <2>3
<1>19. /\ told' = [x \in S |-> told'[x]] /\ told'[s] = u
       /\ \A x \in S \ {s} : told'[x] = told[x]
  <2>1. told = [x \in S |-> told[x]] BY <1>2 DEF Tellings
  <2>2. told' = [told EXCEPT ![s] = u] BY <1>1, <1>10, <1>13, <1>15, <1>17
  <2> QED BY <1>3, <2>1, <2>2
<1>20. Tellings'
  <2>1. ASSUME NEW x \in S
        PROVE  /\ told'[x] \in Seq(Revisions) /\ IsInjective(told'[x])
               /\ \A r \in ToSet(told'[x]) : r \in notified
    <3>1. CASE x = s BY <1>12, <1>16, <1>18, <1>19, <3>1
    <3>2. CASE x # s
      <4>1. told'[x] = told[x] BY <1>19, <3>2
      <4> QED BY <1>2, <4>1 DEF Tellings
    <3> QED BY <3>1, <3>2
  <2>2. setting'.sessions = S /\ notified' = notified BY <1>2
  <2>3. notified \subseteq Revisions BY DEF Tellings
  <2> QED BY <1>19, <2>1, <2>2, <2>3 DEF Tellings
<1>21. PICK after : after = Drained(ns, s) OBVIOUS
<1>22. \A i \in 1 .. Len(kept) :
         after[i] = IF Has(kept[i], s) THEN kept[i]
                    ELSE [kept[i] EXCEPT !.deliveredTo = Capped(Append(@, s), MaxDeliveredTo)]
  BY <1>6, <1>8, <1>21 DEF Drained
<1>23. ASSUME NEW i \in 1 .. Len(kept)
       PROVE  /\ after[i] \in Notice /\ after[i].rev = kept[i].rev /\ after[i].old = kept[i].old
              /\ IsInjective(after[i].deliveredTo)
              /\ \A x : Has(after[i], x) <=> Has(kept[i], x) \/ x = s
  <2>1. PICK n : n = kept[i] OBVIOUS
  <2>2. Entry(n) BY <1>9, <2>1
  <2>3. CASE Has(n, s)
    <3>1. after[i] = n BY <1>22, <2>1, <2>3
    <3> QED BY <2>1, <2>2, <2>3, <3>1 DEF Entry
  <2>4. CASE ~Has(n, s)
    <3>1. PICK d : d = n.deliveredTo OBVIOUS
    <3>2. PICK e : e = Capped(Append(d, s), MaxDeliveredTo) OBVIOUS
    <3>3. d \in Seq(S) /\ IsInjective(d) BY <1>2, <2>2, <3>1 DEF Entry, Notice
    <3>4. s \notin ToSet(d) BY <2>4, <3>1 DEF Has
    <3>5. e \in Seq(S) /\ IsInjective(e) /\ ToSet(e) = ToSet(d) \cup {s}
      BY <1>3, <3>2, <3>3, <3>4, RosterGrows
    <3>6. after[i] = [n EXCEPT !.deliveredTo = e] BY <1>22, <2>1, <2>4, <3>1, <3>2
    <3>7. /\ after[i] \in Notice /\ after[i].rev = n.rev /\ after[i].old = n.old
          /\ after[i].deliveredTo = e
      <4>1. n \in Notice BY <2>2 DEF Entry
      <4>2. e \in Seq(setting.sessions) BY <1>2, <3>5
      <4> QED BY <3>6, <4>1, <4>2 DEF Notice
    <3>8. \A x : Has(after[i], x) <=> Has(n, x) \/ x = s BY <3>1, <3>5, <3>7 DEF Has
    <3> QED BY <2>1, <3>5, <3>7, <3>8
  <2> QED BY <2>3, <2>4
<1>24. /\ after \in Seq(Notice) /\ Len(after) = Len(kept)
  <2>1. after = [i \in 1 .. Len(kept) |-> after[i]] BY <1>6, <1>8, <1>21 DEF Drained
  <2> QED BY <1>8, <1>23, <2>1
<1>25. Notice' = Notice BY DEF Notice
<1>26. ASSUME NEW i \in 1 .. Len(after) PROVE Entry(after[i])'
  <2>0. i \in 1 .. Len(kept) BY <1>24
  <2>1. PICK n : n = kept[i] OBVIOUS
  <2>2. Entry(n) BY <1>9, <2>0, <2>1
  <2>3. PICK m : m = after[i] OBVIOUS
  <2>4. /\ m \in Notice /\ m.rev = n.rev /\ m.old = n.old /\ IsInjective(m.deliveredTo)
        /\ \A x : Has(m, x) <=> Has(n, x) \/ x = s
    BY <1>23, <2>0, <2>1, <2>3
  <2>5. ASSUME NEW x \in S PROVE Has(m, x) <=> m.rev \in ToSet(told'[x])
    <3>1. Has(n, x) <=> n.rev \in ToSet(told[x]) BY <1>2, <2>2 DEF Entry
    <3>2. CASE x = s
      <4>1. n.rev \in ToSet(told'[s])
        <5>1. CASE Has(n, s) BY <1>15, <1>18, <1>19, <3>1, <3>2, <5>1
        <5>2. CASE ~Has(n, s)
          <6>1. n.rev \in U BY <1>11, <2>0, <2>1, <5>2
          <6> QED BY <1>18, <1>19, <6>1
        <5> QED BY <5>1, <5>2
      <4> QED BY <2>4, <3>2, <4>1
    <3>3. CASE x # s
      <4>1. told'[x] = told[x] BY <1>19, <3>3
      <4> QED BY <2>4, <3>1, <3>3, <4>1
    <3> QED BY <3>2, <3>3
  <2>6. Entry(m)'
    <3>1. \A x \in setting'.sessions : Has(m, x) <=> m.rev \in ToSet(told'[x])
      BY <1>2, <2>5
    <3>2. m \in Notice' /\ m.rev \in notified' /\ (m.old => m.rev \in expired')
      BY <1>25, <2>2, <2>4 DEF Entry
    <3> QED BY <2>4, <3>1, <3>2 DEF Entry, Has
  <2> QED BY <2>3, <2>6
<1>27. ASSUME NEW i \in 1 .. Len(after), NEW j \in 1 .. Len(after), i < j
       PROVE  after[i].rev < after[j].rev /\ (after[j].old => after[i].old)
  <2>1. i \in 1 .. Len(kept) /\ j \in 1 .. Len(kept) BY <1>24
  <2>2. /\ after[i].rev = kept[i].rev /\ after[i].old = kept[i].old
        /\ after[j].rev = kept[j].rev /\ after[j].old = kept[j].old
    BY <1>23, <2>1
  <2>3. /\ kept[i] = ns[k + i] /\ k + i \in 1 .. Len(ns)
        /\ kept[j] = ns[k + j] /\ k + j \in 1 .. Len(ns) /\ k + i < k + j
    BY <1>7, <1>27, <2>1
  <2> QED BY <1>4, <2>2, <2>3 DEF AgeInOrder
<1>28. ASSUME NEW n \in notified PROVE InFile(after, n) \/ n \in expired \/ Outrun(n)
  <2>1. CASE InFile(ns, n)
    <3>1. PICK i \in 1 .. Len(ns) : ns[i].rev = n BY <2>1 DEF InFile
    <3>2. CASE i <= k
      <4>1. ns[i].old BY <1>5, <3>2
      <4> QED BY <1>4, <3>1, <4>1 DEF Entry
    <3>3. CASE ~(i <= k)
      <4>1. i - k \in 1 .. Len(kept) /\ k + (i - k) = i BY <1>4, <1>7, <3>3
      <4>2. kept[i - k] = ns[i] BY <1>7, <4>1
      <4>3. after[i - k].rev = n BY <1>23, <3>1, <4>1, <4>2
      <4> QED BY <1>24, <4>1, <4>3 DEF InFile
    <3> QED BY <3>2, <3>3
  <2> QED BY <1>4, <2>1
<1>29. \A n \in notified' : InFile(after, n) \/ n \in expired' \/ Outrun(n)'
  BY <1>28 DEF Outrun
<1>30. after \in Seq(Notice)' BY <1>24, <1>25
<1>31. Book(after)' BY <1>26, <1>27, <1>29, <1>30 DEF Book, InFile, AgeInOrder
<1>32. notices' = after BY <1>1, <1>21
<1> QED BY <1>20, <1>31, <1>32 DEF Book, InFile, AgeInOrder, Entry, Has

\* What a refresh is about to announce is newer than all that was.  Where the checkout is
\* lost the remote is ahead of it, since what replaces it was fetched before it went.
Ahead(q) ==
    /\ proc[q].pc = "probe" => best = 0 \/ proc[q].have = best \/ best < remote
    /\ proc[q].pc \in {"clone", "cloning"} => best < remote
    /\ proc[q].pc \in {"retire", "move", "publish"} => best < staging
    /\ proc[q].pc \in {"clear", "record", "write"} => \A n \in notified : n < live
    /\ proc[q].pc = "write" => Book(proc[q].seen)

Told ==
    /\ Tellings /\ Book(notices)
    /\ \A n \in notified : n <= best
    /\ \A q \in Procs : Ahead(q)
    /\ Stranded => best < remote

LEMMA SeenStays ==
    ASSUME NEW q \in Procs, Book(proc[q].seen), proc'[q] = proc[q],
           UNCHANGED <<setting, notified, told>>, expired \subseteq expired'
    PROVE  Book(proc[q].seen)'
<1>1. PICK ns : ns = proc[q].seen OBVIOUS
<1>2. Book(ns)' BY <1>1, BookStays
<1>3. proc'[q].seen = ns BY <1>1
<1> QED BY <1>2, <1>3 DEF Book, InFile, AgeInOrder, Entry, Has

LEMMA NoticesStay ==
    ASSUME Book(notices), notices' = notices, UNCHANGED <<setting, notified, expired, told>>
    PROVE  Book(notices)'
<1>1. PICK ns : ns = notices OBVIOUS
<1>2. Book(ns)' BY <1>1, BookStays
<1>3. notices' = ns BY <1>1
<1> QED BY <1>2, <1>3 DEF Book, InFile, AgeInOrder, Entry, Has

LEMMA AheadStays ==
    ASSUME ConfigSyncAssumption, NEW q \in Procs, Ahead(q), proc'[q] = proc[q],
           UNCHANGED <<setting, live, staging, notified, told, best>>, expired \subseteq expired',
           best \in Nat, remote \in Revisions, remote' \in Revisions, remote' >= remote
    PROVE  Ahead(q)'
<1>1. remote \in Nat /\ remote' \in Nat BY RevisionShape
<1>2. proc[q].pc = "write" => Book(proc[q].seen)' BY SeenStays DEF Ahead
<1>3. /\ proc'[q].pc = "probe" => best' = 0 \/ proc'[q].have = best' \/ best' < remote'
      /\ proc'[q].pc \in {"clone", "cloning"} => best' < remote'
      /\ proc'[q].pc \in {"retire", "move", "publish"} => best' < staging'
      /\ proc'[q].pc \in {"clear", "record", "write"} => \A n \in notified' : n < live'
  BY <1>1 DEF Ahead
<1>4. proc'[q].pc = "write" => Book(proc[q].seen)' BY <1>2
<1> QED BY <1>3, <1>4 DEF Ahead

LEMMA ElsewhereTells ==
    ASSUME Tellings, UNCHANGED <<setting, notified, told>>
    PROVE  Tellings'
  BY DEF Tellings

LEMMA OutsideKeepsTold ==
    ASSUME ConfigSyncAssumption, LockInv, DirInv, Told, NEW p \in Procs, Others(p),
           proc'[p].pc \notin Locked \/ proc'[p].pc = "recover",
           UNCHANGED <<setting, remote, live, staging, notices, notified, expired, told, best>>
    PROVE  Told'
<1>1. Tellings' BY ElsewhereTells DEF Told
<1>2. Book(notices)' BY NoticesStay DEF Told
<1>3. \A n \in notified' : n <= best' BY DEF Told
<1>4. remote \in Revisions /\ remote \in Nat /\ best \in Nat
  BY RevisionShape DEF LockInv, Typed, DirInv, Stocked, Newer
<1>5. ASSUME NEW q \in Procs PROVE Ahead(q)'
  <2>1. CASE q = p
    <3>1. Ahead(p)' BY DEF Ahead, Locked
    <3> QED BY <2>1, <3>1
  <2>2. CASE q # p
    <3>1. proc'[q] = proc[q] /\ Ahead(q) BY <2>2 DEF Others, Told
    <3>2. expired \subseteq expired' /\ remote' \in Revisions /\ remote' >= remote BY <1>4
    <3> QED BY <1>4, <3>1, <3>2, AheadStays
  <2> QED BY <2>1, <2>2
<1>6. (Stranded => best < remote)' BY DEF Told, Stranded
<1> QED BY <1>1, <1>2, <1>3, <1>5, <1>6 DEF Told

\* The step of the holder: the probe finds the remote ahead of what was announced, and so
\* it stays until the new revision is.
LEMMA HolderTells ==
    ASSUME ConfigSyncAssumption, OneAtATime, LockInv, DirInv, Told,
           NEW p \in Procs, Step(p), Walks(p), proc[p].pc \in Locked
    PROVE  Told'
<1> DEFINE at == proc[p].pc
           to == proc'[p].pc
<1>1. One BY OneAtWork
<1>2. /\ setting' = setting /\ remote' = remote /\ remote \in Nat /\ remote >= 1
      /\ remote \in Revisions
  BY RevisionShape DEF Walks, LockInv, Typed
<1>3. /\ live \in Revisions \cup {Absent} /\ retired \in Revisions \cup {Absent}
      /\ best \in Nat /\ best <= remote
      /\ Good(live) => live = best
      /\ Ready(p) /\ Ahead(p) /\ (Stranded => best < remote)
      /\ \A n \in notified : n \in Nat /\ n <= best
  BY RevisionShape DEF DirInv, Stocked, Newer, Told, Tellings
<1>4. ASSUME NEW q \in Procs \ {p} PROVE Ahead(q)'
  <2>1. proc[q].pc \notin Locked /\ proc'[q] = proc[q] BY <1>1 DEF One, Walks, Others
  <2>2. proc'[q].pc \notin Locked BY <2>1
  <2> QED BY <2>2 DEF Ahead, Locked
<1>4a. (Stranded => best < remote)'
  <2>1. UNCHANGED <<live, best>> \/ live' # Absent \/ RetireLive(p)
    BY DEF Step, ReadLocal, TryLock, StealLock, RemakeLock, RecoverRetired, SweepStaging,
       LookAgain, Probe, StartClone, FinishClone, RemoveLeftover, PublishStaged, Unwind,
       Discard, ClearRetired, ReadNotices, RecordChange, Unlock, SaveState, SetLive, dirs
  <2>2. CASE RetireLive(p)
    <3>1. at = "move" /\ best' = best BY <2>2 DEF RetireLive
    <3>2. staging \in Nat /\ best < staging /\ staging <= remote
      BY <1>3, <3>1, RevisionShape DEF Ready, Ahead
    <3> QED BY <1>2, <1>3, <3>1, <3>2
  <2>3. CASE UNCHANGED <<live, best>> BY <1>2, <1>3, <2>3 DEF Stranded
  <2> QED BY <2>1, <2>2, <2>3 DEF Stranded
<1>5. ASSUME Ahead(p)', UNCHANGED <<notices, notified, expired, told>>, best' \in Nat,
             best' >= best
      PROVE  Told'
  <2>1. Tellings' BY <1>2, <1>5, ElsewhereTells DEF Told
  <2>2. Book(notices)' BY <1>2, <1>5, NoticesStay DEF Told
  <2>3. \A n \in notified' : n <= best' BY <1>3, <1>5
  <2>4. \A q \in Procs : Ahead(q)' BY <1>4, <1>5
  <2> QED BY <1>4a, <2>1, <2>2, <2>3, <2>4 DEF Told
<1>6. /\ \A pc : Goto(p, pc) => to = pc /\ proc'[p].have = proc[p].have
      /\ \A a : Conclude(p, a) => to = "unlock"
  BY GotoMoves, ConcludeMoves DEF LockInv
<1>7. ASSUME NEW d \in Revisions \cup {Absent}, SetLive(d) PROVE best' \in Nat /\ best' >= best
  BY <1>3, <1>7, RevisionShape DEF SetLive, Newest, Good
<1>8. to \in {"recover", "sweep", "look", "unwind", "discard", "unlock", "save"} => Ahead(p)'
  BY DEF Ahead
<1>9. CASE RecoverRetired(p)
  <2>1. to = "sweep" BY <1>6, <1>9 DEF RecoverRetired
  <2>2. UNCHANGED <<notices, notified, expired, told>> BY <1>9 DEF RecoverRetired, news
  <2>3. best' = best \/ SetLive(retired) BY <1>9 DEF RecoverRetired
  <2> QED BY <1>3, <1>5, <1>7, <1>8, <2>1, <2>2, <2>3
<1>10. CASE SweepStaging(p)
  <2>1. to = "look" BY <1>6, <1>10 DEF SweepStaging
  <2>2. UNCHANGED <<notices, notified, expired, told, best>> BY <1>10 DEF SweepStaging, news
  <2> QED BY <1>3, <1>5, <1>8, <2>1, <2>2
<1>11. CASE LookAgain(p)
  <2>1. UNCHANGED <<notices, notified, expired, told, best, live>>
    BY <1>11 DEF LookAgain, news, dirs
  <2>2. at = "look" /\ to = "probe"
        /\ proc'[p].have = IF LocalSha # None THEN LocalSha ELSE proc[p].have
    BY <1>11 DEF LookAgain, LockInv, Shaped, Fields
  <2>3. best = 0 \/ proc'[p].have = best \/ best < remote
    <3>1. CASE Good(live)
      <4>1. LocalSha = best /\ LocalSha # None
        BY <1>3, <3>1, RevisionShape DEF LocalSha, Good
      <4> QED BY <2>2, <4>1
    <3>2. CASE ~Good(live)
      <4>1. live = Absent BY <1>3, <3>2 DEF Good
      <4> QED BY <1>3, <4>1 DEF Stranded
    <3> QED BY <3>1, <3>2
  <2>4. Ahead(p)' BY <1>2, <2>1, <2>2, <2>3 DEF Ahead
  <2> QED BY <1>3, <1>5, <2>1, <2>4
<1>12. CASE Probe(p)
  <2>1. UNCHANGED <<notices, notified, expired, told, best>> BY <1>12 DEF Probe, news
  <2>2. at = "probe" BY <1>12 DEF Probe
  <2>3. CASE to = "unlock" BY <1>3, <1>5, <1>8, <2>1, <2>3
  <2>4. CASE proc[p].have # remote /\ proc' = [proc EXCEPT ![p].pc = "clone", ![p].target = remote]
    <3>1. to = "clone" BY <2>4 DEF LockInv, Shaped, Fields
    <3>2. best = 0 \/ proc[p].have = best \/ best < remote BY <1>3, <2>2 DEF Ahead
    <3>3. best < remote BY <1>2, <1>3, <2>4, <3>2
    <3>4. Ahead(p)' BY <1>2, <2>1, <3>1, <3>3 DEF Ahead
    <3> QED BY <1>3, <1>5, <2>1, <3>4
  <2> QED BY <1>6, <1>12, <2>3, <2>4 DEF Probe
<1>13. CASE StartClone(p)
  <2>1. UNCHANGED <<notices, notified, expired, told, best>> BY <1>13 DEF StartClone, news
  <2>2. at = "clone" /\ to = "cloning" BY <1>6, <1>13 DEF StartClone
  <2>3. Ahead(p)' BY <1>2, <1>3, <2>1, <2>2 DEF Ahead
  <2> QED BY <1>3, <1>5, <2>1, <2>3
<1>14. CASE FinishClone(p)
  <2>1. UNCHANGED <<notices, notified, expired, told, best>> BY <1>14 DEF FinishClone, news
  <2>2. at = "cloning" /\ (to = "discard" \/ (to = "retire" /\ staging' = remote))
    BY <1>6, <1>14 DEF FinishClone
  <2>3. Ahead(p)' BY <1>2, <1>3, <2>1, <2>2 DEF Ahead
  <2> QED BY <1>3, <1>5, <2>1, <2>3
<1>15. CASE RemoveLeftover(p)
  <2>1. UNCHANGED <<notices, notified, expired, told, best, staging>>
    BY <1>15 DEF RemoveLeftover, news
  <2>2. at = "retire" /\ to = "move" BY <1>6, <1>15 DEF RemoveLeftover
  <2>3. Ahead(p)' BY <1>3, <2>1, <2>2 DEF Ahead
  <2> QED BY <1>3, <1>5, <2>1, <2>3
<1>16. CASE RetireLive(p)
  <2>1. UNCHANGED <<notices, notified, expired, told, best, staging>>
    BY <1>16 DEF RetireLive, news
  <2>2. at = "move" /\ to \in {"publish", "discard"} BY <1>6, <1>16 DEF RetireLive
  <2>3. Ahead(p)' BY <1>3, <2>1, <2>2 DEF Ahead
  <2> QED BY <1>3, <1>5, <2>1, <2>3
<1>17. CASE PublishStaged(p)
  <2>1. UNCHANGED <<notices, notified, expired, told>> BY <1>17 DEF PublishStaged, news
  <2>2. at = "publish" BY <1>17 DEF PublishStaged
  <2>3. staging \in Revisions /\ best < staging BY <1>3, <2>2 DEF Ready, Ahead
  <2>4. CASE to = "unwind" /\ best' = best BY <1>3, <1>5, <1>8, <2>1, <2>4
  <2>5. CASE to = "clear" /\ SetLive(staging)
    <3>1. staging \in Nat BY <2>3, RevisionShape
    <3>2. live' = staging /\ best' = staging BY <1>3, <2>3, <2>5, <3>1, NewestLive
    <3>3. \A n \in notified' : n < live' BY <1>3, <2>1, <2>3, <3>1, <3>2
    <3>4. Ahead(p)' BY <2>5, <3>3 DEF Ahead
    <3> QED BY <1>3, <1>5, <2>1, <2>3, <3>1, <3>2, <3>4
  <2> QED BY <1>6, <1>17, <2>4, <2>5 DEF PublishStaged
<1>18. CASE Unwind(p)
  <2>1. to = "discard" BY <1>6, <1>18 DEF Unwind
  <2>2. UNCHANGED <<notices, notified, expired, told>> BY <1>18 DEF Unwind, news
  <2>3. best' = best \/ SetLive(retired) BY <1>18 DEF Unwind
  <2> QED BY <1>3, <1>5, <1>7, <1>8, <2>1, <2>2, <2>3
<1>19. CASE Discard(p)
  <2>1. to = "unlock" BY <1>6, <1>19 DEF Discard
  <2>2. UNCHANGED <<notices, notified, expired, told, best>> BY <1>19 DEF Discard, news
  <2> QED BY <1>3, <1>5, <1>8, <2>1, <2>2
<1>20. CASE ClearRetired(p)
  <2>1. UNCHANGED <<notices, notified, expired, told, best, live>>
    BY <1>20 DEF ClearRetired, news
  <2>2. at = "clear" /\ to = "record" BY <1>6, <1>20 DEF ClearRetired
  <2>3. Ahead(p)' BY <1>3, <2>1, <2>2 DEF Ahead
  <2> QED BY <1>3, <1>5, <2>1, <2>3
<1>21. CASE ReadNotices(p)
  <2>1. UNCHANGED <<notices, notified, expired, told, best, live>>
    BY <1>21 DEF ReadNotices, news, dirs
  <2>2. at = "record" BY <1>21 DEF ReadNotices
  <2>3. CASE to = "unlock" BY <1>3, <1>5, <1>8, <2>1, <2>3
  <2>4. CASE proc' = [proc EXCEPT ![p].pc = "write", ![p].seen = notices]
    <3>1. to = "write" /\ proc'[p].seen = notices BY <2>4 DEF LockInv, Shaped, Fields
    <3>2. Book(notices)' BY <1>2, <2>1, NoticesStay DEF Told
    <3>3. Book(proc[p].seen)'
      <4>1. proc'[p].seen = notices' BY <2>1, <3>1
      <4> QED BY <3>2, <4>1 DEF Book, InFile, AgeInOrder, Entry, Has
    <3>4. \A n \in notified' : n < live' BY <1>3, <2>1, <2>2 DEF Ahead
    <3>5. Ahead(p)' BY <3>1, <3>3, <3>4 DEF Ahead
    <3> QED BY <1>3, <1>5, <2>1, <3>5
  <2> QED BY <1>6, <1>21, <2>3, <2>4 DEF ReadNotices
<1>22. CASE RecordChange(p)
  <2>1. at = "write" /\ to = "unlock"
    BY <1>22 DEF RecordChange, LockInv, Shaped, Fields
  <2>2. /\ Good(live) /\ live = best /\ \A n \in notified : n < live
        /\ Book(proc[p].seen)
    BY <1>3, <2>1 DEF Ready, Ahead
  <2>3. LocalSha = live /\ live \in Revisions /\ LocalSha # None
    BY <2>2, RevisionShape DEF LocalSha, Good
  <2>4. PICK now \in Revisions : now = live BY <2>3
  <2>5. PICK seen : seen = proc[p].seen OBVIOUS
  <2>6. /\ notices' = Recorded(seen, now) /\ notified' = notified \cup {now}
        /\ UNCHANGED <<setting, expired, told, best>>
    BY <1>22, <2>3, <2>4, <2>5 DEF RecordChange
  <2>7. Tellings BY DEF Told
  <2>8. Book(notices)' BY <2>2, <2>4, <2>5, <2>6, <2>7, RecordKeepsBook
  <2>9. Tellings' BY <2>6, <2>7 DEF Tellings
  <2>10. \A n \in notified' : n <= best'
    <3>1. now \in Nat BY RevisionShape
    <3> QED BY <1>3, <2>2, <2>4, <2>6, <3>1
  <2>11. \A q \in Procs : Ahead(q)' BY <1>4, <1>8, <2>1
  <2> QED BY <1>4a, <2>8, <2>9, <2>10, <2>11 DEF Told
<1>23. CASE Unlock(p)
  <2>1. to = "save" BY <1>6, <1>23 DEF Unlock
  <2>2. UNCHANGED <<notices, notified, expired, told, best>> BY <1>23 DEF Unlock, news
  <2> QED BY <1>3, <1>5, <1>8, <2>1, <2>2
<1> QED
  <2>1. ~ReadLocal(p) /\ ~TryLock(p) /\ ~StealLock(p) /\ ~RemakeLock(p) /\ ~SaveState(p)
    BY DEF Locked, ReadLocal, TryLock, StealLock, RemakeLock, SaveState
  <2> QED
    BY <1>9, <1>10, <1>11, <1>12, <1>13, <1>14, <1>15, <1>16, <1>17, <1>18, <1>19, <1>20,
       <1>21, <1>22, <1>23, <2>1 DEF Step

LEMMA StepTells ==
    ASSUME ConfigSyncAssumption, OneAtATime, LockInv, DirInv, Told,
           NEW p \in Procs, Step(p), Walks(p)
    PROVE  Told'
<1>1. CASE proc[p].pc \in Locked BY <1>1, HolderTells
<1>2. CASE proc[p].pc \notin Locked
  <2>1. ReadLocal(p) \/ TryLock(p) \/ StealLock(p) \/ RemakeLock(p) \/ SaveState(p)
    BY <1>2 DEF Step, Locked, RecoverRetired, SweepStaging, LookAgain, Probe, StartClone,
       FinishClone, RemoveLeftover, RetireLive, PublishStaged, Unwind, Discard, ClearRetired,
       ReadNotices, RecordChange, Unlock
  <2>2. UNCHANGED <<setting, remote, live, staging, notices, notified, expired, told, best>>
    BY <2>1 DEF ReadLocal, TryLock, StealLock, RemakeLock, SaveState, dirs, news
  <2>3. proc'[p].pc \notin Locked \/ proc'[p].pc = "recover"
    BY <1>2 DEF Locked, Walks, Path, Inside, Enters, Leaves, Outside, Steals, Pcs
  <2>4. Others(p) BY DEF Walks
  <2> QED BY <2>2, <2>3, <2>4, OutsideKeepsTold
<1> QED BY <1>1, <1>2

LEMMA ComingAndGoingTells ==
    ASSUME ConfigSyncAssumption, LockInv, DirInv, Told, NEW p \in Procs, Call(p) \/ Crash(p)
    PROVE  Told'
<1>1. Others(p) /\ proc'[p].pc \in {"local", "idle"} BY CallKeepsLock, CrashKeepsLock
<1>2. UNCHANGED <<setting, remote, live, staging, notices, notified, expired, told, best>>
  BY DEF Call, Crash, dirs, news
<1>3. proc'[p].pc \notin Locked BY <1>1 DEF Locked
<1> QED BY <1>1, <1>2, <1>3, OutsideKeepsTold

LEMMA DrainTells ==
    ASSUME ConfigSyncAssumption, RosterHolds, LockInv, Told, NEW s \in setting.sessions, Drain(s)
    PROVE  Told'
<1>1. Book(notices) /\ Tellings /\ setting \in Settings BY DEF Told, LockInv, Typed
<1>2. /\ notices' = Drained(notices, s)
      /\ told' = [told EXCEPT ![s] = @ \o SetToSeq(Undelivered(notices, s))]
      /\ UNCHANGED <<setting, remote, live, notified, expired, proc, best>>
  BY DEF Drain, dirs
<1>3. Book(notices)' /\ Tellings' BY <1>1, <1>2, DrainKeepsBook
<1>4. \A q \in Procs : proc'[q].pc = "idle" BY <1>2 DEF Drain, Quiet
<1>5. \A q \in Procs : Ahead(q)' BY <1>4 DEF Ahead
<1>6. \A n \in notified' : n <= best' BY <1>2 DEF Told
<1>7. (Stranded => best < remote)' BY <1>2 DEF Told, Stranded
<1> QED BY <1>3, <1>5, <1>6, <1>7 DEF Told

LEMMA AroundTells ==
    ASSUME ConfigSyncAssumption, RosterHolds, LockInv, DirInv, Told, Around
    PROVE  Told'
<1>1. /\ UNCHANGED <<setting, live, staging, notified, proc, best>>
      /\ remote' \in Revisions /\ remote' >= remote /\ remote \in Revisions
  BY AroundKeepsLock DEF LockInv, Typed
<1>2. best \in Nat BY DEF DirInv, Stocked, Newer
<1>3. /\ \A n \in notified' : n <= best'
      /\ (Stranded => best < remote)'
  BY <1>1, <1>2, RevisionShape DEF Told, Stranded
<1>4. CASE \E s \in setting.sessions : Drain(s) BY <1>4, DrainTells
<1>5. CASE NoticeAges
  <2>1. UNCHANGED told BY <1>5 DEF NoticeAges
  <2>2. PICK i \in DOMAIN notices :
          /\ \A k \in 1 .. i - 1 : notices[k].old
          /\ notices' = [notices EXCEPT ![i].old = TRUE]
          /\ expired' = expired \cup {notices[i].rev}
    BY <1>5 DEF NoticeAges
  <2>3. Book(notices) /\ Tellings BY DEF Told
  <2>4. Book(notices)' BY <1>1, <2>1, <2>2, <2>3, AgingKeepsBook
  <2>5. Tellings' BY <1>1, <2>1, <2>3, ElsewhereTells
  <2>6. expired \subseteq expired' BY <2>2
  <2>7. ASSUME NEW q \in Procs PROVE Ahead(q)'
    <3>1. Ahead(q) /\ proc'[q] = proc[q] BY <1>1 DEF Told
    <3> QED BY <1>1, <1>2, <2>1, <2>6, <3>1, AheadStays
  <2> QED BY <1>3, <2>4, <2>5, <2>7 DEF Told
<1>6. CASE LockGrowsStale \/ DebounceElapses \/ RemoteMoves \/ UNCHANGED vars
  <2>1. UNCHANGED <<notices, expired, told>>
    BY <1>6 DEF LockGrowsStale, DebounceElapses, RemoteMoves, vars, news
  <2>2. Book(notices)' BY <1>1, <2>1, NoticesStay DEF Told
  <2>3. Tellings' BY <1>1, <2>1, ElsewhereTells DEF Told
  <2>4. expired \subseteq expired' BY <2>1
  <2>5. ASSUME NEW q \in Procs PROVE Ahead(q)'
    <3>1. Ahead(q) /\ proc'[q] = proc[q] BY <1>1 DEF Told
    <3> QED BY <1>1, <1>2, <2>1, <2>4, <3>1, AheadStays
  <2> QED BY <1>3, <2>2, <2>3, <2>5 DEF Told
<1> QED BY <1>4, <1>5, <1>6 DEF Around

\* What the file keeps for a session is what it was not handed.
LEMMA AheadOfSession ==
    ASSUME Book(notices), NEW s \in setting.sessions
    PROVE  \A x : x \in Undelivered(notices, s) <=>
                    \E i \in 1 .. Len(notices) :
                       /\ notices[i].rev = x /\ ~notices[i].old /\ x \notin ToSet(told[s])
<1>1. PICK ns : ns = notices OBVIOUS
<1>2. /\ ns \in Seq(Notice) /\ Len(ns) \in Nat /\ \A i \in 1 .. Len(ns) : Entry(ns[i])
      /\ AgeInOrder(ns)
  BY <1>1, LenProperties DEF Book
<1>3. PICK k \in 0 .. Len(ns) :
         /\ Kept(ns) = SubSeq(ns, k + 1, Len(ns))
         /\ \A i \in 1 .. Len(ns) : ns[i].old <=> i <= k
  BY <1>2, KeptIsEnd
<1>4. PICK kept : kept = Kept(ns) OBVIOUS
<1>5. /\ kept \in Seq(Notice) /\ Len(kept) = Len(ns) - k
      /\ \A i \in 1 .. Len(kept) : kept[i] = ns[k + i] /\ k + i \in 1 .. Len(ns)
  BY <1>2, <1>3, <1>4, EndOfSequence
<1>6. Len(kept) \in Nat /\ DOMAIN kept = 1 .. Len(kept) BY <1>5, LenProperties
<1>7. \A n : n \in ToSet(Kept(ns)) <=> \E i \in 1 .. Len(ns) : ns[i] = n /\ ~ns[i].old
  <2>1. ASSUME NEW i \in 1 .. Len(kept) PROVE k + i \in 1 .. Len(ns) /\ ~ns[k + i].old
    <3>1. k + i \in 1 .. Len(ns) /\ ~(k + i <= k) BY <1>5
    <3> QED BY <1>3, <3>1
  <2>2. ASSUME NEW i \in 1 .. Len(ns), ~ns[i].old
        PROVE  i - k \in 1 .. Len(kept) /\ kept[i - k] = ns[i]
    <3>1. i - k \in 1 .. Len(kept) /\ k + (i - k) = i BY <1>2, <1>3, <1>5, <2>2
    <3> QED BY <1>5, <3>1
  <2>3. \A n : n \in ToSet(Kept(ns)) <=> \E i \in 1 .. Len(kept) : kept[i] = n
    BY <1>4, <1>6 DEF ToSet
  <2>4. ASSUME NEW n, NEW j \in 1 .. Len(kept), kept[j] = n
        PROVE  \E i \in 1 .. Len(ns) : ns[i] = n /\ ~ns[i].old
    <3>1. kept[j] = ns[k + j] BY <1>5
    <3> QED BY <2>1, <2>4, <3>1
  <2>5. ASSUME NEW n, NEW i \in 1 .. Len(ns), ns[i] = n, ~ns[i].old
        PROVE  \E j \in 1 .. Len(kept) : kept[j] = n
    BY <2>2, <2>5
  <2> QED BY <2>3, <2>4, <2>5
<1>8. \A i \in 1 .. Len(ns) : Has(ns[i], s) <=> ns[i].rev \in ToSet(told[s]) BY <1>2 DEF Entry
<1>9. \A x : x \in Undelivered(ns, s) <=> \E n \in ToSet(Kept(ns)) : ~Has(n, s) /\ x = n.rev
  BY DEF Undelivered
<1>10. \A x : x \in Undelivered(ns, s) <=>
                 \E i \in 1 .. Len(ns) : ns[i].rev = x /\ ~ns[i].old /\ ~Has(ns[i], s)
  BY <1>7, <1>9
<1>11. \A x : x \in Undelivered(ns, s) <=>
                 \E i \in 1 .. Len(ns) : ns[i].rev = x /\ ~ns[i].old /\ x \notin ToSet(told[s])
  BY <1>8, <1>10
<1> QED BY <1>1, <1>11

-----------------------------------------------------------------------------
(***************************************************************************)
(* The theorems.                                                           *)
(***************************************************************************)
LEMMA LockInvHolds == ASSUME ConfigSyncAssumption PROVE Spec => []LockInv
<1>1. Init => LockInv
  <2> SUFFICES ASSUME Init PROVE LockInv OBVIOUS
  <2>1. Shaped BY DEF Init, Shaped, Fresh, Fields
  <2>2. \A p \in Procs : proc[p].pc = "idle" BY DEF Init, Fresh
  <2>3. Typed
    <3>1. 1 \in Revisions BY DEF ConfigSyncAssumption, Revisions
    <3>2. setting.crashes \in Nat BY DEF Init, ConfigSyncAssumption, SettingType
    <3> QED BY <2>2, <3>1, <3>2 DEF Init, Typed, Pcs
  <2>4. Alone BY <2>2 DEF Alone
  <2>5. Held
    <3>1. lock = None BY DEF Init
    <3> QED BY <2>2, <3>1 DEF Held, One, Locked, ConfigSyncAssumption
  <2> QED BY <2>1, <2>3, <2>4, <2>5 DEF LockInv
<1>2. LockInv /\ [Next]_vars => LockInv'
  BY NextIsOneOf, StepWalks, WalkKeepsLock, CallKeepsLock, CrashKeepsLock, AroundKeepsLock
     DEF LockInv
<1> QED BY <1>1, <1>2, PTL DEF Spec

LEMMA DirInvHolds == ASSUME ConfigSyncAssumption, OneAtATime PROVE Spec => []DirInv
<1>1. Init => DirInv
  <2> SUFFICES ASSUME Init PROVE DirInv OBVIOUS
  <2>1. /\ \A p \in Procs : proc[p].pc = "idle"
        /\ live = Absent /\ retired = Absent /\ best = 0 /\ remote = 1
    BY DEF Init, Fresh
  <2>2. Stocked BY <2>1, RevisionShape DEF Stocked, Newer, Ready, Good
  <2>3. Safe BY <2>1 DEF Safe, Stranded
  <2> QED BY <2>2, <2>3 DEF DirInv
<1>2. LockInv /\ DirInv /\ [Next]_vars => DirInv'
  BY NextIsOneOf, StepWalks, StepKeepsDirs, CallKeepsDirs, CrashKeepsDirs, AroundKeepsDirs
     DEF LockInv
<1> QED BY <1>1, <1>2, LockInvHolds, PTL DEF Spec

LEMMA AnnouncedHolds == ASSUME ConfigSyncAssumption PROVE Spec => []Announced
<1>1. Init => Announced
  BY RevisionShape DEF Init, Announced, Fresh, Good, Knows
<1>2. LockInv /\ Announced /\ [Next]_vars => Announced'
  BY NextIsOneOf, StepWalks, StepAnnounces, RestAnnounces DEF LockInv
<1> QED BY <1>1, <1>2, LockInvHolds, PTL DEF Spec

LEMMA ToldHolds ==
    ASSUME ConfigSyncAssumption, OneAtATime, RosterHolds PROVE Spec => []Told
<1>1. Init => Told
  <2> SUFFICES ASSUME Init PROVE Told OBVIOUS
  <2>1. /\ notices = <<>> /\ notified = {} /\ best = 0
        /\ told = [s \in setting.sessions |-> <<>>]
        /\ \A p \in Procs : proc[p].pc = "idle"
    BY DEF Init, Fresh
  <2>2. Tellings
    <3>1. PICK e : e = <<>> OBVIOUS
    <3>2. e \in Seq(Revisions) /\ DOMAIN e = {} BY <3>1
    <3>3. IsInjective(e) /\ ToSet(e) = {} BY <3>2 DEF IsInjective, ToSet
    <3>4. \A s \in setting.sessions : told[s] = e BY <2>1, <3>1
    <3>5. told = [s \in setting.sessions |-> told[s]] BY <2>1
    <3> QED BY <2>1, <3>2, <3>3, <3>4, <3>5 DEF Tellings
  <2>3. Book(notices)
    <3>1. notices \in Seq(Notice) /\ Len(notices) = 0 BY <2>1
    <3>2. \A i \in 1 .. Len(notices) : FALSE BY <3>1
    <3> QED BY <2>1, <3>1, <3>2 DEF Book, AgeInOrder
  <2>4. \A q \in Procs : Ahead(q) BY <2>1 DEF Ahead
  <2> QED BY <2>1, <2>2, <2>3, <2>4 DEF Told, Stranded
<1>2. LockInv /\ DirInv /\ Told /\ [Next]_vars => Told'
  BY NextIsOneOf, StepWalks, StepTells, ComingAndGoingTells, AroundTells DEF LockInv
<1> QED BY <1>1, <1>2, LockInvHolds, DirInvHolds, PTL DEF Spec

\* The mkdir of the lock directory admits one process to the git work at a time, however
\* many resolve the config at once, until one that holds it is killed.
THEOREM LockAdmitsOne == ASSUME ConfigSyncAssumption PROVE Spec => []OneHolder
<1>1. LockInv => OneHolder
  <2> SUFFICES ASSUME LockInv, crashes = 0 PROVE Cardinality(Holders) <= 1
    BY DEF OneHolder
  <2>1. One BY DEF LockInv, Held
  <2>2. CASE Holders = {} BY <2>2, FS_EmptySet
  <2>3. CASE Holders # {}
    <3>1. PICK p \in Holders : TRUE BY <2>3
    <3>2. Holders = {p} BY <2>1, <3>1 DEF One, Holders
    <3> QED BY <3>2, FS_Singleton
  <2> QED BY <2>2, <2>3
<1> QED BY <1>1, LockInvHolds, PTL

\* What is live is the newest revision that ever was: a publish never goes back, nor does
\* what recover_stranded and the unwinding of a publish bring back.
THEOREM ServiceNeverGoesBack ==
    ASSUME ConfigSyncAssumption, OneAtATime PROVE Spec => []ServedNeverOlder
<1>1. DirInv => ServedNeverOlder BY DEF DirInv, Stocked, Newer, ServedNeverOlder
<1> QED BY <1>1, DirInvHolds, PTL

\* A checkout that was there is live or moved aside at every point of a publish, after
\* every kill and after up to two renames that failed.
THEOREM CheckoutIsNotLost ==
    ASSUME ConfigSyncAssumption, OneAtATime PROVE Spec => []GoodCopyKept
<1>1. DirInv /\ LockInv => GoodCopyKept
  <2> SUFFICES ASSUME DirInv, LockInv, best > 0, RecoveryWorks
               PROVE  Good(live) \/ Good(retired)
    BY DEF GoodCopyKept
  <2>1. live \in Revisions \cup {Absent} BY DEF DirInv, Stocked, Newer
  <2> QED BY <2>1 DEF DirInv, Safe, Stranded, Good
<1> QED BY <1>1, DirInvHolds, LockInvHolds, PTL

\* When nobody refreshes, what is served has been announced: by who published it, before
\* the lock was given back, also where it is what a failed publish restored.
THEOREM WhatIsServedWasAnnounced ==
    ASSUME ConfigSyncAssumption PROVE Spec => []ChangesAnnounced
<1>1. Announced => ChangesAnnounced
  BY DEF Announced, ChangesAnnounced, Holders, Publishes, Locked
<1> QED BY <1>1, AnnouncedHolds, PTL

\* A change of the config is handed to every session once, in a file that all of them and
\* every refresh rewrite, and missed only by who comes a day or MAX_RECORDS changes late.
THEOREM EachIsToldOnce ==
    ASSUME ConfigSyncAssumption, OneAtATime, RosterHolds PROVE Spec => []ToldExactlyOnce
<1>1. Told => ToldExactlyOnce
  <2> SUFFICES ASSUME Told, NEW s \in setting.sessions
               PROVE  /\ IsInjective(told[s])
                      /\ ToSet(told[s]) \cap Undelivered(notices, s) = {}
                      /\ \A rev \in notified \ (ToSet(told[s]) \cup Undelivered(notices, s)) :
                           rev \in expired \/ Outrun(rev)
    BY DEF ToldExactlyOnce, Outrun
  <2>1. Book(notices) /\ Tellings BY DEF Told
  <2>2. \A x : x \in Undelivered(notices, s) <=>
                 \E i \in 1 .. Len(notices) :
                    notices[i].rev = x /\ ~notices[i].old /\ x \notin ToSet(told[s])
    BY <2>1, AheadOfSession
  <2>3. ToSet(told[s]) \cap Undelivered(notices, s) = {} BY <2>2
  <2>4. ASSUME NEW rev \in notified, rev \notin ToSet(told[s]), rev \notin Undelivered(notices, s)
        PROVE  rev \in expired \/ Outrun(rev)
    <3>1. CASE InFile(notices, rev)
      <4>1. PICK i \in 1 .. Len(notices) : notices[i].rev = rev BY <3>1 DEF InFile
      <4>2. notices[i].old BY <2>2, <2>4, <4>1
      <4> QED BY <2>1, <4>1, <4>2 DEF Book, Entry
    <3> QED BY <2>1, <3>1 DEF Book
  <2> QED BY <2>1, <2>3, <2>4 DEF Tellings
<1> QED BY <1>1, ToldHolds, PTL
=============================================================================
