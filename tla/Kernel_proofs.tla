---------------------------- MODULE Kernel_proofs ----------------------------
(***************************************************************************)
(* What a project can rely on between its dispatches, for any agents,      *)
(* modules and disciplines, and every bound.                               *)
(*                                                                         *)
(* Gates: while dispatches do not overlap, the ledger is the end of the    *)
(* sequence of answers, and what a dispatch has read of it is what is in   *)
(* it when it writes; and the stamps are never older than the last         *)
(* activity.                                                               *)
(*                                                                         *)
(* Loader: what detect finds holds every entry whose module has changed,   *)
(* and the module of each it finds is backed up; with that, each reload    *)
(* ends where it should, entry by entry.                                   *)
(*                                                                         *)
(* Disciplines: a removal that runs by itself reads what stands until it   *)
(* writes.                                                                 *)
(***************************************************************************)
EXTENDS Kernel, SequenceTheorems, WellFoundedInduction, TLAPS

-----------------------------------------------------------------------------
(* The dispatch *)

CallType ==
    {x \in [pc : {"free", "handler", "record", "append"}, id : 0 .. issued,
            req : RequestType \cup {None},
            denied : Denials \cup {None},
            seen : Seq(1 .. issued)] :
        x.pc # "free" => x.id # 0}

DispatchTyped == TypeOK /\ call \in [Callers -> CallType]

\* With one dispatch at a time, a read of the ledger is as good as the ledger, and
\* that is the end of the answers.
IsEnd(s, t) ==
    /\ Len(s) = IF Len(t) < MaxEntries THEN Len(t) ELSE MaxEntries
    /\ \A k \in 1 .. Len(s) : s[k] = t[Len(t) - Len(s) + k]

LedgerIsTheEnd == IsEnd(ledger, answered)

OneAtATime ==
    ~setting.together =>
        /\ \A c, d \in Callers : call[c].pc # "free" /\ call[d].pc # "free" => c = d
        /\ \A c \in Callers : call[c].pc = "append" => call[c].seen = ledger
        /\ LedgerIsTheEnd

\* A stamp that counts as old is older than the last activity.
StampsFollowActivity ==
    /\ sinceInstruction # None =>
           sinceDispatch # None /\ (quiet >= sinceDispatch \/ quiet >= sinceInstruction)
    /\ \A c \in Callers :
           call[c].pc = "handler" /\ call[c].req.verb \in Refresh => sinceDispatch # None

DispatchInv == DispatchTyped /\ OneAtATime /\ StampsFollowActivity

-----------------------------------------------------------------------------
LEMMA RequestsAreTyped ==
    /\ Requests \subseteq RequestType
    /\ \A r \in Requests : r.verb = "transition" => r.to \in Phases
<1> SUFFICES ASSUME NEW r \in Requests
             PROVE  r \in RequestType /\ (r.verb = "transition" => r.to \in Phases)
  OBVIOUS
<1> USE DEF RequestType, Verbs, Refresh, Exempt
<1>1. CASE \E v \in Verbs \ {"transition", "fs_write"} : r = [verb |-> v, to |-> None, file |-> FALSE]
  BY <1>1
<1>2. CASE \E p \in Phases : r = [verb |-> "transition", to |-> p, file |-> FALSE]
  BY <1>2
<1>3. CASE r = [verb |-> "fs_write", to |-> None, file |-> TRUE]
  BY <1>3
<1> QED BY <1>1, <1>2, <1>3 DEF Requests

LEMMA SeqGrows ==
    ASSUME NEW m \in Nat, NEW n \in Nat, m <= n
    PROVE  Seq(1 .. m) \subseteq Seq(1 .. n) /\ 0 .. m \subseteq 0 .. n
  OBVIOUS

LEMMA CallsGrow ==
    ASSUME call \in [Callers -> CallType], issued \in Nat, issued' \in Nat, issued <= issued'
    PROVE  call \in [Callers -> CallType']
<1>1. Seq(1 .. issued) \subseteq Seq(1 .. issued') /\ 0 .. issued \subseteq 0 .. issued'
  BY SeqGrows
<1>2. CallType \subseteq CallType'
  BY <1>1 DEF CallType, RequestType, Verbs, Refresh, Exempt
<1> QED BY <1>2

LEMMA SettingShape ==
    ASSUME KernelAssumption, setting \in Settings
    PROVE  /\ setting.together \in BOOLEAN /\ setting.gaps \in BOOLEAN
           /\ setting.dispatches \in Nat
           /\ Threshold \in Nat /\ MaxEntries \in Nat \ {0} /\ None \notin Nat
           /\ MaxContent \in Nat
  BY DEF KernelAssumption, DispatchingAssumption, SettingType

LEMMA DispatchInitially == KernelAssumption /\ Init => DispatchInv
<1> SUFFICES ASSUME KernelAssumption, Init PROVE DispatchInv
  OBVIOUS
<1>1. /\ setting.content \in 0 .. MaxContent /\ setting.residual \subseteq Phases
      /\ setting.configured \in BOOLEAN
  BY DEF KernelAssumption, DispatchingAssumption, SettingType, Init
<1>2. TypeOK
  BY <1>1, SettingShape DEF Init, TypeOK, Ages, Oldest, Free
<1>3. DispatchTyped
  BY <1>2 DEF Init, DispatchTyped, Free, CallType
<1>4. OneAtATime
  BY SettingShape DEF Init, OneAtATime, LedgerIsTheEnd, IsEnd, Free
<1>5. StampsFollowActivity
  BY DEF Init, StampsFollowActivity, Free
<1> QED BY <1>3, <1>4, <1>5 DEF DispatchInv

\* A dispatch that arrives, admitted or not.
LEMMA Arrives ==
    ASSUME KernelAssumption, DispatchInv, NEW c \in Callers, NEW r \in Requests,
           NEW pc \in {"handler", "record"},
           NEW why \in Denials \cup {None},
           Arrive(c, r), Arrived(c, r, pc, why), UNCHANGED <<setting, ledger, answered>>
    PROVE  /\ sinceInstruction' \in Ages \cup {None} /\ sinceDispatch' \in Ages \cup {None}
           /\ retry' = None \/ retry' \in [verb : Verbs, count : Nat, age : Ages]
           /\ quiet' \in Ages
           /\ issued' \in 0 .. setting.dispatches
           /\ ledger' \in Seq(1 .. issued') /\ answered' \in Seq(1 .. issued')
           /\ call' \in [Callers -> CallType']
           /\ OneAtATime'
           /\ r.verb \in Exempt \/ sinceDispatch' # None
<1> USE SettingShape DEF DispatchInv, DispatchTyped
<1>1. r \in RequestType /\ r.verb \in Verbs BY RequestsAreTyped DEF RequestType
<1>2. /\ setting \in Settings /\ issued \in Nat /\ issued' = issued + 1
      /\ issued' \in 0 .. setting.dispatches
  BY DEF TypeOK, Arrive
<1>3. /\ sinceInstruction' \in Ages \cup {None} /\ sinceDispatch' \in Ages \cup {None}
      /\ quiet' \in Ages
  BY <1>2 DEF Arrive, Stamp, TypeOK, Ages, Oldest
<1>4. retry' = None \/ retry' \in [verb : Verbs, count : Nat, age : Ages]
  <2>1. Retried(r.verb) \in [verb : Verbs, count : Nat, age : Ages]
    BY <1>1, <1>2 DEF Retried, TypeOK, Ages, Oldest
  <2> QED BY <2>1 DEF Arrive, Stamp, TypeOK
<1>5. ledger' \in Seq(1 .. issued') /\ answered' \in Seq(1 .. issued')
  <2>1. ledger \in Seq(1 .. issued) /\ answered \in Seq(1 .. issued) BY DEF TypeOK
  <2>2. Seq(1 .. issued) \subseteq Seq(1 .. issued') BY <1>2, SeqGrows
  <2> QED BY <2>1, <2>2
<1>6. call' \in [Callers -> CallType']
  <2>1. call \in [Callers -> CallType'] BY <1>2, CallsGrow
  <2>2. [pc |-> pc, id |-> issued + 1, req |-> r, denied |-> why, seen |-> <<>>] \in CallType'
    BY <1>1, <1>2 DEF CallType, RequestType, Verbs, Refresh, Exempt
  <2> QED BY <2>1, <2>2 DEF Arrived
<1>7. OneAtATime'
  <2> SUFFICES ASSUME ~setting.together
               PROVE  /\ \A d, e \in Callers : call'[d].pc # "free" /\ call'[e].pc # "free" => d = e
                      /\ \A d \in Callers : call'[d].pc = "append" => call'[d].seen = ledger
                      /\ LedgerIsTheEnd
    BY DEF OneAtATime, LedgerIsTheEnd
  <2>1. \A d \in Callers : call[d].pc = "free" BY DEF Arrive
  <2>2. \A d \in Callers \ {c} : call'[d] = call[d] BY DEF Arrived
  <2>3. call'[c].pc = pc BY DEF Arrived
  <2> QED BY <2>1, <2>2, <2>3 DEF OneAtATime
<1>8. r.verb \in Exempt \/ sinceDispatch' # None BY <1>2 DEF Arrive, Stamp
<1> QED BY <1>2, <1>3, <1>4, <1>5, <1>6, <1>7, <1>8

LEMMA DenyLongGapKeeps ==
    ASSUME KernelAssumption, DispatchInv, NEW c \in Callers, NEW r \in Requests, DenyLongGap(c, r)
    PROVE  DispatchInv'
<1> DEFINE why == IF Retried(r.verb).count >= EscalateAfter THEN "retried" ELSE "long-gap"
<1>1. why \in Denials \cup {None} BY DEF Denials
<1>2. Arrive(c, r) /\ Arrived(c, r, "record", why) /\ UNCHANGED <<setting, ledger, answered>>
  BY DEF DenyLongGap
<1> HIDE DEF why
<1>3. /\ sinceInstruction' \in Ages \cup {None} /\ sinceDispatch' \in Ages \cup {None}
      /\ retry' = None \/ retry' \in [verb : Verbs, count : Nat, age : Ages]
      /\ quiet' \in Ages /\ issued' \in 0 .. setting.dispatches
      /\ ledger' \in Seq(1 .. issued') /\ answered' \in Seq(1 .. issued')
      /\ call' \in [Callers -> CallType'] /\ OneAtATime'
  BY <1>1, <1>2, Arrives
<1>4. DispatchTyped'
  BY <1>2, <1>3 DEF DispatchInv, DispatchTyped, TypeOK, CallType, DenyLongGap, evidence
<1>5. StampsFollowActivity'
  <2>1. sinceDispatch' = 0 /\ quiet' = quiet /\ sinceInstruction' = sinceInstruction
    BY <1>2 DEF DenyLongGap, LongGap, Arrive, Stamp
  <2>2. quiet \in Nat /\ 0 # None
    BY SettingShape DEF DispatchInv, DispatchTyped, TypeOK, Ages
  <2> QED BY <2>1, <2>2 DEF StampsFollowActivity
<1> QED BY <1>3, <1>4, <1>5 DEF DispatchInv

LEMMA DenyTransitionKeeps ==
    ASSUME KernelAssumption, DispatchInv, NEW c \in Callers, NEW r \in Requests,
           DenyTransition(c, r)
    PROVE  DispatchInv'
<1> DEFINE why == IF repeats[r.to] + 1 >= RepeatThreshold THEN "stuck" ELSE "residuals"
<1>1. why \in Denials \cup {None} BY DEF Denials
<1>2. Arrive(c, r) /\ Arrived(c, r, "record", why) /\ UNCHANGED <<setting, ledger, answered>>
  BY DEF DenyTransition
<1> HIDE DEF why
<1>3. /\ sinceInstruction' \in Ages \cup {None} /\ sinceDispatch' \in Ages \cup {None}
      /\ retry' = None \/ retry' \in [verb : Verbs, count : Nat, age : Ages]
      /\ quiet' \in Ages /\ issued' \in 0 .. setting.dispatches
      /\ ledger' \in Seq(1 .. issued') /\ answered' \in Seq(1 .. issued')
      /\ call' \in [Callers -> CallType'] /\ OneAtATime'
  BY <1>1, <1>2, Arrives
<1>4. repeats' \in [Phases -> Nat]
  <2>1. r.to \in Phases BY RequestsAreTyped DEF DenyTransition
  <2> QED BY <2>1 DEF DenyTransition, DispatchInv, DispatchTyped, TypeOK
<1>5. DispatchTyped'
  BY <1>2, <1>3, <1>4 DEF DispatchInv, DispatchTyped, TypeOK, CallType, DenyTransition, evidence
<1>6. StampsFollowActivity'
  <2>1. sinceDispatch' = 0
    BY <1>2 DEF DenyTransition, Arrive, Stamp, Exempt
  <2>2. quiet' \in Nat /\ 0 # None
    BY <1>3, SettingShape DEF DispatchInv, DispatchTyped, TypeOK, Ages
  <2> QED BY <2>1, <2>2 DEF StampsFollowActivity
<1> QED BY <1>3, <1>5, <1>6 DEF DispatchInv

LEMMA AdmitKeeps ==
    ASSUME KernelAssumption, DispatchInv, NEW c \in Callers, NEW r \in Requests, Admit(c, r)
    PROVE  DispatchInv'
<1>1. Arrive(c, r) /\ Arrived(c, r, "handler", None) /\ UNCHANGED <<setting, ledger, answered>>
  BY DEF Admit
<1>2. /\ sinceInstruction' \in Ages \cup {None} /\ sinceDispatch' \in Ages \cup {None}
      /\ retry' = None \/ retry' \in [verb : Verbs, count : Nat, age : Ages]
      /\ quiet' \in Ages /\ issued' \in 0 .. setting.dispatches
      /\ ledger' \in Seq(1 .. issued') /\ answered' \in Seq(1 .. issued')
      /\ call' \in [Callers -> CallType'] /\ OneAtATime'
      /\ r.verb \in Exempt \/ sinceDispatch' # None
  BY <1>1, Arrives
<1>3. repeats' \in [Phases -> Nat] /\ edited' \in 0 .. MaxContent \cup {None}
  <2>1. r.verb = "transition" => r.to \in Phases BY RequestsAreTyped
  <2> QED BY <2>1 DEF Admit, DispatchInv, DispatchTyped, TypeOK
<1>4. DispatchTyped'
  BY <1>1, <1>2, <1>3 DEF DispatchInv, DispatchTyped, TypeOK, CallType, Admit
<1>5. StampsFollowActivity'
  <2>0. quiet \in Nat /\ quiet' \in Nat /\ 0 # None
    BY <1>2, SettingShape DEF DispatchInv, DispatchTyped, TypeOK, Ages
  <2>1. CASE r.verb \in Exempt
    <3>1. UNCHANGED <<sinceDispatch, quiet, sinceInstruction>> /\ r.verb \notin Refresh
      BY <1>1, <2>1 DEF Admit, LongGap, Arrive, Stamp, Exempt, Refresh
    <3>2. call'[c].req = r /\ \A d \in Callers \ {c} : call'[d] = call[d]
      BY <1>1 DEF Arrived, DispatchInv, DispatchTyped
    <3> QED BY <3>1, <3>2 DEF StampsFollowActivity, DispatchInv
  <2>2. CASE r.verb \notin Exempt
    <3>1. sinceDispatch' = 0 BY <1>1, <2>2 DEF Arrive, Stamp
    <3> QED BY <2>0, <3>1 DEF StampsFollowActivity
  <2> QED BY <2>1, <2>2
<1> QED BY <1>2, <1>4, <1>5 DEF DispatchInv

\* What follows the arrival of a dispatch of c disturbs neither the other dispatches
\* nor, except for the write, the ledger.
LEMMA Follows ==
    ASSUME KernelAssumption, DispatchInv, NEW c \in Callers, NEW new \in CallType,
           call[c].pc # "free", call' = [call EXCEPT ![c] = new],
           new.pc = "append" => new.seen = ledger,
           UNCHANGED <<setting, ledger, issued, answered>>
    PROVE  OneAtATime' /\ call' \in [Callers -> CallType']
<1> USE DEF DispatchInv, DispatchTyped
<1>1. call' \in [Callers -> CallType'] BY DEF CallType
<1>2. OneAtATime'
  <2> SUFFICES ASSUME ~setting.together
               PROVE  /\ \A d, e \in Callers : call'[d].pc # "free" /\ call'[e].pc # "free" => d = e
                      /\ \A d \in Callers : call'[d].pc = "append" => call'[d].seen = ledger
                      /\ LedgerIsTheEnd
    BY DEF OneAtATime, LedgerIsTheEnd
  <2>1. \A d \in Callers \ {c} : call'[d] = call[d] /\ call[d].pc = "free"
    BY DEF OneAtATime
  <2>2. call'[c] = new OBVIOUS
  <2> QED BY <2>1, <2>2 DEF OneAtATime
<1> QED BY <1>1, <1>2

LEMMA HandleKeeps ==
    ASSUME KernelAssumption, DispatchInv, NEW c \in Callers, Handle(c)
    PROVE  DispatchInv'
<1> DEFINE r == call[c].req
           new == [call[c] EXCEPT !.pc = "record"]
<1> USE SettingShape DEF DispatchInv, DispatchTyped
<1>1. call[c].pc = "handler" /\ call' = [call EXCEPT ![c] = new]
  BY DEF Handle
<1>2. new \in CallType /\ new.pc = "record" BY <1>1 DEF CallType
<1>3. UNCHANGED <<setting, ledger, issued, answered>> BY DEF Handle
<1>4. OneAtATime' /\ call' \in [Callers -> CallType']
  <2> HIDE DEF new
  <2> QED BY <1>1, <1>2, <1>3, Follows
<1>5. /\ content' \in 0 .. MaxContent /\ edited' = edited
      /\ witnessed' \in 0 .. MaxContent \cup {None}
      /\ loads' \in {"unknown", "healthy", "unhealthy"} /\ configured' \in BOOLEAN
      /\ residual' \subseteq Phases
  BY DEF Handle, Browse, Write, Work, evidence, TypeOK
<1>6. /\ UNCHANGED <<sinceDispatch, retry, repeats>>
      /\ \/ UNCHANGED <<sinceInstruction, quiet>>
         \/ sinceInstruction' = 0 /\ quiet' = 0 /\ call[c].req.verb \in Refresh
  BY DEF Handle, Restamp
<1>7. DispatchTyped'
  <2>1. sinceInstruction' \in Ages \cup {None} /\ quiet' \in Ages
    BY <1>6 DEF TypeOK, Ages, Oldest
  <2> QED BY <1>3, <1>4, <1>5, <1>6, <2>1 DEF TypeOK, CallType
<1>8. StampsFollowActivity'
  <2>1. \A d \in Callers : call'[d].pc = "handler" => call'[d] = call[d]
    BY <1>1, <1>2
  <2>2. sinceInstruction' # None => sinceDispatch' # None
    BY <1>1, <1>6 DEF StampsFollowActivity
  <2> QED BY <1>6, <2>1, <2>2 DEF StampsFollowActivity
<1> QED BY <1>4, <1>7, <1>8

LEMMA AfterwardsKeeps ==
    ASSUME KernelAssumption, DispatchInv, NEW c \in Callers, Panic(c) \/ ReadLedger(c)
    PROVE  DispatchInv'
<1> USE DEF DispatchInv, DispatchTyped
<1>1. PICK new \in CallType :
         /\ call[c].pc # "free" /\ call' = [call EXCEPT ![c] = new]
         /\ new.pc \in {"free", "append"} /\ (new.pc = "append" => new.seen = ledger)
  <2>1. CASE Panic(c)
    <3>1. Free \in CallType /\ Free.pc = "free" BY DEF Free, CallType, TypeOK
    <3> QED BY <2>1, <3>1 DEF Panic
  <2>2. CASE ReadLedger(c)
    <3> DEFINE read == [call[c] EXCEPT !.pc = "append", !.seen = ledger]
    <3>0. call[c] \in CallType /\ call[c].pc = "record" /\ ledger \in Seq(1 .. issued)
      BY <2>2 DEF ReadLedger, TypeOK
    <3>1. read \in CallType /\ read.pc = "append" /\ read.seen = ledger
      BY <3>0 DEF CallType
    <3>2. call' = [call EXCEPT ![c] = read] BY <2>2 DEF ReadLedger
    <3> QED BY <2>2, <3>1, <3>2 DEF ReadLedger
  <2> QED BY <2>1, <2>2
<1>2. UNCHANGED <<setting, stamps, repeats, evidence, ledger, issued, quiet, answered>>
  BY DEF Panic, ReadLedger
<1>3. OneAtATime' /\ call' \in [Callers -> CallType']
  BY <1>1, <1>2, Follows DEF stamps, evidence
<1>4. DispatchTyped' BY <1>2, <1>3 DEF TypeOK, CallType, stamps, evidence
<1>5. StampsFollowActivity'
  <2>1. \A d \in Callers : call'[d].pc = "handler" => call'[d] = call[d] BY <1>1
  <2> QED BY <1>2, <2>1 DEF StampsFollowActivity, stamps
<1> QED BY <1>3, <1>4, <1>5

\* What WriteLedger keeps of a list of entries.
Over(n) == IF n > MaxEntries THEN n - MaxEntries ELSE 0
Kept(e) == SubSeq(e, Over(Len(e)) + 1, Len(e))

Without(first, s, t) == \A k \in 1 .. Len(t) : t[k] = s[k + first]

LEMMA KeptShape ==
    ASSUME NEW S, NEW e \in Seq(S), NEW n \in Nat, n = Len(e),
           NEW over \in Nat, over = Over(n), over < n
    PROVE  Kept(e) \in Seq(S) /\ Len(Kept(e)) = n - over /\ Without(over, e, Kept(e))
<1> DEFINE m == over + 1
<1>1. \A i \in 1 .. n : e[i] \in S OBVIOUS
<1>3. /\ m \in Int /\ n \in Int /\ m <= n /\ n - m + 1 = n - over
      /\ \A i \in m .. n : e[i] \in S
      /\ \A i \in 1 .. n - over : m + i - 1 = i + over
  BY <1>1
<1> HIDE DEF m
<1>4. /\ SubSeq(e, m, n) \in Seq(S) /\ Len(SubSeq(e, m, n)) = n - m + 1
      /\ \A i \in 1 .. n - m + 1 : SubSeq(e, m, n)[i] = e[m + i - 1]
  BY <1>3, SubSeqProperties
<1>5. Kept(e) = SubSeq(e, m, n) BY Zenon DEF Kept, m
<1>6. \A i \in 1 .. n - over : Kept(e)[i] = e[i + over] BY <1>3, <1>4, <1>5, Zenon
<1>7. Len(Kept(e)) = n - over BY <1>3, <1>4, <1>5, Zenon
<1> QED BY <1>4, <1>5, <1>6, <1>7, Zenon DEF Without

\* The entries that are kept are the end of the answers, which are one longer.
LEMMA EndOfLonger ==
    ASSUME MaxEntries \in Nat \ {0},
           NEW S, NEW s \in Seq(S), NEW t \in Seq(S), NEW x \in S, IsEnd(s, t)
    PROVE  Kept(Append(s, x)) \in Seq(S) /\ IsEnd(Kept(Append(s, x)), Append(t, x))
<1> DEFINE a == Len(s)
           b == Len(t)
           e == Append(s, x)
           f == Append(t, x)
           new == Kept(e)
           over == Over(a + 1)
<1>0. a = IF b < MaxEntries THEN b ELSE MaxEntries BY Zenon DEF IsEnd
<1>1. /\ a \in Nat /\ b \in Nat
      /\ e \in Seq(S) /\ Len(e) = a + 1 /\ e[a + 1] = x
      /\ Len(f) = b + 1 /\ f[b + 1] = x
  <2>1. a \in Nat /\ b \in Nat /\ e \in Seq(S) /\ Len(e) = a + 1 /\ Len(f) = b + 1
    OBVIOUS
  <2>2. e[a + 1] = x OBVIOUS
  <2>3. f[b + 1] = x OBVIOUS
  <2> HIDE DEF a, b, e, f
  <2> QED BY <2>1, <2>2, <2>3
<1>2. /\ \A i \in 1 .. a : e[i] = t[b - a + i]
      /\ \A i \in 1 .. b : f[i] = t[i]
  <2>1. \A i \in 1 .. a : s[i] = t[b - a + i] BY Zenon DEF IsEnd
  <2>2. \A i \in 1 .. a : e[i] = s[i] OBVIOUS
  <2>3. \A i \in 1 .. b : f[i] = t[i] OBVIOUS
  <2> HIDE DEF a, b, e, f
  <2> QED BY <2>1, <2>2, <2>3
<1> HIDE DEF a, b, e, f
<1> DEFINE n == a + 1
           cap == IF b + 1 < MaxEntries THEN b + 1 ELSE MaxEntries
<1>a. over = Over(n) /\ n = a + 1 BY Zenon
<1> HIDE DEF over, n
<1>b. b + 1 >= 1 /\ (b + 1 < MaxEntries => cap = b + 1) /\ (~(b + 1 < MaxEntries) => cap = MaxEntries)
  BY <1>1 DEF cap
<1>c. (b < MaxEntries => a = b) /\ (~(b < MaxEntries) => a = MaxEntries) BY Zenon, <1>0
<1> HIDE DEF cap
<1>d. (n <= MaxEntries => over = 0) /\ (~(n <= MaxEntries) => over = n - MaxEntries)
  BY <1>1, <1>a DEF Over
<1>3. over \in 0 .. 1 /\ n - over = cap
  <2>1. CASE b < MaxEntries BY <1>1, <1>a, <1>b, <1>c, <1>d, <2>1
  <2>2. CASE ~(b < MaxEntries) BY <1>1, <1>a, <1>b, <1>c, <1>d, <2>2
  <2> QED BY <2>1, <2>2
<1>4. over \in Nat /\ over < n /\ n \in Nat /\ n = Len(e)
  BY <1>1, <1>3, <1>a, <1>b
<1>5. /\ new \in Seq(S) /\ Len(new) = n - over
      /\ \A k \in 1 .. Len(new) : new[k] = e[k + over]
  <2>0. e \in Seq(S) BY <1>1
  <2>1. over = Over(n) BY <1>a
  <2>2. Kept(e) \in Seq(S) BY <2>0, <2>1, <1>4, KeptShape
  <2>3. Len(Kept(e)) = n - over BY <2>0, <2>1, <1>4, KeptShape
  <2>4. Without(over, e, Kept(e)) BY <2>0, <2>1, <1>4, KeptShape
  <2> QED BY <2>2, <2>3, <2>4, Zenon DEF new, Without
<1> HIDE DEF new
<1>6. ASSUME NEW k \in 1 .. Len(new) PROVE new[k] = f[Len(f) - Len(new) + k]
  <2>0. k \in Nat /\ k >= 1 /\ k + over <= n
    <3>1. Len(new) = n - over /\ over \in Nat /\ n \in Nat /\ over < n BY <1>4, <1>5
    <3> QED BY <3>1
  <2>1. Len(f) - Len(new) + k = b - a + (k + over)
    <3>1. Len(f) = b + 1 /\ Len(new) = n - over /\ n = a + 1 BY <1>1, <1>4, <1>a, <1>5
    <3> QED BY <1>1, <1>3, <2>0, <3>1
  <2>2. new[k] = e[k + over] BY <1>5
  <2>3. CASE k + over = n
    <3>1. b - a + (k + over) = b + 1 BY <1>1, <1>4, <1>a, <2>3
    <3> QED BY <1>1, <1>4, <1>a, <2>1, <2>2, <2>3, <3>1
  <2>4. CASE k + over # n
    <3>0. a <= b BY <1>0, <1>1
    <3>1. k + over \in 1 .. a /\ b - a + (k + over) \in 1 .. b
      BY <1>1, <1>4, <1>a, <2>0, <2>4, <3>0
    <3> QED BY <1>2, <2>1, <2>2, <3>1
  <2> QED BY <2>3, <2>4
<1>7. Len(new) = cap /\ Len(f) = b + 1 BY <1>1, <1>3, <1>5, Zenon
<1>8. IsEnd(new, f) BY <1>6, <1>7 DEF IsEnd, cap
<1> QED BY <1>5, <1>8 DEF new, e, f

LEMMA WriteLedgerKeeps ==
    ASSUME KernelAssumption, DispatchInv, NEW c \in Callers, WriteLedger(c)
    PROVE  DispatchInv'
<1> DEFINE id == call[c].id
           extended == Append(call[c].seen, id)
           over == IF Len(extended) > MaxEntries THEN Len(extended) - MaxEntries ELSE 0
<1> USE SettingShape DEF DispatchInv, DispatchTyped
<1>1. /\ call[c].pc = "append" /\ call[c] \in CallType
      /\ ledger' = SubSeq(extended, over + 1, Len(extended))
      /\ answered' = Append(answered, id)
      /\ call' = [call EXCEPT ![c] = Free]
      /\ UNCHANGED <<setting, stamps, repeats, evidence, issued, quiet>>
  BY DEF WriteLedger
<1>2. /\ id \in 1 .. issued /\ call[c].seen \in Seq(1 .. issued)
      /\ answered \in Seq(1 .. issued) /\ issued \in Nat /\ MaxEntries \in Nat \ {0}
  BY <1>1 DEF CallType, TypeOK
<1>3. /\ extended \in Seq(1 .. issued) /\ Len(extended) = Len(call[c].seen) + 1
      /\ over \in Nat
  BY <1>2
<1>4. ledger' \in Seq(1 .. issued) /\ answered' \in Seq(1 .. issued)
  <2> HIDE DEF extended, over
  <2> QED BY <1>1, <1>2, <1>3
<1>5. /\ Free \in CallType /\ Free.pc = "free" /\ call'[c] = Free
      /\ \A d \in Callers \ {c} : call'[d] = call[d]
  BY <1>1, <1>2 DEF Free, CallType
<1>6. call' \in [Callers -> CallType'] BY <1>1, <1>5 DEF CallType, stamps, evidence
<1>7. DispatchTyped' BY <1>1, <1>4, <1>6 DEF TypeOK, CallType, stamps, evidence
<1>8. OneAtATime'
  <2> SUFFICES ASSUME ~setting.together
               PROVE  /\ \A d, e \in Callers : call'[d].pc # "free" /\ call'[e].pc # "free" => d = e
                      /\ \A d \in Callers : call'[d].pc = "append" => call'[d].seen = ledger'
                      /\ LedgerIsTheEnd'
    BY <1>1 DEF OneAtATime
  <2>1. \A d \in Callers : call'[d].pc = "free" BY <1>1, <1>5 DEF OneAtATime
  <2>2. call[c].seen = ledger /\ LedgerIsTheEnd BY <1>1 DEF OneAtATime
  <2>3. ledger' = Kept(Append(ledger, id)) BY <1>1, <2>2 DEF Kept, Over
  <2>4. LedgerIsTheEnd'
    <3>1. ledger \in Seq(1 .. issued) BY DEF TypeOK
    <3>2. answered' = Append(answered, id) BY <1>1
    <3> HIDE DEF id
    <3> QED BY <1>2, <2>2, <2>3, <3>1, <3>2, EndOfLonger, Zenon DEF LedgerIsTheEnd
  <2> QED BY <2>1, <2>4
<1>9. StampsFollowActivity'
  BY <1>1, <1>5 DEF StampsFollowActivity, stamps
<1> QED BY <1>7, <1>8, <1>9

LEMMA TickKeeps == KernelAssumption /\ DispatchInv /\ Tick => DispatchInv'
<1> SUFFICES ASSUME KernelAssumption, DispatchInv, Tick PROVE DispatchInv'
  OBVIOUS
<1> USE SettingShape DEF DispatchInv, DispatchTyped, TypeOK, Ages, Oldest
<1>1. UNCHANGED <<setting, repeats, evidence, ledger, issued, call, answered>>
  BY DEF Tick
<1>2. \A age \in Ages : Older(age) \in Ages /\ Older(age) # None
  BY DEF Older
<1>3. DispatchTyped' BY <1>1, <1>2 DEF Tick, CallType, evidence, Older
<1>4. OneAtATime' BY <1>1 DEF OneAtATime, LedgerIsTheEnd
<1>5. StampsFollowActivity'
  BY <1>1 DEF Tick, Older, StampsFollowActivity
<1> QED BY <1>3, <1>4, <1>5

LEMMA DispatchStutters ==
    DispatchInv /\ UNCHANGED vars => DispatchInv'
  BY DEF DispatchInv, DispatchTyped, TypeOK, CallType, OneAtATime, LedgerIsTheEnd,
         StampsFollowActivity, vars, stamps, evidence

LEMMA DispatchStep == KernelAssumption /\ DispatchInv /\ [Next]_vars => DispatchInv'
  BY DenyLongGapKeeps, DenyTransitionKeeps, AdmitKeeps, HandleKeeps, AfterwardsKeeps,
     WriteLedgerKeeps, TickKeeps, DispatchStutters DEF Next

\* A step of the project is one of a part of it.
LEMMA Parts ==
    [Dispatch \/ Load \/ Follow]_all =>
        [Next]_vars /\ [loader!Loading]_loaderVars /\ [policies!Next]_policyVars
  BY DEF all, Dispatch, Load, Follow, Beside

LEMMA DispatchInvariant ==
    ASSUME KernelAssumption PROVE KernelSpec => []DispatchInv
<1>1. KernelInit => DispatchInv BY DispatchInitially DEF KernelInit
<1>2. DispatchInv /\ [Dispatch \/ Load \/ Follow]_all => DispatchInv'
  BY DispatchStep, Parts
<1> QED BY <1>1, <1>2, PTL DEF KernelSpec

LEMMA InvCitable == KernelAssumption /\ DispatchInv => CitableAnswers
<1> SUFFICES ASSUME KernelAssumption, DispatchInv, ~setting.together,
                    NEW i \in DOMAIN answered, i > Len(answered) - MaxEntries
             PROVE  \E k \in DOMAIN ledger : ledger[k] = answered[i]
  BY DEF CitableAnswers
<1> DEFINE k == i - (Len(answered) - Len(ledger))
<1>1. /\ ledger \in Seq(1 .. issued) /\ answered \in Seq(1 .. issued)
      /\ MaxEntries \in Nat \ {0}
  BY SettingShape DEF DispatchInv, DispatchTyped, TypeOK
<1>2. /\ Len(ledger) = IF Len(answered) < MaxEntries THEN Len(answered) ELSE MaxEntries
      /\ \A n \in 1 .. Len(ledger) : ledger[n] = answered[Len(answered) - Len(ledger) + n]
  BY DEF DispatchInv, OneAtATime, LedgerIsTheEnd, IsEnd
<1>3. k \in 1 .. Len(ledger) /\ Len(answered) - Len(ledger) + k = i
  BY <1>1, <1>2
<1>4. ledger[k] = answered[i] BY <1>2, <1>3
<1> QED BY <1>1, <1>3, <1>4

\* Only a dispatch that finds both stamps old is denied for the gap, and then nothing
\* has happened for that long.
LEMMA OnlyAfterAGap ==
    ASSUME KernelAssumption, DispatchInv, Next, NEW c \in Callers,
           call'[c].denied \in {"long-gap", "retried"}, call'[c].id # call[c].id
    PROVE  quiet > Threshold
<1> USE SettingShape DEF DispatchInv, DispatchTyped
<1>1. None \notin Denials BY DEF KernelAssumption, DispatchingAssumption
<1>2. ASSUME NEW d \in Callers, NEW r \in Requests, DenyLongGap(d, r)
      PROVE  quiet > Threshold
  <2>1. /\ sinceInstruction # None /\ sinceDispatch # None
        /\ sinceInstruction > Threshold /\ sinceDispatch > Threshold
        /\ quiet >= sinceDispatch \/ quiet >= sinceInstruction
    BY <1>2 DEF DenyLongGap, LongGap, Old, StampsFollowActivity
  <2>2. /\ sinceInstruction \in Nat /\ sinceDispatch \in Nat /\ quiet \in Nat
        /\ Threshold \in Nat
    BY <2>1 DEF TypeOK, Ages
  <2> QED BY <2>1, <2>2
<1>3. ASSUME NEW d \in Callers, NEW r \in Requests, DenyTransition(d, r) \/ Admit(d, r)
      PROVE  FALSE
  <2>1. PICK pc, why : why \in {"residuals", "stuck", None} /\ Arrived(d, r, pc, why)
    BY <1>3 DEF DenyTransition, Admit
  <2>2. d = c => call'[c].denied = why BY <2>1 DEF Arrived
  <2>3. d # c => call'[c] = call[c] BY <2>1 DEF Arrived
  <2> QED BY <1>1, <2>1, <2>2, <2>3 DEF Denials
<1>4. ASSUME NEW d \in Callers, Handle(d) \/ ReadLedger(d)
      PROVE  FALSE
  <2>1. call'[c].id = call[c].id
    <3>1. PICK seen : \/ call' = [call EXCEPT ![d].pc = "record"]
                      \/ call' = [call EXCEPT ![d].pc = "append", ![d].seen = seen]
      BY <1>4 DEF Handle, ReadLedger
    <3>2. d # c => call'[c] = call[c] BY <3>1
    <3>3. d = c => call'[c].id = call[c].id BY <3>1 DEF CallType
    <3> QED BY <3>2, <3>3
  <2> QED BY <2>1
<1>5. ASSUME NEW d \in Callers, Panic(d) \/ WriteLedger(d)
      PROVE  FALSE
  <2>1. call' = [call EXCEPT ![d] = Free] BY <1>5 DEF Panic, WriteLedger
  <2>2. d = c => call'[c].denied = None BY <2>1 DEF Free
  <2> QED BY <1>1, <2>1, <2>2 DEF Denials
<1>6. ~Tick BY DEF Tick
<1> QED BY <1>2, <1>3, <1>4, <1>5, <1>6 DEF Next

\* The ledger and the stamps keep their types whatever is dispatched and however it
\* overlaps (dispatch_ledger.rs, gates.rs).
THEOREM DispatchTypeCorrect ==
    ASSUME KernelAssumption PROVE KernelSpec => []TypeOK
<1>1. DispatchInv => TypeOK BY DEF DispatchInv, DispatchTyped
<1> QED BY <1>1, DispatchInvariant, PTL

\* Any of the last MaxEntries answers can be cited where dispatches do not overlap, for
\* any number of agents and any length of the ledger (dispatch_ledger::record).
THEOREM AnswersCanBeCited ==
    ASSUME KernelAssumption PROVE KernelSpec => []CitableAnswers
  BY InvCitable, DispatchInvariant, PTL

\* Nobody who is at work is sent back to `instruction`, whatever the thresholds, however
\* many agents, and also where their dispatches overlap (gates.rs, long_gap_should_fire).
THEOREM NobodyAtWorkIsDenied ==
    ASSUME KernelAssumption PROVE KernelSpec => NoDenialInActivity
<1>1. DispatchInv /\ [Next]_vars =>
        [\A c \in Callers :
           call'[c].denied \in {"long-gap", "retried"} /\ call'[c].id # call[c].id
           => quiet > Threshold]_vars
  BY OnlyAfterAGap
<1> QED BY <1>1, Parts, DispatchInvariant, PTL DEF KernelSpec, NoDenialInActivity

-----------------------------------------------------------------------------
(* The disciplines *)

\* What a removal has read differs from what it has read next by what was edited between,
\* and nobody whom its check has looked at requires what its target provides.
ReadsAgree ==
    \A r \in Removers :
        /\ removal[r].pc # "idle" =>
             \A n \in removal[r].seen :
                 n # removal[r].name /\ Realm[n] = Realm[removal[r].name] =>
                     Requires[n] \cap Provides[removal[r].name] = {}
        /\ removal[r].pc = "named" =>
             policies!Differing(removal[r].names, policies!EnabledNames)
                 \subseteq removal[r].edited
        /\ removal[r].pc = "read" =>
             policies!Differing(removal[r].names, removal[r].expected \cup {Default})
                 \subseteq removal[r].edited

PolicyInv == policies!TypeOK /\ ReadsAgree

Checked == [pc : {"checked"}, name : Names \ {Default}, seen : SUBSET Names]
Named == [pc : {"named"}, name : Names \ {Default}, seen : SUBSET Names,
          names : SUBSET Names, edited : SUBSET Names]
Read == [pc : {"read"}, name : Names \ {Default}, seen : SUBSET Names,
         names : SUBSET Names, edited : SUBSET Names, expected : SUBSET Names]
RemovalType == {policies!Idle} \cup Checked \cup Named \cup Read

LEMMA RemovalShape ==
    ASSUME policies!TypeOK
    PROVE  /\ removal \in [Removers -> RemovalType]
           /\ \A R \in RemovalType :
                /\ R = policies!Idle <=> R.pc = "idle"
                /\ R \in Checked <=> R.pc = "checked"
                /\ R \in Named <=> R.pc = "named"
                /\ R \in Read <=> R.pc = "read"
<1>1. removal \in [Removers -> RemovalType]
  BY DEF policies!TypeOK, RemovalType, Checked, Named, Read
<1>2. policies!Idle.pc = "idle" BY DEF policies!Idle
<1>3. \A R \in Checked : R.pc = "checked" BY DEF Checked
<1>4. \A R \in Named : R.pc = "named" BY DEF Named
<1>5. \A R \in Read : R.pc = "read" BY DEF Read
<1> QED BY <1>1, <1>2, <1>3, <1>4, <1>5 DEF RemovalType

LEMMA PolicyInitially == KernelAssumption /\ policies!Init => PolicyInv
<1> SUFFICES ASSUME KernelAssumption, policies!Init PROVE PolicyInv
  OBVIOUS
<1>1. policies!TypeOK
  <2>1. pass \in [{} -> BOOLEAN] BY DEF policies!Init
  <2>2. \E todo \in SUBSET Names : pass \in [todo -> BOOLEAN] BY <2>1
  <2>3. enabled \subseteq Names \ {Default}
    BY DEF policies!Init, KernelAssumption, policies!DisciplinesAssumption,
           policies!PlanAssumption
  <2> QED BY <2>2, <2>3 DEF policies!Init, policies!TypeOK, policies!LifecycleState
<1>2. \A r \in Removers : removal[r].pc = "idle"
  BY DEF policies!Init, policies!Idle
<1> QED BY <1>1, <1>2 DEF PolicyInv, ReadsAgree

LEMMA TargetIsBoolean == \A n \in Names : policies!Target(n) \in BOOLEAN
  BY DEF policies!Target

\* An edit of enabled.txt, by hand or by a removal, is noted by the removals it can escape.
LEMMA EditsKeep ==
    ASSUME KernelAssumption, PolicyInv, NEW S \in SUBSET (Names \ {Default}),
           NEW running \in [Removers -> RemovalType],
           \A r \in Removers : running[r] \in {removal[r], policies!Idle},
           policies!Edits(S, running), UNCHANGED <<fiber, pass>>
    PROVE  PolicyInv'
<1> USE DEF PolicyInv
<1> DEFINE D == policies!Differing(enabled, S)
           noted(R) == [R EXCEPT !.edited = R.edited \cup D]
<1>1. enabled' = S /\ D \in SUBSET Names /\ enabled \subseteq Names \ {Default}
  BY DEF policies!Edits, policies!Differing, policies!TypeOK
<1>2. ASSUME NEW R \in Named
      PROVE  /\ noted(R) \in Named /\ noted(R).name = R.name /\ noted(R).seen = R.seen
             /\ noted(R).names = R.names /\ noted(R).edited = R.edited \cup D
             /\ noted(R).pc = "named"
  <2> HIDE DEF D
  <2> QED BY <1>1 DEF Named
<1>3. /\ removal \in [Removers -> RemovalType]
      /\ \A R \in RemovalType : (R \in Named <=> R.pc = "named")
  BY RemovalShape
<1>4. ASSUME NEW r \in Removers
      PROVE  /\ removal'[r] \in RemovalType
             /\ removal[r] \notin Named => removal'[r] \in {removal[r], policies!Idle}
             /\ removal[r] \in Named => removal'[r] \in {noted(removal[r]), policies!Idle}
  <2>1. removal'[r] = IF running[r].pc = "named" THEN noted(running[r]) ELSE running[r]
    BY DEF policies!Edits
  <2>2. policies!Idle.pc = "idle" BY DEF policies!Idle
  <2>3. running[r] \in {removal[r], policies!Idle} /\ running[r] \in RemovalType OBVIOUS
  <2>4. \A R \in Named : noted(R) \in RemovalType BY <1>2 DEF RemovalType
  <2> HIDE DEF noted
  <2> QED BY <1>3, <2>1, <2>2, <2>3, <2>4
<1>5. policies!TypeOK'
  <2>1. removal' \in [Removers -> RemovalType] BY <1>4 DEF policies!Edits
  <2> HIDE DEF D, noted
  <2> QED BY <1>1, <2>1 DEF policies!TypeOK, RemovalType, Checked, Named, Read
<1>6. /\ policies!EnabledNames' \subseteq policies!EnabledNames \cup D
      /\ policies!EnabledNames \subseteq policies!EnabledNames' \cup D
  BY <1>1 DEF policies!EnabledNames, policies!Differing
<1>7. ReadsAgree'
  <2> SUFFICES ASSUME NEW r \in Removers, removal'[r] # policies!Idle
               PROVE  /\ removal'[r].pc # "idle" =>
                           \A n \in removal'[r].seen :
                             n # removal'[r].name /\ Realm[n] = Realm[removal'[r].name] =>
                               Requires[n] \cap Provides[removal'[r].name] = {}
                      /\ removal'[r].pc = "named" =>
                           policies!Differing(removal'[r].names, policies!EnabledNames')
                             \subseteq removal'[r].edited
                      /\ removal'[r].pc = "read" =>
                           policies!Differing(removal'[r].names,
                                              removal'[r].expected \cup {Default})
                             \subseteq removal'[r].edited
    BY DEF ReadsAgree, policies!Idle, policies!Differing
  <2>1. CASE removal[r] \in Named
    <3>1. removal'[r] = noted(removal[r]) /\ removal[r].pc = "named" BY <1>3, <1>4, <2>1
    <3>2. /\ removal'[r].pc = "named" /\ removal'[r].name = removal[r].name
          /\ removal'[r].seen = removal[r].seen /\ removal'[r].names = removal[r].names
          /\ removal'[r].edited = removal[r].edited \cup D
      BY <1>2, <2>1, <3>1
    <3>3. policies!Differing(removal[r].names, policies!EnabledNames) \subseteq removal[r].edited
      BY <3>1 DEF ReadsAgree
    <3> HIDE DEF D, noted
    <3>4. policies!Differing(removal'[r].names, policies!EnabledNames')
            \subseteq removal'[r].edited
      BY <1>6, <3>2, <3>3 DEF policies!Differing
    <3> QED BY <3>1, <3>2, <3>4 DEF ReadsAgree
  <2>2. CASE removal[r] \notin Named
    <3>1. removal'[r] = removal[r] /\ removal[r].pc # "named" BY <1>3, <1>4, <2>2
    <3> QED BY <3>1 DEF ReadsAgree
  <2> QED BY <2>1, <2>2
<1> QED BY <1>5, <1>7

\* The dispatches and the hand edits.
LEMMA OthersKeep ==
    ASSUME KernelAssumption, PolicyInv,
           \/ \E n \in Names : policies!Enable(n) \/ policies!Disable(n)
           \/ policies!Dispatch
    PROVE  PolicyInv'
<1> USE DEF PolicyInv
<1>1. CASE \E n \in Names : policies!Enable(n) \/ policies!Disable(n)
  <2>1. PICK n \in Names : policies!Enable(n) \/ policies!Disable(n) BY <1>1
  <2>2. PICK S : /\ S \in {enabled \cup {n}, enabled \ {n}}
                 /\ S = enabled \cup {n} => n # Default
                 /\ policies!Edits(S, removal) /\ UNCHANGED <<fiber, pass>>
    <3>1. CASE policies!Enable(n) BY <3>1 DEF policies!Enable, policies!EnabledNames
    <3>2. CASE policies!Disable(n)
      BY <3>2 DEF policies!Disable, policies!TypeOK
    <3> QED BY <2>1, <3>1, <3>2
  <2>3. S \in SUBSET (Names \ {Default}) BY <2>2 DEF policies!TypeOK
  <2>4. removal \in [Removers -> RemovalType] BY RemovalShape
  <2> QED BY <2>2, <2>3, <2>4, EditsKeep
<1>2. CASE policies!Dispatch
  <2>0. UNCHANGED <<enabled, removal>>
    BY <1>2 DEF policies!Dispatch, policies!ActivePolicies, policies!AdvanceFiber
  <2>1. CASE policies!ActivePolicies
    <3>1. pass' \in [Names -> BOOLEAN] BY <2>1, TargetIsBoolean DEF policies!ActivePolicies
    <3>2. \E todo \in SUBSET Names : pass' \in [todo -> BOOLEAN] BY <3>1
    <3>3. policies!TypeOK' BY <2>1, <3>2 DEF policies!TypeOK, policies!ActivePolicies
    <3> QED BY <2>0, <3>3 DEF ReadsAgree, policies!EnabledNames
  <2>2. ASSUME NEW n \in Names, policies!AdvanceFiber(n) PROVE PolicyInv'
    <3>1. fiber' \in [Names -> policies!LifecycleState]
      BY <2>2 DEF policies!TypeOK, policies!AdvanceFiber, policies!Transition,
                  policies!LifecycleState
    <3>2. PICK todo \in SUBSET Names : pass \in [todo -> BOOLEAN] BY DEF policies!TypeOK
    <3>3. pass' \in [todo \ {n} -> BOOLEAN] BY <2>2, <3>2 DEF policies!AdvanceFiber
    <3>4. \E rest \in SUBSET Names : pass' \in [rest -> BOOLEAN] BY <3>3
    <3>5. policies!TypeOK' BY <2>0, <3>1, <3>4 DEF policies!TypeOK
    <3> QED BY <2>0, <3>5 DEF ReadsAgree, policies!EnabledNames
  <2> QED BY <1>2, <2>1, <2>2 DEF policies!Dispatch
<1> QED BY <1>1, <1>2

\* A removal of r reads on while enabled.txt stands still.
LEMMA ReadKeeps ==
    ASSUME KernelAssumption, PolicyInv, NEW r \in Removers, NEW new \in RemovalType,
           removal' = [removal EXCEPT ![r] = new], UNCHANGED <<enabled, fiber, pass>>,
           /\ new.pc # "idle" =>
                \A n \in new.seen : n # new.name /\ Realm[n] = Realm[new.name] =>
                    Requires[n] \cap Provides[new.name] = {}
           /\ new.pc = "named" =>
                policies!Differing(new.names, policies!EnabledNames) \subseteq new.edited
           /\ new.pc = "read" =>
                policies!Differing(new.names, new.expected \cup {Default}) \subseteq new.edited
    PROVE  PolicyInv'
<1> USE DEF PolicyInv
<1>1. removal \in [Removers -> RemovalType] BY RemovalShape
<1>2. /\ removal'[r] = new
      /\ \A s \in Removers \ {r} : removal'[s] = removal[s]
      /\ removal' \in [Removers -> RemovalType]
  BY <1>1
<1>3. policies!TypeOK' BY <1>2 DEF policies!TypeOK, RemovalType, Checked, Named, Read
<1>4. policies!EnabledNames' = policies!EnabledNames BY DEF policies!EnabledNames
<1>5. ReadsAgree' BY <1>2, <1>4 DEF ReadsAgree
<1> QED BY <1>3, <1>5

LEMMA EnabledAreNames ==
    ASSUME KernelAssumption, policies!TypeOK
    PROVE  policies!EnabledNames \in SUBSET Names /\ enabled \in SUBSET Names
  BY DEF policies!EnabledNames, policies!TypeOK, KernelAssumption,
         policies!DisciplinesAssumption, policies!ManifestAssumption

\* A check lets nobody it looks at require what the target provides.
LEMMA CheckRemovalKeeps ==
    ASSUME KernelAssumption, PolicyInv, NEW r \in Removers, NEW n \in Names,
           policies!CheckRemoval(r, n)
    PROVE  PolicyInv'
<1> DEFINE up == IF n \in policies!EnabledNames THEN policies!Up ELSE {}
           new == [pc |-> "checked", name |-> n, seen |-> up]
<1>1. up \in SUBSET Names
  BY EnabledAreNames DEF policies!Up, PolicyInv
<1>2. /\ new \in RemovalType /\ new.pc = "checked" /\ new.name = n /\ new.seen = up
  BY <1>1 DEF policies!CheckRemoval, RemovalType, Checked
<1>3. /\ removal' = [removal EXCEPT ![r] = new] /\ UNCHANGED <<enabled, fiber, pass>>
      /\ policies!RemovalDependents(n) = {}
  BY DEF policies!CheckRemoval
<1>4. ASSUME NEW m \in up, m # n, Realm[m] = Realm[n]
      PROVE  Requires[m] \cap Provides[n] = {}
  <2>1. n \in policies!EnabledNames /\ m \in policies!Up BY <1>4
  <2>2. m \in policies!EnabledNames \ {n} /\ policies!IsActive(m)
        /\ policies!RequiresSatisfied(m)
    BY <1>4, <2>1 DEF policies!Up
  <2> QED BY <1>3, <1>4, <2>1, <2>2 DEF policies!RemovalDependents
<1> HIDE DEF new, up
<1> QED BY <1>2, <1>3, <1>4, ReadKeeps

LEMMA RemovalStepKeeps ==
    ASSUME KernelAssumption, PolicyInv, NEW r \in Removers, policies!RemovalStep(r)
    PROVE  PolicyInv'
<1> USE DEF PolicyInv
<1>1. policies!Idle \in RemovalType /\ policies!Idle.pc = "idle"
  BY DEF RemovalType, policies!Idle
<1>2. removal[r] \in RemovalType BY RemovalShape
<1>3. ASSUME policies!RemovalNames(r) PROVE PolicyInv'
  <2> DEFINE R == removal[r]
             names == policies!EnabledNames
             new == [pc |-> "named", name |-> R.name, seen |-> R.seen, names |-> names,
                     edited |-> {}]
  <2>1. /\ UNCHANGED <<enabled, fiber, pass>> /\ R.pc = "checked"
        /\ removal' = [removal EXCEPT ![r] = new] \/ removal' = [removal EXCEPT ![r] = policies!Idle]
    BY <1>3 DEF policies!RemovalNames
  <2>2. R \in Checked BY <1>2, <2>1, RemovalShape
  <2>3. names \in SUBSET Names BY EnabledAreNames
  <2>4. \A n \in R.seen : n # R.name /\ Realm[n] = Realm[R.name] =>
          Requires[n] \cap Provides[R.name] = {}
    BY <2>1 DEF ReadsAgree
  <2> HIDE DEF names
  <2>5. /\ new \in RemovalType /\ new.pc = "named" /\ new.name = R.name
        /\ new.seen = R.seen /\ new.names = names /\ new.edited = {}
    BY <2>2, <2>3 DEF RemovalType, Checked, Named
  <2>6. policies!Differing(new.names, policies!EnabledNames) \subseteq new.edited
    BY <2>5 DEF policies!Differing, names
  <2> HIDE DEF new, R
  <2>7. CASE removal' = [removal EXCEPT ![r] = new]
    BY <2>1, <2>4, <2>5, <2>6, <2>7, ReadKeeps
  <2>8. CASE removal' = [removal EXCEPT ![r] = policies!Idle]
    BY <1>1, <2>1, <2>8, ReadKeeps
  <2> QED BY <2>1, <2>7, <2>8
<1>4. ASSUME policies!RemovalOriginal(r) PROVE PolicyInv'
  <2> DEFINE R == removal[r]
             new == [pc |-> "read", name |-> R.name, seen |-> R.seen, names |-> R.names,
                     edited |-> R.edited, expected |-> enabled]
  <2>1. /\ UNCHANGED <<enabled, fiber, pass>> /\ R.pc = "named"
        /\ removal' = [removal EXCEPT ![r] = new]
    BY <1>4 DEF policies!RemovalOriginal
  <2>2. R \in Named BY <1>2, <2>1, RemovalShape
  <2>3. enabled \in SUBSET Names BY EnabledAreNames
  <2>4. /\ \A n \in R.seen : n # R.name /\ Realm[n] = Realm[R.name] =>
             Requires[n] \cap Provides[R.name] = {}
        /\ policies!Differing(R.names, policies!EnabledNames) \subseteq R.edited
    BY <2>1 DEF ReadsAgree
  <2>5. /\ new \in RemovalType /\ new.pc = "read" /\ new.name = R.name
        /\ new.seen = R.seen /\ new.names = R.names /\ new.edited = R.edited
        /\ new.expected = enabled
    BY <2>2, <2>3 DEF RemovalType, Named, Read
  <2>6. policies!Differing(new.names, new.expected \cup {Default}) \subseteq new.edited
    BY <2>4, <2>5 DEF policies!EnabledNames
  <2> HIDE DEF new, R
  <2> QED BY <2>1, <2>4, <2>5, <2>6, ReadKeeps
<1>5. ASSUME policies!RemovalWrite(r) PROVE PolicyInv'
  <2> DEFINE S == IF enabled = removal[r].expected
                  THEN removal[r].names \ {removal[r].name, Default} ELSE enabled
             running == [removal EXCEPT ![r] = policies!Idle]
  <2>1. /\ UNCHANGED <<fiber, pass>> /\ removal[r].pc = "read"
        /\ policies!Edits(S, running)
    BY <1>5 DEF policies!RemovalWrite
  <2>2. removal[r] \in Read BY <1>2, <2>1, RemovalShape
  <2>3. S \in SUBSET (Names \ {Default}) BY <2>2 DEF Read, policies!TypeOK
  <2>4. /\ running \in [Removers -> RemovalType]
        /\ \A s \in Removers : running[s] \in {removal[s], policies!Idle}
    <3>1. removal \in [Removers -> RemovalType] BY RemovalShape
    <3> QED BY <1>1, <3>1
  <2> HIDE DEF S, running
  <2> QED BY <2>1, <2>3, <2>4, EditsKeep
<1> QED BY <1>3, <1>4, <1>5 DEF policies!RemovalStep

LEMMA PolicyStep ==
    KernelAssumption /\ PolicyInv /\ [policies!Next]_policyVars => PolicyInv'
<1>1. PolicyInv /\ UNCHANGED policyVars => PolicyInv'
  BY DEF policyVars, PolicyInv, policies!TypeOK, ReadsAgree, policies!EnabledNames,
         policies!Idle
<1> QED BY <1>1, OthersKeep, CheckRemovalKeeps, RemovalStepKeeps
        DEF policies!Next

LEMMA PolicyInvariant ==
    ASSUME KernelAssumption PROVE KernelSpec => []PolicyInv
<1>1. KernelInit => PolicyInv BY PolicyInitially DEF KernelInit
<1>2. PolicyInv /\ [Dispatch \/ Load \/ Follow]_all => PolicyInv'
  BY PolicyStep, Parts
<1> QED BY <1>1, <1>2, PTL DEF KernelSpec

\* A removal that has read everything ends with its write.
LEMMA EndsWithTheWrite ==
    ASSUME KernelAssumption, PolicyInv, policies!Next, NEW r \in Removers,
           removal[r].pc = "read", removal'[r] = policies!Idle
    PROVE  policies!RemovalWrite(r)
<1> USE DEF PolicyInv, policies!TypeOK
<1>1. removal'[r] # removal[r] BY DEF policies!Idle
<1>2. ~ \E n \in Names : policies!Enable(n) \/ policies!Disable(n)
  BY <1>1 DEF policies!Enable, policies!Disable, policies!Edits
<1>3. ~policies!Dispatch
  BY <1>1 DEF policies!Dispatch, policies!ActivePolicies, policies!AdvanceFiber
<1>4. ASSUME NEW s \in Removers, NEW n \in Names, policies!CheckRemoval(s, n) PROVE FALSE
  <2>1. s # r BY <1>4 DEF policies!CheckRemoval, policies!Idle
  <2> QED BY <1>1, <1>4, <2>1 DEF policies!CheckRemoval
<1>5. ASSUME NEW s \in Removers, policies!RemovalStep(s) PROVE policies!RemovalWrite(r)
  <2>1. s # r => removal'[r] = removal[r]
    BY <1>5 DEF policies!RemovalStep, policies!RemovalNames, policies!RemovalOriginal,
                policies!RemovalWrite, policies!Edits
  <2>2. s = r BY <1>1, <2>1
  <2> QED BY <1>5, <2>2 DEF policies!RemovalStep, policies!RemovalNames, policies!RemovalOriginal
<1> QED BY <1>2, <1>3, <1>4, <1>5 DEF policies!Next

\* A removal leaves enabled.txt as it is, but for its target and what was edited between
\* its two reads.
LEMMA WriteDropsTheTarget ==
    ASSUME KernelAssumption, PolicyInv, NEW r \in Removers, policies!RemovalWrite(r)
    PROVE  policies!Differing(enabled, enabled') \subseteq removal[r].edited \cup {removal[r].name}
<1> USE DEF PolicyInv
<1>1. removal[r].pc = "read" BY DEF policies!RemovalWrite
<1>2. policies!Differing(removal[r].names, removal[r].expected \cup {Default})
        \subseteq removal[r].edited
  BY <1>1 DEF ReadsAgree
<1>3. enabled \subseteq Names \ {Default} BY DEF policies!TypeOK
<1>4. enabled' = IF enabled = removal[r].expected
                 THEN removal[r].names \ {removal[r].name, Default} ELSE enabled
  BY DEF policies!RemovalWrite, policies!Edits
<1>5. CASE enabled = removal[r].expected BY <1>2, <1>3, <1>4, <1>5 DEF policies!Differing
<1>6. CASE enabled # removal[r].expected BY <1>4, <1>6 DEF policies!Differing
<1> QED BY <1>5, <1>6

\* A removal takes its own discipline out of enabled.txt and otherwise touches what was
\* edited between its two reads at most, however many removers and editors there are
\* (discipline_note.rs, the cas_write of the removal).
THEOREM OnlyTheTargetGoes ==
    ASSUME KernelAssumption PROVE KernelSpec => RemovalDropsOnlyItsTarget
<1>1. PolicyInv /\ [policies!Next]_policyVars =>
        [\A r \in Removers : removal[r].pc = "read" /\ removal'[r] = policies!Idle =>
           policies!Differing(enabled, enabled')
             \subseteq removal[r].edited \cup {removal[r].name}]_(policies!vars)
  BY EndsWithTheWrite, WriteDropsTheTarget DEF policies!vars, policyVars
<1> QED BY <1>1, Parts, PolicyInvariant, PTL
        DEF KernelSpec, RemovalDropsOnlyItsTarget, policies!RemovalDropsOnlyItsTarget

\* Whom a check has seen up in the target's realm, and who still is, keeps all it requires
\* over the write, whatever the manifests are and whatever has happened since the check
\* but an edit between the two reads; keys that the target isolates aside
\* (removal_dependents, the SafeToWithdraw witness).
THEOREM NobodyIsLeftBehind ==
    ASSUME KernelAssumption PROVE KernelSpec => RemovalLeavesNobodyBehind
<1>1. ASSUME PolicyInv, policies!Next, NEW r \in Removers,
             removal[r].pc = "read", removal'[r] = policies!Idle, removal[r].edited = {},
             NEW n \in policies!Up \cap removal[r].seen,
             n \in enabled' \cup {Default},
             Realm[n] = Realm[removal[r].name],
             Requires[n] \cap DOMAIN Isolation[removal[r].name] = {}
      PROVE  policies!RequiresSatisfied(n)'
  <2> DEFINE d == removal[r].name
  <2>1. policies!RemovalWrite(r) BY <1>1, EndsWithTheWrite
  <2>2. UNCHANGED fiber BY <2>1 DEF policies!RemovalWrite
  <2>3. policies!Differing(enabled, enabled') \subseteq {d}
    BY <1>1, <2>1, WriteDropsTheTarget
  <2>4. removal[r] \in RemovalType BY <1>1, RemovalShape DEF PolicyInv
  <2>5. d \in Names \ {Default} BY <1>1, <2>4, RemovalShape DEF Read, PolicyInv
  <2>6. enabled' \in {enabled, enabled \ {d}}
    <3>1. enabled' = enabled \/ d \notin enabled'
      BY <2>1 DEF policies!RemovalWrite, policies!Edits
    <3> QED BY <2>3, <3>1 DEF policies!Differing
  <2>7. n # d /\ Realm[n] = Realm[d] => Requires[n] \cap Provides[d] = {}
    BY <1>1 DEF PolicyInv, ReadsAgree
  <2> HIDE DEF d
  <2>8. CASE enabled' = enabled
    BY <1>1, <2>2, <2>8
       DEF policies!Up, policies!RequiresSatisfied, policies!ActiveProviders,
           policies!EnabledNames, policies!IsActive, policies!ResolveKeyRealm,
           policies!IsolatedInto
  <2>9. CASE enabled' = enabled \ {d} /\ enabled' # enabled
    <3>1. n # d BY <1>1, <2>5, <2>9
    <3>2. policies!EnabledNames' = policies!EnabledNames \ {d}
      BY <2>5, <2>9 DEF policies!EnabledNames
    <3>3. SUFFICES ASSUME NEW k \in Requires[n]
                   PROVE  policies!ActiveProviders(n, k)' # {}
      BY DEF policies!RequiresSatisfied
    <3>4. k \notin DOMAIN Isolation[d] /\ k \notin Provides[d]
      BY <1>1, <2>7, <3>1 DEF d
    <3>5. policies!IsolatedInto(k)' = policies!IsolatedInto(k)
      BY <3>2, <3>4 DEF policies!IsolatedInto
    <3>6. \A m : policies!ResolveKeyRealm(m, k)' = policies!ResolveKeyRealm(m, k)
      BY <3>5 DEF policies!ResolveKeyRealm
    <3>7. PICK p \in policies!ActiveProviders(n, k) : TRUE
      BY <1>1 DEF policies!Up, policies!RequiresSatisfied
    <3>8. p # d BY <3>4, <3>7 DEF policies!ActiveProviders
    <3>9. p \in policies!ActiveProviders(n, k)'
      BY <2>2, <3>2, <3>6, <3>7, <3>8 DEF policies!ActiveProviders, policies!IsActive
    <3> QED BY <3>9
  <2> QED BY <2>6, <2>8, <2>9
<1>2. PolicyInv /\ [policies!Next]_policyVars =>
        [\A r \in Removers :
           removal[r].pc = "read" /\ removal'[r] = policies!Idle /\ removal[r].edited = {} =>
             \A n \in policies!Up \cap removal[r].seen :
               /\ n \in enabled' \cup {Default}
               /\ Realm[n] = Realm[removal[r].name]
               /\ Requires[n] \cap DOMAIN Isolation[removal[r].name] = {}
               => policies!RequiresSatisfied(n)']_(policies!vars)
  BY <1>1 DEF policies!vars, policyVars
<1> QED BY <1>2, Parts, PolicyInvariant, PTL
        DEF KernelSpec, RemovalLeavesNobodyBehind, policies!RemovalLeavesNobodyBehind

-----------------------------------------------------------------------------
(* The component loader.  What a reload is based on is computed by         *)
(* recursions, each over a list of the modules or the entries: they exist, *)
(* and their values keep what every one of their steps keeps.              *)

LEMMA SetInduction ==
    ASSUME NEW N \in Nat, NEW S \in SUBSET (0 .. N), 0 \in S,
           \A n \in 1 .. N : n - 1 \in S => n \in S
    PROVE  S = 0 .. N
<1> DEFINE R == OpToRel(<, Nat)
<1>1. IsWellFoundedOn(R, Nat) BY NatLessThanWellFounded
<1>2. R = {ss \in Nat \X Nat : ss[1] < ss[2]} BY DEF OpToRel
<1> HIDE DEF R
<1>3. SUFFICES ASSUME (0 .. N) \ S # {} PROVE FALSE OBVIOUS
<1>4. (0 .. N) \ S \subseteq Nat OBVIOUS
<1>5. \E x \in (0 .. N) \ S : \A y \in (0 .. N) \ S : ~(<<y, x>> \in R)
  BY <1>1, <1>3, <1>4, WFMin
<1>6. PICK x \in (0 .. N) \ S : \A y \in (0 .. N) \ S : ~(y < x)
  BY <1>2, <1>4, <1>5
<1>7. x \in 1 .. N /\ x - 1 \in 0 .. N BY <1>6
<1>8. x - 1 \notin S BY <1>6, <1>7
<1> QED BY <1>6, <1>7, <1>8

\* The functions a recursion applies, one after another.
Steps(X, N) == [1 .. N -> [X -> X]]
Recurs(f, b, G, N) == f[0] = b /\ \A n \in 1 .. N : f[n] = G[n][f[n - 1]]

LEMMA Recursion ==
    ASSUME NEW N \in Nat, NEW X, NEW b \in X, NEW G \in Steps(X, N)
    PROVE  \E f \in [0 .. N -> X] : Recurs(f, b, G, N)
<1>0. G \in [1 .. N -> [X -> X]] BY DEF Steps
<1> DEFINE S == {n \in 0 .. N : \E f \in [0 .. N -> X] : Recurs(f, b, G, n)}
<1>1. 0 \in S
  <2> DEFINE f == [n \in 0 .. N |-> b]
  <2>1. f \in [0 .. N -> X] /\ Recurs(f, b, G, 0) BY DEF Recurs
  <2> QED BY <2>1
<1>2. ASSUME NEW n \in 1 .. N, n - 1 \in S PROVE n \in S
  <2>1. PICK f \in [0 .. N -> X] : Recurs(f, b, G, n - 1) BY <1>2
  <2> DEFINE g == [k \in 0 .. N |-> IF k = n THEN G[n][f[n - 1]] ELSE f[k]]
  <2>2. g \in [0 .. N -> X] BY <1>0
  <2>3. g[0] = b BY <2>1 DEF Recurs
  <2>4. ASSUME NEW k \in 1 .. n PROVE g[k] = G[k][g[k - 1]]
    <3>1. k - 1 \in 0 .. N /\ k - 1 # n /\ g[k - 1] = f[k - 1] OBVIOUS
    <3>2. CASE k = n BY <3>1, <3>2
    <3>3. CASE k # n
      <4>1. k \in 1 .. n - 1 /\ g[k] = f[k] BY <3>3
      <4>2. f[k] = G[k][f[k - 1]] BY <2>1, <4>1 DEF Recurs
      <4> QED BY <3>1, <4>1, <4>2
    <3> QED BY <3>2, <3>3
  <2> HIDE DEF g
  <2>5. Recurs(g, b, G, n) BY <2>3, <2>4 DEF Recurs
  <2> QED BY <2>2, <2>5
<1>3. S \in SUBSET (0 .. N) OBVIOUS
<1> HIDE DEF S
<1>4. S = 0 .. N BY <1>1, <1>2, <1>3, SetInduction
<1>5. N \in S BY <1>4
<1> QED BY <1>5 DEF S

LEMMA StepsKeep ==
    ASSUME NEW N \in Nat, NEW X, NEW f, f[0] \in X,
           \A n \in 1 .. N : f[n - 1] \in X => f[n] \in X
    PROVE  \A n \in 0 .. N : f[n] \in X
<1> DEFINE S == {n \in 0 .. N : f[n] \in X}
<1>1. S \in SUBSET (0 .. N) /\ 0 \in S /\ \A n \in 1 .. N : n - 1 \in S => n \in S
  OBVIOUS
<1> HIDE DEF S
<1>2. S = 0 .. N BY <1>1, SetInduction
<1> QED BY <1>2 DEF S

-----------------------------------------------------------------------------
\* A round of classify, from one in which the changed modules are decided: those that
\* are declined need a restart.
GoodRound(c) ==
    {r \in [accepted : SUBSET loader!Modules, declined : SUBSET loader!Modules,
            pending : SUBSET loader!Modules, progress : BOOLEAN] :
        /\ c.stashed \subseteq r.accepted
        /\ r.pending \cap c.stashed = {}
        /\ r.declined \cap c.stashed \subseteq c.externals}

LEMMA CycleShape ==
    ASSUME KernelAssumption, NEW c \in Cycles
    PROVE  /\ c.stashed \in SUBSET loader!Modules /\ c.externals \in SUBSET loader!Modules
           /\ c.imports \in [loader!Modules -> SUBSET loader!Modules]
           /\ c.source \in Versions /\ c.fail \in SUBSET loader!Modules
           /\ Urls \in Seq(loader!Modules) /\ Ids \in Seq(loader!EntryIds)
           /\ UrlOf \in [loader!EntryIds -> loader!Modules]
  BY DEF KernelAssumption, loader!ComponentLoaderAssumption, loader!CycleType

LEMMA JudgedWell ==
    ASSUME KernelAssumption, NEW c \in Cycles, NEW r \in GoodRound(c),
           NEW u \in loader!Modules \ c.stashed
    PROVE  loader!Judge(c.imports, r, u) \in GoodRound(c)
<1> DEFINE its == c.imports[u]
<1>1. its \in SUBSET loader!Modules BY CycleShape
<1>2. CASE its \cap r.accepted # {}
  <2>1. loader!Judge(c.imports, r, u)
          = [r EXCEPT !.accepted = @ \cup {u}, !.pending = @ \ {u}, !.progress = TRUE]
    BY <1>2 DEF loader!Judge
  <2> QED BY <2>1 DEF GoodRound
<1>3. CASE its \cap r.accepted = {} /\ its # {} /\ its \subseteq r.declined
  <2>1. loader!Judge(c.imports, r, u)
          = [r EXCEPT !.declined = @ \cup {u}, !.pending = @ \ {u}, !.progress = TRUE]
    BY <1>3 DEF loader!Judge
  <2>2. /\ r.declined \cup {u} \in SUBSET loader!Modules
        /\ r.pending \ {u} \in SUBSET loader!Modules
        /\ (r.declined \cup {u}) \cap c.stashed \subseteq c.externals
        /\ (r.pending \ {u}) \cap c.stashed = {}
    BY DEF GoodRound
  <2> QED BY <2>1, <2>2 DEF GoodRound
<1>4. CASE its \cap r.accepted = {} /\ ~(its # {} /\ its \subseteq r.declined)
  <2>1. loader!Judge(c.imports, r, u)
          = [r EXCEPT !.pending = @ \cup (its \ (r.accepted \cup r.declined))]
    BY <1>4 DEF loader!Judge
  <2> QED BY <1>1, <2>1 DEF GoodRound
<1> QED BY <1>2, <1>3, <1>4

LEMMA JudgedSteps ==
    ASSUME KernelAssumption, NEW c \in Cycles, NEW r \in GoodRound(c)
    PROVE  \A n \in 0 .. Len(Urls) : loader!Judged(c.imports, r)[n] \in GoodRound(c)
<1> DEFINE N == Len(Urls)
           X == GoodRound(c)
           b == [r EXCEPT !.progress = FALSE]
           Next1(s, n) == IF Urls[n] \in r.pending THEN loader!Judge(c.imports, s, Urls[n]) ELSE s
           G == [n \in 1 .. N |-> [s \in X |-> Next1(s, n)]]
           Is(f) == f = [n \in 0 .. Len(Urls) |->
                           IF n = 0 THEN [r EXCEPT !.progress = FALSE]
                           ELSE IF Urls[n] \in r.pending THEN loader!Judge(c.imports, f[n - 1], Urls[n])
                           ELSE f[n - 1]]
<1>1. N \in Nat /\ \A n \in 1 .. N : Urls[n] \in loader!Modules BY CycleShape
<1>2. b \in X BY DEF GoodRound
<1>3. \A n \in 1 .. N : \A s \in X : Next1(s, n) \in X
  BY <1>1, JudgedWell DEF GoodRound
<1>4. G \in Steps(X, N)
  <2> HIDE DEF X, Next1, N
  <2> QED BY <1>3 DEF Steps
<1>5. PICK f \in [0 .. N -> X] : Recurs(f, b, G, N)
  <2> HIDE DEF X, G, N, b
  <2> QED BY <1>1, <1>2, <1>4, Recursion
<1>6. \A n \in 1 .. N : f[n] = Next1(f[n - 1], n)
  <2> HIDE DEF X, Next1, N
  <2> SUFFICES ASSUME NEW n \in 1 .. N PROVE f[n] = Next1(f[n - 1], n) OBVIOUS
  <2>1. n - 1 \in 0 .. N BY <1>1
  <2> QED BY <1>5, <2>1 DEF Recurs
<1>7. Is(f)
  <2> HIDE DEF X
  <2> QED BY <1>5, <1>6 DEF Recurs
<1>8. \E h : Is(h) BY <1>7
<1>9. loader!Judged(c.imports, r) = CHOOSE h : Is(h) BY Zenon DEF loader!Judged
<1>10. PICK h : h = loader!Judged(c.imports, r)
  OBVIOUS
<1>11. Is(h)
  <2> HIDE DEF Is
  <2> QED BY <1>8, <1>9, <1>10
<1>12. h[0] = b BY <1>1, <1>11
<1>13. \A n \in 1 .. N : h[n] = Next1(h[n - 1], n)
  <2> SUFFICES ASSUME NEW n \in 1 .. N PROVE h[n] = Next1(h[n - 1], n) OBVIOUS
  <2>1. n \in 0 .. Len(Urls) /\ n # 0 BY <1>1
  <2> HIDE DEF X, N
  <2> QED BY <1>11, <2>1
<1>14. \A n \in 1 .. N : h[n - 1] \in X => h[n] \in X
  <2> HIDE DEF X, Next1, N
  <2> QED BY <1>3, <1>13
<1> HIDE DEF X, N, b
<1>15. \A n \in 0 .. N : h[n] \in X BY <1>1, <1>2, <1>12, <1>14, StepsKeep
<1> QED BY <1>10, <1>15 DEF X, N

LEMMA RoundsKeep ==
    ASSUME KernelAssumption, NEW c \in Cycles, NEW r \in GoodRound(c)
    PROVE  loader!Rounds(c.imports, r)[Len(Urls) + 1] \in GoodRound(c)
<1> DEFINE N == Len(Urls) + 1
           X == GoodRound(c)
           Next1(s) == IF s.progress THEN loader!Round(c.imports, s) ELSE s
           G == [n \in 1 .. N |-> [s \in X |-> Next1(s)]]
           Is(f) == f = [n \in 0 .. Len(Urls) + 1 |->
                           IF n = 0 THEN r
                           ELSE IF f[n - 1].progress THEN loader!Round(c.imports, f[n - 1])
                           ELSE f[n - 1]]
<1>1. N \in Nat /\ Len(Urls) \in 0 .. Len(Urls) /\ N \in 0 .. N BY CycleShape
<1>2. r \in X
  OBVIOUS
<1>3. \A s \in X : Next1(s) \in X BY <1>1, JudgedSteps DEF loader!Round
<1>4. G \in Steps(X, N)
  <2> HIDE DEF X, Next1, N
  <2> QED BY <1>3 DEF Steps
<1>5. PICK f \in [0 .. N -> X] : Recurs(f, r, G, N)
  <2> HIDE DEF X, G, N
  <2> QED BY <1>1, <1>2, <1>4, Recursion
<1>6. \A n \in 1 .. N : f[n] = Next1(f[n - 1])
  <2> HIDE DEF X, Next1, N
  <2> SUFFICES ASSUME NEW n \in 1 .. N PROVE f[n] = Next1(f[n - 1]) OBVIOUS
  <2>1. n - 1 \in 0 .. N BY <1>1
  <2> QED BY <1>5, <2>1 DEF Recurs
<1>7. Is(f)
  <2> HIDE DEF X
  <2> QED BY <1>5, <1>6 DEF Recurs
<1>8. \E h : Is(h) BY <1>7
<1>9. loader!Rounds(c.imports, r) = CHOOSE h : Is(h) BY Zenon DEF loader!Rounds
<1>10. PICK h : h = loader!Rounds(c.imports, r)
  OBVIOUS
<1>11. Is(h)
  <2> HIDE DEF Is
  <2> QED BY <1>8, <1>9, <1>10
<1>12. h[0] = r BY <1>1, <1>11
<1>13. \A n \in 1 .. N : h[n] = Next1(h[n - 1])
  <2> SUFFICES ASSUME NEW n \in 1 .. N PROVE h[n] = Next1(h[n - 1]) OBVIOUS
  <2>1. n \in 0 .. Len(Urls) + 1 /\ n # 0 BY <1>1
  <2> HIDE DEF X, N
  <2> QED BY <1>11, <2>1
<1>14. \A n \in 1 .. N : h[n - 1] \in X => h[n] \in X
  <2> HIDE DEF X, Next1, N
  <2> QED BY <1>3, <1>13
<1> HIDE DEF X, N
<1>15. \A n \in 0 .. N : h[n] \in X BY <1>1, <1>2, <1>12, <1>14, StepsKeep
<1> QED BY <1>1, <1>10, <1>15 DEF X, N

\* classify accepts what has changed, and declines of it what needs a restart at most.
LEMMA Classified ==
    ASSUME KernelAssumption, NEW c \in Cycles
    PROVE  /\ loader!Classify(c).accepted \in SUBSET loader!Modules
           /\ c.stashed \subseteq loader!Classify(c).accepted
           /\ loader!Classify(c).declined \cap c.stashed \subseteq c.externals
<1> DEFINE start == [accepted |-> c.stashed, declined |-> c.externals, progress |-> TRUE,
                     pending  |-> (UNION {c.imports[u] : u \in c.stashed})
                                  \ (c.stashed \cup c.externals)]
           final == loader!Rounds(c.imports, start)[Len(Urls) + 1]
<1>1. start \in GoodRound(c)
  <2>1. UNION {c.imports[u] : u \in c.stashed} \in SUBSET loader!Modules BY CycleShape
  <2> QED BY <2>1, CycleShape DEF GoodRound
<1>2. final \in GoodRound(c)
  <2> HIDE DEF start
  <2> QED BY <1>1, RoundsKeep
<1>3. loader!Classify(c) = [accepted |-> final.accepted, declined |-> final.declined \cup final.pending]
  BY DEF loader!Classify
<1> HIDE DEF final
<1>4. /\ final.accepted \in SUBSET loader!Modules /\ c.stashed \subseteq final.accepted
      /\ final.pending \cap c.stashed = {} /\ final.declined \cap c.stashed \subseteq c.externals
  BY <1>2 DEF GoodRound
<1> QED BY <1>3, <1>4

\* get_dependencies finds the root itself, unless that is declined: then nothing.
Rooted(root, declined) ==
    {S \in SUBSET loader!Modules : IF root \in declined THEN S = {} ELSE root \in S}

LEMMA DependenciesAreRooted ==
    ASSUME KernelAssumption, NEW c \in Cycles, NEW root \in loader!Modules, NEW declined
    PROVE  loader!Dependencies(c.imports, root, declined) \in Rooted(root, declined)
<1> DEFINE N == Len(Urls)
           X == Rooted(root, declined)
           Next1(s) == s \cup ((UNION {c.imports[u] : u \in s}) \ declined)
           G == [n \in 1 .. N |-> [s \in X |-> Next1(s)]]
           Is(f) == f = [n \in 0 .. Len(Urls) |->
                           IF n = 0 THEN {root} \ declined
                           ELSE f[n - 1] \cup
                                ((UNION {c.imports[u] : u \in f[n - 1]}) \ declined)]
<1>1. N \in Nat /\ N \in 0 .. N BY CycleShape
<1>2. {root} \ declined \in X BY DEF Rooted
<1>3. \A s \in X : Next1(s) \in X
  <2> SUFFICES ASSUME NEW s \in X PROVE Next1(s) \in X OBVIOUS
  <2>1. s \in SUBSET loader!Modules /\ IF root \in declined THEN s = {} ELSE root \in s
    BY DEF Rooted
  <2>2. UNION {c.imports[u] : u \in s} \in SUBSET loader!Modules BY <2>1, CycleShape
  <2>3. CASE root \in declined
    <3>1. s = {} BY <2>1, <2>3
    <3>2. Next1(s) = {} BY <3>1
    <3> QED BY <2>3, <3>2 DEF Rooted
  <2>4. CASE root \notin declined BY <2>1, <2>2, <2>4 DEF Rooted
  <2> QED BY <2>3, <2>4
<1>4. G \in Steps(X, N)
  <2> HIDE DEF X, Next1, N
  <2> QED BY <1>3 DEF Steps
<1>5. PICK f \in [0 .. N -> X] : Recurs(f, {root} \ declined, G, N)
  <2> HIDE DEF X, G, N
  <2> QED BY <1>1, <1>2, <1>4, Recursion
<1>6. \A n \in 1 .. N : f[n] = Next1(f[n - 1])
  <2> HIDE DEF X, Next1, N
  <2> SUFFICES ASSUME NEW n \in 1 .. N PROVE f[n] = Next1(f[n - 1]) OBVIOUS
  <2>1. n - 1 \in 0 .. N BY <1>1
  <2> QED BY <1>5, <2>1 DEF Recurs
<1>7. Is(f)
  <2> HIDE DEF X
  <2> QED BY <1>5, <1>6 DEF Recurs
<1>8. \E h : Is(h) BY <1>7
<1>9. loader!Reached(c.imports, root, declined) = CHOOSE h : Is(h) BY Zenon DEF loader!Reached
<1>10. PICK h : h = loader!Reached(c.imports, root, declined)
  OBVIOUS
<1>11. Is(h)
  <2> HIDE DEF Is
  <2> QED BY <1>8, <1>9, <1>10
<1>12. h[0] = {root} \ declined BY <1>1, <1>11
<1>13. \A n \in 1 .. N : h[n] = Next1(h[n - 1])
  <2> SUFFICES ASSUME NEW n \in 1 .. N PROVE h[n] = Next1(h[n - 1]) OBVIOUS
  <2>1. n \in 0 .. Len(Urls) /\ n # 0 BY <1>1
  <2> HIDE DEF X, N
  <2> QED BY <1>11, <2>1
<1>14. \A n \in 1 .. N : h[n - 1] \in X => h[n] \in X
  <2> HIDE DEF X, Next1, N
  <2> QED BY <1>3, <1>13
<1> HIDE DEF X, N
<1>15. h[0] \in X BY <1>2, <1>12, Zenon
<1>16. \A n \in 0 .. N : h[n] \in X BY <1>1, <1>14, <1>15, StepsKeep
<1> QED BY <1>1, <1>10, <1>16 DEF X, N, loader!Dependencies

\* What detect knows of the first n entries: the module of a stale one is accepted, and
\* one whose module has changed is stale, unless the module needs a restart.
FoundAmong(c, n) ==
    {d \in [stale : Seq(loader!EntryIds), accepted : SUBSET loader!Modules] :
        /\ loader!Classify(c).accepted \subseteq d.accepted
        /\ \A k \in 1 .. Len(d.stale) : UrlOf[d.stale[k]] \in d.accepted
        /\ \A i \in 1 .. n : UrlOf[Ids[i]] \in c.stashed \ c.externals =>
              \E k \in 1 .. Len(d.stale) : d.stale[k] = Ids[i]}

LEMMA ExaminedWell ==
    ASSUME KernelAssumption, NEW c \in Cycles, NEW n \in 1 .. Len(Ids),
           NEW d \in FoundAmong(c, n - 1)
    PROVE  loader!Examine(d, Ids[n],
                          loader!Dependencies(c.imports, UrlOf[Ids[n]], loader!Classify(c).declined))
             \in FoundAmong(c, n)
<1> DEFINE id == Ids[n]
           declined == loader!Classify(c).declined
           tree == loader!Dependencies(c.imports, UrlOf[id], declined)
<1>1. id \in loader!EntryIds /\ UrlOf[id] \in loader!Modules /\ n \in Nat BY CycleShape
<1>2. tree \in Rooted(UrlOf[id], declined) BY <1>1, DependenciesAreRooted
<1>3. /\ tree \in SUBSET loader!Modules /\ (UrlOf[id] \notin declined => UrlOf[id] \in tree)
      /\ (UrlOf[id] \in declined => tree = {})
  BY <1>2 DEF Rooted
<1>4. /\ c.stashed \subseteq loader!Classify(c).accepted
      /\ declined \cap c.stashed \subseteq c.externals
  BY Classified
<1> HIDE DEF tree, declined
<1>5. /\ d.stale \in Seq(loader!EntryIds) /\ d.accepted \in SUBSET loader!Modules
      /\ d = [stale |-> d.stale, accepted |-> d.accepted]
      /\ loader!Classify(c).accepted \subseteq d.accepted
      /\ \A k \in 1 .. Len(d.stale) : UrlOf[d.stale[k]] \in d.accepted
      /\ \A i \in 1 .. n - 1 : UrlOf[Ids[i]] \in c.stashed \ c.externals =>
            \E k \in 1 .. Len(d.stale) : d.stale[k] = Ids[i]
  BY DEF FoundAmong
<1>6. CASE tree \cap d.accepted = {}
  <2>1. loader!Examine(d, id, tree) = d BY <1>6 DEF loader!Examine
  <2>2. UrlOf[id] \notin c.stashed \ c.externals BY <1>3, <1>4, <1>5, <1>6
  <2>3. \A i \in 1 .. n : i \in 1 .. n - 1 \/ i = n BY <1>1
  <2>4. d \in FoundAmong(c, n) BY <1>5, <2>2, <2>3 DEF FoundAmong
  <2> QED BY <2>1, <2>4 DEF tree, declined
<1>7. CASE tree \cap d.accepted # {}
  <2> DEFINE s == Append(d.stale, id)
             a == d.accepted \cup tree
  <2>1. loader!Examine(d, id, tree) = [stale |-> s, accepted |-> a] BY <1>7 DEF loader!Examine
  <2>2. /\ s \in Seq(loader!EntryIds) /\ Len(s) = Len(d.stale) + 1 /\ Len(d.stale) \in Nat
        /\ s[Len(s)] = id /\ \A k \in 1 .. Len(d.stale) : s[k] = d.stale[k]
    BY <1>1, <1>5
  <2>3. UrlOf[id] \in a BY <1>3, <1>7
  <2> HIDE DEF s
  <2>4. \A k \in 1 .. Len(s) : UrlOf[s[k]] \in a BY <1>5, <2>2, <2>3
  <2>5. ASSUME NEW i \in 1 .. n, UrlOf[Ids[i]] \in c.stashed \ c.externals
        PROVE  \E k \in 1 .. Len(s) : s[k] = Ids[i]
    <3>1. CASE i = n BY <2>2, <3>1
    <3>2. CASE i # n
      <4>1. i \in 1 .. n - 1 BY <1>1, <3>2
      <4>2. PICK k \in 1 .. Len(d.stale) : d.stale[k] = Ids[i] BY <1>5, <2>5, <4>1
      <4> QED BY <2>2, <4>2
    <3> QED BY <3>1, <3>2
  <2>6. a \in SUBSET loader!Modules /\ loader!Classify(c).accepted \subseteq a BY <1>3, <1>5
  <2> HIDE DEF a
  <2>7. [stale |-> s, accepted |-> a] \in FoundAmong(c, n)
    BY <2>2, <2>4, <2>5, <2>6 DEF FoundAmong
  <2> QED BY <2>1, <2>7 DEF tree, declined
<1> QED BY <1>6, <1>7

LEMMA DetectFinds ==
    ASSUME KernelAssumption, NEW c \in Cycles
    PROVE  loader!Detect(c) \in FoundAmong(c, Len(Ids))
<1> DEFINE N == Len(Ids)
           class == loader!Classify(c)
           first == [stale |-> <<>>, accepted |-> class.accepted]
           D == [stale : Seq(loader!EntryIds), accepted : SUBSET loader!Modules]
           Next1(s, n) == loader!Examine(s, Ids[n],
                              loader!Dependencies(c.imports, UrlOf[Ids[n]], class.declined))
           G == [n \in 1 .. N |-> [s \in D |-> Next1(s, n)]]
           Is(f) == f = [n \in 0 .. Len(Ids) |->
                           IF n = 0 THEN [stale |-> <<>>, accepted |-> class.accepted]
                           ELSE loader!Examine(f[n - 1], Ids[n],
                              loader!Dependencies(c.imports, UrlOf[Ids[n]], class.declined))]
<1>1. N \in Nat /\ N \in 0 .. N BY CycleShape
<1>2. first \in D /\ first \in FoundAmong(c, 0) BY Classified DEF FoundAmong
<1>3. \A n \in 1 .. N : \A s \in D : Next1(s, n) \in D
  <2> SUFFICES ASSUME NEW n \in 1 .. N, NEW s \in D PROVE Next1(s, n) \in D OBVIOUS
  <2> DEFINE id == Ids[n]
             tree == loader!Dependencies(c.imports, UrlOf[id], class.declined)
  <2>1. id \in loader!EntryIds /\ UrlOf[id] \in loader!Modules BY CycleShape
  <2>2. tree \in Rooted(UrlOf[id], class.declined) BY <2>1, DependenciesAreRooted
  <2> HIDE DEF tree
  <2>3. tree \in SUBSET loader!Modules BY <2>2 DEF Rooted
  <2>4. loader!Examine(s, id, tree) \in D BY <2>1, <2>3 DEF loader!Examine
  <2> QED BY <2>4 DEF tree
<1>4. G \in Steps(D, N)
  <2> HIDE DEF D, Next1, N
  <2> QED BY <1>3 DEF Steps
<1>5. PICK f \in [0 .. N -> D] : Recurs(f, first, G, N)
  <2> HIDE DEF D, G, N, first
  <2> QED BY <1>1, <1>2, <1>4, Recursion
<1>6. \A n \in 1 .. N : f[n] = Next1(f[n - 1], n)
  <2> HIDE DEF D, Next1, N
  <2> SUFFICES ASSUME NEW n \in 1 .. N PROVE f[n] = Next1(f[n - 1], n) OBVIOUS
  <2>1. n - 1 \in 0 .. N BY <1>1
  <2> QED BY <1>5, <2>1 DEF Recurs
<1>7. Is(f)
  <2> HIDE DEF D, class
  <2> QED BY <1>5, <1>6 DEF Recurs
<1>8. \E h : Is(h) BY <1>7
<1>9. loader!Examined(c.imports, class) = CHOOSE h : Is(h) BY Zenon DEF loader!Examined
<1>10. PICK h : h = loader!Examined(c.imports, class)
  OBVIOUS
<1>11. Is(h)
  <2> HIDE DEF Is
  <2> QED BY <1>8, <1>9, <1>10
<1>12. h[0] = first
  <2> HIDE DEF class
  <2> QED BY <1>1, <1>11
<1>13. ASSUME NEW n \in 1 .. N PROVE h[n] = Next1(h[n - 1], n)
  <2>1. n \in 0 .. Len(Ids) /\ n # 0 BY <1>1
  <2> HIDE DEF N, class
  <2> QED BY <1>11, <2>1
<1> DEFINE S == {n \in 0 .. N : h[n] \in FoundAmong(c, n)}
<1>14. 0 \in S BY <1>1, <1>2, <1>12
<1>15. ASSUME NEW n \in 1 .. N, n - 1 \in S PROVE n \in S
  <2>1. h[n - 1] \in FoundAmong(c, n - 1) /\ n \in 1 .. Len(Ids) BY <1>15
  <2>2. Next1(h[n - 1], n) \in FoundAmong(c, n) BY <2>1, ExaminedWell
  <2> HIDE DEF Next1
  <2> QED BY <1>13, <2>2
<1> HIDE DEF Next1
<1>16. S \in SUBSET (0 .. N) OBVIOUS
<1> HIDE DEF S, N
<1>17. S = 0 .. N BY <1>1, <1>14, <1>15, <1>16, SetInduction
<1>18. h[N] \in FoundAmong(c, N) BY <1>1, <1>17 DEF S
<1> QED BY <1>10, <1>18 DEF N, loader!Detect

-----------------------------------------------------------------------------
\* A reload under way: what it is based on was found by detect; the entries it has been
\* through run what it gives them, all others, in a swap, what they ran before.
Reloading ==
    /\ reload.cycle \in Cycles /\ reload.at \in Nat \ {0}
    /\ reload.cycle.fail \cup (reload.cycle.externals \cap reload.cycle.stashed) \subseteq excused
    /\ \E d \in FoundAmong(reload.cycle, Len(Ids)) :
          reload.stale = d.stale /\ reload.backup = [u \in d.accepted |-> current[u]]

RunsCurrent(id) == UrlOf[id] \in excused \/ fibers[id] = current[UrlOf[id]]

RunsNext(id) ==
    fibers[id] = loader!NextSource(UrlOf[id]) /\ loader!NextSource(UrlOf[id]) \notin Broken

Among(id, n) == \E k \in 1 .. n : k \in 1 .. Len(reload.stale) /\ reload.stale[k] = id

LoaderInv ==
    /\ current \in [loader!Modules -> Versions]
    /\ fibers \in [loader!EntryIds -> Versions \cup {None}]
    /\ reload.pc \in {"idle", "swap", "restore"}
    /\ reload = [pc |-> reload.pc, cycle |-> reload.cycle, stale |-> reload.stale,
                 at |-> reload.at, backup |-> reload.backup]
    /\ \A id \in loader!EntryIds : UrlOf[id] \in excused \/ current[UrlOf[id]] \notin Broken
    /\ reload.pc # "idle" => Reloading
    /\ \A id \in loader!EntryIds :
          CASE reload.pc = "idle" -> RunsCurrent(id)
            [] reload.pc = "swap" ->
                  IF Among(id, reload.at - 1) THEN RunsNext(id) ELSE RunsCurrent(id)
            [] reload.pc = "restore" ->
                  (Among(id, Len(reload.stale)) /\ ~Among(id, reload.at - 1)) \/ RunsCurrent(id)

LEMMA LoaderInitially == KernelAssumption /\ loader!LoaderInit => LoaderInv
<1> SUFFICES ASSUME KernelAssumption, loader!LoaderInit PROVE LoaderInv OBVIOUS
<1>1. /\ Broken \subseteq Versions /\ First \in Versions \ Broken
      /\ UrlOf \in [loader!EntryIds -> loader!Modules]
  BY DEF KernelAssumption, loader!ComponentLoaderAssumption
<1>2. /\ current = [u \in loader!Modules |-> First]
      /\ fibers = [id \in loader!EntryIds |-> current[UrlOf[id]]]
      /\ reload.pc = "idle"
      /\ reload = [pc |-> reload.pc, cycle |-> reload.cycle, stale |-> reload.stale,
                   at |-> reload.at, backup |-> reload.backup]
  BY DEF loader!LoaderInit, loader!Idle
<1> QED BY <1>1, <1>2 DEF LoaderInv, RunsCurrent

\* What a reload knows of its stale entries.
LEMMA StaleOnes ==
    ASSUME KernelAssumption, LoaderInv, Reloading
    PROVE  /\ reload.cycle \in Cycles /\ reload.at \in Nat \ {0} /\ Len(reload.stale) \in Nat
           /\ reload.stale \in Seq(loader!EntryIds)
           /\ \A k \in 1 .. Len(reload.stale) :
                 /\ reload.stale[k] \in loader!EntryIds
                 /\ UrlOf[reload.stale[k]] \in loader!Modules
                 /\ UrlOf[reload.stale[k]] \in DOMAIN reload.backup
                 /\ reload.backup[UrlOf[reload.stale[k]]] = current[UrlOf[reload.stale[k]]]
           /\ \A u \in loader!Modules : loader!NextSource(u) \in Versions
           /\ \A id \in loader!EntryIds :
                 UrlOf[id] \in reload.cycle.stashed \ reload.cycle.externals
                 => Among(id, Len(reload.stale))
           /\ reload.cycle.fail \cup (reload.cycle.externals \cap reload.cycle.stashed)
                \subseteq excused
<1>1. PICK d \in FoundAmong(reload.cycle, Len(Ids)) :
          reload.stale = d.stale /\ reload.backup = [u \in d.accepted |-> current[u]]
  BY DEF Reloading
<1>2. /\ d.stale \in Seq(loader!EntryIds) /\ d.accepted \in SUBSET loader!Modules
      /\ \A k \in 1 .. Len(d.stale) : UrlOf[d.stale[k]] \in d.accepted
      /\ \A i \in 1 .. Len(Ids) :
            UrlOf[Ids[i]] \in reload.cycle.stashed \ reload.cycle.externals =>
              \E k \in 1 .. Len(d.stale) : d.stale[k] = Ids[i]
  BY DEF FoundAmong
<1>3. reload.cycle \in Cycles /\ reload.at \in Nat \ {0} BY DEF Reloading
<1>4. Len(reload.stale) \in Nat /\ \A k \in 1 .. Len(reload.stale) :
                                      reload.stale[k] \in loader!EntryIds
  BY <1>1, <1>2
<1>5. UrlOf \in [loader!EntryIds -> loader!Modules] /\ reload.cycle.source \in Versions
  BY <1>3, CycleShape
<1>6. \A u \in loader!Modules : loader!NextSource(u) \in Versions
  BY <1>5 DEF LoaderInv, loader!NextSource
<1>7. \A id \in loader!EntryIds : \E i \in 1 .. Len(Ids) : Ids[i] = id
  <2>1. Ids \in Seq(loader!EntryIds) BY <1>3, CycleShape
  <2> QED BY <2>1 DEF loader!EntryIds, loader!ToSet
<1>8. \A id \in loader!EntryIds :
          UrlOf[id] \in reload.cycle.stashed \ reload.cycle.externals
          => Among(id, Len(reload.stale))
  <2> SUFFICES ASSUME NEW id \in loader!EntryIds,
                      UrlOf[id] \in reload.cycle.stashed \ reload.cycle.externals
               PROVE  Among(id, Len(reload.stale))
    OBVIOUS
  <2>1. PICK i \in 1 .. Len(Ids) : Ids[i] = id BY <1>7
  <2>2. PICK k \in 1 .. Len(d.stale) : d.stale[k] = id BY <1>2, <2>1
  <2> QED BY <1>1, <2>2 DEF Among
<1>9. \A k \in 1 .. Len(reload.stale) :
          /\ UrlOf[reload.stale[k]] \in DOMAIN reload.backup
          /\ reload.backup[UrlOf[reload.stale[k]]] = current[UrlOf[reload.stale[k]]]
  BY <1>1, <1>2
<1> QED BY <1>1, <1>2, <1>3, <1>4, <1>5, <1>6, <1>8, <1>9 DEF Reloading

LEMMA StartKeeps ==
    ASSUME KernelAssumption, LoaderInv, NEW c \in Cycles, loader!StartCycle(c)
    PROVE  LoaderInv'
<1> DEFINE d == loader!Detect(c)
<1>1. d \in FoundAmong(c, Len(Ids)) BY DetectFinds
<1> HIDE DEF d
<1>2. /\ reload.pc = "idle" /\ UNCHANGED <<fibers, current>>
      /\ reload' = [pc |-> "swap", cycle |-> c, stale |-> d.stale, at |-> 1,
                    backup |-> [u \in d.accepted |-> current[u]]]
      /\ excused' = excused \cup c.fail \cup (c.externals \cap c.stashed)
  BY DEF loader!StartCycle, d
<1>3. Reloading'
  <2>1. FoundAmong(c, Len(Ids))' = FoundAmong(c, Len(Ids))
    BY DEF FoundAmong
  <2>2. reload'.cycle = c /\ reload'.at = 1 /\ reload'.stale = d.stale
        /\ reload'.backup = [u \in d.accepted |-> current'[u]]
    BY <1>2
  <2> QED BY <1>1, <1>2, <2>1, <2>2 DEF Reloading
<1>4. \A id \in loader!EntryIds : RunsCurrent(id)' /\ ~Among(id, reload.at - 1)'
  <2> SUFFICES ASSUME NEW id \in loader!EntryIds
               PROVE  RunsCurrent(id)' /\ ~Among(id, reload.at - 1)'
    OBVIOUS
  <2>1. RunsCurrent(id) BY <1>2 DEF LoaderInv
  <2>2. reload'.at - 1 = 0 BY <1>2
  <2> QED BY <1>2, <2>1, <2>2 DEF RunsCurrent, Among
<1>5. /\ reload'.pc = "swap"
      /\ reload' = [pc |-> reload'.pc, cycle |-> reload'.cycle, stale |-> reload'.stale,
                    at |-> reload'.at, backup |-> reload'.backup]
  BY <1>2
<1>6. \A id \in loader!EntryIds : UrlOf[id] \in excused' \/ current'[UrlOf[id]] \notin Broken
  BY <1>2 DEF LoaderInv
<1>7. /\ current' \in [loader!Modules -> Versions]
      /\ fibers' \in [loader!EntryIds -> Versions \cup {None}]
  BY <1>2 DEF LoaderInv
<1> QED BY <1>3, <1>4, <1>5, <1>6, <1>7 DEF LoaderInv

\* FoundAmong and NextSource depend on nothing that a swap or a restore changes.
LEMMA StillReloading ==
    ASSUME Reloading, UNCHANGED <<current, excused>>, NEW pc, NEW at \in Nat \ {0},
           reload = [pc |-> reload.pc, cycle |-> reload.cycle, stale |-> reload.stale,
                     at |-> reload.at, backup |-> reload.backup],
           reload' = [reload EXCEPT !.pc = pc, !.at = at]
    PROVE  /\ Reloading' /\ reload'.pc = pc /\ reload'.at = at
           /\ reload'.stale = reload.stale
           /\ reload' = [pc |-> reload'.pc, cycle |-> reload'.cycle, stale |-> reload'.stale,
                         at |-> reload'.at, backup |-> reload'.backup]
           /\ \A u : loader!NextSource(u)' = loader!NextSource(u)
<1>1. FoundAmong(reload.cycle, Len(Ids))' = FoundAmong(reload.cycle, Len(Ids))
  BY DEF FoundAmong
<1>2. reload' = [pc |-> pc, cycle |-> reload.cycle, stale |-> reload.stale,
                 at |-> at, backup |-> reload.backup]
  OBVIOUS
<1>3. /\ reload'.cycle = reload.cycle /\ reload'.stale = reload.stale
      /\ reload'.backup = reload.backup /\ reload'.at = at /\ reload'.pc = pc
  BY <1>2
<1>4. Reloading' BY <1>1, <1>3 DEF Reloading
<1> QED BY <1>2, <1>3, <1>4 DEF loader!NextSource

LEMMA AmongGrows ==
    ASSUME Len(reload.stale) \in Nat, reload.at \in 1 .. Len(reload.stale), NEW id
    PROVE  Among(id, reload.at) <=> (Among(id, reload.at - 1) \/ id = reload.stale[reload.at])
<1>1. \A k : k \in 1 .. reload.at <=> (k \in 1 .. reload.at - 1 \/ k = reload.at) OBVIOUS
<1> QED BY <1>1 DEF Among

LEMMA SwapKeeps ==
    ASSUME KernelAssumption, LoaderInv, loader!Swap
    PROVE  LoaderInv'
<1> DEFINE id0 == reload.stale[reload.at]
           u0 == UrlOf[id0]
           source == loader!NextSource(u0)
<1>1. /\ reload.pc = "swap" /\ reload.at <= Len(reload.stale)
      /\ fibers' = [fibers EXCEPT ![id0] = IF loader!Imports(source) THEN source ELSE None]
      /\ reload' = IF loader!Imports(source) THEN [reload EXCEPT !.at = @ + 1]
                   ELSE [reload EXCEPT !.pc = "restore", !.at = 1]
      /\ UNCHANGED <<current, excused>>
  BY DEF loader!Swap, loader!More, loader!Runs, loader!Url, loader!Stale
<1>2. Reloading BY <1>1 DEF LoaderInv
<1>3. /\ reload.at \in 1 .. Len(reload.stale) /\ Len(reload.stale) \in Nat
      /\ id0 \in loader!EntryIds /\ u0 \in loader!Modules /\ source \in Versions
  BY <1>1, <1>2, StaleOnes
<1>4. /\ fibers' \in [loader!EntryIds -> Versions \cup {None}]
      /\ \A id \in loader!EntryIds \ {id0} : fibers'[id] = fibers[id]
      /\ fibers'[id0] = IF loader!Imports(source) THEN source ELSE None
  BY <1>1, <1>3 DEF LoaderInv
<1>5. \A id \in loader!EntryIds :
          IF Among(id, reload.at - 1) THEN RunsNext(id) ELSE RunsCurrent(id)
  BY <1>1 DEF LoaderInv
<1> HIDE DEF id0
<1>6. CASE loader!Imports(source)
  <2> DEFINE n == reload.at + 1
  <2>0. n \in Nat \ {0} /\ n - 1 = reload.at BY <1>3
  <2>1. reload' = [reload EXCEPT !.pc = "swap", !.at = n] BY <1>1, <1>6 DEF LoaderInv
  <2> HIDE DEF n
  <2>2. /\ Reloading' /\ reload'.pc = "swap" /\ reload'.at = n
        /\ reload'.stale = reload.stale
        /\ reload' = [pc |-> reload'.pc, cycle |-> reload'.cycle, stale |-> reload'.stale,
                      at |-> reload'.at, backup |-> reload'.backup]
        /\ \A u : loader!NextSource(u)' = loader!NextSource(u)
    BY <1>1, <1>2, <2>0, <2>1, StillReloading DEF LoaderInv
  <2>3. ASSUME NEW id \in loader!EntryIds
        PROVE  IF Among(id, reload.at - 1)' THEN RunsNext(id)' ELSE RunsCurrent(id)'
    <3>1. Among(id, reload.at - 1)' <=> (Among(id, reload.at - 1) \/ id = id0)
      <4>1. Among(id, reload.at - 1)' <=> Among(id, reload.at)
        BY <2>0, <2>2 DEF Among
      <4> QED BY <1>3, <4>1, AmongGrows DEF id0
    <3>2. CASE id = id0
      <4>1. fibers'[id] = source /\ source \notin Broken
        BY <1>4, <1>6, <3>2 DEF loader!Imports
      <4>2. RunsNext(id)' BY <2>2, <3>2, <4>1 DEF RunsNext
      <4> QED BY <3>1, <3>2, <4>2
    <3>3. CASE id # id0
      <4>1. fibers'[id] = fibers[id] BY <1>4, <3>3
      <4>2. RunsNext(id) => RunsNext(id)' BY <2>2, <4>1 DEF RunsNext
      <4>3. RunsCurrent(id) => RunsCurrent(id)' BY <1>1, <4>1 DEF RunsCurrent
      <4> QED BY <1>5, <3>1, <3>3, <4>2, <4>3
    <3> QED BY <3>2, <3>3
  <2> QED BY <1>1, <1>4, <2>2, <2>3 DEF LoaderInv
<1>7. CASE ~loader!Imports(source)
  <2> DEFINE n == 1
  <2>0. n \in Nat \ {0} /\ n = 1 OBVIOUS
  <2>1. reload' = [reload EXCEPT !.pc = "restore", !.at = n] BY <1>1, <1>7
  <2> HIDE DEF n
  <2>2. /\ Reloading' /\ reload'.pc = "restore" /\ reload'.at = n
        /\ reload'.stale = reload.stale
        /\ reload' = [pc |-> reload'.pc, cycle |-> reload'.cycle, stale |-> reload'.stale,
                      at |-> reload'.at, backup |-> reload'.backup]
    BY <1>1, <1>2, <2>0, <2>1, StillReloading DEF LoaderInv
  <2>3. ASSUME NEW id \in loader!EntryIds
        PROVE  (Among(id, Len(reload.stale))' /\ ~Among(id, reload.at - 1)') \/ RunsCurrent(id)'
    <3>1. ~Among(id, reload.at - 1)' BY <2>0, <2>2 DEF Among
    <3>2. CASE Among(id, Len(reload.stale))
      <4>1. Among(id, Len(reload.stale))' BY <2>2, <3>2 DEF Among
      <4> QED BY <3>1, <4>1
    <3>3. CASE ~Among(id, Len(reload.stale))
      <4>1. id # id0 /\ ~Among(id, reload.at - 1)
        BY <1>3, <3>3 DEF Among, id0
      <4>2. RunsCurrent(id) /\ fibers'[id] = fibers[id] BY <1>4, <1>5, <4>1
      <4> QED BY <1>1, <4>2 DEF RunsCurrent
    <3> QED BY <3>2, <3>3
  <2> QED BY <1>1, <1>4, <2>2, <2>3 DEF LoaderInv
<1> QED BY <1>6, <1>7

LEMMA RestoreKeeps ==
    ASSUME KernelAssumption, LoaderInv, loader!Restore
    PROVE  LoaderInv'
<1> DEFINE id0 == reload.stale[reload.at]
           u0 == UrlOf[id0]
           n == reload.at + 1
<1>1. /\ reload.pc = "restore" /\ reload.at <= Len(reload.stale)
      /\ fibers' = [fibers EXCEPT ![id0] = IF loader!Imports(reload.backup[u0])
                                           THEN reload.backup[u0] ELSE None]
      /\ reload' = [reload EXCEPT !.at = @ + 1]
      /\ UNCHANGED <<current, excused>>
  BY DEF loader!Restore, loader!More, loader!Runs, loader!Url, loader!Stale
<1>2. Reloading BY <1>1 DEF LoaderInv
<1>3. /\ reload.at \in 1 .. Len(reload.stale) /\ Len(reload.stale) \in Nat
      /\ id0 \in loader!EntryIds /\ u0 \in loader!Modules
      /\ reload.backup[u0] = current[u0] /\ current[u0] \in Versions
      /\ reload.cycle.fail \subseteq excused
      /\ n \in Nat \ {0} /\ n - 1 = reload.at
  BY <1>1, <1>2, StaleOnes DEF LoaderInv
<1>4. /\ fibers' \in [loader!EntryIds -> Versions \cup {None}]
      /\ \A id \in loader!EntryIds \ {id0} : fibers'[id] = fibers[id]
      /\ fibers'[id0] = IF loader!Imports(current[u0]) THEN current[u0] ELSE None
  BY <1>1, <1>3 DEF LoaderInv
<1>5. loader!Imports(current[u0]) \/ u0 \in excused
  BY <1>3 DEF LoaderInv, loader!Imports, loader!Url, loader!Stale
<1>6. \A id \in loader!EntryIds :
          (Among(id, Len(reload.stale)) /\ ~Among(id, reload.at - 1)) \/ RunsCurrent(id)
  BY <1>1 DEF LoaderInv
<1>7. reload' = [reload EXCEPT !.pc = "restore", !.at = n] BY <1>1 DEF LoaderInv
<1> HIDE DEF n
<1>8. /\ Reloading' /\ reload'.pc = "restore" /\ reload'.at = n
      /\ reload'.stale = reload.stale
      /\ reload' = [pc |-> reload'.pc, cycle |-> reload'.cycle, stale |-> reload'.stale,
                    at |-> reload'.at, backup |-> reload'.backup]
  BY <1>1, <1>2, <1>3, <1>7, StillReloading DEF LoaderInv
<1> HIDE DEF id0
<1>9. ASSUME NEW id \in loader!EntryIds
      PROVE  (Among(id, Len(reload.stale))' /\ ~Among(id, reload.at - 1)') \/ RunsCurrent(id)'
  <2>1. Among(id, reload.at - 1)' <=> (Among(id, reload.at - 1) \/ id = id0)
    <3>1. Among(id, reload.at - 1)' <=> Among(id, reload.at)
      BY <1>3, <1>8 DEF Among
    <3> QED BY <1>3, <3>1, AmongGrows DEF id0
  <2>2. Among(id, Len(reload.stale))' <=> Among(id, Len(reload.stale))
    BY <1>8 DEF Among
  <2>3. CASE id = id0 BY <1>1, <1>4, <1>5, <2>3 DEF RunsCurrent
  <2>4. CASE id # id0
    <3>1. fibers'[id] = fibers[id] BY <1>4, <2>4
    <3>2. RunsCurrent(id) => RunsCurrent(id)' BY <1>1, <3>1 DEF RunsCurrent
    <3> QED BY <1>6, <2>1, <2>2, <2>4, <3>2
  <2> QED BY <2>3, <2>4
<1> QED BY <1>1, <1>4, <1>8, <1>9 DEF LoaderInv

LEMMA FinishKeeps ==
    ASSUME KernelAssumption, LoaderInv, loader!Finish
    PROVE  LoaderInv'
<1>1. /\ reload.pc \in {"swap", "restore"} /\ ~(reload.at <= Len(reload.stale))
      /\ current' = IF reload.pc = "swap"
                    THEN [u \in loader!Modules |-> IF u \in DOMAIN reload.backup
                                                   THEN loader!NextSource(u) ELSE current[u]]
                    ELSE current
      /\ reload' = loader!Idle
      /\ UNCHANGED <<fibers, excused>>
  BY DEF loader!Finish, loader!More
<1>2. Reloading BY <1>1 DEF LoaderInv
<1>3. \A id : Among(id, Len(reload.stale)) => Among(id, reload.at - 1)
  <2>1. Len(reload.stale) \in Nat /\ reload.at \in Nat BY <1>2, StaleOnes
  <2> QED BY <1>1, <2>1 DEF Among
<1>4. reload'.pc = "idle"
      /\ reload' = [pc |-> reload'.pc, cycle |-> reload'.cycle, stale |-> reload'.stale,
                    at |-> reload'.at, backup |-> reload'.backup]
  BY <1>1 DEF loader!Idle
<1>5. current' \in [loader!Modules -> Versions]
  BY <1>1, <1>2, StaleOnes DEF LoaderInv
<1>6. ASSUME NEW id \in loader!EntryIds
      PROVE  /\ UrlOf[id] \in excused' \/ current'[UrlOf[id]] \notin Broken
             /\ RunsCurrent(id)'
  <2> DEFINE u == UrlOf[id]
  <2>0. u \in loader!Modules BY <1>2, CycleShape DEF Reloading
  <2>1. u \in excused \/ current[u] \notin Broken BY DEF LoaderInv
  <2>2. CASE reload.pc = "restore"
    <3>1. RunsCurrent(id) BY <1>3, <2>2 DEF LoaderInv
    <3> QED BY <1>1, <2>1, <2>2, <3>1 DEF RunsCurrent
  <2>3. CASE reload.pc = "swap"
    <3>1. IF Among(id, reload.at - 1) THEN RunsNext(id) ELSE RunsCurrent(id)
      BY <2>3 DEF LoaderInv
    <3>2. current'[u] = IF u \in DOMAIN reload.backup THEN loader!NextSource(u) ELSE current[u]
      BY <1>1, <2>0, <2>3
    <3>3. CASE Among(id, reload.at - 1)
      <4>1. PICK k \in 1 .. Len(reload.stale) : reload.stale[k] = id BY <3>3 DEF Among
      <4>2. u \in DOMAIN reload.backup BY <1>2, <4>1, StaleOnes
      <4> QED BY <1>1, <3>1, <3>2, <3>3, <4>2 DEF RunsNext, RunsCurrent
    <3>4. CASE ~Among(id, reload.at - 1)
      <4>1. u \in excused \/ u \notin reload.cycle.stashed
        BY <1>2, <1>3, <3>4, StaleOnes
      <4>2. u \in excused \/ current'[u] = current[u]
        BY <3>2, <4>1 DEF loader!NextSource
      <4> QED BY <1>1, <2>1, <3>1, <3>4, <4>2 DEF RunsCurrent
    <3> QED BY <3>3, <3>4
  <2> QED BY <1>1, <2>2, <2>3
<1>7. fibers' \in [loader!EntryIds -> Versions \cup {None}] BY <1>1 DEF LoaderInv
<1> QED BY <1>4, <1>5, <1>6, <1>7 DEF LoaderInv

LEMMA LoaderUndisturbed ==
    ASSUME LoaderInv, UNCHANGED <<fibers, current, reload, excused>>
    PROVE  LoaderInv'
<1>1. reload.pc # "idle" => Reloading'
  <2>1. FoundAmong(reload.cycle, Len(Ids))' = FoundAmong(reload.cycle, Len(Ids))
    BY DEF FoundAmong
  <2> QED BY <2>1 DEF LoaderInv, Reloading
<1> QED BY <1>1 DEF LoaderInv, RunsCurrent, RunsNext, Among, loader!NextSource

LEMMA LoaderStep ==
    KernelAssumption /\ LoaderInv /\ [loader!Loading]_loaderVars => LoaderInv'
<1>1. ASSUME NEW l, loader!Reconcile(l) PROVE UNCHANGED <<fibers, current, reload, excused>>
  BY <1>1 DEF loader!Reconcile
<1>2. ASSUME UNCHANGED loaderVars PROVE UNCHANGED <<fibers, current, reload, excused>>
  BY <1>2 DEF loaderVars
<1> QED BY <1>1, <1>2, StartKeeps, SwapKeeps, RestoreKeeps, FinishKeeps, LoaderUndisturbed
        DEF loader!Loading

\* Between reloads, committed or rolled back, each entry runs the source its module has,
\* except for modules that only a restart replaces and urls that cannot be imported at all:
\* reload (component_loader.rs) restores every stale entry, and detect has found them all.
THEOREM NothingStaysHalfReloaded ==
    ASSUME KernelAssumption PROVE KernelSpec => []NeverHalfReloaded
<1>1. KernelInit => LoaderInv BY LoaderInitially DEF KernelInit
<1>2. LoaderInv /\ [Dispatch \/ Load \/ Follow]_all => LoaderInv' BY LoaderStep, Parts
<1>3. LoaderInv => NeverHalfReloaded
  BY DEF LoaderInv, RunsCurrent, NeverHalfReloaded, loader!NeverHalfReloaded
<1> QED BY <1>1, <1>2, <1>3, PTL DEF KernelSpec
=============================================================================
