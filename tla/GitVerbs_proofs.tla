---------------------------- MODULE GitVerbs_proofs ----------------------------
(***************************************************************************)
(* Replay, for any number of callers, calls and kills: a git call is       *)
(* executed once, and the terminal answer comes from exactly the run that  *)
(* was.  The strengthening says of each place a dispatch can be at where   *)
(* the results of the run are: in the dispatch, in the plan, or all but    *)
(* the last in the plan and the last in the outbox or still with the host. *)
(* A dispatch that was killed at the wrong moment leaves its caller with a *)
(* token whose result is gone for good; then only a call that is still     *)
(* with the host can be added to the run, and no poll takes it.            *)
(*                                                                         *)
(* Delivery, for any edits, clones, retries and mishaps: no commit is      *)
(* lost, and what is answered as pushed is on origin.  What a dispatch     *)
(* committed is in HEAD until it is pushed and on origin from then on; a   *)
(* rebase that stopped half-way has put away the HEAD it is aborted to;    *)
(* and what a clone knows of origin is a prefix of what origin has.        *)
(***************************************************************************)
EXTENDS GitVerbs, SequenceTheorems, WellFoundedInduction, TLAPS

-----------------------------------------------------------------------------
(* Replay *)

\* A run of the verb up to some call, and one that makes another call.
Partial(s) ==
    /\ s \in Runs
    /\ \A i \in 1 .. Len(s) - 1 : ~Ended(SubSeq(s, 1, i))
Extensible(s) == Partial(s) /\ ~Ended(s)

Own(c) == {t \in Tokens : t[1] = c}

\* None of the caller's calls is with the host or in the outbox.
Quiet(c) == \A t \in Own(c) : t \notin driving /\ outbox[t] = None

\* Only call t of the caller is out, made after the results in base.
Out(c, base, t) ==
    /\ t \in Own(c) /\ t[2] = Len(base) + 1
    /\ Extensible(base)
    /\ \A u \in Own(c) \ {t} : u \notin driving /\ outbox[u] = None
    /\ \/ t \in driving /\ outbox[t] = None /\ ran[c] = base
       \/ t \notin driving /\ outbox[t] \in Results /\ ran[c] = Append(base, outbox[t])

\* The result the caller polls for has been taken out of the outbox.
Lost(c) ==
    /\ Polled(c) \notin driving /\ outbox[Polled(c)] = None
    /\ Partial(ran[c])
    /\ \A t \in Own(c) \cap driving : ~Ended(ran[c])
    /\ \A t, u \in Own(c) \cap driving : t = u

ToldUpTo(c, n) == \A i \in DOMAIN told[c] : told[c][i][2] <= n

Told(c) == told[c] \in Seq(Own(c))

AtNew(c) == Quiet(c) /\ ran[c] = <<>> /\ told[c] = <<>> /\ job[c].results = <<>>
AtRun(c) == Quiet(c) /\ Partial(ran[c]) /\ job[c].results = ran[c] /\ ToldUpTo(c, Len(ran[c]))
AtPersist(c) == Out(c, job[c].results, job[c].token) /\ ToldUpTo(c, Len(job[c].results))
AtMap(c) == AtPersist(c) /\ plans[c] = job[c].results
Live(c) ==
    /\ Out(c, plans[c], Polled(c))
    /\ plans[c] # None /\ toks[Polled(c)] = c
    /\ ToldUpTo(c, Len(plans[c]) + 1)
AtTake(c) ==
    /\ Live(c)
    /\ job[c].token = Polled(c)
    /\ job[c].raw = outbox[Polled(c)] /\ job[c].raw \in Results
Taken(c) ==
    /\ Quiet(c)
    /\ plans[c] # None /\ Extensible(plans[c])
    /\ job[c].raw \in Results
    /\ ran[c] = Append(plans[c], job[c].raw)
    /\ ToldUpTo(c, Len(ran[c]))
AtOver(c) == Quiet(c) /\ Partial(ran[c]) /\ Ended(ran[c]) /\ answered[c] = ran[c]

Where(c) ==
    /\ Told(c)
    /\ job[c].pc # "over" => answered[c] = None
    /\ job[c].pc \notin {"new", "run", "persist", "map", "over"} => told[c] # <<>>
    /\ job[c].pc = "new" => AtNew(c)
    /\ job[c].pc \in {"run", "store"} => AtRun(c)
    /\ job[c].pc = "persist" => AtPersist(c)
    /\ job[c].pc = "map" => AtMap(c)
    /\ job[c].pc = "idle" => Live(c) \/ Lost(c)
    /\ job[c].pc = "take" => AtTake(c)
    /\ job[c].pc = "lookup" =>
           Taken(c) /\ job[c].token \in Own(c) /\ toks[job[c].token] = c
    /\ job[c].pc = "unmap" => Taken(c) /\ job[c].token \in Own(c)
    /\ job[c].pc = "load" => Taken(c)
    /\ job[c].pc = "over" => AtOver(c)

IInv == TypeOK /\ \A c \in Callers : Where(c)
-----------------------------------------------------------------------------
(* Runs *)

LEMMA RunsAreSeqs == \A s : s \in Runs <=> s \in Seq(Results) /\ Len(s) <= Length
<1>1. Length \in Nat BY GitAsyncAssumption
<1>2. ASSUME NEW s, s \in Runs PROVE s \in Seq(Results) /\ Len(s) <= Length
  <2>1. PICK m \in 0 .. Length : s \in [1 .. m -> Results]
    BY <1>2 DEF Runs, BoundedSeq, SeqOf
  <2>2. Len(s) = m BY <2>1, <1>1
  <2> QED BY <2>1, <2>2, <1>1
<1>3. ASSUME NEW s \in Seq(Results), Len(s) <= Length PROVE s \in Runs
  <2>1. s \in [1 .. Len(s) -> Results] /\ Len(s) \in 0 .. Length BY <1>1, <1>3
  <2> QED BY <2>1 DEF Runs, BoundedSeq, SeqOf
<1> QED BY <1>2, <1>3

LEMMA EmptyRun == Partial(<<>>)
<1>1. <<>> \in Seq(Results) /\ Len(<<>>) = 0 /\ 0 <= Length BY GitAsyncAssumption
<1>2. <<>> \in Runs BY <1>1, RunsAreSeqs, Zenon
<1> QED BY <1>1, <1>2 DEF Partial

\* Another call makes a longer run.
LEMMA Extended ==
    ASSUME NEW s, Extensible(s), NEW r \in Results
    PROVE  Partial(Append(s, r)) /\ Len(Append(s, r)) = Len(s) + 1 /\ Len(s) + 1 \in 1 .. Length
<1>1. s \in Seq(Results) /\ Len(s) <= Length BY RunsAreSeqs DEF Extensible, Partial
<1>2. Len(s) + 1 \in 1 .. Length
  BY <1>1, GitAsyncAssumption DEF Extensible, Ended
<1> DEFINE a == Append(s, r)
<1>3. a \in Seq(Results) /\ Len(a) = Len(s) + 1 BY <1>1
<1>4. a \in Runs
  <2>1. Len(a) <= Length BY <1>2, <1>3
  <2> QED BY <1>3, <2>1, RunsAreSeqs, Zenon
<1>5. ASSUME NEW i \in 1 .. Len(a) - 1 PROVE ~Ended(SubSeq(a, 1, i))
  <2>1. SubSeq(a, 1, i) = SubSeq(s, 1, i) BY <1>1, <1>3
  <2>2. CASE i = Len(s)
    <3>1. SubSeq(s, 1, i) = s BY <1>1, <2>2
    <3> QED BY <2>1, <3>1 DEF Extensible
  <2>3. CASE i # Len(s)
    <3>1. i \in 1 .. Len(s) - 1 BY <1>1, <1>3, <2>3
    <3> QED BY <2>1, <3>1 DEF Extensible, Partial
  <2> QED BY <2>2, <2>3
<1> QED BY <1>2, <1>3, <1>4, <1>5 DEF Partial

-----------------------------------------------------------------------------
(* What a caller can be at *)

LEMMA OutRun ==
    ASSUME NEW c \in Callers, NEW base, NEW t, Out(c, base, t)
    PROVE  /\ Partial(ran[c])
           /\ t \in driving => ~Ended(ran[c])
           /\ Len(ran[c]) \in {Len(base), Len(base) + 1}
<1>1. CASE t \in driving /\ ran[c] = base BY <1>1 DEF Out, Extensible
<1>2. CASE t \notin driving /\ outbox[t] \in Results /\ ran[c] = Append(base, outbox[t])
  BY <1>2, Extended DEF Out
<1> QED BY <1>1, <1>2 DEF Out

LEMMA RunsPartial ==
    ASSUME NEW c \in Callers, Where(c), TypeOK
    PROVE  Partial(ran[c])
<1>1. CASE job[c].pc = "new" BY <1>1, EmptyRun DEF Where, AtNew
<1>2. CASE job[c].pc \in {"run", "store"} BY <1>2 DEF Where, AtRun
<1>3. CASE job[c].pc \in {"persist", "map"} BY <1>3, OutRun DEF Where, AtMap, AtPersist
<1>4. CASE job[c].pc \in {"idle", "take"} BY <1>4, OutRun DEF Where, AtTake, Live, Lost
<1>5. CASE job[c].pc \in {"lookup", "unmap", "load"} BY <1>5, Extended DEF Where, Taken
<1>6. CASE job[c].pc = "over" BY <1>6 DEF Where, AtOver
<1> QED BY <1>1, <1>2, <1>3, <1>4, <1>5, <1>6 DEF TypeOK, Jobs

\* The token that is polled is one the caller was given.
LEMMA Ends ==
    ASSUME NEW S, NEW s \in Seq(S), s # <<>>
    PROVE  Head(s) \in S /\ Last(s) \in S
<1>1. Len(s) \in Nat \ {0} OBVIOUS
<1>2. Last(s) = s[Len(s)] BY DEF Last
<1> QED BY <1>1, <1>2

LEMMA PolledIsOwn ==
    ASSUME NEW c \in Callers, Told(c), told[c] # <<>>
    PROVE  Polled(c) \in Own(c)
  BY Ends DEF Polled, Told

\* A dispatch that is killed while nothing, or another call than the polled
\* one, is out.
LEMMA KilledQuiet ==
    ASSUME NEW c \in Callers, Quiet(c), Partial(ran[c]), Told(c), told[c] # <<>>
    PROVE  Lost(c)
  BY PolledIsOwn DEF Quiet, Lost

LEMMA OutElsewhere ==
    ASSUME NEW c \in Callers, NEW base, NEW t, Out(c, base, t),
           Told(c), told[c] # <<>>, Polled(c) # t
    PROVE  Lost(c)
<1>1. Polled(c) \in Own(c) \ {t} BY PolledIsOwn
<1>2. Polled(c) \notin driving /\ outbox[Polled(c)] = None BY <1>1 DEF Out
<1>3. \A u \in Own(c) \cap driving : u = t BY DEF Out
<1> QED BY <1>2, <1>3, OutRun DEF Lost

\* What another caller does disturbs nothing.
Same(d) ==
    /\ job'[d] = job[d] /\ ran'[d] = ran[d] /\ plans'[d] = plans[d]
    /\ told'[d] = told[d] /\ answered'[d] = answered[d]
    /\ \A t \in Own(d) :
          /\ t \in driving' <=> t \in driving
          /\ outbox'[t] = outbox[t] /\ toks'[t] = toks[t]

LEMMA Undisturbed ==
    ASSUME NEW d \in Callers, Where(d), Same(d)
    PROVE  Where(d)'
<1>1. Polled(d)' = Polled(d) BY DEF Same, Polled
<1>2. Quiet(d) => Quiet(d)' BY DEF Same, Quiet, Own
<1>3. Told(d)' /\ \A n : ToldUpTo(d, n) => \A i \in DOMAIN told'[d] : told'[d][i][2] <= n
  BY DEF Same, Where, Told, ToldUpTo, Own
<1>4. AtNew(d) => AtNew(d)' BY <1>2 DEF Same, AtNew
<1>5. AtRun(d) => AtRun(d)' BY <1>2, <1>3 DEF Same, AtRun, ToldUpTo
<1>6. AtPersist(d) => AtPersist(d)' BY <1>3 DEF Same, AtPersist, Out, ToldUpTo, Own
<1>7. AtMap(d) => AtMap(d)' BY <1>6 DEF Same, AtMap
<1>8. Live(d) => Live(d)' BY <1>1, <1>3 DEF Same, Live, Out, ToldUpTo, Own
<1>9. Lost(d) /\ Polled(d) \in Own(d) => Lost(d)' BY <1>1 DEF Same, Lost, Own
<1>10. AtTake(d) => AtTake(d)' BY <1>1, <1>8 DEF Same, AtTake, Live, Out
<1>11. Taken(d) => Taken(d)' BY <1>2, <1>3 DEF Same, Taken, ToldUpTo
<1>12. AtOver(d) => AtOver(d)' BY <1>2 DEF Same, AtOver
<1>13. told[d] # <<>> => Polled(d) \in Own(d) BY PolledIsOwn DEF Where
<1>14. job[d].token \in Own(d) => /\ job'[d].token \in Own(d)'
                                   /\ toks'[job'[d].token] = toks[job[d].token]
  BY DEF Same, Own
<1> QED
  BY <1>3, <1>4, <1>5, <1>6, <1>7, <1>8, <1>9, <1>10, <1>11, <1>12, <1>13, <1>14 DEF Where, Same

-----------------------------------------------------------------------------
(* Every step keeps the invariant. *)

LEMMA InitIInv == Init => IInv
<1> SUFFICES ASSUME Init PROVE IInv
  OBVIOUS
<1>1. <<>> \in Runs BY EmptyRun DEF Partial
<1>2. TypeOK BY <1>1, GitAsyncAssumption DEF Init, TypeOK, Jobs, Idle
<1>3. ASSUME NEW c \in Callers PROVE Where(c)
  <2>1. Quiet(c) BY DEF Init, Quiet, Own
  <2>2. AtNew(c) BY <2>1 DEF AtNew, Init, Idle
  <2>3. Told(c) BY DEF Init, Told
  <2>4. job[c].pc = "new" /\ answered[c] = None BY DEF Init, Idle
  <2> QED BY <2>2, <2>3, <2>4 DEF Where
<1> QED BY <1>2, <1>3 DEF IInv

LEMMA OfOneCaller ==
    ASSUME IInv, NEW c \in Callers, TypeOK', Where(c)', \A d \in Callers \ {c} : Same(d)
    PROVE  IInv'
  BY Undisturbed DEF IInv

\* One caller's dispatch goes on.
LEMMA NewJob ==
    ASSUME TypeOK, NEW c \in Callers, NEW j \in Jobs, job' = [job EXCEPT ![c] = j]
    PROVE  /\ job' \in [Callers -> Jobs] /\ job'[c] = j
           /\ \A d \in Callers \ {c} : job'[d] = job[d]
  BY DEF TypeOK

LEMMA EnterKeeps ==
    ASSUME IInv, NEW c \in Callers, Enter(c)
    PROVE  IInv'
<1>1. TypeOK' BY DEF IInv, TypeOK, Jobs, Enter, Goto, kv
<1>2. \A d \in Callers \ {c} : Same(d) BY DEF IInv, TypeOK, Enter, Goto, kv, Same
<1>3. job'[c].pc = "run" /\ job'[c].results = job[c].results
  BY DEF IInv, TypeOK, Jobs, Enter, Goto
<1>4. AtNew(c) /\ Told(c) /\ answered[c] = None BY DEF IInv, Where, Enter
<1>5. Told(c)' /\ Quiet(c)' BY <1>4 DEF Enter, kv, Told, AtNew, Quiet, Own
<1>6. AtRun(c)'
  <2>1. ToldUpTo(c, Len(ran[c]))' BY <1>4 DEF AtNew, ToldUpTo, Enter
  <2>2. Partial(ran[c])' BY <1>4, EmptyRun DEF AtNew, Enter
  <2> QED BY <1>3, <1>4, <1>5, <2>1, <2>2 DEF AtRun, AtNew, Enter
<1>7. Where(c)' BY <1>3, <1>4, <1>5, <1>6 DEF Where, Enter
<1> QED BY <1>1, <1>2, <1>7, OfOneCaller

LEMMA StepInlineKeeps ==
    ASSUME IInv, NEW c \in Callers, NEW r \in Results, StepInline(c, r)
    PROVE  IInv'
<1>1. AtRun(c) /\ Told(c) /\ answered[c] = None BY DEF IInv, Where, StepInline
<1>2. Extensible(ran[c]) BY <1>1 DEF AtRun, Extensible, StepInline
<1>3. /\ Partial(Append(ran[c], r))
      /\ Len(Append(ran[c], r)) = Len(ran[c]) + 1 /\ Len(ran[c]) + 1 \in 1 .. Length
  BY <1>2, Extended
<1>4. /\ ran'[c] = Append(ran[c], r) /\ job'[c].results = ran'[c] /\ job'[c].pc = "run"
  BY <1>1 DEF IInv, TypeOK, Jobs, StepInline, AtRun
<1>5. TypeOK'
  <2>1. Append(ran[c], r) \in Runs BY <1>3 DEF Partial
  <2>2. ran' \in [Callers -> Runs] BY <2>1 DEF IInv, TypeOK, StepInline
  <2>3. Append(job[c].results, r) \in Runs BY <1>1, <2>1 DEF AtRun
  <2>4. [job[c] EXCEPT !.results = Append(job[c].results, r)] \in Jobs
    BY <2>3 DEF IInv, TypeOK, Jobs
  <2>5. job' \in [Callers -> Jobs] BY <2>4, NewJob DEF IInv, StepInline
  <2> QED BY <2>2, <2>5 DEF IInv, TypeOK, StepInline, kv
<1>6. \A d \in Callers \ {c} : Same(d) BY DEF IInv, TypeOK, StepInline, kv, Same
<1>7. Told(c)' /\ Quiet(c)' BY <1>1 DEF StepInline, kv, Told, AtRun, Quiet, Own
<1>8. ToldUpTo(c, Len(ran[c]))'
  <2>1. \A i \in DOMAIN told[c] : told[c][i] \in Own(c) BY <1>1 DEF Told
  <2>2. \A t \in Own(c) : t[2] \in Nat BY GitAsyncAssumption DEF Own, Tokens
  <2> QED BY <1>1, <1>3, <1>4, <2>1, <2>2 DEF AtRun, ToldUpTo, StepInline
<1>9. Where(c)' BY <1>1, <1>3, <1>4, <1>7, <1>8 DEF Where, AtRun, StepInline
<1> QED BY <1>5, <1>6, <1>9, OfOneCaller

LEMMA StepParkedKeeps ==
    ASSUME IInv, NEW c \in Callers, StepParked(c)
    PROVE  IInv'
<1>0. PICK t : t = <<c, Len(job[c].results) + 1>>
  OBVIOUS
<1>1. AtRun(c) /\ Told(c) /\ answered[c] = None BY DEF IInv, Where, StepParked
<1>2. Extensible(ran[c]) BY <1>1 DEF AtRun, Extensible, StepParked
<1>3. Len(ran[c]) + 1 \in 1 .. Length
  <2>1. "more" \in Results BY DEF Results
  <2> QED BY <1>2, <2>1, Extended
<1>4. t \in Tokens /\ t[1] = c /\ t[2] = Len(ran[c]) + 1
  BY <1>0, <1>1, <1>3 DEF Tokens, AtRun
<1>5. job'[c].pc = "persist" /\ job'[c].token = t /\ job'[c].results = ran[c]
  BY <1>0, <1>1 DEF IInv, TypeOK, Jobs, StepParked, AtRun
<1>6. TypeOK'
  <2>1. driving' \subseteq Tokens BY <1>0, <1>4 DEF IInv, TypeOK, StepParked
  <2>2. [job[c] EXCEPT !.pc = "persist", !.token = t] \in Jobs
    <3>1. job[c] \in Jobs BY DEF IInv, TypeOK
    <3> QED BY <1>4, <3>1 DEF Jobs
  <2>3. job' = [job EXCEPT ![c] = [@ EXCEPT !.pc = "persist", !.token = t]]
    BY <1>0 DEF IInv, TypeOK, StepParked
  <2>4. job' \in [Callers -> Jobs] BY <2>2, <2>3, NewJob DEF IInv
  <2> QED BY <2>1, <2>4 DEF IInv, TypeOK, StepParked, kv
<1>7. \A d \in Callers \ {c} : Same(d)
  BY <1>0, <1>4 DEF IInv, TypeOK, StepParked, kv, Same, Own
<1>8. Out(c, ran[c], t)'
  <2>1. t \in Own(c) BY <1>4 DEF Own
  <2>2. t \in driving' /\ outbox'[t] = None /\ ran'[c] = ran[c]
    BY <1>0, <1>1, <2>1 DEF StepParked, kv, AtRun, Quiet
  <2>3. \A u \in Own(c) \ {t} : u \notin driving' /\ outbox'[u] = None
    BY <1>0, <1>1 DEF StepParked, kv, AtRun, Quiet, Own
  <2>4. ran'[c] = ran[c] BY DEF StepParked
  <2> QED BY <1>2, <1>4, <2>1, <2>2, <2>3, <2>4 DEF Out, Own
<1>9. AtPersist(c)'
  BY <1>1, <1>5, <1>8 DEF AtPersist, AtRun, ToldUpTo, StepParked, Out
<1>10. Where(c)' BY <1>1, <1>5, <1>9 DEF Where, StepParked, Told, Own
<1> QED BY <1>6, <1>7, <1>10, OfOneCaller

LEMMA PersistPlanKeeps ==
    ASSUME IInv, NEW c \in Callers, PersistPlan(c)
    PROVE  IInv'
<1>1. AtPersist(c) /\ Told(c) /\ answered[c] = None BY DEF IInv, Where, PersistPlan
<1>2. /\ job'[c].pc = "map" /\ job'[c].results = job[c].results /\ job'[c].token = job[c].token
      /\ plans'[c] = job[c].results
  BY DEF IInv, TypeOK, Jobs, PersistPlan, Goto
<1>3. TypeOK'
  <2>1. job[c] \in Jobs BY DEF IInv, TypeOK
  <2>2. job[c].results \in Runs /\ [job[c] EXCEPT !.pc = "map"] \in Jobs BY <2>1 DEF Jobs
  <2>3. job' \in [Callers -> Jobs] BY <2>2, NewJob DEF IInv, PersistPlan, Goto
  <2> QED BY <2>2, <2>3 DEF IInv, TypeOK, PersistPlan
<1>4. \A d \in Callers \ {c} : Same(d) BY DEF IInv, TypeOK, PersistPlan, Goto, Same
<1>5. AtMap(c)'
  BY <1>1, <1>2 DEF AtMap, AtPersist, Out, ToldUpTo, PersistPlan, Own
<1>6. Where(c)' BY <1>1, <1>2, <1>5 DEF Where, PersistPlan, Told, Own
<1> QED BY <1>3, <1>4, <1>6, OfOneCaller

LEMMA MapTokenKeeps ==
    ASSUME IInv, NEW c \in Callers, MapToken(c)
    PROVE  IInv'
<1>0. PICK t : t = job[c].token
  OBVIOUS
<1>1. /\ Told(c) /\ answered[c] = None
      /\ Out(c, plans[c], t) /\ ToldUpTo(c, Len(plans[c])) /\ plans[c] = job[c].results
  BY <1>0 DEF IInv, Where, MapToken, AtMap, AtPersist
<1>2. t \in Own(c) /\ t \in Tokens /\ t[2] = Len(plans[c]) + 1 BY <1>1 DEF Out, Own
<1>3. job'[c] = Idle /\ job' \in [Callers -> Jobs]
  <2>1. Idle \in Jobs BY EmptyRun DEF Idle, Jobs, Partial
  <2> QED BY <2>1, NewJob DEF IInv, MapToken
<1>4. told[c] \in Seq(Own(c)) /\ told'[c] = Append(told[c], t)
  BY <1>0, <1>1 DEF Told, IInv, TypeOK, MapToken
<1>5. told'[c] \in Seq(Own(c)) /\ told'[c] # <<>> BY <1>2, <1>4
<1>6. TypeOK'
  <2>1. told' \in [Callers -> Seq(Tokens)] BY <1>0, <1>2 DEF IInv, TypeOK, MapToken
  <2>2. toks' \in [Tokens -> Callers \cup {None}] BY DEF IInv, TypeOK, MapToken
  <2> QED BY <1>3, <2>1, <2>2 DEF IInv, TypeOK, MapToken
<1>7. \A d \in Callers \ {c} : Same(d)
  BY <1>0, <1>2 DEF IInv, TypeOK, MapToken, Same, Own
<1>8. Told(c)' BY <1>5 DEF Told, Own
<1>9. Out(c, plans[c], t)' BY <1>0, <1>1 DEF Out, MapToken, Own
<1>10. Live(c)' \/ Lost(c)'
  <2>1. CASE Polled(c)' = t
    <3>1. plans[c] # None /\ plans[c]' = plans[c]
      BY <1>1, NoneAssumption DEF Out, Extensible, Partial, MapToken
    <3>2. toks'[t] = c BY <1>0, <1>2 DEF IInv, TypeOK, MapToken
    <3>3. ToldUpTo(c, Len(plans[c]) + 1)'
      <4>1. \A i \in DOMAIN told'[c] : 
           told'[c][i] = t \/ (i \in DOMAIN told[c] /\ told'[c][i] = told[c][i])
        BY <1>4
      <4>2. \A i \in DOMAIN told[c] : told[c][i][2] \in Nat
        BY <1>4, GitAsyncAssumption DEF Own, Tokens
      <4>3. Len(plans[c]) \in Nat
        BY <1>1, RunsAreSeqs DEF Out, Extensible, Partial
      <4> QED BY <1>1, <1>2, <3>1, <4>1, <4>2, <4>3 DEF ToldUpTo
    <3> QED BY <1>9, <2>1, <3>1, <3>2, <3>3 DEF Live
  <2>2. CASE Polled(c)' # t
    <3>1. Polled(c)' \in Own(c) \ {t} BY <1>5, <2>2, Ends DEF Polled
    <3>2. /\ \A u \in Own(c) \ {t} : u \notin driving' /\ outbox'[u] = None
          /\ driving' = driving /\ ran'[c] = ran[c]
      BY <1>1 DEF MapToken, Out
    <3>3. Partial(ran[c]) /\ (t \in driving => ~Ended(ran[c])) BY <1>1, OutRun
    <3> QED BY <3>1, <3>2, <3>3 DEF Lost, Own
  <2> QED BY <2>1, <2>2
<1>11. Where(c)' BY <1>1, <1>3, <1>5, <1>8, <1>10 DEF Where, Idle, MapToken
<1> QED BY <1>6, <1>7, <1>11, OfOneCaller

LEMMA FinishKeeps ==
    ASSUME IInv, NEW c \in Callers, Finish(c)
    PROVE  IInv'
<1>1. AtRun(c) /\ Told(c) BY DEF IInv, Where, Finish
<1>2. [Idle EXCEPT !.pc = "over"] \in Jobs BY EmptyRun DEF Idle, Jobs, Partial
<1>3. job' \in [Callers -> Jobs] /\ job'[c] = [Idle EXCEPT !.pc = "over"]
  BY <1>2, NewJob DEF IInv, Finish
<1>4. TypeOK'
  <2>1. job[c].results \in Runs BY DEF IInv, TypeOK, Jobs
  <2> QED BY <1>3, <2>1 DEF IInv, TypeOK, Finish
<1>5. \A d \in Callers \ {c} : Same(d) BY DEF IInv, TypeOK, Finish, Same
<1>6. answered'[c] = ran[c] BY <1>1 DEF IInv, TypeOK, Finish, AtRun
<1>7. AtOver(c)' BY <1>1, <1>6 DEF AtOver, AtRun, Quiet, Finish, Own
<1>8. Where(c)' BY <1>1, <1>3, <1>7 DEF Where, Finish, Told, Own, Idle
<1> QED BY <1>4, <1>5, <1>8, OfOneCaller

LEMMA PollKeeps ==
    ASSUME IInv, NEW c \in Callers, Poll(c)
    PROVE  IInv'
<1>1. Told(c) /\ answered[c] = None /\ told[c] # <<>> /\ Live(c)
  BY DEF IInv, Where, Poll, Lost
<1>2. Polled(c) \in Tokens /\ outbox[Polled(c)] \in Results
  BY <1>1 DEF Live, Out, Own, Poll
<1>3. PICK j : j = [job[c] EXCEPT !.pc = "take", !.token = Polled(c), !.raw = outbox[Polled(c)]]
  OBVIOUS
<1>4. j \in Jobs
  <2>1. job[c] \in Jobs BY DEF IInv, TypeOK
  <2> QED BY <1>2, <1>3, <2>1 DEF Jobs
<1>5. job' = [job EXCEPT ![c] = j] BY <1>3 DEF IInv, TypeOK, Poll
<1>6. job' \in [Callers -> Jobs] /\ job'[c] = j BY <1>4, <1>5, NewJob DEF IInv
<1>7. j.pc = "take" /\ j.token = Polled(c) /\ j.raw = outbox[Polled(c)]
  BY <1>3 DEF IInv, TypeOK, Jobs
<1>8. TypeOK' BY <1>6 DEF IInv, TypeOK, Poll, kv
<1>9. \A d \in Callers \ {c} : Same(d) BY <1>5 DEF IInv, TypeOK, Poll, kv, Same
<1>10. Polled(c)' = Polled(c) BY DEF Polled, Poll
<1>11. Live(c)' BY <1>1, <1>10 DEF Live, Out, ToldUpTo, Poll, kv, Own
<1>12. AtTake(c)' BY <1>2, <1>6, <1>7, <1>10, <1>11 DEF AtTake, Poll, kv
<1>13. Where(c)' BY <1>1, <1>6, <1>7, <1>12 DEF Where, Told, Own, Poll
<1> QED BY <1>8, <1>9, <1>13, OfOneCaller

LEMMA TakeResultKeeps ==
    ASSUME IInv, NEW c \in Callers, TakeResult(c)
    PROVE  IInv'
<1>0. PICK t : t = job[c].token
  OBVIOUS
<1>1. /\ Told(c) /\ answered[c] = None /\ told[c] # <<>>
      /\ Live(c) /\ t = Polled(c) /\ job[c].raw = outbox[t] /\ job[c].raw \in Results
  BY <1>0 DEF IInv, Where, TakeResult, AtTake
<1>2. t \in Own(c) /\ t \in Tokens /\ Out(c, plans[c], t) BY <1>1 DEF Live, Out, Own
<1>3. /\ job'[c].pc = "lookup" /\ job'[c].raw = job[c].raw /\ job'[c].token = t
  BY <1>0 DEF IInv, TypeOK, Jobs, TakeResult, Goto
<1>4. TypeOK'
  <2>1. job[c] \in Jobs BY DEF IInv, TypeOK
  <2>2. [job[c] EXCEPT !.pc = "lookup"] \in Jobs BY <2>1 DEF Jobs
  <2>3. job' \in [Callers -> Jobs] BY <2>2, NewJob DEF IInv, TakeResult, Goto
  <2> QED BY <2>3 DEF IInv, TypeOK, TakeResult
<1>5. \A d \in Callers \ {c} : Same(d)
  BY <1>0, <1>2 DEF IInv, TypeOK, TakeResult, Goto, Same, Own
<1>7. t \notin driving /\ ran[c] = Append(plans[c], job[c].raw)
  BY <1>1, <1>2, NoneAssumption DEF Out
<1>8. Quiet(c)'
  BY <1>0, <1>2, <1>7 DEF IInv, TypeOK, TakeResult, Quiet, Out, Own
<1>9. Len(ran[c]) = Len(plans[c]) + 1 BY <1>1, <1>2, <1>7, Extended DEF Out
<1>10. Taken(c)'
  BY <1>1, <1>2, <1>3, <1>7, <1>8, <1>9 DEF Taken, Live, Out, ToldUpTo, TakeResult
<1>11. toks'[t] = c BY <1>1 DEF Live, TakeResult
<1>12. Where(c)' BY <1>1, <1>2, <1>3, <1>10, <1>11 DEF Where, Told, Own, TakeResult
<1> QED BY <1>4, <1>5, <1>12, OfOneCaller

\* The result in hand belongs to the plan: a poll never answers with the bare
\* result of one of its calls.
LEMMA LookUpPlanKeeps ==
    ASSUME IInv, NEW c \in Callers, LookUpPlan(c)
    PROVE  IInv'
<1>1. /\ Told(c) /\ answered[c] = None /\ told[c] # <<>>
      /\ Taken(c) /\ job[c].token \in Own(c) /\ toks[job[c].token] = c
  BY DEF IInv, Where, LookUpPlan
<1>2. job' = [job EXCEPT ![c].pc = "unmap"] /\ answered' = answered
  BY <1>1, NoneAssumption DEF LookUpPlan, Goto
<1>3. /\ job'[c].pc = "unmap" /\ job'[c].raw = job[c].raw /\ job'[c].token = job[c].token
  BY <1>2 DEF IInv, TypeOK, Jobs
<1>4. TypeOK'
  <2>1. job[c] \in Jobs BY DEF IInv, TypeOK
  <2>2. [job[c] EXCEPT !.pc = "unmap"] \in Jobs BY <2>1 DEF Jobs
  <2>3. job' \in [Callers -> Jobs] BY <1>2, <2>2, NewJob DEF IInv
  <2> QED BY <1>2, <2>3 DEF IInv, TypeOK, LookUpPlan, kv
<1>5. \A d \in Callers \ {c} : Same(d) BY <1>2 DEF IInv, TypeOK, LookUpPlan, kv, Same
<1>6. Taken(c)' BY <1>1, <1>3 DEF Taken, Quiet, ToldUpTo, LookUpPlan, kv, Own
<1>7. Where(c)' BY <1>1, <1>2, <1>3, <1>6 DEF Where, Told, Own, LookUpPlan
<1> QED BY <1>4, <1>5, <1>7, OfOneCaller

LEMMA UnmapTokenKeeps ==
    ASSUME IInv, NEW c \in Callers, UnmapToken(c)
    PROVE  IInv'
<1>1. /\ Told(c) /\ answered[c] = None /\ told[c] # <<>>
      /\ Taken(c) /\ job[c].token \in Own(c)
  BY DEF IInv, Where, UnmapToken
<1>2. job'[c].pc = "load" /\ job'[c].raw = job[c].raw
  BY DEF IInv, TypeOK, Jobs, UnmapToken, Goto
<1>3. TypeOK'
  <2>1. job[c] \in Jobs BY DEF IInv, TypeOK
  <2>2. [job[c] EXCEPT !.pc = "load"] \in Jobs BY <2>1 DEF Jobs
  <2>3. job' \in [Callers -> Jobs] BY <2>2, NewJob DEF IInv, UnmapToken, Goto
  <2> QED BY <2>3 DEF IInv, TypeOK, UnmapToken
<1>4. \A d \in Callers \ {c} : Same(d)
  BY <1>1 DEF IInv, TypeOK, UnmapToken, Goto, Same, Own
<1>5. Taken(c)' BY <1>1, <1>2 DEF Taken, Quiet, ToldUpTo, UnmapToken, Own
<1>6. Where(c)' BY <1>1, <1>2, <1>5 DEF Where, Told, Own, UnmapToken
<1> QED BY <1>3, <1>4, <1>6, OfOneCaller

LEMMA LoadPlanKeeps ==
    ASSUME IInv, NEW c \in Callers, LoadPlan(c)
    PROVE  IInv'
<1>1. Told(c) /\ answered[c] = None /\ told[c] # <<>> /\ Taken(c)
  BY DEF IInv, Where, LoadPlan
<1>2. PICK s : s = Append(plans[c], job[c].raw)
  OBVIOUS
<1>3. Partial(s) /\ s \in Runs /\ s = ran[c] BY <1>1, <1>2, Extended DEF Taken, Partial
<1>4. /\ job' = [job EXCEPT ![c] = [@ EXCEPT !.pc = "store", !.results = s]]
      /\ answered' = answered
  BY <1>1, <1>2 DEF LoadPlan, Taken, IInv, TypeOK
<1>5. [job[c] EXCEPT !.pc = "store", !.results = s] \in Jobs
  <2>1. job[c] \in Jobs BY DEF IInv, TypeOK
  <2> QED BY <1>3, <2>1 DEF Jobs
<1>6. job' \in [Callers -> Jobs] /\ job'[c].pc = "store" /\ job'[c].results = ran[c]
  BY <1>3, <1>4, <1>5, NewJob DEF IInv, TypeOK, Jobs
<1>7. TypeOK' BY <1>4, <1>6 DEF IInv, TypeOK, LoadPlan, kv
<1>8. \A d \in Callers \ {c} : Same(d) BY <1>4 DEF IInv, TypeOK, LoadPlan, kv, Same
<1>9. AtRun(c)'
  BY <1>1, <1>3, <1>6 DEF AtRun, Taken, Quiet, ToldUpTo, LoadPlan, kv, Own
<1>10. Where(c)' BY <1>1, <1>4, <1>6, <1>9 DEF Where, Told, Own, LoadPlan
<1> QED BY <1>7, <1>8, <1>10, OfOneCaller

LEMMA StoreResultKeeps ==
    ASSUME IInv, NEW c \in Callers, StoreResult(c)
    PROVE  IInv'
<1>1. Told(c) /\ answered[c] = None /\ told[c] # <<>> /\ AtRun(c)
  BY DEF IInv, Where, StoreResult
<1>2. job' = [job EXCEPT ![c] = [@ EXCEPT !.pc = "run", !.token = None, !.raw = None]]
  BY DEF StoreResult, IInv, TypeOK
<1>3. [job[c] EXCEPT !.pc = "run", !.token = None, !.raw = None] \in Jobs
  <2>1. job[c] \in Jobs BY DEF IInv, TypeOK
  <2> QED BY <2>1 DEF Jobs
<1>4. job' \in [Callers -> Jobs] /\ job'[c].pc = "run" /\ job'[c].results = job[c].results
  BY <1>2, <1>3, NewJob DEF IInv, TypeOK, Jobs
<1>5. TypeOK'
  <2>1. job[c].results \in Runs BY DEF IInv, TypeOK, Jobs
  <2> QED BY <1>4, <2>1 DEF IInv, TypeOK, StoreResult
<1>6. \A d \in Callers \ {c} : Same(d) BY <1>2 DEF IInv, TypeOK, StoreResult, Same
<1>7. AtRun(c)' BY <1>1, <1>4 DEF AtRun, Quiet, ToldUpTo, StoreResult, Own
<1>8. Where(c)' BY <1>1, <1>4, <1>7 DEF Where, Told, Own, StoreResult
<1> QED BY <1>5, <1>6, <1>8, OfOneCaller

LEMMA CrashKeeps ==
    ASSUME IInv, NEW c \in Callers, Crash(c)
    PROVE  IInv'
<1>1. Told(c) /\ answered[c] = None /\ told[c] # <<>> BY DEF IInv, Where, Crash
<1>2. Live(c) \/ Lost(c)
  <2>1. CASE job[c].pc \in {"run", "store"}
    BY <1>1, <2>1, KilledQuiet DEF IInv, Where, AtRun
  <2>2. CASE job[c].pc \in {"persist", "map"}
    <3>1. Out(c, job[c].results, job[c].token) /\ ToldUpTo(c, Len(job[c].results))
      BY <2>2 DEF IInv, Where, AtMap, AtPersist
    <3>2. \E i \in DOMAIN told[c] : Polled(c) = told[c][i]
      <4>1. Len(told[c]) \in Nat \ {0} BY <1>1 DEF Told
      <4>2. 1 \in DOMAIN told[c] /\ Len(told[c]) \in DOMAIN told[c] BY <1>1, <4>1 DEF Told
      <4> QED BY <1>1, <4>2 DEF Polled, Last, Told
    <3>3. Len(job[c].results) \in Nat
      BY <3>1, RunsAreSeqs DEF Out, Extensible, Partial
    <3>4. Polled(c) # job[c].token BY <3>1, <3>2, <3>3 DEF ToldUpTo, Out
    <3> QED BY <1>1, <3>1, <3>4, OutElsewhere
  <2>3. CASE job[c].pc = "take" BY <2>3 DEF IInv, Where, AtTake
  <2>4. CASE job[c].pc \in {"lookup", "unmap", "load"}
    <3>1. Taken(c) BY <2>4 DEF IInv, Where
    <3>2. Quiet(c) /\ Partial(ran[c]) BY <3>1, Extended DEF Taken
    <3> QED BY <1>1, <3>2, KilledQuiet
  <2>5. CASE job[c].pc = "new" BY <1>1, <2>5 DEF IInv, Where, AtNew
  <2>6. job[c].pc \notin {"idle", "over"} BY DEF Crash
  <2> QED BY <2>1, <2>2, <2>3, <2>4, <2>5, <2>6 DEF IInv, TypeOK, Jobs
<1>3. Idle \in Jobs BY EmptyRun DEF Idle, Jobs, Partial
<1>4. job' \in [Callers -> Jobs] /\ job'[c] = Idle BY <1>3, NewJob DEF IInv, Crash
<1>5. TypeOK'
  <2>1. crashes' \in 0 .. MaxCrashes BY GitAsyncAssumption DEF IInv, TypeOK, Crash
  <2> QED BY <1>4, <2>1 DEF IInv, TypeOK, Crash, kv
<1>6. \A d \in Callers \ {c} : Same(d) BY DEF IInv, TypeOK, Crash, kv, Same
<1>7. Polled(c)' = Polled(c) BY DEF Polled, Crash
<1>8. Live(c) => Live(c)' BY <1>7 DEF Live, Out, ToldUpTo, Crash, kv, Own
<1>9. Lost(c) => Lost(c)' BY <1>7 DEF Lost, Crash, kv, Own
<1>10. Where(c)' BY <1>1, <1>2, <1>4, <1>8, <1>9 DEF Where, Told, Own, Crash, Idle
<1> QED BY <1>5, <1>6, <1>10, OfOneCaller

LEMMA HostDoneKeeps ==
    ASSUME IInv, NEW t \in Tokens, NEW r \in Results, HostDone(t, r)
    PROVE  IInv'
<1>1. PICK c \in Callers : c = t[1] BY DEF Tokens
<1>2. t \in Own(c) /\ t \in driving /\ Where(c) BY <1>1 DEF Own, HostDone, IInv
<1>3. /\ driving' = driving \ {t}
      /\ outbox'[t] = r /\ \A u \in Tokens \ {t} : outbox'[u] = outbox[u]
      /\ ran'[c] = Append(ran[c], r) /\ \A d \in Callers \ {c} : ran'[d] = ran[d]
      /\ job' = job /\ plans' = plans /\ toks' = toks /\ told' = told /\ answered' = answered
  BY <1>1 DEF HostDone, IInv, TypeOK
<1>4. ~Quiet(c) BY <1>2 DEF Quiet
<1>5. job[c].pc \in {"persist", "map", "idle"}
  <2>1. job[c].pc # "take" BY <1>2, NoneAssumption DEF Where, AtTake, Live, Out
  <2> QED BY <1>2, <1>4, <2>1 DEF IInv, TypeOK, Jobs, Where, AtNew, AtRun, Taken, AtOver
<1>6. Extensible(ran[c])
  <2>1. ~Ended(ran[c])
    BY <1>2, <1>5, OutRun DEF Where, AtMap, AtPersist, Live, Lost, Out
  <2> QED BY <1>2, <2>1, RunsPartial DEF Extensible, IInv
<1>7. Partial(Append(ran[c], r)) BY <1>6, Extended
<1>8. ASSUME NEW base, NEW u, Out(c, base, u)
      PROVE  /\ u = t /\ t[2] = Len(base) + 1 /\ Extensible(base)
             /\ \A v \in Own(c) \ {t} : v \notin driving' /\ outbox'[v] = None
             /\ t \notin driving' /\ outbox'[t] = r /\ ran'[c] = Append(base, r)
  <2>1. u = t BY <1>2, <1>8 DEF Out
  <2>2. ran[c] = base BY <1>2, <1>8, <2>1 DEF Out
  <2> QED BY <1>3, <1>8, <2>1, <2>2 DEF Out, Own
<1>9. AtPersist(c) => AtPersist(c)'
  BY <1>2, <1>3, <1>8 DEF AtPersist, Out, ToldUpTo, Own
<1>10. AtMap(c) => AtMap(c)' BY <1>3, <1>9 DEF AtMap
<1>11. Polled(c)' = Polled(c) BY <1>3 DEF Polled
<1>12. Live(c) => Live(c)'
  BY <1>2, <1>3, <1>8, <1>11 DEF Live, Out, ToldUpTo, Own
<1>13. Lost(c) /\ Polled(c) \in Tokens => Lost(c)'
  BY <1>2, <1>3, <1>7, <1>11 DEF Lost, Own
<1>14. told[c] # <<>> => Polled(c) \in Tokens BY <1>2, PolledIsOwn DEF Where, Own
<1>15. Where(c)'
  BY <1>2, <1>3, <1>5, <1>9, <1>10, <1>12, <1>13, <1>14 DEF Where, Told, Own
<1>16. \A d \in Callers \ {c} : Same(d) BY <1>1, <1>3 DEF Same, Own
<1>17. TypeOK'
  <2>1. Append(ran[c], r) \in Runs BY <1>7 DEF Partial
  <2> QED BY <1>1, <2>1 DEF HostDone, IInv, TypeOK
<1> QED BY <1>15, <1>16, <1>17, OfOneCaller

LEMMA StepKeeps == IInv /\ [Next]_vars => IInv'
<1> SUFFICES ASSUME IInv, [Next]_vars PROVE IInv'
  OBVIOUS
<1>1. ASSUME NEW c \in Callers, Step(c) PROVE IInv'
  BY <1>1, EnterKeeps, StepInlineKeeps, StepParkedKeeps, PersistPlanKeeps, MapTokenKeeps,
     FinishKeeps, PollKeeps, TakeResultKeeps, LookUpPlanKeeps, UnmapTokenKeeps,
     LoadPlanKeeps, StoreResultKeeps DEF Step
<1>2. CASE UNCHANGED vars
  <2>1. TypeOK' BY <1>2 DEF IInv, TypeOK, vars, kv
  <2>2. \A d \in Callers : Same(d) BY <1>2 DEF Same, vars, kv
  <2> QED BY <2>1, <2>2, Undisturbed DEF IInv
<1>3. ASSUME NEW c \in Callers, PollPending(c) PROVE IInv'
  BY <1>2, <1>3 DEF PollPending
<1> QED BY <1>1, <1>2, <1>3, CrashKeeps, HostDoneKeeps DEF Next

-----------------------------------------------------------------------------
(* Histories *)

EditsHere == Mine \cup Theirs \cup {Markers}
H == Seq(SUBSET EditsHere)
EditsOf(h) == delivery!EditsOf(h)
Past(g, h) == delivery!IsPrefix(g, h)

LEMMA HistoriesAre == delivery!Histories = H /\ delivery!Edits = EditsHere
  BY DEF H, EditsHere, delivery!Histories, delivery!Edits

LEMMA EditsOfHistory ==
    ASSUME NEW h \in H
    PROVE  /\ \A e : e \in EditsOf(h) <=> \E i \in 1 .. Len(h) : e \in h[i]
           /\ EditsOf(h) \subseteq EditsHere
<1>1. Len(h) \in Nat /\ DOMAIN h = 1 .. Len(h) /\ \A i \in 1 .. Len(h) : h[i] \in SUBSET EditsHere
  BY DEF H
<1>2. EditsOf(h) = UNION {h[i] : i \in 1 .. Len(h)}
  BY <1>1, Zenon DEF EditsOf, delivery!EditsOf, delivery!ToSet
<1>3. \A e : e \in EditsOf(h) <=> \E i \in 1 .. Len(h) : e \in h[i] BY <1>2
<1>4. EditsOf(h) \subseteq EditsHere BY <1>1, <1>3
<1> QED BY <1>3, <1>4

LEMMA PastIs ==
    ASSUME NEW g \in H, NEW h \in H
    PROVE  Past(g, h) <=> Len(g) <= Len(h) /\ \A i \in 1 .. Len(g) : g[i] = h[i]
<1>1. Len(g) \in Nat /\ Len(h) \in Nat BY DEF H
<1>2. SubSeq(g, 1, Len(g)) = g BY SubSeqFull DEF H
<1>3. ASSUME Len(g) <= Len(h)
      PROVE  /\ SubSeq(h, 1, Len(g)) \in H /\ Len(SubSeq(h, 1, Len(g))) = Len(g)
             /\ \A i \in 1 .. Len(g) : SubSeq(h, 1, Len(g))[i] = h[i]
  BY <1>1, <1>3 DEF H
<1>4. ASSUME Len(g) <= Len(h), \A i \in 1 .. Len(g) : g[i] = h[i]
      PROVE  g = SubSeq(h, 1, Len(g))
  BY <1>3, <1>4, SeqEqual DEF H
<1> QED BY <1>2, <1>3, <1>4 DEF Past, delivery!IsPrefix

LEMMA PastGrows ==
    ASSUME NEW f \in H, NEW g \in H, NEW h \in H, Past(f, g), Past(g, h)
    PROVE  Past(f, h)
<1>1. Len(f) \in Nat /\ Len(g) \in Nat /\ Len(h) \in Nat BY DEF H
<1> QED BY <1>1, PastIs

LEMMA PastKeeps ==
    ASSUME NEW g \in H, NEW h \in H, Past(g, h)
    PROVE  EditsOf(g) \subseteq EditsOf(h)
<1>1. Len(g) \in Nat /\ Len(h) \in Nat BY DEF H
<1> QED BY <1>1, PastIs, EditsOfHistory

LEMMA PastItself == ASSUME NEW h \in H PROVE Past(h, h)
<1>1. Len(h) \in Nat BY DEF H
<1> QED BY <1>1, PastIs

\* A commit adds its edits to those of the history.
LEMMA CommitAdds ==
    ASSUME NEW h \in H, NEW E \in SUBSET EditsHere
    PROVE  /\ Append(h, E) \in H /\ Append(h, E) # <<>> /\ Past(h, Append(h, E))
           /\ EditsOf(Append(h, E)) = EditsOf(h) \cup E
<1> DEFINE a == Append(h, E)
<1>1. /\ a \in H /\ a # <<>> /\ Len(h) \in Nat /\ Len(a) = Len(h) + 1
      /\ \A i \in 1 .. Len(h) : a[i] = h[i]
      /\ a[Len(h) + 1] = E
  BY AppendProperties DEF H
<1> HIDE DEF a
<1>2. Past(h, a) BY <1>1, PastIs
<1>3. EditsOf(h) \subseteq EditsOf(a) BY <1>1, <1>2, PastKeeps
<1>4. E \subseteq EditsOf(a)
  <2>1. Len(h) + 1 \in 1 .. Len(a) BY <1>1
  <2> QED BY <1>1, <2>1, EditsOfHistory
<1>5. ASSUME NEW e \in EditsOf(a) PROVE e \in EditsOf(h) \cup E
  <2>1. PICK i \in 1 .. Len(h) + 1 : e \in a[i] BY <1>1, <1>5, EditsOfHistory
  <2>2. CASE i = Len(h) + 1 BY <1>1, <2>1, <2>2
  <2>3. CASE i \in 1 .. Len(h) BY <1>1, <2>1, <2>3, EditsOfHistory
  <2> QED BY <1>1, <2>2, <2>3
<1> QED BY <1>1, <1>2, <1>3, <1>4, <1>5 DEF a

\* An amended commit has what it had and what was staged.
Amended(h, E) == Append(delivery!Front(h), delivery!Last(h) \cup E)

LEMMA AmendAdds ==
    ASSUME NEW h \in H, h # <<>>, NEW E \in SUBSET EditsHere
    PROVE  /\ Amended(h, E) \in H /\ Amended(h, E) # <<>>
           /\ EditsOf(h) \cup E \subseteq EditsOf(Amended(h, E))
<1>1. Len(h) \in Nat \ {0} /\ \A i \in 1 .. Len(h) : h[i] \in SUBSET EditsHere BY DEF H
<1>2. /\ delivery!Front(h) \in H /\ Len(delivery!Front(h)) = Len(h) - 1
      /\ \A i \in 1 .. Len(h) - 1 : delivery!Front(h)[i] = h[i]
  <2>1. /\ SubSeq(h, 1, Len(h) - 1) \in H /\ Len(SubSeq(h, 1, Len(h) - 1)) = Len(h) - 1
        /\ \A i \in 1 .. Len(h) - 1 : SubSeq(h, 1, Len(h) - 1)[i] = h[i]
    <3> DEFINE n == Len(h) - 1
    <3>1. n \in Nat /\ \A i \in 1 .. n : h[i] \in SUBSET EditsHere BY <1>1
    <3> HIDE DEF n
    <3>2. n - 1 + 1 = n /\ (1 <= n \/ n = 0) /\ 1 \in Int /\ n \in Int BY <3>1
    <3>3. \A i \in 1 .. n : 1 + i - 1 = i OBVIOUS
    <3>4. /\ SubSeq(h, 1, n) \in Seq(SUBSET EditsHere) /\ Len(SubSeq(h, 1, n)) = n
          /\ \A i \in 1 .. n : SubSeq(h, 1, n)[i] = h[i]
      BY <3>1, <3>2, <3>3, SubSeqProperties
    <3> QED BY <3>4 DEF n, H
  <2> QED BY <2>1 DEF delivery!Front
<1>3. delivery!Last(h) \cup E \in SUBSET EditsHere BY <1>1 DEF delivery!Last
<1>4. /\ Amended(h, E) \in H /\ Amended(h, E) # <<>>
      /\ EditsOf(Amended(h, E)) = EditsOf(delivery!Front(h)) \cup delivery!Last(h) \cup E
  <2>1. PICK f \in H, l \in SUBSET EditsHere : f = delivery!Front(h) /\ l = delivery!Last(h) \cup E
    BY <1>2, <1>3
  <2>2. /\ Append(f, l) \in H /\ Append(f, l) # <<>> /\ EditsOf(Append(f, l)) = EditsOf(f) \cup l
    BY CommitAdds
  <2>3. Amended(h, E) = Append(f, l) BY <2>1, Zenon DEF Amended
  <2> QED BY <2>1, <2>2, <2>3
<1>5. EditsOf(h) \subseteq EditsOf(delivery!Front(h)) \cup delivery!Last(h)
  <2> SUFFICES ASSUME NEW e \in EditsOf(h) PROVE e \in EditsOf(delivery!Front(h)) \cup delivery!Last(h)
    OBVIOUS
  <2>1. PICK i \in 1 .. Len(h) : e \in h[i] BY EditsOfHistory
  <2>2. CASE i = Len(h) BY <2>1, <2>2 DEF delivery!Last
  <2>3. CASE i \in 1 .. Len(h) - 1 BY <1>2, <2>1, <2>3, EditsOfHistory
  <2> QED BY <1>1, <2>2, <2>3
<1> QED BY <1>4, <1>5

\* A slice put behind a history adds the edits of its commits, and no others.
LEMMA SliceAdds ==
    ASSUME NEW g \in H, NEW h \in H, NEW from \in Nat \ {0}, NEW to \in 0 .. Len(h)
    PROVE  /\ g \o SubSeq(h, from, to) \in H
           /\ EditsOf(g) \subseteq EditsOf(g \o SubSeq(h, from, to))
           /\ EditsOf(g \o SubSeq(h, from, to)) \subseteq EditsOf(g) \cup EditsOf(h)
           /\ \A i \in from .. to : h[i] \subseteq EditsOf(g \o SubSeq(h, from, to))
<1> DEFINE s == SubSeq(h, from, to)
           c == g \o s
<1>1. Len(h) \in Nat /\ Len(g) \in Nat /\ \A i \in 1 .. Len(h) : h[i] \in SUBSET EditsHere BY DEF H
<1>2. /\ s \in H /\ Len(s) = IF from <= to THEN to - from + 1 ELSE 0
      /\ \A i \in 1 .. to - from + 1 : s[i] = h[from + i - 1]
  BY <1>1, SubSeqProperties DEF H
<1> HIDE DEF s
<1>3. /\ c \in H /\ Len(c) = Len(g) + Len(s)
      /\ \A i \in 1 .. Len(g) + Len(s) : c[i] = IF i <= Len(g) THEN g[i] ELSE s[i - Len(g)]
  BY <1>2, ConcatProperties DEF H
<1> HIDE DEF c
<1>4. Len(s) \in Nat BY <1>1, <1>2
<1>5. EditsOf(g) \subseteq EditsOf(c) BY <1>1, <1>3, <1>4, EditsOfHistory
<1>6. ASSUME NEW e \in EditsOf(c) PROVE e \in EditsOf(g) \cup EditsOf(h)
  <2>1. PICK i \in 1 .. Len(g) + Len(s) : e \in c[i] BY <1>3, <1>6, EditsOfHistory
  <2>2. CASE i <= Len(g)
    <3>1. i \in 1 .. Len(g) /\ e \in g[i] BY <1>1, <1>3, <2>1, <2>2
    <3> QED BY <3>1, EditsOfHistory
  <2>3. CASE ~(i <= Len(g))
    <3> DEFINE j == i - Len(g)
    <3>1. j \in 1 .. Len(s) /\ e \in s[j] BY <1>1, <1>3, <1>4, <2>1, <2>3
    <3>2. from + j - 1 \in 1 .. Len(h) /\ s[j] = h[from + j - 1] BY <1>1, <1>2, <3>1
    <3> QED BY <3>1, <3>2, EditsOfHistory
  <2> QED BY <2>2, <2>3
<1>7. ASSUME NEW i \in from .. to PROVE h[i] \subseteq EditsOf(c)
  <2> DEFINE j == Len(g) + i - from + 1
  <2>1. i - from + 1 \in 1 .. Len(s) /\ s[i - from + 1] = h[i] BY <1>1, <1>2
  <2>2. j \in 1 .. Len(c) /\ ~(j <= Len(g)) /\ j - Len(g) = i - from + 1
    BY <1>1, <1>3, <1>4, <2>1
  <2>3. c[j] = h[i] BY <1>3, <2>1, <2>2
  <2> QED BY <1>3, <2>2, <2>3, EditsOfHistory
<1> QED BY <1>3, <1>5, <1>6, <1>7 DEF c, s

-----------------------------------------------------------------------------
(* A pull *)

LEMMA SomeAreLeast ==
    ASSUME NEW S \in SUBSET Nat, S # {}
    PROVE  delivery!Min(S) \in S
<1>1. \E m \in S : \A i \in S : m <= i
  <2>1. IsWellFoundedOn(OpToRel(<, Nat), Nat) BY NatLessThanWellFounded
  <2>2. PICK m \in S : \A i \in S : ~(<<i, m>> \in OpToRel(<, Nat)) BY <2>1, WFMin
  <2>3. \A i \in S : ~(i < m) BY <2>2 DEF OpToRel
  <2> QED BY <2>3
<1> QED BY <1>1 DEF delivery!Min

LEMMA SomeAreMost ==
    ASSUME NEW n \in Nat, NEW S \in SUBSET (0 .. n), S # {}
    PROVE  delivery!Max(S) \in S
<1> DEFINE T == {n - i : i \in S}
<1>1. T \in SUBSET Nat /\ T # {}
  <2>1. \A i \in S : i \in 0 .. n OBVIOUS
  <2>2. \A i \in S : n - i \in Nat BY <2>1
  <2> QED BY <2>2
<1>2. PICK m \in T : \A i \in T : m <= i
  <2>1. IsWellFoundedOn(OpToRel(<, Nat), Nat) BY NatLessThanWellFounded
  <2> HIDE DEF T
  <2>2. PICK m \in T : \A i \in T : ~(<<i, m>> \in OpToRel(<, Nat)) BY <1>1, <2>1, WFMin
  <2>3. \A i \in T : ~(i < m) BY <1>1, <2>2 DEF OpToRel
  <2> QED BY <1>1, <2>3
<1>3. PICK k \in S : m = n - k BY <1>2
<1>4. \A i \in S : k >= i
  <2> SUFFICES ASSUME NEW i \in S PROVE k >= i OBVIOUS
  <2>1. m <= n - i BY <1>2
  <2> QED BY <1>3, <2>1
<1> QED BY <1>3, <1>4 DEF delivery!Max

LEMMA SharedIs ==
    ASSUME head \in H, remote \in H
    PROVE  /\ delivery!Shared \in 0 .. Len(head) /\ delivery!Shared <= Len(remote)
           /\ \A i \in 1 .. delivery!Shared : head[i] = remote[i]
<1> DEFINE Common(n) == n <= Len(remote) /\ SubSeq(head, 1, n) = SubSeq(remote, 1, n)
           S == {n \in 0 .. Len(head) : Common(n)}
           n == delivery!Shared
<1>1. Len(head) \in Nat /\ Len(remote) \in Nat BY DEF H
<1>2. 0 \in S
  <2>1. SubSeq(head, 1, 0) = <<>> /\ SubSeq(remote, 1, 0) = <<>> BY SubSeqEmpty
  <2> QED BY <1>1, <2>1
<1>3. S \in SUBSET (0 .. Len(head)) OBVIOUS
<1>4. n = delivery!Max(S) BY Zenon DEF delivery!Shared
<1> HIDE DEF S, n
<1>5. n \in S BY <1>1, <1>2, <1>3, <1>4, SomeAreMost
<1>6. n \in 0 .. Len(head) /\ n <= Len(remote) /\ SubSeq(head, 1, n) = SubSeq(remote, 1, n)
  BY <1>5 DEF S
<1>7. ASSUME NEW i \in 1 .. n PROVE head[i] = remote[i]
  <2>1. i \in 1 .. n - 1 + 1 /\ 1 + i - 1 = i /\ n \in Int /\ 1 \in Int BY <1>1, <1>6
  <2>2. \A j \in 1 .. n : head[j] \in SUBSET EditsHere /\ remote[j] \in SUBSET EditsHere
    BY <1>1, <1>6 DEF H
  <2>3. SubSeq(head, 1, n)[i] = head[i] BY <2>1, <2>2, SubSeqProperties
  <2>4. SubSeq(remote, 1, n)[i] = remote[i] BY <2>1, <2>2, SubSeqProperties
  <2> QED BY <1>6, <2>3, <2>4
<1> QED BY <1>6, <1>7 DEF n

\* A rebase that applies keeps all that was committed here and there.
LEMMA RebaseKeeps ==
    ASSUME head \in H, remote \in H,
           NEW h, h = remote \o SubSeq(head, delivery!Shared + 1, Len(head))
    PROVE  h \in H /\ EditsOf(head) \subseteq EditsOf(h)
<1> DEFINE n == delivery!Shared
<1>1. Len(head) \in Nat /\ Len(remote) \in Nat BY DEF H
<1>2. n \in 0 .. Len(head) /\ n <= Len(remote) /\ \A i \in 1 .. n : head[i] = remote[i] BY SharedIs
<1>3. n + 1 \in Nat \ {0} /\ Len(head) \in 0 .. Len(head) BY <1>1, <1>2
<1> HIDE DEF n
<1>4. h = remote \o SubSeq(head, n + 1, Len(head)) BY DEF n
<1>5. /\ h \in H /\ EditsOf(remote) \subseteq EditsOf(h)
      /\ \A i \in n + 1 .. Len(head) : head[i] \subseteq EditsOf(h)
  <2>1. PICK l : l = Len(head) OBVIOUS
  <2>2. l \in 0 .. Len(head) /\ h = remote \o SubSeq(head, n + 1, l) BY <1>3, <1>4, <2>1
  <2>3. /\ h \in H /\ EditsOf(remote) \subseteq EditsOf(h)
        /\ \A i \in n + 1 .. l : head[i] \subseteq EditsOf(h)
    BY <1>3, <2>2, SliceAdds
  <2> QED BY <2>1, <2>3
<1>6. ASSUME NEW e \in EditsOf(head) PROVE e \in EditsOf(h)
  <2>1. PICK i \in 1 .. Len(head) : e \in head[i] BY EditsOfHistory
  <2>2. CASE i \in n + 1 .. Len(head) BY <1>5, <2>1, <2>2
  <2>3. CASE i \in 1 .. n
    <3>1. i \in 1 .. Len(remote) /\ e \in remote[i] BY <1>1, <1>2, <2>1, <2>3 DEF n
    <3> QED BY <1>5, <3>1, EditsOfHistory
  <2> QED BY <1>1, <1>2, <2>2, <2>3 DEF n
<1> QED BY <1>5, <1>6

\* One that stops has applied some of it.
LEMMA StoppedRebaseIsPart ==
    ASSUME head \in H, remote \in H, delivery!Clashing # {},
           NEW h, h = remote \o SubSeq(head, delivery!Shared + 1, delivery!Min(delivery!Clashing) - 1)
    PROVE  /\ h \in H /\ EditsOf(h) \subseteq EditsOf(head) \cup EditsOf(remote)
           /\ head[delivery!Min(delivery!Clashing)] \subseteq EditsHere
<1> DEFINE n == delivery!Shared
           m == delivery!Min(delivery!Clashing)
<1>1. Len(head) \in Nat /\ Len(remote) \in Nat /\ \A i \in 1 .. Len(head) : head[i] \subseteq EditsHere
  BY DEF H
<1>2. n \in 0 .. Len(head) BY SharedIs
<1>3. delivery!Clashing \subseteq n + 1 .. Len(head) BY DEF delivery!Clashing
<1>4. m \in delivery!Clashing
  <2>1. delivery!Clashing \in SUBSET Nat BY <1>1, <1>2, <1>3
  <2> QED BY <2>1, SomeAreLeast
<1> HIDE DEF n, m
<1>8. m \in n + 1 .. Len(head) BY <1>3, <1>4
<1>5. n + 1 \in Nat \ {0} /\ m - 1 \in 0 .. Len(head) /\ m \in 1 .. Len(head) BY <1>1, <1>2, <1>8
<1>6. h = remote \o SubSeq(head, n + 1, m - 1) BY DEF n, m
<1>7. h \in H /\ EditsOf(h) \subseteq EditsOf(head) \cup EditsOf(remote) BY <1>5, <1>6, SliceAdds
<1> QED BY <1>1, <1>5, <1>7 DEF m

-----------------------------------------------------------------------------
(* The dispatch *)

Uncommitted == {"probe", "add", "commit", "ahead"}
Amending == {"absorb", "restage", "amend"}
Committing == {"moved", "leftover", "absorb", "restage", "amend"}
AfterPush == {"after", "verify", "sha", "ci"}

Committable == (SUBSET EditsHere) \cup {None}

DeliveryJobs ==
    [pc : {"idle", "probe", "add", "commit", "moved", "ahead", "leftover", "absorb",
           "restage", "amend", "recheck", "clean", "fetch", "push", "pull",
           "rebased", "abort", "after", "verify", "sha", "ci"},
     verb : {"finalize", "push"}, before : H, dirty : BOOLEAN, flush : BOOLEAN,
     mine : Committable, attempts : 0 .. Retries, conflict : BOOLEAN,
     seen : H, sha : H, pushed : BOOLEAN]

LEMMA NothingCommitted == None \in Committable
  BY Zenon DEF Committable

JobTyped == dispatch \in DeliveryJobs
TreeTyped == tree \in SUBSET EditsHere /\ index \in SUBSET EditsHere
RefsTyped == head \in H /\ tracking \in H /\ remote \in H /\ rebasing \in H \cup {None}
RestTyped ==
    /\ marker \in H \cup {None} /\ run \in {"none", "pending", "success", "failure"}
    /\ mishaps \in 0 .. MaxMishaps

\* What the dispatch committed is in HEAD until it is pushed, then on origin.
MineKept ==
    /\ dispatch.pc \in Amending => dispatch.mine # None
    /\ dispatch.mine # None =>
          /\ dispatch.pc \notin Uncommitted
          /\ dispatch.pc \in Committing => head # <<>>
          /\ ~dispatch.conflict => dispatch.mine \subseteq EditsOf(head)
          /\ dispatch.pc \in AfterPush => dispatch.mine \subseteq EditsOf(remote)

\* What this clone knows of origin, and has seen pushed, is part of what origin has.
OriginKnown ==
    /\ Past(tracking, remote)
    /\ dispatch.pc \in {"sha", "ci"} => Past(dispatch.seen, remote)

\* A rebase that stopped has put away the HEAD to go back to.
RebaseStopped ==
    dispatch.conflict =>
        /\ dispatch.pc \in {"rebased", "abort"} /\ rebasing \in H
        /\ EditsOf(head) \subseteq EditsOf(rebasing) \cup EditsOf(remote)

DeliveryInv ==
    /\ JobTyped /\ TreeTyped /\ RefsTyped /\ RestTyped
    /\ MineKept /\ OriginKnown /\ RebaseStopped

\* No commit is lost but to an abort that found somebody else's rebase.
KeptHere ==
    EditsOf(head) \cup EditsOf(remote) \cup (IF rebasing = None THEN {} ELSE EditsOf(rebasing))
Stays ==
    ~(dispatch.pc = "abort" /\ ~dispatch.conflict) => KeptHere \subseteq KeptHere'
Lands ==
    dispatch'.pushed /\ ~dispatch.pushed =>
        /\ Past(dispatch.seen, remote)
        /\ dispatch.mine = None \/ dispatch.mine \subseteq EditsOf(remote)
StepGoes == DeliveryInv' /\ Stays /\ Lands

DeliveryAssumption == delivery!GitDeliveryAssumption

LEMMA Constants ==
    ASSUME DeliveryAssumption
    PROVE  Retries \in Nat /\ MaxMishaps \in Nat /\ None \notin H /\ <<>> \in H
  BY DEF DeliveryAssumption, delivery!GitDeliveryAssumption, H, EditsHere, delivery!Edits

LEMMA InitDelivers == ASSUME DeliveryAssumption, delivery!Init PROVE DeliveryInv
<1>1. /\ tree = {} /\ index = {} /\ head = <<>> /\ rebasing = None /\ tracking = <<>>
      /\ remote = <<>> /\ marker = None /\ run = "none" /\ mishaps = 0
      /\ dispatch = [pc |-> "idle", verb |-> "push", before |-> <<>>, dirty |-> FALSE,
                     flush |-> FALSE, mine |-> None, attempts |-> 0, conflict |-> FALSE,
                     seen |-> <<>>, sha |-> <<>>, pushed |-> FALSE]
  BY DEF delivery!Init, delivery!Idle
<1>2. JobTyped
  <2>1. 0 \in 0 .. Retries /\ <<>> \in H /\ None \in Committable BY Constants, NothingCommitted
  <2> QED BY <1>1, <2>1 DEF JobTyped, DeliveryJobs
<1>3. TreeTyped /\ RefsTyped /\ RestTyped BY <1>1, Constants DEF TreeTyped, RefsTyped, RestTyped
<1>4. Past(tracking, remote) BY <1>1, Constants, PastItself
<1> QED BY <1>1, <1>2, <1>3, <1>4 DEF DeliveryInv, MineKept, OriginKnown, RebaseStopped, Uncommitted, Amending

\* A step of the dispatch alone; it may forget or keep what it committed.
JobOnly ==
    /\ JobTyped' /\ UNCHANGED <<head, rebasing, tracking, remote>>
    /\ TreeTyped' /\ RestTyped'
    /\ dispatch'.pc \in Amending => dispatch'.mine # None
    /\ dispatch'.mine # None =>
          /\ dispatch'.mine = dispatch.mine
          /\ dispatch'.pc \in Uncommitted => dispatch.pc \in Uncommitted
          /\ dispatch'.pc \in Committing => dispatch.pc \in Committing
          /\ dispatch'.pc \in AfterPush => dispatch.pc \in AfterPush
          /\ dispatch.conflict => dispatch'.conflict
    /\ dispatch'.conflict => dispatch.conflict /\ dispatch'.pc \in {"rebased", "abort"}
    /\ dispatch'.pc \in {"sha", "ci"} =>
          dispatch.pc \in {"sha", "ci"} /\ dispatch'.seen = dispatch.seen
    /\ dispatch'.pushed /\ ~dispatch.pushed => dispatch.pc \in {"sha", "ci"}

LEMMA JobOnlyGoes == ASSUME DeliveryInv, JobOnly PROVE StepGoes
<1>1. RefsTyped' /\ Past(tracking', remote') BY DEF JobOnly, DeliveryInv, RefsTyped, OriginKnown
<1>2. MineKept' BY DEF JobOnly, DeliveryInv, MineKept
<1>3. OriginKnown' BY <1>1 DEF JobOnly, DeliveryInv, OriginKnown
<1>4. RebaseStopped' BY DEF JobOnly, DeliveryInv, RebaseStopped
<1>5. Stays BY DEF JobOnly, Stays, KeptHere
<1>6. Lands BY DEF JobOnly, Lands, DeliveryInv, OriginKnown, MineKept, AfterPush
<1> QED BY <1>1, <1>2, <1>3, <1>4, <1>5, <1>6 DEF StepGoes, DeliveryInv, JobOnly

\* Fields of the record of an idle dispatch.
LEMMA IdleIs ==
    ASSUME DeliveryAssumption
    PROVE  /\ delivery!Idle \in DeliveryJobs /\ delivery!Idle.pc = "idle" /\ delivery!Idle.mine = None
           /\ delivery!Idle.conflict = FALSE /\ delivery!Idle.pushed = FALSE
           /\ delivery!Idle.seen = <<>>
<1>1. 0 \in 0 .. Retries /\ <<>> \in H /\ None \in Committable BY Constants, NothingCommitted
<1> QED BY <1>1 DEF delivery!Idle, DeliveryJobs

\* A git command that works or fails counts its mishap.
Mishaps == delivery!Works \/ delivery!Fails

LEMMA MishapsCounted ==
    ASSUME DeliveryAssumption, RestTyped, Mishaps, UNCHANGED <<marker, run>>
    PROVE  RestTyped'
<1>1. MaxMishaps \in Nat BY Constants
<1> QED BY <1>1 DEF RestTyped, Mishaps, delivery!Works, delivery!Fails

LEMMA StatusCounts ==
    ASSUME NEW dirty, delivery!Status(dirty)
    PROVE  Mishaps
  BY DEF delivery!Status, Mishaps

LEMMA AnswerGoes ==
    ASSUME DeliveryAssumption, DeliveryInv, NEW b \in BOOLEAN, delivery!Answer(b),
           b => dispatch.pc \in {"sha", "ci"},
           UNCHANGED <<head, rebasing, tracking, remote, tree, index>>, RestTyped'
    PROVE  StepGoes
<1>1. /\ dispatch' \in DeliveryJobs /\ dispatch'.pc = "idle" /\ dispatch'.mine = None
      /\ dispatch'.conflict = FALSE /\ dispatch'.pushed = b
  BY IdleIs DEF delivery!Answer, DeliveryJobs
<1>2. TreeTyped' BY DEF DeliveryInv, TreeTyped
<1>3. JobOnly BY <1>1, <1>2 DEF JobOnly, JobTyped, Amending
<1> QED BY <1>3, JobOnlyGoes

LEMMA RefuseGoes ==
    ASSUME DeliveryAssumption, DeliveryInv, delivery!Refuse,
           UNCHANGED <<head, rebasing, tracking, remote, tree, index>>, RestTyped'
    PROVE  StepGoes
  BY AnswerGoes DEF delivery!Refuse

Pcs ==
    {"idle", "probe", "add", "commit", "moved", "ahead", "leftover", "absorb",
     "restage", "amend", "recheck", "clean", "fetch", "push", "pull",
     "rebased", "abort", "after", "verify", "sha", "ci"}

LEMMA GotoIs ==
    ASSUME JobTyped, NEW pc \in Pcs, delivery!Goto(pc)
    PROVE  /\ JobTyped' /\ dispatch'.pc = pc /\ dispatch'.mine = dispatch.mine
           /\ dispatch'.conflict = dispatch.conflict /\ dispatch'.pushed = dispatch.pushed
           /\ dispatch'.seen = dispatch.seen /\ dispatch'.verb = dispatch.verb
  BY DEF JobTyped, DeliveryJobs, delivery!Goto, Pcs

LEMMA GotoGoes ==
    ASSUME DeliveryAssumption, DeliveryInv, NEW pc \in Pcs, delivery!Goto(pc),
           pc \in Uncommitted => dispatch.pc \in Uncommitted,
           pc \in Amending => dispatch.mine # None,
           pc \in Committing => dispatch.pc \in Committing,
           pc \in AfterPush => dispatch.pc \in AfterPush,
           pc \in {"sha", "ci"} => dispatch.pc \in {"sha", "ci"},
           dispatch.conflict => pc \in {"rebased", "abort"},
           UNCHANGED <<head, rebasing, tracking, remote>>, TreeTyped', RestTyped'
    PROVE  StepGoes
<1>1. JobTyped BY DEF DeliveryInv
<1>2. JobOnly BY <1>1, GotoIs DEF JobOnly
<1> QED BY <1>2, JobOnlyGoes

LEMMA StartGoes ==
    ASSUME DeliveryAssumption, DeliveryInv, NEW v \in {"finalize", "push"}, delivery!Start(v)
    PROVE  StepGoes
<1>1. head \in H BY DEF DeliveryInv, RefsTyped
<1>2. /\ dispatch' \in DeliveryJobs /\ dispatch'.pc \in {"clean", "probe"} /\ dispatch'.mine = None
      /\ dispatch'.conflict = FALSE /\ dispatch'.pushed = FALSE
  BY <1>1, IdleIs DEF delivery!Start, DeliveryJobs
<1>3. UNCHANGED <<head, rebasing, tracking, remote, tree, index, marker, run, mishaps>>
  BY DEF delivery!Start, delivery!worktree, delivery!refs, delivery!ci
<1>4. TreeTyped' /\ RestTyped' BY <1>3 DEF DeliveryInv, TreeTyped, RestTyped
<1>5. JobOnly BY <1>2, <1>3, <1>4 DEF JobOnly, JobTyped, Uncommitted, Amending, Committing, AfterPush
<1> QED BY <1>5, JobOnlyGoes

LEMMA ProbeGoes ==
    ASSUME DeliveryAssumption, DeliveryInv, NEW dirty \in BOOLEAN, NEW notes \in BOOLEAN,
           delivery!Probe(dirty, notes)
    PROVE  StepGoes
<1>1. /\ JobTyped' /\ dispatch'.pc \in {"add", "ahead"} /\ dispatch'.mine = dispatch.mine
      /\ dispatch'.conflict = dispatch.conflict /\ dispatch'.pushed = dispatch.pushed
      /\ dispatch.pc = "probe"
  BY DEF DeliveryInv, JobTyped, DeliveryJobs, delivery!Probe
<1>2. UNCHANGED <<head, rebasing, tracking, remote, tree, index, marker, run>> /\ Mishaps
  BY StatusCounts DEF delivery!Probe, delivery!worktree, delivery!refs, delivery!ci
<1>3. TreeTyped' /\ RestTyped' BY <1>2, MishapsCounted DEF DeliveryInv, TreeTyped
<1>4. ~dispatch.conflict BY <1>1 DEF DeliveryInv, RebaseStopped
<1>5. JobOnly BY <1>1, <1>2, <1>3, <1>4 DEF JobOnly, Uncommitted, Amending, Committing, AfterPush
<1> QED BY <1>5, JobOnlyGoes

LEMMA AddGoes ==
    ASSUME DeliveryAssumption, DeliveryInv,
           delivery!Add("add", "commit") \/ delivery!Add("restage", "amend")
    PROVE  StepGoes
<1>1. /\ UNCHANGED <<head, rebasing, tracking, remote, marker, run>> /\ Mishaps
      /\ TreeTyped'
  BY DEF delivery!Add, delivery!worktree, delivery!refs, delivery!ci, Mishaps, DeliveryInv, TreeTyped
<1>2. RestTyped' BY <1>1, MishapsCounted DEF DeliveryInv
<1>3. ~dispatch.conflict BY DEF DeliveryInv, RebaseStopped, delivery!Add
<1>4. \/ dispatch.pc = "add" /\ delivery!Goto("commit")
      \/ dispatch.pc = "restage" /\ dispatch.mine # None /\ delivery!Goto("amend")
  BY DEF delivery!Add, DeliveryInv, MineKept, Amending
<1> QED BY <1>1, <1>2, <1>3, <1>4, GotoGoes DEF Uncommitted, Amending, Committing, AfterPush, Pcs

LEMMA CheckMovedGoes ==
    ASSUME DeliveryAssumption, DeliveryInv, delivery!CheckMoved \/ delivery!CheckAhead
    PROVE  StepGoes
<1>1. UNCHANGED <<head, rebasing, tracking, remote, tree, index, marker, run>>
  BY DEF delivery!CheckMoved, delivery!CheckAhead, delivery!worktree, delivery!refs, delivery!ci
<1>2. TreeTyped' BY <1>1 DEF DeliveryInv, TreeTyped
<1>3. RestTyped'
  <2>1. Mishaps BY DEF Mishaps, delivery!CheckMoved, delivery!CheckAhead, delivery!Works, delivery!Fails
  <2> QED BY <1>1, <2>1, MishapsCounted DEF DeliveryInv
<1>4. dispatch.pc \in {"moved", "ahead"} /\ ~dispatch.conflict
  BY DEF DeliveryInv, RebaseStopped, delivery!CheckMoved, delivery!CheckAhead
<1>5. \/ delivery!Refuse
      \/ delivery!Proceed
      \/ dispatch' = [dispatch EXCEPT !.pc = "ahead", !.mine = None]
  BY DEF delivery!CheckMoved, delivery!CheckAhead
<1>6. CASE delivery!Refuse BY <1>1, <1>3, <1>6, RefuseGoes
<1>7. CASE dispatch' = [dispatch EXCEPT !.pc = "ahead", !.mine = None]
  <2>1. /\ JobTyped' /\ dispatch'.pc = "ahead" /\ dispatch'.mine = None
        /\ ~dispatch'.conflict /\ dispatch'.pushed = dispatch.pushed
    BY <1>4, <1>7, NothingCommitted DEF DeliveryInv, JobTyped, DeliveryJobs
  <2>2. JobOnly BY <1>1, <1>2, <1>3, <2>1 DEF JobOnly, Amending
  <2> QED BY <2>2, JobOnlyGoes
<1>8. CASE delivery!Proceed
  <2>1. /\ JobTyped' /\ dispatch'.pc = "leftover" /\ dispatch'.mine = dispatch.mine
        /\ ~dispatch'.conflict /\ ~dispatch'.pushed
    BY <1>8, IdleIs, Constants DEF DeliveryInv, JobTyped, DeliveryJobs, delivery!Proceed
  <2>2. dispatch'.mine # None => dispatch.pc = "moved"
    BY <1>4, <2>1 DEF DeliveryInv, MineKept, Uncommitted
  <2>3. JobOnly BY <1>1, <1>2, <1>3, <1>4, <2>1, <2>2 DEF JobOnly, Uncommitted, Amending, Committing, AfterPush
  <2> QED BY <2>3, JobOnlyGoes
<1> QED BY <1>5, <1>6, <1>7, <1>8

LEMMA LeftoverGoes ==
    ASSUME DeliveryAssumption, DeliveryInv, NEW dirty \in BOOLEAN,
           delivery!Leftover(dirty) \/ delivery!ProbeClean(dirty) \/ delivery!CheckRebased(dirty)
    PROVE  StepGoes
<1>1. UNCHANGED <<head, rebasing, tracking, remote, tree, index, marker, run>>
  BY DEF delivery!Leftover, delivery!ProbeClean, delivery!CheckRebased,
         delivery!worktree, delivery!refs, delivery!ci
<1>2. TreeTyped' BY <1>1 DEF DeliveryInv, TreeTyped
<1>3. RestTyped'
  <2>1. Mishaps
    BY StatusCounts DEF Mishaps, delivery!Leftover, delivery!ProbeClean, delivery!CheckRebased
  <2> QED BY <1>1, <2>1, MishapsCounted DEF DeliveryInv
<1>4. \/ delivery!Refuse
      \/ ~dispatch.conflict /\ delivery!Goto("clean")
      \/ ~dispatch.conflict /\ delivery!Goto("fetch")
      \/ ~dispatch.conflict /\ delivery!Goto("push")
      \/ ~dispatch.conflict /\ dispatch.pc = "leftover" /\ dispatch.mine # None /\ delivery!Goto("absorb")
      \/ ~dispatch.conflict /\ dispatch.pc = "absorb" /\ dispatch.mine # None /\ delivery!Goto("restage")
      \/ delivery!Goto("abort")
  BY DEF delivery!Leftover, delivery!ProbeClean, delivery!CheckRebased, delivery!Absorbable, DeliveryInv, RebaseStopped
<1> QED BY <1>1, <1>2, <1>3, <1>4, RefuseGoes, GotoGoes DEF Uncommitted, Amending, Committing, AfterPush, Pcs

LEMMA CommitFailsGoes ==
    ASSUME DeliveryAssumption, DeliveryInv, delivery!CommitFails
    PROVE  StepGoes
<1>1. UNCHANGED <<head, rebasing, tracking, remote, tree, index, marker, run>> /\ Mishaps
  BY DEF delivery!CommitFails, delivery!worktree, delivery!refs, delivery!ci, Mishaps
<1>2. TreeTyped' /\ RestTyped' BY <1>1, MishapsCounted DEF DeliveryInv, TreeTyped
<1>3. ~dispatch.conflict /\ dispatch.pc = "commit" BY DEF DeliveryInv, RebaseStopped, delivery!CommitFails
<1>4. delivery!Goto("ahead") \/ delivery!Refuse BY DEF delivery!CommitFails
<1> QED BY <1>1, <1>2, <1>3, <1>4, RefuseGoes, GotoGoes DEF Uncommitted, Amending, Committing, AfterPush, Pcs

LEMMA RejectedGoes ==
    ASSUME DeliveryAssumption, DeliveryInv, delivery!PushRejected
    PROVE  StepGoes
<1>1. UNCHANGED <<head, rebasing, tracking, remote, tree, index, marker, run>> /\ Mishaps
  BY DEF delivery!PushRejected, delivery!worktree, delivery!refs, delivery!ci, Mishaps
<1>2. TreeTyped' /\ RestTyped' BY <1>1, MishapsCounted DEF DeliveryInv, TreeTyped
<1>3. ~dispatch.conflict /\ dispatch.pc = "push" BY DEF DeliveryInv, RebaseStopped, delivery!PushRejected
<1>4. CASE delivery!Refuse BY <1>1, <1>2, <1>4, RefuseGoes
<1>5. CASE dispatch.attempts < Retries /\ dispatch' = [dispatch EXCEPT !.pc = "pull", !.attempts = @ + 1]
  <2>1. Retries \in Nat /\ dispatch.attempts \in 0 .. Retries
    BY Constants DEF DeliveryInv, JobTyped, DeliveryJobs
  <2>2. dispatch.attempts + 1 \in 0 .. Retries BY <1>5, <2>1
  <2>3. /\ JobTyped' /\ dispatch'.pc = "pull" /\ dispatch'.mine = dispatch.mine
        /\ dispatch'.conflict = dispatch.conflict /\ dispatch'.pushed = dispatch.pushed
    BY <1>5, <2>2 DEF DeliveryInv, JobTyped, DeliveryJobs
  <2>4. JobOnly BY <1>1, <1>2, <1>3, <2>3 DEF JobOnly, Uncommitted, Amending, Committing, AfterPush
  <2> QED BY <2>4, JobOnlyGoes
<1> QED BY <1>4, <1>5 DEF delivery!PushRejected

LEMMA PullFailsGoes ==
    ASSUME DeliveryAssumption, DeliveryInv, delivery!PullFails
    PROVE  StepGoes
<1>1. UNCHANGED <<head, rebasing, tracking, remote, tree, index, marker, run>> /\ Mishaps
  BY DEF delivery!PullFails, delivery!worktree, delivery!refs, delivery!ci, Mishaps
<1>2. TreeTyped' /\ RestTyped' BY <1>1, MishapsCounted DEF DeliveryInv, TreeTyped
<1>3. ~dispatch.conflict /\ delivery!Goto("rebased")
  BY DEF DeliveryInv, RebaseStopped, delivery!PullFails
<1> QED BY <1>1, <1>2, <1>3, GotoGoes DEF Uncommitted, Amending, Committing, AfterPush, Pcs

LEMMA ReadHeadGoes ==
    ASSUME DeliveryAssumption, DeliveryInv, delivery!HeadAfterPush \/ delivery!HeadForCI
    PROVE  StepGoes
<1>1. UNCHANGED <<head, rebasing, tracking, remote, tree, index, marker, run, mishaps>>
  BY DEF delivery!HeadAfterPush, delivery!HeadForCI, delivery!worktree, delivery!refs, delivery!ci
<1>2. TreeTyped' /\ RestTyped' BY <1>1 DEF DeliveryInv, TreeTyped, RestTyped
<1>3. head \in H BY DEF DeliveryInv, RefsTyped
<1>4. /\ JobTyped' /\ dispatch'.mine = dispatch.mine
      /\ dispatch'.conflict = dispatch.conflict /\ dispatch'.pushed = dispatch.pushed
      /\ \/ dispatch.pc = "after" /\ dispatch'.pc = "verify"
         \/ dispatch.pc = "sha" /\ dispatch'.pc = "ci" /\ dispatch'.seen = dispatch.seen
  BY <1>3 DEF DeliveryInv, JobTyped, DeliveryJobs, delivery!HeadAfterPush, delivery!HeadForCI
<1>5. ~dispatch.conflict BY <1>4 DEF DeliveryInv, RebaseStopped
<1>6. JobOnly BY <1>1, <1>2, <1>4, <1>5 DEF JobOnly, Uncommitted, Amending, Committing, AfterPush
<1> QED BY <1>6, JobOnlyGoes

LEMMA CheckCIGoes ==
    ASSUME DeliveryAssumption, DeliveryInv,
           NEW conclusion \in {"none", "pending", "success", "failure"}, NEW old \in BOOLEAN,
           delivery!CheckCI(conclusion, old)
    PROVE  StepGoes
<1>1. /\ UNCHANGED <<head, rebasing, tracking, remote, tree, index, mishaps>>
      /\ dispatch.pc = "ci" /\ delivery!Answer(TRUE)
      /\ marker' \in {marker, dispatch.sha} /\ run' \in {run, conclusion}
  BY DEF delivery!CheckCI, delivery!worktree, delivery!refs, delivery!ci
<1>2. RestTyped' BY <1>1 DEF DeliveryInv, RestTyped, JobTyped, DeliveryJobs
<1> QED BY <1>1, <1>2, AnswerGoes

LEMMA KillGoes ==
    ASSUME DeliveryAssumption, DeliveryInv, delivery!Kill
    PROVE  StepGoes
<1>1. UNCHANGED <<head, rebasing, tracking, remote, tree, index, marker, run>> /\ Mishaps
  BY DEF delivery!Kill, delivery!worktree, delivery!refs, delivery!ci, Mishaps, delivery!Fails
<1>2. TreeTyped' /\ RestTyped' BY <1>1, MishapsCounted DEF DeliveryInv, TreeTyped
<1>3. dispatch' = delivery!Idle BY DEF delivery!Kill
<1>4. JobOnly BY <1>1, <1>2, <1>3, IdleIs DEF JobOnly, JobTyped, Amending
<1> QED BY <1>4, JobOnlyGoes

-----------------------------------------------------------------------------
(* Steps that move a history *)

LEMMA CommitGoes ==
    ASSUME DeliveryAssumption, DeliveryInv, delivery!Commit
    PROVE  StepGoes
<1>1. /\ dispatch.pc = "commit" /\ ~dispatch.conflict /\ dispatch.mine = None
      /\ UNCHANGED <<rebasing, tracking, remote, tree, marker, run, mishaps>>
  BY DEF delivery!Commit, delivery!Works, delivery!ci, DeliveryInv, RebaseStopped, MineKept, Uncommitted
<1>2. RestTyped' BY <1>1 DEF DeliveryInv, RestTyped
<1>3. CASE delivery!Goto("ahead") /\ UNCHANGED <<head, index>>
  <2>1. TreeTyped' BY <1>1, <1>3 DEF DeliveryInv, TreeTyped
  <2> QED BY <1>1, <1>2, <1>3, <2>1, GotoGoes DEF Uncommitted, Amending, Committing, AfterPush, Pcs
<1>4. CASE /\ head' = Append(head, index) /\ index' = {}
           /\ dispatch' = [dispatch EXCEPT !.pc = "moved", !.mine = index]
  <2>1. head \in H /\ index \in SUBSET EditsHere BY DEF DeliveryInv, RefsTyped, TreeTyped
  <2>2. /\ head' \in H /\ head' # <<>> /\ EditsOf(head') = EditsOf(head) \cup index
    BY <1>4, <2>1, CommitAdds
  <2>3. /\ JobTyped' /\ dispatch'.pc = "moved" /\ dispatch'.mine = index
        /\ ~dispatch'.conflict /\ dispatch'.pushed = dispatch.pushed
    <3>1. index \in Committable BY <2>1 DEF Committable
    <3> QED BY <1>1, <1>4, <3>1 DEF DeliveryInv, JobTyped, DeliveryJobs
  <2>4. TreeTyped' /\ RefsTyped' BY <1>1, <1>4, <2>2 DEF DeliveryInv, TreeTyped, RefsTyped
  <2>5. MineKept' BY <2>2, <2>3 DEF MineKept, Uncommitted, AfterPush, Amending
  <2>6. OriginKnown' BY <1>1, <2>3 DEF DeliveryInv, OriginKnown
  <2>7. RebaseStopped' BY <2>3 DEF RebaseStopped
  <2>8. Stays BY <1>1, <2>2 DEF Stays, KeptHere
  <2>9. Lands BY <2>3 DEF Lands
  <2> QED BY <1>2, <2>3, <2>4, <2>5, <2>6, <2>7, <2>8, <2>9 DEF StepGoes, DeliveryInv
<1> QED BY <1>3, <1>4 DEF delivery!Commit

LEMMA AmendGoes ==
    ASSUME DeliveryAssumption, DeliveryInv, delivery!Amend
    PROVE  StepGoes
<1>1. /\ dispatch.pc = "amend" /\ ~dispatch.conflict
      /\ UNCHANGED <<rebasing, tracking, remote, tree, marker, run>> /\ Mishaps
  BY DEF delivery!Amend, Mishaps, delivery!ci, DeliveryInv, RebaseStopped
<1>2. RestTyped' BY <1>1, MishapsCounted DEF DeliveryInv
<1>3. CASE delivery!Goto("recheck") /\ UNCHANGED <<head, index>>
  <2>1. TreeTyped' BY <1>1, <1>3 DEF DeliveryInv, TreeTyped
  <2> QED BY <1>1, <1>2, <1>3, <2>1, GotoGoes DEF Uncommitted, Amending, Committing, AfterPush, Pcs
<1>4. CASE /\ head' = Append(delivery!Front(head), delivery!Last(head) \cup index) /\ index' = {}
           /\ dispatch' = [dispatch EXCEPT !.pc = "recheck", !.mine = @ \cup index]
  <2>1. head \in H /\ index \in SUBSET EditsHere BY DEF DeliveryInv, RefsTyped, TreeTyped
  <2>2. dispatch.mine # None /\ head # <<>> /\ dispatch.mine \subseteq EditsOf(head)
    BY <1>1 DEF DeliveryInv, MineKept, Amending, Committing
  <2>3. head' \in H /\ head' # <<>> /\ EditsOf(head) \cup index \subseteq EditsOf(head')
    <3>1. head' = Amended(head, index) BY <1>4 DEF Amended
    <3> QED BY <2>1, <2>2, <3>1, AmendAdds
  <2>4. /\ JobTyped' /\ dispatch'.pc = "recheck" /\ dispatch'.mine = dispatch.mine \cup index
        /\ ~dispatch'.conflict /\ dispatch'.pushed = dispatch.pushed
    <3>1. dispatch.mine \in Committable BY DEF DeliveryInv, JobTyped, DeliveryJobs
    <3>2. dispatch.mine \cup index \in Committable BY <2>1, <2>2, <3>1 DEF Committable
    <3> QED BY <1>1, <1>4, <3>2 DEF DeliveryInv, JobTyped, DeliveryJobs
  <2>5. TreeTyped' /\ RefsTyped' BY <1>1, <1>4, <2>3 DEF DeliveryInv, TreeTyped, RefsTyped
  <2>6. MineKept' BY <2>2, <2>3, <2>4 DEF MineKept, Uncommitted, AfterPush, Amending, Committing
  <2>7. OriginKnown' BY <1>1, <2>4 DEF DeliveryInv, OriginKnown
  <2>8. RebaseStopped' BY <2>4 DEF RebaseStopped
  <2>9. Stays BY <1>1, <2>3 DEF Stays, KeptHere
  <2>10. Lands BY <2>4 DEF Lands
  <2> QED BY <1>2, <2>4, <2>5, <2>6, <2>7, <2>8, <2>9, <2>10 DEF StepGoes, DeliveryInv
<1> QED BY <1>3, <1>4 DEF delivery!Amend

\* Steps that learn what origin has.
LEMMA FetchGoes ==
    ASSUME DeliveryAssumption, DeliveryInv, delivery!Fetch
    PROVE  StepGoes
<1>1. /\ dispatch.pc = "fetch" /\ ~dispatch.conflict /\ delivery!Goto("push")
      /\ UNCHANGED <<head, rebasing, remote, tree, index, marker, run>> /\ Mishaps
      /\ tracking' \in {tracking, remote}
  BY DEF delivery!Fetch, delivery!FetchOrNot, Mishaps, delivery!worktree, delivery!ci, DeliveryInv, RebaseStopped
<1>2. RestTyped' BY <1>1, MishapsCounted DEF DeliveryInv
<1>3. TreeTyped' /\ RefsTyped' BY <1>1 DEF DeliveryInv, TreeTyped, RefsTyped
<1>4. /\ JobTyped' /\ dispatch'.pc = "push" /\ dispatch'.mine = dispatch.mine
      /\ ~dispatch'.conflict /\ dispatch'.pushed = dispatch.pushed
  BY <1>1, GotoIs DEF DeliveryInv, Pcs
<1>5. MineKept'
  BY <1>1, <1>4 DEF DeliveryInv, MineKept, Uncommitted, AfterPush, Amending, Committing
<1>6. OriginKnown' BY <1>1, <1>4, PastItself DEF DeliveryInv, OriginKnown, RefsTyped
<1>7. RebaseStopped' BY <1>4 DEF RebaseStopped
<1>8. Stays BY <1>1 DEF Stays, KeptHere
<1>9. Lands BY <1>4 DEF Lands
<1> QED BY <1>2, <1>3, <1>4, <1>5, <1>6, <1>7, <1>8, <1>9 DEF StepGoes, DeliveryInv

LEMMA PushGoes ==
    ASSUME DeliveryAssumption, DeliveryInv, delivery!Push
    PROVE  StepGoes
<1>1. /\ dispatch.pc = "push" /\ ~dispatch.conflict /\ delivery!Goto("after")
      /\ UNCHANGED <<head, rebasing, tree, index, marker, run, mishaps>>
      /\ remote' = head /\ tracking' = head /\ Past(remote, head)
  BY DEF delivery!Push, delivery!worktree, delivery!ci, DeliveryInv, RebaseStopped, Past
<1>2. TreeTyped' /\ RefsTyped' /\ RestTyped'
  BY <1>1 DEF DeliveryInv, TreeTyped, RefsTyped, RestTyped
<1>3. /\ JobTyped' /\ dispatch'.pc = "after" /\ dispatch'.mine = dispatch.mine
      /\ ~dispatch'.conflict /\ dispatch'.pushed = dispatch.pushed
  BY <1>1, GotoIs DEF DeliveryInv, Pcs
<1>4. MineKept'
  BY <1>1, <1>3 DEF DeliveryInv, MineKept, Uncommitted, AfterPush, Amending, Committing
<1>5. OriginKnown' BY <1>1, <1>3, PastItself DEF DeliveryInv, OriginKnown, RefsTyped
<1>6. RebaseStopped' BY <1>3 DEF RebaseStopped
<1>7. EditsOf(remote) \subseteq EditsOf(head) BY <1>1, PastKeeps DEF DeliveryInv, RefsTyped
<1>8. Stays BY <1>1, <1>7 DEF Stays, KeptHere
<1>9. Lands BY <1>3 DEF Lands
<1> QED BY <1>2, <1>3, <1>4, <1>5, <1>6, <1>8, <1>9 DEF StepGoes, DeliveryInv

LEMMA VerifyGoes ==
    ASSUME DeliveryAssumption, DeliveryInv, delivery!VerifyLanded
    PROVE  StepGoes
<1>1. /\ dispatch.pc = "verify" /\ ~dispatch.conflict
      /\ UNCHANGED <<head, rebasing, remote, tree, index, marker, run>> /\ Mishaps
      /\ tracking' \in {tracking, remote}
  BY DEF delivery!VerifyLanded, delivery!FetchOrNot, Mishaps, delivery!worktree, delivery!ci,
         DeliveryInv, RebaseStopped
<1>2. RestTyped' BY <1>1, MishapsCounted DEF DeliveryInv
<1>3. TreeTyped' /\ RefsTyped' BY <1>1 DEF DeliveryInv, TreeTyped, RefsTyped
<1>4. Past(tracking', remote') BY <1>1, PastItself DEF DeliveryInv, OriginKnown, RefsTyped
<1>5. Stays BY <1>1 DEF Stays, KeptHere
<1>6. ASSUME NEW b \in BOOLEAN, b => tracking' = dispatch.seen, delivery!Answer(b) PROVE StepGoes
  <2>1. /\ JobTyped' /\ dispatch'.pc = "idle" /\ dispatch'.mine = None
        /\ dispatch'.conflict = FALSE /\ dispatch'.pushed = b
    BY <1>6, IdleIs DEF JobTyped, delivery!Answer, DeliveryJobs
  <2>2. MineKept' BY <2>1 DEF MineKept, Amending
  <2>3. OriginKnown' BY <1>4, <2>1 DEF OriginKnown
  <2>4. RebaseStopped' BY <2>1 DEF RebaseStopped
  <2>5. Lands BY <1>1, <1>4, <1>6, <2>1 DEF Lands, DeliveryInv, MineKept, AfterPush
  <2> QED BY <1>2, <1>3, <1>5, <2>1, <2>2, <2>3, <2>4, <2>5 DEF StepGoes, DeliveryInv
<1>7. CASE tracking' = dispatch.seen /\ delivery!Goto("sha")
  <2>1. /\ JobTyped' /\ dispatch'.pc = "sha" /\ dispatch'.mine = dispatch.mine
        /\ ~dispatch'.conflict /\ dispatch'.pushed = dispatch.pushed /\ dispatch'.seen = dispatch.seen
    BY <1>1, <1>7, GotoIs DEF DeliveryInv, Pcs
  <2>2. MineKept'
    BY <1>1, <2>1 DEF DeliveryInv, MineKept, Uncommitted, AfterPush, Amending, Committing
  <2>3. OriginKnown' BY <1>1, <1>4, <1>7, <2>1 DEF OriginKnown
  <2>4. RebaseStopped' BY <2>1 DEF RebaseStopped
  <2>5. Lands BY <2>1 DEF Lands
  <2> QED BY <1>2, <1>3, <1>5, <2>1, <2>2, <2>3, <2>4, <2>5 DEF StepGoes, DeliveryInv
<1> QED BY <1>6, <1>7 DEF delivery!VerifyLanded, delivery!Refuse

LEMMA PullGoes ==
    ASSUME DeliveryAssumption, DeliveryInv, delivery!PullRebase
    PROVE  StepGoes
<1>1. /\ dispatch.pc = "pull" /\ ~dispatch.conflict /\ rebasing = None
      /\ UNCHANGED <<index, remote, marker, run, mishaps>> /\ tracking' = remote
  BY DEF delivery!PullRebase, delivery!Works, delivery!ci, DeliveryInv, RebaseStopped
<1>2. RestTyped' BY <1>1 DEF DeliveryInv, RestTyped
<1>3. head \in H /\ remote \in H /\ None \notin H BY Constants DEF DeliveryInv, RefsTyped
<1>4. Past(tracking', remote') BY <1>1, <1>3, PastItself
<1>5. CASE /\ head' = remote \o SubSeq(head, delivery!Shared + 1, Len(head))
           /\ delivery!Goto("rebased") /\ UNCHANGED <<tree, rebasing>>
  <2>1. head' \in H /\ EditsOf(head) \subseteq EditsOf(head') BY <1>3, <1>5, RebaseKeeps
  <2>2. /\ JobTyped' /\ dispatch'.pc = "rebased" /\ dispatch'.mine = dispatch.mine
        /\ ~dispatch'.conflict /\ dispatch'.pushed = dispatch.pushed
    BY <1>1, <1>5, GotoIs DEF DeliveryInv, Pcs
  <2>3. TreeTyped' /\ RefsTyped' BY <1>1, <1>3, <1>5, <2>1 DEF DeliveryInv, TreeTyped, RefsTyped
  <2>4. MineKept'
    BY <1>1, <2>1, <2>2 DEF DeliveryInv, MineKept, Uncommitted, AfterPush, Amending, Committing
  <2>5. OriginKnown' BY <1>4, <2>2 DEF OriginKnown
  <2>6. RebaseStopped' BY <2>2 DEF RebaseStopped
  <2>7. Stays BY <1>1, <1>5, <2>1 DEF Stays, KeptHere
  <2>8. Lands BY <2>2 DEF Lands
  <2> QED BY <1>2, <2>2, <2>3, <2>4, <2>5, <2>6, <2>7, <2>8 DEF StepGoes, DeliveryInv
<1>6. CASE /\ delivery!Clashing # {}
           /\ head' = remote \o SubSeq(head, delivery!Shared + 1, delivery!Min(delivery!Clashing) - 1)
           /\ tree' = head[delivery!Min(delivery!Clashing)] \cup {Markers}
           /\ rebasing' = head
           /\ dispatch' = [dispatch EXCEPT !.pc = "rebased", !.conflict = TRUE]
  <2>1. /\ head' \in H /\ EditsOf(head') \subseteq EditsOf(head) \cup EditsOf(remote)
        /\ head[delivery!Min(delivery!Clashing)] \subseteq EditsHere
    BY <1>3, <1>6, StoppedRebaseIsPart
  <2>2. /\ JobTyped' /\ dispatch'.pc = "rebased" /\ dispatch'.mine = dispatch.mine
        /\ dispatch'.conflict /\ dispatch'.pushed = dispatch.pushed
    BY <1>6 DEF DeliveryInv, JobTyped, DeliveryJobs
  <2>3. tree' \in SUBSET EditsHere BY <1>6, <2>1 DEF EditsHere
  <2>4. TreeTyped' /\ RefsTyped'
    BY <1>1, <1>3, <1>6, <2>1, <2>3 DEF DeliveryInv, TreeTyped, RefsTyped
  <2>5. MineKept'
    BY <1>1, <2>2 DEF DeliveryInv, MineKept, Uncommitted, AfterPush, Amending, Committing
  <2>6. OriginKnown' BY <1>4, <2>2 DEF OriginKnown
  <2>7. RebaseStopped' BY <1>1, <1>3, <1>6, <2>1, <2>2 DEF RebaseStopped
  <2>8. Stays BY <1>1, <1>3, <1>6 DEF Stays, KeptHere
  <2>9. Lands BY <2>2 DEF Lands
  <2> QED BY <1>2, <2>2, <2>4, <2>5, <2>6, <2>7, <2>8, <2>9 DEF StepGoes, DeliveryInv
<1> QED BY <1>5, <1>6 DEF delivery!PullRebase

LEMMA AbortGoes ==
    ASSUME DeliveryAssumption, DeliveryInv, delivery!AbortRebase
    PROVE  StepGoes
<1>1. /\ dispatch.pc = "abort" /\ delivery!Refuse
      /\ UNCHANGED <<tracking, remote, marker, run, mishaps>>
  BY DEF delivery!AbortRebase, delivery!ci
<1>2. RestTyped' BY <1>1 DEF DeliveryInv, RestTyped
<1>3. CASE UNCHANGED <<tree, index, head, rebasing>> BY <1>1, <1>2, <1>3, RefuseGoes
<1>4. CASE rebasing # None /\ tree' = {} /\ index' = {} /\ head' = rebasing /\ rebasing' = None
  <2>1. TreeTyped' /\ RefsTyped' BY <1>1, <1>4 DEF DeliveryInv, TreeTyped, RefsTyped
  <2>2. /\ JobTyped' /\ dispatch'.pc = "idle" /\ dispatch'.mine = None
        /\ dispatch'.conflict = FALSE /\ dispatch'.pushed = FALSE
    BY <1>1, IdleIs DEF JobTyped, delivery!Answer, delivery!Refuse, DeliveryJobs
  <2>3. MineKept' BY <2>2 DEF MineKept, Amending
  <2>4. OriginKnown' BY <1>1, <2>2 DEF DeliveryInv, OriginKnown
  <2>5. RebaseStopped' BY <2>2 DEF RebaseStopped
  <2>6. Stays BY <1>1, <1>4 DEF Stays, KeptHere, DeliveryInv, RebaseStopped
  <2>7. Lands BY <2>2 DEF Lands
  <2> QED BY <1>2, <2>1, <2>2, <2>3, <2>4, <2>5, <2>6, <2>7 DEF StepGoes, DeliveryInv
<1> QED BY <1>3, <1>4 DEF delivery!AbortRebase, delivery!worktree

-----------------------------------------------------------------------------
(* Everybody else *)

LEMMA OthersGo ==
    ASSUME DeliveryAssumption, DeliveryInv, UNCHANGED <<dispatch, rebasing, tracking>>,
           TreeTyped', RestTyped', head' \in H, remote' \in H, Past(head, head'), Past(remote, remote'),
           head' = head \/ rebasing = None
    PROVE  StepGoes
<1>1. head \in H /\ remote \in H /\ tracking \in H /\ None \notin H
  BY Constants DEF DeliveryInv, RefsTyped
<1>2. EditsOf(head) \subseteq EditsOf(head') /\ EditsOf(remote) \subseteq EditsOf(remote')
  BY <1>1, PastKeeps
<1>3. head # <<>> => head' # <<>>
  <2>1. <<>> \in H /\ Len(head) \in Nat /\ (head # <<>> => Len(head) # 0) BY <1>1, Constants DEF H
  <2>2. Len(head) <= Len(head') BY <1>1, PastIs
  <2> QED BY <2>1, <2>2
<1>4. JobTyped' /\ RefsTyped' BY DEF DeliveryInv, JobTyped, RefsTyped
<1>5. MineKept' BY <1>2, <1>3 DEF DeliveryInv, MineKept
<1>6. OriginKnown'
  <2>1. Past(tracking', remote') BY <1>1, PastGrows DEF DeliveryInv, OriginKnown
  <2>2. dispatch.seen \in H BY DEF DeliveryInv, JobTyped, DeliveryJobs
  <2>3. dispatch'.pc \in {"sha", "ci"} => Past(dispatch'.seen, remote')
    BY <1>1, <2>2, PastGrows DEF DeliveryInv, OriginKnown
  <2> QED BY <2>1, <2>3 DEF OriginKnown
<1>7. RebaseStopped' BY <1>1, <1>2 DEF DeliveryInv, RebaseStopped
<1>8. Stays BY <1>2 DEF Stays, KeptHere
<1>9. Lands BY DEF Lands
<1> QED BY <1>4, <1>5, <1>6, <1>7, <1>8, <1>9 DEF StepGoes, DeliveryInv

LEMMA StillGoes ==
    ASSUME DeliveryAssumption, DeliveryInv,
           UNCHANGED <<dispatch, head, rebasing, tracking, remote>>, TreeTyped', RestTyped'
    PROVE  StepGoes
<1>1. head \in H /\ remote \in H BY DEF DeliveryInv, RefsTyped
<1> QED BY <1>1, OthersGo, PastItself

LEMMA EditGoes ==
    ASSUME DeliveryAssumption, DeliveryInv, NEW e \in Mine, delivery!Edit(e)
    PROVE  StepGoes
<1>1. /\ UNCHANGED <<dispatch, head, rebasing, tracking, remote, index, marker, run, mishaps>>
      /\ tree' = tree \cup {e}
  BY DEF delivery!Edit, delivery!refs, delivery!ci
<1>2. TreeTyped' /\ RestTyped' BY <1>1 DEF DeliveryInv, TreeTyped, RestTyped, EditsHere
<1> QED BY <1>1, <1>2, StillGoes

LEMMA RunsGo ==
    ASSUME DeliveryAssumption, DeliveryInv,
           delivery!RunStarts \/ \E conclusion \in {"success", "failure"} : delivery!RunEnds(conclusion)
    PROVE  StepGoes
<1>1. /\ UNCHANGED <<dispatch, head, rebasing, tracking, remote, tree, index, marker, mishaps>>
      /\ run' \in {"pending", "success", "failure"}
  BY DEF delivery!RunStarts, delivery!RunEnds, delivery!worktree, delivery!refs
<1>2. TreeTyped' /\ RestTyped' BY <1>1 DEF DeliveryInv, TreeTyped, RestTyped
<1> QED BY <1>1, <1>2, StillGoes

LEMMA ByHandGoes ==
    ASSUME DeliveryAssumption, DeliveryInv, delivery!CommitByHand
    PROVE  StepGoes
<1>1. /\ UNCHANGED <<dispatch, rebasing, tracking, remote, marker, run, mishaps>> /\ rebasing = None
      /\ head' = Append(head, tree \cup index) /\ tree' = {} /\ index' = {}
  BY DEF delivery!CommitByHand, delivery!ci
<1>2. TreeTyped' /\ RestTyped' BY <1>1 DEF DeliveryInv, TreeTyped, RestTyped
<1>3. head \in H /\ remote \in H /\ tree \cup index \in SUBSET EditsHere
  BY DEF DeliveryInv, RefsTyped, TreeTyped
<1>4. head' \in H /\ Past(head, head') BY <1>1, <1>3, CommitAdds
<1> QED BY <1>1, <1>2, <1>3, <1>4, OthersGo, PastItself

LEMMA ElsewhereGoes ==
    ASSUME DeliveryAssumption, DeliveryInv, NEW e \in Theirs, delivery!PushFromElsewhere(e)
    PROVE  StepGoes
<1>1. /\ UNCHANGED <<dispatch, head, rebasing, tracking, tree, index, marker, run, mishaps>>
      /\ remote' = Append(remote, {e})
  BY DEF delivery!PushFromElsewhere, delivery!worktree, delivery!refs, delivery!ci
<1>2. TreeTyped' /\ RestTyped' BY <1>1 DEF DeliveryInv, TreeTyped, RestTyped
<1>3. head \in H /\ remote \in H /\ {e} \in SUBSET EditsHere BY DEF DeliveryInv, RefsTyped, EditsHere
<1>4. remote' \in H /\ Past(remote, remote') BY <1>1, <1>3, CommitAdds
<1> QED BY <1>1, <1>2, <1>3, <1>4, OthersGo, PastItself

LEMMA DeliveryGoes ==
    ASSUME DeliveryAssumption, DeliveryInv, delivery!Next
    PROVE  StepGoes
<1>1. CASE delivery!Step
  BY <1>1, ProbeGoes, AddGoes, CommitGoes, CommitFailsGoes, CheckMovedGoes, LeftoverGoes, AmendGoes,
     FetchGoes, PushGoes, RejectedGoes, PullGoes, PullFailsGoes, AbortGoes, ReadHeadGoes, VerifyGoes,
     CheckCIGoes DEF delivery!Step, delivery!Runs
<1> QED BY <1>1, StartGoes, EditGoes, ByHandGoes, ElsewhereGoes, RunsGo, KillGoes
        DEF delivery!Next, delivery!Verbs

-----------------------------------------------------------------------------
(* Both layers *)

GitNext == Replay(Next) \/ Deliver(delivery!Next)

LEMMA ReplayKeeps == ASSUME IInv, [GitNext]_all PROVE IInv'
<1>1. [Next]_vars BY DEF GitNext, Replay, Deliver, all
<1> QED BY <1>1, StepKeeps

LEMMA DeliverGoes == ASSUME DeliveryAssumption, DeliveryInv, [GitNext]_all PROVE StepGoes
<1>1. CASE UNCHANGED clone
  <2>1. UNCHANGED <<dispatch, head, rebasing, tracking, remote, tree, index, marker, run, mishaps>>
    BY <1>1 DEF clone
  <2>2. TreeTyped' /\ RestTyped' BY <2>1 DEF DeliveryInv, TreeTyped, RestTyped
  <2> QED BY <2>1, <2>2, StillGoes
<1> QED BY <1>1, DeliveryGoes DEF GitNext, Replay, Deliver, all

\* The values of both layers stay of their types.
THEOREM TypeCorrect ==
    ASSUME DeliveryAssumption
    PROVE  GitSpec => [](TypeOK /\ delivery!TypeOK)
<1>1. GitInit => IInv /\ DeliveryInv BY InitIInv, InitDelivers DEF GitInit
<1>2. IInv /\ DeliveryInv /\ [GitNext]_all => IInv' /\ DeliveryInv'
  BY ReplayKeeps, DeliverGoes DEF StepGoes
<1>3. IInv => TypeOK BY DEF IInv
<1>4. DeliveryInv => delivery!TypeOK
  <2> SUFFICES ASSUME DeliveryInv PROVE delivery!TypeOK OBVIOUS
  <2>1. /\ tree \subseteq EditsHere /\ index \subseteq EditsHere
        /\ head \in H /\ tracking \in H /\ remote \in H
        /\ rebasing \in H \cup {None} /\ marker \in H \cup {None}
        /\ run \in {"none", "pending", "success", "failure"} /\ mishaps \in 0 .. MaxMishaps
    BY DEF DeliveryInv, TreeTyped, RefsTyped, RestTyped
  <2>2. /\ dispatch.pc \in Pcs /\ dispatch.verb \in {"finalize", "push"}
        /\ dispatch.mine \in Committable /\ dispatch.attempts \in 0 .. Retries
        /\ dispatch.pushed \in BOOLEAN
    BY DEF DeliveryInv, JobTyped, DeliveryJobs, Pcs
  <2> QED BY <2>1, <2>2, HistoriesAre
          DEF delivery!TypeOK, delivery!Runs, delivery!Verbs, Pcs, Committable
<1> QED BY <1>1, <1>2, <1>3, <1>4, PTL DEF GitSpec, GitNext

\* What git_step_replayed_by_call_order and git_poll make the host execute is
\* one run of the verb, without a call twice, and what git_async_entry answers
\* comes from that run, whatever is killed in between.
THEOREM EachCallRunsOnce == GitSpec => []RunsOnce
<1>1. IInv => RunsOnce
  <2> SUFFICES ASSUME IInv, NEW c \in Callers
               PROVE  /\ \A i \in 1 .. Len(ran[c]) - 1 : ~Ended(SubSeq(ran[c], 1, i))
                      /\ Len(ran[c]) <= Length
                      /\ answered[c] # None => answered[c] = ran[c] /\ Ended(ran[c])
    BY DEF RunsOnce
  <2>1. Partial(ran[c]) BY RunsPartial DEF IInv
  <2>2. Len(ran[c]) <= Length BY <2>1, RunsAreSeqs DEF Partial
  <2>3. answered[c] # None => AtOver(c) BY DEF IInv, Where
  <2> QED BY <2>1, <2>2, <2>3 DEF Partial, AtOver
<1>2. GitInit => IInv BY InitIInv DEF GitInit
<1>3. IInv /\ [GitNext]_all => IInv' BY ReplayKeeps
<1> QED BY <1>1, <1>2, <1>3, PTL DEF GitSpec, GitNext

\* What git_finalize and git_push answer as pushed is on origin: the HEAD verify_push_landed
\* compared, and all the dispatch itself committed, rebased or amended.
THEOREM AnsweredMeansOnOrigin ==
    ASSUME DeliveryAssumption
    PROVE  GitSpec => PushedMeansLanded
<1>1. GitInit => DeliveryInv BY InitDelivers DEF GitInit
<1>2. DeliveryInv /\ [GitNext]_all => DeliveryInv' BY DeliverGoes DEF StepGoes
<1>3. ASSUME DeliveryInv, [GitNext]_all
      PROVE  [dispatch'.pushed /\ ~dispatch.pushed =>
                /\ delivery!IsPrefix(dispatch.seen, remote)
                /\ dispatch.mine = None \/ dispatch.mine \subseteq delivery!EditsOf(remote)]_delivery!vars
  BY <1>3, DeliverGoes DEF StepGoes, Lands, Past, EditsOf
<1> QED BY <1>1, <1>2, <1>3, PTL DEF GitSpec, GitNext, PushedMeansLanded, delivery!PushedMeansLanded

\* What was committed stays in HEAD, in the HEAD a stopped rebase is aborted to, or on origin,
\* through amends, pushes, rebases and aborts (git_push), unless an abort meets a rebase
\* that a killed dispatch left.
THEOREM CommitsAreNotLost ==
    ASSUME DeliveryAssumption
    PROVE  GitSpec => CommittedStays
<1>1. GitInit => DeliveryInv BY InitDelivers DEF GitInit
<1>2. DeliveryInv /\ [GitNext]_all => DeliveryInv' BY DeliverGoes DEF StepGoes
<1>3. ASSUME DeliveryInv, [GitNext]_all
      PROVE  [LET kept == delivery!EditsOf(head) \cup delivery!EditsOf(remote)
                            \cup (IF rebasing = None THEN {} ELSE delivery!EditsOf(rebasing))
              IN ~(dispatch.pc = "abort" /\ ~dispatch.conflict) => kept \subseteq kept']_delivery!vars
  BY <1>3, DeliverGoes DEF StepGoes, Stays, KeptHere, EditsOf
<1> QED BY <1>1, <1>2, <1>3, PTL DEF GitSpec, GitNext, CommittedStays, delivery!CommittedStays
=============================================================================
