------------------------------ MODULE EntryCache ------------------------------
(***************************************************************************)
(* One namespace of the generic cache, the table cache_entries of gm.db    *)
(* (cache.rs and the cache verbs of wasm_dispatch/verbs.rs).  Every        *)
(* operation is a few statements, each atomic, and users of different      *)
(* processes interleave between them.  A put is one upsert and then the    *)
(* pass that brings the namespace back under its budgets: delete what has  *)
(* expired, select everything by the time of its last use, and delete one  *)
(* after another what is past a budget.  A get selects and then touches.   *)
(*                                                                         *)
(* A refused call (an empty name, a value over the limit, a lifetime that  *)
(* is not positive, a database that does not open) changes nothing.  All   *)
(* calls come with the same budgets, though each may state its own.        *)
(***************************************************************************)
EXTENDS Integers, FiniteSetsExt, SequencesExt

CONSTANTS
    CacheKeys, Users,
    Values,         \* what is cached
    Bytes,          \* the size of each value
    MaxValueBytes, MaxCacheEntries, MaxCacheBytes,  \* CacheConfig
    Forever,        \* the ttl_ms of a put that states none
    MaxPuts,        \* bound on the puts
    CacheSettings,  \* [alone, faults, lifetimes, until]: whether users work one after
                    \* another, each at a time of its own; the statements that may fail;
                    \* the ttl_ms of the puts; a bound on the clock
    None

EntryCacheAssumption ==
    /\ Bytes \in [Values -> Nat]
    /\ MaxCacheEntries \in Nat \ {0}
    /\ MaxValueBytes \in Nat /\ MaxCacheBytes \in Nat /\ MaxValueBytes <= MaxCacheBytes
    /\ \A s \in CacheSettings :
          /\ s.alone \in BOOLEAN /\ s.until \in Nat
          /\ s.faults \subseteq {"purge", "select", "delete", "touch"}
          /\ s.lifetimes \subseteq Nat \cup {Forever}
    /\ None \notin [value : Values, expires : Nat \cup {Forever}, used : Nat]
    /\ None \notin [key : CacheKeys, expires : Nat \cup {Forever}]

VARIABLES
    entries,    \* the rows: [value, expires, used], None where there is no row
    time,
    user,       \* what each user is doing: [pc, key, since, victims]
    puts,       \* the puts so far
    latest,     \* history: the last put, [key, expires], None once it was invalidated
    usage       \* the setting

cacheVars == <<entries, time, user, puts, latest, usage>>

Away == [pc |-> "away", key |-> None, since |-> 0, victims |-> {}]

FromCache(s) ==
    /\ entries = [k \in CacheKeys |-> None]
    /\ time = 0 /\ puts = 0 /\ latest = None
    /\ user = [u \in Users |-> Away]
    /\ usage = s

-----------------------------------------------------------------------------
Rows == {k \in CacheKeys : entries[k] # None}
Dead(expires) == expires # Forever /\ expires <= time

\* A get, or the count of stats, sees a row only while it lives, whoever has swept.
Live == {k \in Rows : ~Dead(entries[k].expires)}

SizeOf(K) == FoldSet(LAMBDA k, sum : sum + Bytes[entries[k].value], 0, K)

\* Newest first; rows of one instant come in any order.
Orders == {s \in SetToSeqs(Rows) : \A i, j \in DOMAIN s :
             i < j => entries[s[i]].used >= entries[s[j]].used}

\* Mutant: the oldest are kept.
KeptOldest(order) ==
    FoldLeft(LAMBDA kept, i :
                IF i > MaxCacheEntries
                   \/ SizeOf(kept) + Bytes[entries[Reverse(order)[i]].value] > MaxCacheBytes
                THEN kept ELSE kept \cup {Reverse(order)[i]},
             {}, [i \in DOMAIN order |-> i])

\* enforce_budget walks the rows: one too many or too big for what is left goes, and a
\* smaller one behind it may still fit.
Kept(order) ==
    FoldLeft(LAMBDA kept, i :
                IF i > MaxCacheEntries \/ SizeOf(kept) + Bytes[entries[order[i]].value] > MaxCacheBytes
                THEN kept ELSE kept \cup {order[i]},
             {}, [i \in DOMAIN order |-> i])

-----------------------------------------------------------------------------
Does(u, job) == user' = [user EXCEPT ![u] = job]
Ends(u) == Does(u, Away)
Proceeds(u, pc) == Does(u, [user[u] EXCEPT !.pc = pc])
Fails(statement) == statement \in usage.faults

\* A user who works alone waits for the others and for the next instant.
Comes(u) ==
    /\ user[u] = Away
    /\ usage.alone => \A v \in Users : user[v] = Away
    /\ usage.alone => \A k \in Rows : entries[k].used < time

\* put, up to the upsert: a new value is a new entry.
Put(u, k, v, ttl) ==
    /\ Comes(u)
    /\ puts < MaxPuts /\ puts' = puts + 1
    /\ Bytes[v] <= MaxValueBytes
    /\ ttl # 0
    /\ latest' = [key |-> k, expires |-> IF ttl = Forever THEN Forever ELSE time + ttl]
    /\ entries' = [entries EXCEPT ![k] = [value |-> v, expires |-> latest'.expires, used |-> time]]
    /\ Does(u, [Away EXCEPT !.pc = "purge"])
    /\ UNCHANGED <<time, usage>>

\* enforce_budget: a purge that fails is passed over.
Purge(u) ==
    /\ user[u].pc = "purge"
    /\ \/ entries' = [k \in CacheKeys |-> IF k \in Live THEN entries[k] ELSE None]
       \/ Fails("purge") /\ UNCHANGED entries
    /\ Proceeds(u, "select")
    /\ UNCHANGED <<time, puts, latest, usage>>

SelectVictims(u) ==
    /\ user[u].pc = "select"
    /\ \/ \E order \in Orders :
            Does(u, [user[u] EXCEPT !.pc = "delete", !.victims = Rows \ Kept(order)])
       \/ Fails("select") /\ Ends(u)
    /\ UNCHANGED <<entries, time, puts, latest, usage>>

\* A victim goes by its key, whatever is stored under it by now.
Evict(u) ==
    /\ user[u].pc = "delete" /\ user[u].victims # {}
    /\ \E k \in user[u].victims :
          /\ \/ entries' = [entries EXCEPT ![k] = None]
             \/ Fails("delete") /\ UNCHANGED entries
          /\ Does(u, [user[u] EXCEPT !.victims = @ \ {k}])
    /\ UNCHANGED <<time, puts, latest, usage>>

Evicted(u) ==
    /\ user[u].pc = "delete" /\ user[u].victims = {}
    /\ Ends(u)
    /\ UNCHANGED <<entries, time, puts, latest, usage>>

\* get: a hit is touched in a statement of its own; a miss ends here.
Get(u, k) ==
    /\ Comes(u) /\ k \in Live
    /\ Does(u, [Away EXCEPT !.pc = "touch", !.key = k, !.since = time])
    /\ UNCHANGED <<entries, time, puts, latest, usage>>

\* invalidate looks first, to say whether there was a live entry.
Invalidate(u, k) ==
    /\ Comes(u)
    /\ Does(u, [Away EXCEPT !.pc = IF k \in Live THEN "look" ELSE "remove",
                            !.key = k, !.since = time])
    /\ UNCHANGED <<entries, time, puts, latest, usage>>

\* A row that is gone is not touched, one that was written anew is.
Touch(u) ==
    LET k == user[u].key IN
    /\ user[u].pc \in {"touch", "look"}
    /\ \/ entries' = [entries EXCEPT ![k] = IF @ = None THEN None ELSE [@ EXCEPT !.used = user[u].since]]
       \/ Fails("touch") /\ UNCHANGED entries
    /\ IF user[u].pc = "touch" THEN Ends(u) ELSE Proceeds(u, "remove")
    /\ UNCHANGED <<time, puts, latest, usage>>

DropOne(u) ==
    /\ user[u].pc = "remove"
    /\ entries' = [entries EXCEPT ![user[u].key] = None]
    /\ latest' = IF latest # None /\ latest.key = user[u].key THEN None ELSE latest
    /\ Ends(u)
    /\ UNCHANGED <<time, puts, usage>>

\* invalidate_namespace; the count before it changes nothing.
DropAll(u) ==
    /\ Comes(u)
    /\ entries' = [k \in CacheKeys |-> None]
    /\ latest' = None
    /\ UNCHANGED <<time, user, puts, usage>>

\* The clock stands still at the bound.
TimePasses ==
    /\ time' = Min({time + 1, usage.until})
    /\ UNCHANGED <<entries, user, puts, latest, usage>>

\* Whoever finds gm.db malformed takes the rows of the cache with it.
TakeEntries ==
    /\ entries' = [k \in CacheKeys |-> None]
    /\ latest' = None
    /\ UNCHANGED <<time, user, puts, usage>>

CacheNext ==
    \/ \E u \in Users, k \in CacheKeys :
          \/ \E v \in Values, ttl \in usage.lifetimes : Put(u, k, v, ttl)
          \/ Get(u, k)
          \/ Invalidate(u, k)
    \/ \E u \in Users :
          Purge(u) \/ SelectVictims(u) \/ Evict(u) \/ Evicted(u) \/ Touch(u) \/ DropOne(u) \/ DropAll(u)
    \/ TimePasses

-----------------------------------------------------------------------------
\* Where rows are listed and deleted, then whoever has put what, while no pass is under
\* way the namespace is within both budgets, expired rows that were not swept included;
\* and if users work one after another, what was put last is there until it expires
\* ("put succeeded" means "a later get can hit", cache.rs:311).
EvictsTheExcess ==
    usage.faults \subseteq {"purge", "touch"}
    /\ (\A u \in Users : user[u].pc \notin {"purge", "select", "delete"}) =>
        /\ Cardinality(Rows) <= MaxCacheEntries
        /\ SizeOf(Rows) <= MaxCacheBytes
        /\ usage.alone /\ latest # None => latest.key \in Live \/ Dead(latest.expires)
=============================================================================
