------------------------------- MODULE Embedding -------------------------------
(***************************************************************************)
(* What embed.rs keeps between two calls: who embeds (chosen once in the   *)
(* life of a process), the fallback model, two caches of embeddings, and   *)
(* the queries spilled to the key-value store, which outlive the process.  *)
(* Each operator takes a process and what happens to hold now, and gives   *)
(* the process after the call with its answer.                             *)
(*                                                                         *)
(* An embedding is represented by the text it is of; all vectors have the  *)
(* width of the compiled model, others are refused where they arise.       *)
(***************************************************************************)
EXTENDS Integers, SequencesExt

CONSTANTS
    Slot,           \* the hash of a key <<root, text>>
    SpillKey,       \* the hash a query is spilled under
    ConditionQuery, \* the text that is embedded for a query
    Cacheable,      \* the texts of at most plain_cache_max_text bytes
    Capacity, TimeToLive, MaxItems,     \* of RagConfig
    MaxTokens,
    Probe,          \* the text the host is probed with
    Slim,           \* whether the build has no weights
    None

\* What holds at a call is a record [host, loads, runs, encodes, root, now]: the texts the host
\* embeds, whether the weights load, the texts the loaded model embeds, whether
\* a batch can be tokenized, the project, and the time.

-----------------------------------------------------------------------------
(* A cache: at most one entry for a hash, in the order the hashes came *)
EmptyCache == [entries |-> <<>>, order |-> <<>>]

Without(cache, slots) ==
    [entries |-> Restrict(cache.entries, DOMAIN cache.entries \ slots),
     order |-> SelectSeq(cache.order, LAMBDA s : s \notin slots)]

\* An entry that is too old, or of another key with the hash of this one, is dropped.
CacheGet(cache, key, now) ==
    LET slot == Slot[key] IN
    IF slot \notin DOMAIN cache.entries THEN [cache |-> cache, hit |-> None]
    ELSE LET entry == cache.entries[slot] IN
         IF entry.key = key /\ now - entry.since < TimeToLive
         THEN [cache |-> cache, hit |-> entry.embedding]
         ELSE [cache |-> Without(cache, {slot}), hit |-> None]

\* An entry that is replaced keeps its place; the first in the order go.
CachePut(cache, key, embedding, now) ==
    LET slot == Slot[key]
        order == IF slot \in DOMAIN cache.entries THEN cache.order ELSE Append(cache.order, slot)
        new == [s \in DOMAIN cache.entries \cup {slot} |->
                  IF s = slot THEN [key |-> key, embedding |-> embedding, since |-> now]
                  ELSE cache.entries[s]]
        excess == {order[i] : i \in 1 .. Len(order) - Capacity}
    IN Without([entries |-> new, order |-> order], excess)

-----------------------------------------------------------------------------
(* One text *)
Started == [context |-> None, fallback |-> None, plain |-> EmptyCache, query |-> EmptyCache]

Gives(process, answer) == [process |-> process, answer |-> answer]

\* The context: the host if it answers a probe, else the weights.  A failure is tried again.
Ctx(process, w) ==
    CASE process.context # None -> process.context
      [] process.context = None /\ Probe \in w.host -> "host"
      [] process.context = None /\ Probe \notin w.host ->
            IF w.loads /\ ~Slim THEN "own" ELSE None

\* The fallback model, tried once in the life of a process.
LazyWasmFallback(process, w) ==
    IF Slim \/ process.fallback # None THEN process.fallback
    ELSE IF w.loads THEN "loaded" ELSE "failed"

EmbedTextUncached(process, w, text) ==
    LET RunEmbedForward == IF text \in w.runs THEN text ELSE None
        chosen == [process EXCEPT !.context = Ctx(process, w)]
        lazy == [chosen EXCEPT !.fallback = LazyWasmFallback(chosen, w)]
    IN CASE text \in w.host -> Gives(process, text)
         [] text \notin w.host /\ chosen.context = None -> Gives(chosen, None)
         [] text \notin w.host /\ chosen.context = "own" -> Gives(chosen, RunEmbedForward)
         [] text \notin w.host /\ chosen.context = "host" ->
               Gives(lazy, IF lazy.fallback = "loaded" THEN RunEmbedForward ELSE None)

InPlain(process, w, text) ==
    LET got == CacheGet(process.plain, <<w.root, text>>, w.now) IN
    IF text \in Cacheable THEN Gives([process EXCEPT !.plain = got.cache], got.hit)
    ELSE Gives(process, None)

KeepPlain(given, w, text) ==
    IF given.answer # None /\ text \in Cacheable
    THEN [given EXCEPT !.process.plain = CachePut(@, <<w.root, text>>, given.answer, w.now)]
    ELSE given

EmbedText(process, w, text) ==
    LET looked == InPlain(process, w, text) IN
    IF looked.answer # None THEN looked
    ELSE KeepPlain(EmbedTextUncached(looked.process, w, text), w, text)

-----------------------------------------------------------------------------
(* A query: the cache of queries, the spill, the model *)
SpillGet(spill, query) ==
    LET key == SpillKey[query] IN
    IF key \in DOMAIN spill /\ spill[key].text = query THEN spill[key].embedding ELSE None

SpillPut(spill, query, embedding) ==
    [key \in DOMAIN spill \cup {SpillKey[query]} |->
       IF key = SpillKey[query] THEN [text |-> query, embedding |-> embedding] ELSE spill[key]]

\* The query after trimming; a blank one is answered with nothing before it gets here.
EmbedTextJsonQuery(process, spill, w, query) ==
    LET key == <<w.root, query>>
        got == CacheGet(process.query, key, w.now)
        looked == [process EXCEPT !.query = got.cache]
        spilled == SpillGet(spill, query)
        given == EmbedText(looked, w, ConditionQuery[query])
        kept(p, v) == [p EXCEPT !.query = CachePut(@, key, v, w.now)]
        gives(p, kv, v) == [process |-> p, spill |-> kv, answer |-> v]
    IN IF got.hit # None THEN gives(looked, spill, got.hit)
       ELSE IF spilled # None THEN gives(kept(looked, spilled), spill, spilled)
       ELSE IF given.answer = None THEN gives(given.process, spill, None)
       ELSE gives(kept(given.process, given.answer), SpillPut(spill, query, given.answer), given.answer)

-----------------------------------------------------------------------------
(* Many texts at once *)

\* Texts of these lengths in tokens are embedded in runs of consecutive ones: the first and
\* the last of each run, and its longest.
SubBatches(lengths) ==
    LET larger(m, n) == IF m > n THEN m ELSE n
        joins(run, i) ==
            LET items == i - run.first + 1 IN
            /\ items <= MaxItems
            /\ ~(/\ items * larger(run.longest, larger(lengths[i], 1)) > MaxItems * MaxTokens
                 /\ items > 1)
        take(runs, i) ==
            IF runs # <<>> /\ joins(Last(runs), i)
            THEN Front(runs) \o <<[Last(runs) EXCEPT !.last = i, !.longest = larger(@, lengths[i])]>>
            ELSE Append(runs, [first |-> i, last |-> i, longest |-> larger(1, lengths[i])])
    IN FoldLeft(take, <<>>, [i \in DOMAIN lengths |-> i])

\* One operation after the other on the texts at the given places.
Each(Op(_, _), given, places, texts) ==
    FoldLeft(LAMBDA g, i :
                LET r == Op(g.process, texts[i]) IN Gives(r.process, [g.answer EXCEPT ![i] = r.answer]),
             given, places)

Unanswered(given) == SelectSeq([i \in DOMAIN given.answer |-> i], LAMBDA i : given.answer[i] = None)

\* The caches, then the host for each text, then what is left in runs through the model.  A run the
\* model refuses, as the whole when it cannot be tokenized, goes one by one;
\* what a context of the host leaves is not embedded.
EmbedTextsBatch(process, w, texts, lengths) ==
    LET AskHost(p, text) == KeepPlain(Gives(p, IF text \in w.host THEN text ELSE None), w, text)
        InCache(p, text) == InPlain(p, w, text)
        Single(p, text) == EmbedText(p, w, text)
        Forwarded(p, text) == KeepPlain(Gives(p, text), w, text)
        cached == Each(InCache, Gives(process, [i \in DOMAIN texts |-> None]),
                       [i \in DOMAIN texts |-> i], texts)
        hosted == Each(AskHost, cached, Unanswered(cached), texts)
        left == Unanswered(hosted)
        chosen == [hosted EXCEPT !.process.context = Ctx(hosted.process, w)]
        Through(given, run) ==
            LET places == SubSeq(left, run.first, run.last) IN
            IF \A i \in ToSet(places) : texts[i] \in w.runs
            THEN Each(Forwarded, given, places, texts) ELSE Each(Single, given, places, texts)
    IN CASE Len(texts) = 0 -> Gives(process, <<>>)
         [] Len(texts) = 1 -> LET one == Single(process, texts[1]) IN Gives(one.process, <<one.answer>>)
         [] Len(texts) > 1 /\ left = <<>> -> hosted
         [] Len(texts) > 1 /\ left # <<>> /\ chosen.process.context = "host" -> chosen
         [] Len(texts) > 1 /\ left # <<>> /\ chosen.process.context = "own" /\ w.encodes ->
               FoldLeft(Through, chosen, SubBatches([j \in DOMAIN left |-> lengths[left[j]]]))
         [] Len(texts) > 1 /\ left # <<>>
               /\ (chosen.process.context = None \/ (chosen.process.context = "own" /\ ~w.encodes)) ->
               Each(Single, chosen, left, texts)
=============================================================================
