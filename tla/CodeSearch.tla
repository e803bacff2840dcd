------------------------------ MODULE CodeSearch ------------------------------
(***************************************************************************)
(* The algorithms of the code index (code_index.rs): the call graph drawn  *)
(* from a parse and what is asked of it, the splitting of a chunk that is  *)
(* too big to embed, and the pattern of a search for file names.           *)
(***************************************************************************)
EXTENDS Integers, SequencesExt

CONSTANTS
    Wildcard, AnyOne,   \* the characters * and ?
    Anonymous           \* the empty name

-----------------------------------------------------------------------------
(* Calls.  A node of the parse is [kind, from, to, row, name]: kind "call", *)
(* "leaf" (CALLEE_LEAF_NODE_TYPES) or "other", from and to in bytes.  A     *)
(* chunk is [name, first, last] in lines; those that are no functions or    *)
(* methods are left out.                                                    *)

\* Of several, the first one of the parse.
Within(call, nodes) ==
    {i \in DOMAIN nodes :
        /\ nodes[i].kind = "leaf" /\ call.from <= nodes[i].from /\ nodes[i].to <= call.to
        /\ <<nodes[i].from, nodes[i].to>> # <<call.from, call.to>>}

EarliestEnd(call, nodes) ==
    LET ends == {nodes[i].to : i \in Within(call, nodes)}
    IN Min({i \in Within(call, nodes) : nodes[i].to = Min(ends)})

\* The innermost function around a line.
Around(chunks, line) == {c \in chunks : c.first <= line /\ line <= c.last}
Innermost(chunks, line) ==
    CHOOSE c \in Around(chunks, line) :
        \A d \in Around(chunks, line) : c.last - c.first <= d.last - d.first

\* extract_call_edges.
CallEdges(nodes, chunks) ==
    {[caller |-> Innermost(chunks, nodes[k].row + 1).name,
      callee |-> nodes[EarliestEnd(nodes[k], nodes)].name] :
        k \in {i \in DOMAIN nodes :
                 /\ nodes[i].kind = "call" /\ Within(nodes[i], nodes) # {}
                 /\ Around(chunks, nodes[i].row + 1) # {}
                 /\ Innermost(chunks, nodes[i].row + 1).name # Anonymous}}

CallersOf(edges, symbol) == {e \in edges : e.callee = symbol}
CalleesOf(edges, symbol) == {e \in edges : e.caller = symbol}

\* impact_of: the symbols at each depth, those that were not met before.
Clamp(n, low, high) == IF n < low THEN low ELSE IF n > high THEN high ELSE n

Levels(edges, symbol) ==
    LET next(level) == UNION {{e.callee : e \in CalleesOf(edges, s)} : s \in level}
        met[n \in Nat] == IF n = 0 THEN {symbol} ELSE met[n - 1] \cup next(met[n - 1])
    IN [n \in Nat |-> IF n = 0 THEN met[0] ELSE met[n] \ met[n - 1]]

ImpactOf(edges, symbol, maxDepth) ==
    UNION {[symbol : Levels(edges, symbol)[n], depth : {n}] : n \in 1 .. Clamp(maxDepth, 1, 10)}

-----------------------------------------------------------------------------
(* Splitting.  A body is the sequence of the widths of its characters, a   *)
(* part [from, to] in bytes.                                               *)

BytesTo(body, n) == FoldLeft(LAMBDA sum, width : sum + width, 0, SubSeq(body, 1, n))
Boundaries(body) == {BytesTo(body, n) : n \in 0 .. Len(body)}

\* is_char_boundary, going back until it holds.
BackToBoundary(body, at) == Max({b \in Boundaries(body) : b <= at})

OversizedChunkOverlap(threshold) == Clamp(threshold \div 10, 1, threshold - 1)

\* Where the part that starts at a boundary ends, and where the next one starts.
PartEnd(body, threshold, start) ==
    BackToBoundary(body, Clamp(start + threshold, 0, BytesTo(body, Len(body))))
NextStart(body, threshold, start) ==
    LET back == BackToBoundary(body, Clamp(PartEnd(body, threshold, start)
                                             - OversizedChunkOverlap(threshold),
                                           0, BytesTo(body, Len(body))))
    IN IF back > start + 1 THEN back ELSE start + 1

\* The parts of split_oversized_chunk from start on.  Slicing a string inside of a
\* character panics: the parts that lead there end in one that goes nowhere.
Panic == [from |-> 0, to |-> -1]

PartsFrom(body, threshold) ==
    LET all == BytesTo(body, Len(body))
        Parts[start \in 0 .. all] ==
            LET end == PartEnd(body, threshold, start)
            IN CASE start \notin Boundaries(body) -> <<Panic>>
                 [] end = all -> <<[from |-> start, to |-> all]>>
                 [] OTHER -> <<[from |-> start, to |-> end]>>
                               \o Parts[NextStart(body, threshold, start)]
    IN Parts[0]

SplitOversizedChunk(body, configured) ==
    LET threshold == IF configured < 2 THEN 2 ELSE configured
        all == BytesTo(body, Len(body))
    IN IF all <= threshold THEN <<[from |-> 0, to |-> all]>> ELSE PartsFrom(body, threshold)

-----------------------------------------------------------------------------
(* glob_match_simple: pi and ti walk the pattern and the text, star is the  *)
(* place of the last wildcard and at where its match ends (0 when none).    *)

GlobMatchSimple(pattern, text) ==
    LET Char(i, c) == i <= Len(pattern) /\ pattern[i] = c
        Walk[pi \in 1 .. Len(pattern) + 1, ti \in 1 .. Len(text) + 1,
             star \in 0 .. Len(pattern), at \in 0 .. Len(text) + 1] ==
            CASE ti > Len(text) -> \A i \in pi .. Len(pattern) : pattern[i] = Wildcard
              [] ti <= Len(text) /\ (Char(pi, AnyOne) \/ Char(pi, text[ti])) ->
                    Walk[pi + 1, ti + 1, star, at]
              [] OTHER ->
                    CASE Char(pi, Wildcard) -> Walk[pi + 1, ti, pi, ti]
                      [] ~Char(pi, Wildcard) /\ star # 0 -> Walk[star + 1, at + 1, star, at + 1]
                      [] OTHER -> FALSE
    IN Walk[1, 1, 0, 0]
=============================================================================
