----------------------------- MODULE Stores_proofs -----------------------------
(***************************************************************************)
(* The stores of gm.db, whatever passes, dispatches and users do, and      *)
(* whatever fails, for any texts, names, entries, scenarios and bounds.    *)
(*                                                                         *)
(* Memories: one that was acknowledged and not pruned is in the corpus or  *)
(* in the legacy store, unless it was exposed by what was done to the      *)
(* files by hand.  Whatever is written to a file is the text its name is   *)
(* the hash of, under its own key; so what is written late, from what was  *)
(* read before, is written over the same text, over nothing, or over what  *)
(* was exposed.  A file is removed by a prune, or once there is a file of  *)
(* its text's own name: that is the text's own document, and is not        *)
(* itself removed, unless the text was exposed.                            *)
(*                                                                         *)
(* The cache: whoever puts selects after it, so that when nobody is about  *)
(* to select, the last selection was made of all there is, and what all    *)
(* have left to delete leaves no more than it kept.                        *)
(***************************************************************************)
EXTENDS Stores, SequenceTheorems, FiniteSetTheorems, WellFoundedInduction, TLAPS

Kept(t) == InCorpus(t) \/ \E n \in Names : flat[n] = t

FileContents == Documents \cup {None, Bad}
Moves == [from : Names, doc : Documents, writes : BOOLEAN, legacy : BOOLEAN]
Sessions ==
    [pc : {"rest", "look", "again", "embed", "file", "row", "tombstone", "unflat", "remove"},
     req : Requests \cup {None}]
Passes ==
    [pc : {"rest", "export", "scan", "files", "embed", "refile", "retire", "rekey", "hashes", "digest"},
     export : UNION {[N -> Texts] : N \in SUBSET Names},
     marker : [Names -> Texts \cup {None}] \cup {None},
     seen : [Names -> FileContents] \cup {None},
     todo : SUBSET Names, done : SUBSET Names, moves : SUBSET Moves,
     file : [from : Names, doc : Documents] \cup {None},
     embeds : Nat, failed : BOOLEAN, deferred : BOOLEAN]

\* A file that has another text than its name's exposes both, where it is asked for by its
\* name; what is not exposed is filed under its own name as its own document, or not there.
Own(n) == corpus[n] \in Documents /\ corpus[n].key = n /\ corpus[n].text = Spelled[n]
FiledRight ==
    /\ corpus \in [Names -> FileContents]
    /\ \A n \in Names : AskedFor(n) /\ corpus[n] \in Documents /\ corpus[n].text # Spelled[n] =>
          Exposed(Spelled[n]) /\ Exposed(corpus[n].text)
    /\ \A t \in Texts : ~Exposed(t) => corpus[Canon[t]] = None \/ Own(Canon[t])
FlatRight ==
    /\ flat \in [Names -> Texts \cup {None}]
    /\ \A n \in Names : flat[n] \in {None, Spelled[n]}
AskedRight ==
    /\ script \in Seq(Requests)
    /\ \A i \in DOMAIN script : script[i].text = Spelled[script[i].name] /\ AskedFor(script[i].name)
    /\ session \in Sessions
    /\ session.pc # "rest" => /\ session.req \in Requests /\ AskedFor(session.req.name)
                             /\ session.req.text = Spelled[session.req.name]
\* What is under way: what is to be exported is the name's text, and nothing else was put
\* there since; what is to be rekeyed is still what is in the file, if that is not exposed.
ExportRight ==
    \A n \in DOMAIN pass.export :
        pass.export[n] = Spelled[n] /\ (corpus[n] \in Documents => corpus[n].text = Spelled[n])
MoveRight(m) ==
    /\ corpus[m.from] \in Documents /\ ~Exposed(corpus[m.from].text) => m.doc.text = corpus[m.from].text
    /\ AskedFor(m.from) /\ ~Exposed(Spelled[m.from]) => m.doc.text = Spelled[m.from]
    /\ \A t \in Texts : m.from = Canon[t] => Exposed(t)
    /\ m.writes /\ corpus[Target(m.doc)] \in Documents =>
          corpus[Target(m.doc)].text = Spelled[Target(m.doc)]
PassRight ==
    /\ pass \in Passes /\ (pass.pc = "embed" => pass.file.from \in Names)
    /\ pass.pc = "export" => pass.moves = {}
    /\ ExportRight /\ \A m \in pass.moves : MoveRight(m)
Right ==
    /\ FiledRight /\ FlatRight /\ AskedRight /\ PassRight
    /\ clock \in Nat /\ acked \subseteq Texts

\* A dispatch that will acknowledge a memory has it, one that prunes it has taken it back.
Promised ==
    /\ session.pc \in {"again", "row"} => Exposed(session.req.text) \/ Kept(session.req.text)
    /\ session.pc \in {"tombstone", "unflat", "remove"} => session.req.text \notin acked

MemoryInv == Right /\ Promised /\ NoMemoryLost

-----------------------------------------------------------------------------
(* What a step may do to the files *)

LEMMA ParsedIsDocument ==
    ASSUME FiledRight, NEW n \in Names
    PROVE  Parsed(corpus[n]) <=> corpus[n] \in Documents
  BY MemoryAssumption DEF FiledRight, FileContents, Parsed

LEMMA NewDocument ==
    ASSUME NEW n \in Names, NEW t \in Texts, NEW i \in Nat
    PROVE  /\ [key |-> n, text |-> t, stamp |-> i] \in Documents
           /\ [key |-> n, text |-> t, stamp |-> i].text = t
           /\ [key |-> n, text |-> t, stamp |-> i].key = n
           /\ [key |-> n, text |-> t, stamp |-> i] \notin {None, Bad}
  BY MemoryAssumption DEF Documents

\* What was found at first does not change.
LEMMA OriginStays ==
    ASSUME origin' = origin
    PROVE  /\ \A t : Exposed(t)' = Exposed(t)
           /\ \A n : AskedFor(n)' = AskedFor(n)
  BY DEF Exposed, Displaced, AskedFor, Found, Parsed

\* A memory that is not exposed stays where the files that hold it do, or one is written
\* that does.
LEMMA KeptStays ==
    ASSUME FiledRight, FiledRight', NEW t \in Texts, Kept(t),
           flat' = flat,
           \A n \in Names : corpus[n] \in Documents /\ corpus[n].text = t =>
               \E k \in Names : corpus'[k] \in Documents /\ corpus'[k].text = t
    PROVE  Kept(t)'
<1>1. CASE \E n \in Names : flat[n] = t BY <1>1 DEF Kept
<1>2. CASE InCorpus(t)
  <2>1. PICK n \in Names : corpus[n] \in Documents /\ corpus[n].text = t
    BY <1>2, ParsedIsDocument DEF InCorpus, Holds
  <2>2. PICK k \in Names : corpus'[k] \in Documents /\ corpus'[k].text = t
    BY <2>1
  <2>3. corpus'[k] \notin {None, Bad}
    BY <2>2, MemoryAssumption
  <2> QED BY <2>2, <2>3 DEF Kept, InCorpus, Holds, Parsed
<1> QED BY <1>1, <1>2 DEF Kept

\* Files are left, removed, or written as the documents of their names; not what is to be
\* rekeyed, unless it was asked for or is under a text's own name.
LEMMA FilesChange ==
    ASSUME FiledRight, \A m \in pass.moves : MoveRight(m), ExportRight, pass \in Passes,
           corpus' \in [Names -> FileContents], origin' = origin,
           \A n \in Names : corpus'[n] = corpus[n] \/ corpus'[n] = None \/ Own(n)',
           \A n \in Names : corpus'[n] # corpus[n] /\ corpus'[n] # None =>
               \/ AskedFor(n) \/ pass.moves = {} \/ \E t \in Texts : n = Canon[t]
    PROVE  /\ FiledRight'
           /\ pass'.export = pass.export => ExportRight'
           /\ pass'.moves = pass.moves => \A m \in pass'.moves : MoveRight(m)'
<1> USE OriginStays
<1>0. None \notin Documents BY MemoryAssumption
<1>1. ASSUME NEW n \in Names
      PROVE  corpus'[n] \in Documents => \/ corpus'[n] = corpus[n]
                                        \/ corpus'[n].text = Spelled[n]
  BY <1>0 DEF Own
<1>2. FiledRight'
  <2>1. ASSUME NEW n \in Names, AskedFor(n), corpus'[n] \in Documents, corpus'[n].text # Spelled[n]
        PROVE  Exposed(Spelled[n]) /\ Exposed(corpus'[n].text)
    BY <1>1, <2>1 DEF FiledRight
  <2>2. ASSUME NEW t \in Texts, ~Exposed(t)
        PROVE  corpus'[Canon[t]] = None \/ Own(Canon[t])'
    <3>1. Canon[t] \in Names BY MemoryAssumption
    <3>2. CASE corpus'[Canon[t]] = corpus[Canon[t]]
      BY <2>2, <3>2 DEF FiledRight, Own
    <3> QED BY <3>1, <3>2
  <2>3. corpus' \in [Names -> FileContents]
    OBVIOUS
  <2>4. \A n \in Names : /\ AskedFor(n)' = AskedFor(n) /\ Exposed(Spelled[n])' = Exposed(Spelled[n])
                         /\ Exposed(corpus[n].text)' <=> Exposed(corpus'[n].text)
    BY DEF Exposed, Displaced, AskedFor, Found, Parsed
  <2>5. \A n \in Names : (AskedFor(n) /\ corpus[n] \in Documents /\ corpus[n].text # Spelled[n] =>
                             Exposed(Spelled[n]) /\ Exposed(corpus[n].text))'
    BY <2>1, <2>4
  <2>6. \A t \in Texts : (~Exposed(t) => corpus[Canon[t]] = None \/ Own(Canon[t]))'
    BY <2>2
  <2> QED BY <2>3, <2>5, <2>6 DEF FiledRight
<1>3. ASSUME pass'.export = pass.export PROVE ExportRight'
  <2>1. DOMAIN pass.export \subseteq Names BY DEF Passes
  <2> QED BY <1>1, <1>3, <2>1 DEF ExportRight
<1>4. ASSUME NEW m \in pass.moves PROVE MoveRight(m)'
  <2>1. m.from \in Names /\ m.doc \in Documents /\ MoveRight(m) BY <1>4 DEF Passes, Moves
  <2>2. Target(m.doc) \in Names BY <2>1, MemoryAssumption DEF Target, Documents
  <2>3. m.writes /\ corpus'[Target(m.doc)] \in Documents =>
           corpus'[Target(m.doc)].text = Spelled[Target(m.doc)]
    BY <1>1, <2>1, <2>2 DEF MoveRight
  <2>4. ASSUME corpus'[m.from] \in Documents, ~Exposed(corpus'[m.from].text)
        PROVE  m.doc.text = corpus'[m.from].text
    <3>1. CASE corpus'[m.from] = corpus[m.from] BY <2>1, <2>4, <3>1 DEF MoveRight
    <3>2. CASE corpus'[m.from] # corpus[m.from]
      <4>1. corpus'[m.from].text = Spelled[m.from] BY <1>1, <2>1, <2>4, <3>2
      <4>2. AskedFor(m.from) \/ \E t \in Texts : m.from = Canon[t]
        BY <1>0, <1>4, <2>1, <2>4, <3>2
      <4>3. CASE AskedFor(m.from) BY <2>1, <2>4, <4>1, <4>3 DEF MoveRight
      <4>4. CASE \E t \in Texts : m.from = Canon[t]
        <5>1. PICK t \in Texts : m.from = Canon[t] BY <4>4
        <5>2. Spelled[m.from] = t BY <5>1, MemoryAssumption
        <5> QED BY <2>1, <2>4, <4>1, <5>1, <5>2 DEF MoveRight
      <4> QED BY <4>2, <4>3, <4>4
    <3> QED BY <3>1, <3>2
  <2>5. \A t : Exposed(t)' = Exposed(t)
    OBVIOUS
  <2>6. (corpus[m.from] \in Documents /\ ~Exposed(corpus[m.from].text)
            => m.doc.text = corpus[m.from].text)'
    <3>1. Exposed(corpus[m.from].text)' <=> Exposed(corpus'[m.from].text)
      BY DEF Exposed, Displaced, AskedFor, Found, Parsed
    <3> QED BY <2>4, <3>1
  <2>7. (AskedFor(m.from) /\ ~Exposed(Spelled[m.from]) => m.doc.text = Spelled[m.from])'
    BY <2>1, <2>5 DEF MoveRight
  <2>8. (\A t \in Texts : m.from = Canon[t] => Exposed(t))' BY <2>1, <2>5 DEF MoveRight
  <2>9. Target(m.doc)' = Target(m.doc) BY DEF Target
  <2> QED BY <2>3, <2>6, <2>7, <2>8, <2>9 DEF MoveRight
<1> QED BY <1>2, <1>3, <1>4

LEMMA SameFiles ==
    ASSUME UNCHANGED <<corpus, origin>>
    PROVE  FiledRight' <=> FiledRight
  BY DEF FiledRight, Own, Exposed, Displaced, AskedFor, Found, Parsed

LEMMA SameMoves ==
    ASSUME UNCHANGED <<corpus, origin>>
    PROVE  \A m : MoveRight(m)' <=> MoveRight(m)
<1> SUFFICES ASSUME NEW m PROVE MoveRight(m)' <=> MoveRight(m) OBVIOUS
<1> QED BY DEF MoveRight, Target, Exposed, Displaced, AskedFor, Found, Parsed

LEMMA SamePass ==
    ASSUME UNCHANGED <<corpus, origin, pass>>
    PROVE  PassRight' <=> PassRight
<1>1. ExportRight' <=> ExportRight BY DEF ExportRight
<1>2. \A m : MoveRight(m)' <=> MoveRight(m) BY SameMoves
<1> QED BY <1>1, <1>2 DEF PassRight

LEMMA SameKept ==
    ASSUME UNCHANGED <<corpus, flat>>
    PROVE  \A t : Kept(t)' <=> Kept(t)
  BY DEF Kept, InCorpus, Holds, Parsed

LEMMA LostIsNotKept ==
    /\ NoMemoryLost <=> \A t \in acked : Exposed(t) \/ Kept(t)
    /\ NoMemoryLost' <=> \A t \in acked' : Exposed(t)' \/ Kept(t)'
  BY DEF NoMemoryLost, Kept

LEMMA SamePromise ==
    ASSUME UNCHANGED <<corpus, flat, session, acked, origin>>
    PROVE  (Promised' <=> Promised) /\ (NoMemoryLost' <=> NoMemoryLost)
  BY DEF Promised, NoMemoryLost, Kept, InCorpus, Holds, Exposed, Displaced, AskedFor, Found, Parsed

\* A step that leaves the files and the session alone.
LEMMA Aside ==
    ASSUME MemoryInv,
           UNCHANGED <<corpus, flat, session, script, clock, acked, origin>>,
           PassRight'
    PROVE  MemoryInv'
<1>1. AskedRight' BY DEF MemoryInv, Right, AskedRight, AskedFor
<1>2. Right' BY <1>1, SameFiles DEF MemoryInv, Right, FlatRight
<1> QED BY <1>2, SamePromise DEF MemoryInv

-----------------------------------------------------------------------------
(* The session *)

LEMMA DispatchKeeps ==
    ASSUME MemoryInv, Dispatch
    PROVE  MemoryInv'
<1> DEFINE r == Head(script)
<1>1. script \in Seq(Requests) /\ script # <<>> /\ clock \in Nat
  BY DEF MemoryInv, Right, AskedRight, Dispatch
<1>2. r \in Requests /\ r.text = Spelled[r.name] /\ AskedFor(r.name)
  <2>1. r = script[1] /\ 1 \in DOMAIN script BY <1>1
  <2> QED BY <1>1, <2>1 DEF MemoryInv, Right, AskedRight
<1>3. /\ script' \in Seq(Requests)
      /\ \A i \in DOMAIN script' : script'[i].text = Spelled[script'[i].name] /\ AskedFor(script'[i].name)
  <2>1. script' = Tail(script) BY DEF Dispatch
  <2>2. \A i \in DOMAIN Tail(script) : i + 1 \in DOMAIN script /\ Tail(script)[i] = script[i + 1]
    BY <1>1
  <2> QED BY <1>1, <2>1, <2>2 DEF MemoryInv, Right, AskedRight
<1> HIDE DEF r
<1>4. session' = [pc |-> IF r.verb = "prune" THEN "tombstone" ELSE "look", req |-> r]
  BY DEF Dispatch, r
<1>5. acked' = IF r.verb = "prune" THEN acked \ {r.text} ELSE acked
  BY DEF Dispatch, r
<1>6. UNCHANGED <<corpus, flat, pass, origin>> /\ clock' = clock + 1 BY DEF Dispatch, store
<1>7. AskedRight'
  <2>1. \A i \in DOMAIN script' : AskedFor(script'[i].name) <=> AskedFor(script[i].name)'
    BY <1>6 DEF AskedFor
  <2>2. AskedFor(r.name) <=> AskedFor(session.req.name)' BY <1>4, <1>6 DEF AskedFor
  <2> QED BY <1>2, <1>3, <1>4, <2>1, <2>2 DEF AskedRight, Sessions
<1>8. Right' BY <1>1, <1>5, <1>6, <1>7, SameFiles, SamePass DEF MemoryInv, Right, FlatRight
<1>9. Promised' BY <1>4, <1>5 DEF Promised
<1>10. NoMemoryLost' BY <1>5, <1>6, OriginStays, SameKept, LostIsNotKept DEF MemoryInv
<1> QED BY <1>8, <1>9, <1>10 DEF MemoryInv

\* A step of a dispatch that turns to pc or answers, and leaves the files alone.
LEMMA SessionTurns ==
    ASSUME MemoryInv, UNCHANGED <<corpus, flat, script, clock, pass, acked, origin>>,
           \/ session' = AtRest
           \/ session.pc # "rest" /\ session' \in Sessions /\ session'.req = session.req
              /\ Promised'
    PROVE  MemoryInv'
<1>1. AskedRight' BY DEF MemoryInv, Right, AskedRight, AskedFor, AtRest, Sessions
<1>2. Right' BY <1>1, SameFiles, SamePass DEF MemoryInv, Right, FlatRight
<1>3. Promised' BY DEF Promised, AtRest
<1>4. NoMemoryLost' BY OriginStays, SameKept, LostIsNotKept DEF MemoryInv
<1> QED BY <1>2, <1>3, <1>4 DEF MemoryInv

LEMMA TurnTo ==
    ASSUME AskedRight, Turn("again") \/ Turn("embed") \/ Turn("file") \/ Turn("row")
                                       \/ Turn("unflat") \/ Turn("remove")
    PROVE  /\ session' \in Sessions /\ session'.req = session.req
           /\ \A pc : Turn(pc) => session'.pc = pc
<1>1. session \in Sessions BY DEF AskedRight
<1>2. \A pc : Turn(pc) => session'.pc = pc BY <1>1 DEF Turn, Sessions
<1>3. session' \in Sessions /\ session'.req = session.req BY <1>1 DEF Turn, Sessions
<1> QED BY <1>2, <1>3

LEMMA RequestSpelled ==
    ASSUME MemoryInv, session.pc # "rest"
    PROVE  /\ session \in Sessions /\ session.req \in Requests
           /\ session.req.text \in Texts /\ session.req.name \in Names
           /\ session.req.text = Spelled[session.req.name] /\ AskedFor(session.req.name)
  BY DEF MemoryInv, Right, AskedRight, Requests

LEMMA LookKeeps ==
    ASSUME MemoryInv, LookForDuplicate
    PROVE  MemoryInv'
<1>1. UNCHANGED <<corpus, flat, script, clock, pass, acked, origin>> BY DEF LookForDuplicate, store
<1>2. session.pc = "look" BY DEF LookForDuplicate, At
<1>3. session' \in Sessions /\ session'.req = session.req /\ session'.pc \in {"again", "embed"}
  <2>1. Turn("again") \/ Turn("embed") BY DEF LookForDuplicate
  <2> QED BY <2>1, TurnTo DEF MemoryInv, Right
<1>4. session'.pc = "again" =>
         flat[session.req.name] = session.req.text \/ Holds(session.req.name, session.req.text)
  <2>1. CASE ~(flat[session.req.name] = session.req.text \/ Holds(session.req.name, session.req.text))
    <3>1. Turn("embed") BY <2>1 DEF LookForDuplicate
    <3>2. session'.pc = "embed" BY <3>1, TurnTo DEF MemoryInv, Right
    <3> QED BY <3>2
  <2> QED BY <2>1
<1>5. session'.pc = "again" => Kept(session.req.text)
  BY <1>2, <1>4, RequestSpelled DEF Kept, InCorpus
<1>6. Promised'
  <2>1. PICK own : own = session.req.text
    OBVIOUS
  <2>2. session'.req.text = own BY <1>3, <2>1
  <2>3. Kept(session.req.text)' <=> Kept(own)' BY <2>2 DEF Kept, InCorpus, Holds, Parsed
  <2>4. Kept(own)' <=> Kept(own) BY <1>1, SameKept
  <2> QED BY <1>3, <1>5, <2>1, <2>3, <2>4 DEF Promised
<1> QED BY <1>1, <1>2, <1>3, <1>6, SessionTurns

LEMMA EmbedKeeps ==
    ASSUME MemoryInv, EmbedPassage
    PROVE  MemoryInv'
<1>1. session.pc = "embed" /\ UNCHANGED <<corpus, flat, script, clock, pass, acked, origin>>
  BY DEF EmbedPassage, At, store, Refuse
<1>2. CASE Turn("file")
  <2>1. session' \in Sessions /\ session'.req = session.req /\ session'.pc = "file"
    BY <1>2, TurnTo DEF MemoryInv, Right
  <2>2. Promised' BY <2>1 DEF Promised
  <2> QED BY <1>1, <2>1, <2>2, SessionTurns
<1>3. CASE Answer BY <1>1, <1>3, SessionTurns DEF Answer
<1> QED BY <1>2, <1>3 DEF EmbedPassage, Refuse

\* The file a dispatch writes, and what it leaves of the others.
LEMMA WrittenRight ==
    ASSUME MemoryInv, session.pc # "rest", corpus' = Written(session.req),
           UNCHANGED <<flat, pass, origin>>, NEW own, own = session.req.text
    PROVE  /\ FiledRight' /\ PassRight' /\ Kept(own)'
           /\ \A t \in Texts : ~Exposed(t) /\ Kept(t) => Kept(t)'
<1>0. PICK r : r = session.req
  OBVIOUS
<1>1. r.text \in Texts /\ r.name \in Names /\ r.text = Spelled[r.name] /\ r.text = own
      /\ AskedFor(r.name)
  BY <1>0, RequestSpelled
<1>2. clock \in Nat /\ FiledRight /\ PassRight BY DEF MemoryInv, Right
<1>3. PICK doc : doc = FileOf(r)
  OBVIOUS
<1>4. doc \in Documents /\ doc.text = r.text /\ doc.key = r.name /\ doc \notin {None, Bad}
  BY <1>1, <1>2, <1>3, NewDocument DEF FileOf
<1>5. corpus' = corpus \/ corpus' = [corpus EXCEPT ![r.name] = doc] BY <1>0, <1>3 DEF Written
<1>6. /\ corpus' \in [Names -> FileContents]
      /\ \A n \in Names : corpus'[n] = corpus[n] \/ (n = r.name /\ corpus'[n] = doc)
  BY <1>1, <1>2, <1>4, <1>5 DEF FiledRight, FileContents
<1>7. \A n \in Names : corpus'[n] = corpus[n] \/ Own(n)' BY <1>1, <1>4, <1>6 DEF Own
<1>8. FiledRight' /\ ExportRight' /\ \A m \in pass'.moves : MoveRight(m)'
  BY <1>1, <1>2, <1>6, <1>7, FilesChange DEF PassRight
<1>9. PassRight' BY <1>2, <1>8 DEF PassRight
<1>10. Holds(r.name, r.text)'
  <2>1. CASE Holds(r.name, r.text) BY <1>0, <2>1 DEF Written, Holds, Parsed
  <2>2. CASE ~Holds(r.name, r.text)
    <3>1. corpus' = [corpus EXCEPT ![r.name] = doc] BY <1>0, <1>3, <2>2 DEF Written
    <3>2. corpus'[r.name] = doc BY <1>1, <1>2, <3>1 DEF FiledRight
    <3> QED BY <1>4, <3>2 DEF Holds, Parsed
  <2> QED BY <2>1, <2>2
<1>11. Kept(own)' BY <1>1, <1>10 DEF Kept, InCorpus
<1>12. ASSUME NEW t \in Texts, ~Exposed(t), Kept(t) PROVE Kept(t)'
  <2>1. ASSUME NEW n \in Names, corpus[n] \in Documents, corpus[n].text = t
        PROVE  corpus'[n] \in Documents /\ corpus'[n].text = t
    <3>1. CASE corpus'[n] = corpus[n] BY <2>1, <3>1
    <3>2. CASE n = r.name /\ corpus'[n] = doc
      <4>1. corpus[n].text = Spelled[n] BY <1>1, <1>2, <1>12, <2>1, <3>2 DEF FiledRight
      <4> QED BY <1>1, <1>4, <2>1, <3>2, <4>1
    <3> QED BY <1>6, <3>1, <3>2
  <2> QED BY <1>2, <1>8, <1>12, <2>1, KeptStays
<1> QED BY <1>8, <1>9, <1>11, <1>12

\* A dispatch that leaves every memory where it was, answers or turns, and may acknowledge
\* its own.
LEMMA Acknowledges ==
    ASSUME MemoryInv, session.pc # "rest", FiledRight', PassRight',
           UNCHANGED <<flat, script, clock, pass, origin>>,
           \A t \in Texts : ~Exposed(t) /\ Kept(t) => Kept(t)',
           NEW own, own = session.req.text, Exposed(own) \/ Kept(own)',
           \/ session' = AtRest /\ acked' = acked \cup {own}
           \/ /\ session' \in Sessions /\ session'.req = session.req /\ session'.pc = "row"
              /\ acked' = acked
    PROVE  MemoryInv'
<1>1. own \in Texts BY RequestSpelled
<1>2. AskedRight' BY RequestSpelled DEF MemoryInv, Right, AskedRight, AskedFor, AtRest, Sessions
<1>3. Right' BY <1>1, <1>2 DEF MemoryInv, Right, FlatRight
<1>4. Promised'
  <2>1. CASE session' = AtRest BY <2>1 DEF Promised, AtRest
  <2>2. CASE session'.pc = "row" /\ session'.req = session.req
    <3>1. session'.req.text = own BY <2>2
    <3>2. Kept(session.req.text)' <=> Kept(own)' BY <3>1 DEF Kept, InCorpus, Holds, Parsed
    <3>3. Exposed(session.req.text)' <=> Exposed(own)
      BY <3>1 DEF Exposed, Displaced, AskedFor, Found, Parsed
    <3> QED BY <2>2, <3>2, <3>3 DEF Promised
  <2> QED BY <2>1, <2>2
<1>5. \A t \in acked' : Exposed(t) \/ Kept(t)'
  <2>1. \A t \in acked : (Exposed(t) \/ Kept(t)) /\ t \in Texts
    BY LostIsNotKept DEF MemoryInv, Right
  <2>2. acked' \subseteq acked \cup {own}
    OBVIOUS
  <2> QED BY <2>1, <2>2
<1>6. NoMemoryLost' BY <1>5, OriginStays, LostIsNotKept
<1> QED BY <1>3, <1>4, <1>6 DEF MemoryInv

LEMMA FileAgainKeeps ==
    ASSUME MemoryInv, FileAgain
    PROVE  MemoryInv'
<1>0. PICK own : own = session.req.text
  OBVIOUS
<1>1. /\ session.pc = "again" /\ session' = AtRest /\ UNCHANGED <<flat, script, clock, pass, origin>>
      /\ acked' = acked \cup {own}
  BY <1>0 DEF FileAgain, At, Accept, Answer
<1>2. (Exposed(own) \/ Kept(own)) /\ own \in Texts
  BY <1>0, <1>1, RequestSpelled DEF MemoryInv, Promised
<1>3. FiledRight' /\ PassRight' /\ \A t \in Texts : ~Exposed(t) /\ Kept(t) => Kept(t)'
  <2>1. CASE corpus' = Written(session.req) BY <1>0, <1>1, <2>1, WrittenRight
  <2>2. CASE corpus' = corpus
    BY <1>1, <2>2, SameFiles, SamePass, SameKept DEF MemoryInv, Right
  <2> QED BY <2>1, <2>2 DEF FileAgain
<1>4. Exposed(own) \/ Kept(own)' BY <1>2, <1>3
<1> QED BY <1>0, <1>1, <1>3, <1>4, Acknowledges

LEMMA WriteFileKeeps ==
    ASSUME MemoryInv, WriteFile
    PROVE  MemoryInv'
<1>0. PICK own : own = session.req.text
  OBVIOUS
<1>1. session.pc = "file" /\ UNCHANGED <<flat, script, clock, pass, acked, origin>>
  BY DEF WriteFile, At, Refuse
<1>2. CASE corpus' = Written(session.req) /\ Turn("row")
  <2>1. /\ FiledRight' /\ PassRight' /\ Kept(own)'
        /\ \A t \in Texts : ~Exposed(t) /\ Kept(t) => Kept(t)'
    BY <1>0, <1>1, <1>2, WrittenRight
  <2>2. session' \in Sessions /\ session'.req = session.req /\ session'.pc = "row"
    BY <1>2, TurnTo DEF MemoryInv, Right
  <2> QED BY <1>0, <1>1, <2>1, <2>2, Acknowledges
<1>3. CASE Refuse /\ UNCHANGED corpus BY <1>1, <1>3, SessionTurns DEF Refuse, Answer
<1> QED BY <1>2, <1>3 DEF WriteFile

LEMMA WriteRowKeeps ==
    ASSUME MemoryInv, WriteRow
    PROVE  MemoryInv'
<1>0. PICK own : own = session.req.text
  OBVIOUS
<1>1. /\ session.pc = "row" /\ session' = AtRest
      /\ UNCHANGED <<corpus, flat, script, clock, pass, origin>>
      /\ acked' = acked \cup {own}
  BY <1>0 DEF WriteRow, At, Accept, Answer, store
<1>2. Exposed(own) \/ Kept(own) BY <1>0, <1>1 DEF MemoryInv, Promised
<1>3. \A t : Kept(t)' <=> Kept(t) BY <1>1, SameKept
<1>4. FiledRight' /\ PassRight' BY <1>1, SameFiles, SamePass DEF MemoryInv, Right
<1> QED BY <1>0, <1>1, <1>2, <1>3, <1>4, Acknowledges

LEMMA PruneRowKeeps ==
    ASSUME MemoryInv, PruneRow
    PROVE  MemoryInv'
<1>1. session.pc = "tombstone" /\ UNCHANGED <<corpus, flat, script, clock, pass, acked, origin>>
  BY DEF PruneRow, At, store
<1>2. session' \in Sessions /\ session'.req = session.req /\ session'.pc = "unflat"
  BY TurnTo DEF PruneRow, MemoryInv, Right
<1>3. Promised' BY <1>1, <1>2 DEF MemoryInv, Promised
<1> QED BY <1>1, <1>2, <1>3, SessionTurns

LEMMA PruneFlatKeeps ==
    ASSUME MemoryInv, PruneFlat
    PROVE  MemoryInv'
<1> DEFINE r == session.req
<1>1. /\ session.pc = "unflat" /\ flat' = [flat EXCEPT ![r.name] = None]
      /\ UNCHANGED <<corpus, script, clock, pass, acked, origin>>
  BY DEF PruneFlat, At
<1>2. session' \in Sessions /\ session'.req = session.req /\ session'.pc = "remove"
  BY TurnTo DEF PruneFlat, MemoryInv, Right
<1>3. r.text \in Texts /\ r.name \in Names /\ r.text = Spelled[r.name] /\ AskedFor(r.name)
  BY <1>1, RequestSpelled
<1>4. r.text \notin acked BY <1>1 DEF MemoryInv, Promised
<1>5. FlatRight' BY <1>1, <1>3 DEF MemoryInv, Right, FlatRight
<1>6. AskedRight' BY <1>1, <1>2 DEF MemoryInv, Right, AskedRight, AskedFor
<1>7. Right' BY <1>1, <1>5, <1>6, SameFiles, SamePass DEF MemoryInv, Right
<1>8. ASSUME NEW t \in acked, NEW n \in Names, flat[n] = t PROVE flat'[n] = t
  BY <1>1, <1>3, <1>4, <1>8 DEF MemoryInv, Right, FlatRight
<1>9. \A t \in acked : Kept(t) => Kept(t)' BY <1>1, <1>8 DEF Kept, InCorpus, Holds, Parsed
<1>10. NoMemoryLost' BY <1>1, <1>9, OriginStays, LostIsNotKept DEF MemoryInv
<1>11. Promised' BY <1>1, <1>2, <1>4 DEF Promised
<1> QED BY <1>7, <1>10, <1>11 DEF MemoryInv

LEMMA PruneFileKeeps ==
    ASSUME MemoryInv, PruneFile
    PROVE  MemoryInv'
<1> DEFINE r == session.req
<1>1. /\ session.pc = "remove" /\ corpus' = [corpus EXCEPT ![r.name] = None]
      /\ session' = AtRest /\ UNCHANGED <<flat, script, clock, pass, acked, origin>>
  BY DEF PruneFile, At, Answer
<1>2. r.text \in Texts /\ r.name \in Names /\ r.text = Spelled[r.name] /\ AskedFor(r.name)
  BY <1>1, RequestSpelled
<1>3. r.text \notin acked BY <1>1 DEF MemoryInv, Promised
<1>4. FiledRight /\ PassRight BY DEF MemoryInv, Right
<1>5. /\ corpus' \in [Names -> FileContents]
      /\ \A n \in Names : corpus'[n] = IF n = r.name THEN None ELSE corpus[n]
  BY <1>1, <1>4 DEF FiledRight, FileContents
<1>6. FiledRight' /\ ExportRight' /\ \A m \in pass'.moves : MoveRight(m)'
  BY <1>1, <1>4, <1>5, FilesChange DEF PassRight
<1>7. AskedRight' BY <1>1 DEF MemoryInv, Right, AskedRight, AskedFor, AtRest, Sessions
<1>8. Right' BY <1>1, <1>4, <1>6, <1>7 DEF MemoryInv, Right, FlatRight, PassRight
<1>9. ASSUME NEW t \in acked, ~Exposed(t), Kept(t) PROVE Kept(t)'
  <2>1. ASSUME NEW n \in Names, corpus[n] \in Documents, corpus[n].text = t
        PROVE  n # r.name
    BY <1>2, <1>3, <1>4, <1>9, <2>1 DEF FiledRight
  <2>2. t \in Texts BY DEF MemoryInv, Right
  <2> QED BY <1>1, <1>4, <1>5, <1>6, <1>9, <2>1, <2>2, KeptStays
<1>10. NoMemoryLost' BY <1>1, <1>9, OriginStays, LostIsNotKept DEF MemoryInv
<1>11. Promised' BY <1>1 DEF Promised, AtRest
<1> QED BY <1>8, <1>10, <1>11 DEF MemoryInv

LEMMA SessionDiesKeeps ==
    ASSUME MemoryInv, SessionDies
    PROVE  MemoryInv'
  BY SessionTurns DEF SessionDies, Answer, store

-----------------------------------------------------------------------------
(* The passes, as far as they leave the files alone *)

\* A pass begins, goes on or ends.
LEMMA PassMoves ==
    ASSUME MemoryInv,
           UNCHANGED <<corpus, flat, session, script, clock, acked, origin>>,
           pass' \in Passes, pass'.export \in {pass.export, <<>>}, pass'.moves \in {pass.moves, {}},
           pass'.pc = "embed" => pass'.file.from \in Names, pass'.pc # "export"
    PROVE  MemoryInv'
<1>1. PassRight BY DEF MemoryInv, Right
<1>2. ExportRight' BY <1>1 DEF PassRight, ExportRight
<1>3. \A m \in pass'.moves : MoveRight(m)' BY <1>1, SameMoves DEF PassRight
<1>4. PassRight' BY <1>2, <1>3 DEF PassRight
<1> QED BY <1>4, Aside

LEMMA NoPassIsOne == NoPass \in Passes /\ NoPass.export = <<>> /\ NoPass.moves = {}
                     /\ NoPass.pc = "rest"
<1>1. <<>> \in [{} -> Texts]
  OBVIOUS
<1>2. <<>> \in UNION {[N -> Texts] : N \in SUBSET Names} BY <1>1
<1> QED BY <1>2 DEF NoPass, Passes

LEMMA PassEnds ==
    ASSUME MemoryInv,
           UNCHANGED <<corpus, flat, session, script, clock, acked, origin>>, Ends
    PROVE  MemoryInv'
  BY PassMoves, NoPassIsOne DEF Ends

LEMMA PassGoes ==
    ASSUME MemoryInv,
           UNCHANGED <<corpus, flat, session, script, clock, acked, origin>>,
           Pass("scan") \/ Pass("hashes") \/ Pass("refile") \/ Pass("digest")
    PROVE  MemoryInv'
<1>1. pass \in Passes BY DEF MemoryInv, Right, PassRight
<1>2. pass' \in Passes /\ pass'.export = pass.export /\ pass'.moves = pass.moves
      /\ pass'.pc \notin {"embed", "export"}
  BY <1>1 DEF Pass, Passes
<1> QED BY <1>2, PassMoves

LEMMA FirstRecallKeeps ==
    ASSUME MemoryInv, FirstRecall
    PROVE  MemoryInv'
<1>1. pass' = [NoPass EXCEPT !.pc = "scan"] BY DEF FirstRecall
<1>2. pass' \in Passes /\ pass'.export = <<>> /\ pass'.moves = {} /\ pass'.pc = "scan"
  BY <1>1, NoPassIsOne DEF Passes
<1> QED BY <1>2, PassMoves DEF FirstRecall, store

LEMMA ReviewKeeps ==
    ASSUME MemoryInv, Review
    PROVE  MemoryInv'
<1>1. UNCHANGED <<corpus, flat, session, script, clock, acked, origin>> BY DEF Review, store
<1>2. CASE exported = flat
  <2>1. pass' = [NoPass EXCEPT !.pc = "scan"] BY <1>2 DEF Review
  <2>2. pass' \in Passes /\ pass'.export = <<>> /\ pass'.moves = {} /\ pass'.pc = "scan"
    BY <2>1, NoPassIsOne DEF Passes
  <2> QED BY <1>1, <2>2, PassMoves
<1>3. CASE exported # flat
  <2>1. PICK batch \in SUBSET Unexported :
            pass' = [NoPass EXCEPT !.pc = "export", !.export = [n \in batch |-> flat[n]],
                       !.marker = IF batch = Unexported THEN flat ELSE None]
    BY <1>3 DEF Review
  <2> DEFINE e == [n \in batch |-> flat[n]]
             marker_ == IF batch = Unexported THEN flat ELSE None
  <2>2. FlatRight BY DEF MemoryInv, Right
  <2>3. \A n \in batch : n \in Names /\ flat[n] = Spelled[n] /\ corpus[n] \notin Documents
    BY <2>2, MemoryAssumption DEF FlatRight, Unexported
  <2>4. /\ e \in [batch -> Texts] /\ batch \in SUBSET Names
        /\ \A n \in DOMAIN e : e[n] = Spelled[n] /\ corpus[n] \notin Documents
    BY <2>3, MemoryAssumption
  <2>5. e \in UNION {[N -> Texts] : N \in SUBSET Names} BY <2>4
  <2>6. marker_ \in [Names -> Texts \cup {None}] \cup {None} BY <2>2 DEF FlatRight
  <2>7. pass' = [NoPass EXCEPT !.pc = "export", !.export = e, !.marker = marker_] BY <2>1
  <2> HIDE DEF e, marker_
  <2>8. pass' \in Passes /\ pass'.export = e /\ pass'.moves = {} /\ pass'.pc = "export"
    BY <2>5, <2>6, <2>7, NoPassIsOne DEF Passes
  <2>9. PassRight' BY <1>1, <2>4, <2>8 DEF PassRight, ExportRight
  <2> QED BY <1>1, <2>9, Aside
<1> QED BY <1>2, <1>3

LEMMA ScanKeeps ==
    ASSUME MemoryInv, Scan
    PROVE  MemoryInv'
<1>1. UNCHANGED <<corpus, flat, session, script, clock, acked, origin>> BY DEF Scan, store
<1>2. CASE Ends BY <1>1, <1>2, PassEnds
<1>3. CASE ~Ends
  <2> DEFINE todo_ == {n \in Files(corpus) : known[n] # corpus[n]}
  <2>1. pass' = [pass EXCEPT !.pc = "files", !.seen = corpus, !.todo = todo_] BY <1>3 DEF Scan
  <2>2. pass \in Passes /\ corpus \in [Names -> FileContents]
    BY DEF MemoryInv, Right, PassRight, FiledRight
  <2>3. todo_ \in SUBSET Names BY DEF Files
  <2> HIDE DEF todo_
  <2>4. pass' \in Passes /\ pass'.export = pass.export /\ pass'.moves = pass.moves
        /\ pass'.pc = "files"
    BY <2>1, <2>2, <2>3 DEF Passes
  <2> QED BY <1>1, <2>4, PassMoves
<1> QED BY <1>2, <1>3

LEMMA OutOfTimeKeeps ==
    ASSUME MemoryInv, OutOfTime
    PROVE  MemoryInv'
<1>1. pass \in Passes BY DEF MemoryInv, Right, PassRight
<1>2. pass' \in Passes /\ pass'.export = pass.export /\ pass'.moves = pass.moves
      /\ pass'.pc = "files"
  BY <1>1 DEF OutOfTime, Doing, Later, Passes
<1> QED BY <1>2, PassMoves DEF OutOfTime, store

LEMMA TakeFileKeeps ==
    ASSUME MemoryInv, NEW n \in Names, TakeFile(n)
    PROVE  MemoryInv'
<1>1. UNCHANGED <<corpus, flat, session, script, clock, acked, origin>> BY DEF TakeFile, store
<1>2. pass \in Passes /\ FiledRight BY DEF MemoryInv, Right, PassRight
<1>3. CASE pass' = Skipped(n) \/ pass' = Processed(n)
  <2>1. pass.pc = "files" BY DEF TakeFile, Doing
  <2>2. CASE pass' = Skipped(n)
    <3>1. /\ pass' \in Passes /\ pass'.export = pass.export /\ pass'.moves = pass.moves
          /\ pass'.pc = "files"
      BY <1>2, <2>1, <2>2 DEF Skipped, Passes
    <3> QED BY <1>1, <3>1, PassMoves
  <2>3. CASE pass' = Processed(n)
    <3>1. /\ pass' \in Passes /\ pass'.export = pass.export /\ pass'.moves = pass.moves
          /\ pass'.pc = "files"
      BY <1>2, <2>1, <2>3 DEF Processed, Passes
    <3> QED BY <1>1, <3>1, PassMoves
  <2> QED BY <1>3, <2>2, <2>3
<1>4. CASE /\ Parsed(corpus[n])
           /\ pass' = [pass EXCEPT !.pc = "embed", !.file = [from |-> n, doc |-> corpus[n]], !.embeds = 1]
  <2>1. corpus[n] \in Documents BY <1>2, <1>4, ParsedIsDocument
  <2>2. pass' \in Passes /\ pass'.export = pass.export /\ pass'.moves = pass.moves
        /\ pass'.file.from = n /\ pass'.pc = "embed"
    BY <1>2, <1>4, <2>1 DEF Passes
  <2> QED BY <1>1, <2>2, PassMoves
<1>5. CASE /\ Parsed(corpus[n]) /\ ~WellFiled(n)
           /\ pass' = [pass EXCEPT !.todo = @ \ {n}, !.moves = @ \cup {Move(n)}]
  <2>1. corpus[n] \in Documents BY <1>2, <1>5, ParsedIsDocument
  <2>2. PICK m : m = Move(n)
    OBVIOUS
  <2>3. /\ m \in Moves /\ m.from = n /\ m.doc = corpus[n]
        /\ m.writes => corpus[Target(m.doc)] = None
    BY <2>1, <2>2 DEF Move, Moves
  <2>4. pass' = [pass EXCEPT !.todo = @ \ {n}, !.moves = @ \cup {m}] BY <1>5, <2>2
  <2>5. pass' \in Passes /\ pass'.export = pass.export /\ pass'.moves = pass.moves \cup {m}
        /\ pass'.pc = "files"
    BY <1>2, <2>3, <2>4 DEF Passes, TakeFile, Doing
  <2>6. MoveRight(m)
    <3>1. AskedFor(n) /\ ~Exposed(Spelled[n]) => m.doc.text = Spelled[n]
      BY <1>2, <2>1, <2>3 DEF FiledRight
    <3>2. ASSUME NEW t \in Texts, n = Canon[t], ~Exposed(t) PROVE FALSE
      <4>1. Own(n) \/ corpus[n] = None BY <1>2, <3>2 DEF FiledRight
      <4>2. corpus[n].key = n /\ corpus[n].text = t
        BY <2>1, <3>2, <4>1, MemoryAssumption DEF Own
      <4> QED BY <1>5, <3>2, <4>2 DEF WellFiled, Target
    <3>3. corpus[Target(m.doc)] \in Documents => ~m.writes BY <2>3, MemoryAssumption
    <3> QED BY <2>3, <3>1, <3>2, <3>3 DEF MoveRight
  <2>7. \A k \in pass'.moves : MoveRight(k)'
    BY <1>1, <1>2, <2>5, <2>6, SameMoves DEF MemoryInv, Right, PassRight
  <2>8. ExportRight' BY <1>1, <2>5 DEF MemoryInv, Right, PassRight, ExportRight
  <2>9. PassRight' BY <2>5, <2>7, <2>8 DEF PassRight
  <2> QED BY <1>1, <2>9, Aside
<1> QED BY <1>3, <1>4, <1>5 DEF TakeFile

LEMMA IndexFileKeeps ==
    ASSUME MemoryInv, IndexFile
    PROVE  MemoryInv'
<1>1. UNCHANGED <<corpus, flat, session, script, clock, acked, origin>> BY DEF IndexFile, store
<1>2. pass \in Passes /\ pass.file.from \in Names
  BY DEF MemoryInv, Right, PassRight, IndexFile, Doing
<1>3. PICK n \in Names : n = pass.file.from BY <1>2
<1>4. CASE Ends BY <1>1, <1>4, PassEnds
<1>5. CASE pass' = Indexed(n)
  <2>1. pass' \in Passes /\ pass'.export = pass.export /\ pass'.moves = pass.moves
        /\ pass'.pc = "files"
    BY <1>2, <1>5 DEF Indexed, Processed, Passes
  <2> QED BY <1>1, <2>1, PassMoves
<1>6. CASE pass' = Failed(n)
  <2>1. pass' \in Passes /\ pass'.export = pass.export /\ pass'.moves = pass.moves
        /\ pass'.pc = "files"
    BY <1>2, <1>6 DEF Failed, Passes
  <2> QED BY <1>1, <2>1, PassMoves
<1>7. CASE pass' = [Indexed(n) EXCEPT !.failed = TRUE]
  <2>1. pass' \in Passes /\ pass'.export = pass.export /\ pass'.moves = pass.moves
        /\ pass'.pc = "files"
    BY <1>2, <1>7 DEF Indexed, Processed, Passes
  <2> QED BY <1>1, <2>1, PassMoves
<1> QED BY <1>3, <1>4, <1>5, <1>6, <1>7 DEF IndexFile

LEMMA FilesDoneKeeps ==
    ASSUME MemoryInv, FilesDone
    PROVE  MemoryInv'
<1>1. Pass("hashes") \/ Pass("refile") BY DEF FilesDone
<1> QED BY <1>1, PassGoes DEF FilesDone, store

LEMMA RekeyKeeps ==
    ASSUME MemoryInv, Rekey
    PROVE  MemoryInv'
  BY PassGoes DEF Rekey, store

LEMMA StoreHashesKeeps ==
    ASSUME MemoryInv, StoreHashes
    PROVE  MemoryInv'
  BY PassGoes DEF StoreHashes, store

LEMMA StoreDigestKeeps ==
    ASSUME MemoryInv, StoreDigest
    PROVE  MemoryInv'
  BY PassEnds DEF StoreDigest, store

LEMMA PassDiesKeeps ==
    ASSUME MemoryInv, PassDies
    PROVE  MemoryInv'
  BY PassEnds DEF PassDies, store

-----------------------------------------------------------------------------
(* The passes where they write and remove files *)

LEMMA FilesMove ==
    ASSUME MemoryInv, UNCHANGED <<flat, session, script, clock, acked, origin>>,
           Pass("scan") \/ Pass("retire") \/ Pass("rekey"),
           FiledRight', ExportRight', \A m \in pass'.moves : MoveRight(m)',
           \A t \in Texts : ~Exposed(t) /\ Kept(t) => Kept(t)'
    PROVE  MemoryInv'
<1>1. pass' \in Passes /\ pass'.export = pass.export /\ pass'.moves = pass.moves
      /\ pass'.pc \notin {"embed", "export"}
  BY DEF MemoryInv, Right, PassRight, Pass, Passes
<1>2. PassRight' BY <1>1 DEF PassRight
<1>3. Right' BY <1>2 DEF MemoryInv, Right, FlatRight, AskedRight, AskedFor
<1>4. Promised'
  <2>1. PICK own : own = session.req.text
    OBVIOUS
  <2>2. session.pc \in {"again", "row"} => (Exposed(own) \/ Kept(own)) /\ own \in Texts
    BY <2>1, RequestSpelled DEF MemoryInv, Promised
  <2>3. session.pc \in {"again", "row"} => Exposed(own) \/ Kept(own)' BY <2>2
  <2>4. session'.req.text = own BY <2>1
  <2>5. Kept(session.req.text)' <=> Kept(own)' BY <2>4 DEF Kept, InCorpus, Holds, Parsed
  <2>6. Exposed(session.req.text)' <=> Exposed(own)
    BY <2>4 DEF Exposed, Displaced, AskedFor, Found, Parsed
  <2> QED BY <2>1, <2>3, <2>5, <2>6 DEF MemoryInv, Promised
<1>5. NoMemoryLost'
  <2>1. \A t \in acked : (Exposed(t) \/ Kept(t)) /\ t \in Texts
    BY LostIsNotKept DEF MemoryInv, Right
  <2>2. \A t \in acked' : Exposed(t) \/ Kept(t)' BY <2>1
  <2> QED BY <2>2, OriginStays, LostIsNotKept
<1> QED BY <1>3, <1>4, <1>5 DEF MemoryInv

LEMMA MoveTypes ==
    ASSUME PassRight, NEW m \in pass.moves
    PROVE  /\ m.from \in Names /\ m.doc \in Documents /\ m.doc.text \in Texts
           /\ Target(m.doc) \in Names /\ Spelled[Target(m.doc)] = m.doc.text
<1>1. m.from \in Names /\ m.doc \in Documents BY DEF PassRight, Passes, Moves
<1>2. m.doc.text \in Texts BY <1>1 DEF Documents
<1> QED BY <1>1, <1>2, MemoryAssumption DEF Target

\* Files under names of N are written, where there was none or one with the same text.
LEMMA FilesWritten ==
    ASSUME FiledRight, PassRight, NEW N \in SUBSET Names,
           corpus' \in [Names -> FileContents], UNCHANGED <<flat, origin>>,
           pass'.moves = pass.moves, pass'.export = pass.export,
           \A n \in Names \ N : corpus'[n] = corpus[n],
           \A n \in N : Own(n)' /\ (corpus[n] \in Documents => corpus[n].text = Spelled[n]),
           pass.moves = {} \/ \A n \in N : \E t \in Texts : n = Canon[t]
    PROVE  /\ FiledRight' /\ ExportRight' /\ \A m \in pass'.moves : MoveRight(m)'
           /\ \A t \in Texts : ~Exposed(t) /\ Kept(t) => Kept(t)'
<1>1. FiledRight' /\ ExportRight' /\ \A m \in pass'.moves : MoveRight(m)'
  BY FilesChange DEF PassRight
<1>2. ASSUME NEW n \in Names, corpus[n] \in Documents
      PROVE  corpus'[n] \in Documents /\ corpus'[n].text = corpus[n].text
  BY <1>2 DEF Own
<1>3. \A t \in Texts : Kept(t) => Kept(t)' BY <1>1, <1>2, KeptStays
<1> QED BY <1>1, <1>3

LEMMA ExportKeeps ==
    ASSUME MemoryInv, Export
    PROVE  MemoryInv'
<1>1. UNCHANGED <<flat, session, script, clock, acked, origin>> /\ Pass("scan") BY DEF Export
<1>2. FiledRight /\ PassRight BY DEF MemoryInv, Right
<1>3. PICK failing :
          corpus' = [n \in Names |->
                IF n \in DOMAIN pass.export \ failing
                THEN [key |-> n, text |-> pass.export[n], stamp |-> 0] ELSE corpus[n]]
  BY DEF Export
<1> DEFINE N == Names \cap (DOMAIN pass.export \ failing)
<1>4. ASSUME NEW n \in N
      PROVE  corpus'[n] \in Documents /\ Own(n)' /\ (corpus[n] \in Documents => corpus[n].text = Spelled[n])
  <2>1. n \in Names /\ pass.export[n] = Spelled[n] /\ Spelled[n] \in Texts
    BY <1>2, MemoryAssumption DEF PassRight, ExportRight
  <2>2. corpus'[n] = [key |-> n, text |-> Spelled[n], stamp |-> 0] BY <1>3, <2>1
  <2> QED BY <1>2, <2>1, <2>2, NewDocument DEF Own, PassRight, ExportRight
<1>5. \A n \in Names \ N : corpus'[n] = corpus[n] BY <1>3
<1>6. corpus' \in [Names -> FileContents]
  <2>1. DOMAIN corpus' = Names /\ corpus' = [n \in Names |-> corpus'[n]] BY <1>3
  <2> HIDE DEF N
  <2>2. \A n \in Names : corpus'[n] \in FileContents
    BY <1>2, <1>4, <1>5 DEF FiledRight, FileContents
  <2> QED BY <2>1, <2>2
<1>7. N \in SUBSET Names
  OBVIOUS
<1> HIDE DEF N
<1>8. pass.moves = {} BY <1>2 DEF PassRight, Export, Doing
<1>9. pass'.moves = pass.moves /\ pass'.export = pass.export
  BY <1>1, <1>2 DEF PassRight, Pass, Passes
<1>10. /\ FiledRight' /\ ExportRight' /\ \A m \in pass'.moves : MoveRight(m)'
       /\ \A t \in Texts : ~Exposed(t) /\ Kept(t) => Kept(t)'
  BY <1>1, <1>2, <1>4, <1>5, <1>6, <1>7, <1>8, <1>9, FilesWritten
<1> QED BY <1>1, <1>10, FilesMove

LEMMA RefileKeeps ==
    ASSUME MemoryInv, Refile
    PROVE  MemoryInv'
<1>1. UNCHANGED <<flat, session, script, clock, acked, origin>> /\ Pass("retire") BY DEF Refile
<1>2. FiledRight /\ PassRight BY DEF MemoryInv, Right
<1> DEFINE new == {m \in pass.moves : m.writes}
           the(n) == CHOOSE m \in new : Target(m.doc) = n
<1>3. PICK failing :
          corpus' = [n \in Names |-> IF \E m \in new \ failing : Target(m.doc) = n
                                     THEN [the(n).doc EXCEPT !.key = n] ELSE corpus[n]]
  BY DEF Refile
<1> DEFINE N == {n \in Names : \E m \in new \ failing : Target(m.doc) = n}
<1>4. ASSUME NEW n \in N
      PROVE  /\ corpus'[n] \in Documents /\ Own(n)' /\ \E t \in Texts : n = Canon[t]
             /\ corpus[n] \in Documents => corpus[n].text = Spelled[n]
  <2>1. \E m \in new : Target(m.doc) = n
    OBVIOUS
  <2>2. PICK m \in new : m = the(n) /\ Target(m.doc) = n BY <2>1
  <2>3. m \in pass.moves /\ m.writes /\ MoveRight(m) BY <1>2, <2>2 DEF PassRight
  <2>4. m.doc \in Documents /\ m.doc.text \in Texts /\ Spelled[n] = m.doc.text
    BY <1>2, <2>2, <2>3, MoveTypes
  <2>5. corpus'[n] = [m.doc EXCEPT !.key = n] BY <1>3, <2>2
  <2>6. corpus'[n] \in Documents /\ corpus'[n].key = n /\ corpus'[n].text = m.doc.text
    BY <2>4, <2>5 DEF Documents
  <2> QED BY <2>2, <2>3, <2>4, <2>6 DEF Own, MoveRight, Target
<1>5. \A n \in Names \ N : corpus'[n] = corpus[n] BY <1>3
<1>6. corpus' \in [Names -> FileContents]
  <2>1. DOMAIN corpus' = Names /\ corpus' = [n \in Names |-> corpus'[n]] BY <1>3
  <2> HIDE DEF N
  <2>2. \A n \in Names : corpus'[n] \in FileContents
    BY <1>2, <1>4, <1>5 DEF FiledRight, FileContents
  <2> QED BY <2>1, <2>2
<1>7. N \in SUBSET Names
  OBVIOUS
<1> HIDE DEF N
<1>8. pass'.moves = pass.moves /\ pass'.export = pass.export
  BY <1>1, <1>2 DEF PassRight, Pass, Passes
<1>9. /\ FiledRight' /\ ExportRight' /\ \A m \in pass'.moves : MoveRight(m)'
      /\ \A t \in Texts : ~Exposed(t) /\ Kept(t) => Kept(t)'
  BY <1>1, <1>2, <1>4, <1>5, <1>6, <1>7, <1>8, FilesWritten
<1> QED BY <1>1, <1>9, FilesMove

\* The file of a text's own name is never one of those that are removed, unless the text is
\* exposed.
LEMMA RetireKeeps ==
    ASSUME MemoryInv, Retire
    PROVE  MemoryInv'
<1>1. UNCHANGED <<flat, session, script, clock, acked, origin>> /\ Pass("rekey") BY DEF Retire
<1>2. FiledRight /\ PassRight BY DEF MemoryInv, Right
<1> DEFINE gone == {n \in Names : \E m \in pass.moves : m.from = n /\ corpus[Target(m.doc)] # None}
<1>3. corpus' = [n \in Names |-> IF n \in gone THEN None ELSE corpus[n]] BY DEF Retire
<1>4. ASSUME NEW t \in Texts, ~Exposed(t)
      PROVE  Canon[t] \in Names /\ Canon[t] \notin gone
  <2>1. Canon[t] \in Names BY MemoryAssumption
  <2>2. \A m \in pass.moves : m.from # Canon[t] BY <1>2, <1>4 DEF PassRight, MoveRight
  <2> QED BY <2>1, <2>2
<1>5. ASSUME NEW t \in Texts, ~Exposed(t), NEW n \in gone, corpus[n] \in Documents, corpus[n].text = t
      PROVE  Own(Canon[t])
  <2>1. PICK m \in pass.moves : m.from = n /\ corpus[Target(m.doc)] # None
    OBVIOUS
  <2>2. m.doc.text = t BY <1>2, <1>5, <2>1 DEF PassRight, MoveRight
  <2> QED BY <1>2, <1>5, <2>1, <2>2 DEF FiledRight, Target
<1>6. corpus' \in [Names -> FileContents] BY <1>2, <1>3 DEF FiledRight, FileContents
<1> HIDE DEF gone
<1>7. \A n \in Names : corpus'[n] = IF n \in gone THEN None ELSE corpus[n] BY <1>3
<1>8. pass'.moves = pass.moves /\ pass'.export = pass.export
  BY <1>1, <1>2 DEF PassRight, Pass, Passes
<1>9. FiledRight' /\ ExportRight' /\ \A m \in pass'.moves : MoveRight(m)'
  BY <1>1, <1>2, <1>6, <1>7, <1>8, FilesChange DEF PassRight
<1>10. ASSUME NEW t \in Texts, ~Exposed(t), Kept(t) PROVE Kept(t)'
  <2>1. ASSUME NEW n \in Names, corpus[n] \in Documents, corpus[n].text = t
        PROVE  \E k \in Names : corpus'[k] \in Documents /\ corpus'[k].text = t
    <3>1. CASE n \notin gone BY <1>7, <2>1, <3>1
    <3>2. CASE n \in gone
      <4>1. Own(Canon[t]) BY <1>5, <1>10, <2>1, <3>2
      <4>2. corpus'[Canon[t]] = corpus[Canon[t]] /\ Canon[t] \in Names BY <1>4, <1>7, <1>10
      <4>3. Spelled[Canon[t]] = t BY MemoryAssumption
      <4> QED BY <4>1, <4>2, <4>3 DEF Own
    <3> QED BY <3>1, <3>2
  <2> QED BY <1>1, <1>2, <1>9, <1>10, <2>1, KeptStays
<1> QED BY <1>1, <1>9, <1>10, FilesMove

-----------------------------------------------------------------------------
LEMMA NextKeepsMemories ==
    ASSUME MemoryInv, Next
    PROVE  MemoryInv'
<1>1. CASE Session
  BY <1>1, DispatchKeeps, LookKeeps, EmbedKeeps, FileAgainKeeps, WriteFileKeeps, WriteRowKeeps,
     PruneRowKeeps, PruneFlatKeeps, PruneFileKeeps, SessionDiesKeeps DEF Session
<1>2. CASE PassStep
  BY <1>2, ExportKeeps, ScanKeeps, OutOfTimeKeeps, TakeFileKeeps, IndexFileKeeps, FilesDoneKeeps,
     RefileKeeps, RetireKeeps, RekeyKeeps, StoreHashesKeeps, StoreDigestKeeps DEF PassStep
<1>3. CASE Starts BY <1>3, ReviewKeeps, FirstRecallKeeps DEF Starts
<1>4. CASE Vacuum \/ Restart
  <2>1. UNCHANGED <<corpus, flat, session, script, clock, acked, origin, pass>>
    BY <1>4 DEF Vacuum, Restart, store
  <2>2. PassRight' BY <2>1, SamePass DEF MemoryInv, Right
  <2> QED BY <2>1, <2>2, Aside
<1> QED BY <1>1, <1>2, <1>3, <1>4, PassDiesKeeps DEF Next

LEMMA StoresKeepMemories == MemoryInv /\ [StoresNext]_all => MemoryInv'
<1> SUFFICES ASSUME MemoryInv, [StoresNext]_all PROVE MemoryInv'
  OBVIOUS
<1>1. CASE Remember BY <1>1, NextKeepsMemories DEF Remember
<1>2. CASE IndexCode \/ RecreateDatabase \/ SyncCommits \/ UseCache \/ UNCHANGED all
  <2>1. UNCHANGED <<corpus, flat, session, script, clock, acked, origin, pass>>
    BY <1>2 DEF IndexCode, RecreateDatabase, SyncCommits, UseCache, all, vars, store
  <2>2. PassRight' BY <2>1, SamePass DEF MemoryInv, Right
  <2> QED BY <2>1, <2>2, Aside
<1> QED BY <1>1, <1>2 DEF StoresNext

LEMMA InitMemories ==
    ASSUME StoresAssumption, StoresInit
    PROVE  MemoryInv
<1>1. PICK s \in Scenarios : From(s) BY DEF StoresInit, StoresAssumption
<1>2. /\ corpus = s.files /\ flat = s.flat /\ script = s.script /\ origin = s
      /\ session = AtRest /\ pass = NoPass /\ clock = 0 /\ acked = {t \in Texts : InCorpus(t)}
  BY <1>1 DEF From
<1>3. FiledRight
  <2>1. corpus \in [Names -> FileContents] BY <1>2, MemoryAssumption DEF FileContents
  <2>2. \A n \in Names : Found(n) = corpus[n] BY <1>2 DEF Found
  <2>3. ASSUME NEW n \in Names, AskedFor(n), corpus[n] \in Documents, corpus[n].text # Spelled[n]
        PROVE  Exposed(Spelled[n]) /\ Exposed(corpus[n].text)
    <3>1. Parsed(Found(n)) BY <2>2, <2>3, MemoryAssumption DEF Parsed
    <3> QED BY <2>2, <2>3, <3>1 DEF Exposed
  <2>4. ASSUME NEW t \in Texts, ~Exposed(t), corpus[Canon[t]] # None PROVE Own(Canon[t])
    <3>1. Canon[t] \in Names /\ Spelled[Canon[t]] = t BY MemoryAssumption
    <3>2. ~Displaced(t) BY <2>2, <2>4, <3>1 DEF Exposed
    <3>3. Parsed(corpus[Canon[t]]) /\ corpus[Canon[t]].key = Canon[t] /\ corpus[Canon[t]].text = t
      BY <2>2, <3>1, <3>2 DEF Displaced
    <3> QED BY <2>1, <3>1, <3>3, MemoryAssumption DEF Own, Parsed, FileContents
  <2> QED BY <2>1, <2>3, <2>4 DEF FiledRight
<1>4. FlatRight BY <1>2, MemoryAssumption DEF FlatRight
<1>5. AskedRight
  <2>1. script \in Seq(Requests) BY <1>2, MemoryAssumption
  <2>2. \A i \in DOMAIN script : script[i].text = Spelled[script[i].name]
    BY <1>2, MemoryAssumption
  <2>3. \A i \in DOMAIN script : AskedFor(script[i].name) BY <1>2 DEF AskedFor
  <2> QED BY <1>2, <2>1, <2>2, <2>3 DEF AskedRight, AtRest, Sessions
<1>6. PassRight BY <1>2, NoPassIsOne DEF PassRight, ExportRight
<1>7. Promised BY <1>2 DEF Promised, AtRest
<1>8. NoMemoryLost BY <1>2 DEF NoMemoryLost
<1> QED BY <1>2, <1>3, <1>4, <1>5, <1>6, <1>7, <1>8 DEF MemoryInv, Right

\* sync_index, export_flat_json and the memorize verbs: whatever is rekeyed, exported,
\* refused, killed or recreated, by whichever of the stores, and whatever files there were
\* at first, a memory that was acknowledged and not pruned is in the corpus or the legacy
\* store, unless it is one that was exposed from the first: one whose own name was that of a
\* file that is not its document, or that was swapped in a file that is asked for by name.
THEOREM MemoriesAreKept ==
    ASSUME StoresAssumption
    PROVE  StoresSpec => []NoMemoryLost
<1>1. StoresInit => MemoryInv BY InitMemories
<1>2. MemoryInv /\ [StoresNext]_all => MemoryInv' BY StoresKeepMemories
<1>3. MemoryInv => NoMemoryLost BY DEF MemoryInv
<1> QED BY <1>1, <1>2, <1>3, PTL DEF StoresSpec

-----------------------------------------------------------------------------
(* Folding over a finite set *)

\* What holds of a set as soon as it holds of its proper subsets holds of every subset
\* of a finite set.
LEMMA SubsetInduction ==
    ASSUME NEW U, IsFiniteSet(U), NEW T \in SUBSET SUBSET U,
           \A s \in SUBSET U : (\A r \in SUBSET s : r # s => r \in T) => s \in T
    PROVE  T = SUBSET U
<1> SUFFICES ASSUME (SUBSET U) \ T # {} PROVE FALSE OBVIOUS
<1> DEFINE R == StrictSubsetOrdering(U)
<1>1. IsWellFoundedOn(R, SUBSET U)
  <2>1. IsWellFoundedOn(R, FiniteSubsetsOf(U)) BY FS_StrictSubsetOrderingWellFounded
  <2>2. FiniteSubsetsOf(U) = SUBSET U BY FS_FiniteSubsetsOfFinite
  <2> QED BY <2>1, <2>2
<1>2. R = {ss \in (SUBSET U) \X (SUBSET U) : ss[1] \subseteq ss[2] /\ ss[1] # ss[2]}
  BY DEF StrictSubsetOrdering
<1> DEFINE B == (SUBSET U) \ T
<1>3. B \subseteq SUBSET U /\ B # {} OBVIOUS
<1> HIDE DEF R, B
<1>4. PICK s \in B : \A r \in B : ~(<<r, s>> \in R) BY <1>1, <1>3, WFMin
<1>5. s \in SUBSET U /\ s \notin T BY <1>4 DEF B
<1>6. ASSUME NEW r \in SUBSET s, r # s PROVE r \in T
  <2>1. <<r, s>> \in R BY <1>2, <1>5, <1>6
  <2> QED BY <1>4, <1>5, <1>6, <2>1 DEF B
<1>7. \A r \in SUBSET s : r # s => r \in T BY <1>6
<1> QED BY <1>5, <1>7

\* F folds G over every subset of S, in the order in which first takes the members.
FoldsOver(F, S, b, G, first) ==
    /\ F[{}] = b
    /\ \A s \in SUBSET S : s # {} => F[s] = G[first[s]][F[s \ {first[s]}]]

Picks(first, U) == \A s \in SUBSET U : s # {} => first[s] \in s

LEMMA FoldIsUnique ==
    ASSUME NEW U, IsFiniteSet(U), NEW b, NEW G, NEW first, Picks(first, U),
           NEW S \in SUBSET U, NEW R \in SUBSET U, NEW F, NEW H,
           FoldsOver(F, S, b, G, first), FoldsOver(H, R, b, G, first)
    PROVE  \A s \in SUBSET (S \cap R) : F[s] = H[s]
<1> DEFINE V == S \cap R
           T == {s \in SUBSET V : F[s] = H[s]}
<1>1. IsFiniteSet(V) BY FS_Subset
<1>2. ASSUME NEW s \in SUBSET V, \A r \in SUBSET s : r # s => r \in T PROVE s \in T
  <2>1. CASE s = {} BY <2>1 DEF FoldsOver
  <2>2. CASE s # {}
    <3>1. first[s] \in s BY <2>2 DEF Picks
    <3>2. s \ {first[s]} \in T BY <1>2, <3>1
    <3>3. F[s] = G[first[s]][F[s \ {first[s]}]] BY <2>2 DEF FoldsOver
    <3>4. H[s] = G[first[s]][H[s \ {first[s]}]] BY <2>2 DEF FoldsOver
    <3> QED BY <3>2, <3>3, <3>4
  <2> QED BY <2>1, <2>2
<1>3. T \in SUBSET SUBSET V OBVIOUS
<1> HIDE DEF T, V
<1>4. T = SUBSET V BY <1>1, <1>2, <1>3, SubsetInduction
<1> QED BY <1>4 DEF T, V

LEMMA FoldExists ==
    ASSUME NEW U, IsFiniteSet(U), NEW X, NEW b \in X, NEW G \in [U -> [X -> X]],
           NEW first, Picks(first, U)
    PROVE  \E F \in [SUBSET U -> X] : FoldsOver(F, U, b, G, first)
<1> DEFINE T == {S \in SUBSET U : \E F \in [SUBSET S -> X] : FoldsOver(F, S, b, G, first)}
<1>1. ASSUME NEW S \in SUBSET U, \A r \in SUBSET S : r # S => r \in T PROVE S \in T
  <2>1. CASE S = {}
    <3> DEFINE F == [s \in SUBSET S |-> b]
    <3>1. F \in [SUBSET S -> X] OBVIOUS
    <3>2. FoldsOver(F, S, b, G, first) BY <2>1 DEF FoldsOver
    <3> QED BY <3>1, <3>2
  <2>2. CASE S # {}
    <3> DEFINE H(r) == CHOOSE F \in [SUBSET r -> X] : FoldsOver(F, r, b, G, first)
    <3>1. ASSUME NEW r \in SUBSET S, r # S
          PROVE  H(r) \in [SUBSET r -> X] /\ FoldsOver(H(r), r, b, G, first)
      BY <1>1, <3>1
    <3> HIDE DEF H
    <3> DEFINE x == first[S]
               rest == S \ {x}
               F == [s \in SUBSET S |-> IF s = S THEN G[x][H(rest)[rest]] ELSE H(s)[s]]
    <3>2. x \in S /\ rest \in SUBSET S /\ rest # S /\ G[x] \in [X -> X]
      BY <2>2 DEF Picks
    <3>3. \A r \in SUBSET S : r # S => H(r)[r] \in X
      <4> SUFFICES ASSUME NEW r \in SUBSET S, r # S PROVE H(r)[r] \in X OBVIOUS
      <4>1. H(r) \in [SUBSET r -> X] BY <3>1
      <4> QED BY <4>1
    <3>4. F \in [SUBSET S -> X] BY <3>2, <3>3
    <3>5. F[{}] = b
      <4>1. FoldsOver(H({}), {}, b, G, first) BY <2>2, <3>1
      <4> QED BY <2>2, <4>1 DEF FoldsOver
    <3>6. ASSUME NEW s \in SUBSET S, s # {} PROVE F[s] = G[first[s]][F[s \ {first[s]}]]
      <4> DEFINE t == s \ {first[s]}
      <4>1. first[s] \in s BY <3>6 DEF Picks
      <4>2. t \in SUBSET S /\ t # S /\ t \in SUBSET s BY <4>1
      <4>3. F[t] = H(t)[t] BY <4>2
      <4>4. CASE s = S BY <4>3, <4>4
      <4>5. CASE s # S
        <5>1. FoldsOver(H(s), s, b, G, first) BY <3>1, <4>5
        <5>2. FoldsOver(H(t), t, b, G, first) BY <3>1, <4>2
        <5>3. t \in SUBSET (s \cap t) BY <4>2
        <5>4. s \in SUBSET U /\ t \in SUBSET U BY <4>2
        <5>5. \A r \in SUBSET (s \cap t) : H(s)[r] = H(t)[r]
          BY <5>1, <5>2, <5>4, FoldIsUnique
        <5>6. H(s)[t] = H(t)[t] BY <5>3, <5>5
        <5>7. s \in SUBSET s OBVIOUS
        <5>8. H(s)[s] = G[first[s]][H(s)[t]] BY <3>6, <5>1, <5>7 DEF FoldsOver
        <5> QED BY <4>3, <4>5, <5>6, <5>8
      <4> QED BY <4>4, <4>5
    <3> HIDE DEF F
    <3>7. FoldsOver(F, S, b, G, first) BY <3>5, <3>6 DEF FoldsOver
    <3> QED BY <3>4, <3>7
  <2> QED BY <2>1, <2>2
<1>2. T \in SUBSET SUBSET U OBVIOUS
<1> HIDE DEF T
<1>3. T = SUBSET U BY <1>1, <1>2, SubsetInduction
<1>4. U \in T BY <1>3
<1> QED BY <1>4 DEF T

-----------------------------------------------------------------------------
(* The size of rows *)

SizeIn(e, K) == cache!FoldSet(LAMBDA k, sum : sum + Bytes[e[k].value], 0, K)

AnyOf(s) == CHOOSE x \in s : TRUE
SizeStep(e, I) ==
    [s \in DOMAIN I |-> IF s = {} THEN 0 ELSE I[s \ {AnyOf(s)}] + Bytes[e[AnyOf(s)].value]]

LEMMA SizeHere == \A K : cache!SizeOf(K) = SizeIn(entries, K)
  BY DEF cache!SizeOf, SizeIn

LEMMA SizeIsIterated ==
    ASSUME NEW e, NEW K, IsFiniteSet(K), NEW I, DOMAIN I = SUBSET K, I = SizeStep(e, I)
    PROVE  SizeIn(e, K) = I[K]
<1> DEFINE P(J) == J = [s \in SUBSET K |->
                          IF s = {} THEN 0 ELSE J[s \ {AnyOf(s)}] + Bytes[e[AnyOf(s)].value]]
<1>1. P(I) BY DEF SizeStep
<1> DEFINE J == CHOOSE J : P(J)
<1>2. P(J) BY <1>1
<1>3. SizeIn(e, K) = J[K]
  BY DEF SizeIn, cache!FoldSet, cache!MapThenFoldSet, AnyOf
<1> HIDE DEF J
<1>4. \A s \in SUBSET K : s # {} => AnyOf(s) \in s BY DEF AnyOf
<1> HIDE DEF AnyOf
<1> DEFINE T == {s \in SUBSET K : J[s] = I[s]}
<1>5. ASSUME NEW s \in SUBSET K, \A r \in SUBSET s : r # s => r \in T PROVE s \in T
  <2>1. CASE s = {} BY <1>1, <1>2, <2>1
  <2>2. CASE s # {}
    <3> DEFINE t == s \ {AnyOf(s)}
    <3>1. t \in T /\ t \in SUBSET K BY <1>4, <1>5, <2>2
    <3>2. J[s] = J[t] + Bytes[e[AnyOf(s)].value] BY <1>2, <2>2
    <3>3. I[s] = I[t] + Bytes[e[AnyOf(s)].value] BY <1>1, <2>2
    <3> QED BY <3>1, <3>2, <3>3
  <2> QED BY <2>1, <2>2
<1>6. T \in SUBSET SUBSET K OBVIOUS
<1> HIDE DEF T
<1>7. T = SUBSET K BY <1>5, <1>6, SubsetInduction
<1>8. K \in T BY <1>7
<1> QED BY <1>3, <1>8 DEF T

\* The sum of the weights w over every subset of U.
Sums(F, U, w) ==
    F[{}] = 0 /\ \A s \in SUBSET U : \A k \in s : F[s] = F[s \ {k}] + w[k]

Weighs(e, K, w) == \A k \in K : Bytes[e[k].value] = w[k]

SizesAre(F, U, w) ==
    \A K \in SUBSET U : \A e : Weighs(e, K, w) => SizeIn(e, K) = F[K]

LEMMA SizeIsASum ==
    ASSUME NEW U, IsFiniteSet(U), NEW w \in [U -> Nat]
    PROVE  \E F \in [SUBSET U -> Nat] : Sums(F, U, w) /\ SizesAre(F, U, w)
<1> DEFINE G == [x \in U |-> [n \in Nat |-> n + w[x]]]
           first == [s \in SUBSET U |-> AnyOf(s)]
<1>1. G \in [U -> [Nat -> Nat]] OBVIOUS
<1>2. \A s \in SUBSET U : s # {} => AnyOf(s) \in s BY DEF AnyOf
<1>3. Picks(first, U) BY <1>2 DEF Picks
<1>4. \A s \in SUBSET U : first[s] = AnyOf(s) OBVIOUS
<1>5. \A x \in U, n \in Nat : G[x][n] = n + w[x] OBVIOUS
<1> HIDE DEF G, first, AnyOf
<1>6. PICK F \in [SUBSET U -> Nat] : FoldsOver(F, U, 0, G, first)
  BY <1>1, <1>3, FoldExists
<1>7. ASSUME NEW s \in SUBSET U, s # {}
      PROVE  /\ AnyOf(s) \in s /\ s \ {AnyOf(s)} \in SUBSET U
             /\ F[s] = F[s \ {AnyOf(s)}] + w[AnyOf(s)]
  <2>1. AnyOf(s) \in s /\ s \ {AnyOf(s)} \in SUBSET U BY <1>2, <1>7
  <2>2. F[s] = G[AnyOf(s)][F[s \ {AnyOf(s)}]] BY <1>4, <1>6, <1>7 DEF FoldsOver
  <2> QED BY <1>5, <2>1, <2>2
<1>8. F[{}] = 0 BY <1>6 DEF FoldsOver
<1> DEFINE T == {s \in SUBSET U : \A k \in s : F[s] = F[s \ {k}] + w[k]}
<1>9. ASSUME NEW s \in SUBSET U, \A r \in SUBSET s : r # s => r \in T PROVE s \in T
  <2> SUFFICES ASSUME NEW k \in s PROVE F[s] = F[s \ {k}] + w[k] OBVIOUS
  <2> DEFINE x == AnyOf(s)
  <2>1. x \in s /\ F[s] = F[s \ {x}] + w[x] BY <1>7
  <2> HIDE DEF x
  <2>2. CASE k = x BY <2>1, <2>2
  <2>3. CASE k # x
    <3>1. s \ {x} \in T /\ s \ {k} \in T BY <1>9, <2>1
    <3>2. k \in s \ {x} /\ x \in s \ {k} BY <2>1, <2>3
    <3>3. F[s \ {x}] = F[(s \ {x}) \ {k}] + w[k] BY <3>1, <3>2
    <3>4. F[s \ {k}] = F[(s \ {k}) \ {x}] + w[x] BY <3>1, <3>2
    <3>5. (s \ {x}) \ {k} = (s \ {k}) \ {x} OBVIOUS
    <3> DEFINE n == F[(s \ {k}) \ {x}]
    <3>6. n \in Nat /\ w[k] \in Nat /\ w[x] \in Nat BY <2>1
    <3>7. F[s \ {x}] = n + w[k] /\ F[s \ {k}] = n + w[x] BY <3>3, <3>4, <3>5
    <3> HIDE DEF n
    <3> QED BY <2>1, <3>6, <3>7
  <2> QED BY <2>2, <2>3
<1>10. T \in SUBSET SUBSET U OBVIOUS
<1> HIDE DEF T
<1>11. T = SUBSET U BY <1>9, <1>10, SubsetInduction
<1>12. Sums(F, U, w) BY <1>8, <1>11 DEF Sums, T
<1>13. ASSUME NEW K \in SUBSET U, NEW e, Weighs(e, K, w) PROVE SizeIn(e, K) = F[K]
  <2> DEFINE I == [s \in SUBSET K |-> F[s]]
  <2>1. IsFiniteSet(K) BY FS_Subset
  <2>2. DOMAIN I = SUBSET K OBVIOUS
  <2>3. ASSUME NEW s \in SUBSET K
        PROVE  I[s] = IF s = {} THEN 0 ELSE I[s \ {AnyOf(s)}] + Bytes[e[AnyOf(s)].value]
    <3>1. CASE s = {} BY <1>8, <3>1
    <3>2. CASE s # {}
      <4>1. AnyOf(s) \in K /\ s \ {AnyOf(s)} \in SUBSET K BY <1>7, <3>2
      <4>2. Bytes[e[AnyOf(s)].value] = w[AnyOf(s)] BY <1>13, <4>1 DEF Weighs
      <4>3. F[s] = F[s \ {AnyOf(s)}] + w[AnyOf(s)] BY <1>7, <3>2
      <4> QED BY <3>2, <4>1, <4>2, <4>3
    <3> QED BY <3>1, <3>2
  <2>4. I = SizeStep(e, I) BY <2>3 DEF SizeStep
  <2>5. I[K] = F[K] OBVIOUS
  <2> HIDE DEF I
  <2> QED BY <2>1, <2>2, <2>4, <2>5, SizeIsIterated
<1> QED BY <1>12, <1>13 DEF SizesAre
LEMMA SizeGrows ==
    ASSUME NEW L, IsFiniteSet(L), NEW K \in SUBSET L, NEW e, NEW d,
           \A k \in L : Bytes[d[k].value] \in Nat,
           \A k \in K : Bytes[e[k].value] = Bytes[d[k].value]
    PROVE  /\ SizeIn(e, K) \in Nat /\ SizeIn(d, L) \in Nat
           /\ SizeIn(e, K) <= SizeIn(d, L)
<1> DEFINE w == [k \in L |-> Bytes[d[k].value]]
<1>1. w \in [L -> Nat] OBVIOUS
<1>2. Weighs(e, K, w) /\ Weighs(d, L, w) BY DEF Weighs
<1> HIDE DEF w
<1>3. PICK F \in [SUBSET L -> Nat] : Sums(F, L, w) /\ SizesAre(F, L, w)
  BY <1>1, SizeIsASum
<1>4. SizeIn(e, K) = F[K] /\ SizeIn(d, L) = F[L] BY <1>2, <1>3 DEF SizesAre
<1> DEFINE T == {S \in SUBSET L : \A R \in SUBSET S : F[R] <= F[S]}
<1>5. ASSUME NEW S \in SUBSET L, \A r \in SUBSET S : r # S => r \in T PROVE S \in T
  <2> SUFFICES ASSUME NEW R \in SUBSET S PROVE F[R] <= F[S] OBVIOUS
  <2>1. CASE R = S BY <2>1
  <2>2. CASE R # S
    <3>1. PICK k \in S : k \notin R BY <2>2
    <3>2. S \ {k} \in T /\ R \in SUBSET (S \ {k}) BY <1>5, <3>1
    <3>3. F[R] <= F[S \ {k}] BY <3>2
    <3>4. F[S] = F[S \ {k}] + w[k] BY <1>3 DEF Sums
    <3>5. F[R] \in Nat /\ F[S \ {k}] \in Nat /\ w[k] \in Nat BY <1>1
    <3> QED BY <3>3, <3>4, <3>5
  <2> QED BY <2>1, <2>2
<1>6. T \in SUBSET SUBSET L OBVIOUS
<1> HIDE DEF T
<1>7. T = SUBSET L BY <1>5, <1>6, SubsetInduction
<1>8. L \in T BY <1>7
<1>9. F[K] <= F[L] BY <1>8 DEF T
<1> QED BY <1>4, <1>9

LEMMA SizeAdds ==
    ASSUME NEW U, IsFiniteSet(U), NEW e, \A k \in U : Bytes[e[k].value] \in Nat,
           NEW K \in SUBSET U, NEW k \in U, k \notin K
    PROVE  /\ SizeIn(e, {}) = 0 /\ SizeIn(e, K) \in Nat
           /\ SizeIn(e, K \cup {k}) = SizeIn(e, K) + Bytes[e[k].value]
<1> DEFINE w == [x \in U |-> Bytes[e[x].value]]
<1>1. w \in [U -> Nat] OBVIOUS
<1>2. \A S \in SUBSET U : Weighs(e, S, w) BY DEF Weighs
<1>3. w[k] = Bytes[e[k].value] OBVIOUS
<1> HIDE DEF w
<1>4. PICK F \in [SUBSET U -> Nat] : Sums(F, U, w) /\ SizesAre(F, U, w)
  BY <1>1, SizeIsASum
<1>5. \A S \in SUBSET U : SizeIn(e, S) = F[S] BY <1>2, <1>4 DEF SizesAre
<1>6. K \cup {k} \in SUBSET U /\ (K \cup {k}) \ {k} = K OBVIOUS
<1>7. F[K \cup {k}] = F[K] + w[k] BY <1>4, <1>6 DEF Sums
<1>8. F[{}] = 0 BY <1>4 DEF Sums
<1>9. SizeIn(e, {}) = F[{}] BY <1>5
<1> QED BY <1>3, <1>5, <1>6, <1>7, <1>8, <1>9

LEMMA SizeOfNone ==
    ASSUME NEW e PROVE SizeIn(e, {}) = 0
<1> DEFINE w == [k \in {} |-> 0]
<1>1. IsFiniteSet({}) /\ w \in [{} -> Nat] BY FS_EmptySet
<1>2. Weighs(e, {}, w) BY DEF Weighs
<1> HIDE DEF w
<1>3. PICK F \in [SUBSET {} -> Nat] : Sums(F, {}, w) /\ SizesAre(F, {}, w)
  BY <1>1, SizeIsASum
<1> QED BY <1>2, <1>3 DEF Sums, SizesAre

-----------------------------------------------------------------------------
(* What enforce_budget keeps *)

LEMMA LargestOfSome ==
    ASSUME NEW n \in Nat, NEW s \in SUBSET (1 .. n), s # {}
    PROVE  cache!Max(s) \in s /\ \A i \in s : i <= cache!Max(s)
<1> DEFINE T == {r \in SUBSET s : r # {} => \E m \in r : \A i \in r : i <= m}
<1>0. IsFiniteSet(1 .. n) BY FS_Interval
<1>1. IsFiniteSet(s) BY <1>0, FS_Subset
<1>2. ASSUME NEW r \in SUBSET s, \A q \in SUBSET r : q # r => q \in T PROVE r \in T
  <2> SUFFICES ASSUME r # {} PROVE \E m \in r : \A i \in r : i <= m OBVIOUS
  <2>1. PICK k \in r : TRUE OBVIOUS
  <2>2. r \ {k} \in T BY <1>2
  <2>3. CASE r = {k} BY <2>3
  <2>4. CASE r # {k}
    <3>1. PICK m \in r \ {k} : \A i \in r \ {k} : i <= m BY <2>2, <2>4
    <3>2. CASE k <= m BY <3>1, <3>2
    <3>3. CASE ~(k <= m) BY <3>1, <3>3
    <3> QED BY <3>2, <3>3
  <2> QED BY <2>3, <2>4
<1>3. T \in SUBSET SUBSET s OBVIOUS
<1> HIDE DEF T
<1>4. T = SUBSET s BY <1>1, <1>2, <1>3, SubsetInduction
<1>5. s \in T BY <1>4
<1>6. \E m \in s : \A i \in s : i <= m BY <1>5 DEF T
<1>7. \E m \in s : \A i \in s : m >= i BY <1>6
<1>8. cache!Max(s) \in s /\ \A i \in s : cache!Max(s) >= i BY <1>7 DEF cache!Max
<1> QED BY <1>8

EntryType == [value : {v \in Values : Bytes[v] <= MaxValueBytes}, expires : Nat \cup {Forever}, used : Nat]

RowsTyped ==
    /\ entries \in [CacheKeys -> EntryType \cup {None}]
    /\ IsFiniteSet(cache!Rows)

LEMMA WeightsAreSizes ==
    ASSUME cache!EntryCacheAssumption, RowsTyped
    PROVE  \A k \in cache!Rows :
              Bytes[entries[k].value] \in Nat /\ Bytes[entries[k].value] <= MaxValueBytes
  BY DEF cache!EntryCacheAssumption, RowsTyped, cache!Rows, EntryType

Keeping(order, kept, i) ==
    IF i > MaxCacheEntries \/ cache!SizeOf(kept) + Bytes[entries[order[i]].value] > MaxCacheBytes
    THEN kept ELSE kept \cup {order[i]}

KeepStep(order, I) ==
    [s \in DOMAIN I |-> IF s = {} THEN {}
                        ELSE Keeping(order, I[s \ {cache!Max(s)}], cache!Max(s))]

LEMMA KeptIsIterated ==
    ASSUME NEW n \in Nat, NEW order, DOMAIN order = 1 .. n,
           NEW I, DOMAIN I = SUBSET (1 .. n), I = KeepStep(order, I)
    PROVE  cache!Kept(order) = I[1 .. n]
<1> DEFINE seq == [i \in DOMAIN order |-> i]
           P(J) == J = [s \in SUBSET DOMAIN seq |->
                          IF s = {} THEN {}
                          ELSE Keeping(order, J[s \ {cache!Max(s)}], seq[cache!Max(s)])]
<1>1. DOMAIN seq = 1 .. n /\ \A s \in SUBSET (1 .. n) : s # {} => seq[cache!Max(s)] = cache!Max(s)
  BY LargestOfSome
<1>2. P(I)
  <2>1. I = [s \in SUBSET DOMAIN seq |->
               IF s = {} THEN {} ELSE Keeping(order, I[s \ {cache!Max(s)}], cache!Max(s))]
    BY <1>1 DEF KeepStep
  <2> HIDE DEF seq
  <2> QED BY <1>1, <2>1
<1> DEFINE J == CHOOSE J : P(J)
<1>3. P(J) BY <1>2
<1>4. cache!Kept(order) = J[DOMAIN seq]
  BY DEF cache!Kept, cache!FoldLeft, cache!MapThenFoldSet, Keeping
<1> HIDE DEF J, seq
<1> DEFINE N == 1 .. n
           T == {s \in SUBSET N : J[s] = I[s]}
<1>5. ASSUME NEW s \in SUBSET N, \A r \in SUBSET s : r # s => r \in T PROVE s \in T
  <2>1. CASE s = {} BY <1>1, <1>2, <1>3, <2>1
  <2>2. CASE s # {}
    <3> DEFINE m == cache!Max(s)
               t == s \ {m}
    <3>1. t \in T BY <1>5, <2>2, LargestOfSome
    <3>2. J[s] = Keeping(order, J[t], seq[m]) BY <1>1, <1>3, <2>2
    <3>3. I[s] = Keeping(order, I[t], seq[m]) BY <1>1, <1>2, <2>2
    <3> QED BY <3>1, <3>2, <3>3
  <2> QED BY <2>1, <2>2
<1>6. T \in SUBSET SUBSET N OBVIOUS
<1>7. IsFiniteSet(N) BY FS_Interval
<1> HIDE DEF T, N
<1>8. T = SUBSET N BY <1>5, <1>6, <1>7, SubsetInduction
<1>9. N \in T BY <1>8
<1> QED BY <1>1, <1>4, <1>9 DEF T, N

Newest(k) == \A j \in cache!Rows \ {k} : entries[j].used < entries[k].used

LEMMA SameCardinality == \A S : cache!Cardinality(S) = Cardinality(S)
  BY DEF cache!Cardinality, Cardinality

LEMMA OrderShape ==
    ASSUME RowsTyped, NEW order \in cache!Orders
    PROVE  LET n == Cardinality(cache!Rows) IN
           /\ n \in Nat /\ order \in [1 .. n -> cache!Rows]
           /\ \A i, j \in 1 .. n : i # j => order[i] # order[j]
           /\ \A k \in cache!Rows : Newest(k) => 1 \in 1 .. n /\ order[1] = k
<1> DEFINE n == Cardinality(cache!Rows)
<1>1. n \in Nat BY FS_CardinalityType DEF RowsTyped
<1>2. /\ order \in [1 .. n -> cache!Rows]
      /\ \A i, j \in 1 .. n : i # j => order[i] # order[j]
      /\ \A i, j \in DOMAIN order : i < j => entries[order[i]].used >= entries[order[j]].used
  <2>1. /\ order \in cache!SetToSeqs(cache!Rows)
        /\ \A i, j \in DOMAIN order : i < j => entries[order[i]].used >= entries[order[j]].used
    BY DEF cache!Orders
  <2>2. order \in {f \in [1 .. n -> cache!Rows] : \A i, j \in 1 .. n : i # j => f[i] # f[j]}
    BY <2>1, SameCardinality DEF cache!SetToSeqs
  <2> HIDE DEF n
  <2> QED BY <2>1, <2>2
<1> SUFFICES ASSUME NEW k \in cache!Rows, Newest(k) PROVE 1 \in 1 .. n /\ order[1] = k
  BY <1>1, <1>2
<1>3. order \in Injection(1 .. n, cache!Rows) BY <1>2 DEF Injection, IsInjective
<1>4. IsFiniteSet(1 .. n) /\ Cardinality(1 .. n) = n BY <1>1, FS_Interval
<1>5. order \in Surjection(1 .. n, cache!Rows) BY <1>3, <1>4, FS_Injection DEF RowsTyped
<1>6. PICK i \in 1 .. n : order[i] = k BY <1>5 DEF Surjection
<1>7. CASE i = 1 BY <1>6, <1>7
<1>8. CASE i # 1
  <2>1. 1 \in 1 .. n /\ 1 < i BY <1>1, <1>6, <1>8
  <2>2. entries[order[1]].used >= entries[k].used BY <1>2, <1>6, <2>1
  <2>3. order[1] \in cache!Rows \ {k} BY <1>2, <1>6, <1>8, <2>1
  <2>4. entries[order[1]].used < entries[k].used BY <2>3 DEF Newest
  <2>5. entries[order[1]].used \in Nat /\ entries[k].used \in Nat
    BY <2>3 DEF RowsTyped, cache!Rows, EntryType
  <2> QED BY <2>2, <2>4, <2>5
<1> QED BY <1>7, <1>8

Fits(K) == SizeIn(entries, K) \in Nat /\ SizeIn(entries, K) <= MaxCacheBytes

LEMMA KeptFits ==
    ASSUME cache!EntryCacheAssumption, RowsTyped, NEW order \in cache!Orders
    PROVE  /\ cache!Kept(order) \in SUBSET cache!Rows
           /\ Cardinality(cache!Kept(order)) <= MaxCacheEntries
           /\ Fits(cache!Kept(order))
           /\ \A k \in cache!Rows :
                 Newest(k) => k \in cache!Kept(order)
<1> DEFINE n == Cardinality(cache!Rows)
           N == 1 .. n
           G == [i \in N |-> [kept \in SUBSET cache!Rows |-> Keeping(order, kept, i)]]
           first == [s \in SUBSET N |-> cache!Max(s)]
<1>1. /\ n \in Nat /\ order \in [N -> cache!Rows]
      /\ \A i, j \in N : i # j => order[i] # order[j]
      /\ \A k \in cache!Rows : Newest(k) => 1 \in N /\ order[1] = k
  BY OrderShape
<1> HIDE DEF n
<1>2. IsFiniteSet(N) BY <1>1, FS_Interval
<1>3. \A s \in SUBSET N : s # {} => cache!Max(s) \in s /\ \A i \in s : i <= cache!Max(s)
  BY <1>1, LargestOfSome
<1>4. G \in [N -> [SUBSET cache!Rows -> SUBSET cache!Rows]] BY <1>1 DEF Keeping
<1>5. Picks(first, N) BY <1>3 DEF Picks
<1>6. \A i \in N : \A kept \in SUBSET cache!Rows : G[i][kept] = Keeping(order, kept, i)
  OBVIOUS
<1>7. \A s \in SUBSET N : first[s] = cache!Max(s) OBVIOUS
<1>8. {} \in SUBSET cache!Rows OBVIOUS
<1> HIDE DEF G, first
<1>9. PICK I \in [SUBSET N -> SUBSET cache!Rows] : FoldsOver(I, N, {}, G, first)
  <2> HIDE DEF N
  <2> QED BY <1>2, <1>4, <1>5, <1>8, FoldExists
<1>10. I[{}] = {} BY <1>9 DEF FoldsOver
<1>11. ASSUME NEW s \in SUBSET N, s # {}
       PROVE  I[s] = Keeping(order, I[s \ {cache!Max(s)}], cache!Max(s))
  <2>1. I[s] = G[cache!Max(s)][I[s \ {cache!Max(s)}]] BY <1>7, <1>9, <1>11 DEF FoldsOver
  <2>2. cache!Max(s) \in N /\ I[s \ {cache!Max(s)}] \in SUBSET cache!Rows BY <1>3, <1>9, <1>11
  <2> QED BY <1>6, <2>1, <2>2
<1>12. I = KeepStep(order, I)
  <2>1. \A s \in SUBSET N : I[s] = IF s = {} THEN {} ELSE Keeping(order, I[s \ {cache!Max(s)}], cache!Max(s))
    BY <1>10, <1>11
  <2> QED BY <1>9, <2>1 DEF KeepStep
<1>13. cache!Kept(order) = I[N]
  <2>1. DOMAIN order = 1 .. n /\ DOMAIN I = SUBSET (1 .. n) BY <1>1, <1>9
  <2> QED BY <1>1, <1>12, <2>1, KeptIsIterated
<1> DEFINE Good(s) ==
              /\ \A k \in I[s] : \E i \in s : i <= MaxCacheEntries /\ k = order[i]
              /\ Fits(I[s])
              /\ 1 \in s => order[1] \in I[s]
           T == {s \in SUBSET N : Good(s)}
<1>14. MaxCacheEntries \in Nat \ {0} /\ MaxCacheBytes \in Nat /\ MaxValueBytes \in Nat
       /\ MaxValueBytes <= MaxCacheBytes
  BY DEF cache!EntryCacheAssumption
<1>15. /\ IsFiniteSet(cache!Rows)
       /\ \A k \in cache!Rows :
             Bytes[entries[k].value] \in Nat /\ Bytes[entries[k].value] <= MaxValueBytes
  BY WeightsAreSizes DEF RowsTyped
<1>16. \A K \in SUBSET cache!Rows, k \in cache!Rows : k \notin K =>
          /\ SizeIn(entries, {}) = 0 /\ SizeIn(entries, K) \in Nat
          /\ SizeIn(entries, K \cup {k}) = SizeIn(entries, K) + Bytes[entries[k].value]
  BY <1>15, SizeAdds
<1>17. ASSUME NEW s \in SUBSET N, \A r \in SUBSET s : r # s => r \in T PROVE s \in T
  <2>1. CASE s = {}
    <3>1. SizeIn(entries, {}) = 0
      <4>1. IsFiniteSet({}) /\ {} \in SUBSET {} BY FS_EmptySet
      <4> QED BY <4>1, SizeOfNone
    <3>2. I[s] = {} BY <1>10, <2>1
    <3>3. Fits(I[s]) BY <1>14, <3>1, <3>2 DEF Fits
    <3> QED BY <2>1, <3>2, <3>3
  <2>2. CASE s # {}
    <3> DEFINE m == cache!Max(s)
               kept == I[s \ {m}]
               k == order[m]
    <3>1. m \in s /\ m \in N /\ (\A i \in s : i <= m) /\ s \ {m} \in SUBSET N BY <1>3, <2>2
    <3>2. s \ {m} \in T BY <1>17, <3>1
    <3>3. kept \in SUBSET cache!Rows /\ k \in cache!Rows BY <1>1, <1>9, <3>1
    <3>4. I[s] = Keeping(order, kept, m) BY <1>11, <2>2
    <3> HIDE DEF m
    <3>5. k \notin kept BY <1>1, <3>1, <3>2
    <3>6. /\ SizeIn(entries, {}) = 0 /\ SizeIn(entries, kept) \in Nat
          /\ SizeIn(entries, kept \cup {k}) = SizeIn(entries, kept) + Bytes[entries[k].value]
      BY <1>16, <3>3, <3>5
    <3>7. Bytes[entries[k].value] \in Nat /\ Bytes[entries[k].value] <= MaxValueBytes BY <1>15, <3>3
    <3>8. cache!SizeOf(kept) = SizeIn(entries, kept) BY SizeHere
    <3>9. Fits(kept) BY <3>2
    <3> DEFINE big == m > MaxCacheEntries \/ cache!SizeOf(kept) + Bytes[entries[k].value] > MaxCacheBytes
    <3>10. CASE big
      <4>1. I[s] = kept BY <3>4, <3>10 DEF Keeping
      <4>2. \A j \in I[s] : \E i \in s : i <= MaxCacheEntries /\ j = order[i] BY <3>2, <4>1
      <4>3. ASSUME 1 \in s PROVE order[1] \in I[s]
        <5>1. CASE m = 1
          <6>1. s \ {m} = {} BY <1>1, <3>1, <5>1
          <6>2. SizeIn(entries, kept) = 0 BY <1>10, <3>6, <6>1
          <6> QED BY <1>14, <3>7, <3>8, <3>10, <4>3, <5>1, <6>2
        <5>2. CASE m # 1 BY <3>2, <4>1, <4>3, <5>2
        <5> QED BY <5>1, <5>2
      <4> QED BY <3>9, <4>1, <4>2, <4>3
    <3>11. CASE ~big
      <4>1. I[s] = kept \cup {k} BY <3>4, <3>11 DEF Keeping
      <4>2. m <= MaxCacheEntries BY <1>1, <1>14, <3>1, <3>11
      <4>3. \A j \in I[s] : \E i \in s : i <= MaxCacheEntries /\ j = order[i]
        BY <3>1, <3>2, <4>1, <4>2
      <4>4. Fits(I[s]) BY <1>14, <3>6, <3>7, <3>8, <3>11, <4>1 DEF Fits
      <4>5. ASSUME 1 \in s PROVE order[1] \in I[s]
        <5>1. CASE m = 1 BY <4>1, <5>1
        <5>2. CASE m # 1 BY <3>2, <4>1, <4>5, <5>2
        <5> QED BY <5>1, <5>2
      <4> QED BY <4>3, <4>4, <4>5
    <3> QED BY <3>10, <3>11
  <2> QED BY <2>1, <2>2
<1>18. T \in SUBSET SUBSET N OBVIOUS
<1>19. T = SUBSET N
  <2> HIDE DEF T, N
  <2> QED BY <1>2, <1>17, <1>18, SubsetInduction
<1>20. Good(N) BY <1>19
<1>21. Cardinality(I[N]) <= MaxCacheEntries
  <2> DEFINE M == {i \in N : i <= MaxCacheEntries}
             R == {k \in cache!Rows : \E i \in M : k = order[i]}
             f == [i \in M |-> order[i]]
  <2>1. M \subseteq 1 .. MaxCacheEntries BY <1>1, <1>14
  <2>2. IsFiniteSet(1 .. MaxCacheEntries) /\ Cardinality(1 .. MaxCacheEntries) = MaxCacheEntries
    BY <1>14, FS_Interval
  <2>3. IsFiniteSet(M) /\ Cardinality(M) <= MaxCacheEntries BY <2>1, <2>2, FS_Subset
  <2>4. f \in Surjection(M, R)
    <3>1. \A i \in M : order[i] \in cache!Rows BY <1>1
    <3>2. \A i \in M : f[i] = order[i] OBVIOUS
    <3>3. f \in [M -> R] BY <3>1
    <3>4. \A k \in R : \E i \in M : f[i] = k BY <3>2
    <3> QED BY <3>3, <3>4 DEF Surjection
  <2>5. IsFiniteSet(R) /\ Cardinality(R) <= Cardinality(M) BY <2>3, <2>4, FS_Surjection
  <2>6. I[N] \subseteq R BY <1>9, <1>20
  <2>7. IsFiniteSet(I[N]) /\ Cardinality(I[N]) <= Cardinality(R) BY <2>5, <2>6, FS_Subset
  <2>8. Cardinality(I[N]) \in Nat /\ Cardinality(R) \in Nat /\ Cardinality(M) \in Nat
    BY <2>3, <2>5, <2>7, FS_CardinalityType
  <2> QED BY <1>14, <2>3, <2>5, <2>7, <2>8
<1>22. \A k \in cache!Rows :
          Newest(k) => k \in I[N]
  BY <1>1, <1>20
<1> QED BY <1>9, <1>13, <1>20, <1>21, <1>22

-----------------------------------------------------------------------------
(* The cache *)

CachePcs == {"away", "purge", "select", "delete", "touch", "look", "remove"}
UserType == [pc : CachePcs, key : CacheKeys \cup {None}, since : Nat, victims : SUBSET CacheKeys]

CacheTyped ==
    /\ RowsTyped
    /\ usage \in {x.cache : x \in Uses} /\ time \in Nat /\ time <= usage.until
    /\ latest \in [key : CacheKeys, expires : Nat \cup {Forever}] \cup {None}
    /\ user \in [Users -> UserType]
    /\ \A u \in Users : user[u].pc = "away" => user[u] = cache!Away
    /\ \A u \in Users : user[u].pc \in {"touch", "look", "remove"} => user[u].key \in CacheKeys

Overdue == \E u \in Users : user[u].pc \in {"purge", "select"}

\* What will be left when everybody has deleted what they selected.
Remaining ==
    {k \in cache!Rows : \A u \in Users : user[u].pc = "delete" => k \notin user[u].victims}

WithinOf(e, K) ==
    /\ Cardinality(K) <= MaxCacheEntries
    /\ SizeIn(e, K) \in Nat /\ SizeIn(e, K) <= MaxCacheBytes

\* Unless a selection is to come, what will be left is within the budgets.
Excess == usage.faults \subseteq {"purge", "touch"} /\ ~Overdue => WithinOf(entries, Remaining)

\* Among users who work one after another what was put last is the newest entry.
Solitary ==
    usage.alone =>
        /\ \A u, v \in Users : user[u] # cache!Away /\ user[v] # cache!Away => u = v
        /\ latest # None /\ ~cache!Dead(latest.expires) =>
              /\ latest.key \in cache!Rows /\ entries[latest.key].expires = latest.expires
              /\ Overdue => Newest(latest.key)
              /\ \A u \in Users : user[u].pc = "delete" => latest.key \notin user[u].victims

CacheInv == CacheTyped /\ Excess /\ Solitary

LEMMA WithinShrinks ==
    ASSUME cache!EntryCacheAssumption, NEW L, IsFiniteSet(L), NEW K \in SUBSET L, NEW e, NEW d,
           \A k \in L : Bytes[d[k].value] \in Nat,
           \A k \in K : e[k].value = d[k].value,
           WithinOf(d, L)
    PROVE  WithinOf(e, K)
<1>1. IsFiniteSet(K) /\ Cardinality(K) <= Cardinality(L) BY FS_Subset
<1>2. Cardinality(K) \in Nat /\ Cardinality(L) \in Nat BY <1>1, FS_CardinalityType
<1>3. \A k \in K : Bytes[e[k].value] = Bytes[d[k].value] OBVIOUS
<1>4. SizeIn(e, K) \in Nat /\ SizeIn(d, L) \in Nat /\ SizeIn(e, K) <= SizeIn(d, L)
  BY <1>3, SizeGrows
<1>5. MaxCacheEntries \in Nat /\ MaxCacheBytes \in Nat BY DEF cache!EntryCacheAssumption
<1> QED BY <1>1, <1>2, <1>4, <1>5 DEF WithinOf

\* A step that brings nothing new.
LEMMA ShrinkKeepsExcess ==
    ASSUME cache!EntryCacheAssumption, CacheTyped, Excess, usage' = usage,
           Overdue => Overdue',
           \A k \in Remaining' : k \in Remaining /\ entries'[k].value = entries[k].value
    PROVE  Excess'
<1> SUFFICES ASSUME usage.faults \subseteq {"purge", "touch"}, ~Overdue'
             PROVE  WithinOf(entries', Remaining')
  BY DEF Excess, WithinOf
<1>1. WithinOf(entries, Remaining) BY DEF Excess
<1>2. IsFiniteSet(Remaining) BY FS_Subset DEF CacheTyped, RowsTyped, Remaining
<1>3. \A k \in Remaining : Bytes[entries[k].value] \in Nat
  BY WeightsAreSizes DEF CacheTyped, Remaining
<1>4. Remaining' \in SUBSET Remaining OBVIOUS
<1> QED BY <1>1, <1>2, <1>3, <1>4, WithinShrinks

LEMMA RowsGrowByOne ==
    ASSUME RowsTyped, entries' \in [CacheKeys -> EntryType \cup {None}],
           NEW k, cache!Rows' \subseteq cache!Rows \cup {k}
    PROVE  RowsTyped'
<1>1. IsFiniteSet(cache!Rows \cup {k}) BY FS_AddElement DEF RowsTyped
<1>2. IsFiniteSet(cache!Rows') BY <1>1, FS_Subset
<1> QED BY <1>2 DEF RowsTyped

LEMMA EntryIsNotNone ==
    ASSUME cache!EntryCacheAssumption
    PROVE  /\ None \notin EntryType
           /\ \A k \in CacheKeys, t \in Nat \cup {Forever} : [key |-> k, expires |-> t] # None
  BY DEF cache!EntryCacheAssumption, EntryType

LEMMA PutKeeps ==
    ASSUME cache!EntryCacheAssumption, CacheInv, NEW u \in Users, NEW k \in CacheKeys,
           NEW v \in Values, NEW ttl \in usage.lifetimes, cache!Put(u, k, v, ttl)
    PROVE  CacheInv'
<1> DEFINE placed == [value |-> v, expires |-> latest'.expires, used |-> time]
           until == IF ttl = Forever THEN Forever ELSE time + ttl
<1>1. /\ user[u] = cache!Away /\ Bytes[v] <= MaxValueBytes
      /\ latest' = [key |-> k, expires |-> until]
      /\ entries' = [entries EXCEPT ![k] = placed]
      /\ user' = [user EXCEPT ![u] = [cache!Away EXCEPT !.pc = "purge"]]
      /\ time' = time /\ usage' = usage
      /\ usage.alone => \A w \in Users : user[w] = cache!Away
      /\ usage.alone => \A j \in cache!Rows : entries[j].used < time
  BY DEF cache!Put, cache!Comes, cache!Does
<1>2. until \in Nat \cup {Forever}
  <2>1. ttl \in Nat \cup {Forever} BY DEF CacheInv, CacheTyped, cache!EntryCacheAssumption
  <2> QED BY <2>1 DEF CacheInv, CacheTyped
<1> HIDE DEF until
<1>3. placed \in EntryType /\ placed # None /\ latest' # None
  BY <1>1, <1>2, EntryIsNotNone DEF CacheInv, CacheTyped, EntryType
<1>4. /\ entries'[k] = placed /\ latest'.key = k /\ latest'.expires = placed.expires /\ placed.used = time
      /\ \A j \in CacheKeys \ {k} : entries'[j] = entries[j]
      /\ user'[u] = [cache!Away EXCEPT !.pc = "purge"]
      /\ \A w \in Users \ {u} : user'[w] = user[w]
  BY <1>1 DEF CacheInv, CacheTyped, RowsTyped
<1> HIDE DEF placed
<1>5. cache!Rows' \subseteq cache!Rows \cup {k} /\ k \in cache!Rows' BY <1>3, <1>4 DEF cache!Rows
<1>6. RowsTyped'
  <2>1. entries' \in [CacheKeys -> EntryType \cup {None}]
    BY <1>1, <1>3 DEF CacheInv, CacheTyped, RowsTyped
  <2> QED BY <1>5, <2>1, RowsGrowByOne DEF CacheInv, CacheTyped
<1>7. CacheTyped'
  <2>1. user'[u] \in UserType /\ user'[u].pc = "purge"
    BY <1>4 DEF cache!Away, UserType, CachePcs
  <2>2. user' \in [Users -> UserType] BY <1>1, <2>1, <1>4 DEF CacheInv, CacheTyped
  <2> QED BY <1>1, <1>2, <1>4, <1>6, <2>1, <2>2 DEF CacheInv, CacheTyped
<1>8. Overdue' BY <1>4 DEF Overdue, cache!Away
<1>9. Excess' BY <1>8 DEF Excess
<1>10. Solitary'
  <2> SUFFICES ASSUME usage.alone PROVE
        /\ \A w, x \in Users : user'[w] # cache!Away /\ user'[x] # cache!Away => w = x
        /\ latest'.key \in cache!Rows' /\ entries'[latest'.key].expires = latest'.expires
        /\ Newest(latest.key)'
        /\ \A w \in Users : user'[w].pc = "delete" => latest'.key \notin user'[w].victims
    BY <1>1 DEF Solitary, cache!Away
  <2>1. \A w \in Users : user'[w] # cache!Away => w = u BY <1>1, <1>4
  <2>2. \A j \in cache!Rows' \ {k} : entries'[j].used < entries'[k].used
    BY <1>1, <1>4, <1>5 DEF cache!Rows
  <2>3. Newest(latest.key)' BY <1>4, <2>2 DEF Newest
  <2>4. \A w \in Users : user'[w].pc # "delete" BY <1>4, <2>1 DEF cache!Away
  <2> QED BY <1>4, <1>5, <2>1, <2>3, <2>4
<1> QED BY <1>7, <1>9, <1>10 DEF CacheInv

\* Where users work one after another, nothing but what is being done is done.
LEMMA NobodyElse ==
    ASSUME CacheInv, NEW u \in Users, user[u] # cache!Away, usage.alone
    PROVE  \A w \in Users : user[w] # cache!Away => w = u
  BY DEF CacheInv, Solitary

LEMMA PurgeKeeps ==
    ASSUME cache!EntryCacheAssumption, CacheInv, NEW u \in Users, cache!Purge(u)
    PROVE  CacheInv'
<1>1. /\ user[u].pc = "purge"
      /\ user' = [user EXCEPT ![u] = [user[u] EXCEPT !.pc = "select"]]
      /\ UNCHANGED <<time, latest, usage>>
      /\ \/ entries' = [k \in CacheKeys |-> IF k \in cache!Live THEN entries[k] ELSE None]
         \/ entries' = entries
  BY DEF cache!Purge, cache!Proceeds, cache!Does
<1>2. /\ entries' \in [CacheKeys -> EntryType \cup {None}]
      /\ \A k \in CacheKeys : entries'[k] # None => k \in cache!Rows /\ entries'[k] = entries[k]
      /\ \A k \in cache!Rows : ~cache!Dead(entries[k].expires) => entries'[k] = entries[k]
  BY <1>1 DEF cache!Live, cache!Rows, CacheInv, CacheTyped, RowsTyped
<1>3. /\ user[u] \in UserType /\ user'[u] = [user[u] EXCEPT !.pc = "select"]
      /\ \A w \in Users \ {u} : user'[w] = user[w]
  BY <1>1 DEF CacheInv, CacheTyped
<1>4. cache!Rows' \subseteq cache!Rows BY <1>2 DEF cache!Rows
<1>5. RowsTyped' BY <1>2, <1>4, RowsGrowByOne DEF CacheInv, CacheTyped
<1>6. user'[u] \in UserType /\ user'[u].pc = "select" BY <1>3 DEF UserType, CachePcs
<1>7. CacheTyped'
  <2>1. user' \in [Users -> UserType] BY <1>1, <1>3, <1>6 DEF CacheInv, CacheTyped
  <2> QED BY <1>1, <1>3, <1>5, <1>6, <2>1 DEF CacheInv, CacheTyped
<1>8. Overdue' BY <1>6 DEF Overdue
<1>9. Excess' BY <1>8 DEF Excess
<1>10. Solitary'
  <2> SUFFICES ASSUME usage.alone PROVE Solitary' BY <1>1 DEF Solitary
  <2>1. user[u] # cache!Away BY <1>1 DEF cache!Away
  <2>2. \A w \in Users : user[w] # cache!Away => w = u BY <2>1, NobodyElse
  <2>3. \A w \in Users : user'[w] # cache!Away => w = u BY <1>3, <2>2
  <2>4. \A w \in Users : user'[w].pc # "delete"
    <3>1. \A w \in Users : w # u => user'[w].pc = "away" BY <2>3 DEF cache!Away
    <3> QED BY <1>6, <3>1
  <2>5. ASSUME latest' # None, ~cache!Dead(latest.expires)'
        PROVE  /\ latest'.key \in cache!Rows' /\ entries'[latest'.key].expires = latest'.expires
               /\ Newest(latest.key)'
    <3>1. latest' = latest /\ ~cache!Dead(latest.expires) BY <1>1, <2>5 DEF cache!Dead
    <3>2. /\ latest.key \in cache!Rows /\ entries[latest.key].expires = latest.expires
          /\ Newest(latest.key)
      BY <1>1, <3>1, <2>5 DEF CacheInv, Solitary, Overdue
    <3>3. entries'[latest.key] = entries[latest.key] BY <1>2, <3>1, <3>2
    <3>4. latest.key \in cache!Rows' BY <3>2, <3>3 DEF cache!Rows
    <3>5. \A j \in cache!Rows' : entries'[j] = entries[j] BY <1>2 DEF cache!Rows
    <3>6. Newest(latest.key)' BY <1>4, <3>1, <3>2, <3>3, <3>5 DEF Newest
    <3> QED BY <3>1, <3>2, <3>3, <3>4, <3>6
  <2> QED BY <2>3, <2>4, <2>5 DEF Solitary, cache!Away
<1> QED BY <1>7, <1>9, <1>10 DEF CacheInv

LEMMA SelectKeeps ==
    ASSUME cache!EntryCacheAssumption, CacheInv, NEW u \in Users, cache!SelectVictims(u)
    PROVE  CacheInv'
<1>1. /\ user[u].pc = "select" /\ UNCHANGED <<entries, time, latest, usage>>
      /\ user[u] \in UserType
  BY DEF cache!SelectVictims, CacheInv, CacheTyped
<1>2. RowsTyped' /\ cache!Rows' = cache!Rows
  BY <1>1 DEF CacheInv, CacheTyped, RowsTyped, cache!Rows
<1>3. usage.alone => \A w \in Users : user[w] # cache!Away => w = u
  <2>1. user[u] # cache!Away BY <1>1 DEF cache!Away
  <2> QED BY <2>1, NobodyElse
<1>4. usage.alone /\ latest # None /\ ~cache!Dead(latest.expires) =>
         /\ latest.key \in cache!Rows /\ entries[latest.key].expires = latest.expires
         /\ Newest(latest.key)
  BY <1>1 DEF CacheInv, Solitary, Overdue
<1>5. \A j : Newest(j)' <=> Newest(j) BY <1>1, <1>2 DEF Newest
<1>6. \A t : cache!Dead(t)' <=> cache!Dead(t) BY <1>1 DEF cache!Dead
<1>7. CASE \E order \in cache!Orders :
             user' = [user EXCEPT ![u] = [user[u] EXCEPT !.pc = "delete",
                                                         !.victims = cache!Rows \ cache!Kept(order)]]
  <2>1. PICK order \in cache!Orders :
             user' = [user EXCEPT ![u] = [user[u] EXCEPT !.pc = "delete",
                                                         !.victims = cache!Rows \ cache!Kept(order)]]
    BY <1>7
  <2> DEFINE kept == cache!Kept(order)
  <2>2. /\ kept \in SUBSET cache!Rows /\ Cardinality(kept) <= MaxCacheEntries /\ Fits(kept)
        /\ \A k \in cache!Rows : Newest(k) => k \in kept
    BY KeptFits DEF CacheInv, CacheTyped
  <2> HIDE DEF kept
  <2>3. /\ user'[u] = [user[u] EXCEPT !.pc = "delete", !.victims = cache!Rows \ kept]
        /\ \A w \in Users \ {u} : user'[w] = user[w]
    BY <2>1 DEF kept, CacheInv, CacheTyped
  <2>4. user'[u] \in UserType /\ user'[u].pc = "delete" /\ user'[u].victims = cache!Rows \ kept
    BY <1>1, <2>3 DEF UserType, CachePcs, cache!Rows
  <2>5. CacheTyped'
    <3>1. user' \in [Users -> UserType] BY <2>1, <2>3, <2>4 DEF CacheInv, CacheTyped
    <3> QED BY <1>1, <1>2, <2>3, <2>4, <3>1 DEF CacheInv, CacheTyped
  <2>6. Excess'
    <3>1. Remaining' \in SUBSET kept BY <1>2, <2>4 DEF Remaining
    <3>2. IsFiniteSet(kept) /\ \A k \in kept : Bytes[entries[k].value] \in Nat
      BY <2>2, FS_Subset, WeightsAreSizes DEF CacheInv, CacheTyped, RowsTyped
    <3>3. WithinOf(entries, kept) BY <2>2 DEF WithinOf, Fits
    <3>4. WithinOf(entries, Remaining') BY <3>1, <3>2, <3>3, WithinShrinks
    <3> QED BY <1>1, <3>4 DEF Excess, WithinOf
  <2>7. Solitary'
    <3> SUFFICES ASSUME usage.alone PROVE Solitary' BY <1>1 DEF Solitary
    <3>1. \A w \in Users : user'[w] # cache!Away => w = u BY <1>3, <2>3
    <3>2. ~Overdue' BY <2>4, <3>1 DEF Overdue, cache!Away
    <3>3. ASSUME latest' # None, ~cache!Dead(latest.expires)'
          PROVE  /\ latest'.key \in cache!Rows' /\ entries'[latest'.key].expires = latest'.expires
                 /\ \A w \in Users : user'[w].pc = "delete" => latest'.key \notin user'[w].victims
      <4>1. latest' = latest /\ latest.key \in kept BY <1>1, <1>4, <1>6, <2>2, <3>3
      <4>2. \A w \in Users : user'[w].pc = "delete" => w = u BY <3>1 DEF cache!Away
      <4> QED BY <1>1, <1>2, <1>4, <1>6, <2>4, <3>3, <4>1, <4>2
    <3> QED BY <3>1, <3>2, <3>3 DEF Solitary, cache!Away
  <2> QED BY <2>5, <2>6, <2>7 DEF CacheInv
<1>8. CASE cache!Fails("select") /\ user' = [user EXCEPT ![u] = cache!Away]
  <2>1. user'[u] = cache!Away /\ \A w \in Users \ {u} : user'[w] = user[w]
    BY <1>8 DEF CacheInv, CacheTyped
  <2>2. cache!Away \in UserType BY DEF cache!Away, UserType, CachePcs, CacheInv, CacheTyped
  <2>3. user' \in [Users -> UserType] BY <1>8, <2>2 DEF CacheInv, CacheTyped
  <2>4. CacheTyped' BY <1>1, <1>2, <2>1, <2>3 DEF CacheInv, CacheTyped, cache!Away
  <2>5. Excess' BY <1>1, <1>8 DEF cache!Fails, Excess
  <2>6. Solitary'
    <3> SUFFICES ASSUME usage.alone PROVE Solitary' BY <1>1 DEF Solitary
    <3>1. \A w \in Users : user'[w] = cache!Away BY <1>3, <2>1
    <3>2. ~Overdue' /\ \A w \in Users : user'[w].pc # "delete" BY <3>1 DEF Overdue, cache!Away
    <3> QED BY <1>1, <1>2, <1>4, <1>6, <3>1, <3>2 DEF Solitary, cache!Away
  <2> QED BY <2>4, <2>5, <2>6 DEF CacheInv
<1> QED BY <1>7, <1>8 DEF cache!SelectVictims, cache!Does, cache!Ends

\* A step of a user who is not about to select: he goes on to another place ...
Fitting(u, was, job) ==
    /\ job \in UserType /\ user' = [user EXCEPT ![u] = job]
    /\ {was.pc, job.pc} \cap {"purge", "select"} = {}
    /\ job.pc = "away" => job = cache!Away
    /\ job.pc \in {"touch", "look", "remove"} => job.key \in CacheKeys
    /\ UNCHANGED <<time, usage>> /\ latest' \in {latest, None}

\* ... and rows only go, or are touched ...
RowsOnlyGo ==
    /\ entries' \in [CacheKeys -> EntryType \cup {None}]
    /\ \A k \in CacheKeys : entries'[k] # None =>
           entries[k] # None /\ entries'[k].value = entries[k].value
                            /\ entries'[k].expires = entries[k].expires

\* ... what was put last only if it is a victim or dropped ...
LatestStays(u, was) ==
    usage.alone /\ latest' # None =>
        /\ \A w \in Users : user[w] # cache!Away => w = u
        /\ \/ entries[latest.key] = None \/ entries'[latest.key] # None
           \/ was.pc = "delete" /\ latest.key \in was.victims

\* ... and of the victims those that are crossed out.
VictimsGo(was, job) ==
    /\ job.pc = "delete" => was.pc = "delete" /\ job.victims \subseteq was.victims
    /\ was.pc = "delete" /\ usage.faults \subseteq {"purge", "touch"} =>
           \A k \in was.victims : entries'[k] = None \/ (job.pc = "delete" /\ k \in job.victims)

Quiet(u, was, job) ==
    Fitting(u, was, job) /\ RowsOnlyGo /\ LatestStays(u, was) /\ VictimsGo(was, job)

LEMMA QuietKeeps ==
    ASSUME cache!EntryCacheAssumption, CacheInv, NEW u \in Users, NEW job, Quiet(u, user[u], job),
           usage.alone => \A w \in Users : user'[w] # cache!Away => w = u
    PROVE  CacheInv'
<1>1. /\ user'[u] = job /\ \A w \in Users \ {u} : user'[w] = user[w]
      /\ user' \in [Users -> UserType]
  BY DEF Quiet, Fitting, RowsOnlyGo, LatestStays, VictimsGo, CacheInv, CacheTyped
<1>2. cache!Rows' \subseteq cache!Rows BY DEF Quiet, Fitting, RowsOnlyGo, LatestStays, VictimsGo, cache!Rows
<1>3. CacheTyped'
  <2>1. RowsTyped' BY <1>2, RowsGrowByOne DEF Quiet, Fitting, RowsOnlyGo, LatestStays, VictimsGo, CacheInv, CacheTyped
  <2> QED BY <1>1, <2>1 DEF Quiet, Fitting, RowsOnlyGo, LatestStays, VictimsGo, CacheInv, CacheTyped
<1>4. Excess'
  <2>1. CASE usage.faults \subseteq {"purge", "touch"}
    <3>1. Overdue => Overdue' BY <1>1 DEF Overdue, Quiet, Fitting, RowsOnlyGo, LatestStays, VictimsGo
    <3>2. ASSUME NEW k \in Remaining'
          PROVE  k \in Remaining /\ entries'[k].value = entries[k].value
      <4>1. k \in cache!Rows /\ k \in CacheKeys /\ entries'[k] # None BY <1>2, <3>2 DEF Remaining, cache!Rows
      <4>2. \A w \in Users \ {u} : user[w].pc = "delete" => k \notin user[w].victims
        BY <1>1, <3>2 DEF Remaining
      <4>3. user[u].pc = "delete" => k \notin user[u].victims
        BY <1>1, <2>1, <3>2, <4>1 DEF Remaining, Quiet, Fitting, RowsOnlyGo, LatestStays, VictimsGo
      <4> QED BY <4>1, <4>2, <4>3 DEF Remaining, Quiet, Fitting, RowsOnlyGo, LatestStays, VictimsGo
    <3>3. usage' = usage BY DEF Quiet, Fitting, RowsOnlyGo, LatestStays, VictimsGo
    <3> QED BY <3>1, <3>2, <3>3, ShrinkKeepsExcess DEF CacheInv
  <2>2. CASE ~(usage.faults \subseteq {"purge", "touch"}) BY <2>2 DEF Excess, Quiet, Fitting, RowsOnlyGo, LatestStays, VictimsGo
  <2> QED BY <2>1, <2>2
<1>5. Solitary'
  <2> SUFFICES ASSUME usage.alone PROVE Solitary' BY DEF Solitary, Quiet, Fitting, RowsOnlyGo, LatestStays, VictimsGo
  <2>1. \A w \in Users : user'[w] # cache!Away => w = u OBVIOUS
  <2>2. ~Overdue'
    <3>1. \A w \in Users : w # u => user'[w].pc = "away" BY <2>1 DEF cache!Away
    <3>2. user'[u].pc \notin {"purge", "select"} BY <1>1 DEF Quiet, Fitting
    <3> QED BY <3>1, <3>2 DEF Overdue
  <2>3. ASSUME latest' # None, ~cache!Dead(latest.expires)'
        PROVE  /\ latest'.key \in cache!Rows' /\ entries'[latest'.key].expires = latest'.expires
               /\ \A w \in Users : user'[w].pc = "delete" => latest'.key \notin user'[w].victims
    <3>1. latest' = latest /\ latest # None /\ ~cache!Dead(latest.expires)
      BY <2>3 DEF Quiet, Fitting, RowsOnlyGo, LatestStays, VictimsGo, cache!Dead
    <3>2. /\ latest.key \in cache!Rows /\ entries[latest.key].expires = latest.expires
          /\ user[u].pc = "delete" => latest.key \notin user[u].victims
      BY <3>1 DEF CacheInv, Solitary
    <3>3. entries'[latest.key] # None BY <2>3, <3>1, <3>2 DEF Quiet, Fitting, RowsOnlyGo, LatestStays, VictimsGo, cache!Rows
    <3>4. latest.key \in cache!Rows' /\ entries'[latest.key].expires = entries[latest.key].expires
      BY <3>2, <3>3 DEF Quiet, Fitting, RowsOnlyGo, LatestStays, VictimsGo, cache!Rows
    <3>5. \A w \in Users : user'[w].pc = "delete" => w = u BY <2>1 DEF cache!Away
    <3>6. user'[u].pc = "delete" => latest.key \notin user'[u].victims
      BY <1>1, <3>2 DEF Quiet, Fitting, RowsOnlyGo, LatestStays, VictimsGo
    <3> QED BY <3>1, <3>2, <3>4, <3>5, <3>6
  <2>4. \A w, x \in Users : user'[w] # cache!Away /\ user'[x] # cache!Away => w = x BY <2>1
  <2> QED BY <2>2, <2>3, <2>4 DEF Solitary
<1> QED BY <1>3, <1>4, <1>5 DEF CacheInv

LEMMA EvictKeeps ==
    ASSUME cache!EntryCacheAssumption, CacheInv, NEW u \in Users, cache!Evict(u)
    PROVE  CacheInv'
<1>1. PICK k \in user[u].victims :
        /\ \/ entries' = [entries EXCEPT ![k] = None]
           \/ "delete" \in usage.faults /\ entries' = entries
        /\ user' = [user EXCEPT ![u] = [user[u] EXCEPT !.victims = user[u].victims \ {k}]]
  BY DEF cache!Evict, cache!Does, cache!Fails
<1>2. user[u].pc = "delete" /\ UNCHANGED <<time, latest, usage>> /\ user[u] \in UserType
      /\ entries \in [CacheKeys -> EntryType \cup {None}]
  BY DEF cache!Evict, CacheInv, CacheTyped, RowsTyped
<1> DEFINE job == [user[u] EXCEPT !.victims = user[u].victims \ {k}]
<1>3. job \in UserType /\ job.pc = "delete" /\ job.victims = user[u].victims \ {k}
  BY <1>2 DEF UserType
<1>4. user[u] # cache!Away BY <1>2 DEF cache!Away
<1>5. usage.alone => \A w \in Users : user[w] # cache!Away => w = u BY <1>4, NobodyElse
<1>6. \A w \in Users \ {u} : user'[w] = user[w] BY <1>1 DEF CacheInv, CacheTyped
<1>7. entries' \in [CacheKeys -> EntryType \cup {None}] BY <1>1, <1>2
<1>8. \A j \in CacheKeys : entries'[j] = entries[j] \/ (j = k /\ entries'[j] = None)
  BY <1>1, <1>2
<1>9. k \in CacheKeys /\ ("delete" \notin usage.faults => entries'[k] = None)
  BY <1>1, <1>2 DEF UserType
<1>10. latest # None => latest.key \in CacheKeys BY DEF CacheInv, CacheTyped
<1> HIDE DEF job
<1>11. user' = [user EXCEPT ![u] = job] BY <1>1 DEF job
<1>12. Fitting(u, user[u], job) BY <1>2, <1>3, <1>11 DEF Fitting
<1>13. RowsOnlyGo BY <1>7, <1>8 DEF RowsOnlyGo
<1>14. LatestStays(u, user[u]) BY <1>2, <1>5, <1>8, <1>10 DEF LatestStays
<1>15. VictimsGo(user[u], job)
  <2>1. usage.faults \subseteq {"purge", "touch"} => entries'[k] = None BY <1>9
  <2> QED BY <1>2, <1>3, <2>1 DEF VictimsGo
<1>16. Quiet(u, user[u], job) BY <1>12, <1>13, <1>14, <1>15 DEF Quiet
<1> QED BY <1>5, <1>6, <1>16, QuietKeeps

\* A user who does nothing to the rows, or only to what somebody asks to be dropped.
LEMMA OtherStepsKeep ==
    ASSUME cache!EntryCacheAssumption, CacheInv, NEW u \in Users,
           \/ cache!Evicted(u) \/ cache!Touch(u) \/ cache!DropOne(u)
           \/ \E k \in CacheKeys : cache!Get(u, k) \/ cache!Invalidate(u, k)
    PROVE  CacheInv'
<1>1. /\ user[u] \in UserType /\ entries \in [CacheKeys -> EntryType \cup {None}]
      /\ user[u].pc = "away" => user[u] = cache!Away
      /\ user[u].pc \in {"touch", "look", "remove"} => user[u].key \in CacheKeys
      /\ latest # None => latest.key \in CacheKeys
      /\ time \in Nat
  BY DEF CacheInv, CacheTyped, RowsTyped
<1>2. cache!Away \in UserType /\ cache!Away.pc = "away"
  BY DEF cache!Away, UserType, CachePcs
<1>3. UNCHANGED <<time, usage>>
  BY Zenon DEF cache!Evicted, cache!Touch, cache!DropOne, cache!Get, cache!Invalidate
<1>4. usage.alone => \A w \in Users : user[w] # cache!Away => w = u
  <2>1. CASE user[u] # cache!Away BY <2>1, NobodyElse, Zenon
  <2>2. CASE user[u] = cache!Away
    BY <1>2, <2>2, Zenon DEF cache!Evicted, cache!Touch, cache!DropOne, cache!Get, cache!Invalidate,
                             cache!Comes
  <2> QED BY <2>1, <2>2
<1>5. entries' = entries /\ latest' = latest => RowsOnlyGo /\ LatestStays(u, user[u])
  BY <1>1, <1>4 DEF RowsOnlyGo, LatestStays
<1>6. \E job : Quiet(u, user[u], job)
  <2>1. CASE cache!Evicted(u)
    <3>1. /\ user[u].pc = "delete" /\ user[u].victims = {} /\ entries' = entries /\ latest' = latest
          /\ user' = [user EXCEPT ![u] = cache!Away]
      BY <2>1 DEF cache!Evicted, cache!Ends, cache!Does
    <3>2. Fitting(u, user[u], cache!Away) BY <1>2, <1>3, <3>1 DEF Fitting
    <3>3. VictimsGo(user[u], cache!Away) BY <1>2, <3>1 DEF VictimsGo
    <3> QED BY <1>4, <1>5, <3>1, <3>2, <3>3 DEF Quiet
  <2>2. CASE cache!Touch(u)
    <3> DEFINE k == user[u].key
    <3>1. k \in CacheKeys /\ user[u].since \in Nat /\ user[u].pc \in {"touch", "look"} /\ latest' = latest
      BY <1>1, <2>2 DEF cache!Touch, UserType
    <3>2. \/ entries' = [entries EXCEPT ![k] = IF entries[k] = None THEN None
                                               ELSE [entries[k] EXCEPT !.used = user[u].since]]
          \/ entries' = entries
      BY <2>2 DEF cache!Touch
    <3>3. entries[k] # None =>
            /\ [entries[k] EXCEPT !.used = user[u].since] \in EntryType
            /\ [entries[k] EXCEPT !.used = user[u].since].value = entries[k].value
            /\ [entries[k] EXCEPT !.used = user[u].since].expires = entries[k].expires
      BY <1>1, <3>1 DEF EntryType
    <3>4. None \notin EntryType BY EntryIsNotNone
    <3>5. /\ entries' \in [CacheKeys -> EntryType \cup {None}]
          /\ \A j \in CacheKeys : (entries'[j] = None <=> entries[j] = None)
          /\ \A j \in CacheKeys : entries[j] # None =>
                entries'[j].value = entries[j].value /\ entries'[j].expires = entries[j].expires
      BY <1>1, <3>1, <3>2, <3>3, <3>4
    <3>6. RowsOnlyGo /\ LatestStays(u, user[u])
      <4>1. RowsOnlyGo BY <3>5 DEF RowsOnlyGo
      <4>2. LatestStays(u, user[u]) BY <1>1, <1>4, <3>1, <3>5 DEF LatestStays
      <4> QED BY <4>1, <4>2
    <3>7. CASE user[u].pc = "touch"
      <4>1. user' = [user EXCEPT ![u] = cache!Away] BY <2>2, <3>7 DEF cache!Touch, cache!Ends, cache!Does
      <4>2. Fitting(u, user[u], cache!Away) BY <1>2, <1>3, <3>1, <4>1 DEF Fitting
      <4>3. VictimsGo(user[u], cache!Away) BY <1>2, <3>1 DEF VictimsGo
      <4> QED BY <3>6, <4>2, <4>3 DEF Quiet
    <3>8. CASE user[u].pc = "look"
      <4> DEFINE job == [user[u] EXCEPT !.pc = "remove"]
      <4>1. user' = [user EXCEPT ![u] = job] BY <2>2, <3>8 DEF cache!Touch, cache!Proceeds, cache!Does
      <4>2. job \in UserType /\ job.pc = "remove" /\ job.key = k BY <1>1 DEF UserType, CachePcs
      <4> HIDE DEF job
      <4>3. Fitting(u, user[u], job) BY <1>3, <3>1, <4>1, <4>2 DEF Fitting
      <4>4. VictimsGo(user[u], job) BY <3>1, <4>2 DEF VictimsGo
      <4> QED BY <3>6, <4>3, <4>4 DEF Quiet
    <3> QED BY <3>1, <3>7, <3>8
  <2>3. CASE cache!DropOne(u)
    <3> DEFINE k == user[u].key
    <3>1. /\ user[u].pc = "remove" /\ k \in CacheKeys /\ entries' = [entries EXCEPT ![k] = None]
          /\ latest' = IF latest # None /\ latest.key = k THEN None ELSE latest
          /\ user' = [user EXCEPT ![u] = cache!Away]
      BY <1>1, <2>3 DEF cache!DropOne, cache!Ends, cache!Does
    <3> HIDE DEF k
    <3>2. Fitting(u, user[u], cache!Away) BY <1>2, <1>3, <3>1 DEF Fitting
    <3>3. RowsOnlyGo BY <1>1, <3>1 DEF RowsOnlyGo
    <3>4. LatestStays(u, user[u]) BY <1>1, <1>4, <3>1 DEF LatestStays
    <3>5. VictimsGo(user[u], cache!Away) BY <1>2, <3>1 DEF VictimsGo
    <3> QED BY <3>2, <3>3, <3>4, <3>5 DEF Quiet
  <2>4. ASSUME NEW k \in CacheKeys, cache!Get(u, k) PROVE \E job : Quiet(u, user[u], job)
    <3> DEFINE job == [cache!Away EXCEPT !.pc = "touch", !.key = k, !.since = time]
    <3>1. /\ user' = [user EXCEPT ![u] = job] /\ user[u] = cache!Away
          /\ entries' = entries /\ latest' = latest
      BY <2>4 DEF cache!Get, cache!Comes, cache!Does
    <3>2. job \in UserType /\ job.pc = "touch" /\ job.key = k
      BY <1>1, <1>2 DEF UserType, CachePcs, cache!Away
    <3> HIDE DEF job
    <3>3. Fitting(u, user[u], job) BY <1>2, <1>3, <3>1, <3>2 DEF Fitting
    <3>4. VictimsGo(user[u], job) BY <1>2, <3>1, <3>2 DEF VictimsGo
    <3> QED BY <1>5, <3>1, <3>3, <3>4 DEF Quiet
  <2>5. ASSUME NEW k \in CacheKeys, cache!Invalidate(u, k) PROVE \E job : Quiet(u, user[u], job)
    <3> DEFINE job == [cache!Away EXCEPT !.pc = IF k \in cache!Live THEN "look" ELSE "remove",
                                         !.key = k, !.since = time]
    <3>1. /\ user' = [user EXCEPT ![u] = job] /\ user[u] = cache!Away
          /\ entries' = entries /\ latest' = latest
      BY <2>5 DEF cache!Invalidate, cache!Comes, cache!Does
    <3>2. job \in UserType /\ job.pc \in {"look", "remove"} /\ job.key = k
      BY <1>1, <1>2 DEF UserType, CachePcs, cache!Away
    <3> HIDE DEF job
    <3>3. Fitting(u, user[u], job) BY <1>2, <1>3, <3>1, <3>2 DEF Fitting
    <3>4. VictimsGo(user[u], job) BY <1>2, <3>1, <3>2 DEF VictimsGo
    <3> QED BY <1>5, <3>1, <3>3, <3>4 DEF Quiet
  <2> QED BY <2>1, <2>2, <2>3, <2>4, <2>5
<1>7. PICK job : Quiet(u, user[u], job) BY <1>6
<1>8. \A w \in Users \ {u} : user'[w] = user[w] BY <1>7 DEF Quiet, Fitting, CacheInv, CacheTyped
<1> QED BY <1>4, <1>7, <1>8, QuietKeeps

\* All rows are gone, at any moment.
LEMMA TakeEntriesKeeps ==
    ASSUME cache!EntryCacheAssumption, CacheInv, cache!TakeEntries
    PROVE  CacheInv'
<1>1. /\ entries' = [k \in CacheKeys |-> None] /\ latest' = None
      /\ UNCHANGED <<time, user, usage>>
  BY DEF cache!TakeEntries
<1>2. cache!Rows' = {} BY <1>1 DEF cache!Rows
<1>3. RowsTyped' BY <1>1, <1>2, FS_EmptySet DEF RowsTyped
<1>4. CacheTyped' BY <1>1, <1>3 DEF CacheInv, CacheTyped
<1>5. Remaining' = {} BY <1>2 DEF Remaining
<1>6. Excess'
  <2>1. Overdue' <=> Overdue BY <1>1 DEF Overdue
  <2> QED BY <1>1, <1>5, <2>1, ShrinkKeepsExcess DEF CacheInv
<1>7. Solitary' BY <1>1 DEF CacheInv, Solitary
<1> QED BY <1>4, <1>6, <1>7 DEF CacheInv

LEMMA TimeKeeps ==
    ASSUME cache!EntryCacheAssumption, CacheInv, cache!TimePasses
    PROVE  CacheInv'
<1>1. UNCHANGED <<entries, user, latest, usage>> BY DEF cache!TimePasses
<1>2. time \in Nat /\ usage.until \in Nat /\ time <= usage.until
  BY DEF CacheInv, CacheTyped, cache!EntryCacheAssumption
<1>3. time' \in Nat /\ time <= time' /\ time' <= usage.until
  <2> DEFINE S == {time + 1, usage.until}
  <2>1. \E x \in S : \A y \in S : x <= y
    <3>1. CASE time + 1 <= usage.until BY <1>2, <3>1
    <3>2. CASE ~(time + 1 <= usage.until) BY <1>2, <3>2
    <3> QED BY <3>1, <3>2
  <2>2. time' \in S /\ \A y \in S : time' <= y BY <2>1 DEF cache!TimePasses, cache!Min
  <2> QED BY <1>2, <2>2
<1>4. cache!Rows' = cache!Rows /\ RowsTyped' BY <1>1 DEF cache!Rows, RowsTyped, CacheInv, CacheTyped
<1>5. CacheTyped' BY <1>1, <1>3, <1>4 DEF CacheInv, CacheTyped
<1>6. Excess' BY <1>1, <1>4 DEF CacheInv, Excess, Overdue, WithinOf, Remaining
<1>7. Solitary'
  <2> SUFFICES ASSUME usage.alone PROVE Solitary' BY <1>1 DEF Solitary
  <2>1. latest # None => latest.expires \in Nat \cup {Forever} BY DEF CacheInv, CacheTyped
  <2>2. latest # None /\ cache!Dead(latest.expires) => cache!Dead(latest.expires)'
    <3> SUFFICES ASSUME latest # None, latest.expires # Forever, latest.expires <= time
                 PROVE  latest'.expires # Forever /\ latest'.expires <= time'
      BY DEF cache!Dead
    <3> QED BY <1>1, <1>2, <1>3, <2>1
  <2>3. Overdue' <=> Overdue BY <1>1 DEF Overdue
  <2>4. \A k : Newest(k)' <=> Newest(k) BY <1>1, <1>4 DEF Newest
  <2> QED BY <1>1, <1>4, <2>2, <2>3, <2>4 DEF CacheInv, Solitary
<1> QED BY <1>5, <1>6, <1>7 DEF CacheInv

LEMMA CacheStands ==
    ASSUME CacheInv, UNCHANGED cacheVars
    PROVE  CacheInv'
  BY DEF cacheVars, CacheInv, CacheTyped, RowsTyped, Excess, Solitary, cache!Rows, Remaining,
         Overdue, Newest, WithinOf, cache!Dead

LEMMA CacheStep ==
    ASSUME cache!EntryCacheAssumption, CacheInv, cache!CacheNext
    PROVE  CacheInv'
<1>1. ASSUME NEW u \in Users, cache!DropAll(u) PROVE CacheInv'
  <2>1. cache!TakeEntries BY <1>1 DEF cache!DropAll, cache!TakeEntries
  <2> QED BY <2>1, TakeEntriesKeeps
<1> QED BY <1>1, PutKeeps, PurgeKeeps, SelectKeeps, EvictKeeps, OtherStepsKeep, TimeKeeps
        DEF cache!CacheNext

LEMMA CacheAtFirst ==
    ASSUME cache!EntryCacheAssumption, NEW x \in Uses, cache!FromCache(x.cache)
    PROVE  CacheInv
<1>1. /\ entries = [k \in CacheKeys |-> None] /\ time = 0 /\ latest = None
      /\ user = [u \in Users |-> cache!Away] /\ usage = x.cache
  BY DEF cache!FromCache
<1>2. cache!Rows = {} BY <1>1 DEF cache!Rows
<1>3. RowsTyped BY <1>1, <1>2, FS_EmptySet DEF RowsTyped
<1>4. cache!Away \in UserType /\ cache!Away.pc = "away" BY DEF cache!Away, UserType, CachePcs
<1>5. usage.until \in Nat BY <1>1 DEF cache!EntryCacheAssumption
<1>6. CacheTyped BY <1>1, <1>3, <1>4, <1>5 DEF CacheTyped
<1>7. Excess
  <2>1. Remaining = {} BY <1>2 DEF Remaining
  <2> QED BY <2>1, SizeOfNone, FS_EmptySet DEF Excess, WithinOf, cache!EntryCacheAssumption
<1>8. Solitary BY <1>1 DEF Solitary
<1> QED BY <1>6, <1>7, <1>8 DEF CacheInv

THEOREM CacheStaysWithinBudget ==
    ASSUME StoresAssumption
    PROVE  StoresSpec => []EvictsTheExcess
<1>1. cache!EntryCacheAssumption BY DEF StoresAssumption
<1>2. StoresInit => CacheInv BY <1>1, CacheAtFirst DEF StoresInit
<1>3. CacheInv /\ [StoresNext]_all => CacheInv'
  <2> SUFFICES ASSUME CacheInv, [StoresNext]_all PROVE CacheInv' OBVIOUS
  <2>1. CASE UNCHANGED cacheVars BY <2>1, CacheStands
  <2>2. CASE cache!TakeEntries BY <1>1, <2>2, TakeEntriesKeeps
  <2>3. CASE cache!CacheNext BY <1>1, <2>3, CacheStep
  <2> QED BY <2>1, <2>2, <2>3 DEF StoresNext, Remember, Beside, IndexCode, RecreateDatabase, SyncCommits,
                                  UseCache, all
<1>4. CacheInv => EvictsTheExcess
  <2> SUFFICES ASSUME CacheInv, usage.faults \subseteq {"purge", "touch"},
                      \A u \in Users : user[u].pc \notin {"purge", "select", "delete"}
               PROVE  /\ cache!Cardinality(cache!Rows) <= MaxCacheEntries
                      /\ cache!SizeOf(cache!Rows) <= MaxCacheBytes
                      /\ usage.alone /\ latest # None =>
                            latest.key \in cache!Live \/ cache!Dead(latest.expires)
    BY DEF EvictsTheExcess, cache!EvictsTheExcess
  <2>1. Remaining = cache!Rows BY DEF Remaining
  <2>2. WithinOf(entries, cache!Rows) BY <2>1 DEF CacheInv, Excess, Overdue
  <2>3. usage.alone /\ latest # None => latest.key \in cache!Live \/ cache!Dead(latest.expires)
    BY DEF CacheInv, Solitary, cache!Live
  <2> QED BY <2>2, <2>3, SizeHere, SameCardinality DEF WithinOf
<1> QED BY <1>2, <1>3, <1>4, PTL DEF StoresSpec

-----------------------------------------------------------------------------
(***************************************************************************)
(* The code index: what the digest was folded over is vouched for, file by *)
(* file.  A pass drops the rows of a file only for a content the digest    *)
(* does not have, or where the manifest owes some already; it writes a     *)
(* manifest that owes nothing only with all rows there; and it folds what  *)
(* it read, so that an edit in between makes the digest stale, unless it   *)
(* brings back a content the file has had.                                 *)
(***************************************************************************)

\* The pass of this session, the file it works on, and how far it is.
Me == codePass[Main]
Hand == code!Current(Main)
HandStages == {"stat", "forget", "extract", "write"}
ScanStages == {"files", "read"} \cup HandStages
UnderStages == ScanStages \cup {"sweep", "digest"}

Bodies == UNION {code!Range(c) : c \in Contents}
MaybeManifest == code!Manifests \cup {None}
MaybeFile == code!Files \cup {None}
Underways ==
    [pc : UnderStages, table : {TRUE}, prior : [Paths -> MaybeManifest],
     count : [Paths -> Nat], listed : SUBSET Paths, todo : SUBSET Paths,
     seen : SUBSET Paths, folded : SUBSET (Paths \X Contents), deferred : BOOLEAN,
     file : MaybeFile, rewrite : BOOLEAN, plan : Seq(Nat), places : Seq(Nat),
     skipped : Nat, intact : BOOLEAN]

\* What the index, the tree and the passes are made of.
Stored ==
    /\ disk \in [Paths -> code!Files \cup {None}]
    /\ manifest \in [Paths -> code!Manifests \cup {None}]
    /\ chunks \in [Paths -> Seq(Bodies)]
    /\ had \in [Paths -> SUBSET Contents]
    /\ edits \in Seq(code!Edits) /\ now \in Nat
    /\ codeDigest \in code!Digests \cup {None}
    /\ codePass = [w \in code!Workers |-> codePass[w]]

\* A content is the file's own, it never had another since, it is what the digest was
\* folded over.
Stands(f, c) == disk[f] # None /\ disk[f].content = c
Stays(f, c) == disk[f] # None /\ disk[f].content = c /\ c \notin had[f]
Folded(f, c) == codeDigest # None /\ <<f, c>> \in codeDigest.of
Knows(f, c) ==
    \/ Stands(f, c) \/ Folded(f, c)
    \/ manifest[f] # None /\ manifest[f].hash = c
    \/ Me.pc \in UnderStages /\ <<f, c>> \in Me.folded

\* What the tree, the digest, a manifest or the pass knows of a file is what it has or had.
KnowsOfThePast == \A f \in Paths, c \in Contents : Knows(f, c) => Stands(f, c) \/ c \in had[f]

\* A manifest lists chunks of its content; from the first on, when none was skipped.
ManifestsFit ==
    \A f \in Paths : manifest[f] # None =>
        /\ Len(manifest[f].places) <= Len(manifest[f].hash)
        /\ manifest[f].skipped = 0 => manifest[f].places = code!Upto(Len(manifest[f].places))

\* Nobody else is in a pass; this one has a table and knows the manifests it began with.
Alone == \A w \in code!Workers : w # Main => codePass[w] = code!Idle
Stages ==
    \/ Me = code!Idle
    \/ Me = [pc |-> "clear"] /\ \A f \in Paths : manifest[f] = None
    \/ Me = [pc |-> "schema"]
    \/ Me = [pc |-> "load", table |-> TRUE]
    \/ Me = [pc |-> "survey", table |-> TRUE, prior |-> manifest]
    \/ Me \in Underways

\* The rows are the chunks of c, or the manifest admits that they are not.
Vouched(f, c) == code!Owed(f) \/ (manifest[f].hash = c /\ chunks[f] = c)
\* A file that stays as its manifest has it is short of rows or has the right ones, so
\* that counting them is enough.
CountsSuffice ==
    \A f \in Paths : ~code!Owed(f) /\ Stays(f, manifest[f].hash) =>
        Len(chunks[f]) < Len(manifest[f].hash) \/ chunks[f] = manifest[f].hash
\* What the digest was folded over, and stays, is vouched for, until a pass drops the rows of
\* another embedder; so is what the pass has folded, but for the file in hand.
DigestVouches ==
    ~dropped => \A f \in Paths, c \in Contents : Folded(f, c) /\ Stays(f, c) => Vouched(f, c)

InHand(f) == Me.pc \in HandStages /\ f = Hand
PassVouches ==
    Me.pc \in UnderStages => \A f \in Paths, c \in Contents :
        <<f, c>> \in Me.folded /\ Stays(f, c) => InHand(f) \/ Vouched(f, c)

\* The files before and after the one in hand.
Sorted ==
    /\ Me.pc \in UnderStages =>
          /\ Me.seen \subseteq Me.listed /\ Me.todo \subseteq Me.listed
          /\ \A d \in Me.folded : d[1] \in Me.seen
    /\ Me.pc \in {"files", "read"} => Me.seen \cap Me.todo = {}
    /\ Me.pc = "read" => Me.todo # {}
    /\ Me.pc \in ScanStages => \A f \in Paths \ Me.seen :
          manifest[f] = Me.prior[f] /\ Me.count[f] = Len(chunks[f])
    /\ Me.pc = "sweep" => \A f \in Paths \ Me.listed : Me.prior[f] = None => manifest[f] = None

\* The file in hand is as it was when the pass began, and if it was edited since, then
\* to a content that neither the digest nor its manifest has.
Held ==
    Me.pc \in HandStages =>
        /\ Me.todo # {} /\ Me.seen \cap Me.todo = {Hand}
        /\ Me.file # None
        /\ manifest[Hand] = Me.prior[Hand]
        /\ <<Hand, Me.file.content>> \in Me.folded
        /\ \A d \in Me.folded : d[1] = Hand => d[2] = Me.file.content
        /\ \A c \in Contents : Stays(Hand, c) /\ c # Me.file.content =>
              ~Folded(Hand, c) /\ (manifest[Hand] # None => manifest[Hand].hash # c)
\* Nothing is written before its rows are gone, and they only go where the digest does
\* not count on them.
Emptied ==
    /\ Me.pc \in {"stat", "forget"} => Me.count[Hand] = Len(chunks[Hand])
    /\ Me.pc \in {"files", "read", "stat", "forget", "extract"} =>
          Me.places = <<>> /\ Me.skipped = 0 /\ Me.intact
    /\ Me.pc \in {"forget", "extract", "write"} => Me.rewrite = code!SameContent(Main)
    /\ Me.pc = "forget" => ~(Me.rewrite /\ code!Complete(Main))
    /\ Me.pc = "extract" => ~Me.rewrite /\ chunks[Hand] = <<>>
    /\ Me.pc \in {"extract", "write"} /\ ~dropped =>
          \A c \in Contents : Folded(Hand, c) /\ Stays(Hand, c) => code!Owed(Hand)

\* Rows written so far: a prefix of the content, if none was refused or skipped.
SoFar(c, work, there, total) ==
    /\ work.plan = [i \in 1 .. Len(work.plan) |-> Len(work.places) + work.skipped + i]
    /\ Len(work.places) + work.skipped + Len(work.plan) <= Len(c)
    /\ Len(there) <= Len(work.places) /\ (~work.intact => Len(there) < Len(work.places))
    /\ work.rewrite => work.skipped = 0 /\ Len(work.places) + Len(work.plan) = total
    /\ work.skipped = 0 => work.places = code!Upto(Len(work.places))
    /\ work.skipped = 0 /\ work.intact => there = SubSeq(c, 1, Len(work.places))
Writing ==
    Me.pc = "write" => SoFar(Me.file.content, Me, chunks[Hand], Len(Me.prior[Hand].places))

Index ==
    /\ Stored /\ KnowsOfThePast /\ ManifestsFit /\ Alone /\ Stages
    /\ CountsSuffice /\ DigestVouches /\ PassVouches /\ Sorted /\ Held /\ Emptied /\ Writing

-----------------------------------------------------------------------------
\* What is assumed of the constants.
LEMMA Consts ==
    ASSUME StoresAssumption
    PROVE  /\ IsFiniteSet(Paths) /\ Place \in [Paths -> Nat]
           /\ \A p, r \in Paths : Place[p] = Place[r] => p = r
           /\ \A c \in Contents : c \in Seq(Bodies) /\ Len(c) \in Nat
           /\ Size \in [Contents -> Nat]
           /\ None \notin Contents /\ None \notin code!Files
           /\ None \notin code!Manifests /\ None \notin code!Digests
           /\ FileLimit \in Nat \ {0} /\ DigestMax \in Nat \ {0}
<1>1. code!CodeIndexAssumption BY DEF StoresAssumption
<1>2. ASSUME NEW c \in Contents PROVE c \in Seq(Bodies) /\ Len(c) \in Nat
  <2>1. c \in Seq(code!Range(c)) BY <1>1 DEF code!CodeIndexAssumption
  <2>2. code!Range(c) \subseteq Bodies BY DEF Bodies
  <2> QED BY <2>1, <2>2
<1>3. code!IsFiniteSet(Paths) = IsFiniteSet(Paths) BY DEF code!IsFiniteSet, IsFiniteSet
<1>4. IsFiniteSet(Paths) BY <1>1, <1>3 DEF code!CodeIndexAssumption
<1> QED BY <1>1, <1>2, <1>4 DEF code!CodeIndexAssumption

\* The earliest of some files is one of them.
LEMMA EarliestIsOne ==
    ASSUME StoresAssumption, NEW S \in SUBSET Paths, S # {}
    PROVE  code!Earliest(S) \in S
<1> DEFINE T == {Place[p] : p \in S}
           R == OpToRel(<, Nat)
<1>1. T \in SUBSET Nat /\ T # {} BY Consts
<1>2. R = {ss \in Nat \X Nat : ss[1] < ss[2]} BY DEF OpToRel
<1>3. IsWellFoundedOn(R, Nat) BY NatLessThanWellFounded
<1> HIDE DEF R, T
<1>4. \E x \in T : \A y \in T : ~(<<y, x>> \in R) BY <1>1, <1>3, WFMin
<1>5. PICK x \in T : \A y \in T : ~(y < x) BY <1>1, <1>2, <1>4
<1>6. PICK p \in S : Place[p] = x BY <1>5 DEF T
<1>7. ASSUME NEW r \in S PROVE Place[p] <= Place[r]
  <2>1. Place[r] \in T /\ Place[r] \in Nat /\ x \in Nat BY <1>1, <1>5, Consts DEF T
  <2> QED BY <2>1, <1>5, <1>6
<1>8. \E q \in S : \A r \in S : Place[q] <= Place[r] BY <1>6, <1>7
<1> QED BY <1>8 DEF code!Earliest

LEMMA HandIsOne ==
    ASSUME StoresAssumption, Me \in Underways, Me.todo # {}
    PROVE  Hand \in Me.todo /\ Hand \in Paths /\ Hand = code!Earliest(Me.todo)
<1>1. Me.todo \in SUBSET Paths BY DEF Underways
<1>2. Hand = code!Earliest(Me.todo) BY DEF Hand, code!Current, Me
<1> QED BY <1>1, <1>2, EarliestIsOne

\* What every step of a pass leaves as it is.
LEMMA PassStepKeeps ==
    ASSUME StoresAssumption, Index, NEW X,
           codePass' = [codePass EXCEPT ![Main] = X],
           manifest' \in [Paths -> code!Manifests \cup {None}],
           chunks' \in [Paths -> Seq(Bodies)],
           codeDigest' \in code!Digests \cup {None},
           UNCHANGED <<disk, had, edits, now>>
    PROVE  Me' = X /\ Stored' /\ Alone'
<1>1. Me' = X /\ Alone' /\ codePass' = [w \in code!Workers |-> codePass'[w]]
  <2>1. codePass = [w \in code!Workers |-> codePass[w]] /\ Alone BY DEF Index, Stored
  <2>2. Main \in code!Workers BY DEF code!Workers
  <2> QED BY <2>1, <2>2 DEF Me, Alone
<1>2. Stored' BY <1>1 DEF Index, Stored
<1> QED BY <1>1, <1>2

\* Where neither the tree nor the digest moves, nothing is known that was not.
LEMMA KnowsNoMore ==
    ASSUME Index, UNCHANGED <<disk, had, codeDigest>>,
           \A f \in Paths : manifest'[f] # None => manifest[f] # None /\ manifest'[f].hash = manifest[f].hash,
           Me'.pc \in UnderStages => Me'.folded = {} \/ (Me.pc \in UnderStages /\ Me'.folded = Me.folded)
    PROVE  KnowsOfThePast'
<1> SUFFICES ASSUME NEW f \in Paths, NEW c \in Contents, Knows(f, c)'
             PROVE  Stands(f, c)' \/ c \in had'[f]
  BY DEF KnowsOfThePast
<1>1. Knows(f, c) BY DEF Knows, Stands, Folded
<1>2. Stands(f, c) \/ c \in had[f] BY <1>1 DEF Index, KnowsOfThePast
<1> QED BY <1>2 DEF Stands

\* A pass that is not yet at its files has nothing to keep but what is stored.
LEMMA BeforeFiles ==
    ASSUME Me' \notin Underways, Me'.pc \notin UnderStages
    PROVE  PassVouches' /\ Sorted' /\ Held' /\ Emptied' /\ Writing'
  BY DEF PassVouches, Sorted, Held, Emptied, Writing, UnderStages, ScanStages, HandStages

LEMMA IndexBy ==
    ASSUME Stored', KnowsOfThePast', ManifestsFit', Alone', Stages',
           CountsSuffice', DigestVouches', PassVouches', Sorted', Held', Emptied', Writing'
    PROVE  Index'
  BY DEF Index

\* Manifests withdrawn.
LEMMA Withdrawn ==
    ASSUME Index, UNCHANGED <<disk, had>>,
           \A f \in Paths : manifest'[f] = manifest[f] \/ manifest'[f] = None,
           \A f \in Paths : chunks'[f] = chunks[f] \/ manifest'[f] = None
    PROVE  /\ ManifestsFit' /\ CountsSuffice'
           /\ \A f \in Paths : code!Owed(f) => code!Owed(f)'
           /\ \A f \in Paths, c \in Contents : Vouched(f, c) => Vouched(f, c)'
<1>1. ManifestsFit' BY DEF Index, ManifestsFit
<1>2. \A f \in Paths : manifest'[f] = None => code!Owed(f)' BY DEF code!Owed
<1>3. \A f \in Paths : manifest'[f] = manifest[f] => code!Owed(f)' = code!Owed(f) BY DEF code!Owed
<1>4. \A f \in Paths : code!Owed(f) => code!Owed(f)' BY <1>2, <1>3
<1>5. CountsSuffice' BY <1>2, <1>3 DEF Index, CountsSuffice, Stays
<1>6. \A f \in Paths, c \in Contents : Vouched(f, c) => Vouched(f, c)' BY <1>2, <1>3 DEF Vouched
<1> QED BY <1>1, <1>4, <1>5, <1>6

LEMMA AtStage ==
    ASSUME Index
    PROVE  /\ Me.pc = "rest" => Me = code!Idle
           /\ Me.pc = "clear" => Me = [pc |-> "clear"] /\ \A f \in Paths : manifest[f] = None
           /\ Me.pc = "schema" => Me = [pc |-> "schema"]
           /\ Me.pc = "load" => Me = [pc |-> "load", table |-> TRUE]
           /\ Me.pc = "survey" => Me = [pc |-> "survey", table |-> TRUE, prior |-> manifest]
           /\ Me.pc \in UnderStages <=> Me \in Underways
<1>1. Me \in Underways => Me.pc \in UnderStages BY DEF Underways
<1>2. Me = code!Idle => Me.pc = "rest" BY DEF code!Idle
<1>3. Me = [pc |-> "clear"] => Me.pc = "clear" OBVIOUS
<1>4. Me = [pc |-> "schema"] => Me.pc = "schema" OBVIOUS
<1>5. Me = [pc |-> "load", table |-> TRUE] => Me.pc = "load" OBVIOUS
<1>6. Me = [pc |-> "survey", table |-> TRUE, prior |-> manifest] => Me.pc = "survey" OBVIOUS
<1>7. UnderStages = {"files", "read", "stat", "forget", "extract", "write", "sweep", "digest"}
  BY DEF UnderStages, ScanStages, HandStages
<1>8. Stages BY DEF Index
<1> QED BY <1>1, <1>2, <1>3, <1>4, <1>5, <1>6, <1>7, <1>8 DEF Stages

LEMMA NothingElseMoves ==
    ASSUME UNCHANGED <<manifest, chunks, codePass, codeDigest>>
    PROVE  /\ Me' = Me /\ Hand' = Hand
           /\ code!SameContent(Main)' = code!SameContent(Main)
           /\ code!Complete(Main)' = code!Complete(Main)
           /\ \A f \in Paths : code!Owed(f)' = code!Owed(f) /\ InHand(f)' = InHand(f)
           /\ \A f \in Paths, c \in Contents : /\ Vouched(f, c)' = Vouched(f, c)
                                               /\ Folded(f, c)' = Folded(f, c)
  BY DEF Me, Hand, code!Current, code!SameContent, code!Complete, code!PriorOf, code!Owed, Vouched,
         Folded, InHand

\* A content that a file has not had is of no manifest, no digest and no pass yet.
LEMMA EditKeeps ==
    ASSUME StoresAssumption, Index, code!Edit
    PROVE  Index'
<1>0. PICK e : e = Head(edits) OBVIOUS
<1>1. edits # <<>> /\ edits \in Seq(code!Edits) /\ edits' = Tail(edits) /\ now' = now + e.ticks
      /\ UNCHANGED <<manifest, chunks, codePass, codeDigest, dropped>>
  BY <1>0 DEF code!Edit, code!derived, code!schema, Index, Stored
<1>2. /\ disk' = [disk EXCEPT ![e.path] =
                  IF e.content = None THEN None ELSE [content |-> e.content, mtime |-> now']]
      /\ had' = [had EXCEPT ![e.path] =
                  IF disk[e.path] = None \/ disk[e.path].content = e.content THEN had[e.path]
                  ELSE had[e.path] \cup {disk[e.path].content}]
  BY <1>0 DEF code!Edit
<1>3. e \in code!Edits /\ edits' \in Seq(code!Edits) BY <1>0, <1>1
<1>4. e.path \in Paths /\ (e.content \in Contents \/ e.content = None) /\ e.ticks \in {0, 1}
  BY <1>3 DEF code!Edits
<1>5. disk \in [Paths -> code!Files \cup {None}] /\ now \in Nat /\ had \in [Paths -> SUBSET Contents]
  BY DEF Index, Stored
<1>6. disk' \in [Paths -> code!Files \cup {None}] /\ now' \in Nat /\ had' \in [Paths -> SUBSET Contents]
  <2>1. now' \in Nat BY <1>1, <1>4, <1>5
  <2>2. e.content # None => [content |-> e.content, mtime |-> now'] \in code!Files
    BY <2>1, <1>4 DEF code!Files
  <2>3. disk[e.path] # None => disk[e.path].content \in Contents BY <1>4, <1>5 DEF code!Files
  <2> QED BY <2>1, <2>2, <2>3, <1>2, <1>4, <1>5
<1>7. Stored' BY <1>1, <1>3, <1>6 DEF Index, Stored
<1>8. \A f \in Paths : had[f] \subseteq had'[f] BY <1>2, <1>4, <1>5
<1>9. \A f \in Paths, c \in Contents : Stands(f, c) => Stands(f, c)' \/ c \in had'[f]
  <2> SUFFICES ASSUME NEW f \in Paths, NEW c \in Contents, Stands(f, c)
               PROVE  Stands(f, c)' \/ c \in had'[f]
    OBVIOUS
  <2>1. CASE f # e.path BY <2>1, <1>2, <1>4, <1>5 DEF Stands
  <2>2. CASE f = e.path /\ c = e.content
    <3>1. e.content # None BY <2>2, Consts
    <3>2. disk'[f] = [content |-> c, mtime |-> now'] BY <2>2, <3>1, <1>2, <1>4, <1>5
    <3>3. disk'[f] # None BY <3>1, <3>2, <1>6, Consts DEF code!Files
    <3> QED BY <3>2, <3>3 DEF Stands
  <2>3. CASE f = e.path /\ c # e.content BY <2>3, <1>2, <1>4, <1>5 DEF Stands
  <2> QED BY <2>1, <2>2, <2>3
<1>12. \A f \in Paths, c \in Contents : Stays(f, c)' => Stays(f, c) \/ ~Stands(f, c)
  BY <1>8 DEF Stays, Stands
<1>13. /\ Me' = Me /\ Hand' = Hand
       /\ code!SameContent(Main)' = code!SameContent(Main)
       /\ code!Complete(Main)' = code!Complete(Main)
       /\ \A f \in Paths : code!Owed(f)' = code!Owed(f) /\ InHand(f)' = InHand(f)
       /\ \A f \in Paths, c \in Contents : /\ Vouched(f, c)' = Vouched(f, c)
                                           /\ Folded(f, c)' = Folded(f, c)
  BY <1>1, NothingElseMoves
<1>14. \A f \in Paths, c \in Contents : Stays(f, c)' /\ ~Stays(f, c) => ~Knows(f, c)
  <2> SUFFICES ASSUME NEW f \in Paths, NEW c \in Contents, Stays(f, c)', ~Stays(f, c), Knows(f, c)
               PROVE  FALSE
    OBVIOUS
  <2>1. c \in had[f] BY <1>12 DEF Index, KnowsOfThePast
  <2> QED BY <2>1, <1>8 DEF Stays
<1>15. KnowsOfThePast'
  <2> SUFFICES ASSUME NEW f \in Paths, NEW c \in Contents, Knows(f, c)', ~Stands(f, c)'
               PROVE  c \in had'[f]
    BY DEF KnowsOfThePast
  <2>1. Knows(f, c) BY <1>1, <1>13 DEF Knows
  <2>2. Stands(f, c) \/ c \in had[f] BY <2>1 DEF Index, KnowsOfThePast
  <2> QED BY <2>2, <1>8, <1>9
<1>16. ManifestsFit' BY <1>1 DEF Index, ManifestsFit
<1>17. Alone' /\ Stages' BY <1>1, <1>13 DEF Index, Alone, Stages
<1>18. dropped' = dropped BY <1>1
<1>19. CountsSuffice'
  <2> SUFFICES ASSUME NEW f \in Paths, NEW c, c = manifest[f].hash, ~code!Owed(f)',
                      Stays(f, c)'
               PROVE  Len(chunks[f]) < Len(c) \/ chunks[f] = c
    BY <1>1 DEF CountsSuffice, Stays
  <2>1. manifest[f] \in code!Manifests /\ manifest[f] # None /\ ~code!Owed(f)
    BY <1>13 DEF Index, Stored, code!Owed
  <2>2. c \in Contents BY <2>1 DEF code!Manifests
  <2>3. Knows(f, c) BY <2>1 DEF Knows
  <2>4. Stays(f, c) BY <2>2, <2>3, <1>14
  <2> QED BY <2>1, <2>4 DEF Index, CountsSuffice
<1>20. DigestVouches' BY <1>13, <1>14, <1>18 DEF Index, DigestVouches, Knows
<1>21. PassVouches' BY <1>13, <1>14 DEF Index, PassVouches, Knows
<1>22. Sorted' BY <1>1, <1>13 DEF Index, Sorted
<1>23. Held'
  <2> SUFFICES ASSUME Me.pc \in HandStages PROVE Held' BY <1>13 DEF Held
  <2>1. Me \in Underways BY DEF Index, Stages, code!Idle, HandStages, ScanStages
  <2>2. Hand \in Paths BY <2>1, HandIsOne DEF Index, Held
  <2>3. \A c \in Contents : Stays(Hand, c)' /\ c # Me.file.content =>
            ~Folded(Hand, c) /\ (manifest[Hand] # None => manifest[Hand].hash # c)
    <3> SUFFICES ASSUME NEW c \in Contents, Stays(Hand, c)', c # Me.file.content
                 PROVE  ~Folded(Hand, c) /\ (manifest[Hand] # None => manifest[Hand].hash # c)
      OBVIOUS
    <3>1. CASE Stays(Hand, c) BY <3>1 DEF Index, Held
    <3>2. CASE ~Stays(Hand, c)
      <4>1. ~Knows(Hand, c) BY <2>2, <3>2, <1>13, <1>14 DEF Stays
      <4> QED BY <4>1 DEF Knows
    <3> QED BY <3>1, <3>2
  <2> QED BY <2>2, <2>3, <1>1, <1>13 DEF Index, Held
<1>24. Emptied'
  <2>1. Me.pc \in {"extract", "write"} =>
           \A c \in Contents : Folded(Hand, c)' /\ Stays(Hand, c)' => Stays(Hand, c)
    <3> SUFFICES ASSUME Me.pc \in {"extract", "write"} PROVE
           \A c \in Contents : Folded(Hand, c)' /\ Stays(Hand, c)' => Stays(Hand, c)
      OBVIOUS
    <3>1. Me \in Underways /\ Me.pc \in HandStages BY DEF Index, Stages, code!Idle, HandStages
    <3>2. Hand \in Paths BY <3>1, HandIsOne DEF Index, Held
    <3> QED BY <3>2, <1>13, <1>14 DEF Knows
  <2>2. Me.pc \in {"extract", "write"} => code!Owed(Hand)' = code!Owed(Hand)
    BY <1>1 DEF code!Owed, Hand, code!Current
  <2> QED BY <2>1, <2>2, <1>1, <1>13, <1>18 DEF Index, Emptied, Folded
<1>25. Writing' BY <1>1, <1>13 DEF Index, Writing, SoFar
<1> QED BY <1>7, <1>15, <1>16, <1>17, <1>18, <1>19, <1>20, <1>21, <1>22, <1>23, <1>24, <1>25,
           IndexBy

-----------------------------------------------------------------------------
\* Where nothing is stored, what was vouched for still is.
LEMMA NothingStored ==
    ASSUME Index, UNCHANGED <<disk, had, manifest, chunks, codeDigest>>
    PROVE  /\ ManifestsFit' /\ CountsSuffice'
           /\ \A f \in Paths : code!Owed(f)' = code!Owed(f)
           /\ \A f \in Paths, c \in Contents :
                 /\ Vouched(f, c)' = Vouched(f, c)
                 /\ Folded(f, c)' = Folded(f, c) /\ Stays(f, c)' = Stays(f, c)
<1>1. \A f \in Paths : code!Owed(f)' = code!Owed(f) BY DEF code!Owed
<1>2. ManifestsFit' BY DEF Index, ManifestsFit
<1>3. CountsSuffice' BY <1>1 DEF Index, CountsSuffice, Stays
<1>4. \A f \in Paths, c \in Contents :
                 /\ Vouched(f, c)' = Vouched(f, c)
                 /\ Folded(f, c)' = Folded(f, c) /\ Stays(f, c)' = Stays(f, c)
  BY <1>1 DEF Vouched, Folded, Stays
<1> QED BY <1>1, <1>2, <1>3, <1>4

LEMMA StartKeeps ==
    ASSUME StoresAssumption, Index, code!CodeSearch(Main) \/ code!Reindex(Main)
    PROVE  Index'
<1>1. /\ UNCHANGED <<manifest, chunks, codeDigest, disk, had, dropped, edits, now>>
      /\ Me.pc = "rest" /\ codePass' = [codePass EXCEPT ![Main] = [pc |-> "schema"]]
  BY DEF code!CodeSearch, code!Reindex, code!Joins, code!Calm, code!derived, code!schema, code!tree,
         code!Becomes, code!Doing, Me
<1>2. Me' = [pc |-> "schema"] /\ Stored' /\ Alone'
  BY <1>1, PassStepKeeps DEF Index, Stored
<1>3. KnowsOfThePast' BY <1>1, <1>2, KnowsNoMore DEF UnderStages, ScanStages, HandStages
<1>4. /\ ManifestsFit' /\ CountsSuffice'
      /\ \A f \in Paths, c \in Contents :
            /\ Vouched(f, c)' = Vouched(f, c)
            /\ Folded(f, c)' = Folded(f, c) /\ Stays(f, c)' = Stays(f, c)
  BY <1>1, NothingStored
<1>5. Stages' BY <1>2 DEF Stages
<1>6. DigestVouches' BY <1>1, <1>4 DEF Index, DigestVouches
<1>7. PassVouches' /\ Sorted' /\ Held' /\ Emptied' /\ Writing'
  BY <1>2, BeforeFiles DEF Underways, UnderStages, ScanStages, HandStages
<1> QED BY <1>2, <1>3, <1>4, <1>5, <1>6, <1>7, IndexBy

LEMMA ClearKeysKeeps ==
    ASSUME StoresAssumption, Index, code!ClearKeys(Main)
    PROVE  Index'
<1>1. /\ UNCHANGED <<chunks, codeDigest, disk, had, dropped, edits, now>>
      /\ Me.pc = "rest" /\ codePass' = [codePass EXCEPT ![Main] = [pc |-> "clear"]]
      /\ manifest' = [f \in Paths |-> None]
  BY DEF code!ClearKeys, code!Strikes, code!schema, code!tree, code!Becomes, code!Doing, Me
<1>2. Me' = [pc |-> "clear"] /\ Stored' /\ Alone'
  <2>1. manifest' \in [Paths -> code!Manifests \cup {None}] BY <1>1
  <2> QED BY <1>1, <2>1, PassStepKeeps DEF Index, Stored
<1>3. KnowsOfThePast' BY <1>1, <1>2, KnowsNoMore DEF UnderStages, ScanStages, HandStages
<1>4. ManifestsFit' /\ CountsSuffice' BY <1>1, Withdrawn
<1>5. Stages' BY <1>1, <1>2 DEF Stages
<1>6. \A f \in Paths, c \in Contents : Vouched(f, c)' BY <1>1 DEF Vouched, code!Owed
<1>7. DigestVouches' BY <1>6 DEF DigestVouches
<1>8. PassVouches' /\ Sorted' /\ Held' /\ Emptied' /\ Writing'
  BY <1>2, BeforeFiles DEF Underways, UnderStages, ScanStages, HandStages
<1> QED BY <1>2, <1>3, <1>4, <1>5, <1>7, <1>8, IndexBy

LEMMA ClearTableKeeps ==
    ASSUME StoresAssumption, Index, code!ClearTable(Main)
    PROVE  Index'
<1>1. /\ UNCHANGED <<manifest, codeDigest, disk, had, dropped, edits, now>>
      /\ Me.pc = "clear" /\ chunks' = [f \in Paths |-> <<>>]
  BY DEF code!ClearTable, code!schema, code!tree, code!Doing, Me
<1>2. Me = [pc |-> "clear"] /\ \A f \in Paths : manifest[f] = None
  BY <1>1, AtStage
<1>3. codePass' = [codePass EXCEPT ![Main] = [pc |-> "schema"]]
  <2>1. codePass' = [codePass EXCEPT ![Main].pc = "schema"] BY DEF code!ClearTable, code!Turn
  <2>2. codePass' = [codePass EXCEPT ![Main] = [Me EXCEPT !.pc = "schema"]] BY <2>1 DEF Me
  <2>3. [Me EXCEPT !.pc = "schema"] = [pc |-> "schema"] BY <1>2
  <2> QED BY <2>2, <2>3
<1>4. Me' = [pc |-> "schema"] /\ Stored' /\ Alone'
  <2>1. chunks' \in [Paths -> Seq(Bodies)] BY <1>1
  <2> QED BY <1>1, <1>3, <2>1, PassStepKeeps DEF Index, Stored
<1>5. KnowsOfThePast' BY <1>1, <1>4, KnowsNoMore DEF UnderStages, ScanStages, HandStages
<1>6. ManifestsFit' /\ CountsSuffice' BY <1>1, <1>2, Withdrawn
<1>7. Stages' BY <1>4 DEF Stages
<1>8. \A f \in Paths, c \in Contents : Vouched(f, c)' BY <1>1, <1>2 DEF Vouched, code!Owed
<1>9. DigestVouches' BY <1>8 DEF DigestVouches
<1>10. PassVouches' /\ Sorted' /\ Held' /\ Emptied' /\ Writing'
  BY <1>4, BeforeFiles DEF Underways, UnderStages, ScanStages, HandStages
<1> QED BY <1>4, <1>5, <1>6, <1>7, <1>9, <1>10, IndexBy

\* Where the rows of another embedder are dropped the digest is not held to its word.
LEMMA EnsureSchemaKeeps ==
    ASSUME StoresAssumption, Index, code!EnsureSchema(Main), ~disturbed'
    PROVE  Index'
<1> DEFINE X == [pc |-> "load", table |-> TRUE]
<1>1. /\ UNCHANGED <<manifest, codeDigest, disk, had, edits, now>>
      /\ Me.pc = "schema" /\ codePass' = [codePass EXCEPT ![Main] = X]
      /\ chunks' = IF code!Outdated THEN [f \in Paths |-> <<>>] ELSE chunks
      /\ dropped' = (dropped \/ code!Outdated)
  BY DEF code!EnsureSchema, code!Calm, code!tree, code!Doing, code!Becomes, Me
<1>2. Me' = X /\ Alone' /\ codePass' = [w \in code!Workers |-> codePass'[w]]
  <2>1. codePass = [w \in code!Workers |-> codePass[w]] /\ Alone BY DEF Index, Stored
  <2>2. Main \in code!Workers BY DEF code!Workers
  <2> QED BY <1>1, <2>1, <2>2 DEF Me, Alone
<1> HIDE DEF X
<1>3. chunks' \in [Paths -> Seq(Bodies)] BY <1>1 DEF Index, Stored
<1>4. Stored' BY <1>1, <1>2, <1>3 DEF Index, Stored
<1>7. Me'.pc = "load" BY <1>2 DEF X
<1>8. KnowsOfThePast' BY <1>1, <1>7, KnowsNoMore DEF UnderStages, ScanStages, HandStages
<1>9. ManifestsFit' BY <1>1 DEF Index, ManifestsFit
<1>10. \A f \in Paths : code!Owed(f)' = code!Owed(f) BY <1>1 DEF code!Owed
<1>11. CountsSuffice'
  <2> SUFFICES ASSUME NEW f \in Paths, NEW c, c = manifest[f].hash, ~code!Owed(f), Stays(f, c)
               PROVE  Len(chunks'[f]) < Len(c) \/ chunks'[f] = c
    BY <1>1, <1>10 DEF CountsSuffice, Stays
  <2>1. CASE chunks'[f] = chunks[f] BY <2>1 DEF Index, CountsSuffice
  <2>2. CASE chunks'[f] = <<>>
    <3>1. c \in Contents BY DEF Index, Stored, code!Owed, code!Manifests
    <3>2. c \in Seq(Bodies) BY <3>1, Consts
    <3> QED BY <2>2, <3>2
  <2> QED BY <1>1, <2>1, <2>2
<1>12. Stages' BY <1>2 DEF Stages, X
<1>13. DigestVouches'
  <2>1. CASE code!Outdated
    <3>1. dropped' BY <2>1, <1>1
    <3> QED BY <3>1 DEF DigestVouches
  <2>2. CASE ~code!Outdated
    <3>1. UNCHANGED <<disk, had, manifest, chunks, codeDigest>> BY <2>2, <1>1
    <3>2. \A f \in Paths, c \in Contents :
            /\ Vouched(f, c)' = Vouched(f, c)
            /\ Folded(f, c)' = Folded(f, c) /\ Stays(f, c)' = Stays(f, c)
      BY <3>1, NothingStored
    <3> QED BY <3>2, <2>2, <1>1 DEF Index, DigestVouches
  <2> QED BY <2>1, <2>2
<1>14. PassVouches' /\ Sorted' /\ Held' /\ Emptied' /\ Writing'
  BY <1>7, BeforeFiles DEF Underways, UnderStages, ScanStages, HandStages
<1> QED BY <1>2, <1>4, <1>8, <1>9, <1>11, <1>12, <1>13, <1>14, IndexBy

LEMMA LoadManifestsKeeps ==
    ASSUME StoresAssumption, Index, code!LoadManifests(Main)
    PROVE  Index'
<1>1. /\ UNCHANGED <<chunks, codeDigest, disk, had, dropped, edits, now>>
      /\ Me.pc = "load"
      /\ \E stale \in SUBSET Paths :
            manifest' = [f \in Paths |-> IF f \in stale THEN None ELSE manifest[f]]
  BY DEF code!LoadManifests, code!schema, code!tree, code!Doing, Me
<1>2. Me = [pc |-> "load", table |-> TRUE]
  BY <1>1, AtStage
<1> DEFINE X == [pc |-> "survey", table |-> TRUE, prior |-> manifest']
<1>3. codePass' = [codePass EXCEPT ![Main] = X]
  BY <1>2 DEF code!LoadManifests, code!Becomes, Me
<1>4. Me' = X /\ Stored' /\ Alone'
  <2> HIDE DEF X
  <2>1. manifest' \in [Paths -> code!Manifests \cup {None}] BY <1>1 DEF Index, Stored
  <2> QED BY <1>1, <1>3, <2>1, PassStepKeeps DEF Index, Stored
<1>5. Me'.pc = "survey" BY <1>4
<1>6. KnowsOfThePast' BY <1>1, <1>5, KnowsNoMore DEF UnderStages, ScanStages, HandStages
<1>7. /\ ManifestsFit' /\ CountsSuffice'
      /\ \A f \in Paths, c \in Contents : Vouched(f, c) => Vouched(f, c)'
  BY <1>1, Withdrawn
<1>8. Stages' BY <1>4 DEF Stages
<1>9. DigestVouches' BY <1>1, <1>7 DEF Index, DigestVouches, Folded, Stays
<1>10. PassVouches' /\ Sorted' /\ Held' /\ Emptied' /\ Writing'
  BY <1>5, BeforeFiles DEF Underways, UnderStages, ScanStages, HandStages
<1> QED BY <1>4, <1>6, <1>7, <1>8, <1>9, <1>10, IndexBy

\* What ends a pass early left no rows dropped that the digest counts on.
LEMMA EndsEarly ==
    ASSUME StoresAssumption, Index,
           codePass' = [w \in code!Workers |-> IF w = Main THEN code!Idle ELSE codePass'[w]],
           Alone', UNCHANGED <<manifest, chunks, codeDigest, disk, had, dropped, edits, now>>
    PROVE  Index'
<1>1. Me' = code!Idle /\ codePass' = [w \in code!Workers |-> codePass'[w]]
  BY DEF Me, code!Workers
<1>2. Me'.pc = "rest" BY <1>1 DEF code!Idle
<1>3. Stored' BY <1>1 DEF Index, Stored
<1>5. KnowsOfThePast' BY <1>2, KnowsNoMore DEF UnderStages, ScanStages, HandStages
<1>6. /\ ManifestsFit' /\ CountsSuffice'
      /\ \A f \in Paths, c \in Contents :
            /\ Vouched(f, c)' = Vouched(f, c)
            /\ Folded(f, c)' = Folded(f, c) /\ Stays(f, c)' = Stays(f, c)
  BY NothingStored
<1>7. Stages' BY <1>1 DEF Stages
<1>8. DigestVouches' BY <1>6 DEF Index, DigestVouches
<1>9. PassVouches' /\ Sorted' /\ Held' /\ Emptied' /\ Writing'
  BY <1>2, BeforeFiles DEF Underways, UnderStages, ScanStages, HandStages
<1> QED BY <1>3, <1>5, <1>6, <1>7, <1>8, <1>9, IndexBy

LEMMA KilledKeeps ==
    ASSUME StoresAssumption, Index, code!Killed(Main)
    PROVE  Index'
<1>1. /\ UNCHANGED <<manifest, chunks, codeDigest, disk, had, dropped, edits, now>>
      /\ codePass' = [codePass EXCEPT ![Main] = code!Idle]
  BY DEF code!Killed, code!derived, code!schema, code!tree, code!Becomes
<1>2. Me' = code!Idle /\ Stored' /\ Alone'
  BY <1>1, PassStepKeeps DEF Index, Stored
<1>3. codePass' = [w \in code!Workers |-> IF w = Main THEN code!Idle ELSE codePass'[w]]
  BY <1>2 DEF Me, Stored
<1> QED BY <1>1, <1>2, <1>3, EndsEarly

LEMMA UpgradeKeeps ==
    ASSUME StoresAssumption, Index, code!Upgrade
    PROVE  Index'
<1>1. /\ UNCHANGED <<manifest, chunks, codeDigest, disk, had, dropped, edits, now>>
      /\ codePass' = [w \in code!Workers |-> code!Idle]
  BY DEF code!Upgrade, code!tree
<1>2. Alone' /\ codePass' = [w \in code!Workers |-> IF w = Main THEN code!Idle ELSE codePass'[w]]
  BY <1>1 DEF Alone
<1> QED BY <1>1, <1>2, EndsEarly

\* A listing that failed ends the pass before it touched anything.
LEMMA SurveyKeeps ==
    ASSUME StoresAssumption, Index, code!Survey(Main)
    PROVE  Index'
<1>1. /\ UNCHANGED <<manifest, chunks, codeDigest, disk, had, dropped, edits, now>>
      /\ Me.pc = "survey"
  BY DEF code!Survey, code!derived, code!schema, code!tree, code!Doing, Me
<1>2. Me = [pc |-> "survey", table |-> TRUE, prior |-> manifest] BY <1>1, AtStage
<1>3. PICK files \in {code!Listed, {}} :
        codePass' = [codePass EXCEPT ![Main] =
              IF files = {} /\ \E f \in Paths : Me.prior[f] # None THEN code!Idle
              ELSE code!Underway(Main, files)]
  BY DEF code!Survey, code!Becomes, Me
<1>4. files \in SUBSET Paths BY DEF code!Listed
<1>6. Stored' /\ Alone'
      /\ Me' = IF files = {} /\ \E f \in Paths : Me.prior[f] # None THEN code!Idle
               ELSE code!Underway(Main, files)
  <2> DEFINE X == IF files = {} /\ \E f \in Paths : Me.prior[f] # None THEN code!Idle
                  ELSE code!Underway(Main, files)
  <2>1. codePass' = [codePass EXCEPT ![Main] = X] BY <1>3
  <2> HIDE DEF X
  <2>2. Stored' /\ Alone' /\ Me' = X
    BY <1>1, <2>1, PassStepKeeps DEF Index, Stored
  <2> QED BY <2>2 DEF X
<1>7. /\ ManifestsFit' /\ CountsSuffice'
      /\ \A f \in Paths, c \in Contents :
            /\ Vouched(f, c)' = Vouched(f, c)
            /\ Folded(f, c)' = Folded(f, c) /\ Stays(f, c)' = Stays(f, c)
  BY <1>1, NothingStored
<1>8. CASE Me' = code!Idle
  <2>2. Me'.pc = "rest" BY <1>8 DEF code!Idle
  <2>3. KnowsOfThePast' BY <1>1, <2>2, KnowsNoMore DEF UnderStages, ScanStages, HandStages
  <2>4. Stages' BY <1>8 DEF Stages
  <2>5. DigestVouches' BY <1>1, <1>7 DEF Index, DigestVouches
  <2>6. PassVouches' /\ Sorted' /\ Held' /\ Emptied' /\ Writing'
    BY <2>2, BeforeFiles DEF Underways, UnderStages, ScanStages, HandStages
  <2> QED BY <1>6, <1>7, <2>3, <2>4, <2>5, <2>6, IndexBy
<1>9. CASE Me' = code!Underway(Main, files)
  <2> DEFINE todo == code!First(FileLimit, files)
  <2>1. todo \in SUBSET files BY DEF code!First
  <2>2. code!RowCounts \in [Paths -> Nat] /\ \A f \in Paths : code!RowCounts[f] = Len(chunks[f])
    BY DEF code!RowCounts, Index, Stored
  <2>3. manifest \in [Paths -> MaybeManifest] /\ None \in MaybeFile
    BY DEF Index, Stored, MaybeManifest, MaybeFile
  <2> HIDE DEF todo
  <2>4. Me' = [pc |-> "files", table |-> TRUE, prior |-> manifest, count |-> code!RowCounts,
               listed |-> files, todo |-> todo, seen |-> {}, folded |-> {}, deferred |-> FALSE,
               file |-> None, rewrite |-> FALSE, plan |-> <<>>, places |-> <<>>, skipped |-> 0,
               intact |-> TRUE]
    BY <1>2, <1>9 DEF code!Underway, todo, Me
  <2>5. Me' \in Underways
    BY <1>4, <2>1, <2>2, <2>3, <2>4 DEF Underways, UnderStages, ScanStages
  <2>6. Stages' BY <2>5 DEF Stages
  <2>7. KnowsOfThePast' BY <1>1, <2>4, KnowsNoMore
  <2>8. DigestVouches' BY <1>1, <1>7 DEF Index, DigestVouches
  <2>9. PassVouches' BY <2>4 DEF PassVouches
  <2>10. Sorted' BY <1>1, <2>1, <2>2, <2>4 DEF Sorted
  <2>11. Held' /\ Emptied' /\ Writing' BY <2>4 DEF Held, Emptied, Writing, HandStages
  <2> QED BY <1>6, <1>7, <2>6, <2>7, <2>8, <2>9, <2>10, <2>11, IndexBy
<1> QED BY <1>6, <1>8, <1>9

-----------------------------------------------------------------------------
LEMMA HandFacts ==
    ASSUME StoresAssumption, Index, Me.pc \in HandStages
    PROVE  /\ Me \in Underways /\ Hand \in Paths /\ Hand \in Me.todo /\ Hand \in Me.seen
           /\ Hand = code!Earliest(Me.todo)
           /\ Me.file \in code!Files /\ Me.file.content \in Contents
           /\ manifest[Hand] = Me.prior[Hand]
           /\ manifest[Hand] # None => /\ manifest[Hand] \in code!Manifests
                                       /\ manifest[Hand].hash \in Contents
                                       /\ manifest[Hand].places \in Seq(Nat)
                                       /\ manifest[Hand].skipped \in Nat
           /\ chunks[Hand] \in Seq(Bodies)
<1>1. Me \in Underways BY AtStage DEF UnderStages, ScanStages
<1>2. Me.todo # {} /\ Me.seen \cap Me.todo = {Hand} /\ manifest[Hand] = Me.prior[Hand] /\ Me.file # None
  BY DEF Index, Held
<1>3. Hand \in Me.todo /\ Hand \in Paths /\ Hand = code!Earliest(Me.todo) BY <1>1, <1>2, HandIsOne
<1>4. Me.file \in code!Files
  <2>1. Me.file \in MaybeFile BY <1>1 DEF Underways
  <2> QED BY <1>2, <2>1 DEF MaybeFile
<1>5. Me.file.content \in Contents BY <1>4 DEF code!Files
<1> QED BY <1>1, <1>2, <1>3, <1>4, <1>5 DEF Index, Stored, code!Manifests

LEMMA CleanSlate ==
    ASSUME NEW r \in Underways, NEW stage \in UnderStages, NEW t \in SUBSET Paths,
           NEW none \in MaybeFile, NEW empty \in Seq(Nat), NEW m,
           m = [r EXCEPT !.pc = stage, !.todo = t, !.file = none, !.rewrite = FALSE,
                         !.plan = empty, !.places = empty, !.skipped = 0, !.intact = TRUE]
    PROVE  m \in Underways
  BY DEF Underways

LEMMA MovedOn ==
    ASSUME NEW r \in Underways, NEW m, m = code!Moved(r)
    PROVE  /\ m \in Underways /\ m.pc = "files" /\ m.table = r.table /\ m.prior = r.prior
           /\ m.count = r.count /\ m.listed = r.listed /\ m.todo = r.todo \ {code!Earliest(r.todo)}
           /\ m.seen = r.seen /\ m.folded = r.folded
           /\ m.places = <<>> /\ m.skipped = 0 /\ m.intact
<1>1. PICK t, none, empty :
        t = r.todo \ {code!Earliest(r.todo)} /\ none = None /\ empty = <<>>
  OBVIOUS
<1>2. m = [r EXCEPT !.pc = "files", !.todo = t, !.file = none, !.rewrite = FALSE, !.plan = empty,
                    !.places = empty, !.skipped = 0, !.intact = TRUE]
  BY <1>1, Zenon DEF code!Moved
<1>3. t \in SUBSET Paths /\ "files" \in UnderStages BY <1>1 DEF Underways, UnderStages, ScanStages
<1>4. none \in MaybeFile /\ empty \in Seq(Nat) BY <1>1 DEF MaybeFile
<1>5. m \in Underways BY <1>2, <1>3, <1>4, CleanSlate
<1>6. /\ m.pc = "files" /\ m.todo = t /\ m.table = r.table /\ m.prior = r.prior
      /\ m.count = r.count /\ m.listed = r.listed /\ m.seen = r.seen /\ m.folded = r.folded
      /\ m.places = empty /\ m.skipped = 0 /\ m.intact
  BY <1>2 DEF Underways
<1> QED BY <1>1, <1>5, <1>6

LEMMA SawOne ==
    ASSUME NEW r \in Underways, NEW f \in Paths, NEW c \in Contents, NEW m, m = code!Saw(r, f, c)
    PROVE  /\ m \in Underways
           /\ m.pc = r.pc /\ m.table = r.table /\ m.prior = r.prior
           /\ m.count = r.count /\ m.listed = r.listed /\ m.todo = r.todo
           /\ m.seen = r.seen \cup {f} /\ m.folded = r.folded \cup {<<f, c>>}
           /\ m.places = r.places /\ m.skipped = r.skipped /\ m.intact = r.intact
<1>1. PICK s, d : s = r.seen \cup {f} /\ d = r.folded \cup {<<f, c>>} OBVIOUS
<1>2. m = [r EXCEPT !.seen = s, !.folded = d] BY <1>1 DEF code!Saw
<1>3. s \in SUBSET Paths /\ d \in SUBSET (Paths \X Contents) BY <1>1 DEF Underways
<1>4. m \in Underways BY <1>2, <1>3 DEF Underways
<1>5. m.seen = s /\ m.folded = d BY <1>2 DEF Underways
<1>6. m.pc = r.pc /\ m.table = r.table /\ m.prior = r.prior
      /\ m.count = r.count /\ m.listed = r.listed /\ m.todo = r.todo
      /\ m.places = r.places /\ m.skipped = r.skipped /\ m.intact = r.intact
  BY <1>2 DEF Underways
<1> QED BY <1>1, <1>2, <1>4, <1>5, <1>6

\* A count that agrees with a manifest that is whole shows that the rows are all there.
LEMMA CountVouches ==
    ASSUME Index, NEW f \in Paths, NEW c \in Contents, Stays(f, c),
           manifest[f] # None, manifest[f].hash = c, manifest[f].skipped = 0,
           Len(chunks[f]) = Len(manifest[f].places)
    PROVE  Vouched(f, c)
<1>1. manifest[f] \in code!Manifests /\ chunks[f] \in Seq(Bodies) BY DEF Index, Stored
<1>2. Len(manifest[f].places) \in Nat BY <1>1 DEF code!Manifests
<1>3. CASE code!Owed(f) BY <1>3 DEF Vouched
<1>4. CASE ~code!Owed(f)
  <2>1. ~(Len(manifest[f].places) < Len(c)) BY <1>4 DEF code!Owed
  <2>2. chunks[f] = c BY <1>4, <2>1 DEF Index, CountsSuffice
  <2> QED BY <2>2 DEF Vouched
<1> QED BY <1>3, <1>4

\* A step from one file to the next that stores nothing.
LEMMA ScanKeepsIndex ==
    ASSUME StoresAssumption, Index, Me.pc \in UnderStages, NEW X \in Underways,
           codePass' = [codePass EXCEPT ![Main] = X],
           UNCHANGED <<manifest, chunks, codeDigest, disk, had, dropped, edits, now>>,
           \A f \in Paths, c \in Contents : <<f, c>> \in X.folded =>
               <<f, c>> \in Me.folded \/ Knows(f, c),
           PassVouches', Sorted', Held', Emptied', Writing'
    PROVE  Index'
<1>1. Me' = X /\ Stored' /\ Alone'
  BY PassStepKeeps DEF Index, Stored
<1>2. X.pc \in UnderStages BY DEF Underways
<1>3. /\ ManifestsFit' /\ CountsSuffice'
      /\ \A f \in Paths, c \in Contents :
            /\ Vouched(f, c)' = Vouched(f, c)
            /\ Folded(f, c)' = Folded(f, c) /\ Stays(f, c)' = Stays(f, c)
  BY NothingStored
<1>4. Stages' BY <1>1 DEF Stages
<1>5. KnowsOfThePast'
  <2> SUFFICES ASSUME NEW f \in Paths, NEW c \in Contents, Knows(f, c)'
               PROVE  Stands(f, c)' \/ c \in had'[f]
    BY DEF KnowsOfThePast
  <2>1. Knows(f, c) BY <1>1, <1>3 DEF Knows, Stands
  <2>2. Stands(f, c) \/ c \in had[f] BY <2>1 DEF Index, KnowsOfThePast
  <2> QED BY <2>2 DEF Stands
<1>6. DigestVouches' BY <1>3 DEF Index, DigestVouches
<1> QED BY <1>1, <1>3, <1>4, <1>5, <1>6, IndexBy

LEMMA OutOfTimeKeepsIndex ==
    ASSUME StoresAssumption, Index, code!OutOfTime(Main)
    PROVE  Index'
<1>1. /\ UNCHANGED <<manifest, chunks, codeDigest, disk, had, dropped, edits, now>>
      /\ Me.pc = "files"
      /\ codePass' = [codePass EXCEPT ![Main] = [Me EXCEPT !.todo = {}, !.deferred = TRUE]]
  BY DEF code!OutOfTime, code!derived, code!schema, code!tree, code!Doing, code!Strikes, Me
<1>2. Me \in Underways /\ Me.pc \in UnderStages BY <1>1, AtStage DEF UnderStages, ScanStages
<1> DEFINE X == [Me EXCEPT !.todo = {}, !.deferred = TRUE]
<1>3. /\ X \in Underways /\ X.pc = "files" /\ X.todo = {} /\ X.seen = Me.seen
      /\ X.folded = Me.folded /\ X.listed = Me.listed /\ X.prior = Me.prior /\ X.count = Me.count
      /\ X.places = <<>> /\ X.skipped = 0 /\ X.intact
  <2>1. Me.places = <<>> /\ Me.skipped = 0 /\ Me.intact BY <1>1 DEF Index, Emptied
  <2> QED BY <1>1, <1>2, <2>1 DEF Underways
<1>4. codePass' = [codePass EXCEPT ![Main] = X] BY <1>1
<1> HIDE DEF X
<1>5. Me' = X BY <1>1, <1>4, PassStepKeeps DEF Index, Stored
<1>6. \A f \in Paths, c \in Contents :
            /\ Vouched(f, c)' = Vouched(f, c) /\ Stays(f, c)' = Stays(f, c)
  BY <1>1, NothingStored
<1>7. PassVouches' BY <1>1, <1>2, <1>3, <1>5, <1>6 DEF Index, PassVouches, InHand, HandStages
<1>8. Sorted' BY <1>1, <1>2, <1>3, <1>5 DEF Index, Sorted, ScanStages
<1>9. Held' /\ Emptied' /\ Writing' BY <1>3, <1>5 DEF Held, Emptied, Writing, HandStages
<1> QED BY <1>1, <1>2, <1>3, <1>4, <1>7, <1>8, <1>9, ScanKeepsIndex

LEMMA TurnOf ==
    ASSUME NEW r \in Underways, NEW stage \in UnderStages, NEW m, m = [r EXCEPT !.pc = stage]
    PROVE  /\ m \in Underways /\ m.pc = stage /\ m.table = r.table /\ m.prior = r.prior
           /\ m.count = r.count /\ m.listed = r.listed /\ m.todo = r.todo
           /\ m.seen = r.seen /\ m.folded = r.folded /\ m.file = r.file /\ m.rewrite = r.rewrite
           /\ m.plan = r.plan /\ m.places = r.places /\ m.skipped = r.skipped /\ m.intact = r.intact
  BY DEF Underways

\* A file of the recorded time and size is folded with the recorded content; where it has
\* another, the digest is not that of the tree.
LEMMA StatFileKeeps ==
    ASSUME StoresAssumption, Index, code!StatFile(Main)
    PROVE  Index'
<1>1. /\ UNCHANGED <<manifest, chunks, codeDigest, disk, had, dropped, edits, now>>
      /\ Me.pc = "files" /\ Me.todo # {}
  BY DEF code!StatFile, code!derived, code!schema, code!tree, code!Doing, Me
<1>2. Me \in Underways /\ Me.pc \in UnderStages BY <1>1, AtStage DEF UnderStages, ScanStages
<1>3. Hand \in Me.todo /\ Hand \in Paths /\ Hand = code!Earliest(Me.todo) BY <1>1, <1>2, HandIsOne
<1>4. \A f \in Paths, c \in Contents :
            /\ Vouched(f, c)' = Vouched(f, c) /\ Stays(f, c)' = Stays(f, c)
  BY <1>1, NothingStored
<1>5. Hand \notin Me.seen /\ manifest[Hand] = Me.prior[Hand] /\ Me.count[Hand] = Len(chunks[Hand])
  BY <1>1, <1>3 DEF Index, Sorted, ScanStages
<1>6. CASE code!Untouched(Main)
  <2>1. /\ manifest[Hand] # None
        /\ manifest[Hand].skipped = 0 /\ Len(chunks[Hand]) = Len(manifest[Hand].places)
    BY <1>5, <1>6 DEF code!Untouched, code!Complete, code!PriorOf, Hand, Me
  <2>2. PICK c : c = manifest[Hand].hash OBVIOUS
  <2>3. c \in Contents BY <1>3, <2>1, <2>2 DEF Index, Stored, code!Manifests
  <2>4. Knows(Hand, c) BY <2>1, <2>2 DEF Knows
  <2>5. Stays(Hand, c) => Vouched(Hand, c) BY <1>3, <2>1, <2>2, <2>3, CountVouches
  <2>6. PICK m : m = code!Saw(Me, Hand, c) OBVIOUS
  <2>7. PICK X : X = code!Moved(m) OBVIOUS
  <2>8. codePass' = [codePass EXCEPT ![Main] = X]
    BY <1>5, <1>6, <2>2, <2>6, <2>7 DEF code!StatFile, code!Becomes, code!PriorOf, Hand, Me
  <2>9. /\ m \in Underways /\ m.prior = Me.prior /\ m.count = Me.count
        /\ m.listed = Me.listed /\ m.todo = Me.todo
        /\ m.seen = Me.seen \cup {Hand} /\ m.folded = Me.folded \cup {<<Hand, c>>}
    <3>1. PICK f \in Paths : f = Hand BY <1>3
    <3> QED BY <1>2, <2>3, <2>6, <3>1, SawOne
  <2>10. /\ X \in Underways /\ X.pc = "files" /\ X.prior = Me.prior /\ X.count = Me.count
         /\ X.listed = Me.listed /\ X.todo = Me.todo \ {Hand}
         /\ X.seen = Me.seen \cup {Hand} /\ X.folded = Me.folded \cup {<<Hand, c>>}
         /\ X.places = <<>> /\ X.skipped = 0 /\ X.intact
    BY <1>3, <2>7, <2>9, MovedOn
  <2>11. Me' = X BY <1>1, <2>8, PassStepKeeps DEF Index, Stored
  <2>12. PassVouches'
    <3> SUFFICES ASSUME NEW f \in Paths, NEW d \in Contents, <<f, d>> \in X.folded, Stays(f, d)
                 PROVE  Vouched(f, d)
      BY <2>11, <1>4 DEF PassVouches
    <3>1. CASE <<f, d>> \in Me.folded
      BY <3>1, <1>1, <1>2 DEF Index, PassVouches, InHand, HandStages
    <3>2. CASE <<f, d>> = <<Hand, c>> BY <3>2, <2>5
    <3> QED BY <3>1, <3>2, <2>10
  <2>13. Sorted' BY <1>1, <1>2, <1>3, <2>10, <2>11 DEF Index, Sorted, ScanStages
  <2>14. Held' /\ Emptied' /\ Writing' BY <2>10, <2>11 DEF Held, Emptied, Writing, HandStages
  <2>15. \A f \in Paths, d \in Contents : <<f, d>> \in X.folded =>
               <<f, d>> \in Me.folded \/ Knows(f, d)
    BY <2>4, <2>10
  <2> QED BY <1>1, <1>2, <2>8, <2>10, <2>12, <2>13, <2>14, <2>15, ScanKeepsIndex
<1>7. CASE ~code!Untouched(Main)
  <2>1. PICK X : X = [Me EXCEPT !.pc = "read"] OBVIOUS
  <2>2. codePass' = [codePass EXCEPT ![Main] = X]
    BY <1>7, <2>1 DEF code!StatFile, code!Turn, Me
  <2>3. /\ X \in Underways /\ X.pc = "read" /\ X.prior = Me.prior /\ X.count = Me.count
        /\ X.listed = Me.listed /\ X.todo = Me.todo /\ X.seen = Me.seen /\ X.folded = Me.folded
        /\ X.places = <<>> /\ X.skipped = 0 /\ X.intact
    <3>1. Me.places = <<>> /\ Me.skipped = 0 /\ Me.intact BY <1>1 DEF Index, Emptied
    <3> QED BY <1>2, <2>1, <3>1, TurnOf DEF UnderStages, ScanStages
  <2>4. Me' = X BY <1>1, <2>2, PassStepKeeps DEF Index, Stored
  <2>5. PassVouches' BY <1>1, <1>2, <1>4, <2>3, <2>4 DEF Index, PassVouches, InHand, HandStages
  <2>6. Sorted' BY <1>1, <1>2, <2>3, <2>4 DEF Index, Sorted, ScanStages
  <2>7. Held' /\ Emptied' /\ Writing' BY <2>3, <2>4 DEF Held, Emptied, Writing, HandStages
  <2> QED BY <1>1, <1>2, <2>2, <2>3, <2>5, <2>6, <2>7, ScanKeepsIndex
<1> QED BY <1>6, <1>7

LEMMA ReadFileKeeps ==
    ASSUME StoresAssumption, Index, code!ReadFile(Main)
    PROVE  Index'
<1>1. /\ UNCHANGED <<manifest, chunks, codeDigest, disk, had, dropped, edits, now>>
      /\ Me.pc = "read"
  BY DEF code!ReadFile, code!derived, code!schema, code!tree, code!Doing, Me
<1>2. Me \in Underways /\ Me.pc \in UnderStages BY <1>1, AtStage DEF UnderStages, ScanStages
<1>3. Hand \in Me.todo /\ Hand \in Paths /\ Hand = code!Earliest(Me.todo)
  BY <1>1, <1>2, HandIsOne DEF Index, Sorted
<1>4. \A f \in Paths, c \in Contents :
            /\ Vouched(f, c)' = Vouched(f, c) /\ Stays(f, c)' = Stays(f, c)
            /\ Folded(f, c)' = Folded(f, c)
  BY <1>1, NothingStored
<1>5. Hand \notin Me.seen /\ manifest[Hand] = Me.prior[Hand] /\ Me.count[Hand] = Len(chunks[Hand])
  BY <1>1, <1>3 DEF Index, Sorted, ScanStages
<1>6. CASE disk[Hand] = None \/ ~code!Small(Hand)
  <2>1. PICK X : X = code!Moved(Me) OBVIOUS
  <2>2. codePass' = [codePass EXCEPT ![Main] = X]
    BY <1>6, <2>1 DEF code!ReadFile, code!Becomes, Hand, Me
  <2>3. /\ X \in Underways /\ X.pc = "files" /\ X.prior = Me.prior /\ X.count = Me.count
        /\ X.listed = Me.listed /\ X.todo = Me.todo \ {Hand}
        /\ X.seen = Me.seen /\ X.folded = Me.folded
        /\ X.places = <<>> /\ X.skipped = 0 /\ X.intact
    BY <1>2, <1>3, <2>1, MovedOn
  <2>4. Me' = X BY <1>1, <2>2, PassStepKeeps DEF Index, Stored
  <2>5. PassVouches' BY <1>1, <1>2, <1>4, <2>3, <2>4 DEF Index, PassVouches, InHand, HandStages
  <2>6. Sorted' BY <1>1, <1>2, <2>3, <2>4 DEF Index, Sorted, ScanStages
  <2>7. Held' /\ Emptied' /\ Writing' BY <2>3, <2>4 DEF Held, Emptied, Writing, HandStages
  <2> QED BY <1>1, <1>2, <2>2, <2>3, <2>5, <2>6, <2>7, ScanKeepsIndex
<1>7. CASE disk[Hand] # None /\ code!Small(Hand)
  <2>1. PICK c : c = disk[Hand].content OBVIOUS
  <2>2. disk[Hand] \in code!Files /\ c \in Contents
    BY <1>3, <1>7, <2>1 DEF Index, Stored, code!Files
  <2>3. PICK m : m = code!Saw(Me, Hand, c) OBVIOUS
  <2>4. PICK X : X = [m EXCEPT !.pc = "stat", !.file = disk[Hand]] OBVIOUS
  <2>5. codePass' = [codePass EXCEPT ![Main] = X]
    BY <1>7, <2>1, <2>3, <2>4 DEF code!ReadFile, code!Becomes, Hand, Me
  <2>6. /\ m \in Underways /\ m.prior = Me.prior /\ m.count = Me.count
        /\ m.listed = Me.listed /\ m.todo = Me.todo
        /\ m.seen = Me.seen \cup {Hand} /\ m.folded = Me.folded \cup {<<Hand, c>>}
        /\ m.places = Me.places /\ m.skipped = Me.skipped /\ m.intact = Me.intact
    <3>1. PICK f \in Paths : f = Hand BY <1>3
    <3> QED BY <1>2, <2>2, <2>3, <3>1, SawOne
  <2>7. /\ X \in Underways /\ X.pc = "stat" /\ X.prior = Me.prior /\ X.count = Me.count
        /\ X.listed = Me.listed /\ X.todo = Me.todo /\ X.file = disk[Hand]
        /\ X.seen = Me.seen \cup {Hand} /\ X.folded = Me.folded \cup {<<Hand, c>>}
    <3>1. "stat" \in UnderStages BY DEF UnderStages, ScanStages, HandStages
    <3>2. disk[Hand] \in MaybeFile BY <2>2 DEF MaybeFile
    <3> QED BY <2>4, <2>6, <3>1, <3>2 DEF Underways
  <2>8. Me' = X BY <1>1, <2>5, PassStepKeeps DEF Index, Stored
  <2>9. Hand' = Hand BY <1>3, <2>7, <2>8 DEF Hand, code!Current, Me
  <2>10. PassVouches'
    <3> SUFFICES ASSUME NEW f \in Paths, NEW d \in Contents, <<f, d>> \in X.folded, Stays(f, d)
                 PROVE  f = Hand \/ Vouched(f, d)
      BY <2>7, <2>8, <2>9, <1>4 DEF PassVouches, InHand, HandStages
    <3>1. CASE <<f, d>> \in Me.folded
      BY <3>1, <1>1, <1>2 DEF Index, PassVouches, InHand, HandStages
    <3> QED BY <3>1, <2>7
  <2>11. Sorted' BY <1>1, <1>2, <1>3, <2>7, <2>8 DEF Index, Sorted, ScanStages
  <2>12. Held'
    <3>1. X.seen \cap X.todo = {Hand} /\ X.todo # {} BY <1>1, <1>3, <2>7 DEF Index, Sorted
    <3>2. \A d \in X.folded : d[1] = Hand => d[2] = c
      BY <1>2, <1>5, <2>7 DEF Index, Sorted
    <3>3. \A d \in Contents : Stays(Hand, d) => d = c BY <2>1 DEF Stays
    <3>4. X.file # None /\ X.file.content = c BY <1>7, <2>1, <2>7
    <3>5. <<Hand, c>> \in X.folded BY <2>7
    <3> QED BY <1>1, <1>3, <1>4, <1>5, <2>7, <2>8, <2>9, <3>1, <3>2, <3>3, <3>4, <3>5 DEF Held, Stays
  <2>13. Emptied' /\ Writing'
    <3>1. Me.places = <<>> /\ Me.skipped = 0 /\ Me.intact BY <1>1 DEF Index, Emptied
    <3>2. X.places = <<>> /\ X.skipped = 0 /\ X.intact BY <1>2, <2>4, <2>6, <3>1 DEF Underways
    <3> QED BY <1>1, <1>5, <2>7, <2>8, <2>9, <3>2 DEF Emptied, Writing
  <2>14. \A f \in Paths, d \in Contents : <<f, d>> \in X.folded =>
               <<f, d>> \in Me.folded \/ Knows(f, d)
    BY <1>7, <2>1, <2>7 DEF Knows, Stands
  <2> QED BY <1>1, <1>2, <2>5, <2>7, <2>10, <2>11, <2>12, <2>13, <2>14, ScanKeepsIndex
<1> QED BY <1>6, <1>7

LEMMA SameIs ==
    /\ code!SameContent(Main) \in BOOLEAN
    /\ code!SameContent(Main) <=> /\ Me.prior[Hand] # None /\ Me.prior[Hand].skipped = 0
                                  /\ Me.prior[Hand].hash = Me.file.content
    /\ code!Complete(Main) <=> /\ Me.prior[Hand].skipped = 0 /\ Me.table
                               /\ Me.count[Hand] = Len(Me.prior[Hand].places)
  BY DEF code!SameContent, code!Complete, code!PriorOf, Me, Hand

LEMMA CompareKeeps ==
    ASSUME StoresAssumption, Index, code!Compare(Main)
    PROVE  Index'
<1>1. /\ UNCHANGED <<manifest, chunks, codeDigest, disk, had, dropped, edits, now>>
      /\ Me.pc = "stat"
  BY DEF code!Compare, code!derived, code!schema, code!tree, code!Doing, Me
<1>2. Me.pc \in HandStages /\ Me.pc \in UnderStages BY <1>1 DEF UnderStages, ScanStages, HandStages
<1>3. /\ Me \in Underways /\ Hand \in Paths /\ Hand \in Me.todo /\ Hand \in Me.seen
      /\ Hand = code!Earliest(Me.todo)
      /\ Me.file \in code!Files /\ Me.file.content \in Contents
      /\ manifest[Hand] = Me.prior[Hand]
  BY <1>2, HandFacts
<1>4. \A f \in Paths, c \in Contents :
            /\ Vouched(f, c)' = Vouched(f, c) /\ Stays(f, c)' = Stays(f, c)
            /\ Folded(f, c)' = Folded(f, c)
  BY <1>1, NothingStored
<1>5. /\ Me.count[Hand] = Len(chunks[Hand]) /\ Me.seen \cap Me.todo = {Hand}
      /\ \A d \in Me.folded : d[1] = Hand => d[2] = Me.file.content
      /\ Me.places = <<>> /\ Me.skipped = 0 /\ Me.intact
  BY <1>1, <1>2 DEF Index, Emptied, Held
<1>6. PICK same \in BOOLEAN : same <=> code!SameContent(Main) OBVIOUS
<1>7. CASE same /\ code!Complete(Main)
  <2>1. PICK X : X = code!Moved(Me) OBVIOUS
  <2>2. codePass' = [codePass EXCEPT ![Main] = X]
    BY <1>6, <1>7, <2>1 DEF code!Compare, code!Becomes, Me
  <2>3. /\ X \in Underways /\ X.pc = "files" /\ X.prior = Me.prior /\ X.count = Me.count
        /\ X.listed = Me.listed /\ X.todo = Me.todo \ {Hand}
        /\ X.seen = Me.seen /\ X.folded = Me.folded
        /\ X.places = <<>> /\ X.skipped = 0 /\ X.intact
    BY <1>3, <2>1, MovedOn
  <2>4. Me' = X BY <1>1, <2>2, PassStepKeeps DEF Index, Stored
  <2>5. /\ manifest[Hand] # None /\ manifest[Hand].hash = Me.file.content
        /\ manifest[Hand].skipped = 0 /\ Len(chunks[Hand]) = Len(manifest[Hand].places)
    BY <1>3, <1>5, <1>6, <1>7, SameIs
  <2>6. PassVouches'
    <3> SUFFICES ASSUME NEW f \in Paths, NEW d \in Contents, <<f, d>> \in X.folded, Stays(f, d)
                 PROVE  Vouched(f, d)
      BY <2>4, <1>4 DEF PassVouches
    <3>1. CASE f = Hand
      <4>1. d = Me.file.content BY <3>1, <1>5, <2>3
      <4> QED BY <3>1, <4>1, <1>3, <2>5, CountVouches
    <3>2. CASE f # Hand BY <3>2, <1>2, <2>3 DEF Index, PassVouches, InHand
    <3> QED BY <3>1, <3>2
  <2>7. Sorted' BY <1>1, <1>2, <1>3, <1>5, <2>3, <2>4 DEF Index, Sorted, ScanStages
  <2>8. Held' /\ Emptied' /\ Writing' BY <2>3, <2>4 DEF Held, Emptied, Writing, HandStages
  <2> QED BY <1>1, <1>2, <2>2, <2>3, <2>6, <2>7, <2>8, ScanKeepsIndex
<1>8. CASE ~(same /\ code!Complete(Main))
  <2>1. PICK mtime \in Nat : mtime = IF disk[Hand] = None THEN 0 ELSE disk[Hand].mtime
    BY <1>3 DEF Index, Stored, code!Files
  <2>2. PICK file : file = [Me.file EXCEPT !.mtime = mtime] OBVIOUS
  <2>3. file \in code!Files /\ file.content = Me.file.content BY <1>3, <2>2 DEF code!Files
  <2>4. PICK X : X = [Me EXCEPT !.pc = "forget", !.file = file, !.rewrite = same] OBVIOUS
  <2>5. codePass' = [codePass EXCEPT ![Main] = X]
    <3>1. codePass' = [codePass EXCEPT ![Main] = [Me EXCEPT !.pc = "forget", !.file.mtime = mtime,
                                                            !.rewrite = same]]
      <4>1. same = code!SameContent(Main) BY <1>6, SameIs
      <4>2. ~(code!SameContent(Main) /\ code!Complete(Main)) BY <1>6, <1>8
      <4>3. codePass' = [codePass EXCEPT ![Main] =
                IF code!SameContent(Main) /\ code!Complete(Main) THEN code!Moved(Me)
                ELSE [Me EXCEPT !.pc = "forget",
                        !.file.mtime = (IF disk[Hand] = None THEN 0 ELSE disk[Hand].mtime),
                        !.rewrite = code!SameContent(Main)]]
        BY Zenon DEF code!Compare, code!Becomes, Me, Hand
      <4> QED BY <4>1, <4>2, <4>3, <2>1, Zenon
    <3> QED BY <2>2, <2>4, <3>1
  <2>6. /\ X \in Underways /\ X.pc = "forget" /\ X.prior = Me.prior /\ X.count = Me.count
        /\ X.listed = Me.listed /\ X.todo = Me.todo /\ X.file = file /\ X.rewrite = same
        /\ X.seen = Me.seen /\ X.folded = Me.folded /\ X.table = Me.table
        /\ X.places = <<>> /\ X.skipped = 0 /\ X.intact
    <3>1. "forget" \in UnderStages BY DEF UnderStages, ScanStages, HandStages
    <3>2. file \in MaybeFile /\ same \in BOOLEAN BY <1>5, <2>3 DEF MaybeFile
    <3>3. Me \in Underways /\ Me.places = <<>> /\ Me.skipped = 0 /\ Me.intact BY <1>3, <1>5
    <3> QED BY <2>4, <3>1, <3>2, <3>3 DEF Underways
  <2>7. Me' = X BY <1>1, <2>5, PassStepKeeps DEF Index, Stored
  <2>8. Hand' = Hand BY <1>3, <2>6, <2>7 DEF Hand, code!Current, Me
  <2>9. PassVouches'
    BY <1>2, <1>4, <2>6, <2>7, <2>8 DEF Index, PassVouches, InHand, HandStages
  <2>10. Sorted' BY <1>1, <1>2, <2>6, <2>7 DEF Index, Sorted, ScanStages, HandStages
  <2>11. Held'
    <3>1. file # None BY <2>3, Consts
    <3> QED BY <1>1, <1>2, <1>3, <1>4, <2>3, <2>6, <2>7, <2>8, <3>1 DEF Index, Held, Stays, Folded
  <2>12. Emptied'
    <3>1. code!SameContent(Main)' <=> code!SameContent(Main)
      BY <2>3, <2>6, <2>7, <2>8, SameIs DEF code!SameContent, code!PriorOf, Me, Hand
    <3>2. code!SameContent(Main)' \in BOOLEAN BY DEF code!SameContent
    <3>3. code!Complete(Main)' <=> code!Complete(Main)
      BY <2>6, <2>7, <2>8, SameIs DEF code!Complete, code!PriorOf, Me, Hand
    <3> QED BY <1>1, <1>5, <1>6, <1>8, <2>6, <2>7, <2>8, <3>1, <3>2, <3>3 DEF Emptied
  <2>13. Writing' BY <2>6, <2>7 DEF Writing
  <2> QED BY <1>1, <1>2, <2>5, <2>6, <2>9, <2>10, <2>11, <2>12, <2>13, ScanKeepsIndex
<1> QED BY <1>7, <1>8

-----------------------------------------------------------------------------
\* The parts of the invariant at one file, and what a step on the file in hand has to
\* show of that file.
FitsAt(f) ==
    manifest[f] # None =>
        /\ Len(manifest[f].places) <= Len(manifest[f].hash)
        /\ manifest[f].skipped = 0 => manifest[f].places = code!Upto(Len(manifest[f].places))
SufficesAt(f) ==
    ~code!Owed(f) /\ Stays(f, manifest[f].hash) =>
        Len(chunks[f]) < Len(manifest[f].hash) \/ chunks[f] = manifest[f].hash
DigestVouchesAt(f) ==
    ~dropped => \A c \in Contents : Folded(f, c) /\ Stays(f, c) => Vouched(f, c)
PassVouchesAt(f) ==
    \A c \in Contents : <<f, c>> \in Me.folded /\ Stays(f, c) => InHand(f) \/ Vouched(f, c)

LEMMA HandStepKeeps ==
    ASSUME StoresAssumption, Index, Me.pc \in HandStages,
           NEW X \in Underways, X.folded = Me.folded, X.pc \in ScanStages,
           codePass' = [codePass EXCEPT ![Main] = X],
           manifest' \in [Paths -> code!Manifests \cup {None}],
           chunks' \in [Paths -> Seq(Bodies)],
           UNCHANGED <<codeDigest, disk, had, dropped, edits, now>>,
           NEW h \in Paths, h = Hand,
           \A f \in Paths : f # h => manifest'[f] = manifest[f] /\ chunks'[f] = chunks[f],
           manifest'[h] # None => \/ manifest[h] # None /\ manifest'[h].hash = manifest[h].hash
                                 \/ manifest'[h].hash = Me.file.content,
           FitsAt(h)', SufficesAt(h)', DigestVouchesAt(h)', PassVouchesAt(h)',
           Sorted', Held', Emptied', Writing'
    PROVE  Index'
<1>1. Me' = X /\ Stored' /\ Alone'
  BY PassStepKeeps DEF Index, Stored
<1>2. X.pc \in UnderStages /\ Me.pc \in UnderStages BY DEF UnderStages, ScanStages
<1>3. \A f \in Paths : f # h => code!Owed(f)' = code!Owed(f) BY DEF code!Owed
<1>4. \A f \in Paths, c \in Contents : Stays(f, c)' = Stays(f, c) /\ Folded(f, c)' = Folded(f, c)
  BY DEF Stays, Folded
<1>5. \A f \in Paths, c \in Contents : f # h => Vouched(f, c)' = Vouched(f, c)
  BY <1>3 DEF Vouched
<1>6. Stages' BY <1>1 DEF Stages
<1>7. KnowsOfThePast'
  <2> SUFFICES ASSUME NEW f \in Paths, NEW c \in Contents, Knows(f, c)'
               PROVE  Stands(f, c)' \/ c \in had'[f]
    BY DEF KnowsOfThePast
  <2>1. <<h, Me.file.content>> \in Me.folded BY DEF Index, Held
  <2>2. Knows(f, c) BY <1>1, <1>2, <1>4, <2>1 DEF Knows, Stands
  <2>3. Stands(f, c) \/ c \in had[f] BY <2>2 DEF Index, KnowsOfThePast
  <2> QED BY <2>3 DEF Stands
<1>8. ManifestsFit'
  <2> SUFFICES ASSUME NEW f \in Paths PROVE FitsAt(f)' BY DEF ManifestsFit, FitsAt
  <2>1. CASE f = h BY <2>1
  <2>2. CASE f # h BY <2>2 DEF FitsAt, Index, ManifestsFit
  <2> QED BY <2>1, <2>2
<1>9. CountsSuffice'
  <2> SUFFICES ASSUME NEW f \in Paths PROVE SufficesAt(f)' BY DEF CountsSuffice, SufficesAt
  <2>1. CASE f = h BY <2>1
  <2>2. CASE f # h
    <3>1. CountsSuffice BY DEF Index
    <3>2. manifest'[f] = manifest[f] /\ chunks'[f] = chunks[f] /\ code!Owed(f)' = code!Owed(f)
      BY <2>2, <1>3
    <3> QED BY <3>1, <3>2 DEF SufficesAt, CountsSuffice, Stays
  <2> QED BY <2>1, <2>2
<1>10. DigestVouches'
  <2> SUFFICES ASSUME NEW f \in Paths PROVE DigestVouchesAt(f)' BY DEF DigestVouches, DigestVouchesAt
  <2>1. CASE f = h BY <2>1
  <2>2. CASE f # h
    <3>2. DigestVouchesAt(f) BY DEF Index, DigestVouches, DigestVouchesAt
    <3> QED BY <2>2, <3>2, <1>4, <1>5 DEF DigestVouchesAt
  <2> QED BY <2>1, <2>2
<1>11. PassVouches'
  <2> SUFFICES ASSUME NEW f \in Paths PROVE PassVouchesAt(f)' BY DEF PassVouches, PassVouchesAt
  <2>1. CASE f = h BY <2>1
  <2>2. CASE f # h
    <3>1. \A c \in Contents : <<f, c>> \in Me.folded /\ Stays(f, c) => Vouched(f, c)
      BY <2>2, <1>2 DEF Index, PassVouches, InHand
    <3> QED BY <2>2, <3>1, <1>1, <1>4, <1>5 DEF PassVouchesAt
  <2> QED BY <2>1, <2>2
<1> QED BY <1>1, <1>6, <1>7, <1>8, <1>9, <1>10, <1>11, IndexBy

\* Rows that the digest vouches for are not given up for the same content.
LEMMA OnlyOwedAreForgotten ==
    ASSUME StoresAssumption, Index, Me.pc = "forget", ~dropped,
           NEW c \in Contents, Folded(Hand, c), Stays(Hand, c)
    PROVE  code!Owed(Hand)
<1>1. Me.pc \in HandStages BY DEF HandStages
<1>2. PICK h \in Paths : h = Hand BY <1>1, HandFacts
<1>3. /\ Me \in Underways /\ manifest[h] = Me.prior[h] /\ chunks[h] \in Seq(Bodies)
      /\ manifest[h] # None => /\ manifest[h].places \in Seq(Nat) /\ manifest[h].skipped \in Nat
  BY <1>1, <1>2, HandFacts
<1>4. Me.rewrite = code!SameContent(Main) /\ ~(Me.rewrite /\ code!Complete(Main))
      /\ Me.count[h] = Len(chunks[h])
  BY <1>2 DEF Index, Emptied
<1>5. SUFFICES ASSUME ~code!Owed(h) PROVE FALSE BY <1>2
<1>6. /\ manifest[h] # None /\ manifest[h].skipped = 0
      /\ ~(Len(manifest[h].places) < Len(manifest[h].hash))
  BY <1>3, <1>5 DEF code!Owed
<1>7. Vouched(h, c) BY <1>2 DEF Index, DigestVouches
<1>8. manifest[h].hash = c /\ chunks[h] = c BY <1>5, <1>7 DEF Vouched
<1>9. c = Me.file.content BY <1>1, <1>2, <1>6, <1>8 DEF Index, Held
<1>10. code!SameContent(Main) BY <1>2, <1>3, <1>6, <1>8, <1>9, SameIs
<1>11. Len(manifest[h].places) = Len(chunks[h])
  <2>1. Len(manifest[h].places) <= Len(manifest[h].hash) BY <1>2, <1>6 DEF Index, ManifestsFit
  <2>2. Len(c) \in Nat /\ Len(manifest[h].places) \in Nat BY <1>3, <1>6, Consts
  <2> QED BY <2>1, <2>2, <1>6, <1>8
<1>12. Me.table BY <1>3 DEF Underways
<1>13. code!Complete(Main) BY <1>2, <1>3, <1>4, <1>6, <1>11, <1>12, SameIs
<1> QED BY <1>4, <1>10, <1>13

LEMMA ForgetKeeps ==
    ASSUME StoresAssumption, Index, code!Forget(Main)
    PROVE  Index'
<1>1. /\ UNCHANGED <<manifest, codeDigest, disk, had, dropped, edits, now>>
      /\ Me.pc = "forget"
  BY DEF code!Forget, code!derived, code!schema, code!tree, code!Doing, Me
<1>2. Me.pc \in HandStages /\ Me.pc \in UnderStages BY <1>1 DEF UnderStages, ScanStages, HandStages
<1>3. PICK h \in Paths : h = Hand BY <1>2, HandFacts
<1>4. /\ Me \in Underways /\ h \in Me.todo /\ h \in Me.seen /\ h = code!Earliest(Me.todo)
      /\ Me.file \in code!Files /\ Me.file.content \in Contents /\ manifest[h] = Me.prior[h]
      /\ manifest[h] # None => /\ manifest[h] \in code!Manifests /\ manifest[h].hash \in Contents
                               /\ manifest[h].places \in Seq(Nat) /\ manifest[h].skipped \in Nat
  BY <1>2, <1>3, HandFacts
<1>5. /\ Me.rewrite = code!SameContent(Main)
      /\ Me.places = <<>> /\ Me.skipped = 0 /\ Me.intact
  BY <1>1 DEF Index, Emptied
<1>6. chunks' = [chunks EXCEPT ![h] = <<>>]
  <2>1. codePass[Main].table BY <1>4 DEF Underways, Me
  <2> QED BY <2>1, <1>3 DEF code!Forget, Hand
<1>7. /\ chunks' \in [Paths -> Seq(Bodies)] /\ chunks'[h] = <<>>
      /\ \A f \in Paths : f # h => chunks'[f] = chunks[f]
  BY <1>3, <1>6 DEF Index, Stored
<1>8. code!Owed(h)' = code!Owed(h) BY <1>1 DEF code!Owed
<1>9. FitsAt(h)' BY <1>1 DEF FitsAt, Index, ManifestsFit
<1>10. SufficesAt(h)'
  <2> SUFFICES ASSUME NEW c, c = manifest[h].hash, ~code!Owed(h)
               PROVE  Len(chunks'[h]) < Len(c) \/ chunks'[h] = c
    BY <1>1, <1>8 DEF SufficesAt
  <2>1. c \in Contents BY <1>4 DEF code!Owed
  <2>2. c \in Seq(Bodies) BY <2>1, Consts
  <2> QED BY <2>2, <1>7
<1>11. \A c \in Contents : ~dropped /\ Folded(h, c) /\ Stays(h, c) => code!Owed(h)
  BY <1>1, <1>3, OnlyOwedAreForgotten
<1>12. PICK X : X = IF Me.rewrite THEN [Me EXCEPT !.pc = "write", !.plan = Me.prior[h].places]
                    ELSE [Me EXCEPT !.pc = "extract"]
  OBVIOUS
<1>13. codePass' = [codePass EXCEPT ![Main] = X]
  BY <1>3, <1>12 DEF code!Forget, code!Turn, code!PriorOf, Me, Hand
<1>14. Me.rewrite => /\ manifest[h] # None /\ manifest[h].hash = Me.file.content
                     /\ manifest[h].skipped = 0 /\ manifest[h].places \in Seq(Nat)
  BY <1>3, <1>4, <1>5, SameIs
<1>15. /\ X \in Underways /\ X.prior = Me.prior /\ X.count = Me.count
       /\ X.listed = Me.listed /\ X.todo = Me.todo /\ X.file = Me.file /\ X.rewrite = Me.rewrite
       /\ X.seen = Me.seen /\ X.folded = Me.folded
       /\ X.places = <<>> /\ X.skipped = 0 /\ X.intact
       /\ X.pc = IF Me.rewrite THEN "write" ELSE "extract"
       /\ Me.rewrite => X.plan = manifest[h].places
  <2>1. {"write", "extract"} \subseteq UnderStages BY DEF UnderStages, ScanStages, HandStages
  <2>2. CASE Me.rewrite BY <2>1, <2>2, <1>4, <1>5, <1>12, <1>14 DEF Underways
  <2>3. CASE ~Me.rewrite BY <2>1, <2>3, <1>4, <1>5, <1>12 DEF Underways
  <2> QED BY <2>2, <2>3
<1>16. Me' = X BY <1>1, <1>7, <1>13, PassStepKeeps DEF Index, Stored
<1>17. X.pc \in HandStages /\ X.pc \in ScanStages /\ X.pc \in {"extract", "write"}
  BY <1>15 DEF HandStages, ScanStages
<1>18. Hand' = h BY <1>3, <1>4, <1>15, <1>16 DEF Hand, code!Current, Me
<1>19. dropped' = dropped BY <1>1
<1>20. \A c \in Contents : Folded(h, c)' = Folded(h, c) /\ Stays(h, c)' = Stays(h, c)
  BY <1>1 DEF Folded, Stays
<1>21. DigestVouchesAt(h)' BY <1>8, <1>11, <1>19, <1>20 DEF DigestVouchesAt, Vouched
<1>22. PassVouchesAt(h)' BY <1>16, <1>17, <1>18 DEF PassVouchesAt, InHand
<1>23. Sorted'
  <2>1. /\ Me.seen \subseteq Me.listed /\ Me.todo \subseteq Me.listed
        /\ \A d \in Me.folded : d[1] \in Me.seen
    BY <1>2 DEF Index, Sorted
  <2>2. \A f \in Paths \ Me.seen : manifest[f] = Me.prior[f] /\ Me.count[f] = Len(chunks[f])
    BY <1>2 DEF Index, Sorted, ScanStages
  <2>3. \A f \in Paths \ X.seen : manifest'[f] = X.prior[f] /\ X.count[f] = Len(chunks'[f])
    BY <2>2, <1>1, <1>4, <1>7, <1>15
  <2> QED BY <2>1, <2>3, <1>15, <1>16, <1>17 DEF Sorted
<1>24. Held'
  BY <1>1, <1>2, <1>3, <1>4, <1>15, <1>16, <1>18, <1>20 DEF Index, Held
<1>25. code!SameContent(Main)' = code!SameContent(Main)
  BY <1>3, <1>15, <1>16, <1>18 DEF code!SameContent, code!PriorOf, Me, Hand
<1>26. Emptied'
  <2>1. chunks'[h] = <<>> BY <1>7
  <2>2. ~dropped' => \A c \in Contents : Folded(h, c)' /\ Stays(h, c)' => code!Owed(h)'
    BY <1>8, <1>11, <1>19, <1>20
  <2>3. code!Owed(Hand)' = code!Owed(h)' BY <1>18 DEF code!Owed
  <2>4. \A c \in Contents : Folded(Hand, c)' = Folded(h, c)' /\ Stays(Hand, c)' = Stays(h, c)'
    BY <1>18 DEF Folded, Stays
  <2> QED BY <1>5, <1>15, <1>16, <1>17, <1>18, <1>25, <2>1, <2>2, <2>3, <2>4 DEF Emptied
<1>27. Writing'
  <2> SUFFICES ASSUME X.pc = "write"
               PROVE  SoFar(Me.file.content, X, <<>>, Len(Me.prior[h].places))
    BY <1>7, <1>15, <1>16, <1>18 DEF Writing
  <2>1. Me.rewrite BY <1>15
  <2>2. /\ X.plan = manifest[h].places /\ X.plan \in Seq(Nat) /\ Len(X.plan) \in Nat
        /\ Len(X.plan) <= Len(Me.file.content)
        /\ X.plan = [i \in 1 .. Len(X.plan) |-> i]
    BY <2>1, <1>3, <1>14, <1>15 DEF Index, ManifestsFit, code!Upto
  <2>3. Len(X.places) = 0 /\ X.skipped = 0 BY <1>15
  <2>4. X.plan = [i \in 1 .. Len(X.plan) |-> Len(X.places) + X.skipped + i]
    <3>1. [i \in 1 .. Len(X.plan) |-> i] = [i \in 1 .. Len(X.plan) |-> 0 + 0 + i] BY <2>2
    <3> QED BY <2>2, <2>3, <3>1
  <2>5. X.places = code!Upto(Len(X.places)) BY <1>15, <2>3 DEF code!Upto
  <2>6. Me.file.content \in Seq(Bodies) BY <1>4, Consts
  <2>7. <<>> = SubSeq(Me.file.content, 1, 0) BY <2>6
  <2> QED BY <1>4, <1>15, <2>2, <2>3, <2>4, <2>5, <2>7 DEF SoFar
<1> QED BY <1>1, <1>2, <1>3, <1>7, <1>9, <1>10, <1>13, <1>15, <1>17, <1>21, <1>22, <1>23, <1>24,
           <1>26, <1>27, HandStepKeeps DEF Index, Stored

LEMMA ExtractKeeps ==
    ASSUME StoresAssumption, Index, code!Extract(Main)
    PROVE  Index'
<1>1. /\ UNCHANGED <<manifest, chunks, codeDigest, disk, had, dropped, edits, now>>
      /\ Me.pc = "extract"
      /\ \E n \in {0, 1, Len(Me.file.content)} :
            /\ n = 1 => Len(Me.file.content) > 1 \/ n = Len(Me.file.content)
            /\ codePass' = [codePass EXCEPT ![Main].pc = "write", ![Main].plan = code!Upto(n)]
  BY DEF code!Extract, code!schema, code!tree, code!Doing, code!Strikes, code!Calm, Me
<1>2. Me.pc \in HandStages /\ Me.pc \in UnderStages BY <1>1 DEF UnderStages, ScanStages, HandStages
<1>3. PICK h \in Paths : h = Hand BY <1>2, HandFacts
<1>4. /\ Me \in Underways /\ h \in Me.todo /\ h \in Me.seen /\ h = code!Earliest(Me.todo)
      /\ Me.file \in code!Files /\ Me.file.content \in Contents /\ manifest[h] = Me.prior[h]
  BY <1>2, <1>3, HandFacts
<1>5. /\ Me.rewrite = code!SameContent(Main) /\ ~Me.rewrite /\ chunks[h] = <<>>
      /\ Me.places = <<>> /\ Me.skipped = 0 /\ Me.intact
      /\ ~dropped => \A c \in Contents : Folded(h, c) /\ Stays(h, c) => code!Owed(h)
  BY <1>1, <1>3 DEF Index, Emptied
<1>6. Len(Me.file.content) \in Nat /\ Me.file.content \in Seq(Bodies) BY <1>4, Consts
<1>7a. PICK n \in {0, 1, Len(Me.file.content)} :
         /\ n = 1 => Len(Me.file.content) > 1 \/ n = Len(Me.file.content)
         /\ codePass' = [codePass EXCEPT ![Main].pc = "write", ![Main].plan = code!Upto(n)]
  BY <1>1
<1>7. n \in Nat /\ n <= Len(Me.file.content) BY <1>6, <1>7a
<1>8. PICK plan : plan = code!Upto(n) OBVIOUS
<1>9. /\ plan = [i \in 1 .. n |-> i] /\ plan \in Seq(Nat) /\ Len(plan) = n
  BY <1>8 DEF code!Upto
<1>10. PICK X : X = [Me EXCEPT !.pc = "write", !.plan = plan] OBVIOUS
<1>11. codePass' = [codePass EXCEPT ![Main] = X] BY <1>7a, <1>8, <1>10 DEF Me
<1>12. /\ X \in Underways /\ X.prior = Me.prior /\ X.count = Me.count
       /\ X.listed = Me.listed /\ X.todo = Me.todo /\ X.file = Me.file /\ X.rewrite = Me.rewrite
       /\ X.seen = Me.seen /\ X.folded = Me.folded /\ X.plan = plan
       /\ X.places = <<>> /\ X.skipped = 0 /\ X.intact /\ X.pc = "write"
  <2>1. "write" \in UnderStages BY DEF UnderStages, ScanStages, HandStages
  <2> QED BY <2>1, <1>4, <1>5, <1>9, <1>10 DEF Underways
<1>13. Me' = X BY <1>1, <1>11, PassStepKeeps DEF Index, Stored
<1>14. X.pc \in HandStages /\ X.pc \in ScanStages BY <1>12 DEF HandStages, ScanStages
<1>15. Hand' = h BY <1>3, <1>4, <1>12, <1>13 DEF Hand, code!Current, Me
<1>16. dropped' = dropped BY <1>1
<1>17. \A c \in Contents : Folded(h, c)' = Folded(h, c) /\ Stays(h, c)' = Stays(h, c)
  BY <1>1 DEF Folded, Stays
<1>18. code!Owed(h)' = code!Owed(h) BY <1>1 DEF code!Owed
<1>19. FitsAt(h)' BY <1>1 DEF FitsAt, Index, ManifestsFit
<1>20. SufficesAt(h)'
  <2>1. CountsSuffice BY DEF Index
  <2> QED BY <2>1, <1>1, <1>18 DEF SufficesAt, CountsSuffice, Stays
<1>21. DigestVouchesAt(h)' BY <1>5, <1>16, <1>17, <1>18 DEF DigestVouchesAt, Vouched
<1>22. PassVouchesAt(h)' BY <1>13, <1>14, <1>15 DEF PassVouchesAt, InHand
<1>23. Sorted'
  <2>1. /\ Me.seen \subseteq Me.listed /\ Me.todo \subseteq Me.listed
        /\ \A d \in Me.folded : d[1] \in Me.seen
    BY <1>2 DEF Index, Sorted
  <2>2. \A f \in Paths \ Me.seen : manifest[f] = Me.prior[f] /\ Me.count[f] = Len(chunks[f])
    BY <1>2 DEF Index, Sorted, ScanStages
  <2> QED BY <2>1, <2>2, <1>1, <1>12, <1>13 DEF Sorted
<1>24. Held'
  BY <1>1, <1>2, <1>3, <1>4, <1>12, <1>13, <1>15, <1>17 DEF Index, Held
<1>25. code!SameContent(Main)' = code!SameContent(Main)
  BY <1>3, <1>12, <1>13, <1>15 DEF code!SameContent, code!PriorOf, Me, Hand
<1>26. Emptied'
  <2>1. ~dropped' => \A c \in Contents : Folded(h, c)' /\ Stays(h, c)' => code!Owed(h)'
    BY <1>5, <1>16, <1>17, <1>18
  <2>2. code!Owed(Hand)' = code!Owed(h)' BY <1>15 DEF code!Owed
  <2>3. \A c \in Contents : Folded(Hand, c)' = Folded(h, c)' /\ Stays(Hand, c)' = Stays(h, c)'
    BY <1>15 DEF Folded, Stays
  <2> QED BY <1>5, <1>12, <1>13, <1>25, <2>1, <2>2, <2>3 DEF Emptied
<1>27. Writing'
  <2>1. SoFar(Me.file.content, X, <<>>, Len(Me.prior[h].places))
    <3>1. Len(X.places) = 0 /\ X.skipped = 0 BY <1>12
    <3>2. X.plan = [i \in 1 .. Len(X.plan) |-> Len(X.places) + X.skipped + i]
      <4>1. [i \in 1 .. n |-> i] = [i \in 1 .. n |-> 0 + 0 + i] OBVIOUS
      <4> QED BY <4>1, <3>1, <1>9, <1>12
    <3>3. X.places = code!Upto(Len(X.places)) BY <1>12, <3>1 DEF code!Upto
    <3>4. <<>> = SubSeq(Me.file.content, 1, 0) BY <1>6
    <3> QED BY <1>5, <1>6, <1>7, <1>9, <1>12, <3>1, <3>2, <3>3, <3>4 DEF SoFar
  <2> QED BY <2>1, <1>1, <1>5, <1>12, <1>13, <1>15 DEF Writing
<1> QED BY <1>1, <1>2, <1>3, <1>11, <1>12, <1>14, <1>19, <1>20, <1>21, <1>22, <1>23, <1>24,
           <1>26, <1>27, HandStepKeeps DEF Index, Stored

\* One chunk of the plan: its row and embedding written, its row refused, or the
\* chunk skipped.
LEMMA PlanAdvances ==
    ASSUME NEW r \in Underways, NEW c \in Seq(Bodies), NEW there \in Seq(Bodies), NEW total \in Nat,
           SoFar(c, r, there, total), r.plan # <<>>,
           NEW X \in Underways, NEW after,
           X.plan = Tail(r.plan), X.rewrite = r.rewrite,
           \/ /\ X.places = Append(r.places, Head(r.plan)) /\ X.skipped = r.skipped
              /\ X.intact = r.intact /\ after = Append(there, c[Head(r.plan)])
           \/ /\ X.places = Append(r.places, Head(r.plan)) /\ X.skipped = r.skipped
              /\ ~X.intact /\ after = there
           \/ /\ ~r.rewrite /\ X.places = r.places /\ X.skipped = r.skipped + 1
              /\ X.intact = r.intact /\ after = there
    PROVE  SoFar(c, X, after, total) /\ after \in Seq(Bodies)
<1>1. PICK plan, places, skipped : plan = r.plan /\ places = r.places /\ skipped = r.skipped
  OBVIOUS
<1>2. plan \in Seq(Nat) /\ places \in Seq(Nat) /\ skipped \in Nat BY <1>1 DEF Underways
<1>3. PICK k, n, m : k = Len(plan) /\ n = Len(places) /\ m = Len(there) OBVIOUS
<1>4. k \in Nat /\ k # 0 /\ n \in Nat /\ m \in Nat /\ Len(c) \in Nat BY <1>1, <1>2, <1>3
<1>5. /\ plan = [i \in 1 .. k |-> n + skipped + i] /\ n + skipped + k <= Len(c)
      /\ m <= n /\ (~r.intact => m < n)
      /\ r.rewrite => skipped = 0 /\ n + k = total
      /\ skipped = 0 => places = code!Upto(n)
      /\ skipped = 0 /\ r.intact => there = SubSeq(c, 1, n)
  BY <1>1, <1>3 DEF SoFar
<1>6. Head(plan) = n + skipped + 1 /\ Head(plan) \in 1 .. Len(c)
  <2>1. Head(plan) = plan[1] /\ 1 \in 1 .. k BY <1>1, <1>2, <1>3, <1>4
  <2>2. plan[1] = n + skipped + 1 BY <2>1, <1>5
  <2> QED BY <2>1, <2>2, <1>2, <1>4, <1>5
<1>7. c[Head(plan)] \in Bodies BY <1>6
<1>8. Tail(plan) = [i \in 1 .. (k - 1) |-> n + skipped + 1 + i] /\ Len(Tail(plan)) = k - 1
  <2>1. Len(Tail(plan)) = k - 1 /\ Tail(plan) = [i \in 1 .. (k - 1) |-> plan[i + 1]]
    <3>1. plan # <<>> BY <1>1
    <3>2. /\ Tail(plan) \in Seq(Nat) /\ Len(Tail(plan)) = k - 1
          /\ \A i \in 1 .. Len(Tail(plan)) : Tail(plan)[i] = plan[i + 1]
      BY <3>1, <1>2, <1>3, HeadTailProperties
    <3>3. PICK t \in Seq(Nat) : t = Tail(plan) BY <3>2
    <3>4. t = [i \in 1 .. (k - 1) |-> t[i]]
      <4>1. Len(t) = k - 1 BY <3>2, <3>3
      <4>2. t \in [1 .. Len(t) -> Nat] BY LenProperties
      <4> QED BY <4>1, <4>2
    <3>5. [i \in 1 .. (k - 1) |-> t[i]] = [i \in 1 .. (k - 1) |-> plan[i + 1]] BY <3>2, <3>3
    <3> QED BY <3>2, <3>3, <3>4, <3>5
  <2>2. \A i \in 1 .. (k - 1) : plan[i + 1] = n + skipped + 1 + i
    <3> TAKE i \in 1 .. (k - 1)
    <3>1. i + 1 \in 1 .. k BY <1>4
    <3>2. plan[i + 1] = n + skipped + (i + 1) BY <3>1, <1>5
    <3> QED BY <3>2, <1>2, <1>4
  <2>3. [i \in 1 .. (k - 1) |-> plan[i + 1]] = [i \in 1 .. (k - 1) |-> n + skipped + 1 + i] BY <2>2
  <2> QED BY <2>1, <2>3
<1>9. Len(X.plan) = k - 1 BY <1>1, <1>8
<1>10. CASE X.places = Append(r.places, Head(r.plan)) /\ X.skipped = r.skipped
  <2>1. Len(X.places) = n + 1 /\ X.skipped = skipped BY <1>1, <1>2, <1>3, <1>6, <1>10
  <2>2. X.plan = [i \in 1 .. Len(X.plan) |-> Len(X.places) + X.skipped + i]
    <3>1. \A i \in 1 .. (k - 1) : n + skipped + 1 + i = n + 1 + skipped + i BY <1>2, <1>4
    <3>2. [i \in 1 .. (k - 1) |-> n + skipped + 1 + i] = [i \in 1 .. (k - 1) |-> n + 1 + skipped + i]
      BY <3>1
    <3> QED BY <3>2, <2>1, <1>1, <1>8, <1>9
  <2>3. skipped = 0 => X.places = code!Upto(n + 1)
    <3>1. SUFFICES ASSUME skipped = 0 PROVE Append(places, n + 1) = code!Upto(n + 1)
      BY <1>1, <1>2, <1>4, <1>6, <1>10
    <3>2. places = [i \in 1 .. n |-> i] BY <3>1, <1>5 DEF code!Upto
    <3>3. Append(places, n + 1) = [i \in 1 .. (n + 1) |-> IF i = n + 1 THEN n + 1 ELSE places[i]]
      BY <1>2, <1>3, <1>4
    <3>4. \A i \in 1 .. (n + 1) : (IF i = n + 1 THEN n + 1 ELSE places[i]) = i BY <3>2, <1>4
    <3>5. Append(places, n + 1) = [i \in 1 .. (n + 1) |-> i] BY <3>3, <3>4
    <3> QED BY <3>5 DEF code!Upto
  <2>4. CASE after = there /\ ~X.intact
    <3>1. m <= n + 1 /\ m < n + 1 BY <1>4, <1>5
    <3>2. n + 1 + skipped + (k - 1) = n + skipped + k BY <1>2, <1>4
    <3>3. r.rewrite => n + 1 + (k - 1) = total BY <1>4, <1>5
    <3> QED BY <2>1, <2>2, <2>3, <2>4, <3>1, <3>2, <3>3, <1>3, <1>5, <1>9 DEF SoFar
  <2>5. CASE after = Append(there, c[Head(r.plan)]) /\ X.intact = r.intact
    <3>1. after \in Seq(Bodies) /\ Len(after) = m + 1 BY <2>5, <1>1, <1>3, <1>7
    <3>2. m + 1 <= n + 1 /\ (~X.intact => m + 1 < n + 1) BY <2>5, <1>4, <1>5
    <3>3. n + 1 + skipped + (k - 1) = n + skipped + k BY <1>2, <1>4
    <3>4. r.rewrite => n + 1 + (k - 1) = total BY <1>4, <1>5
    <3>5. skipped = 0 /\ r.intact => after = SubSeq(c, 1, n + 1)
      <4>1. SUFFICES ASSUME skipped = 0, r.intact PROVE after = SubSeq(c, 1, n + 1) OBVIOUS
      <4>2. there = SubSeq(c, 1, n) /\ Head(plan) = n + 1 /\ n + 1 <= Len(c)
        BY <4>1, <1>2, <1>4, <1>5, <1>6
      <4>3. after = Append(SubSeq(c, 1, n), c[n + 1]) BY <4>2, <2>5, <1>1
      <4> HIDE <2>5
      <4> QED BY <4>2, <4>3, <1>4
    <3> QED BY <2>1, <2>2, <2>3, <2>5, <3>1, <3>2, <3>3, <3>4, <3>5, <1>5, <1>9 DEF SoFar
  <2> QED BY <1>10, <2>4, <2>5, <1>2, <1>1
<1>11. CASE ~r.rewrite /\ X.places = r.places /\ X.skipped = r.skipped + 1
              /\ X.intact = r.intact /\ after = there
  <2>1. Len(X.places) = n /\ X.skipped = skipped + 1 /\ X.skipped # 0
    BY <1>1, <1>2, <1>3, <1>11
  <2>2. X.plan = [i \in 1 .. Len(X.plan) |-> Len(X.places) + X.skipped + i]
    <3>1. \A i \in 1 .. (k - 1) : n + skipped + 1 + i = n + (skipped + 1) + i BY <1>2, <1>4
    <3>2. [i \in 1 .. (k - 1) |-> n + skipped + 1 + i] = [i \in 1 .. (k - 1) |-> n + (skipped + 1) + i]
      BY <3>1
    <3> QED BY <3>2, <2>1, <1>1, <1>8, <1>9
  <2>3. n + (skipped + 1) + (k - 1) = n + skipped + k BY <1>2, <1>4
  <2> QED BY <2>1, <2>2, <2>3, <1>3, <1>5, <1>9, <1>11 DEF SoFar
<1> QED BY <1>10, <1>11

\* Rows are counted full only when the same content was written without a gap.
LEMMA WritingSuffices ==
    ASSUME StoresAssumption, Index, Me.pc \in HandStages, Me.rewrite = code!SameContent(Main),
           NEW h \in Paths, h = Hand,
           NEW X \in Underways, X.plan \in Seq(Nat), X.rewrite = Me.rewrite,
           NEW after \in Seq(Bodies),
           SoFar(Me.file.content, X, after, Len(Me.prior[h].places)),
           ~code!Owed(h), Stays(h, manifest[h].hash)
    PROVE  Len(after) < Len(manifest[h].hash) \/ after = manifest[h].hash
<1>1. PICK c : c = Me.file.content OBVIOUS
<1>2. /\ c \in Contents /\ manifest[h] = Me.prior[h]
      /\ manifest[h] # None => /\ manifest[h].hash \in Contents
                               /\ manifest[h].places \in Seq(Nat) /\ manifest[h].skipped \in Nat
  BY <1>1, HandFacts
<1>3. /\ manifest[h] # None /\ manifest[h].skipped = 0
      /\ ~(Len(manifest[h].places) < Len(manifest[h].hash))
  BY <1>2 DEF code!Owed
<1>4. manifest[h].hash = c BY <1>1, <1>2, <1>3 DEF Index, Held
<1>5. X.rewrite BY <1>1, <1>2, <1>3, <1>4, SameIs
<1>6. Len(manifest[h].places) = Len(c)
  <2>1. Len(manifest[h].places) <= Len(manifest[h].hash) BY <1>3 DEF Index, ManifestsFit
  <2>2. Len(c) \in Nat /\ Len(manifest[h].places) \in Nat BY <1>2, <1>3, Consts
  <2> QED BY <2>1, <2>2, <1>3, <1>4
<1>7. PICK n, k, m : n = Len(X.places) /\ k = Len(X.plan) /\ m = Len(after) OBVIOUS
<1>8. n \in Nat /\ k \in Nat /\ m \in Nat /\ Len(c) \in Nat /\ c \in Seq(Bodies)
  BY <1>2, <1>7, Consts DEF Underways
<1>9. /\ m <= n /\ (~X.intact => m < n) /\ X.skipped = 0 /\ n + k = Len(c)
      /\ (X.intact => after = SubSeq(c, 1, n))
  BY <1>1, <1>2, <1>5, <1>6, <1>7 DEF SoFar
<1>10. CASE m < Len(c) BY <1>4, <1>7, <1>10
<1>11. CASE m = Len(c)
  <2>1. n = Len(c) /\ X.intact BY <1>8, <1>9, <1>11
  <2>2. SubSeq(c, 1, Len(c)) = c BY <1>8
  <2> QED BY <2>1, <2>2, <1>4, <1>9
<1> QED BY <1>8, <1>9, <1>10, <1>11

LEMMA WriteChunkKeeps ==
    ASSUME StoresAssumption, Index, code!WriteChunk(Main)
    PROVE  Index'
<1>1. /\ UNCHANGED <<manifest, codeDigest, disk, had, dropped, edits, now>>
      /\ Me.pc = "write" /\ Me.plan # <<>>
  BY DEF code!WriteChunk, code!schema, code!tree, code!Doing, code!Strikes, code!Calm, Me
<1>2. Me.pc \in HandStages /\ Me.pc \in UnderStages BY <1>1 DEF UnderStages, ScanStages, HandStages
<1>3. PICK h \in Paths : h = Hand BY <1>2, HandFacts
<1>4. /\ Me \in Underways /\ h \in Me.todo /\ h \in Me.seen /\ h = code!Earliest(Me.todo)
      /\ Me.file \in code!Files /\ Me.file.content \in Contents /\ manifest[h] = Me.prior[h]
      /\ chunks[h] \in Seq(Bodies) /\ Me.table
      /\ manifest[h] # None => manifest[h].places \in Seq(Nat)
  <2>1. Me \in Underways BY <1>2, HandFacts
  <2>2. Me.table BY <2>1 DEF Underways
  <2> QED BY <2>2, <1>2, <1>3, HandFacts
<1>5. /\ Me.rewrite = code!SameContent(Main)
      /\ ~dropped => \A c \in Contents : Folded(h, c) /\ Stays(h, c) => code!Owed(h)
  BY <1>1, <1>3 DEF Index, Emptied
<1>6. PICK c \in Seq(Bodies) : c = Me.file.content BY <1>4, Consts
<1>7. PICK i, there : i = Head(Me.plan) /\ there = chunks[h] OBVIOUS
<1>8. PICK total : total = IF Me.rewrite THEN Len(Me.prior[h].places) ELSE 0 OBVIOUS
<1>9. total \in Nat /\ SoFar(c, Me, there, total)
  <2>1. SoFar(c, Me, there, Len(Me.prior[h].places)) BY <1>1, <1>3, <1>6, <1>7 DEF Index, Writing
  <2>2. SoFar(c, Me, there, total) BY <2>1, <1>8 DEF SoFar
  <2>3. Me.rewrite => manifest[h] # None BY <1>3, <1>4, <1>5, SameIs
  <2> QED BY <2>2, <2>3, <1>4, <1>8
<1>10. Me.plan \in Seq(Nat) /\ Me.places \in Seq(Nat) /\ Me.skipped \in Nat /\ Me.intact \in BOOLEAN
       /\ i \in Nat
  BY <1>1, <1>4, <1>7 DEF Underways
<1>11. PICK X, after :
         /\ codePass' = [codePass EXCEPT ![Main] = X] /\ chunks' = [chunks EXCEPT ![h] = after]
         /\ \/ /\ X = [Me EXCEPT !.plan = Tail(Me.plan), !.places = Append(Me.places, i)]
               /\ after = Append(there, c[i])
            \/ /\ X = [Me EXCEPT !.plan = Tail(Me.plan), !.places = Append(Me.places, i),
                                 !.intact = FALSE]
               /\ after = there
            \/ /\ X = [Me EXCEPT !.plan = Tail(Me.plan), !.skipped = Me.skipped + 1]
               /\ after = there /\ ~Me.rewrite
  <2>1. code!WriteChunk(Main) OBVIOUS
  <2>2. chunks = [chunks EXCEPT ![h] = there]
    <3>1. chunks \in [Paths -> Seq(Bodies)] BY DEF Index, Stored
    <3> QED BY <3>1, <1>7
  <2>3. codePass[Main].table BY <1>4 DEF Me
  <2>4. \/ /\ codePass' = [codePass EXCEPT ![Main].plan = Tail(Me.plan),
                              ![Main].places = Append(@, i), ![Main].intact = @ /\ TRUE]
           /\ chunks' = [chunks EXCEPT ![h] = Append(@, c[i])]
        \/ /\ codePass' = [codePass EXCEPT ![Main].plan = Tail(Me.plan),
                              ![Main].places = Append(@, i), ![Main].intact = @ /\ FALSE]
           /\ chunks' = chunks
        \/ /\ codePass' = [codePass EXCEPT ![Main].plan = Tail(Me.plan), ![Main].skipped = @ + 1]
           /\ chunks' = chunks /\ ~Me.rewrite
    BY <2>1, <2>3, <1>3, <1>6, <1>7, Zenon DEF code!WriteChunk, code!Reused, Me, Hand
  <2>5. CASE /\ codePass' = [codePass EXCEPT ![Main].plan = Tail(Me.plan),
                              ![Main].places = Append(@, i), ![Main].intact = @ /\ TRUE]
             /\ chunks' = [chunks EXCEPT ![h] = Append(@, c[i])]
    <3>1. codePass' = [codePass EXCEPT ![Main] = [Me EXCEPT !.plan = Tail(Me.plan),
                         !.places = Append(Me.places, i), !.intact = Me.intact /\ TRUE]]
      BY <2>5 DEF Me
    <3>2. [Me EXCEPT !.plan = Tail(Me.plan), !.places = Append(Me.places, i),
                     !.intact = Me.intact /\ TRUE]
          = [Me EXCEPT !.plan = Tail(Me.plan), !.places = Append(Me.places, i)]
      <4>1. (Me.intact /\ TRUE) = Me.intact BY <1>10
      <4> QED BY <4>1, <1>4 DEF Underways
    <3>3. chunks' = [chunks EXCEPT ![h] = Append(there, c[i])] BY <2>5, <1>7
    <3> QED BY <3>1, <3>2, <3>3
  <2>6. CASE /\ codePass' = [codePass EXCEPT ![Main].plan = Tail(Me.plan),
                              ![Main].places = Append(@, i), ![Main].intact = @ /\ FALSE]
             /\ chunks' = chunks
    <3>1. codePass' = [codePass EXCEPT ![Main] = [Me EXCEPT !.plan = Tail(Me.plan),
                         !.places = Append(Me.places, i), !.intact = FALSE]]
      BY <2>6 DEF Me
    <3> QED BY <3>1, <2>2, <2>6
  <2>7. CASE /\ codePass' = [codePass EXCEPT ![Main].plan = Tail(Me.plan), ![Main].skipped = @ + 1]
             /\ chunks' = chunks /\ ~Me.rewrite
    <3>1. codePass' = [codePass EXCEPT ![Main] = [Me EXCEPT !.plan = Tail(Me.plan),
                         !.skipped = Me.skipped + 1]]
      BY <2>7 DEF Me
    <3> QED BY <3>1, <2>2, <2>7
  <2> QED BY <2>4, <2>5, <2>6, <2>7
<1>12. PICK t \in Seq(Nat) : t = Tail(Me.plan) BY <1>1, <1>10, HeadTailProperties
<1>13. PICK g \in Seq(Nat) : g = Append(Me.places, i)
  <2>1. Append(Me.places, i) \in Seq(Nat) BY <1>10
  <2> QED BY <2>1
<1>13a. PICK s \in Nat : s = Me.skipped + 1
  <2>1. Me.skipped + 1 \in Nat BY <1>10
  <2> QED BY <2>1
<1>13b. /\ X \in Underways /\ X.prior = Me.prior /\ X.count = Me.count
        /\ X.listed = Me.listed /\ X.todo = Me.todo /\ X.file = Me.file /\ X.rewrite = Me.rewrite
        /\ X.seen = Me.seen /\ X.folded = Me.folded /\ X.pc = "write" /\ X.plan = t
        /\ \/ /\ X.places = g /\ X.skipped = Me.skipped
              /\ X.intact = Me.intact /\ after = Append(there, c[i])
           \/ /\ X.places = g /\ X.skipped = Me.skipped /\ ~X.intact /\ after = there
           \/ /\ ~Me.rewrite /\ X.places = Me.places /\ X.skipped = s
              /\ X.intact = Me.intact /\ after = there
  <2>1. CASE X = [Me EXCEPT !.plan = t, !.places = g] /\ after = Append(there, c[i])
    BY <2>1, <1>1, <1>4 DEF Underways
  <2>2. CASE X = [Me EXCEPT !.plan = t, !.places = g, !.intact = FALSE] /\ after = there
    BY <2>2, <1>1, <1>4 DEF Underways
  <2>3. CASE X = [Me EXCEPT !.plan = t, !.skipped = s] /\ after = there /\ ~Me.rewrite
    BY <2>3, <1>1, <1>4 DEF Underways
  <2> QED BY <2>1, <2>2, <2>3, <1>11, <1>12, <1>13, <1>13a
<1>14. SoFar(c, X, after, total) /\ after \in Seq(Bodies)
  BY <1>1, <1>4, <1>7, <1>9, <1>12, <1>13, <1>13a, <1>13b, PlanAdvances
<1>15. SoFar(c, X, after, Len(Me.prior[h].places)) BY <1>8, <1>13b, <1>14 DEF SoFar
<1>16. /\ chunks' \in [Paths -> Seq(Bodies)] /\ chunks'[h] = after
       /\ \A f \in Paths : f # h => chunks'[f] = chunks[f]
  BY <1>11, <1>14 DEF Index, Stored
<1>17. Me' = X BY <1>1, <1>11, <1>16, PassStepKeeps DEF Index, Stored
<1>18. X.pc \in HandStages /\ X.pc \in ScanStages BY <1>13b DEF HandStages, ScanStages
<1>19. Hand' = h BY <1>3, <1>4, <1>13b, <1>17 DEF Hand, code!Current, Me
<1>20. dropped' = dropped BY <1>1
<1>21. \A d \in Contents : Folded(h, d)' = Folded(h, d) /\ Stays(h, d)' = Stays(h, d)
  BY <1>1 DEF Folded, Stays
<1>22. code!Owed(h)' = code!Owed(h) BY <1>1 DEF code!Owed
<1>23. FitsAt(h)' BY <1>1 DEF FitsAt, Index, ManifestsFit
<1>24. SufficesAt(h)'
  <2> SUFFICES ASSUME ~code!Owed(h), Stays(h, manifest[h].hash)
               PROVE  Len(after) < Len(manifest[h].hash) \/ after = manifest[h].hash
    BY <1>1, <1>16, <1>22 DEF SufficesAt, Stays
  <2> QED BY <1>2, <1>3, <1>5, <1>6, <1>13b, <1>14, <1>15, WritingSuffices
<1>25. DigestVouchesAt(h)' BY <1>5, <1>20, <1>21, <1>22 DEF DigestVouchesAt, Vouched
<1>26. PassVouchesAt(h)' BY <1>17, <1>18, <1>19 DEF PassVouchesAt, InHand
<1>27. Sorted'
  <2>1. /\ Me.seen \subseteq Me.listed /\ Me.todo \subseteq Me.listed
        /\ \A d \in Me.folded : d[1] \in Me.seen
    BY <1>2 DEF Index, Sorted
  <2>2. \A f \in Paths \ Me.seen : manifest[f] = Me.prior[f] /\ Me.count[f] = Len(chunks[f])
    BY <1>2 DEF Index, Sorted, ScanStages
  <2>3. \A f \in Paths \ X.seen : manifest'[f] = X.prior[f] /\ X.count[f] = Len(chunks'[f])
    <3>1. X.prior = Me.prior /\ X.count = Me.count /\ X.seen = Me.seen BY <1>13b
    <3>2. manifest' = manifest /\ h \in Me.seen BY <1>1, <1>4
    <3> QED BY <2>2, <3>1, <3>2, <1>16
  <2> QED BY <2>1, <2>3, <1>13b, <1>17 DEF Sorted
<1>28. Held'
  BY <1>1, <1>2, <1>3, <1>4, <1>13b, <1>17, <1>19, <1>21 DEF Index, Held
<1>29. code!SameContent(Main)' = code!SameContent(Main)
  BY <1>3, <1>13b, <1>17, <1>19 DEF code!SameContent, code!PriorOf, Me, Hand
<1>30. Emptied'
  <2>1. ~dropped' => \A d \in Contents : Folded(h, d)' /\ Stays(h, d)' => code!Owed(h)'
    BY <1>5, <1>20, <1>21, <1>22
  <2>2. code!Owed(Hand)' = code!Owed(h)' BY <1>19 DEF code!Owed
  <2>3. \A d \in Contents : Folded(Hand, d)' = Folded(h, d)' /\ Stays(Hand, d)' = Stays(h, d)'
    BY <1>19 DEF Folded, Stays
  <2> QED BY <1>5, <1>13b, <1>17, <1>29, <2>1, <2>2, <2>3 DEF Emptied
<1>31. Writing' BY <1>6, <1>13b, <1>15, <1>16, <1>17, <1>19 DEF Writing
<1> QED BY <1>1, <1>2, <1>3, <1>11, <1>13b, <1>16, <1>18, <1>23, <1>24, <1>25, <1>26, <1>27,
           <1>28, <1>30, <1>31, HandStepKeeps DEF Index, Stored

\* The last chunk is behind: a manifest that owes nothing names the content whose
\* rows are there.
LEMMA FileDoneKeeps ==
    ASSUME StoresAssumption, Index, code!FileDone(Main)
    PROVE  Index'
<1>1. /\ UNCHANGED <<chunks, codeDigest, disk, had, dropped, edits, now>>
      /\ Me.pc = "write" /\ Me.plan = <<>>
  BY DEF code!FileDone, code!schema, code!tree, code!Doing, Me
<1>2. Me.pc \in HandStages /\ Me.pc \in UnderStages BY <1>1 DEF UnderStages, ScanStages, HandStages
<1>3. PICK h \in Paths : h = Hand BY <1>2, HandFacts
<1>4. /\ Me \in Underways /\ h \in Me.todo /\ h \in Me.seen /\ h = code!Earliest(Me.todo)
      /\ Me.file \in code!Files /\ Me.file.content \in Contents /\ manifest[h] = Me.prior[h]
      /\ chunks[h] \in Seq(Bodies)
      /\ manifest[h] # None => /\ manifest[h] \in code!Manifests
                               /\ manifest[h].places \in Seq(Nat) /\ manifest[h].skipped \in Nat
  BY <1>2, <1>3, HandFacts
<1>5. Me.rewrite = code!SameContent(Main) BY <1>1 DEF Index, Emptied
<1>6. PICK c \in Seq(Bodies) : c = Me.file.content BY <1>4, Consts
<1>7. /\ Me.places \in Seq(Nat) /\ Me.skipped \in Nat /\ Me.intact \in BOOLEAN
      /\ Me.file.mtime \in Nat
  BY <1>4 DEF Underways, code!Files
<1>8. PICK new : new = [hash |-> c, mtime |-> Me.file.mtime, places |-> Me.places,
                        skipped |-> Me.skipped, readable |-> TRUE]
  OBVIOUS
<1>9. new \in code!Manifests /\ new # None /\ new.hash = c /\ new.places = Me.places
      /\ new.skipped = Me.skipped
  <2>1. new \in code!Manifests BY <1>4, <1>6, <1>7, <1>8 DEF code!Manifests
  <2> QED BY <2>1, <1>8, Consts
<1>10. PICK done : done = IF ~Me.intact THEN None ELSE IF Me.rewrite THEN manifest[h] ELSE new
  OBVIOUS
<1>11. manifest' = [manifest EXCEPT ![h] = done]
  BY <1>3, <1>6, <1>8, <1>10 DEF code!FileDone, code!ManifestOf, Me, Hand
<1>12. /\ manifest' \in [Paths -> code!Manifests \cup {None}] /\ manifest'[h] = done
       /\ \A f \in Paths : f # h => manifest'[f] = manifest[f]
  BY <1>4, <1>9, <1>10, <1>11 DEF Index, Stored
<1>13. PICK X : X = code!Moved(Me) OBVIOUS
<1>14. codePass' = [codePass EXCEPT ![Main] = X] BY <1>13 DEF code!FileDone, code!Becomes, Me
<1>15. /\ X \in Underways /\ X.pc = "files" /\ X.prior = Me.prior /\ X.count = Me.count
       /\ X.listed = Me.listed /\ X.todo = Me.todo \ {h}
       /\ X.seen = Me.seen /\ X.folded = Me.folded
       /\ X.places = <<>> /\ X.skipped = 0 /\ X.intact
  BY <1>4, <1>13, MovedOn
<1>16. Me' = X BY <1>1, <1>12, <1>14, PassStepKeeps DEF Index, Stored
<1>17. X.pc \in ScanStages /\ X.pc \notin HandStages BY <1>15 DEF HandStages, ScanStages
<1>18. dropped' = dropped BY <1>1
<1>19. /\ Me.seen \cap Me.todo = {h}
       /\ \A d \in Me.folded : d[1] = h => d[2] = c
       /\ \A d \in Contents : Stays(h, d) /\ d # c => ~Folded(h, d)
  BY <1>2, <1>3, <1>6 DEF Index, Held
<1>20. PICK n : n = Len(Me.places) OBVIOUS
<1>21. /\ n \in Nat /\ n + Me.skipped <= Len(c)
       /\ Me.rewrite => Me.skipped = 0 /\ n = Len(Me.prior[h].places)
       /\ Me.skipped = 0 => Me.places = code!Upto(n)
       /\ Me.skipped = 0 /\ Me.intact => chunks[h] = SubSeq(c, 1, n)
  <2>1. SoFar(c, Me, chunks[h], Len(Me.prior[h].places)) BY <1>1, <1>3, <1>6 DEF Index, Writing
  <2>2. Len(Me.plan) = 0 /\ n \in Nat /\ Len(c) \in Nat BY <1>1, <1>7, <1>20
  <2> QED BY <2>1, <2>2, <1>7, <1>20 DEF SoFar
<1>22. n = Len(c) => SubSeq(c, 1, n) = c OBVIOUS
<1>23. Me.rewrite => /\ manifest[h] # None /\ manifest[h].hash = c /\ manifest[h].skipped = 0
  BY <1>3, <1>4, <1>5, <1>6, SameIs
<1>24. \A d \in Contents : Folded(h, d)' = Folded(h, d) /\ Stays(h, d)' = Stays(h, d)
  BY <1>1 DEF Folded, Stays
<1>25. FitsAt(h)' /\ SufficesAt(h)' /\ Vouched(h, c)'
       /\ (manifest'[h] # None => \/ manifest[h] # None /\ manifest'[h].hash = manifest[h].hash
                                  \/ manifest'[h].hash = Me.file.content)
  <2>1. CASE ~Me.intact
    <3>1. manifest'[h] = None BY <2>1, <1>10, <1>12
    <3> QED BY <3>1 DEF FitsAt, SufficesAt, Vouched, code!Owed
  <2>2. CASE Me.intact /\ Me.rewrite
    <3>1. manifest'[h] = manifest[h] BY <2>2, <1>10, <1>12
    <3>2. code!Owed(h)' = code!Owed(h) BY <3>1 DEF code!Owed
    <3>3. FitsAt(h)' BY <3>1 DEF Index, ManifestsFit, FitsAt
    <3>4. SufficesAt(h)'
      <4>1. CountsSuffice BY DEF Index
      <4> QED BY <4>1, <3>1, <3>2, <1>1 DEF SufficesAt, CountsSuffice, Stays
    <3>5. Vouched(h, c)'
      <4>1. CASE code!Owed(h) BY <4>1, <3>2 DEF Vouched
      <4>2. CASE ~code!Owed(h)
        <5>1. ~(Len(manifest[h].places) < Len(c)) BY <4>2, <1>23, <2>2 DEF code!Owed
        <5>2. n = Len(c) BY <5>1, <1>4, <1>7, <1>21, <2>2
        <5>3. chunks[h] = c BY <5>2, <1>21, <1>22, <2>2
        <5> QED BY <5>3, <3>1, <1>1, <1>23, <2>2 DEF Vouched
      <4> QED BY <4>1, <4>2
    <3> QED BY <3>1, <3>3, <3>4, <3>5
  <2>3. CASE Me.intact /\ ~Me.rewrite
    <3>1. manifest'[h] = new BY <2>3, <1>10, <1>12
    <3>2. code!Owed(h)' <=> Me.skipped > 0 \/ n < Len(c) BY <3>1, <1>9, <1>20 DEF code!Owed
    <3>3. Len(c) \in Nat OBVIOUS
    <3>4. ~code!Owed(h)' => chunks[h] = c BY <3>2, <3>3, <1>7, <1>21, <1>22, <2>3
    <3>5. FitsAt(h)' BY <3>1, <3>3, <1>7, <1>9, <1>20, <1>21 DEF FitsAt
    <3>6. SufficesAt(h)' BY <3>1, <3>4, <1>1, <1>9 DEF SufficesAt
    <3>7. Vouched(h, c)' BY <3>1, <3>4, <1>1, <1>9 DEF Vouched
    <3> QED BY <3>1, <3>5, <3>6, <3>7, <1>6, <1>9
  <2> QED BY <2>1, <2>2, <2>3, <1>7
<1>26. DigestVouchesAt(h)'
  <2> SUFFICES ASSUME NEW d \in Contents, Folded(h, d), Stays(h, d) PROVE Vouched(h, d)'
    BY <1>24 DEF DigestVouchesAt
  <2>1. d = c BY <1>19
  <2> QED BY <2>1, <1>25
<1>27. PassVouchesAt(h)'
  <2> SUFFICES ASSUME NEW d \in Contents, <<h, d>> \in Me.folded PROVE Vouched(h, d)'
    BY <1>15, <1>16 DEF PassVouchesAt
  <2>1. d = c BY <1>19
  <2> QED BY <2>1, <1>25
<1>28. Sorted'
  <2>1. /\ Me.seen \subseteq Me.listed /\ Me.todo \subseteq Me.listed
        /\ \A d \in Me.folded : d[1] \in Me.seen
    BY <1>2 DEF Index, Sorted
  <2>2. \A f \in Paths \ Me.seen : manifest[f] = Me.prior[f] /\ Me.count[f] = Len(chunks[f])
    BY <1>2 DEF Index, Sorted, ScanStages
  <2>3. \A f \in Paths \ X.seen : manifest'[f] = X.prior[f] /\ X.count[f] = Len(chunks'[f])
    <3>1. X.prior = Me.prior /\ X.count = Me.count /\ X.seen = Me.seen BY <1>15
    <3>2. chunks' = chunks /\ h \in Me.seen BY <1>1, <1>4
    <3> QED BY <2>2, <3>1, <3>2, <1>12
  <2>4. X.seen \cap X.todo = {} BY <1>15, <1>19
  <2> QED BY <2>1, <2>3, <2>4, <1>15, <1>16 DEF Sorted
<1>29. Held' /\ Emptied' /\ Writing' BY <1>15, <1>16, <1>17 DEF Held, Emptied, Writing
<1> QED BY <1>1, <1>2, <1>3, <1>12, <1>14, <1>15, <1>17, <1>25, <1>26, <1>27, <1>28, <1>29,
           HandStepKeeps DEF Index, Stored

-----------------------------------------------------------------------------
\* After the last file only what no longer stands is withdrawn.
LEMMA AfterFiles ==
    ASSUME StoresAssumption, Index, Me.pc \in UnderStages, NEW X \in Underways,
           X.pc \in {"sweep", "digest"}, X.folded = Me.folded, X.seen = Me.seen,
           X.listed = Me.listed, X.todo = Me.todo, Me.pc \notin HandStages,
           codePass' = [codePass EXCEPT ![Main] = X],
           manifest' \in [Paths -> code!Manifests \cup {None}],
           chunks' \in [Paths -> Seq(Bodies)],
           UNCHANGED <<codeDigest, disk, had, dropped, edits, now>>,
           \A f \in Paths : manifest'[f] = manifest[f] \/ manifest'[f] = None,
           \A f \in Paths : chunks'[f] = chunks[f] \/ manifest'[f] = None,
           X.pc = "sweep" => \A f \in Paths \ X.listed : X.prior[f] = None => manifest'[f] = None
    PROVE  Index'
<1>1. Me' = X /\ Stored' /\ Alone'
  BY PassStepKeeps DEF Index, Stored
<1>2. X.pc \notin ScanStages /\ X.pc \notin HandStages /\ X.pc \in UnderStages
  BY DEF UnderStages, ScanStages, HandStages
<1>3. /\ ManifestsFit' /\ CountsSuffice'
      /\ \A f \in Paths, c \in Contents : Vouched(f, c) => Vouched(f, c)'
  BY Withdrawn
<1>4. KnowsOfThePast' BY <1>1, <1>2, KnowsNoMore
<1>5. Stages' BY <1>1 DEF Stages
<1>6. DigestVouches' BY <1>3 DEF Index, DigestVouches, Folded, Stays
<1>7. PassVouches' BY <1>1, <1>3 DEF Index, PassVouches, InHand, Stays
<1>8. Sorted' BY <1>1, <1>2 DEF Index, Sorted
<1>9. Held' /\ Emptied' /\ Writing' BY <1>1, <1>2 DEF Held, Emptied, Writing, HandStages
<1> QED BY <1>1, <1>3, <1>4, <1>5, <1>6, <1>7, <1>8, <1>9, IndexBy

LEMMA RemoveGoneKeeps ==
    ASSUME StoresAssumption, Index, code!RemoveGone(Main)
    PROVE  Index'
<1>1. /\ UNCHANGED <<chunks, codeDigest, disk, had, dropped, edits, now>>
      /\ Me.pc = "files"
      /\ manifest' = [f \in Paths |-> IF f \in code!Gone(Main) THEN None ELSE manifest[f]]
  BY DEF code!RemoveGone, code!schema, code!tree, code!Doing, Me
<1>2. Me \in Underways /\ Me.pc \in UnderStages BY <1>1, AtStage DEF UnderStages, ScanStages
<1>3. PICK X : X = [Me EXCEPT !.pc = "sweep"] OBVIOUS
<1>4. codePass' = [codePass EXCEPT ![Main] = X] BY <1>3 DEF code!RemoveGone, code!Turn, Me
<1>5. /\ X \in Underways /\ X.pc = "sweep" /\ X.prior = Me.prior
      /\ X.listed = Me.listed /\ X.todo = Me.todo /\ X.seen = Me.seen /\ X.folded = Me.folded
  <2>1. "sweep" \in UnderStages BY DEF UnderStages
  <2> QED BY <2>1, <1>2, <1>3, TurnOf
<1>6. Me.pc \notin HandStages BY <1>1 DEF HandStages
<1>7. \A f \in Paths \ X.listed : X.prior[f] = None => manifest'[f] = None
  <2>1. \A f \in Paths \ Me.seen : manifest[f] = Me.prior[f] BY <1>1 DEF Index, Sorted, ScanStages
  <2>2. Me.seen \subseteq Me.listed BY <1>2 DEF Index, Sorted
  <2> QED BY <2>1, <2>2, <1>1, <1>5
<1>8. manifest' \in [Paths -> code!Manifests \cup {None}] BY <1>1 DEF Index, Stored
<1>9. \A f \in Paths : manifest'[f] = manifest[f] \/ manifest'[f] = None BY <1>1
<1> QED BY <1>1, <1>2, <1>4, <1>5, <1>6, <1>7, <1>8, <1>9, AfterFiles DEF Index, Stored

LEMMA SweepOrphansKeeps ==
    ASSUME StoresAssumption, Index, code!SweepOrphans(Main)
    PROVE  Index'
<1>1. /\ UNCHANGED <<manifest, codeDigest, disk, had, dropped, edits, now>>
      /\ Me.pc = "sweep"
      /\ chunks' = [f \in Paths |-> IF Me.table /\ f \notin Me.listed /\ Me.prior[f] = None
                                    THEN <<>> ELSE chunks[f]]
  BY DEF code!SweepOrphans, code!schema, code!tree, code!Doing, Me
<1>2. Me \in Underways /\ Me.pc \in UnderStages BY <1>1, AtStage DEF UnderStages
<1>3. PICK X : X = [Me EXCEPT !.pc = "digest"] OBVIOUS
<1>4. codePass' = [codePass EXCEPT ![Main] = X] BY <1>3 DEF code!SweepOrphans, code!Turn, Me
<1>5. /\ X \in Underways /\ X.pc = "digest"
      /\ X.listed = Me.listed /\ X.todo = Me.todo /\ X.seen = Me.seen /\ X.folded = Me.folded
  <2>1. "digest" \in UnderStages BY DEF UnderStages
  <2> QED BY <2>1, <1>2, <1>3, TurnOf
<1>6. Me.pc \notin HandStages BY <1>1 DEF HandStages
<1>7. chunks' \in [Paths -> Seq(Bodies)] BY <1>1 DEF Index, Stored
<1>8. \A f \in Paths : chunks'[f] = chunks[f] \/ manifest'[f] = None
  <2>1. \A f \in Paths \ Me.listed : Me.prior[f] = None => manifest[f] = None
    BY <1>1 DEF Index, Sorted
  <2> QED BY <2>1, <1>1
<1> QED BY <1>1, <1>2, <1>4, <1>5, <1>6, <1>7, <1>8, AfterFiles DEF Index, Stored

LEMMA StoreDigestKeepsIndex ==
    ASSUME StoresAssumption, Index, code!StoreDigest(Main)
    PROVE  Index'
<1>1. /\ UNCHANGED <<manifest, chunks, disk, had, edits, now>>
      /\ Me.pc = "digest" /\ codePass' = [codePass EXCEPT ![Main] = code!Idle]
      /\ codeDigest' = [of |-> Me.folded, whole |-> ~Me.deferred]
  BY DEF code!StoreDigest, code!schema, code!tree, code!Doing, code!Becomes, Me
<1>2. Me \in Underways /\ Me.pc \in UnderStages BY <1>1, AtStage DEF UnderStages
<1>3. codeDigest' \in code!Digests BY <1>1, <1>2 DEF Underways, code!Digests
<1>4. codeDigest' # None /\ codeDigest'.of = Me.folded BY <1>1, <1>3, Consts
<1>5. Me' = code!Idle /\ Stored' /\ Alone'
  BY <1>1, <1>3, PassStepKeeps DEF Index, Stored
<1>6. Me'.pc = "rest" BY <1>5 DEF code!Idle
<1>7. \A f \in Paths, c \in Contents : Folded(f, c)' => <<f, c>> \in Me.folded BY <1>4 DEF Folded
<1>8. \A f \in Paths : code!Owed(f)' = code!Owed(f) BY <1>1 DEF code!Owed
<1>9. ManifestsFit' BY <1>1 DEF Index, ManifestsFit
<1>10. CountsSuffice' BY <1>1, <1>8 DEF Index, CountsSuffice, Stays
<1>11. Stages' BY <1>5 DEF Stages
<1>12. KnowsOfThePast'
  <2> SUFFICES ASSUME NEW f \in Paths, NEW c \in Contents, Knows(f, c)'
               PROVE  Stands(f, c)' \/ c \in had'[f]
    BY DEF KnowsOfThePast
  <2>1. Knows(f, c)
    BY <1>1, <1>2, <1>6, <1>7 DEF Knows, Stands, UnderStages, ScanStages, HandStages
  <2>2. Stands(f, c) \/ c \in had[f] BY <2>1 DEF Index, KnowsOfThePast
  <2> QED BY <2>2, <1>1 DEF Stands
<1>13. DigestVouches'
  <2> SUFFICES ASSUME NEW f \in Paths, NEW c \in Contents, Folded(f, c)', Stays(f, c)'
               PROVE  Vouched(f, c)'
    BY DEF DigestVouches
  <2>1. <<f, c>> \in Me.folded /\ Stays(f, c) BY <1>1, <1>7 DEF Stays
  <2>2. Vouched(f, c) BY <2>1, <1>1, <1>2 DEF Index, PassVouches, InHand, HandStages
  <2> QED BY <2>2, <1>1, <1>8 DEF Vouched
<1>14. PassVouches' /\ Sorted' /\ Held' /\ Emptied' /\ Writing'
  BY <1>6, BeforeFiles DEF Underways, UnderStages, ScanStages, HandStages
<1> QED BY <1>5, <1>9, <1>10, <1>11, <1>12, <1>13, <1>14, IndexBy

-----------------------------------------------------------------------------
\* The pass of another session never begins unnoticed.
LEMMA OthersRest ==
    ASSUME Index, ~disturbed', NEW w \in code!Workers, w # Main
    PROVE  ~code!Starts(w) /\ ~code!PassStep(w) /\ ~code!Killed(w)
<1>1. codePass[w].pc = "rest" BY DEF Index, Alone, code!Idle
<1>2. ~code!Starts(w)
  BY DEF code!Starts, code!CodeSearch, code!Reindex, code!ClearKeys, code!Joins
<1>3. ~code!PassStep(w)
  BY <1>1 DEF code!PassStep, code!ClearTable, code!EnsureSchema, code!LoadManifests, code!Survey,
     code!OutOfTime, code!StatFile, code!ReadFile, code!Compare, code!Forget, code!Extract,
     code!WriteChunk, code!FileDone, code!RemoveGone, code!SweepOrphans, code!StoreDigest, code!Doing
<1>4. ~code!Killed(w) BY <1>1 DEF code!Killed, code!Doing
<1> QED BY <1>2, <1>3, <1>4

LEMMA PassStepsKeep ==
    ASSUME StoresAssumption, Index, ~disturbed', code!PassStep(Main)
    PROVE  Index'
BY ClearTableKeeps, EnsureSchemaKeeps, LoadManifestsKeeps, SurveyKeeps, OutOfTimeKeepsIndex,
   StatFileKeeps, ReadFileKeeps, CompareKeeps, ForgetKeeps, ExtractKeeps, WriteChunkKeeps,
   FileDoneKeeps, RemoveGoneKeeps, SweepOrphansKeeps, StoreDigestKeepsIndex DEF code!PassStep

LEMMA IndexingKeeps ==
    ASSUME StoresAssumption, Index, ~disturbed', code!Indexing
    PROVE  Index'
<1>1. CASE code!Edit BY <1>1, EditKeeps
<1>2. CASE code!Upgrade BY <1>2, UpgradeKeeps
<1>3. CASE code!Starts(Main) BY <1>3, StartKeeps, ClearKeysKeeps DEF code!Starts
<1>4. CASE code!PassStep(Main) BY <1>4, PassStepsKeep
<1>5. CASE code!Killed(Main) BY <1>5, KilledKeeps
<1>6. \A w \in code!Workers : code!Starts(w) \/ code!PassStep(w) \/ code!Killed(w) => w = Main
  BY OthersRest
<1> QED BY <1>1, <1>2, <1>3, <1>4, <1>5, <1>6 DEF code!Indexing

LEMMA DisturbedStays ==
    ASSUME code!Indexing, disturbed
    PROVE  disturbed'
<1>1. ASSUME NEW w, code!Starts(w) PROVE disturbed'
  BY <1>1, Zenon DEF code!Starts, code!CodeSearch, code!Reindex, code!ClearKeys, code!Joins
<1>2. ASSUME NEW w, code!PassStep(w) PROVE disturbed'
  BY <1>2, Zenon DEF code!PassStep, code!ClearTable, code!EnsureSchema, code!LoadManifests, code!Survey,
     code!OutOfTime, code!StatFile, code!ReadFile, code!Compare, code!Forget, code!Extract,
     code!WriteChunk, code!FileDone, code!RemoveGone, code!SweepOrphans, code!StoreDigest
<1>3. ASSUME NEW w, code!Killed(w) PROVE disturbed' BY <1>3 DEF code!Killed
<1>4. CASE code!Edit \/ code!Upgrade BY <1>4 DEF code!Edit, code!Upgrade
<1> QED BY <1>1, <1>2, <1>3, <1>4 DEF code!Indexing

LEMMA CodeUntouched ==
    ASSUME Index, UNCHANGED codeVars
    PROVE  Index'
<1>1. /\ UNCHANGED <<disk, manifest, chunks, column, marker, embedder, codeDigest, codePass>>
      /\ UNCHANGED <<had, dropped, edits, now>>
  BY DEF codeVars
<1>2. /\ Me' = Me /\ Hand' = Hand
      /\ code!SameContent(Main)' = code!SameContent(Main)
      /\ code!Complete(Main)' = code!Complete(Main)
      /\ \A f \in Paths : InHand(f)' = InHand(f)
  BY <1>1, NothingElseMoves
<1>3. /\ ManifestsFit' /\ CountsSuffice'
      /\ \A f \in Paths, c \in Contents :
            /\ Vouched(f, c)' = Vouched(f, c)
            /\ Folded(f, c)' = Folded(f, c) /\ Stays(f, c)' = Stays(f, c)
  BY <1>1, NothingStored
<1>4. Stored' BY <1>1 DEF Index, Stored
<1>5. KnowsOfThePast' BY <1>1, <1>2, KnowsNoMore
<1>6. Alone' /\ Stages' BY <1>1, <1>2 DEF Index, Alone, Stages
<1>7. dropped' = dropped BY <1>1
<1>8. DigestVouches' BY <1>3, <1>7 DEF Index, DigestVouches
<1>9. PassVouches' BY <1>2, <1>3 DEF Index, PassVouches
<1>10. Sorted' BY <1>1, <1>2 DEF Index, Sorted
<1>11. Held' BY <1>1, <1>2 DEF Index, Held, Stays, Folded
<1>12. code!Owed(Hand)' = code!Owed(Hand) BY <1>1, <1>2 DEF code!Owed
<1>13. Emptied'
  <2>1. Emptied BY DEF Index
  <2>2. \A c \in Contents : Folded(Hand, c)' = Folded(Hand, c) /\ Stays(Hand, c)' = Stays(Hand, c)
    BY <1>1, <1>2 DEF Folded, Stays
  <2> QED BY <2>1, <2>2, <1>1, <1>2, <1>7, <1>12 DEF Emptied
<1>14. Writing' BY <1>1, <1>2 DEF Index, Writing
<1> QED BY <1>3, <1>4, <1>5, <1>6, <1>7, <1>8, <1>9, <1>10, <1>11, <1>13, <1>14, IndexBy

\* Until a pass ran beside another or without the table.
IndexInv == disturbed \/ Index

LEMMA IndexInvSteps ==
    ASSUME StoresAssumption, IndexInv, [StoresNext]_all
    PROVE  IndexInv'
<1>1. CASE IndexCode
  <2>1. code!Indexing BY <1>1 DEF IndexCode
  <2> QED BY <2>1, IndexingKeeps, DisturbedStays DEF IndexInv
<1>2. CASE RecreateDatabase BY <1>2 DEF RecreateDatabase, code!Recreate, IndexInv
<1>3. CASE Beside
  <2>1. CASE UNCHANGED codeVars BY <2>1, CodeUntouched DEF IndexInv, codeVars
  <2>2. CASE TakesCode BY <2>2 DEF TakesCode, IndexInv
  <2> QED BY <2>1, <2>2, <1>3 DEF Beside
<1>4. CASE UNCHANGED codeVars BY <1>4, CodeUntouched DEF IndexInv, codeVars
<1> QED BY <1>1, <1>2, <1>3, <1>4 DEF StoresNext, Remember, SyncCommits, UseCache, all

LEMMA IndexInvInit ==
    ASSUME StoresAssumption, StoresInit
    PROVE  Index
<1>1. PICK u \in Uses : code!From(u.code) BY DEF StoresInit
<1>2. PICK s : s = u.code OBVIOUS
<1>3. /\ disk = s.files /\ edits = s.edits /\ had = [f \in Paths |-> {}]
      /\ codePass = [w \in code!Workers |-> code!Idle] /\ now = 0
      /\ IF s.was = "unindexed" THEN code!Unindexed
         ELSE code!IndexedTree(s.files, s.was = "indexed")
  BY <1>1, <1>2 DEF code!From
<1>4. s.files \in [Paths -> code!Files \cup {None}] /\ s.edits \in Seq(code!Edits)
  BY <1>2 DEF StoresAssumption, code!CodeIndexAssumption
<1>6. PICK g \in BOOLEAN : g <=> s.was = "indexed" OBVIOUS
<1>7. \A f \in Paths : disk[f] # None =>
        /\ disk[f] \in code!Files /\ disk[f].content \in Contents /\ disk[f].mtime \in Nat
        /\ disk[f].content \in Seq(Bodies) /\ Len(disk[f].content) \in Nat
  BY <1>3, <1>4, Consts DEF code!Files
<1>8. ASSUME NEW f \in Paths, disk[f] # None, NEW m, m = [code!Recorded(disk[f]) EXCEPT !.readable = g]
      PROVE  /\ m \in code!Manifests /\ m.hash = disk[f].content /\ m.skipped = 0
             /\ m.places = code!Upto(Len(disk[f].content))
             /\ Len(m.places) = Len(disk[f].content)
  <2>1. PICK c \in Contents, t \in Nat : c = disk[f].content /\ t = disk[f].mtime BY <1>7, <1>8
  <2>2. PICK n \in Nat : n = Len(c) BY <2>1, <1>7, <1>8
  <2>3. code!Upto(n) \in Seq(Nat) /\ Len(code!Upto(n)) = n BY DEF code!Upto
  <2>4. PICK z \in Seq(Nat) : z = code!Upto(n) BY <2>3
  <2>5. code!Recorded(disk[f]) = [hash |-> c, mtime |-> t, places |-> z, skipped |-> 0, readable |-> TRUE]
    BY <2>1, <2>2, <2>4 DEF code!Recorded
  <2>6. m = [hash |-> c, mtime |-> t, places |-> z, skipped |-> 0, readable |-> g] BY <2>5, <1>8
  <2>7. m \in code!Manifests BY <2>6 DEF code!Manifests
  <2> QED BY <2>1, <2>2, <2>3, <2>4, <2>6, <2>7
<1>9. \A f \in Paths : manifest[f] # None =>
        /\ disk[f] # None /\ manifest[f] \in code!Manifests
        /\ manifest[f].hash = disk[f].content /\ manifest[f].skipped = 0
        /\ manifest[f].places = code!Upto(Len(disk[f].content))
        /\ Len(manifest[f].places) = Len(disk[f].content)
        /\ chunks[f] = disk[f].content
  <2>1. CASE code!Unindexed BY <2>1 DEF code!Unindexed
  <2>2. CASE code!IndexedTree(s.files, s.was = "indexed")
    <3>1. \A f \in Paths : manifest[f] = IF disk[f] = None THEN None
              ELSE [code!Recorded(disk[f]) EXCEPT !.readable = (s.was = "indexed")]
      BY <2>2, <1>3 DEF code!IndexedTree
    <3>2. (s.was = "indexed") = g BY <1>6
    <3>3. \A f \in Paths : manifest[f] = IF disk[f] = None THEN None
              ELSE [code!Recorded(disk[f]) EXCEPT !.readable = g]
      BY <3>1, <3>2
    <3>4. \A f \in Paths : disk[f] # None => chunks[f] = disk[f].content
      BY <2>2, <1>3 DEF code!IndexedTree
    <3> QED BY <3>3, <3>4, <1>8
  <2> QED BY <2>1, <2>2, <1>3
<1>10. manifest \in [Paths -> code!Manifests \cup {None}]
  <2>1. manifest = [f \in Paths |-> manifest[f]]
    BY <1>3 DEF code!Unindexed, code!IndexedTree
  <2> QED BY <2>1, <1>9
<1>11. chunks \in [Paths -> Seq(Bodies)]
  <2>1. CASE code!Unindexed BY <2>1 DEF code!Unindexed
  <2>2. CASE code!IndexedTree(s.files, s.was = "indexed")
    <3>1. chunks = [f \in Paths |-> IF disk[f] = None THEN <<>> ELSE disk[f].content]
      BY <2>2, <1>3 DEF code!IndexedTree
    <3>2. \A f \in Paths : (IF disk[f] = None THEN <<>> ELSE disk[f].content) \in Seq(Bodies)
      <4> TAKE f \in Paths
      <4>1. <<>> \in Seq(Bodies) OBVIOUS
      <4> QED BY <4>1, <1>7
    <3> QED BY <3>1, <3>2
  <2> QED BY <2>1, <2>2, <1>3
<1>12. \/ codeDigest = None
       \/ codeDigest = [of |-> code!CurrentDigest, whole |-> TRUE]
  BY <1>3 DEF code!Unindexed, code!IndexedTree
<1>13. \A d \in code!CurrentDigest : \E f \in Paths : disk[f] # None /\ d = <<f, disk[f].content>>
  BY DEF code!CurrentDigest, code!First, code!Listed
<1>14. codeDigest \in code!Digests \cup {None}
  <2>1. code!CurrentDigest \in SUBSET (Paths \X Contents) BY <1>7, <1>13
  <2>2. PICK d : d = code!CurrentDigest OBVIOUS
  <2>3. [of |-> d, whole |-> TRUE] \in code!Digests BY <2>1, <2>2 DEF code!Digests
  <2> QED BY <2>2, <2>3, <1>12
<1>15. \A f \in Paths, c \in Contents : Folded(f, c) => Stays(f, c)
  <2> SUFFICES ASSUME NEW f \in Paths, NEW c \in Contents, Folded(f, c) PROVE Stays(f, c) OBVIOUS
  <2>1. <<f, c>> \in code!CurrentDigest BY <1>12 DEF Folded
  <2> QED BY <2>1, <1>3, <1>13 DEF Stays
<1>16. Me = code!Idle /\ Alone /\ codePass = [w \in code!Workers |-> codePass[w]]
  BY <1>3 DEF Me, Alone, code!Workers
<1>17. Me.pc = "rest" BY <1>16 DEF code!Idle
<1>18. Stored BY <1>3, <1>4, <1>10, <1>11, <1>14, <1>16 DEF Stored
<1>20. KnowsOfThePast
  BY <1>9, <1>15, <1>17 DEF KnowsOfThePast, Knows, Stands, Stays, UnderStages, ScanStages, HandStages
<1>21. ManifestsFit BY <1>7, <1>9 DEF ManifestsFit
<1>22. Stages BY <1>16 DEF Stages
<1>24. CountsSuffice BY <1>9 DEF CountsSuffice, code!Owed
<1>25. \A f \in Paths, c \in Contents : Stays(f, c) => Vouched(f, c)
  BY <1>9 DEF Stays, Vouched, code!Owed
<1>26. DigestVouches BY <1>25 DEF DigestVouches
<1>27. PassVouches /\ Sorted /\ Held /\ Emptied /\ Writing
  BY <1>17 DEF PassVouches, Sorted, Held, Emptied, Writing, UnderStages, ScanStages, HandStages
<1> QED BY <1>16, <1>18, <1>20, <1>21, <1>22, <1>24, <1>26, <1>27 DEF Index

LEMMA IndexVouches ==
    ASSUME StoresAssumption, IndexInv
    PROVE  FreshMeansIndexed
<1> SUFFICES ASSUME code!Fresh, ~disturbed, ~dropped,
                    NEW f \in code!First(FileLimit, code!Listed) \cap code!First(DigestMax, code!Listed),
                    code!Small(f), ~code!Restored(f)
             PROVE  code!Owed(f) \/ code!Faithful(f)
  BY DEF FreshMeansIndexed, code!FreshMeansIndexed
<1>1. Index BY DEF IndexInv
<1>3. f \in Paths /\ disk[f] # None BY DEF code!First, code!Listed
<1>4. PICK c \in Contents : c = disk[f].content BY <1>1, <1>3 DEF Index, Stored, code!Files
<1>7. <<f, c>> \in code!CurrentDigest BY <1>4 DEF code!CurrentDigest
<1>8. codeDigest # None /\ <<f, c>> \in codeDigest.of
  <2>1. codeDigest = [of |-> code!CurrentDigest, whole |-> TRUE] BY DEF code!Fresh
  <2>2. code!CurrentDigest \in SUBSET (Paths \X Contents)
    <3>1. \A p \in code!Listed : p \in Paths /\ disk[p].content \in Contents
      BY <1>1 DEF code!Listed, Index, Stored, code!Files
    <3>2. code!First(DigestMax, code!Listed) \subseteq code!Listed BY DEF code!First
    <3> QED BY <3>1, <3>2 DEF code!CurrentDigest
  <2>3. codeDigest \in code!Digests BY <2>1, <2>2 DEF code!Digests
  <2> QED BY <2>1, <2>3, <1>7, Consts
<1>9. Stays(f, c) BY <1>3, <1>4 DEF Stays, code!Restored
<1>11. Vouched(f, c) BY <1>1, <1>3, <1>8, <1>9 DEF Index, DigestVouches, Folded
<1>10. code!SameRows(c, c) BY DEF code!SameRows
<1> QED BY <1>4, <1>10, <1>11 DEF Vouched, code!Faithful

\* When codesearch finds the digest fresh and leaves the index alone, the rows of every
\* file the digest covers are its chunks or its manifest admits that they are not: for any
\* tree, edits, failures and kills, as long as no pass ran beside another's or without a table;
\* but for the files that were edited back to a content they had, and until the next digest
\* where rows of another embedder were dropped.
THEOREM FreshIndexVouches ==
    ASSUME StoresAssumption
    PROVE  StoresSpec => []FreshMeansIndexed
<1>1. StoresInit => IndexInv BY IndexInvInit DEF IndexInv
<1>2. IndexInv /\ [StoresNext]_all => IndexInv' BY IndexInvSteps
<1>3. IndexInv => FreshMeansIndexed BY IndexVouches
<1> QED BY <1>1, <1>2, <1>3, PTL DEF StoresSpec
=============================================================================
