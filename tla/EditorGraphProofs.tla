------------------------- MODULE EditorGraphProofs -------------------------
(***************************************************************************)
(* Theorems about EditorGraph, for any palette, any forms, any graphs a    *)
(* job is opened with and a history of any length: every version undo or   *)
(* redo can bring back is sound, and the history is one line of versions.  *)
(* Then about what is made of such a graph (EditorCompiles): the JSON runs *)
(* what is drawn, the steps of a run are painted on their boxes, and the   *)
(* linter finds fault where the compiler does, but for what is named.      *)
(***************************************************************************)
EXTENDS EditorCompiles, FiniteSetTheorems, SequenceTheorems, WellFoundedInduction, TLAPS

-----------------------------------------------------------------------------
(* What a gesture does to one graph. *)

Drawn(g) == IsGraph(g) /\ DOMAIN g.nodes \subseteq 1 .. MaxIds /\ Sound(g)

LEMMA BoxTypes ==
  ASSUME NEW g, IsGraph(g), NEW n \in DOMAIN g.nodes
  PROVE  g.nodes[n] \in NodeData
BY DEF IsGraph

\* A new box has no links yet.
LEMMA WithIsDrawn ==
  ASSUME NEW g, Drawn(g), NEW i \in 1 .. MaxIds, i \notin DOMAIN g.nodes,
         NEW d, IsBox(d)
  PROVE  Drawn(With(g, i, d))
<1> DEFINE h == With(g, i, d)
<1>1. /\ g = [nodes |-> g.nodes, links |-> g.links]
      /\ g.nodes \in [DOMAIN g.nodes -> NodeData]
      /\ g.links \in SUBSET [from: Nat, to: Nat, at: Handle]
  BY DEF Drawn, IsGraph
<1>2. /\ h = [nodes |-> h.nodes, links |-> h.links]
      /\ h.links = g.links /\ DOMAIN h.nodes = DOMAIN g.nodes \union {i}
      /\ h.nodes[i] = d
      /\ \A n \in DOMAIN g.nodes : h.nodes[n] = g.nodes[n]
      /\ h.nodes \in [DOMAIN h.nodes -> NodeData]
  BY <1>1 DEF With, IsBox
<1>3. IsGraph(h) /\ DOMAIN h.nodes \subseteq 1 .. MaxIds
  <2>1. DOMAIN h.nodes \subseteq 1 .. MaxIds BY <1>2 DEF Drawn
  <2>2. 1 .. MaxIds \subseteq Nat BY BoundsAssumption
  <2>3. \A n \in DOMAIN h.nodes : IsBox(h.nodes[n])
    BY <1>2 DEF Drawn, IsGraph
  <2>4. h \in [nodes: [DOMAIN h.nodes -> NodeData], links: SUBSET [from: Nat, to: Nat, at: Handle]]
    BY <1>1, <1>2
  <2> QED BY <2>1, <2>2, <2>3, <2>4 DEF IsGraph
<1>4. LinksHaveEnds(h) /\ LinksAreAllowed(h) /\ OneLinkPerInput(h)
  BY <1>2 DEF Drawn, Sound, LinksHaveEnds, LinksAreAllowed, OneLinkPerInput
<1>5. Acyclic(h)
  <2> SUFFICES ASSUME NEW S \in SUBSET (DOMAIN h.nodes), S # {}
               PROVE  \E n \in S : \A l \in h.links : l.to = n => l.from \notin S
    BY DEF Acyclic
  <2>1. CASE i \in S
    BY <2>1, <1>2 DEF Drawn, Sound, LinksHaveEnds
  <2>2. CASE i \notin S
    BY <2>2, <1>2 DEF Drawn, Sound, Acyclic
  <2> QED BY <2>1, <2>2
<1> QED BY <1>3, <1>4, <1>5 DEF Drawn, Sound

\* A link drawn upward from no box below it closes no loop.
LEMMA ConnectedIsDrawn ==
  ASSUME NEW g, Drawn(g), NEW a \in DOMAIN g.nodes, NEW b \in DOMAIN g.nodes,
         NEW handle \in Handle, handle \in Inputs(g.nodes[b]), CanConnect(g, a, b)
  PROVE  Drawn(Connected(g, a, b, handle))
<1> DEFINE h == Connected(g, a, b, handle)
           new == [from |-> a, to |-> b, at |-> handle]
<1>1. /\ g = [nodes |-> g.nodes, links |-> g.links]
      /\ g.nodes \in [DOMAIN g.nodes -> NodeData]
      /\ g.links \in SUBSET [from: Nat, to: Nat, at: Handle]
  BY DEF Drawn, IsGraph
<1>2. /\ h = [nodes |-> h.nodes, links |-> h.links]
      /\ h.nodes = g.nodes
      /\ h.links = {l \in g.links : ~(l.to = b /\ l.at = handle)} \union {new}
  BY <1>1 DEF Connected
<1>3. IsGraph(h) /\ DOMAIN h.nodes \subseteq 1 .. MaxIds
  <2>1. new \in [from: Nat, to: Nat, at: Handle] BY DEF Drawn, IsGraph
  <2> QED BY <1>1, <1>2, <2>1 DEF Drawn, IsGraph
<1>4. LinksHaveEnds(h)
  BY <1>2 DEF Drawn, Sound, LinksHaveEnds
<1>5. LinksAreAllowed(h)
  BY <1>2 DEF Drawn, Sound, LinksAreAllowed, CanConnect
<1>6. OneLinkPerInput(h)
  BY <1>2 DEF Drawn, Sound, OneLinkPerInput
<1>7. Acyclic(h)
  <2>1. PICK D \in SUBSET (DOMAIN g.nodes \ {a, b}) : Downward(g.links, D \union {b})
    BY DEF CanConnect, CreatesCycle
  <2>2. a # b BY DEF CanConnect, CreatesCycle
  <2> DEFINE below == D \union {b}
  <2>3. /\ \A l \in g.links : l.from \in below => l.to \in below
        /\ a \notin below
    BY <2>1, <2>2 DEF Downward
  <2>4. \A l \in h.links : l \in g.links \/ l = new BY <1>2
  <2> HIDE DEF below
  <2> SUFFICES ASSUME NEW S \in SUBSET (DOMAIN g.nodes), S # {}
               PROVE  \E n \in S : \A l \in h.links : l.to = n => l.from \notin S
    BY <1>2 DEF Acyclic
  <2>5. CASE S \subseteq below
    <3>1. PICK n \in S : \A l \in g.links : l.to = n => l.from \notin S
      BY DEF Drawn, Sound, Acyclic
    <3> QED BY <3>1, <2>3, <2>4, <2>5
  <2>6. CASE ~(S \subseteq below)
    <3>1. PICK n \in S \ below : \A l \in g.links : l.to = n => l.from \notin S \ below
      BY <2>6 DEF Drawn, Sound, Acyclic
    <3>2. b \in below BY DEF below
    <3> QED BY <3>1, <3>2, <2>3, <2>4
  <2> QED BY <2>5, <2>6
<1> QED BY <1>3, <1>4, <1>5, <1>6, <1>7 DEF Drawn, Sound

\* Fewer links, and the boxes none of them touches.
LEMMA LessIsDrawn ==
  ASSUME NEW g, Drawn(g), NEW links \in SUBSET g.links, NEW nodes \in SUBSET (DOMAIN g.nodes),
         \A l \in links : {l.from, l.to} \subseteq nodes
  PROVE  Drawn([nodes |-> [n \in nodes |-> g.nodes[n]], links |-> links])
<1> DEFINE h == [nodes |-> [n \in nodes |-> g.nodes[n]], links |-> links]
<1>1. /\ DOMAIN h.nodes = nodes /\ h.links = links
      /\ \A n \in nodes : h.nodes[n] = g.nodes[n]
  OBVIOUS
<1>2. IsGraph(h) /\ DOMAIN h.nodes \subseteq 1 .. MaxIds
  BY <1>1 DEF Drawn, IsGraph
<1> HIDE DEF h
<1>3. LinksHaveEnds(h) /\ LinksAreAllowed(h) /\ OneLinkPerInput(h)
  BY <1>1 DEF Drawn, Sound, LinksHaveEnds, LinksAreAllowed, OneLinkPerInput
<1>4. Acyclic(h)
  BY <1>1 DEF Drawn, Sound, Acyclic
<1>5. Drawn(h) BY <1>2, <1>3, <1>4 DEF Drawn, Sound
<1> QED BY <1>5 DEF h

\* Another value in the form of a box that keeps its inputs and its output.
LEMMA EditedIsDrawn ==
  ASSUME NEW g, Drawn(g), NEW n \in DOMAIN g.nodes, NEW d \in NodeData,
         d.kind = g.nodes[n].kind, d.role = g.nodes[n].role,
         d.what \in Dual <=> g.nodes[n].what \in Dual,
         d.muted => d.kind \in {"transform", "validation"}
  PROVE  Drawn([g EXCEPT !.nodes[n] = d])
<1> DEFINE h == [g EXCEPT !.nodes[n] = d]
<1>1. /\ g = [nodes |-> g.nodes, links |-> g.links]
      /\ g.nodes \in [DOMAIN g.nodes -> NodeData]
      /\ g.links \in SUBSET [from: Nat, to: Nat, at: Handle]
  BY DEF Drawn, IsGraph
<1>2. /\ h = [nodes |-> h.nodes, links |-> h.links]
      /\ h.links = g.links /\ DOMAIN h.nodes = DOMAIN g.nodes
      /\ h.nodes \in [DOMAIN h.nodes -> NodeData]
      /\ \A m \in DOMAIN g.nodes : h.nodes[m] = IF m = n THEN d ELSE g.nodes[m]
  BY <1>1
<1> HIDE DEF h
<1>3. \A m \in DOMAIN g.nodes :
        /\ h.nodes[m].role = g.nodes[m].role /\ h.nodes[m].kind = g.nodes[m].kind
        /\ h.nodes[m].what \in Dual <=> g.nodes[m].what \in Dual
  BY <1>2
<1>4. IsGraph(h) /\ DOMAIN h.nodes \subseteq 1 .. MaxIds
  <2>1. h \in [nodes: [DOMAIN h.nodes -> NodeData], links: SUBSET [from: Nat, to: Nat, at: Handle]]
    BY <1>1, <1>2
  <2>2. \A m \in DOMAIN h.nodes : IsBox(h.nodes[m])
    BY <1>2, <1>3 DEF Drawn, IsGraph, IsBox
  <2> QED BY <2>1, <2>2, <1>2 DEF Drawn, IsGraph
<1>5. \A m \in DOMAIN g.nodes :
        /\ Inputs(h.nodes[m]) = Inputs(g.nodes[m])
        /\ \A k \in DOMAIN g.nodes : MayFeed(h.nodes[k], h.nodes[m]) = MayFeed(g.nodes[k], g.nodes[m])
  BY <1>3 DEF Inputs, MayFeed, HasOutput, IsValidationSink
<1>6. LinksHaveEnds(h) /\ OneLinkPerInput(h) /\ Acyclic(h)
  BY <1>2 DEF Drawn, Sound, LinksHaveEnds, OneLinkPerInput, Acyclic
<1>7. LinksAreAllowed(h)
  BY <1>2, <1>5 DEF Drawn, Sound, LinksHaveEnds, LinksAreAllowed
<1>8. Drawn(h) BY <1>4, <1>6, <1>7 DEF Drawn, Sound
<1> QED BY <1>8 DEF h

-----------------------------------------------------------------------------
(* The history.                                                            *)

LEMMA SeqFacts ==
  ASSUME NEW S, NEW s \in Seq(S)
  PROVE  /\ Len(s) \in Nat /\ DOMAIN s = 1 .. Len(s)
         /\ \A i \in 1 .. Len(s) : s[i] \in S
         /\ s = <<>> <=> Len(s) = 0
         /\ \A T : (\A i \in 1 .. Len(s) : s[i] \in T) => s \in Seq(T)
OBVIOUS

LEMMA LatestIs ==
  ASSUME NEW S, NEW s \in Seq(S)
  PROVE  /\ Latest(s) \in Seq(S)
         /\ Len(Latest(s)) = IF Len(s) > HistoryLimit THEN HistoryLimit ELSE Len(s)
         /\ \A i \in 1 .. Len(Latest(s)) : Latest(s)[i] = s[i + Len(s) - Len(Latest(s))]
<1>1. HistoryLimit \in Nat BY BoundsAssumption
<1>2. CASE Len(s) > HistoryLimit
  <2>1. /\ Len(s) \in Nat /\ Len(s) - HistoryLimit + 1 \in Int
        /\ \A i \in Len(s) - HistoryLimit + 1 .. Len(s) : s[i] \in S
    BY <1>1, <1>2
  <2>2. Latest(s) = SubSeq(s, Len(s) - HistoryLimit + 1, Len(s)) BY <1>2 DEF Latest
  <2>3. /\ Latest(s) \in Seq(S)
        /\ Len(Latest(s)) = HistoryLimit
        /\ \A i \in 1 .. HistoryLimit : Latest(s)[i] = s[Len(s) - HistoryLimit + 1 + i - 1]
    <3> DEFINE m == Len(s) - HistoryLimit + 1
    <3>1. m \in Int /\ Len(s) \in Int /\ Len(s) - m + 1 = HistoryLimit
          /\ (m <= Len(s) \/ HistoryLimit = 0)
      BY <1>1, <2>1
    <3>2. /\ SubSeq(s, m, Len(s)) \in Seq(S)
          /\ Len(SubSeq(s, m, Len(s))) = IF m <= Len(s) THEN Len(s) - m + 1 ELSE 0
          /\ \A i \in 1 .. Len(s) - m + 1 : SubSeq(s, m, Len(s))[i] = s[m + i - 1]
      BY <2>1, <3>1, SubSeqProperties
    <3> QED BY <1>1, <2>1, <2>2, <3>1, <3>2
  <2> QED BY <1>1, <1>2, <2>1, <2>3
<1>3. CASE ~(Len(s) > HistoryLimit)
  BY <1>1, <1>3 DEF Latest
<1> QED BY <1>2, <1>3

-----------------------------------------------------------------------------
(* The invariant. Between the two callbacks of a canvas delete no link      *)
(* touches the boxes that are about to go; and whatever goes on with the    *)
(* entry of the commit before it finds nothing to redo.                     *)

CanvasInv ==
  /\ VersionsAreSound
  /\ Touching(graph, doomed) = {}
  /\ doomed # {} => commits <= MaxCommits
  /\ turn \/ key # NoKey => future = <<>>

Keys == (0 .. MaxIds) \X {"none", "disabled", "field"}

HistoryOK ==
  /\ past \in Seq(Versions) /\ future \in Seq(Versions)
  /\ \A g \in Versions : Drawn(g)
  /\ Len(past) + Len(future) <= HistoryLimit

LEMMA InvInParts ==
  CanvasInv <=>
    /\ HistoryOK
    /\ key \in Keys /\ turn \in BOOLEAN /\ doomed \subseteq Boxes /\ (turn => doomed # {})
    /\ commits \in 0 .. MaxCommits + 1
    /\ Touching(graph, doomed) = {}
    /\ doomed # {} => commits <= MaxCommits
    /\ turn \/ key # NoKey => future = <<>>
BY DEF CanvasInv, VersionsAreSound, TypeOK, HistoryOK, Drawn, Keys

LEMMA InvAgain ==
  ASSUME HistoryOK',
         key' \in Keys, turn' \in BOOLEAN, (doomed \subseteq Boxes)', turn' => doomed' # {},
         commits' \in 0 .. MaxCommits + 1,
         Touching(graph, doomed)' = {},
         doomed' # {} => commits' <= MaxCommits,
         turn' \/ key' # NoKey => future' = <<>>
  PROVE  CanvasInv'
BY DEF CanvasInv, VersionsAreSound, TypeOK, HistoryOK, Drawn, Keys

LEMMA VersionsAre ==
  ASSUME HistoryOK
  PROVE  /\ graph \in Versions /\ Drawn(graph)
         /\ Len(past) \in Nat /\ Len(future) \in Nat
         /\ \A i \in 1 .. Len(past) : past[i] \in Versions
         /\ \A i \in 1 .. Len(future) : future[i] \in Versions
<1>1. graph \in Versions BY DEF Versions
<1>2. past \in Seq(Versions) /\ future \in Seq(Versions) BY DEF HistoryOK
<1> QED BY <1>1, <1>2 DEF HistoryOK

\* A history made of graphs that are drawn, in any number.
LEMMA HistoryOf ==
  ASSUME NEW S, past' \in Seq(S), future' \in Seq(S), graph' \in S, \A g \in S : Drawn(g),
         Len(past') + Len(future') <= HistoryLimit
  PROVE  HistoryOK'
<1>1. /\ DOMAIN past' = 1 .. Len(past') /\ DOMAIN future' = 1 .. Len(future')
      /\ \A i \in 1 .. Len(past') : past'[i] \in S
      /\ \A i \in 1 .. Len(future') : future'[i] \in S
  OBVIOUS
<1>2. Versions' = {past'[i] : i \in DOMAIN past'} \union {future'[i] : i \in DOMAIN future'}
                  \union {graph'}
  BY DEF Versions
<1>3. Versions' \subseteq S BY <1>1, <1>2
<1>4. /\ \A i \in 1 .. Len(past') : past'[i] \in Versions'
      /\ \A i \in 1 .. Len(future') : future'[i] \in Versions'
  BY <1>1, <1>2
<1>5. past' \in Seq(Versions') BY <1>4, SeqFacts
<1>6. future' \in Seq(Versions') BY <1>4, SeqFacts
<1>7. \A g \in Versions' : Drawn(g) BY <1>3
<1> QED BY <1>5, <1>6, <1>7 DEF HistoryOK, Drawn

\* A commit adds the version before it and drops what was undone.
LEMMA CommittedHistory ==
  ASSUME HistoryOK, NEW joins \in BOOLEAN, NEW field, Committed(joins, field),
         joins => future = <<>>, Drawn(graph')
  PROVE  HistoryOK' /\ future' = <<>>
<1> DEFINE S == Versions \union {graph'}
<1>1. past \in Seq(S) /\ graph \in S /\ graph' \in S /\ \A g \in S : Drawn(g)
  <2>1. \A i \in 1 .. Len(past) : past[i] \in S BY VersionsAre
  <2>2. past \in Seq(Versions) BY DEF HistoryOK
  <2>3. past \in Seq(S) BY <2>1, <2>2, SeqFacts
  <2> QED BY <2>3, VersionsAre DEF HistoryOK
<1> HIDE DEF S
<1>2. HistoryLimit \in Nat BY BoundsAssumption
<1>3. CASE joins
  <2>1. past' = past /\ future' = <<>> /\ future = <<>> BY <1>3 DEF Committed
  <2>2. Len(past') + Len(future') <= HistoryLimit BY <2>1 DEF HistoryOK
  <2> QED BY <1>1, <2>1, <2>2, HistoryOf
<1>4. CASE ~joins
  <2>1. past' = Latest(Append(past, graph)) /\ future' = <<>> BY <1>4 DEF Committed
  <2>2. Append(past, graph) \in Seq(S) BY <1>1
  <2>3. /\ past' \in Seq(S)
        /\ Len(past') = IF Len(Append(past, graph)) > HistoryLimit THEN HistoryLimit
                        ELSE Len(Append(past, graph))
    BY <2>1, <2>2, LatestIs
  <2>4. Len(past') + Len(future') <= HistoryLimit BY <2>1, <2>2, <2>3, <1>2
  <2> QED BY <1>1, <2>1, <2>3, <2>4, HistoryOf
<1> QED BY <1>3, <1>4

\* A commit from a handler of its own, or of a field.
LEMMA CommitKeeps ==
  ASSUME CanvasInv, NEW g, Drawn(g), Commit(g)
  PROVE  CanvasInv'
<1>1. Still /\ CanCommit /\ graph' = g /\ Committed(FALSE, NoKey) /\ UNCHANGED <<turn, doomed>>
  BY DEF Commit
<1>2. doomed' = {} /\ ~turn' /\ key' = NoKey /\ commits' = commits + 1
  BY <1>1, InvInParts DEF Still, Committed
<1>3. HistoryOK BY InvInParts
<1>4. HistoryOK' /\ future' = <<>> BY <1>1, <1>3, CommittedHistory
<1>5. commits' \in 0 .. MaxCommits + 1 /\ NoKey \in Keys
  BY <1>1, <1>2, InvInParts, BoundsAssumption DEF CanCommit, NoKey, Keys
<1>6. Touching(graph', doomed') = {} BY <1>2 DEF Touching
<1>7. turn' \in BOOLEAN BY <1>1, InvInParts
<1> QED BY <1>2, <1>4, <1>5, <1>6, <1>7, InvAgain DEF Touching

LEMMA CommitFieldKeeps ==
  ASSUME CanvasInv, NEW g, Drawn(g), NEW n \in Boxes, NEW name \in {"disabled", "field"},
         CommitField(g, <<n, name>>)
  PROVE  CanvasInv'
<1>1. PICK joins \in {FALSE, key = <<n, name>>} : Committed(joins, <<n, name>>)
  BY DEF CommitField
<1>2. Still /\ CanCommit /\ graph' = g /\ UNCHANGED <<turn, doomed>>
  BY DEF CommitField
<1>3. doomed' = {} /\ ~turn' /\ key' = <<n, name>> /\ commits' = commits + 1 /\ turn' \in BOOLEAN
  BY <1>1, <1>2, InvInParts DEF Still, Committed
<1>4. HistoryOK BY InvInParts
<1>5. n \in 1 .. MaxIds
  BY <1>4, VersionsAre DEF Boxes, Drawn
<1>6. joins \in BOOLEAN /\ (joins => future = <<>>)
  <2>1. joins = FALSE \/ joins = (key = <<n, name>>) BY <1>1
  <2>2. <<n, name>> # NoKey BY <1>5, BoundsAssumption DEF NoKey
  <2>3. key = <<n, name>> => future = <<>> BY <2>2, InvInParts
  <2> QED BY <2>1, <2>3, Zenon
<1>7. HistoryOK' /\ future' = <<>> BY <1>1, <1>2, <1>4, <1>6, CommittedHistory
<1>8. commits' \in 0 .. MaxCommits + 1 /\ key' \in Keys
  BY <1>2, <1>3, <1>5, InvInParts, BoundsAssumption DEF CanCommit, Keys
<1>9. Touching(graph', doomed') = {} BY <1>3 DEF Touching
<1> QED BY <1>3, <1>7, <1>8, <1>9, InvAgain DEF Touching

\* A new box has a number no version uses, and the delete key two callbacks.
LEMMA InsertKeeps ==
  ASSUME CanvasInv, NEW d, IsBox(d), Insert(d)
  PROVE  CanvasInv'
<1>1. PICK i \in 1 .. MaxIds : IsNext(i) /\ Commit(With(graph, i, d)) BY DEF Insert
<1>2. HistoryOK BY InvInParts
<1>3. graph \in Versions /\ Drawn(graph) BY <1>2, VersionsAre
<1>4. i \notin DOMAIN graph.nodes
  <2>1. \A n \in DOMAIN graph.nodes : n < i BY <1>1, <1>3 DEF IsNext, InUse
  <2> QED BY <2>1
<1>5. Drawn(With(graph, i, d)) BY <1>3, <1>4, WithIsDrawn
<1> QED BY <1>1, <1>5, CommitKeeps

LEMMA FewerLinksIsDrawn ==
  ASSUME NEW g, Drawn(g), NEW gone
  PROVE  Drawn([g EXCEPT !.links = @ \ gone])
<1>1. g.nodes = [n \in DOMAIN g.nodes |-> g.nodes[n]] /\ g = [nodes |-> g.nodes, links |-> g.links]
  BY DEF Drawn, IsGraph
<1>2. [g EXCEPT !.links = @ \ gone] = [nodes |-> [n \in DOMAIN g.nodes |-> g.nodes[n]],
                                       links |-> g.links \ gone]
  BY <1>1
<1>3. \A l \in g.links \ gone : {l.from, l.to} \subseteq DOMAIN g.nodes
  BY DEF Drawn, Sound, LinksHaveEnds
<1>4. Drawn([nodes |-> [n \in DOMAIN g.nodes |-> g.nodes[n]], links |-> g.links \ gone])
  BY <1>3, LessIsDrawn
<1> QED BY <1>2, <1>4

LEMMA DeleteLinksKeeps ==
  ASSUME CanvasInv, NEW ids \in SUBSET Boxes, NEW links \in SUBSET graph.links, DeleteLinks(ids, links)
  PROVE  CanvasInv'
<1> DEFINE gone == links \union Touching(graph, ids)
<1>1. Still /\ CanCommit /\ doomed' = ids BY DEF DeleteLinks
<1>2. HistoryOK /\ ~turn BY <1>1, InvInParts DEF Still
<1>3. Drawn(graph) BY <1>2, VersionsAre
<1>4. CASE gone = {}
  <2>1. UNCHANGED <<graph, past, future, key, turn, commits>> BY <1>4 DEF DeleteLinks
  <2>2. HistoryOK'
    BY <1>2, <2>1 DEF HistoryOK, Versions
  <2>3. Boxes' = Boxes /\ Touching(graph, doomed)' = Touching(graph, ids) BY <1>1, <2>1 DEF Boxes, Touching
  <2>4. doomed' # {} => commits' <= MaxCommits
    BY <1>1, <2>1, InvInParts, BoundsAssumption DEF CanCommit
  <2> QED BY <1>1, <1>2, <1>4, <2>1, <2>2, <2>3, <2>4, InvInParts, InvAgain
<1>5. CASE gone # {}
  <2>1. /\ graph' = [graph EXCEPT !.links = @ \ gone]
        /\ Committed(FALSE, NoKey) /\ turn' = (ids # {})
    BY <1>5 DEF DeleteLinks
  <2>2. HistoryOK' /\ future' = <<>>
    BY <1>2, <1>3, <2>1, FewerLinksIsDrawn, CommittedHistory
  <2>3. Boxes' = Boxes /\ Touching(graph, doomed)' = {}
    BY <1>1, <1>3, <2>1 DEF Boxes, Touching, Drawn, IsGraph
  <2>4. commits' = commits + 1 /\ commits' <= MaxCommits /\ key' = NoKey
    BY <1>1, <2>1, InvInParts, BoundsAssumption DEF CanCommit, Committed
  <2>5. key' \in Keys /\ turn' \in BOOLEAN /\ commits' \in 0 .. MaxCommits + 1
    BY <2>1, <2>4, InvInParts, BoundsAssumption DEF NoKey, Keys
  <2> QED BY <1>1, <2>1, <2>2, <2>3, <2>4, <2>5, InvAgain
<1> QED BY <1>4, <1>5

LEMMA DeleteNodesKeeps ==
  ASSUME CanvasInv, DeleteNodes
  PROVE  CanvasInv'
<1>1. /\ doomed # {} /\ Committed(turn, NoKey) /\ turn' = FALSE /\ doomed' = {}
      /\ graph' = [graph EXCEPT !.nodes = [n \in DOMAIN graph.nodes \ doomed |-> graph.nodes[n]]]
  BY DEF DeleteNodes
<1>2. HistoryOK /\ turn \in BOOLEAN /\ (turn => future = <<>>) BY InvInParts
<1>3. Drawn(graph) BY <1>2, VersionsAre
<1>4. Drawn(graph')
  <2>1. graph' = [nodes |-> [n \in DOMAIN graph.nodes \ doomed |-> graph.nodes[n]], links |-> graph.links]
    BY <1>1, <1>3 DEF Drawn, IsGraph
  <2>2. \A l \in graph.links : {l.from, l.to} \subseteq DOMAIN graph.nodes \ doomed
    BY <1>3, InvInParts DEF Drawn, Sound, LinksHaveEnds, Touching
  <2> QED BY <1>3, <2>1, <2>2, LessIsDrawn
<1>5. HistoryOK' /\ future' = <<>> BY <1>1, <1>2, <1>4, CommittedHistory
<1>6. commits' = commits + 1 /\ commits' \in 0 .. MaxCommits + 1 /\ key' = NoKey
  BY <1>1, InvInParts, BoundsAssumption DEF Committed
<1>7. Touching(graph', doomed') = {} /\ NoKey \in Keys
  BY <1>1, BoundsAssumption DEF Touching, NoKey, Keys
<1> QED BY <1>1, <1>5, <1>6, <1>7, InvAgain DEF Touching

\* Undo and redo move versions about; none is made and none is lost.
LEMMA UndoMoves ==
  ASSUME CanvasInv, Undo
  PROVE  /\ past' \in Seq(Versions) /\ future' \in Seq(Versions) /\ graph' \in Versions
         /\ Len(past') = Len(past) - 1 /\ Len(future') = Len(future) + 1
         /\ \A i \in 1 .. Len(past') : past'[i] = past[i]
         /\ graph' = past[Len(past)]
         /\ \A i \in 1 .. Len(future') : future'[i] = IF i = 1 THEN graph ELSE future[i - 1]
<1>1. /\ past # <<>> /\ graph' = past[Len(past)] /\ past' = SubSeq(past, 1, Len(past) - 1)
      /\ future' = SubSeq(<<graph>> \o future, 1, IF Len(future) < HistoryLimit THEN Len(future) + 1
                                                  ELSE HistoryLimit)
  BY DEF Undo
<1>2. /\ past \in Seq(Versions) /\ future \in Seq(Versions) /\ graph \in Versions
      /\ Len(past) + Len(future) <= HistoryLimit
  BY InvInParts, VersionsAre DEF HistoryOK
<1>3. Len(past) \in Nat \ {0} /\ Len(future) \in Nat /\ HistoryLimit \in Nat
  BY <1>1, <1>2, BoundsAssumption
<1>4. /\ past' \in Seq(Versions) /\ Len(past') = Len(past) - 1
      /\ \A i \in 1 .. Len(past') : past'[i] = past[i]
  <2> DEFINE n == Len(past) - 1
  <2>1. n \in Int /\ \A i \in 1 .. n : past[i] \in Versions BY <1>2, <1>3
  <2>2. /\ SubSeq(past, 1, n) \in Seq(Versions)
        /\ Len(SubSeq(past, 1, n)) = IF 1 <= n THEN n - 1 + 1 ELSE 0
        /\ \A i \in 1 .. n - 1 + 1 : SubSeq(past, 1, n)[i] = past[1 + i - 1]
    BY <2>1, SubSeqProperties
  <2> HIDE DEF n
  <2>3. \A i \in 1 .. n : i \in 1 .. n - 1 + 1 /\ 1 + i - 1 = i BY <2>1
  <2>4. \A i \in 1 .. n : SubSeq(past, 1, n)[i] = past[i] BY <2>2, <2>3
  <2>5. n \in Nat BY <1>3 DEF n
  <2>6. Len(SubSeq(past, 1, n)) = n BY <2>2, <2>5
  <2>7. past' = SubSeq(past, 1, n) BY <1>1 DEF n
  <2>8. n = Len(past) - 1 BY DEF n
  <2> QED BY <2>2, <2>4, <2>6, <2>7, <2>8, Zenon
<1>5. future' = SubSeq(<<graph>> \o future, 1, Len(future) + 1)
  BY <1>1, <1>2, <1>3
<1>6. /\ <<graph>> \o future \in Seq(Versions) /\ Len(<<graph>> \o future) = Len(future) + 1
      /\ \A i \in 1 .. Len(future) + 1 :
           (<<graph>> \o future)[i] = IF i = 1 THEN graph ELSE future[i - 1]
  BY <1>2, <1>3
<1>7. future' = <<graph>> \o future BY <1>5, <1>6, SubSeqFull
<1> QED BY <1>1, <1>2, <1>3, <1>4, <1>6, <1>7

LEMMA RedoMoves ==
  ASSUME CanvasInv, Redo
  PROVE  /\ past' \in Seq(Versions) /\ future' \in Seq(Versions) /\ graph' \in Versions
         /\ Len(past') = Len(past) + 1 /\ Len(future') = Len(future) - 1
         /\ \A i \in 1 .. Len(past') : past'[i] = IF i = Len(past') THEN graph ELSE past[i]
         /\ graph' = future[1]
         /\ \A i \in 1 .. Len(future') : future'[i] = future[i + 1]
<1>1. /\ future # <<>> /\ graph' = future[1] /\ past' = Latest(Append(past, graph))
      /\ future' = SubSeq(future, 2, Len(future))
  BY DEF Redo
<1>2. /\ past \in Seq(Versions) /\ future \in Seq(Versions) /\ graph \in Versions
      /\ Len(past) + Len(future) <= HistoryLimit
  BY InvInParts, VersionsAre DEF HistoryOK
<1>3. Len(future) \in Nat \ {0} /\ Len(past) \in Nat /\ HistoryLimit \in Nat
  BY <1>1, <1>2, BoundsAssumption
<1>4. /\ future' \in Seq(Versions) /\ Len(future') = Len(future) - 1
      /\ \A i \in 1 .. Len(future') : future'[i] = future[i + 1]
  <2> DEFINE n == Len(future)
  <2>1. n \in Int /\ 2 \in Int /\ \A i \in 2 .. n : future[i] \in Versions BY <1>2, <1>3
  <2>2. /\ SubSeq(future, 2, n) \in Seq(Versions)
        /\ Len(SubSeq(future, 2, n)) = IF 2 <= n THEN n - 2 + 1 ELSE 0
        /\ \A i \in 1 .. n - 2 + 1 : SubSeq(future, 2, n)[i] = future[2 + i - 1]
    BY <2>1, SubSeqProperties
  <2>3. Len(SubSeq(future, 2, n)) = n - 1 BY <1>3, <2>2
  <2> HIDE DEF n
  <2>4. \A i \in 1 .. n - 1 : i \in 1 .. n - 2 + 1 /\ 2 + i - 1 = i + 1 BY <2>1
  <2>5. \A i \in 1 .. n - 1 : SubSeq(future, 2, n)[i] = future[i + 1] BY <2>2, <2>4
  <2>6. n = Len(future) BY DEF n
  <2>7. future' = SubSeq(future, 2, n) BY <1>1, <2>6
  <2> QED BY <2>2, <2>3, <2>5, <2>6, <2>7, Zenon
<1>5. past' = Append(past, graph)
  BY <1>1, <1>2, <1>3 DEF Latest
<1>6. /\ past' \in Seq(Versions) /\ Len(past') = Len(past) + 1
      /\ \A i \in 1 .. Len(past') : past'[i] = IF i = Len(past') THEN graph ELSE past[i]
  BY <1>2, <1>3, <1>5
<1> QED BY <1>1, <1>2, <1>3, <1>4, <1>6

LEMMA MoveKeeps ==
  ASSUME CanvasInv, Undo \/ Redo
  PROVE  CanvasInv'
<1>1. Still /\ key' = NoKey /\ UNCHANGED <<turn, doomed, commits>> BY DEF Undo, Redo
<1>2. /\ past' \in Seq(Versions) /\ future' \in Seq(Versions) /\ graph' \in Versions
      /\ Len(past') + Len(future') = Len(past) + Len(future)
  <2>1. Len(past) \in Nat /\ Len(future) \in Nat BY InvInParts, VersionsAre
  <2>2. CASE Undo
    <3>1. /\ past' \in Seq(Versions) /\ future' \in Seq(Versions) /\ graph' \in Versions
          /\ Len(past') = Len(past) - 1 /\ Len(future') = Len(future) + 1
      BY <2>2, UndoMoves, Zenon
    <3> QED BY <2>1, <3>1
  <2>3. CASE Redo
    <3>1. /\ past' \in Seq(Versions) /\ future' \in Seq(Versions) /\ graph' \in Versions
          /\ Len(past') = Len(past) + 1 /\ Len(future') = Len(future) - 1
      BY <2>3, RedoMoves, Zenon
    <3> QED BY <2>1, <3>1
  <2> QED BY <2>2, <2>3
<1>3. /\ \A g \in Versions : Drawn(g)
      /\ Len(past) + Len(future) <= HistoryLimit
  BY InvInParts DEF HistoryOK
<1>4. HistoryOK' BY <1>2, <1>3, HistoryOf
<1>5. doomed' = {} /\ ~turn' /\ turn' \in BOOLEAN /\ commits' \in 0 .. MaxCommits + 1 /\ key' \in Keys
  BY <1>1, InvInParts, BoundsAssumption DEF Still, NoKey, Keys
<1> QED BY <1>1, <1>4, <1>5, InvAgain DEF Touching

LEMMA ImportedIsDrawn == \A g \in Imported : Drawn(g)
BY ImportedAssumption DEF Drawn

LEMMA OpenKeeps ==
  ASSUME CanvasInv, NEW g \in Imported, Open(g)
  PROVE  CanvasInv'
<1>1. /\ Still /\ graph' = g /\ past' = <<>> /\ future' = <<>> /\ key' = NoKey /\ commits' = 0
      /\ UNCHANGED <<turn, doomed>>
  BY DEF Open
<1>2. HistoryOK'
  <2>1. past' \in Seq({g}) /\ future' \in Seq({g}) /\ graph' \in {g}
        /\ Len(past') + Len(future') <= HistoryLimit
    BY <1>1, BoundsAssumption
  <2>2. \A h \in {g} : Drawn(h) BY ImportedIsDrawn
  <2> QED BY <2>1, <2>2, HistoryOf
<1>3. doomed' = {} /\ ~turn' /\ turn' \in BOOLEAN /\ commits' \in 0 .. MaxCommits + 1 /\ key' \in Keys
  BY <1>1, InvInParts, BoundsAssumption DEF Still, NoKey, Keys
<1> QED BY <1>1, <1>2, <1>3, InvAgain DEF Touching

LEMMA CanvasInit == Init => CanvasInv
<1> SUFFICES ASSUME Init PROVE CanvasInv
  OBVIOUS
<1>1. /\ graph \in Imported /\ past = <<>> /\ future = <<>> /\ key = NoKey /\ turn = FALSE
      /\ doomed = {} /\ commits = 0
  BY DEF Init
<1>2. Versions = {graph} BY <1>1 DEF Versions
<1>3. HistoryOK BY <1>1, <1>2, ImportedIsDrawn, BoundsAssumption DEF HistoryOK
<1>4. key \in Keys /\ commits \in 0 .. MaxCommits + 1 BY <1>1, BoundsAssumption DEF NoKey, Keys
<1> QED BY <1>1, <1>3, <1>4, InvInParts DEF Touching

LEMMA CanvasStep == CanvasInv /\ [Next]_vars => CanvasInv'
<1> SUFFICES ASSUME CanvasInv, [Next]_vars PROVE CanvasInv'
  OBVIOUS
<1>0. Drawn(graph) /\ graph.nodes \in [DOMAIN graph.nodes -> NodeData]
  BY InvInParts, VersionsAre DEF Drawn, IsGraph
<1>1. ASSUME NEW d \in Palette, Insert(d) PROVE CanvasInv'
  BY <1>1, PaletteAssumption, InsertKeeps
<1>2. ASSUME NEW n \in Boxes, Duplicate(n) PROVE CanvasInv'
  BY <1>0, <1>2, InsertKeeps DEF Duplicate, Boxes, Drawn, IsGraph
<1>3. ASSUME NEW a \in Boxes, NEW b \in Boxes, NEW handle \in Handle, Connect(a, b, handle)
      PROVE  CanvasInv'
  BY <1>0, <1>3, ConnectedIsDrawn, CommitKeeps DEF Connect, Boxes
<1>4. ASSUME NEW n \in Boxes, RemoveNodes(n) PROVE CanvasInv'
  <2>1. \A l \in graph.links \ Touching(graph, {n}) :
          {l.from, l.to} \subseteq DOMAIN graph.nodes \ {n}
    BY <1>0 DEF Drawn, Sound, LinksHaveEnds, Touching
  <2>2. Drawn(Without(graph, {n})) BY <1>0, <2>1, LessIsDrawn DEF Without
  <2> QED BY <1>4, <2>2, CommitKeeps DEF RemoveNodes
<1>5. ASSUME NEW ids \in Selections(Boxes), NEW links \in Selections(graph.links),
             DeleteLinks(ids, links)
      PROVE  CanvasInv'
  BY <1>5, DeleteLinksKeeps DEF Selections
<1>6. CASE DeleteNodes
  BY <1>6, DeleteNodesKeeps
<1>7. ASSUME NEW n \in Boxes, ToggleMuted(n) PROVE CanvasInv'
  <2> DEFINE d == [graph.nodes[n] EXCEPT !.muted = ~@]
  <2>1. /\ d \in NodeData /\ d.kind = graph.nodes[n].kind /\ d.role = graph.nodes[n].role
        /\ d.what = graph.nodes[n].what
        /\ d.muted => d.kind \in {"transform", "validation"}
    BY <1>0, <1>7 DEF Boxes, NodeData, ToggleMuted, Kind
  <2>2. Drawn([graph EXCEPT !.nodes[n] = d]) BY <1>0, <2>1, EditedIsDrawn DEF Boxes
  <2>3. CommitField([graph EXCEPT !.nodes[n] = d], <<n, "disabled">>)
    BY <1>7 DEF ToggleMuted
  <2> QED BY <2>2, <2>3, CommitFieldKeeps
<1>8. ASSUME NEW n \in Boxes, NEW what \in Whats, EditField(n, what) PROVE CanvasInv'
  <2> DEFINE d == [graph.nodes[n] EXCEPT !.what = what]
  <2>1. graph.nodes[n] \in NodeData /\ what \in Forms[graph.nodes[n].what]
    BY <1>0, <1>8 DEF Boxes, EditField
  <2>2. /\ d \in NodeData /\ d.kind = graph.nodes[n].kind /\ d.role = graph.nodes[n].role
        /\ d.what \in Dual <=> graph.nodes[n].what \in Dual
        /\ d.muted => d.kind \in {"transform", "validation"}
    <3>1. graph.nodes[n].muted => graph.nodes[n].kind \in {"transform", "validation"}
      BY <1>0 DEF Boxes, Drawn, IsGraph, IsBox
    <3> QED BY <2>1, <3>1, FormsAssumption DEF NodeData
  <2>3. Drawn([graph EXCEPT !.nodes[n] = d]) BY <1>0, <2>2, EditedIsDrawn DEF Boxes
  <2>4. CommitField([graph EXCEPT !.nodes[n] = d], <<n, "field">>)
    BY <1>8 DEF EditField
  <2> QED BY <2>3, <2>4, CommitFieldKeeps
<1>9. CASE Arrange
  BY <1>0, <1>9, CommitKeeps DEF Arrange
<1>10. ASSUME NEW g \in Imported, Apply(g) PROVE CanvasInv'
  BY <1>10, ImportedIsDrawn, CommitKeeps DEF Apply
<1>11. CASE Undo \/ Redo
  BY <1>11, MoveKeeps
<1>12. ASSUME NEW g \in Imported, Open(g) PROVE CanvasInv'
  BY <1>12, OpenKeeps
<1>13. CASE UNCHANGED vars
  <2>1. UNCHANGED <<graph, past, future, key, turn, doomed, commits>> BY <1>13 DEF vars
  <2>2. HistoryOK' BY <2>1, InvInParts DEF HistoryOK, Versions
  <2> QED BY <2>1, <2>2, InvInParts, InvAgain DEF Boxes, Touching
<1> QED
  BY <1>1, <1>2, <1>3, <1>4, <1>5, <1>6, <1>7, <1>8, <1>9, <1>10, <1>11, <1>12, <1>13 DEF Next

LEMMA CanvasInvariant == Spec => []CanvasInv
<1> QED BY CanvasInit, CanvasStep, PTL DEF Spec

(* Whatever was drawn, undone, redone, duplicated or pasted, on a canvas    *)
(* of any size and with a history of any length, the graph on the canvas    *)
(* and every graph undo or redo can bring back has no loop, no link to a    *)
(* box that is gone, one link per input, and no link the canvas refuses     *)
(* (onConnect, removeNodes, undo and redo of editor.ts).                    *)
THEOREM VersionsStaySound == Spec => []VersionsAreSound
<1>1. CanvasInv => VersionsAreSound BY DEF CanvasInv
<1> QED BY <1>1, CanvasInvariant, PTL

-----------------------------------------------------------------------------
(* The history is one line of versions.                                    *)

Line(p, g, f) == p \o <<g>> \o f

IsLine(s, p, g, f) ==
  /\ Len(s) = Len(p) + 1 + Len(f)
  /\ \A i \in 1 .. Len(p) + 1 + Len(f) :
       s[i] = IF i <= Len(p) THEN p[i] ELSE IF i = Len(p) + 1 THEN g ELSE f[i - Len(p) - 1]

LEMMA LineIs ==
  ASSUME NEW S, NEW p \in Seq(S), NEW g \in S, NEW f \in Seq(S)
  PROVE  Line(p, g, f) \in Seq(S) /\ IsLine(Line(p, g, f), p, g, f)
<1>1. Len(p) \in Nat /\ Len(f) \in Nat OBVIOUS
<1>2. /\ p \o <<g>> \in Seq(S) /\ Len(p \o <<g>>) = Len(p) + 1
      /\ \A i \in 1 .. Len(p) + 1 : (p \o <<g>>)[i] = IF i <= Len(p) THEN p[i] ELSE g
  OBVIOUS
<1>3. /\ Line(p, g, f) \in Seq(S)
      /\ Len(Line(p, g, f)) = Len(p \o <<g>>) + Len(f)
      /\ \A i \in 1 .. Len(p \o <<g>>) + Len(f) :
           Line(p, g, f)[i] = IF i <= Len(p \o <<g>>) THEN (p \o <<g>>)[i]
                              ELSE f[i - Len(p \o <<g>>)]
  BY <1>2, ConcatProperties DEF Line
<1>4. ASSUME NEW i \in 1 .. Len(p) + 1 + Len(f)
      PROVE  Line(p, g, f)[i] = IF i <= Len(p) THEN p[i]
                                ELSE IF i = Len(p) + 1 THEN g ELSE f[i - Len(p) - 1]
  <2>1. Line(p, g, f)[i] = IF i <= Len(p) + 1 THEN (p \o <<g>>)[i] ELSE f[i - (Len(p) + 1)]
    BY <1>1, <1>2, <1>3
  <2>2. i \in Nat /\ i - (Len(p) + 1) = i - Len(p) - 1 BY <1>1
  <2>3. CASE i <= Len(p) BY <1>1, <1>2, <2>1, <2>2, <2>3
  <2>4. CASE i = Len(p) + 1 BY <1>1, <1>2, <2>1, <2>2, <2>4
  <2>5. CASE i > Len(p) + 1 BY <1>1, <2>1, <2>2, <2>5
  <2> QED BY <1>1, <2>2, <2>3, <2>4, <2>5
<1>5. Len(Line(p, g, f)) = Len(p) + 1 + Len(f) BY <1>2, <1>3
<1> QED BY <1>3, <1>4, <1>5 DEF IsLine

\* The version before a commit, and the one it makes, end the line.
LEMMA LineGrows ==
  ASSUME NEW S, NEW p \in Seq(S), NEW g \in S, NEW f \in Seq(S), NEW h \in S
  PROVE  Line(Latest(Append(p, g)), h, <<>>)
           = History!Kept(Append(SubSeq(Line(p, g, f), 1, Len(p) + 1), h))
<1> DEFINE q == Append(p, g)
           r == Append(SubSeq(Line(p, g, f), 1, Len(p) + 1), h)
           left == Line(Latest(q), h, <<>>)
<1>1. HistoryLimit \in Nat \ {0} /\ Len(p) \in Nat /\ Len(f) \in Nat BY BoundsAssumption
<1>2. /\ q \in Seq(S) /\ Len(q) = Len(p) + 1
      /\ \A i \in 1 .. Len(p) + 1 : q[i] = IF i <= Len(p) THEN p[i] ELSE g
  OBVIOUS
<1>3. SubSeq(Line(p, g, f), 1, Len(p) + 1) = q
  <2> DEFINE n == Len(p) + 1
             t == SubSeq(Line(p, g, f), 1, n)
  <2>1. \A i \in 1 .. n : Line(p, g, f)[i] \in S /\ Line(p, g, f)[i] = q[i]
    <3>1. Line(p, g, f) \in Seq(S) /\ Len(Line(p, g, f)) = n + Len(f) BY LineIs DEF IsLine
    <3>2. \A i \in 1 .. n : Line(p, g, f)[i] = IF i <= Len(p) THEN p[i] ELSE g
      <4>1. \A i \in 1 .. n : i \in 1 .. Len(p) + 1 + Len(f) /\ (~(i <= Len(p)) => i = Len(p) + 1)
        BY <1>1
      <4>2. \A i \in 1 .. Len(p) + 1 + Len(f) :
              Line(p, g, f)[i] = IF i <= Len(p) THEN p[i]
                                 ELSE IF i = Len(p) + 1 THEN g ELSE f[i - Len(p) - 1]
        <5>1. IsLine(Line(p, g, f), p, g, f) BY LineIs
        <5> QED BY <5>1, Zenon DEF IsLine
      <4> QED BY <4>1, <4>2
    <3> QED BY <1>1, <1>2, <3>1, <3>2
  <2>2. n \in Int /\ 1 <= n /\ n - 1 + 1 = n BY <1>1
  <2> HIDE DEF n
  <2>3. /\ t \in Seq(S) /\ Len(t) = IF 1 <= n THEN n - 1 + 1 ELSE 0
        /\ \A i \in 1 .. n - 1 + 1 : t[i] = Line(p, g, f)[1 + i - 1]
    BY <2>1, <2>2, SubSeqProperties
  <2>4. \A i \in 1 .. n : 1 + i - 1 = i BY <2>2
  <2>5. \A i \in 1 .. n : t[i] = q[i] BY <2>1, <2>2, <2>3, <2>4
  <2>6. Len(t) = n /\ Len(q) = n BY <1>2, <2>2, <2>3 DEF n
  <2>7. t = q BY <1>2, <2>3, <2>5, <2>6, SeqEqual
  <2> QED BY <2>7 DEF n
<1> HIDE DEF q
<1>4. /\ r \in Seq(S) /\ Len(r) = Len(q) + 1
      /\ \A i \in 1 .. Len(q) + 1 : r[i] = IF i <= Len(q) THEN q[i] ELSE h
  BY <1>2, <1>3
<1>5. /\ Latest(q) \in Seq(S)
      /\ Len(Latest(q)) = IF Len(q) > HistoryLimit THEN HistoryLimit ELSE Len(q)
      /\ \A i \in 1 .. Len(Latest(q)) : Latest(q)[i] = q[i + Len(q) - Len(Latest(q))]
  BY <1>2, LatestIs
<1> DEFINE m == Len(Latest(q))
<1>6. m \in Nat /\ m <= Len(q) BY <1>1, <1>2, <1>5
<1>7. /\ left \in Seq(S) /\ Len(left) = m + 1
      /\ \A i \in 1 .. m + 1 : left[i] = IF i <= m THEN Latest(q)[i] ELSE h
  <2>1. <<>> \in Seq(S) /\ Len(<<>>) = 0 OBVIOUS
  <2>2. left \in Seq(S) /\ IsLine(left, Latest(q), h, <<>>)
    BY <1>5, <2>1, LineIs
  <2>3. \A i \in 1 .. m + 1 : ~(i <= m) => i = m + 1 BY <1>6
  <2> QED BY <1>6, <2>1, <2>2, <2>3 DEF IsLine
<1> HIDE DEF left, r
<1>8. left = History!Kept(r)
  <2>1. CASE Len(q) > HistoryLimit
    <3> DEFINE k == Len(r) - HistoryLimit
               n == Len(r)
               t == SubSeq(r, k, n)
    <3>1. History!Kept(r) = t BY <1>1, <1>2, <1>4, <2>1 DEF History!Kept
    <3>2. /\ k \in Int /\ n \in Int /\ k <= n /\ n - k + 1 = HistoryLimit + 1 /\ m = HistoryLimit
          /\ k = 1 + Len(q) - m
          /\ \A i \in k .. n : r[i] \in S
      BY <1>1, <1>2, <1>4, <1>5, <2>1
    <3> HIDE DEF k, n
    <3>3. /\ t \in Seq(S) /\ Len(t) = IF k <= n THEN n - k + 1 ELSE 0
          /\ \A i \in 1 .. n - k + 1 : t[i] = r[k + i - 1]
      BY <3>2, SubSeqProperties, SMTT(30)
    <3>4. Len(t) = m + 1 BY <3>2, <3>3
    <3>5. ASSUME NEW i \in 1 .. m + 1 PROVE left[i] = t[i]
      <4>1. t[i] = r[k + i - 1] /\ k + i - 1 = i + Len(q) - m /\ i + Len(q) - m \in 1 .. Len(q) + 1
        BY <1>2, <1>6, <3>2, <3>3, <1>1
      <4>2. CASE i <= m
        <5>1. left[i] = q[i + Len(q) - m] BY <1>5, <1>6, <1>7, <4>2
        <5>2. i + Len(q) - m <= Len(q) BY <1>2, <1>6, <4>2, <1>1
        <5>3. r[i + Len(q) - m] = q[i + Len(q) - m] BY <1>4, <4>1, <5>2
        <5> QED BY <4>1, <5>1, <5>3
      <4>3. CASE ~(i <= m)
        <5>1. left[i] = h BY <1>7, <4>3
        <5>2. i = m + 1 /\ ~(i + Len(q) - m <= Len(q)) BY <1>2, <1>6, <4>3, <1>1
        <5>3. r[i + Len(q) - m] = h BY <1>4, <4>1, <5>2
        <5> QED BY <4>1, <5>1, <5>3
      <4> QED BY <4>2, <4>3
    <3>6. left = t BY <1>7, <3>3, <3>4, <3>5, SeqEqual
    <3> QED BY <3>1, <3>6
  <2>2. CASE ~(Len(q) > HistoryLimit)
    <3>1. History!Kept(r) = r /\ m = Len(q)
      BY <1>1, <1>2, <1>4, <1>5, <2>2 DEF History!Kept
    <3>2. \A i \in 1 .. m : Latest(q)[i] = q[i]
      BY <1>5, <1>6, <3>1
    <3>3. \A i \in 1 .. m + 1 : left[i] = r[i]
      BY <1>4, <1>6, <1>7, <3>1, <3>2
    <3>4. left = r BY <1>4, <1>7, <3>1, <3>3, SeqEqual
    <3> QED BY <3>1, <3>4
  <2> QED BY <2>1, <2>2
<1> QED BY <1>8 DEF left, r, q

\* What Timeline sees of a state, and of the one after it.
Seen == Line(past, graph, future)

LEMMA SeenIs ==
  ASSUME HistoryOK
  PROVE  /\ Len(Seen) = Len(past) + 1 + Len(future)
         /\ IsLine(Seen, past, graph, future)
         /\ Seen[Len(past) + 1] = graph
         /\ Len(past) \in Nat /\ Len(future) \in Nat
<1>1. past \in Seq(Versions) /\ future \in Seq(Versions) /\ graph \in Versions
      /\ Len(past) \in Nat /\ Len(future) \in Nat
  BY VersionsAre DEF HistoryOK
<1>2. IsLine(Seen, past, graph, future) BY <1>1, LineIs DEF Seen
<1>3. Seen[Len(past) + 1] = graph
  <2>1. Len(past) + 1 \in 1 .. Len(past) + 1 + Len(future) /\ ~(Len(past) + 1 <= Len(past))
    BY <1>1
  <2> QED BY <1>2, <2>1 DEF IsLine
<1> QED BY <1>1, <1>2, <1>3 DEF IsLine

\* A change that makes its own entry is a version more.
LEMMA EntryIsDo ==
  ASSUME CanvasInv, CanvasInv', ~turn, NEW field, Committed(FALSE, field)
  PROVE  History!Do
<1> DEFINE S == Versions \union {graph'}
<1>1. /\ past \in Seq(S) /\ future \in Seq(S) /\ graph \in S /\ graph' \in S
      /\ turn' \in BOOLEAN
  <2>1. HistoryOK BY InvInParts
  <2>2. past \in Seq(Versions) /\ future \in Seq(Versions) BY <2>1 DEF HistoryOK
  <2>3. past \in Seq(S) /\ future \in Seq(S) /\ graph \in S
    <3>1. \A i \in 1 .. Len(past) : past[i] \in S BY <2>1, VersionsAre
    <3>2. \A i \in 1 .. Len(future) : future[i] \in S BY <2>1, VersionsAre
    <3>3. past \in Seq(S) BY <2>2, <3>1, SeqFacts
    <3>4. future \in Seq(S) BY <2>2, <3>2, SeqFacts
    <3> QED BY <2>1, <3>3, <3>4, VersionsAre
  <2> QED BY <2>3 DEF CanvasInv, VersionsAreSound, TypeOK
<1>2. past' = Latest(Append(past, graph)) /\ future' = <<>> BY DEF Committed
<1> HIDE DEF S
<1>3. Line(past', graph', future')
        = History!Kept(Append(SubSeq(Line(past, graph, future), 1, Len(past) + 1), graph'))
  BY <1>1, <1>2, LineGrows
<1>4. past' \in Seq(S) /\ future' \in Seq(S) /\ Len(future') = 0 /\ Len(past') \in Nat
  <2>1. Append(past, graph) \in Seq(S) BY <1>1
  <2>2. past' \in Seq(S) BY <1>2, <2>1, LatestIs
  <2> QED BY <1>2, <2>2
<1>5. /\ Len(Line(past', graph', future')) = Len(past') + 1
      /\ Line(past', graph', future')[Len(past') + 1] = graph'
  <2>1. IsLine(Line(past', graph', future'), past', graph', future') BY <1>1, <1>4, LineIs
  <2>2. Len(past') + 1 \in 1 .. Len(past') + 1 + Len(future') /\ ~(Len(past') + 1 <= Len(past'))
    BY <1>4
  <2> QED BY <1>4, <2>1, <2>2 DEF IsLine
<1>6. commits' = commits + 1 BY DEF Committed
<1> QED BY <1>1, <1>3, <1>5, <1>6 DEF History!Do, Line

\* A change that joins the entry before it goes on with the latest version.
LEMMA JoinIsGoOn ==
  ASSUME CanvasInv, CanvasInv', future = <<>>, ~turn', NEW field, Committed(TRUE, field),
         turn \/ (field # NoKey /\ key = field)
  PROVE  History!GoOn
<1>1. past' = past /\ future' = <<>> /\ HistoryOK BY InvInParts DEF Committed
<1>2. turn' \in BOOLEAN /\ Len(past) \in Nat
  BY <1>1, VersionsAre DEF CanvasInv, VersionsAreSound, TypeOK
<1> DEFINE S == Versions \union {graph'}
           old == Line(past, graph, <<>>)
           new == Line(past, graph', <<>>)
           n == Len(past) + 1
<1>3. past \in Seq(S) /\ <<>> \in Seq(S) /\ graph \in S /\ graph' \in S /\ Len(<<>>) = 0
  <2>1. past \in Seq(Versions) BY <1>1 DEF HistoryOK
  <2>2. \A i \in 1 .. Len(past) : past[i] \in S BY <1>1, VersionsAre
  <2>3. past \in Seq(S) BY <2>1, <2>2, SeqFacts
  <2> QED BY <1>1, <2>3, VersionsAre
<1> HIDE DEF S
<1>4. /\ old \in Seq(S) /\ IsLine(old, past, graph, <<>>)
      /\ new \in Seq(S) /\ IsLine(new, past, graph', <<>>)
  BY <1>3, LineIs
<1>5. /\ Len(old) = n /\ Len(new) = n /\ n \in 1 .. n /\ n \in Nat
      /\ new[n] = graph'
      /\ \A i \in 1 .. n : i # n => old[i] = past[i] /\ new[i] = past[i]
  <2>1. \A i \in 1 .. n : i # n => i <= Len(past) BY <1>2
  <2> QED BY <1>2, <1>3, <1>4, <2>1 DEF IsLine
<1> HIDE DEF old, new, n
<1>6. new = [old EXCEPT ![n] = new[n]]
  <2> DEFINE t == [old EXCEPT ![n] = new[n]]
  <2>1. new[n] \in S BY <1>3, <1>5
  <2>2. /\ t \in Seq(S) /\ Len(t) = n
        /\ \A i \in 1 .. n : t[i] = IF i = n THEN new[n] ELSE old[i]
    BY <1>4, <1>5, <2>1, ExceptSeq
  <2>3. \A i \in 1 .. n : new[i] = t[i] BY <1>5, <2>2
  <2> HIDE DEF t
  <2>4. new = t BY <1>4, <1>5, <2>2, <2>3, SeqEqual
  <2> QED BY <2>4 DEF t
<1>7. turn' = FALSE BY <1>2
<1>8. commits' = commits + 1 /\ (turn \/ (key # NoKey /\ key' = key)) BY DEF Committed
<1> QED BY <1>1, <1>5, <1>6, <1>7, <1>8 DEF History!GoOn, Line, old, new, n

\* The same line, looked at from one version further on.
Further(p, g, f, q, h, e) ==
  /\ Len(q) = Len(p) + 1 /\ Len(e) = Len(f) - 1 /\ h = f[1]
  /\ \A i \in 1 .. Len(q) : q[i] = IF i = Len(q) THEN g ELSE p[i]
  /\ \A i \in 1 .. Len(e) : e[i] = f[i + 1]

LEMMA LineMoves ==
  ASSUME NEW S, NEW p \in Seq(S), NEW g \in S, NEW f \in Seq(S),
         NEW q \in Seq(S), NEW h \in S, NEW e \in Seq(S), Further(p, g, f, q, h, e)
  PROVE  Line(q, h, e) = Line(p, g, f)
<1>0. /\ Len(q) = Len(p) + 1 /\ Len(e) = Len(f) - 1 /\ h = f[1]
      /\ \A i \in 1 .. Len(q) : q[i] = IF i = Len(q) THEN g ELSE p[i]
      /\ \A i \in 1 .. Len(e) : e[i] = f[i + 1]
  BY DEF Further
<1>1. Len(p) \in Nat /\ Len(f) \in Nat /\ Len(q) \in Nat /\ Len(e) \in Nat OBVIOUS
<1> DEFINE s == Line(q, h, e)
           t == Line(p, g, f)
<1>2. s \in Seq(S) /\ t \in Seq(S) /\ IsLine(s, q, h, e) /\ IsLine(t, p, g, f)
  BY LineIs
<1> HIDE DEF s, t
<1> DEFINE n == Len(p) + 1 + Len(f)
<1>3. Len(s) = n /\ Len(t) = n /\ Len(q) + 1 + Len(e) = n BY <1>0, <1>1, <1>2 DEF IsLine
<1>4. ASSUME NEW i \in 1 .. n PROVE s[i] = t[i]
  <2>1. /\ s[i] = IF i <= Len(q) THEN q[i] ELSE IF i = Len(q) + 1 THEN h ELSE e[i - Len(q) - 1]
        /\ t[i] = IF i <= Len(p) THEN p[i] ELSE IF i = Len(p) + 1 THEN g ELSE f[i - Len(p) - 1]
    BY <1>2, <1>3 DEF IsLine
  <2>2. CASE i <= Len(p) BY <1>0, <1>1, <2>1, <2>2
  <2>3. CASE i = Len(p) + 1 BY <1>0, <1>1, <2>1, <2>3
  <2>4. CASE i = Len(p) + 2
    <3>1. ~(i <= Len(q)) /\ i = Len(q) + 1 /\ ~(i <= Len(p)) /\ i # Len(p) + 1 /\ i - Len(p) - 1 = 1
      BY <1>0, <1>1, <2>4
    <3> QED BY <1>0, <2>1, <3>1
  <2>5. CASE i > Len(p) + 2
    <3>1. /\ ~(i <= Len(q)) /\ i # Len(q) + 1 /\ ~(i <= Len(p)) /\ i # Len(p) + 1
          /\ i - Len(q) - 1 \in 1 .. Len(e) /\ (i - Len(q) - 1) + 1 = i - Len(p) - 1
      BY <1>0, <1>1, <1>3, <2>5
    <3> QED BY <1>0, <2>1, <3>1
  <2> QED BY <1>1, <2>2, <2>3, <2>4, <2>5
<1>5. s = t BY <1>2, <1>3, <1>4, SeqEqual
<1> QED BY <1>5 DEF s, t

LEMMA MoveIsMove ==
  ASSUME CanvasInv, Undo \/ Redo
  PROVE  History!Undo \/ History!Redo
<1>1. /\ HistoryOK /\ ~turn /\ turn' = turn
      /\ key' = NoKey /\ commits' = commits
  BY InvInParts DEF Undo, Redo, Still
<1>2. /\ past \in Seq(Versions) /\ future \in Seq(Versions) /\ graph \in Versions
      /\ Len(past) \in Nat /\ Len(future) \in Nat
  BY <1>1, VersionsAre DEF HistoryOK
<1>3. CASE Undo
  <2>1. /\ past' \in Seq(Versions) /\ future' \in Seq(Versions) /\ graph' \in Versions
        /\ Len(past') = Len(past) - 1 /\ Len(future') = Len(future) + 1
        /\ \A i \in 1 .. Len(past') : past'[i] = past[i]
        /\ graph' = past[Len(past)]
        /\ \A i \in 1 .. Len(future') : future'[i] = IF i = 1 THEN graph ELSE future[i - 1]
    BY <1>3, UndoMoves, Zenon
  <2>2. Line(past', graph', future') = Line(past, graph, future)
    <3>1. /\ Len(past) = Len(past') + 1 /\ Len(future) = Len(future') - 1
          /\ Len(past) # 0 /\ Len(past') \in Nat /\ Len(future') = Len(future) + 1
      <4>1. /\ Len(past') = Len(past) - 1 /\ Len(future') = Len(future) + 1
            /\ past' \in Seq(Versions)
        BY <2>1, Zenon
      <4> QED BY <1>2, <4>1
    <3>2. graph = future'[1]
      <4>1. 1 \in 1 .. Len(future') BY <1>2, <3>1
      <4> QED BY <2>1, <4>1
    <3>3. \A i \in 1 .. Len(past) : past[i] = IF i = Len(past) THEN graph' ELSE past'[i]
      <4>1. \A i \in 1 .. Len(past) : i # Len(past) => i \in 1 .. Len(past') BY <1>2, <3>1
      <4> QED BY <2>1, <4>1, Zenon
    <3>4. \A i \in 1 .. Len(future) : future[i] = future'[i + 1]
      <4>1. \A i \in 1 .. Len(future) : i + 1 \in 1 .. Len(future') /\ i + 1 # 1 /\ i + 1 - 1 = i
        BY <1>2, <3>1
      <4> TAKE i \in 1 .. Len(future)
      <4>2. i + 1 \in 1 .. Len(future') /\ i + 1 # 1 /\ i + 1 - 1 = i BY <4>1
      <4>3. \A k \in 1 .. Len(future') : future'[k] = IF k = 1 THEN graph ELSE future[k - 1]
        BY <2>1, Zenon
      <4>4. \A k \in 1 .. Len(future') : k # 1 => future'[k] = future[k - 1] BY <4>3
      <4>5. future'[i + 1] = future[i + 1 - 1] BY <4>2, <4>4
      <4> QED BY <4>2, <4>5
    <3>5. Further(past', graph', future', past, graph, future)
      BY <3>1, <3>2, <3>3, <3>4, Zenon DEF Further
    <3>6. past' \in Seq(Versions) /\ future' \in Seq(Versions) /\ graph' \in Versions
      BY <2>1, Zenon
    <3> QED BY <1>2, <3>5, <3>6, LineMoves
  <2>3. past # <<>> /\ Len(past) > 0 BY <1>2, <1>3 DEF Undo
  <2>4. Len(past') + 1 = Len(past) + 1 - 1 /\ Len(past) + 1 > 1
    <3>1. Len(past') = Len(past) - 1 BY <2>1, Zenon
    <3> QED BY <1>2, <2>3, <3>1
  <2> QED BY <1>1, <2>2, <2>4 DEF History!Undo, History!Move, Line
<1>4. CASE Redo
  <2>1. /\ past' \in Seq(Versions) /\ future' \in Seq(Versions) /\ graph' \in Versions
        /\ Len(past') = Len(past) + 1 /\ Len(future') = Len(future) - 1
        /\ \A i \in 1 .. Len(past') : past'[i] = IF i = Len(past') THEN graph ELSE past[i]
        /\ graph' = future[1]
        /\ \A i \in 1 .. Len(future') : future'[i] = future[i + 1]
    BY <1>4, RedoMoves, Zenon
  <2>2. Line(past', graph', future') = Line(past, graph, future)
    <3>1. Further(past, graph, future, past', graph', future') BY <2>1, Zenon DEF Further
    <3>2. past' \in Seq(Versions) /\ future' \in Seq(Versions) /\ graph' \in Versions
      BY <2>1, Zenon
    <3> QED BY <1>2, <3>1, <3>2, LineMoves
  <2>3. future # <<>> /\ Len(future) > 0 BY <1>2, <1>4 DEF Redo
  <2>4. Len(Line(past, graph, future)) = Len(past) + 1 + Len(future)
    BY <1>2, LineIs DEF IsLine
  <2>5. Len(past') + 1 = Len(past) + 1 + 1 /\ Len(past) + 1 < Len(Line(past, graph, future))
    <3>1. Len(past') = Len(past) + 1 BY <2>1, Zenon
    <3> QED BY <1>2, <2>3, <2>4, <3>1
  <2> QED BY <1>1, <2>2, <2>5 DEF History!Redo, History!Move, Line
<1> QED BY <1>3, <1>4

LEMMA StartIsStart == Init => History!Start
<1> SUFFICES ASSUME Init PROVE History!Start
  OBVIOUS
<1>1. past = <<>> /\ future = <<>> /\ turn = FALSE /\ key = NoKey /\ commits = 0 BY DEF Init
<1>2. Len(past \o <<graph>> \o future) = 1 /\ Len(past) = 0
  <2>1. <<>> \in Seq({graph}) /\ Len(<<>>) = 0 /\ graph \in {graph} OBVIOUS
  <2>2. IsLine(Line(<<>>, graph, <<>>), <<>>, graph, <<>>) BY <2>1, LineIs
  <2> QED BY <1>1, <2>1, <2>2 DEF IsLine, Line
<1> QED BY <1>1, <1>2 DEF History!Start

LEMMA OpenIsReset ==
  ASSUME CanvasInv, NEW g \in Imported, Open(g)
  PROVE  History!Reset
<1>1. /\ past' = <<>> /\ future' = <<>> /\ turn' = FALSE /\ turn = FALSE
      /\ key' = NoKey /\ commits' = 0
  BY InvInParts DEF Open, Still
<1>2. Len(past' \o <<graph'>> \o future') = 1 /\ Len(past') = 0
  <2>1. <<>> \in Seq({graph'}) /\ Len(<<>>) = 0 /\ graph' \in {graph'} OBVIOUS
  <2>2. IsLine(Line(<<>>, graph', <<>>), <<>>, graph', <<>>) BY <2>1, LineIs
  <2> QED BY <1>1, <2>1, <2>2 DEF IsLine, Line
<1> QED BY <1>1, <1>2 DEF History!Reset

LEMMA TimelineStep ==
  ASSUME CanvasInv, CanvasInv', [Next]_vars
  PROVE  [History!Next]_(History!timeline)
<1> DEFINE Entry == ~turn /\ \E field : Committed(FALSE, field)
           Join == /\ future = <<>> /\ ~turn'
                   /\ \E field : Committed(TRUE, field) /\ (turn \/ (field # NoKey /\ key = field))
           Same == UNCHANGED <<past, graph, future, turn, key, commits>>
<1>0. doomed = {} => ~turn BY InvInParts
<1>1. ASSUME NEW g, Commit(g) PROVE Entry
  BY <1>0, <1>1 DEF Commit, Still
<1>2. ASSUME NEW g, NEW n \in Boxes, NEW name, CommitField(g, <<n, name>>) PROVE Entry \/ Join
  <2>1. PICK joins \in {FALSE, key = <<n, name>>} : Committed(joins, <<n, name>>)
    BY <1>2 DEF CommitField
  <2>2. ~turn /\ ~turn' BY <1>0, <1>2 DEF CommitField, Still
  <2>3. HistoryOK BY InvInParts
  <2>4. n # 0 BY <2>3, VersionsAre, BoundsAssumption DEF Boxes, Drawn
  <2>5. <<n, name>> # NoKey BY <2>4 DEF NoKey
  <2>6. key = <<n, name>> => future = <<>> BY <2>5, InvInParts
  <2>7. joins = FALSE \/ (joins = TRUE /\ key = <<n, name>>) BY <2>1, Zenon
  <2> QED BY <2>1, <2>2, <2>5, <2>6, <2>7
<1>3. ASSUME NEW d, Insert(d) PROVE Entry
  BY <1>1, <1>3 DEF Insert
<1>4. ASSUME NEW a \in Boxes, NEW b \in Boxes, NEW handle \in Handle, Connect(a, b, handle)
      PROVE  Entry
  BY <1>1, <1>4 DEF Connect
<1>5. ASSUME NEW ids, NEW links, DeleteLinks(ids, links) PROVE Entry \/ Same
  BY <1>0, <1>5 DEF DeleteLinks, Still
<1>6. CASE DeleteNodes
  <2>1. Committed(turn, NoKey) /\ turn' = FALSE /\ turn \in BOOLEAN /\ (turn => future = <<>>)
    BY <1>6, InvInParts DEF DeleteNodes
  <2>2. turn = TRUE \/ turn = FALSE BY <2>1
  <2>3. Entry \/ Join BY <2>1, <2>2
  <2> QED BY <2>3, EntryIsDo, JoinIsGoOn DEF History!Next, History!Gesture
<1>7. Entry => History!Next BY EntryIsDo DEF History!Next, History!Gesture
<1>8. Join => History!Next BY JoinIsGoOn DEF History!Next, History!Gesture
<1>9. Same => UNCHANGED History!timeline BY DEF History!timeline
<1>10. CASE UNCHANGED vars BY <1>9, <1>10 DEF vars
<1>11. CASE Undo \/ Redo BY <1>11, MoveIsMove DEF History!Next, History!Gesture
<1>12. ASSUME NEW g \in Imported, Open(g) PROVE History!Next
  BY <1>12, OpenIsReset DEF History!Next
<1> HIDE DEF Entry, Join, Same
<1>13. ASSUME NEW n \in Boxes, RemoveNodes(n) PROVE Entry BY <1>1, <1>13 DEF RemoveNodes
<1>14. ASSUME NEW n \in Boxes, ToggleMuted(n) PROVE Entry \/ Join
  BY <1>2, <1>14 DEF ToggleMuted
<1>15. ASSUME NEW n \in Boxes, NEW what \in Whats, EditField(n, what) PROVE Entry \/ Join
  BY <1>2, <1>15 DEF EditField
<1>16. CASE Arrange BY <1>1, <1>7, <1>16 DEF Arrange
<1>17. ASSUME NEW g \in Imported, Apply(g) PROVE Entry BY <1>1, <1>17 DEF Apply
<1>18. ASSUME NEW n \in Boxes, Duplicate(n) PROVE Entry BY <1>3, <1>18 DEF Duplicate
<1> QED
  BY <1>3, <1>4, <1>5, <1>6, <1>7, <1>8, <1>9, <1>10, <1>11, <1>12, <1>13, <1>14, <1>15,
     <1>16, <1>17, <1>18 DEF Next

(* However gestures, fields typed into, canvas deletes, undo, redo and      *)
(* openings follow each other, the history is one line of versions with a   *)
(* mark on it: one gesture is one undo, no change goes unrecorded, and      *)
(* nothing that can be redone is rewritten (commit, undo and redo of        *)
(* editor.ts).                                                              *)
THEOREM HistoryIsATimeline == Spec => KeepsTimeline
<1>1. Init => History!Start BY StartIsStart
<1>2. CanvasInv /\ CanvasInv' /\ [Next]_vars => [History!Next]_(History!timeline)
  BY TimelineStep
<1> QED BY <1>1, <1>2, CanvasInvariant, PTL DEF Spec, KeepsTimeline, History!Spec

-----------------------------------------------------------------------------
(* Functions by iteration, and sequences by induction. *)

LEMMA Least ==
  ASSUME NEW T, T \subseteq Nat, T # {}
  PROVE  \E x \in T : \A y \in T : x <= y
<1> DEFINE Below == {0 .. x : x \in T}
<1>1. Below \subseteq FiniteSubsetsOf(Nat)
  <2>1. \A x \in T : IsFiniteSet(0 .. x) /\ 0 .. x \in SUBSET Nat BY FS_Interval
  <2> QED BY <2>1 DEF FiniteSubsetsOf
<1>2. Below # {} OBVIOUS
<1>3. PICK B \in Below : \A C \in Below : ~ (<<C, B>> \in StrictSubsetOrdering(Nat))
  BY <1>1, <1>2, WFMin, FS_StrictSubsetOrderingWellFounded
<1>4. PICK x \in T : B = 0 .. x OBVIOUS
<1>5. ASSUME NEW y \in T, y < x PROVE FALSE
  <2>1. 0 .. y \in Below /\ 0 .. y \in SUBSET Nat /\ 0 .. x \in SUBSET Nat BY <1>5
  <2>2. 0 .. y \subseteq 0 .. x /\ x \in 0 .. x /\ x \notin 0 .. y BY <1>5
  <2>3. <<0 .. y, 0 .. x>> \in StrictSubsetOrdering(Nat) BY <2>1, <2>2 DEF StrictSubsetOrdering
  <2> QED BY <1>3, <1>4, <2>1, <2>3
<1> QED BY <1>5

\* w[0] is base, and each w[k] comes of the one before by `step`.
Iterates(n, base, step, w) ==
  w = [k \in 0 .. n |-> IF k = 0 THEN base ELSE step[<<k, w[k - 1]>>]]

LEMMA IterationExists ==
  ASSUME NEW D, NEW n \in Nat, NEW base \in D, NEW step \in [(1 .. n) \X D -> D]
  PROVE  \E w \in [0 .. n -> D] : Iterates(n, base, step, w)
<1> DEFINE Bad == {m \in 0 .. n : \A w \in [0 .. m -> D] : ~ Iterates(m, base, step, w)}
<1>1. SUFFICES ASSUME Bad # {} PROVE FALSE OBVIOUS
<1>2. Bad \subseteq Nat OBVIOUS
<1>3. PICK m \in Bad : \A k \in Bad : m <= k BY <1>1, <1>2, Least
<1>4. m \in 0 .. n /\ \A w \in [0 .. m -> D] : ~ Iterates(m, base, step, w) OBVIOUS
<1>5. CASE m = 0
  <2> DEFINE w == [k \in 0 .. 0 |-> base]
  <2>1. w \in [0 .. 0 -> D] /\ Iterates(0, base, step, w) BY DEF Iterates
  <2> QED BY <2>1, <1>4, <1>5
<1>6. CASE m # 0
  <2>1. m - 1 \in 0 .. n /\ ~ m <= m - 1 /\ m \in 1 .. n BY <1>4, <1>6
  <2>2. m - 1 \notin Bad BY <1>3, <2>1
  <2>3. PICK v \in [0 .. m - 1 -> D] : Iterates(m - 1, base, step, v) BY <2>1, <2>2
  <2> HIDE DEF Bad
  <2> DEFINE next == step[<<m, v[m - 1]>>]
             w == [k \in 0 .. m |-> IF k = m THEN next ELSE v[k]]
  <2>4. v[m - 1] \in D BY <2>1
  <2>5. next \in D BY <2>1, <2>4
  <2>6. \A k \in 0 .. m - 1 : v[k] = IF k = 0 THEN base ELSE step[<<k, v[k - 1]>>]
    BY <2>3 DEF Iterates
  <2>7. \A k \in 0 .. m : w[k] = IF k = 0 THEN base ELSE step[<<k, w[k - 1]>>]
    <3> SUFFICES ASSUME NEW k \in 0 .. m
                 PROVE  w[k] = IF k = 0 THEN base ELSE step[<<k, w[k - 1]>>]
      OBVIOUS
    <3>0. \A h \in 0 .. m : w[h] = IF h = m THEN next ELSE v[h] OBVIOUS
    <3> HIDE DEF w
    <3>1. k # 0 => k - 1 \in 0 .. m - 1 /\ k - 1 \in 0 .. m /\ k - 1 # m BY <2>1
    <3>2. k # 0 => w[k - 1] = v[k - 1] BY <3>0, <3>1
    <3>3. CASE k = m BY <3>0, <3>2, <3>3, <1>6
    <3>4. CASE k # m
      <4>1. k \in 0 .. m - 1 BY <3>4, <2>1
      <4>2. w[k] = v[k] BY <3>0, <3>4
      <4> QED BY <4>1, <4>2, <2>6, <3>2
    <3> QED BY <3>3, <3>4
  <2>8. w \in [0 .. m -> D]
    <3>1. \A k \in 0 .. m : k # m => k \in 0 .. m - 1 BY <2>1
    <3> HIDE DEF next
    <3> QED BY <3>1, <2>5
  <2>9. w = [k \in 0 .. m |-> w[k]] OBVIOUS
  <2> HIDE DEF w, next
  <2>10. Iterates(m, base, step, w) BY <2>7, <2>9 DEF Iterates
  <2> QED BY <2>8, <2>10, <1>4
<1> QED BY <1>5, <1>6

-----------------------------------------------------------------------------
(* Among. *)

KeptIs(ids, S, kept) ==
  kept = [i \in 0 .. Len(ids) |->
            IF i = 0 THEN <<>> ELSE IF ids[i] \in S THEN Append(kept[i - 1], ids[i]) ELSE kept[i - 1]]
Kept(ids, S) == CHOOSE kept : KeptIs(ids, S, kept)

LEMMA AmongIsKept == \A ids, S : Among(ids, S) = Kept(ids, S)[Len(ids)]
BY DEF Among, Kept, KeptIs

LEMMA KeptExists ==
  ASSUME NEW T, NEW ids \in Seq(T), NEW S
  PROVE  KeptIs(ids, S, Kept(ids, S)) /\ \A i \in 0 .. Len(ids) : Kept(ids, S)[i] \in Seq(T)
<1> DEFINE n == Len(ids)
           step == [p \in (1 .. n) \X Seq(T) |-> IF ids[p[1]] \in S THEN Append(p[2], ids[p[1]]) ELSE p[2]]
<1>1. n \in Nat /\ <<>> \in Seq(T) /\ \A i \in 1 .. n : ids[i] \in T OBVIOUS
<1>2. step \in [(1 .. n) \X Seq(T) -> Seq(T)]
  <2>1. \A p \in (1 .. n) \X Seq(T) : p[1] \in 1 .. n /\ p[2] \in Seq(T) OBVIOUS
  <2>2. \A p \in (1 .. n) \X Seq(T) : ids[p[1]] \in T BY <2>1, <1>1
  <2> QED BY <2>1, <2>2
<1>3. \A k \in 1 .. n, s \in Seq(T) : step[<<k, s>>] = IF ids[k] \in S THEN Append(s, ids[k]) ELSE s
  OBVIOUS
<1> HIDE DEF step
<1>4. PICK w \in [0 .. n -> Seq(T)] : Iterates(n, <<>>, step, w) BY <1>1, <1>2, IterationExists
<1>5. KeptIs(ids, S, w)
  <2>1. w = [k \in 0 .. n |-> w[k]] OBVIOUS
  <2>2. \A k \in 0 .. n : w[k] = IF k = 0 THEN <<>> ELSE step[<<k, w[k - 1]>>] BY <1>4 DEF Iterates
  <2>3. \A k \in 0 .. n : k # 0 => k \in 1 .. n /\ k - 1 \in 0 .. n BY <1>1
  <2>4. \A k \in 0 .. n : k # 0 => w[k - 1] \in Seq(T) BY <2>3
  <2> HIDE DEF n
  <2>5. \A k \in 0 .. n : w[k] = IF k = 0 THEN <<>> ELSE IF ids[k] \in S THEN Append(w[k - 1], ids[k]) ELSE w[k - 1]
    BY <2>2, <2>3, <2>4, <1>3
  <2> QED BY <2>1, <2>5 DEF KeptIs, n
<1>6. KeptIs(ids, S, Kept(ids, S)) BY <1>5 DEF Kept
<1> DEFINE v == Kept(ids, S)
<1>7. \A k \in 0 .. n : v[k] = IF k = 0 THEN <<>> ELSE IF ids[k] \in S THEN Append(v[k - 1], ids[k]) ELSE v[k - 1]
  BY <1>6 DEF KeptIs
<1> DEFINE Bad == {k \in 0 .. n : v[k] \notin Seq(T)}
<1> HIDE DEF v, n
<1>8. Bad = {}
  <2> SUFFICES ASSUME Bad # {} PROVE FALSE OBVIOUS
  <2>1. Bad \subseteq Nat BY <1>1
  <2>2. PICK k \in Bad : \A h \in Bad : k <= h BY <2>1, Least
  <2>3. k \in 0 .. n /\ k # 0 BY <1>1, <1>7
  <2>4. k - 1 \in 0 .. n /\ k \in 1 .. n /\ ~ k <= k - 1 BY <2>3, <1>1
  <2>5. v[k - 1] \in Seq(T) BY <2>2, <2>4
  <2>6. ids[k] \in T /\ Append(v[k - 1], ids[k]) \in Seq(T) BY <2>4, <2>5, <1>1
  <2>7. v[k] = IF ids[k] \in S THEN Append(v[k - 1], ids[k]) ELSE v[k - 1] BY <2>3, <1>7
  <2>8. v[k] \in Seq(T) BY <2>5, <2>6, <2>7
  <2> QED BY <2>8
<1> QED BY <1>6, <1>8 DEF v, n

LEMMA AmongEmpty == \A S : Among(<<>>, S) = <<>>
<1> SUFFICES ASSUME NEW S PROVE Among(<<>>, S) = <<>> OBVIOUS
<1>1. <<>> \in Seq({}) /\ Len(<<>>) = 0 OBVIOUS
<1>2. KeptIs(<<>>, S, Kept(<<>>, S)) BY <1>1, KeptExists
<1>3. Kept(<<>>, S)[0] = <<>> BY <1>1, <1>2 DEF KeptIs
<1> QED BY <1>1, <1>3, AmongIsKept

LEMMA AmongAppend ==
  ASSUME NEW T, NEW ids \in Seq(T), NEW x \in T, NEW S
  PROVE  Among(Append(ids, x), S) = IF x \in S THEN Append(Among(ids, S), x) ELSE Among(ids, S)
<1> DEFINE long == Append(ids, x)
           n == Len(ids)
           v == Kept(ids, S)
           w == Kept(long, S)
<1>1. long \in Seq(T) /\ n \in Nat /\ Len(long) = n + 1 /\ long[n + 1] = x /\ \A i \in 1 .. n : long[i] = ids[i]
  OBVIOUS
<1>2. \A i \in 0 .. n : v[i] = IF i = 0 THEN <<>> ELSE IF ids[i] \in S THEN Append(v[i - 1], ids[i]) ELSE v[i - 1]
  <2>1. KeptIs(ids, S, v) BY KeptExists
  <2> HIDE DEF v
  <2> QED BY <2>1 DEF KeptIs
<1>3. \A i \in 0 .. n + 1 : w[i] = IF i = 0 THEN <<>> ELSE IF long[i] \in S THEN Append(w[i - 1], long[i]) ELSE w[i - 1]
  <2> HIDE DEF long
  <2>1. KeptIs(long, S, w) BY <1>1, KeptExists
  <2> HIDE DEF w
  <2> QED BY <2>1, <1>1 DEF KeptIs
<1> DEFINE Bad == {i \in 0 .. n : v[i] # w[i]}
<1> HIDE DEF v, w, long, n
<1>4. Bad = {}
  <2> SUFFICES ASSUME Bad # {} PROVE FALSE OBVIOUS
  <2>1. Bad \subseteq Nat BY <1>1
  <2>2. PICK k \in Bad : \A h \in Bad : k <= h BY <2>1, Least
  <2>3. k \in 0 .. n /\ k \in 0 .. n + 1 /\ k # 0 BY <1>1, <1>2, <1>3
  <2>4. k - 1 \in 0 .. n /\ k \in 1 .. n /\ ~ k <= k - 1 BY <2>3, <1>1
  <2>5. v[k - 1] = w[k - 1] BY <2>2, <2>4
  <2>6. v[k] = w[k] BY <2>3, <2>4, <2>5, <1>1, <1>2, <1>3
  <2> QED BY <2>6
<1>5. n \in 0 .. n /\ n + 1 \in 0 .. n + 1 /\ n + 1 # 0 /\ (n + 1) - 1 = n BY <1>1
<1>6. v[n] = w[n] BY <1>4, <1>5
<1>7. w[n + 1] = IF x \in S THEN Append(v[n], x) ELSE v[n] BY <1>1, <1>3, <1>5, <1>6
<1>8. Among(ids, S) = v[n] /\ Among(long, S) = w[n + 1] BY <1>1, AmongIsKept DEF v, w, n
<1> QED BY <1>7, <1>8 DEF long

\* No box twice.
Once(ids) == \A i, j \in DOMAIN ids : ids[i] = ids[j] => i = j

LEMMA AppendIs ==
  ASSUME NEW T, NEW s \in Seq(T), NEW x
  PROVE  /\ Len(s) \in Nat /\ DOMAIN s = 1 .. Len(s) /\ Len(Append(s, x)) = Len(s) + 1
         /\ DOMAIN Append(s, x) = DOMAIN s \cup {Len(s) + 1} /\ Len(s) + 1 \notin DOMAIN s
         /\ Append(s, x)[Len(s) + 1] = x /\ \A i \in DOMAIN s : Append(s, x)[i] = s[i]
         /\ ToSet(Append(s, x)) = ToSet(s) \cup {x}
         /\ Once(Append(s, x)) <=> Once(s) /\ x \notin ToSet(s)
<1> DEFINE a == Append(s, x)
           n == Len(s)
<1>1. n \in Nat /\ DOMAIN s = 1 .. n OBVIOUS
<1>2. Len(a) = n + 1 /\ DOMAIN a = 1 .. n + 1 /\ a[n + 1] = x /\ \A i \in 1 .. n : a[i] = s[i]
  <2>1. s \in Seq(T \cup {x}) /\ x \in T \cup {x} OBVIOUS
  <2> QED BY <2>1, AppendProperties
<1> HIDE DEF a, n
<1>3. DOMAIN a = DOMAIN s \cup {n + 1} /\ n + 1 \notin DOMAIN s /\ n + 1 \in DOMAIN a BY <1>1, <1>2
<1>4. \A i \in DOMAIN s : a[i] = s[i] BY <1>1, <1>2
<1> DEFINE m == n + 1
<1>5. m \notin DOMAIN s /\ (\A i : i \in DOMAIN a <=> i \in DOMAIN s \/ i = m) /\ a[m] = x BY <1>2, <1>3
<1> HIDE DEF m
<1>6. ToSet(a) = ToSet(s) \cup {x}
  <2>1. \A y : y \in ToSet(a) <=> \E i \in DOMAIN a : a[i] = y BY DEF ToSet
  <2>2. \A y : y \in ToSet(s) <=> \E i \in DOMAIN s : s[i] = y BY DEF ToSet
  <2>3. \A y : (\E i \in DOMAIN a : a[i] = y) <=> (\E i \in DOMAIN s : s[i] = y) \/ y = x BY <1>4, <1>5
  <2> QED BY <2>1, <2>2, <2>3
<1>7. Once(a) <=> Once(s) /\ x \notin ToSet(s)
  <2>1. x \in ToSet(s) <=> \E i \in DOMAIN s : s[i] = x BY DEF ToSet
  <2>2. Once(a) => Once(s) /\ x \notin ToSet(s)
    <3>1. Once(a) => Once(s)
      <4> SUFFICES ASSUME Once(a), NEW i \in DOMAIN s, NEW j \in DOMAIN s, s[i] = s[j] PROVE i = j
        BY DEF Once
      <4>1. i \in DOMAIN a /\ j \in DOMAIN a /\ a[i] = a[j] BY <1>4, <1>5
      <4> QED BY <4>1 DEF Once
    <3>2. ASSUME Once(a), NEW i \in DOMAIN s, s[i] = x PROVE FALSE
      <4>1. i \in DOMAIN a /\ m \in DOMAIN a /\ a[i] = a[m] BY <1>4, <1>5, <3>2
      <4>2. i = m BY <4>1, <3>2 DEF Once
      <4> QED BY <4>2, <1>5
    <3> QED BY <3>1, <3>2, <2>1
  <2>3. ASSUME Once(s), x \notin ToSet(s), NEW i \in DOMAIN a, NEW j \in DOMAIN a, a[i] = a[j]
        PROVE  i = j
    <3>1. CASE i = m /\ j = m BY <3>1
    <3>2. CASE i = m /\ j # m BY <3>2, <2>3, <2>1, <1>4, <1>5
    <3>3. CASE i # m /\ j = m BY <3>3, <2>3, <2>1, <1>4, <1>5
    <3>4. CASE i # m /\ j # m
      <4>1. i \in DOMAIN s /\ j \in DOMAIN s /\ s[i] = s[j] BY <3>4, <2>3, <1>4, <1>5
      <4> QED BY <4>1, <2>3 DEF Once
    <3> QED BY <3>1, <3>2, <3>3, <3>4
  <2> QED BY <2>2, <2>3 DEF Once
<1> QED BY <1>1, <1>2, <1>3, <1>4, <1>6, <1>7 DEF a, n

LEMMA AmongIs ==
  ASSUME NEW T, NEW ids \in Seq(T), NEW S
  PROVE  /\ Among(ids, S) \in Seq(T \cap S)
         /\ ToSet(Among(ids, S)) = ToSet(ids) \cap S
<1> DEFINE Good(s) == Among(s, S) \in Seq(T \cap S) /\ ToSet(Among(s, S)) = ToSet(s) \cap S
           Bad == {n \in Nat : \E s \in Seq(T) : Len(s) = n /\ ~ Good(s)}
<1>1. SUFFICES Bad = {} OBVIOUS
<1>2. SUFFICES ASSUME Bad # {} PROVE FALSE OBVIOUS
<1>3. Bad \subseteq Nat OBVIOUS
<1>4. PICK n \in Bad : \A k \in Bad : n <= k BY <1>2, <1>3, Least
<1>5. PICK s \in Seq(T) : Len(s) = n /\ ~ Good(s) OBVIOUS
<1>6. CASE s = <<>>
  <2>1. Among(s, S) = <<>> BY <1>6, AmongEmpty
  <2>2. ToSet(<<>>) = {} BY DEF ToSet
  <2>3. <<>> \in Seq(T \cap S) OBVIOUS
  <2> QED BY <2>1, <2>2, <2>3, <1>5, <1>6
<1>7. CASE s # <<>>
  <2>1. PICK front \in Seq(T), x \in T : s = Append(front, x) BY <1>7, SequenceEmptyOrAppend
  <2>2. Len(front) \in Nat /\ ~ n <= Len(front) BY <2>1, <1>5
  <2>3. Good(front) BY <2>2, <1>4
  <2>4. Among(s, S) = IF x \in S THEN Append(Among(front, S), x) ELSE Among(front, S)
    BY <2>1, AmongAppend
  <2> DEFINE a == Among(front, S)
  <2> HIDE DEF a
  <2>5. a \in Seq(T \cap S) /\ ToSet(a) = ToSet(front) \cap S BY <2>3 DEF a
  <2>6. ToSet(s) = ToSet(front) \cup {x} BY <2>1, AppendIs
  <2>7. x \in S => Append(a, x) \in Seq(T \cap S) /\ ToSet(Append(a, x)) = ToSet(a) \cup {x}
    BY <2>5, AppendIs
  <2> QED BY <2>4, <2>5, <2>6, <2>7, <1>5 DEF a
<1> QED BY <1>6, <1>7

LEMMA AmongAll ==
  ASSUME NEW T, NEW ids \in Seq(T), NEW S, ToSet(ids) \subseteq S
  PROVE  Among(ids, S) = ids
<1> DEFINE Good(s) == ToSet(s) \subseteq S => Among(s, S) = s
           Bad == {n \in Nat : \E s \in Seq(T) : Len(s) = n /\ ~ Good(s)}
<1>1. SUFFICES Bad = {} OBVIOUS
<1>2. SUFFICES ASSUME Bad # {} PROVE FALSE OBVIOUS
<1>3. Bad \subseteq Nat OBVIOUS
<1>4. PICK n \in Bad : \A k \in Bad : n <= k BY <1>2, <1>3, Least
<1>5. PICK s \in Seq(T) : Len(s) = n /\ ~ Good(s) OBVIOUS
<1>6. CASE s = <<>> BY <1>5, <1>6, AmongEmpty
<1>7. CASE s # <<>>
  <2>1. PICK front \in Seq(T), x \in T : s = Append(front, x) BY <1>7, SequenceEmptyOrAppend
  <2>2. Len(front) \in Nat /\ ~ n <= Len(front) BY <2>1, <1>5
  <2>3. Good(front) BY <2>2, <1>4
  <2>4. Among(s, S) = IF x \in S THEN Append(Among(front, S), x) ELSE Among(front, S)
    BY <2>1, AmongAppend
  <2>6. ToSet(s) = ToSet(front) \cup {x} BY <2>1, AppendIs
  <2> QED BY <2>1, <2>3, <2>4, <2>6, <1>5
<1> QED BY <1>6, <1>7

LEMMA AmongNone ==
  ASSUME NEW T, NEW ids \in Seq(T), NEW S
  PROVE  Among(ids, S) = <<>> <=> ToSet(ids) \cap S = {}
<1>1. Among(ids, S) \in Seq(T \cap S) /\ ToSet(Among(ids, S)) = ToSet(ids) \cap S BY AmongIs
<1> DEFINE a == Among(ids, S)
<1> HIDE DEF a
<1>2. a \in Seq(T \cap S) /\ ToSet(a) = ToSet(ids) \cap S BY <1>1 DEF a
<1>3. a = <<>> <=> ToSet(a) = {}
  <2>1. a # <<>> => Len(a) \in Nat /\ Len(a) # 0 BY <1>2
  <2>2. a # <<>> => 1 \in DOMAIN a BY <2>1, <1>2
  <2> QED BY <2>2 DEF ToSet
<1> QED BY <1>2, <1>3 DEF a

\* A lemma on concatenations is cited under a name: as an equation the provers rewrite with it.
AppendedTo(a, b, x) == Append(a \o b, x) = a \o Append(b, x)

LEMMA AppendToConcat ==
  ASSUME NEW T, NEW a \in Seq(T), NEW b \in Seq(T), NEW x \in T
  PROVE  AppendedTo(a, b, x)
<1>1. a \o b \in Seq(T) BY ConcatProperties
<1>2. Append(a \o b, x) = (a \o b) \o <<x>> BY <1>1, AppendIsConcat
<1>3. Append(b, x) = b \o <<x>> BY AppendIsConcat
<1>4. <<x>> \in Seq(T) OBVIOUS
<1>5. (a \o b) \o <<x>> = a \o (b \o <<x>>) BY <1>4, ConcatAssociative
<1> QED BY <1>2, <1>3, <1>5 DEF AppendedTo

LEMMA AmongConcat ==
  ASSUME NEW T, NEW ids \in Seq(T), NEW more \in Seq(T), NEW S
  PROVE  Among(ids \o more, S) = Among(ids, S) \o Among(more, S)
<1> DEFINE Good(s) == Among(ids \o s, S) = Among(ids, S) \o Among(s, S)
           Bad == {n \in Nat : \E s \in Seq(T) : Len(s) = n /\ ~ Good(s)}
<1>1. SUFFICES Bad = {} OBVIOUS
<1>2. SUFFICES ASSUME Bad # {} PROVE FALSE OBVIOUS
<1>3. Bad \subseteq Nat OBVIOUS
<1>4. PICK n \in Bad : \A k \in Bad : n <= k BY <1>2, <1>3, Least
<1>5. PICK s \in Seq(T) : Len(s) = n /\ ~ Good(s) OBVIOUS
<1>a. Among(ids, S) \in Seq(T \cap S) BY AmongIs
<1> DEFINE a == Among(ids, S)
<1>6. CASE s = <<>>
  <2>1. ids \o s = ids /\ Among(s, S) = <<>> BY <1>6, AmongEmpty
  <2>2. a \o <<>> = a BY <1>a
  <2> QED BY <2>1, <2>2, <1>5
<1>7. CASE s # <<>>
  <2>1. PICK front \in Seq(T), x \in T : s = Append(front, x) BY <1>7, SequenceEmptyOrAppend
  <2>2. Len(front) \in Nat /\ ~ n <= Len(front) BY <2>1, <1>5
  <2>3. Good(front) BY <2>2, <1>4
  <2>4. Among(s, S) = IF x \in S THEN Append(Among(front, S), x) ELSE Among(front, S)
    BY <2>1, AmongAppend
  <2>5. ids \o s = Append(ids \o front, x) /\ ids \o front \in Seq(T) BY <2>1
  <2>6. Among(ids \o s, S) = IF x \in S THEN Append(Among(ids \o front, S), x) ELSE Among(ids \o front, S)
    <3> DEFINE f == ids \o front
    <3> HIDE DEF f
    <3>1. ids \o s = Append(f, x) /\ f \in Seq(T) BY <2>5 DEF f
    <3>2. Among(Append(f, x), S) = IF x \in S THEN Append(Among(f, S), x) ELSE Among(f, S)
      BY <3>1, AmongAppend
    <3> QED BY <3>1, <3>2 DEF f
  <2>7. Among(front, S) \in Seq(T \cap S) BY AmongIs
  <2> DEFINE b == Among(front, S)
  <2> HIDE DEF a, b, Bad
  <2>8. x \in S => Append(a \o b, x) = a \o Append(b, x)
    <3> SUFFICES ASSUME x \in S PROVE Append(a \o b, x) = a \o Append(b, x) OBVIOUS
    <3> DEFINE U == T \cap S
    <3>1. a \in Seq(U) /\ b \in Seq(U) /\ x \in U BY <1>a, <2>7 DEF a, b
    <3> HIDE DEF U
    <3>2. AppendedTo(a, b, x) BY <3>1, AppendToConcat
    <3> QED BY <3>2 DEF AppendedTo
  <2> QED BY <2>3, <2>4, <2>6, <2>8, <1>5 DEF a, b
<1> QED BY <1>6, <1>7

LEMMA AmongOnce ==
  ASSUME NEW T, NEW ids \in Seq(T), NEW S, Once(ids)
  PROVE  Once(Among(ids, S))
<1> DEFINE Good(s) == Once(s) => Once(Among(s, S))
           Bad == {n \in Nat : \E s \in Seq(T) : Len(s) = n /\ ~ Good(s)}
<1>1. SUFFICES Bad = {} OBVIOUS
<1>2. SUFFICES ASSUME Bad # {} PROVE FALSE OBVIOUS
<1>3. Bad \subseteq Nat OBVIOUS
<1>4. PICK n \in Bad : \A k \in Bad : n <= k BY <1>2, <1>3, Least
<1>5. PICK s \in Seq(T) : Len(s) = n /\ ~ Good(s) OBVIOUS
<1>6. CASE s = <<>> BY <1>5, <1>6, AmongEmpty DEF Once
<1>7. CASE s # <<>>
  <2>1. PICK front \in Seq(T), x \in T : s = Append(front, x) BY <1>7, SequenceEmptyOrAppend
  <2>2. Len(front) \in Nat /\ ~ n <= Len(front) BY <2>1, <1>5
  <2>3. Good(front) BY <2>2, <1>4
  <2>4. Among(s, S) = IF x \in S THEN Append(Among(front, S), x) ELSE Among(front, S)
    BY <2>1, AmongAppend
  <2>5. Once(s) => Once(front) /\ x \notin ToSet(front) BY <2>1, AppendIs
  <2>6. Among(front, S) \in Seq(T \cap S) /\ ToSet(Among(front, S)) \subseteq ToSet(front) BY AmongIs
  <2> DEFINE b == Among(front, S)
  <2> HIDE DEF b, Bad
  <2>7. Once(b) /\ x \notin ToSet(b) => Once(Append(b, x))
    <3>1. b \in Seq(T \cap S) BY <2>6 DEF b
    <3> QED BY <3>1, AppendIs
  <2> QED BY <2>3, <2>4, <2>5, <2>6, <2>7, <1>5 DEF b
<1> QED BY <1>6, <1>7

-----------------------------------------------------------------------------
(* The walk of the compiler from a destination back to where nothing feeds. *)

LEMMA MaxIs ==
  ASSUME NEW m \in Nat, NEW S \in SUBSET (0 .. m), S # {}
  PROVE  Max(S) \in S /\ \A x \in S : Max(S) >= x
<1> DEFINE T == {k \in Nat : \E x \in S : k = m - x}
<1>1. \A x \in S : x \in Nat /\ m - x \in Nat OBVIOUS
<1>2. T # {} /\ T \subseteq Nat BY <1>1
<1>3. PICK k \in T : \A h \in T : k <= h BY <1>2, Least
<1>4. PICK x \in S : k = m - x OBVIOUS
<1>5. \A y \in S : m - y \in T BY <1>1
<1>6. \A y \in S : x >= y BY <1>1, <1>3, <1>4, <1>5
<1> QED BY <1>6 DEF Max

LEMMA OneParent ==
  ASSUME NEW P, IsFiniteSet(P), P # {}, P \subseteq Nat, ~ Cardinality(P) > 1
  PROVE  Max(P) \in P /\ P = {Max(P)}
<1>1. Cardinality(P) \in Nat /\ Cardinality(P) # 0 BY FS_CardinalityType, FS_EmptySet
<1>2. Cardinality(P) = 1 BY <1>1
<1>3. PICK x : P = {x} BY <1>2, FS_Singleton
<1>4. Max({x}) = x BY <1>3 DEF Max
<1> QED BY <1>3, <1>4

LEMMA BoxesAre ==
  ASSUME NEW g, Drawn(g)
  PROVE  /\ DOMAIN g.nodes \subseteq Nat /\ IsFiniteSet(DOMAIN g.nodes)
         /\ Cardinality(DOMAIN g.nodes) \in Nat /\ MaxIds \in Nat /\ DOMAIN g.nodes \subseteq 1 .. MaxIds
<1>1. DOMAIN g.nodes \subseteq 1 .. MaxIds /\ MaxIds \in Nat BY BoundsAssumption DEF Drawn
<1>2. IsFiniteSet(1 .. MaxIds) BY <1>1, FS_Interval
<1> QED BY <1>1, <1>2, FS_Subset, FS_CardinalityType

LEMMA PrependIs ==
  ASSUME NEW T, NEW s \in Seq(T), NEW x \in T
  PROVE  /\ <<x>> \in Seq(T) /\ Len(<<x>>) = 1 /\ <<x>>[1] = x /\ DOMAIN <<x>> = 1 .. 1
         /\ <<x>> \o s \in Seq(T) /\ Len(<<x>> \o s) = Len(s) + 1 /\ <<x>> \o s # <<>>
         /\ (<<x>> \o s)[1] = x /\ \A i \in 1 .. Len(s) : (<<x>> \o s)[i + 1] = s[i]
<1>1. <<x>> \in Seq(T) /\ Len(<<x>>) = 1 /\ <<x>>[1] = x /\ DOMAIN <<x>> = 1 .. 1 OBVIOUS
<1>2. Len(s) \in Nat OBVIOUS
<1> DEFINE one == <<x>>
<1> HIDE DEF one
<1>3. /\ one \o s \in Seq(T) /\ Len(one \o s) = 1 + Len(s)
      /\ \A i \in 1 .. 1 + Len(s) : (one \o s)[i] = IF i <= 1 THEN one[i] ELSE s[i - 1]
  BY <1>1, ConcatProperties DEF one
<1>4. (one \o s)[1] = x BY <1>1, <1>2, <1>3 DEF one
<1>5. \A i \in 1 .. Len(s) : (one \o s)[i + 1] = s[i]
  <2> TAKE i \in 1 .. Len(s)
  <2>1. i + 1 \in 1 .. 1 + Len(s) /\ ~ i + 1 <= 1 /\ (i + 1) - 1 = i BY <1>2
  <2> QED BY <2>1, <1>3
<1>6. one \o s # <<>> BY <1>2, <1>3
<1> QED BY <1>1, <1>2, <1>3, <1>4, <1>5, <1>6 DEF one

\* Boxes one after the other down the main inputs, ending in `end`.
LineTo(g, end, ids) ==
  /\ ids \in Seq(DOMAIN g.nodes) /\ ids # <<>> /\ ids[Len(ids)] = end /\ Once(ids)
  /\ \A i \in 1 .. Len(ids) - 1 : [from |-> ids[i], to |-> ids[i + 1], at |-> "in"] \in g.links

Walks(g, end) ==
  {w \in [nodes: Seq(DOMAIN g.nodes), problem: {"none", "multiple-parents", "cycle"}] :
     IF w.problem = "none" THEN LineTo(g, end, w.nodes) ELSE w.nodes = <<>>}

LEMMA StepOnWalks ==
  ASSUME NEW g, Drawn(g), NEW end, NEW w \in Walks(g, end)
  PROVE  StepOn(g, w) \in Walks(g, end)
<1> DEFINE ids == w.nodes
           P == ParentsOn(g, Head(ids), "in")
           longer == <<Max(P)>> \o ids
<1>1. CASE w.problem # "none" BY <1>1 DEF StepOn
<1>2. CASE w.problem = "none" /\ P = {} BY <1>2 DEF StepOn, StepBack
<1>3. CASE w.problem = "none" /\ P # {} /\ (Cardinality(P) > 1 \/ P \subseteq ToSet(ids))
  <2>1. \A p \in {"multiple-parents", "cycle"} : [nodes |-> <<>>, problem |-> p] \in Walks(g, end)
    <3> TAKE p \in {"multiple-parents", "cycle"}
    <3> DEFINE r == [nodes |-> <<>>, problem |-> p]
    <3>1. r.problem # "none" /\ r.nodes = <<>> OBVIOUS
    <3>2. r \in [nodes: Seq(DOMAIN g.nodes), problem: {"none", "multiple-parents", "cycle"}] OBVIOUS
    <3> HIDE DEF r
    <3> QED BY <3>1, <3>2 DEF Walks
  <2>2. \/ StepOn(g, w) = [nodes |-> <<>>, problem |-> "multiple-parents"]
        \/ StepOn(g, w) = [nodes |-> <<>>, problem |-> "cycle"]
    BY <1>3 DEF StepOn, StepBack
  <2> QED BY <2>1, <2>2
<1>4. CASE w.problem = "none" /\ P # {} /\ ~ Cardinality(P) > 1 /\ ~ P \subseteq ToSet(ids)
  <2>1. LineTo(g, end, ids) /\ ids \in Seq(DOMAIN g.nodes) BY <1>4 DEF Walks
  <2>2. StepOn(g, w) = [w EXCEPT !.nodes = longer] BY <1>4 DEF StepOn, StepBack
  <2>3. P \subseteq DOMAIN g.nodes BY DEF ParentsOn
  <2>4. IsFiniteSet(P) /\ P \subseteq Nat BY <2>3, BoxesAre, FS_Subset
  <2>5. Max(P) \in P /\ P = {Max(P)} BY <2>4, <1>4, OneParent
  <2>6. Max(P) \in DOMAIN g.nodes /\ Max(P) \notin ToSet(ids) BY <2>3, <2>5, <1>4
  <2>7. [from |-> Max(P), to |-> Head(ids), at |-> "in"] \in g.links BY <2>5 DEF ParentsOn
  <2> DEFINE p == Max(P)
             n == Len(ids)
  <2> HIDE DEF ids, p
  <2>8. ids # <<>> /\ n \in Nat /\ n >= 1 /\ Head(ids) = ids[1] /\ ids[n] = end BY <2>1 DEF LineTo
  <2> DEFINE long == <<p>> \o ids
  <2>9. /\ long \in Seq(DOMAIN g.nodes) /\ Len(long) = n + 1 /\ long[1] = p /\ long # <<>>
        /\ \A i \in 1 .. n : long[i + 1] = ids[i]
    <3> DEFINE B == DOMAIN g.nodes
    <3>1. ids \in Seq(B) /\ p \in B BY <2>1, <2>6 DEF p
    <3> HIDE DEF B
    <3>2. <<p>> \o ids \in Seq(B) /\ Len(<<p>> \o ids) = n + 1 /\ (<<p>> \o ids)[1] = p
          /\ <<p>> \o ids # <<>> /\ \A i \in 1 .. n : (<<p>> \o ids)[i + 1] = ids[i]
      BY <3>1, PrependIs
    <3> QED BY <3>2 DEF B
  <2>10. long[n + 1] = end BY <2>8, <2>9
  <2> HIDE DEF long
  <2>11. \A i \in 1 .. n : [from |-> long[i], to |-> long[i + 1], at |-> "in"] \in g.links
    <3> SUFFICES ASSUME NEW i \in 1 .. n
                 PROVE  [from |-> long[i], to |-> long[i + 1], at |-> "in"] \in g.links
      OBVIOUS
    <3>1. CASE i = 1
      <4>1. long[1 + 1] = ids[1] BY <2>8, <2>9
      <4> QED BY <3>1, <4>1, <2>7, <2>8, <2>9 DEF p
    <3>2. CASE i # 1
      <4>1. i - 1 \in 1 .. n - 1 /\ i - 1 \in 1 .. n /\ (i - 1) + 1 = i BY <3>2, <2>8
      <4>2. long[i] = ids[i - 1] /\ long[i + 1] = ids[i] BY <4>1, <2>9
      <4>3. [from |-> ids[i - 1], to |-> ids[(i - 1) + 1], at |-> "in"] \in g.links
        BY <4>1, <2>1 DEF LineTo
      <4> QED BY <4>1, <4>2, <4>3
    <3> QED BY <3>1, <3>2
  <2>12. Once(long)
    <3>1. DOMAIN long = 1 .. n + 1 /\ DOMAIN ids = 1 .. n BY <2>1, <2>8, <2>9
    <3>2. \A i \in 1 .. n : ids[i] # p BY <2>6, <3>1 DEF ToSet, p
    <3>3. \A i \in 1 .. n + 1 : i # 1 => i - 1 \in 1 .. n /\ long[i] = ids[i - 1] BY <2>8, <2>9
    <3>4. Once(ids) BY <2>1 DEF LineTo
    <3> SUFFICES ASSUME NEW i \in 1 .. n + 1, NEW j \in 1 .. n + 1, long[i] = long[j] PROVE i = j
      BY <3>1 DEF Once
    <3>5. (i = 1 <=> j = 1) BY <2>9, <3>2, <3>3
    <3>6. CASE i # 1 /\ j # 1
      <4>1. ids[i - 1] = ids[j - 1] BY <3>3, <3>6
      <4>2. i - 1 = j - 1 BY <3>1, <3>3, <3>4, <3>6, <4>1 DEF Once
      <4> QED BY <4>2, <2>8
    <3> QED BY <3>5, <3>6
  <2>13. LineTo(g, end, long) BY <2>8, <2>9, <2>10, <2>11, <2>12 DEF LineTo
  <2>14. StepOn(g, w) = [nodes |-> long, problem |-> "none"]
    <3>1. w = [nodes |-> ids, problem |-> "none"] BY <1>4 DEF Walks, ids
    <3> QED BY <2>2, <3>1 DEF long, p
  <2> QED BY <2>9, <2>13, <2>14 DEF Walks
<1> QED BY <1>1, <1>2, <1>3, <1>4

WalkIs(g, end, walk) ==
  walk = [i \in 0 .. Cardinality(DOMAIN g.nodes) |->
            IF i = 0 THEN [nodes |-> <<end>>, problem |-> "none"]
            ELSE Given(walk[i - 1], LAMBDA w : StepOn(g, w))]

LEMMA WalkSteps ==
  ASSUME NEW g, Drawn(g), NEW end \in DOMAIN g.nodes
  PROVE  LET n == Cardinality(DOMAIN g.nodes)
             start == [nodes |-> <<end>>, problem |-> "none"]
         IN /\ n \in Nat /\ start \in Walks(g, end)
            /\ \E walk : /\ ChainToSink(g, end) = walk[n]
                         /\ \A k \in 0 .. n : walk[k] = IF k = 0 THEN start ELSE StepOn(g, walk[k - 1])
<1> DEFINE n == Cardinality(DOMAIN g.nodes)
           D == Walks(g, end)
           start == [nodes |-> <<end>>, problem |-> "none"]
           step == [p \in (1 .. n) \X D |-> StepOn(g, p[2])]
           walk == CHOOSE w : WalkIs(g, end, w)
<1>1. n \in Nat BY BoxesAre
<1>2. start \in D
  <2>1. <<end>> \in Seq(DOMAIN g.nodes) /\ Len(<<end>>) = 1 /\ <<end>>[1] = end /\ DOMAIN <<end>> = 1 .. 1
    <3>1. <<>> \in Seq(DOMAIN g.nodes) OBVIOUS
    <3> QED BY <3>1, PrependIs
  <2>2. Once(<<end>>) BY <2>1 DEF Once
  <2>3. LineTo(g, end, <<end>>) BY <2>1, <2>2 DEF LineTo
  <2> QED BY <2>1, <2>3 DEF Walks
<1>3. step \in [(1 .. n) \X D -> D]
  <2>1. \A p \in (1 .. n) \X D : p[2] \in D OBVIOUS
  <2> HIDE DEF D
  <2>2. \A w \in D : StepOn(g, w) \in D BY StepOnWalks DEF D
  <2> QED BY <2>1, <2>2
<1>4. \A k \in 1 .. n, w \in D : step[<<k, w>>] = StepOn(g, w) OBVIOUS
<1>5. \A w : Given(w, LAMBDA v : StepOn(g, v)) = StepOn(g, w) BY DEF Given
<1> HIDE DEF step, D, start
<1>6. PICK u \in [0 .. n -> D] : Iterates(n, start, step, u) BY <1>1, <1>2, <1>3, IterationExists
<1>7. WalkIs(g, end, u)
  <2>1. u = [k \in 0 .. n |-> u[k]] OBVIOUS
  <2>2. \A k \in 0 .. n : u[k] = IF k = 0 THEN start ELSE step[<<k, u[k - 1]>>] BY <1>6 DEF Iterates
  <2>3. \A k \in 0 .. n : k # 0 => k \in 1 .. n /\ u[k - 1] \in D BY <1>1
  <2> HIDE DEF n
  <2>4. \A k \in 0 .. n : u[k] = IF k = 0 THEN start ELSE StepOn(g, u[k - 1]) BY <2>2, <2>3, <1>4
  <2>5. \A k \in 0 .. n : u[k] = IF k = 0 THEN start ELSE Given(u[k - 1], LAMBDA w : StepOn(g, w))
    BY <2>4, <1>5
  <2> QED BY <2>1, <2>5 DEF WalkIs, n, start
<1>8. WalkIs(g, end, walk) BY <1>7
<1>9. ChainToSink(g, end) = walk[n] BY DEF ChainToSink, WalkIs
<1> HIDE DEF walk
<1>10. \A k \in 0 .. n : walk[k] = IF k = 0 THEN start ELSE StepOn(g, walk[k - 1])
  <2>1. \A k \in 0 .. n : walk[k] = IF k = 0 THEN start ELSE Given(walk[k - 1], LAMBDA w : StepOn(g, w))
    BY <1>8 DEF WalkIs, start
  <2> QED BY <2>1, <1>5
<1> QED BY <1>1, <1>2, <1>9, <1>10 DEF D, start

LEMMA ChainWalks ==
  ASSUME NEW g, Drawn(g), NEW end \in DOMAIN g.nodes
  PROVE  ChainToSink(g, end) \in Walks(g, end)
<1> DEFINE n == Cardinality(DOMAIN g.nodes)
           D == Walks(g, end)
           start == [nodes |-> <<end>>, problem |-> "none"]
<1>1. /\ n \in Nat /\ start \in D
      /\ \E walk : /\ ChainToSink(g, end) = walk[n]
                   /\ \A k \in 0 .. n : walk[k] = IF k = 0 THEN start ELSE StepOn(g, walk[k - 1])
  BY WalkSteps
<1> HIDE DEF n, D, start
<1>2. PICK walk : /\ ChainToSink(g, end) = walk[n]
                  /\ \A k \in 0 .. n : walk[k] = IF k = 0 THEN start ELSE StepOn(g, walk[k - 1])
  BY <1>1
<1> DEFINE Bad == {k \in 0 .. n : walk[k] \notin D}
<1>3. Bad = {}
  <2> SUFFICES ASSUME Bad # {} PROVE FALSE OBVIOUS
  <2>1. Bad \subseteq Nat BY <1>1
  <2>2. PICK k \in Bad : \A h \in Bad : k <= h BY <2>1, Least
  <2>3. k \in 0 .. n /\ k # 0 BY <1>1, <1>2
  <2>4. k - 1 \in 0 .. n /\ ~ k <= k - 1 BY <2>3, <1>1
  <2>5. walk[k - 1] \in D BY <2>2, <2>4
  <2>6. walk[k] \in D BY <2>3, <2>5, <1>2, StepOnWalks DEF D
  <2> QED BY <2>6
<1>4. n \in 0 .. n BY <1>1
<1> QED BY <1>2, <1>3, <1>4 DEF D

-----------------------------------------------------------------------------
(* The chain of a destination that reaches a source. *)

LEMMA NumberedIs ==
  ASSUME NEW m \in Nat, NEW S \in SUBSET (1 .. m)
  PROVE  Numbered(S) \in Seq(S) /\ ToSet(Numbered(S)) = S /\ Once(Numbered(S))
<1> DEFINE most == Max(S \cup {0})
           all == [i \in 1 .. most |-> i]
<1>1. S \cup {0} \in SUBSET (0 .. m) /\ S \cup {0} # {} OBVIOUS
<1>2. most \in S \cup {0} /\ \A x \in S \cup {0} : most >= x BY <1>1, MaxIs
<1>0. \A x \in S : x \in Nat OBVIOUS
<1> HIDE DEF most
<1>3. most \in Nat BY <1>0, <1>2
<1>4. all \in Seq(Nat) /\ Len(all) = most /\ DOMAIN all = 1 .. most /\ \A i \in 1 .. most : all[i] = i
  BY <1>3
<1> HIDE DEF all
<1>5. S \subseteq ToSet(all)
  <2> SUFFICES ASSUME NEW x \in S PROVE x \in ToSet(all) OBVIOUS
  <2>1. x \in 1 .. most BY <1>2, <1>3
  <2> QED BY <2>1, <1>4 DEF ToSet
<1>6. Once(all) BY <1>4 DEF Once
<1>7. Numbered(S) = Among(all, S) BY DEF Numbered, all, most
<1>8. Among(all, S) \in Seq(Nat \cap S) /\ ToSet(Among(all, S)) = ToSet(all) \cap S /\ Once(Among(all, S))
  BY <1>4, <1>6, AmongIs, AmongOnce
<1>9. Nat \cap S = S BY <1>0
<1> QED BY <1>5, <1>7, <1>8, <1>9

LEMMA SinksAre ==
  ASSUME NEW g, Drawn(g)
  PROVE  /\ MainSinks(g) \in Seq(DOMAIN g.nodes) /\ Once(MainSinks(g))
         /\ ToSet(MainSinks(g)) = {n \in DOMAIN g.nodes : Kind(g, n) = "sink" /\ ~ g.nodes[n].muted
                                                          /\ ~ IsValidationSink(g.nodes[n])}
<1> DEFINE S == {n \in DOMAIN g.nodes : Kind(g, n) = "sink" /\ ~ g.nodes[n].muted
                                        /\ ~ IsValidationSink(g.nodes[n])}
<1>1. MainSinks(g) = Numbered(S) BY DEF MainSinks
<1>2. S \in SUBSET (1 .. MaxIds) /\ MaxIds \in Nat BY BoxesAre
<1>3. S \subseteq DOMAIN g.nodes OBVIOUS
<1> HIDE DEF S
<1>4. Numbered(S) \in Seq(S) /\ ToSet(Numbered(S)) = S /\ Once(Numbered(S)) BY <1>2, NumberedIs
<1>5. Numbered(S) \in Seq(DOMAIN g.nodes) BY <1>3, <1>4
<1> QED BY <1>1, <1>4, <1>5 DEF S

FeedsOn(g, n) == Kind(g, n) \in {"source", "transform", "validation"}

LEMMA FeederFeeds ==
  ASSUME NEW g, Drawn(g), NEW l \in g.links
  PROVE  l.from \in DOMAIN g.nodes /\ FeedsOn(g, l.from)
<1>1. l.from \in DOMAIN g.nodes /\ l.to \in DOMAIN g.nodes BY DEF Drawn, Sound, LinksHaveEnds
<1>2. HasOutput(g.nodes[l.from]) BY DEF Drawn, Sound, LinksAreAllowed, MayFeed
<1>3. g.nodes[l.from].kind \in Kinds BY <1>1, BoxTypes DEF Drawn, NodeData
<1> QED BY <1>1, <1>2, <1>3 DEF HasOutput, Kinds, FeedsOn, Kind

\* A sequence but for its last.
LEMMA FrontIs ==
  ASSUME NEW T, NEW s \in Seq(T), s # <<>>
  PROVE  \E f \in Seq(T) : /\ s = Append(f, s[Len(s)]) /\ Len(s) = Len(f) + 1 /\ s[Len(s)] \in T
                           /\ \A i \in 1 .. Len(f) : s[i] = f[i]
<1>1. PICK f \in Seq(T), x \in T : s = Append(f, x) BY SequenceEmptyOrAppend
<1>2. Len(f) \in Nat /\ Len(s) = Len(f) + 1 /\ s[Len(s)] = x /\ \A i \in 1 .. Len(f) : s[i] = f[i]
  BY <1>1, AppendIs
<1> QED BY <1>1, <1>2

AliveIn(g) == {n \in DOMAIN g.nodes : Kind(g, n) # "note" /\ ~ g.nodes[n].muted}

\* What stands between a source and a destination.
IsChain(g, c, end) ==
  /\ c \in Seq(DOMAIN g.nodes) /\ Len(c) >= 2 /\ c[Len(c)] = end /\ Once(c)
  /\ ToSet(c) \subseteq AliveIn(g) /\ Kind(g, c[1]) = "source"
  /\ \A i \in 2 .. Len(c) - 1 : Kind(g, c[i]) \in {"transform", "validation"}

LEMMA ChainIs ==
  ASSUME NEW g, Drawn(g), NEW end \in ToSet(MainSinks(g)), ChainFault(g, end) = "none"
  PROVE  IsChain(g, ChainTo(g, end), end)
<1> DEFINE walk == ChainToSink(g, end)
           ids == walk.nodes
           A == AliveIn(g)
           c == Among(ids, A)
           D == DOMAIN g.nodes
<1>1. end \in D /\ Kind(g, end) = "sink" /\ end \in A
  BY SinksAre DEF AliveIn
<1>2. walk \in Walks(g, end) BY <1>1, ChainWalks
<1>3. FaultOf(g, walk) = "none"
  <2>1. ChainFault(g, end) = FaultOf(g, walk) BY DEF ChainFault, Given
  <2> QED BY <2>1
<1>4. \A w : Alive(g, w) = Among(w, A) BY DEF Alive, AliveIn
<1>5. ChainTo(g, end) = c BY <1>4 DEF ChainTo
<1> HIDE DEF walk
<1>6. /\ walk.problem = "none" /\ c # <<>> /\ Kind(g, c[1]) = "source" /\ OfKind(g, Tail(c), "source") = <<>>
  BY <1>3, <1>4 DEF FaultOf
<1>7. LineTo(g, end, ids) BY <1>2, <1>6 DEF Walks
<1> HIDE DEF c, A, D
<1>8. ids \in Seq(D) /\ ids # <<>> /\ ids[Len(ids)] = end /\ Once(ids) BY <1>7 DEF LineTo, D
<1>9. PICK front \in Seq(D) : ids = Append(front, end) /\ Len(ids) = Len(front) + 1
                              /\ \A i \in 1 .. Len(front) : ids[i] = front[i]
  BY <1>8, FrontIs
<1>10. \A n \in ToSet(front) : FeedsOn(g, n)
  <2> SUFFICES ASSUME NEW i \in DOMAIN front PROVE FeedsOn(g, front[i]) BY DEF ToSet
  <2>1. i \in 1 .. Len(front) /\ i \in 1 .. Len(ids) - 1 /\ ids[i] = front[i] BY <1>9
  <2> DEFINE l == [from |-> ids[i], to |-> ids[i + 1], at |-> "in"]
  <2>2. l \in g.links /\ l.from = front[i] BY <2>1, <1>7 DEF LineTo
  <2> QED BY <2>2, FeederFeeds
<1> DEFINE f == Among(front, A)
<1>11. c = Append(f, end) BY <1>1, <1>9, AmongAppend DEF c, D
<1>12. f \in Seq(D \cap A) /\ ToSet(f) = ToSet(front) \cap A BY AmongIs
<1> HIDE DEF f
<1>13. Once(c) BY <1>8, AmongOnce DEF c
<1>14. c \in Seq(D) /\ c \in Seq(D \cap A) /\ Len(f) \in Nat /\ Len(c) = Len(f) + 1 /\ c[Len(c)] = end
       /\ \A i \in 1 .. Len(f) : c[i] = f[i] /\ c[i] \in ToSet(f)
  <2>1. end \in D \cap A BY <1>1 DEF D
  <2>2. /\ Len(f) \in Nat /\ DOMAIN f = 1 .. Len(f) /\ Len(c) = Len(f) + 1
        /\ c[Len(f) + 1] = end /\ \A i \in DOMAIN f : c[i] = f[i]
    BY <1>11, <1>12, AppendIs
  <2>3. c \in Seq(D \cap A) BY <1>11, <1>12, <2>1
  <2>4. c \in Seq(D) BY <2>3
  <2> QED BY <2>2, <2>3, <2>4 DEF ToSet
<1>15. Len(f) >= 1
  <2>1. Len(f) = 0 => c[1] = end BY <1>14
  <2>2. c[1] # end BY <1>1, <1>6
  <2> QED BY <2>1, <2>2, <1>14
<1>16. ToSet(c) \subseteq A
  <2>1. \A i \in DOMAIN c : c[i] \in A BY <1>14
  <2> QED BY <2>1 DEF ToSet
<1>17. ASSUME NEW i \in 2 .. Len(c) - 1 PROVE Kind(g, c[i]) \in {"transform", "validation"}
  <2>1. i \in 1 .. Len(f) /\ i - 1 \in 1 .. Len(Tail(c)) /\ Tail(c)[i - 1] = c[i] /\ Tail(c) \in Seq(D)
    BY <1>14, <1>15
  <2>2. FeedsOn(g, c[i]) BY <2>1, <1>10, <1>12, <1>14
  <2>3. c[i] \in ToSet(Tail(c))
    <3>1. i - 1 \in DOMAIN Tail(c) BY <2>1
    <3> QED BY <2>1, <3>1 DEF ToSet
  <2>4. c[i] \in D BY <1>14
  <2>5. ToSet(Tail(c)) \cap {n \in DOMAIN g.nodes : Kind(g, n) = "source"} = {}
    BY <1>6, <2>1, AmongNone DEF OfKind
  <2>6. Kind(g, c[i]) # "source" BY <2>3, <2>4, <2>5 DEF D
  <2> QED BY <2>2, <2>6 DEF FeedsOn
<1> QED BY <1>5, <1>6, <1>13, <1>14, <1>15, <1>16, <1>17 DEF IsChain, A, D

-----------------------------------------------------------------------------
(* What all chains begin with. *)

Begins(p, s) == Len(p) <= Len(s) /\ p = SubSeq(s, 1, Len(p))

LEMMA SharedPrefixBegins ==
  ASSUME NEW T, NEW S \in SUBSET Seq(T), S # {}
  PROVE  SharedPrefix(S) \in Seq(T) /\ \A s \in S : Begins(SharedPrefix(S), s)
<1> DEFINE C == CommonPrefixes(S)
<1>1. SharedPrefix(S) = LongestCommonPrefix(S) BY DEF SharedPrefix, Given
<1>2. PICK s \in S : TRUE OBVIOUS
<1>3. \A p \in C : p \in Seq(T) /\ \A t \in S : IsPrefix(p, t)
  <2> SUFFICES ASSUME NEW p \in C PROVE p \in Seq(T) /\ \A t \in S : IsPrefix(p, t) OBVIOUS
  <2>1. PICK t \in S : p \in Prefixes(t) BY DEF CommonPrefixes
  <2>2. PICK l \in 0 .. Len(t) : p = SubSeq(t, 1, l) BY <2>1 DEF Prefixes
  <2>3. p \in Seq(T) BY <2>2
  <2> QED BY <2>3 DEF CommonPrefixes
<1>4. \A p \in C : Begins(p, s) /\ Len(p) \in 0 .. Len(s)
  <2> SUFFICES ASSUME NEW p \in C PROVE Begins(p, s) /\ Len(p) \in 0 .. Len(s) OBVIOUS
  <2>1. p \in Seq(T) /\ IsPrefix(p, s) /\ s \in Seq(T) BY <1>3
  <2>2. Len(p) <= Len(s) /\ SubSeq(p, 1, Len(p)) = SubSeq(s, 1, Len(p)) BY <2>1 DEF IsPrefix
  <2>3. SubSeq(p, 1, Len(p)) = p BY <2>1, SubSeqFull
  <2> QED BY <2>1, <2>2, <2>3 DEF Begins
<1>5. <<>> \in C
  <2>1. \A t \in S : SubSeq(t, 1, 0) = <<>> /\ Len(t) \in Nat /\ 0 \in 0 .. Len(t)
    OBVIOUS
  <2>2. <<>> \in Prefixes(s) BY <2>1 DEF Prefixes
  <2>3. \A t \in S : IsPrefix(<<>>, t) BY <2>1 DEF IsPrefix
  <2> QED BY <2>2, <2>3 DEF CommonPrefixes
<1> HIDE DEF C
<1> DEFINE N == {k \in Nat : \E p \in C : k = Len(s) - Len(p)}
<1>6. Len(s) \in Nat /\ \A p \in C : Len(s) - Len(p) \in N BY <1>4
<1>7. N # {} /\ N \subseteq Nat BY <1>5, <1>6
<1>8. PICK k \in N : \A h \in N : k <= h BY <1>7, Least
<1>9. PICK p \in C : k = Len(s) - Len(p) OBVIOUS
<1>10. \A q \in C : Len(q) <= Len(p)
  <2> TAKE q \in C
  <2>1. k <= Len(s) - Len(q) BY <1>6, <1>8
  <2>2. Len(p) \in Int /\ Len(q) \in Int BY <1>4
  <2> QED BY <2>1, <2>2, <1>6, <1>9
<1>11. LongestCommonPrefix(S) \in C BY <1>10 DEF LongestCommonPrefix, C
<1>12. \A r \in Seq(T), t \in Seq(T) : IsPrefix(r, t) => Begins(r, t)
  <2> TAKE r \in Seq(T), t \in Seq(T)
  <2>1. SubSeq(r, 1, Len(r)) = r BY SubSeqFull
  <2> QED BY <2>1 DEF IsPrefix, Begins
<1> QED BY <1>1, <1>3, <1>11, <1>12

\* A sequence cut in two.
CutInTwo(T, s, k, a, b) ==
  /\ a \in Seq(T) /\ Len(a) = k /\ \A i \in 1 .. k : a[i] = s[i]
  /\ b \in Seq(T) /\ Len(b) = Len(s) - k /\ \A i \in 1 .. Len(s) - k : b[i] = s[k + i]
  /\ s = a \o b

LEMMA CutIs ==
  ASSUME NEW T, NEW s \in Seq(T), NEW k \in 0 .. Len(s)
  PROVE  CutInTwo(T, s, k, SubSeq(s, 1, k), SubSeq(s, k + 1, Len(s)))
<1> DEFINE a == SubSeq(s, 1, k)
           b == SubSeq(s, k + 1, Len(s))
<1>1. Len(s) \in Nat /\ k \in Nat /\ k <= Len(s) OBVIOUS
<1>2. a \in Seq(T) /\ Len(a) = k /\ \A i \in 1 .. k : a[i] = s[i] BY <1>1
<1>3. b \in Seq(T) /\ Len(b) = Len(s) - k /\ \A i \in 1 .. Len(s) - k : b[i] = s[k + i] BY <1>1
<1> HIDE DEF a, b
<1>4. a \o b \in Seq(T) /\ Len(a \o b) = Len(s) BY <1>1, <1>2, <1>3
<1>5. \A i \in 1 .. Len(s) : (a \o b)[i] = s[i]
  <2> TAKE i \in 1 .. Len(s)
  <2>1. CASE i <= k BY <2>1, <1>1, <1>2, <1>3
  <2>2. CASE i > k
    <3>1. (a \o b)[i] = b[i - k] BY <2>2, <1>1, <1>2, <1>3
    <3>2. i - k \in 1 .. Len(s) - k /\ k + (i - k) = i BY <2>2, <1>1
    <3> QED BY <3>1, <3>2, <1>3
  <2>3. i <= k \/ i > k BY <1>1
  <2> QED BY <2>1, <2>2, <2>3
<1>6. s = a \o b BY <1>4, <1>5, SeqEqual
<1>7. CutInTwo(T, s, k, a, b) BY <1>2, <1>3, <1>6 DEF CutInTwo
<1> QED BY <1>7 DEF a, b

-----------------------------------------------------------------------------
(* The compiler, when it finds nothing wrong. *)

LEMMA Forced ==
  ASSUME NEW n \in Nat, NEW f, f = [i \in 1 .. n |-> f[i]]
  PROVE  <<>> \o f = f /\ DOMAIN f = 1 .. n /\ Len(f) = n
<1> DEFINE T == {f[i] : i \in 1 .. n}
<1>1. \A i \in 1 .. n : f[i] \in T OBVIOUS
<1> HIDE DEF T
<1>2. f \in Seq(T) /\ Len(f) = n
  <2>1. f \in [1 .. n -> T] BY <1>1
  <2> QED BY <2>1, LenProperties, SeqDef
<1>3. <<>> \o f = f BY <1>2, ConcatEmptySeq
<1> QED BY <1>2, <1>3

LEMMA ChainsAre ==
  ASSUME NEW g, NEW T, NEW ends \in Seq(T)
  PROVE  /\ Chains(g, ends) = [i \in 1 .. Len(ends) |-> ChainTo(g, ends[i])]
         /\ DOMAIN Chains(g, ends) = 1 .. Len(ends)
<1> DEFINE f == [i \in 1 .. Len(ends) |-> ChainTo(g, ends[i])]
<1>1. Len(ends) \in Nat /\ DOMAIN ends = 1 .. Len(ends) OBVIOUS
<1>2. f = [i \in 1 .. Len(ends) |-> f[i]] OBVIOUS
<1>3. Chains(g, ends) = <<>> \o f BY <1>1 DEF Chains
<1> HIDE DEF f
<1>4. <<>> \o f = f BY <1>1, <1>2, Forced
<1> QED BY <1>3, <1>4 DEF f

LEMMA TransformIs ==
  ASSUME NEW g, NEW n
  PROVE  /\ CompileTransform(g, n) = CompiledWith(g, n, Seconds(g)[<<n, {}>>])
         /\ CompileTransform(g, n).step.what = What(g, n)
<1> DEFINE second == Seconds(g)[<<n, {}>>]
<1>1. CompileTransform(g, n) = Given(second, LAMBDA v : CompiledWith(g, n, v)) BY DEF CompileTransform
<1> HIDE DEF second
<1>2. Given(second, LAMBDA v : CompiledWith(g, n, v)) = CompiledWith(g, n, second) BY DEF Given
<1>3. CompiledWith(g, n, second).step.what = What(g, n) BY DEF CompiledWith
<1> QED BY <1>1, <1>2, <1>3 DEF second

TransformBoxes(g) == {n \in DOMAIN g.nodes : Kind(g, n) = "transform"}
RuleBoxes(g) == {n \in DOMAIN g.nodes : Kind(g, n) = "validation"}

LEMMA TransformsAre ==
  ASSUME NEW g, NEW ids \in Seq(DOMAIN g.nodes)
  PROVE  LET nodes == Among(ids, TransformBoxes(g))
             steps == Transforms(g, ids)
         IN  /\ Transforms(g, ids) = [i \in DOMAIN nodes |-> CompileTransform(g, nodes[i])]
             /\ DOMAIN steps = DOMAIN nodes
             /\ StepWhats(StepsOf(steps)) = WhatsOf(g, nodes)
<1> DEFINE nodes == Among(ids, TransformBoxes(g))
           n == Len(nodes)
           f == [i \in 1 .. n |-> CompileTransform(g, nodes[i])]
<1>1. nodes \in Seq(DOMAIN g.nodes \cap TransformBoxes(g)) BY AmongIs
<1> HIDE DEF nodes
<1>2. n \in Nat /\ DOMAIN nodes = 1 .. n BY <1>1
<1>3. f = [i \in 1 .. n |-> f[i]] OBVIOUS
<1>4. Transforms(g, ids) = <<>> \o f
  <2>1. OfKind(g, ids, "transform") = nodes BY DEF OfKind, TransformBoxes, nodes
  <2> QED BY <1>2, <2>1 DEF Transforms, Given
<1> HIDE DEF f
<1>5. Transforms(g, ids) = f /\ DOMAIN f = 1 .. n BY <1>2, <1>3, <1>4, Forced
<1>6. \A i \in 1 .. n : f[i] = CompileTransform(g, nodes[i]) BY DEF f
<1>7. StepWhats(StepsOf(f)) = [i \in 1 .. n |-> f[i].step.what] BY <1>5 DEF StepWhats, StepsOf
<1>8. \A i \in 1 .. n : f[i].step.what = What(g, nodes[i]) BY <1>6, TransformIs
<1>9. WhatsOf(g, nodes) = [i \in 1 .. n |-> What(g, nodes[i])] BY <1>2 DEF WhatsOf
<1>10. StepWhats(StepsOf(f)) = WhatsOf(g, nodes) BY <1>7, <1>8, <1>9
<1> QED BY <1>2, <1>5, <1>10 DEF f, nodes

\* Everything Compile works with, when it finds nothing wrong.
IsCompiled(g, chains, prefix, steps, tails) ==
  LET sinks == MainSinks(g)
      main == MainPrefix(g, prefix)
      compiled == ToSet(steps) \union UNION {ToSet(tails[i]) : i \in DOMAIN tails}
  IN /\ sinks # <<>>
     /\ \A n \in ToSet(sinks) : ChainFault(g, n) = "none"
     /\ chains = [i \in DOMAIN sinks |-> ChainTo(g, sinks[i])]
     /\ prefix = SharedPrefix(Middles(chains))
     /\ steps = Transforms(g, main)
     /\ tails = Tails(g, chains, main)
     /\ ErrorsOf(g, chains, prefix, compiled) = {}
     /\ Compile(g) = [pipeline |-> PipelineOf(g, sinks, chains, OfKind(g, prefix, "validation"), steps, tails),
                      errors |-> {}, unused |-> UnusedOf(g, chains, compiled)]

LEMMA CompileIs ==
  ASSUME NEW g, Drawn(g), Compile(g).errors = {}
  PROVE  \E chains, prefix, steps, tails : IsCompiled(g, chains, prefix, steps, tails)
<1> DEFINE sinks == MainSinks(g)
           good == Among(sinks, {s \in ToSet(sinks) : ChainFault(g, s) = "none"})
           chains == Chains(g, good)
           prefix == SharedPrefix(Middles(chains))
           main == MainPrefix(g, prefix)
           steps == Transforms(g, main)
           tails == Tails(g, chains, main)
           compiled == ToSet(steps) \union UNION {ToSet(tails[i]) : i \in DOMAIN tails}
<1>1. Compile(g) = Compiled(g, good) BY DEF Compile, Given
<1> HIDE DEF good
<1>2. ASSUME good = <<>> PROVE FALSE
  <2>1. Compile(g) = [pipeline |-> NoPipeline, errors |-> {"no-destination"}, unused |-> {}]
    BY <1>1, <1>2 DEF Compiled
  <2> QED BY <2>1
<1>3. Compiled(g, good) = Branches(g, good, chains, prefix)
  <2>1. Compiled(g, good) = Given(chains, LAMBDA c :
            Given(SharedPrefix(Middles(c)), LAMBDA p : Branches(g, good, c, p)))
    BY <1>2 DEF Compiled
  <2> HIDE DEF chains
  <2>2. Given(chains, LAMBDA c : Given(SharedPrefix(Middles(c)), LAMBDA p : Branches(g, good, c, p)))
          = Given(prefix, LAMBDA p : Branches(g, good, chains, p))
    BY DEF Given
  <2> HIDE DEF prefix
  <2>3. Given(prefix, LAMBDA p : Branches(g, good, chains, p)) = Branches(g, good, chains, prefix)
    BY DEF Given
  <2> QED BY <2>1, <2>2, <2>3
<1> HIDE DEF chains, prefix
<1>4. Branches(g, good, chains, prefix) = Assemble(g, good, chains, prefix, steps, tails)
  <2>1. Branches(g, good, chains, prefix)
          = Given(Transforms(g, main), LAMBDA s : Given(Tails(g, chains, main), LAMBDA t :
                     Assemble(g, good, chains, prefix, s, t)))
    BY DEF Branches
  <2> HIDE DEF main
  <2> QED BY <2>1 DEF Given
<1> HIDE DEF main, steps, tails
<1>5. /\ ErrorsOf(g, chains, prefix, compiled) = {}
      /\ Compile(g) = [pipeline |-> PipelineOf(g, good, chains, OfKind(g, prefix, "validation"), steps, tails),
                       errors |-> {}, unused |-> UnusedOf(g, chains, compiled)]
  <2> HIDE DEF compiled
  <2>1. Compile(g) = Assemble(g, good, chains, prefix, steps, tails) BY <1>1, <1>3, <1>4
  <2>2. Assemble(g, good, chains, prefix, steps, tails)
          = [pipeline |-> IF ErrorsOf(g, chains, prefix, compiled) # {} THEN NoPipeline
                          ELSE PipelineOf(g, good, chains, OfKind(g, prefix, "validation"), steps, tails),
             errors |-> ErrorsOf(g, chains, prefix, compiled), unused |-> UnusedOf(g, chains, compiled)]
    BY DEF Assemble, compiled
  <2> QED BY <2>1, <2>2
<1>6. \A n \in ToSet(sinks) : ChainFault(g, n) = "none" BY <1>5 DEF ErrorsOf
<1>7. sinks \in Seq(DOMAIN g.nodes) BY SinksAre
<1>8. good = sinks
  <2> HIDE DEF sinks
  <2>1. ToSet(sinks) \subseteq {s \in ToSet(sinks) : ChainFault(g, s) = "none"} BY <1>6
  <2> QED BY <2>1, <1>7, AmongAll DEF good
<1>9. chains = [i \in DOMAIN sinks |-> ChainTo(g, sinks[i])]
  <2> HIDE DEF sinks
  <2>1. DOMAIN sinks = 1 .. Len(sinks) BY <1>7
  <2> QED BY <2>1, <1>7, <1>8, ChainsAre DEF chains
<1>10. IsCompiled(g, chains, prefix, steps, tails)
  <2> HIDE DEF sinks
  <2>1. prefix = SharedPrefix(Middles(chains)) BY DEF prefix
  <2>2. steps = Transforms(g, MainPrefix(g, prefix)) BY DEF steps, main
  <2>3. tails = Tails(g, chains, MainPrefix(g, prefix)) BY DEF tails, main
  <2> HIDE DEF compiled
  <2>4. compiled = ToSet(steps) \union UNION {ToSet(tails[i]) : i \in DOMAIN tails} BY DEF compiled
  <2> QED BY <1>2, <1>5, <1>6, <1>8, <1>9, <2>1, <2>2, <2>3, <2>4 DEF IsCompiled, sinks
<1> QED BY <1>10

-----------------------------------------------------------------------------
(* The shared chain: transformations, then rules. *)

LEMMA MinIs ==
  ASSUME NEW S \in SUBSET Nat, S # {}
  PROVE  Min(S) \in S /\ \A x \in S : Min(S) <= x
<1>1. PICK x \in S : \A y \in S : x <= y BY Least
<1> QED BY <1>1 DEF Min

LEMMA WhatsAre ==
  ASSUME NEW g, NEW T, NEW a \in Seq(T), NEW b \in Seq(T)
  PROVE  WhatsOf(g, a \o b) = WhatsOf(g, a) \o WhatsOf(g, b)
<1> DEFINE W == {What(g, n) : n \in T}
           u == WhatsOf(g, a)
           v == WhatsOf(g, b)
<1>1. \A n \in T : What(g, n) \in W OBVIOUS
<1> HIDE DEF W
<1>2. Len(a) \in Nat /\ Len(b) \in Nat OBVIOUS
<1>3. u \in Seq(W) /\ Len(u) = Len(a) /\ \A i \in 1 .. Len(a) : u[i] = What(g, a[i])
  BY <1>1 DEF WhatsOf
<1>4. v \in Seq(W) /\ Len(v) = Len(b) /\ \A i \in 1 .. Len(b) : v[i] = What(g, b[i])
  BY <1>1 DEF WhatsOf
<1> DEFINE c == a \o b
<1>5. c \in Seq(T) /\ Len(c) = Len(a) + Len(b)
      /\ \A i \in 1 .. Len(a) + Len(b) : c[i] = IF i <= Len(a) THEN a[i] ELSE b[i - Len(a)]
  BY ConcatProperties
<1> HIDE DEF c
<1>6. WhatsOf(g, c) \in Seq(W) /\ Len(WhatsOf(g, c)) = Len(c)
      /\ \A i \in 1 .. Len(c) : WhatsOf(g, c)[i] = What(g, c[i])
  BY <1>1, <1>5 DEF WhatsOf
<1> DEFINE x == WhatsOf(g, c)
<1> HIDE DEF x, u, v
<1>a. u \in Seq(W) /\ v \in Seq(W) BY <1>3, <1>4
<1>7. u \o v \in Seq(W) /\ Len(u \o v) = Len(u) + Len(v)
      /\ \A i \in 1 .. Len(u) + Len(v) : (u \o v)[i] = IF i <= Len(u) THEN u[i] ELSE v[i - Len(u)]
  BY <1>a, ConcatProperties
<1>8. \A i \in 1 .. Len(x) : x[i] = (u \o v)[i]
  <2> SUFFICES ASSUME NEW i \in 1 .. Len(a) + Len(b) PROVE x[i] = (u \o v)[i] BY <1>5, <1>6 DEF x
  <2>1. x[i] = What(g, c[i]) BY <1>5, <1>6 DEF x
  <2>2. CASE i <= Len(a)
    <3>1. i \in 1 .. Len(a) BY <2>2
    <3> QED BY <3>1, <2>1, <2>2, <1>3, <1>4, <1>5, <1>7
  <2>3. CASE ~ i <= Len(a)
    <3>1. i - Len(a) \in 1 .. Len(b) BY <2>3, <1>2
    <3> QED BY <3>1, <2>1, <2>3, <1>3, <1>4, <1>5, <1>7
  <2> QED BY <2>2, <2>3
<1>9. x = u \o v
  <2>1. x \in Seq(W) /\ Len(x) = Len(u \o v) BY <1>3, <1>4, <1>5, <1>6, <1>7 DEF x
  <2> QED BY <2>1, <1>7, <1>8, SeqEqual
<1> QED BY <1>9 DEF x, c, u, v

\* Boxes that only transform and check.
Works(g, ids) == \A i \in DOMAIN ids : Kind(g, ids[i]) \in {"transform", "validation"}

LEMMA SortIs ==
  ASSUME NEW g, NEW ids \in Seq(DOMAIN g.nodes)
  PROVE  /\ (\A i \in DOMAIN ids : Kind(g, ids[i]) = "transform")
               => Among(ids, TransformBoxes(g)) = ids /\ Among(ids, RuleBoxes(g)) = <<>>
         /\ (\A i \in DOMAIN ids : Kind(g, ids[i]) = "validation")
               => Among(ids, RuleBoxes(g)) = ids /\ Among(ids, TransformBoxes(g)) = <<>>
<1> DEFINE D == DOMAIN g.nodes
<1>1. \A i \in DOMAIN ids : ids[i] \in D OBVIOUS
<1>2. ASSUME \A i \in DOMAIN ids : Kind(g, ids[i]) = "transform"
      PROVE  Among(ids, TransformBoxes(g)) = ids /\ Among(ids, RuleBoxes(g)) = <<>>
  <2>1. ToSet(ids) \subseteq TransformBoxes(g) /\ ToSet(ids) \cap RuleBoxes(g) = {}
    BY <1>1, <1>2 DEF ToSet, TransformBoxes, RuleBoxes
  <2> QED BY <2>1, AmongAll, AmongNone
<1>3. ASSUME \A i \in DOMAIN ids : Kind(g, ids[i]) = "validation"
      PROVE  Among(ids, RuleBoxes(g)) = ids /\ Among(ids, TransformBoxes(g)) = <<>>
  <2>1. ToSet(ids) \subseteq RuleBoxes(g) /\ ToSet(ids) \cap TransformBoxes(g) = {}
    BY <1>1, <1>3 DEF ToSet, TransformBoxes, RuleBoxes
  <2> QED BY <2>1, AmongAll, AmongNone
<1> QED BY <1>2, <1>3

LEMMA MainIs ==
  ASSUME NEW g, NEW p \in Seq(DOMAIN g.nodes), Works(g, p), Wedged(g, p) = {}
  PROVE  LET main == MainPrefix(g, p)
         IN  /\ Len(main) \in 0 .. Len(p) /\ main = SubSeq(p, 1, Len(main))
             /\ \A j \in DOMAIN p : Kind(g, p[j]) = "validation" => j <= Len(main)
             /\ main = Among(main, TransformBoxes(g)) \o Among(p, RuleBoxes(g))
<1> DEFINE R == {i \in DOMAIN p : Kind(g, p[i]) = "validation"}
           n == Len(p)
           last == LastRule(g, p)
           first == FirstRule(g, p)
<1>1. n \in Nat /\ DOMAIN p = 1 .. n /\ R \subseteq 1 .. n OBVIOUS
<1>2. last = Max({0} \cup R) /\ first = Min({n + 1} \cup R) BY DEF LastRule, FirstRule
<1>3. last \in {0} \cup R /\ \A x \in R : last >= x
  <2>1. {0} \cup R \in SUBSET (0 .. n) /\ {0} \cup R # {} BY <1>1
  <2> QED BY <2>1, <1>1, <1>2, MaxIs
<1>4. first \in {n + 1} \cup R /\ \A x \in R : first <= x
  <2>1. {n + 1} \cup R \in SUBSET Nat /\ {n + 1} \cup R # {} BY <1>1
  <2> QED BY <2>1, <1>2, MinIs
<1>5. \A i \in 1 .. n : Kind(g, p[i]) \in {"transform", "validation"} BY <1>1 DEF Works
<1>6. \A i \in 1 .. n : i \in R <=> Kind(g, p[i]) = "validation" BY <1>1
<1>7. \A i \in 1 .. n : first < i /\ i < last => i \in R
  <2>1. \A i \in 1 .. n : first < i /\ i < last /\ Kind(g, p[i]) # "validation" => p[i] \in Wedged(g, p)
    BY <1>1 DEF Wedged
  <2> QED BY <2>1, <1>6
<1> HIDE DEF R, last, first
<1>8. CASE R = {}
  <2>1. MainPrefix(g, p) = p BY <1>3, <1>8 DEF MainPrefix, last
  <2>2. \A i \in DOMAIN p : Kind(g, p[i]) = "transform" BY <1>1, <1>5, <1>6, <1>8
  <2>3. Among(p, TransformBoxes(g)) = p /\ Among(p, RuleBoxes(g)) = <<>> BY <2>2, SortIs
  <2>4. SubSeq(p, 1, n) = p /\ p \o <<>> = p BY SubSeqFull
  <2> QED BY <2>1, <2>2, <2>3, <2>4, <1>1
<1>9. CASE R # {}
  <2>1. last \in R /\ first \in R /\ first <= last /\ first \in 1 .. n /\ last \in 1 .. n /\ last > 0
    <3>1. PICK x \in R : TRUE BY <1>9
    <3>2. x \in 1 .. n /\ last >= x /\ first <= x BY <3>1, <1>1, <1>3, <1>4
    <3>3. last # 0 BY <3>2, <1>1
    <3>4. last \in R /\ last \in 1 .. n BY <3>3, <1>1, <1>3
    <3>5. first # n + 1 BY <3>2, <1>1
    <3>6. first \in R /\ first \in 1 .. n BY <3>5, <1>1, <1>4
    <3> QED BY <3>4, <3>6, <1>1, <1>4
  <2> DEFINE main == SubSeq(p, 1, last)
             rest == SubSeq(p, last + 1, n)
             pre == SubSeq(main, 1, first - 1)
             rules == SubSeq(main, (first - 1) + 1, Len(main))
             D == DOMAIN g.nodes
  <2>2. MainPrefix(g, p) = main BY <2>1 DEF MainPrefix, last
  <2>3. p \in Seq(D) /\ last \in 0 .. n BY <2>1
  <2> HIDE DEF D
  <2>a. CutInTwo(D, p, last, main, rest) BY <2>3, CutIs
  <2> HIDE DEF main, rest
  <2>4. /\ main \in Seq(D) /\ Len(main) = last /\ \A i \in 1 .. last : main[i] = p[i]
        /\ rest \in Seq(D) /\ Len(rest) = n - last /\ \A i \in 1 .. n - last : rest[i] = p[last + i]
        /\ p = main \o rest
    BY <2>a DEF CutInTwo
  <2>5. first - 1 \in 0 .. Len(main) BY <2>1, <2>4
  <2>b. CutInTwo(D, main, first - 1, pre, rules) BY <2>4, <2>5, CutIs
  <2> HIDE DEF pre, rules
  <2>6. /\ pre \in Seq(D) /\ Len(pre) = first - 1 /\ \A i \in 1 .. first - 1 : pre[i] = main[i]
        /\ rules \in Seq(D) /\ Len(rules) = last - (first - 1)
        /\ \A i \in 1 .. last - (first - 1) : rules[i] = main[(first - 1) + i]
        /\ main = pre \o rules
    BY <2>4, <2>b DEF CutInTwo
  <2>7. \A i \in DOMAIN pre : Kind(g, pre[i]) = "transform"
    <3> SUFFICES ASSUME NEW i \in 1 .. first - 1 PROVE Kind(g, pre[i]) = "transform" BY <2>6
    <3>1. i \in 1 .. n /\ i \in 1 .. last /\ ~ first <= i BY <2>1
    <3>2. pre[i] = p[i] /\ i \notin R BY <3>1, <2>4, <2>6, <1>4
    <3> QED BY <3>1, <3>2, <1>5, <1>6
  <2>8. \A i \in DOMAIN rules : Kind(g, rules[i]) = "validation"
    <3> SUFFICES ASSUME NEW i \in 1 .. last - (first - 1) PROVE Kind(g, rules[i]) = "validation" BY <2>6
    <3> DEFINE j == (first - 1) + i
    <3>1. j \in 1 .. n /\ j \in 1 .. last /\ first <= j /\ j <= last BY <2>1
    <3>2. rules[i] = p[j] BY <3>1, <2>4, <2>6
    <3> HIDE DEF j
    <3>3. j = first \/ j = last \/ (first < j /\ j < last) BY <3>1, <2>1
    <3>4. j \in R BY <3>1, <3>3, <2>1, <1>7
    <3> QED BY <3>1, <3>2, <3>4, <1>6
  <2>9. \A i \in DOMAIN rest : Kind(g, rest[i]) = "transform"
    <3> SUFFICES ASSUME NEW i \in 1 .. n - last PROVE Kind(g, rest[i]) = "transform" BY <2>4
    <3>1. last + i \in 1 .. n /\ ~ last >= last + i BY <2>1, <1>1
    <3>2. last + i \notin R BY <3>1, <1>3
    <3> QED BY <3>1, <3>2, <2>4, <1>5, <1>6
  <2>c. pre \in Seq(D) /\ rules \in Seq(D) /\ main \in Seq(D) /\ rest \in Seq(D) BY <2>4, <2>6
  <2>d. main = pre \o rules /\ p = main \o rest BY <2>4, <2>6
  <2>10. /\ Among(pre, TransformBoxes(g)) = pre /\ Among(pre, RuleBoxes(g)) = <<>>
         /\ Among(rules, RuleBoxes(g)) = rules /\ Among(rules, TransformBoxes(g)) = <<>>
         /\ Among(rest, RuleBoxes(g)) = <<>>
    BY <2>c, <2>7, <2>8, <2>9, SortIs DEF D
  <2>11. Among(main, TransformBoxes(g)) = pre
    <3>1. Among(pre \o rules, TransformBoxes(g)) = Among(pre, TransformBoxes(g)) \o Among(rules, TransformBoxes(g))
      BY <2>c, AmongConcat
    <3> QED BY <3>1, <2>c, <2>d, <2>10
  <2>12. Among(p, RuleBoxes(g)) = rules
    <3>1. Among(pre \o rules, RuleBoxes(g)) = Among(pre, RuleBoxes(g)) \o Among(rules, RuleBoxes(g))
      BY <2>c, AmongConcat
    <3>2. Among(main \o rest, RuleBoxes(g)) = Among(main, RuleBoxes(g)) \o Among(rest, RuleBoxes(g))
      BY <2>c, AmongConcat
    <3>3. <<>> \o rules = rules /\ rules \o <<>> = rules BY <2>c
    <3> QED BY <3>1, <3>2, <3>3, <2>d, <2>10
  <2>13. \A j \in DOMAIN p : Kind(g, p[j]) = "validation" => j <= last BY <1>1, <1>3, <1>6
  <2>14. Len(main) \in 0 .. n /\ Len(main) = last BY <2>3, <2>4
  <2>15. main = SubSeq(p, 1, Len(main)) BY <2>14 DEF main
  <2>16. main = Among(main, TransformBoxes(g)) \o Among(p, RuleBoxes(g)) BY <2>d, <2>11, <2>12
  <2> QED BY <2>2, <2>13, <2>14, <2>15, <2>16
<1> QED BY <1>8, <1>9

-----------------------------------------------------------------------------
(* What a destination gets. *)

LEMMA MiddleIs ==
  ASSUME NEW g, NEW end, NEW c, IsChain(g, c, end)
  PROVE  /\ Middle(c) \in Seq(DOMAIN g.nodes) /\ Works(g, Middle(c)) /\ Len(Middle(c)) = Len(c) - 2
         /\ \A i \in 1 .. Len(c) - 2 : Middle(c)[i] = c[i + 1]
<1> DEFINE D == DOMAIN g.nodes
<1>1. c \in Seq(D) /\ Len(c) \in Nat /\ Len(c) >= 2 BY DEF IsChain
<1>2. \A i \in 2 .. Len(c) - 1 : Kind(g, c[i]) \in {"transform", "validation"} BY DEF IsChain
<1> DEFINE m == Middle(c)
<1> HIDE DEF D
<1>3. m \in Seq(D) /\ Len(m) = Len(c) - 2 /\ \A i \in 1 .. Len(c) - 2 : m[i] = c[i + 1]
  <2> DEFINE l == Len(c) - 1
             sub == SubSeq(c, 2, l)
  <2>1. l \in Int /\ 2 <= l + 1 /\ \A i \in 2 .. l : i \in 1 .. Len(c) BY <1>1
  <2>2. m = sub BY DEF Middle
  <2> HIDE DEF l
  <2>3. /\ sub \in Seq(D) /\ Len(sub) = l - 2 + 1
        /\ \A i \in 1 .. l - 2 + 1 : sub[i] = c[2 + i - 1]
    BY <1>1, <2>1, SubSeqProperties
  <2> HIDE DEF sub
  <2>4. l - 2 + 1 = Len(c) - 2 BY <1>1 DEF l
  <2>5. \A i \in 1 .. Len(c) - 2 : 2 + i - 1 = i + 1 OBVIOUS
  <2> QED BY <2>2, <2>3, <2>4, <2>5
<1> HIDE DEF m
<1>4. Works(g, m)
  <2>1. \A i \in 1 .. Len(c) - 2 : i + 1 \in 2 .. Len(c) - 1 BY <1>1
  <2>2. DOMAIN m = 1 .. Len(c) - 2 BY <1>3
  <2> QED BY <2>1, <2>2, <1>2, <1>3 DEF Works
<1> QED BY <1>3, <1>4 DEF m, D

\* The boxes of a chain that no other chain shares, or that follow the last rule.
TailOf(c, main) == SubSeq(c, Len(main) + 2, Len(c) - 1)

\* Between a source and a destination: the shared transformations, the rules,
\* and the transformations of the branch.
LEMMA WayIs ==
  ASSUME NEW g, NEW end, NEW c, IsChain(g, c, end),
         NEW p \in Seq(DOMAIN g.nodes), Begins(p, Middle(c)), Wedged(g, p) = {},
         NEW middles, Middle(c) \in middles, Stray(g, middles, p) = {}
  PROVE  LET main == MainPrefix(g, p)
             tail == TailOf(c, main)
         IN /\ tail \in Seq(DOMAIN g.nodes) /\ main \in Seq(DOMAIN g.nodes)
            /\ Among(tail, TransformBoxes(g)) = tail
            /\ Middle(c) = (Among(main, TransformBoxes(g)) \o Among(p, RuleBoxes(g))) \o tail
<1> DEFINE D == DOMAIN g.nodes
           mid == Middle(c)
           main == MainPrefix(g, p)
           tail == TailOf(c, main)
           m == Len(main)
           n == Len(c)
<1>1. /\ mid \in Seq(D) /\ Works(g, mid) /\ Len(mid) = n - 2 /\ \A i \in 1 .. n - 2 : mid[i] = c[i + 1]
      /\ c \in Seq(D) /\ n \in Nat /\ n >= 2
  <2>1. c \in Seq(D) /\ n \in Nat /\ n >= 2 BY DEF IsChain
  <2> HIDE DEF mid
  <2>2. /\ mid \in Seq(DOMAIN g.nodes) /\ Works(g, mid) /\ Len(mid) = Len(c) - 2
        /\ \A i \in 1 .. Len(c) - 2 : mid[i] = c[i + 1]
    BY MiddleIs DEF mid
  <2> QED BY <2>1, <2>2
<1>2. Len(p) \in Nat /\ Len(p) <= n - 2 /\ p = SubSeq(mid, 1, Len(p)) /\ DOMAIN p = 1 .. Len(p)
  BY <1>1 DEF Begins
<1>3. \A i \in 1 .. Len(p) : p[i] = mid[i]
  <2> HIDE DEF mid
  <2> QED BY <1>1, <1>2
<1>4. Works(g, p)
  <2>1. DOMAIN mid = 1 .. n - 2 BY <1>1
  <2>2. \A i \in 1 .. Len(p) : i \in 1 .. n - 2 BY <1>1, <1>2
  <2> QED BY <2>1, <2>2, <1>1, <1>2, <1>3 DEF Works
<1>5. /\ m \in 0 .. Len(p) /\ main = SubSeq(p, 1, m)
      /\ \A j \in DOMAIN p : Kind(g, p[j]) = "validation" => j <= m
      /\ main = Among(main, TransformBoxes(g)) \o Among(p, RuleBoxes(g))
  BY <1>4, MainIs
<1> DEFINE head == SubSeq(mid, 1, m)
           rest == SubSeq(mid, m + 1, Len(mid))
<1>6. CutInTwo(D, mid, m, head, rest)
  <2>1. m \in 0 .. Len(mid) BY <1>1, <1>2, <1>5
  <2>2. mid \in Seq(D) BY <1>1
  <2> HIDE DEF mid, main, D
  <2> QED BY <2>1, <2>2, CutIs
<1> HIDE DEF mid, main, head, rest, D
<1>7. /\ head \in Seq(D) /\ Len(head) = m /\ \A i \in 1 .. m : head[i] = mid[i]
      /\ rest \in Seq(D) /\ Len(rest) = (n - 2) - m /\ \A i \in 1 .. (n - 2) - m : rest[i] = mid[m + i]
      /\ mid = head \o rest
  BY <1>1, <1>6 DEF CutInTwo
<1>8. main = head
  <2>1. p \in Seq(D) /\ m \in Nat BY <1>2, <1>5 DEF D
  <2>0. m \in 0 .. Len(p) /\ main = SubSeq(p, 1, m) BY <1>5
  <2>2. main \in Seq(D) /\ Len(main) = m /\ \A i \in 1 .. m : main[i] = p[i]
    <3> DEFINE k == m
    <3> HIDE DEF k
    <3>1. CutInTwo(D, p, k, SubSeq(p, 1, k), SubSeq(p, k + 1, Len(p))) BY <2>0, <2>1, CutIs DEF k
    <3>2. SubSeq(p, 1, k) = main /\ k = m BY <2>0 DEF k
    <3> QED BY <3>1, <3>2 DEF CutInTwo
  <2>3. \A i \in 1 .. m : main[i] = head[i] BY <2>2, <1>2, <1>3, <1>5, <1>7
  <2>4. head \in Seq(D) /\ Len(head) = m BY <1>7
  <2> QED BY <2>2, <2>3, <2>4, SeqEqual
<1>9. tail = rest
  <2>1. m \in Nat /\ m <= n - 2 BY <1>2, <1>5
  <2>2. tail \in Seq(D) /\ Len(tail) = (n - 2) - m /\ \A i \in 1 .. (n - 2) - m : tail[i] = c[(m + 1) + i]
    BY <2>1, <1>1 DEF TailOf
  <2> HIDE DEF tail
  <2>3. \A i \in 1 .. (n - 2) - m : tail[i] = rest[i]
    <3> SUFFICES ASSUME NEW i \in 1 .. (n - 2) - m PROVE tail[i] = rest[i] OBVIOUS
    <3>1. m + i \in 1 .. n - 2 /\ (m + i) + 1 = (m + 1) + i BY <2>1, <1>1
    <3>2. mid[m + i] = c[(m + i) + 1] BY <3>1, <1>1
    <3> QED BY <3>1, <3>2, <2>2, <1>7
  <2>4. rest \in Seq(D) /\ Len(rest) = (n - 2) - m BY <1>7
  <2> QED BY <2>2, <2>3, <2>4, SeqEqual
<1>10. \A i \in DOMAIN rest : Kind(g, rest[i]) = "transform"
  <2> SUFFICES ASSUME NEW i \in 1 .. (n - 2) - m, Kind(g, rest[i]) # "transform" PROVE FALSE
    <3>1. DOMAIN rest = 1 .. (n - 2) - m BY <1>7
    <3> QED BY <3>1
  <2>1. m + i \in 1 .. n - 2 /\ rest[i] = mid[m + i] /\ m \in Nat BY <1>2, <1>5, <1>7
  <2>2. Kind(g, mid[m + i]) = "validation"
    <3>1. m + i \in DOMAIN mid BY <2>1, <1>1
    <3> QED BY <3>1, <2>1, <1>1 DEF Works
  <2>3. mid[m + i] \in ToSet(mid)
    <3>1. m + i \in DOMAIN mid BY <2>1, <1>1
    <3> QED BY <3>1 DEF ToSet
  <2>4. mid[m + i] \in ToSet(p)
    <3>1. mid[m + i] \in UNION {ToSet(x) : x \in middles} BY <2>3 DEF mid
    <3> QED BY <3>1, <2>2 DEF Stray
  <2>5. PICK j \in 1 .. Len(p) : p[j] = mid[m + i] BY <2>4, <1>2 DEF ToSet
  <2>6. j \in 1 .. n - 2 /\ mid[j] = mid[m + i] BY <2>5, <1>1, <1>2, <1>3
  <2>7. c[j + 1] = c[(m + i) + 1] BY <2>1, <2>6, <1>1
  <2>8. j + 1 \in DOMAIN c /\ (m + i) + 1 \in DOMAIN c BY <2>1, <2>6, <1>1
  <2>9. j + 1 = (m + i) + 1 BY <2>7, <2>8 DEF IsChain, Once
  <2>10. j > m
    <3>1. i \in Nat /\ i > 0 /\ j \in Nat BY <2>5, <2>1
    <3> QED BY <3>1, <2>1, <2>9
  <2>11. j <= m BY <2>2, <2>5, <1>2, <1>5
  <2> QED BY <2>1, <2>5, <2>10, <2>11
<1>11. Among(rest, TransformBoxes(g)) = rest
  <2>1. rest \in Seq(DOMAIN g.nodes) BY <1>7 DEF D
  <2> QED BY <2>1, <1>10, SortIs
<1>12. mid = (Among(main, TransformBoxes(g)) \o Among(p, RuleBoxes(g))) \o tail BY <1>5, <1>7, <1>8, <1>9
<1>13. tail \in Seq(D) /\ main \in Seq(D) BY <1>7, <1>8, <1>9
<1> QED BY <1>9, <1>11, <1>12, <1>13 DEF mid, main, D

LEMMA DrawnIs ==
  ASSUME NEW g, NEW end, NEW c, IsChain(g, c, end),
         NEW p \in Seq(DOMAIN g.nodes), Begins(p, Middle(c)), Wedged(g, p) = {},
         NEW middles, Middle(c) \in middles, Stray(g, middles, p) = {}
  PROVE  LET main == MainPrefix(g, p)
         IN WhatsOf(g, Middle(c)) =
              StepWhats(StepsOf(Transforms(g, main))) \o WhatsOf(g, OfKind(g, p, "validation"))
                \o StepWhats(StepsOf(Transforms(g, TailOf(c, main))))
<1> DEFINE D == DOMAIN g.nodes
           main == MainPrefix(g, p)
           tail == TailOf(c, main)
           a == Among(main, TransformBoxes(g))
           b == Among(p, RuleBoxes(g))
<1>1. /\ tail \in Seq(D) /\ main \in Seq(D) /\ Among(tail, TransformBoxes(g)) = tail
      /\ Middle(c) = (a \o b) \o tail
  BY WayIs
<1>2. a \in Seq(D) /\ b \in Seq(D)
  <2>1. a \in Seq(D \cap TransformBoxes(g)) /\ b \in Seq(D \cap RuleBoxes(g)) BY <1>1, AmongIs
  <2> HIDE DEF a, b, D
  <2> QED BY <2>1
<1>3. StepWhats(StepsOf(Transforms(g, main))) = WhatsOf(g, a)
      /\ StepWhats(StepsOf(Transforms(g, tail))) = WhatsOf(g, tail)
  BY <1>1, TransformsAre
<1>4. OfKind(g, p, "validation") = b BY DEF OfKind, RuleBoxes
<1> HIDE DEF D, main, tail, a, b
<1>5. a \o b \in Seq(D) BY <1>2
<1>6. WhatsOf(g, (a \o b) \o tail) = WhatsOf(g, a \o b) \o WhatsOf(g, tail) BY <1>1, <1>5, WhatsAre
<1>7. WhatsOf(g, a \o b) = WhatsOf(g, a) \o WhatsOf(g, b) BY <1>2, WhatsAre
<1> QED BY <1>1, <1>3, <1>4, <1>6, <1>7 DEF main, tail

\* What Compile works with, chain by chain.
LEMMA PartsAre ==
  ASSUME NEW g, Drawn(g), NEW chains, NEW prefix, NEW steps, NEW tails,
         IsCompiled(g, chains, prefix, steps, tails)
  PROVE  LET sinks == MainSinks(g)
         IN /\ sinks \in Seq(DOMAIN g.nodes) /\ DOMAIN sinks = 1 .. Len(sinks) /\ Len(sinks) >= 1
            /\ DOMAIN chains = DOMAIN sinks
            /\ \A i \in DOMAIN sinks : /\ chains[i] = ChainTo(g, sinks[i])
                                       /\ IsChain(g, chains[i], sinks[i])
                                       /\ Middle(chains[i]) \in Middles(chains)
                                       /\ Begins(prefix, Middle(chains[i]))
            /\ prefix \in Seq(DOMAIN g.nodes)
            /\ Wedged(g, prefix) = {} /\ Stray(g, Middles(chains), prefix) = {}
<1> DEFINE sinks == MainSinks(g)
           D == DOMAIN g.nodes
<1>1. sinks \in Seq(D) BY SinksAre
<1>2. sinks # <<>> /\ \A n \in ToSet(sinks) : ChainFault(g, n) = "none" BY DEF IsCompiled
<1>3. chains = [i \in DOMAIN sinks |-> ChainTo(g, sinks[i])] BY DEF IsCompiled
<1>4. prefix = SharedPrefix(Middles(chains)) BY DEF IsCompiled
<1>5. Wedged(g, prefix) = {} /\ Stray(g, Middles(chains), prefix) = {}
  <2>1. \E compiled : ErrorsOf(g, chains, prefix, compiled) = {} BY DEF IsCompiled
  <2>2. PICK compiled : ErrorsOf(g, chains, prefix, compiled) = {} BY <2>1
  <2>3. Stray(g, Middles(chains), prefix) # {} => "stray-rule" \in ErrorsOf(g, chains, prefix, compiled)
    BY DEF ErrorsOf
  <2>4. Wedged(g, prefix) # {} => "between-rules" \in ErrorsOf(g, chains, prefix, compiled)
    BY DEF ErrorsOf
  <2> QED BY <2>2, <2>3, <2>4
<1> HIDE DEF sinks
<1>6. DOMAIN sinks = 1 .. Len(sinks) /\ Len(sinks) >= 1 /\ \A i \in DOMAIN sinks : sinks[i] \in ToSet(sinks)
  BY <1>1, <1>2 DEF ToSet
<1>7. \A i \in DOMAIN sinks : IsChain(g, chains[i], sinks[i])
  <2> SUFFICES ASSUME NEW i \in DOMAIN sinks PROVE IsChain(g, chains[i], sinks[i]) OBVIOUS
  <2>1. sinks[i] \in ToSet(MainSinks(g)) /\ ChainFault(g, sinks[i]) = "none" BY <1>2, <1>6 DEF sinks
  <2>2. chains[i] = ChainTo(g, sinks[i]) BY <1>3
  <2> QED BY <2>1, <2>2, ChainIs
<1>8. \A i \in DOMAIN sinks : Middle(chains[i]) \in Middles(chains) BY <1>3 DEF Middles
<1>9. Middles(chains) \in SUBSET Seq(D)
  <2> SUFFICES ASSUME NEW i \in DOMAIN sinks PROVE Middle(chains[i]) \in Seq(D) BY <1>3 DEF Middles
  <2> QED BY <1>7, MiddleIs
<1>10. Middles(chains) # {}
  <2>1. 1 \in DOMAIN sinks BY <1>1, <1>6
  <2> QED BY <2>1, <1>8
<1>11. prefix \in Seq(D) /\ \A s \in Middles(chains) : Begins(prefix, s)
  BY <1>4, <1>9, <1>10, SharedPrefixBegins
<1>12. \A i \in DOMAIN sinks : Begins(prefix, Middle(chains[i])) BY <1>8, <1>11
<1>13. DOMAIN chains = DOMAIN sinks /\ \A i \in DOMAIN sinks : chains[i] = ChainTo(g, sinks[i]) BY <1>3
<1> HIDE DEF D
<1>14. sinks \in Seq(DOMAIN g.nodes) /\ prefix \in Seq(DOMAIN g.nodes) BY <1>1, <1>11 DEF D
<1> QED BY <1>5, <1>6, <1>7, <1>8, <1>12, <1>13, <1>14 DEF sinks

\* RunsAsDrawn, of any graph that is drawn.
LEMMA RunsAre ==
  ASSUME NEW g, Drawn(g), Compile(g).errors = {}
  PROVE  LET p == Compile(g).pipeline
             sinks == MainSinks(g)
         IN /\ Len(p.outputs) = Len(sinks)
            /\ \A i \in DOMAIN sinks :
                 /\ p.outputs[i].what = What(g, sinks[i])
                 /\ DrawnTo(g, sinks[i])
                      = StepWhats(p.steps) \o p.rules \o StepWhats(p.outputs[i].steps)
<1> DEFINE sinks == MainSinks(g)
<1>1. PICK chains, prefix, steps, tails : IsCompiled(g, chains, prefix, steps, tails) BY CompileIs
<1> DEFINE main == MainPrefix(g, prefix)
           rules == OfKind(g, prefix, "validation")
           out == [i \in DOMAIN chains |-> [what |-> What(g, sinks[i]), steps |-> StepsOf(tails[i])]]
           p == PipelineOf(g, sinks, chains, rules, steps, tails)
<1>2. Compile(g).pipeline = p BY <1>1 DEF IsCompiled
<1>3. steps = Transforms(g, main) /\ tails = Tails(g, chains, main) BY <1>1 DEF IsCompiled
<1>4. /\ sinks \in Seq(DOMAIN g.nodes) /\ DOMAIN sinks = 1 .. Len(sinks) /\ Len(sinks) >= 1
      /\ DOMAIN chains = DOMAIN sinks
      /\ \A i \in DOMAIN sinks : /\ chains[i] = ChainTo(g, sinks[i])
                                 /\ IsChain(g, chains[i], sinks[i])
                                 /\ Middle(chains[i]) \in Middles(chains)
                                 /\ Begins(prefix, Middle(chains[i]))
      /\ prefix \in Seq(DOMAIN g.nodes)
      /\ Wedged(g, prefix) = {} /\ Stray(g, Middles(chains), prefix) = {}
  BY <1>1, PartsAre
<1> HIDE DEF sinks, main, rules
<1>5. p.steps = StepsOf(steps) /\ p.outputs = out BY DEF PipelineOf
<1>6. p.rules = WhatsOf(g, rules)
  <2>1. p.rules = BuildValidations(g, rules).rules BY DEF PipelineOf
  <2>2. CASE rules = <<>>
    <3>1. WhatsOf(g, <<>>) = <<>> BY DEF WhatsOf
    <3> QED BY <2>1, <2>2, <3>1 DEF BuildValidations
  <2>3. CASE rules # <<>> BY <2>1, <2>3 DEF BuildValidations
  <2> QED BY <2>2, <2>3
<1>7. Len(sinks) \in Nat /\ DOMAIN out = 1 .. Len(sinks) BY <1>4
<1>8. Len(p.outputs) = Len(sinks)
  <2>1. out \in Seq({out[i] : i \in DOMAIN out})
    <3> HIDE DEF out
    <3>1. <<>> \o out = out /\ Len(out) = Len(sinks)
      <4>1. out = [i \in 1 .. Len(sinks) |-> out[i]] BY <1>4 DEF out
      <4> QED BY <1>7, <4>1, Forced
    <3>2. out = [i \in 1 .. Len(sinks) |-> out[i]] BY <1>4 DEF out
    <3> QED BY <1>7, <3>2
  <2> HIDE DEF out
  <2>2. out = [i \in 1 .. Len(sinks) |-> out[i]] BY <1>4 DEF out
  <2> QED BY <1>5, <1>7, <2>2, Forced
<1>9. ASSUME NEW i \in DOMAIN sinks
      PROVE  /\ p.outputs[i].what = What(g, sinks[i])
             /\ DrawnTo(g, sinks[i]) = StepWhats(p.steps) \o p.rules \o StepWhats(p.outputs[i].steps)
  <2> DEFINE c == chains[i]
             tail == TailOf(c, main)
             n == Len(sinks)
             f == [j \in 1 .. n |-> Transforms(g, SubSeq(chains[j], Len(main) + 2, Len(chains[j]) - 1))]
  <2>1. p.outputs[i].what = What(g, sinks[i]) /\ p.outputs[i].steps = StepsOf(tails[i]) BY <1>4, <1>5
  <2>2. tails[i] = Transforms(g, tail)
    <3>1. tails = <<>> \o f BY <1>3, <1>4 DEF Tails
    <3>2. f = [j \in 1 .. n |-> f[j]] /\ n \in Nat BY <1>7
    <3>3. f[i] = Transforms(g, tail) BY <1>4 DEF TailOf
    <3> HIDE DEF f, n, tail
    <3> QED BY <3>1, <3>2, <3>3, Forced
  <2>3. IsChain(g, c, sinks[i]) /\ Middle(c) \in Middles(chains) /\ Begins(prefix, Middle(c)) BY <1>4
  <2>4. DrawnTo(g, sinks[i]) = WhatsOf(g, Middle(c)) BY <1>4 DEF DrawnTo
  <2> HIDE DEF c
  <2>5. WhatsOf(g, Middle(c)) = StepWhats(StepsOf(Transforms(g, main))) \o WhatsOf(g, rules)
                                  \o StepWhats(StepsOf(Transforms(g, tail)))
    BY <1>4, <2>3, DrawnIs DEF main, rules
  <2> HIDE DEF tail, p
  <2> QED BY <1>3, <1>5, <1>6, <2>1, <2>2, <2>4, <2>5
<1> QED BY <1>2, <1>8, <1>9 DEF sinks

(* On any canvas, whatever was drawn on it: when the compiler finds no      *)
(* fault, each destination drawn is an output of the pipeline, in their     *)
(* order, and the main transformations, the rules and the steps of its own  *)
(* branch, one after the other, are what stands on its way, each box once   *)
(* and in that order (compileGraph, toJson.ts:526-709).                     *)
THEOREM CompilesAsDrawn == Spec => []RunsAsDrawn
<1>1. CanvasInv => RunsAsDrawn
  <2> SUFFICES ASSUME CanvasInv PROVE RunsAsDrawn OBVIOUS
  <2>1. Drawn(graph) BY InvInParts, VersionsAre
  <2> QED BY <2>1, RunsAre DEF RunsAsDrawn
<1> QED BY <1>1, CanvasInvariant, PTL

-----------------------------------------------------------------------------
(* Sequences of sequences, one after the other. *)

Joined(a, b, c) == (a \o b) \o c = a \o (b \o c)

LEMMA Associates ==
  ASSUME NEW T, NEW a \in Seq(T), NEW b \in Seq(T), NEW c \in Seq(T)
  PROVE  Joined(a, b, c)
BY ConcatAssociative DEF Joined

FlatIs(A, flat) ==
  flat = [i \in 1 .. Len(A) |-> IF i = 1 THEN A[i] ELSE flat[i - 1] \o A[i]]
Flat(A) == CHOOSE flat : FlatIs(A, flat)

LEMMA FlattenIsFlat == \A A : FlattenSeq(A) = IF Len(A) = 0 THEN A ELSE Flat(A)[Len(A)]
BY DEF FlattenSeq, Flat, FlatIs

LEMMA FlatExists ==
  ASSUME NEW T, NEW A \in Seq(Seq(T))
  PROVE  FlatIs(A, Flat(A)) /\ \A i \in 1 .. Len(A) : Flat(A)[i] \in Seq(T)
<1> DEFINE n == Len(A)
           D == Seq(T)
           step == [p \in (1 .. n) \X D |-> IF p[1] = 1 THEN A[1] ELSE p[2] \o A[p[1]]]
<1>1. n \in Nat /\ <<>> \in D /\ \A i \in 1 .. n : A[i] \in D OBVIOUS
<1>2. step \in [(1 .. n) \X D -> D]
  <2> SUFFICES ASSUME NEW k \in 1 .. n, NEW s \in D
               PROVE  (IF k = 1 THEN A[1] ELSE s \o A[k]) \in D
    OBVIOUS
  <2>1. A[k] \in D /\ (k = 1 => A[1] \in D) BY <1>1
  <2>2. s \o A[k] \in D BY <2>1
  <2> QED BY <2>1, <2>2
<1>3. \A k \in 1 .. n, s \in D : step[<<k, s>>] = IF k = 1 THEN A[1] ELSE s \o A[k] OBVIOUS
<1> HIDE DEF step
<1>4. PICK w \in [0 .. n -> D] : Iterates(n, <<>>, step, w) BY <1>1, <1>2, IterationExists
<1> DEFINE u == [i \in 1 .. n |-> w[i]]
<1>5. \A k \in 1 .. n : u[k] = IF k = 1 THEN A[k] ELSE u[k - 1] \o A[k]
  <2> SUFFICES ASSUME NEW k \in 1 .. n PROVE u[k] = IF k = 1 THEN A[k] ELSE u[k - 1] \o A[k]
    OBVIOUS
  <2>1. k \in 0 .. n /\ k - 1 \in 0 .. n /\ k # 0 /\ (k # 1 => k - 1 \in 1 .. n) BY <1>1
  <2>2. \A h \in 0 .. n : w[h] = IF h = 0 THEN <<>> ELSE step[<<h, w[h - 1]>>] BY <1>4 DEF Iterates
  <2>3. w[k - 1] \in D BY <2>1
  <2> HIDE DEF D, n
  <2>4. w[k] = step[<<k, w[k - 1]>>] BY <2>1, <2>2
  <2>5. w[k] = IF k = 1 THEN A[1] ELSE w[k - 1] \o A[k] BY <2>3, <2>4, <1>3
  <2>6. u[k] = w[k] /\ (k # 1 => u[k - 1] = w[k - 1]) BY <2>1
  <2> QED BY <2>5, <2>6
<1>6. FlatIs(A, u)
  <2>1. u = [i \in 1 .. n |-> u[i]] OBVIOUS
  <2> HIDE DEF u
  <2> QED BY <2>1, <1>5 DEF FlatIs
<1>7. FlatIs(A, Flat(A)) BY <1>6 DEF Flat
<1> DEFINE v == Flat(A)
<1>8. \A k \in 1 .. n : v[k] = IF k = 1 THEN A[k] ELSE v[k - 1] \o A[k] BY <1>7 DEF FlatIs
<1> DEFINE Bad == {k \in 1 .. n : v[k] \notin D}
<1> HIDE DEF v, n
<1>9. Bad = {}
  <2> SUFFICES ASSUME Bad # {} PROVE FALSE OBVIOUS
  <2>1. Bad \subseteq Nat BY <1>1
  <2>2. PICK k \in Bad : \A h \in Bad : k <= h BY <2>1, Least
  <2>3. k \in 1 .. n /\ k # 1 BY <1>1, <1>8
  <2>4. k - 1 \in 1 .. n /\ ~ k <= k - 1 BY <2>3, <1>1
  <2>5. v[k - 1] \in D /\ A[k] \in D BY <2>2, <2>3, <2>4, <1>1
  <2>6. v[k - 1] \o A[k] \in D BY <2>5
  <2>7. v[k] \in D BY <2>3, <2>6, <1>8
  <2> QED BY <2>7
<1> QED BY <1>7, <1>9 DEF v, n

LEMMA FlattenAppend ==
  ASSUME NEW T, NEW A \in Seq(Seq(T)), NEW s \in Seq(T)
  PROVE  FlattenSeq(A) \in Seq(T) /\ FlattenSeq(Append(A, s)) = FlattenSeq(A) \o s
<1> DEFINE long == Append(A, s)
           n == Len(A)
           v == Flat(A)
           w == Flat(long)
<1>1. n \in Nat /\ long \in Seq(Seq(T)) /\ Len(long) = n + 1 /\ long[n + 1] = s /\ \A i \in 1 .. n : long[i] = A[i]
  OBVIOUS
<1>2. FlatIs(A, v) /\ FlatIs(long, w) /\ \A i \in 1 .. n : v[i] \in Seq(T)
  <2> HIDE DEF long
  <2> QED BY <1>1, FlatExists
<1> HIDE DEF long, v, w, n
<1>3. \A i \in 1 .. n : v[i] = IF i = 1 THEN A[i] ELSE v[i - 1] \o A[i] BY <1>2 DEF FlatIs, n
<1>4. \A i \in 1 .. n + 1 : w[i] = IF i = 1 THEN long[i] ELSE w[i - 1] \o long[i] BY <1>1, <1>2 DEF FlatIs
<1> DEFINE Bad == {i \in 1 .. n : v[i] # w[i]}
<1>5. Bad = {}
  <2> SUFFICES ASSUME Bad # {} PROVE FALSE OBVIOUS
  <2>1. Bad \subseteq Nat BY <1>1
  <2>2. PICK k \in Bad : \A h \in Bad : k <= h BY <2>1, Least
  <2>3. k \in 1 .. n /\ k \in 1 .. n + 1 /\ long[k] = A[k] BY <1>1
  <2>4. k # 1 BY <2>3, <1>3, <1>4
  <2>5. k - 1 \in 1 .. n /\ ~ k <= k - 1 BY <2>3, <2>4, <1>1
  <2>6. v[k - 1] = w[k - 1] BY <2>2, <2>5
  <2>7. v[k] = w[k] BY <2>3, <2>4, <2>6, <1>3, <1>4
  <2> QED BY <2>7
<1>6. FlattenSeq(long) = w[n + 1]
  <2>1. Len(long) # 0 BY <1>1
  <2> QED BY <2>1, <1>1, FlattenIsFlat DEF w
<1>7. n + 1 \in 1 .. n + 1 /\ (n + 1) - 1 = n BY <1>1
<1>8. w[n + 1] = IF n + 1 = 1 THEN s ELSE w[n] \o s BY <1>1, <1>4, <1>7
<1>9. CASE n = 0
  <2>1. A = <<>> /\ FlattenSeq(A) = A BY <1>9, FlattenIsFlat DEF n
  <2>2. <<>> \o s = s /\ <<>> \in Seq(T) OBVIOUS
  <2>3. FlattenSeq(long) = s BY <1>6, <1>8, <1>9
  <2>4. FlattenSeq(A) \o s = s BY <2>1, <2>2
  <2>5. FlattenSeq(A) \in Seq(T) BY <2>1, <2>2
  <2> QED BY <2>3, <2>4, <2>5 DEF long
<1>10. CASE n # 0
  <2>1. n \in 1 .. n /\ n + 1 # 1 BY <1>1, <1>10
  <2>2. FlattenSeq(A) = v[n] BY <1>10, FlattenIsFlat DEF n, v
  <2>3. v[n] = w[n] /\ v[n] \in Seq(T) BY <2>1, <1>2, <1>5
  <2> QED BY <2>1, <2>2, <2>3, <1>6, <1>8 DEF long
<1> QED BY <1>9, <1>10

LEMMA FlattenConcat ==
  ASSUME NEW T, NEW A \in Seq(Seq(T)), NEW B \in Seq(Seq(T))
  PROVE  FlattenSeq(A \o B) = FlattenSeq(A) \o FlattenSeq(B)
<1> DEFINE S == Seq(T)
           Good(s) == FlattenSeq(A \o s) = FlattenSeq(A) \o FlattenSeq(s)
           Bad == {n \in Nat : \E s \in Seq(S) : Len(s) = n /\ ~ Good(s)}
<1>0. A \in Seq(S) /\ B \in Seq(S) /\ <<>> \in S OBVIOUS
<1>a. FlattenSeq(A) \in S BY <1>0, FlattenAppend
<1> HIDE DEF S
<1>1. SUFFICES Bad = {} BY <1>0
<1>2. SUFFICES ASSUME Bad # {} PROVE FALSE OBVIOUS
<1>3. Bad \subseteq Nat OBVIOUS
<1>4. PICK n \in Bad : \A k \in Bad : n <= k BY <1>2, <1>3, Least
<1>5. PICK s \in Seq(S) : Len(s) = n /\ ~ Good(s) OBVIOUS
<1>6. CASE s = <<>>
  <2>1. A \o <<>> = A BY <1>0
  <2>2. FlattenSeq(<<>>) = <<>> BY FlattenIsFlat
  <2>3. FlattenSeq(A) \o <<>> = FlattenSeq(A) BY <1>a DEF S
  <2> QED BY <2>1, <2>2, <2>3, <1>5, <1>6
<1>7. CASE s # <<>>
  <2>1. PICK f \in Seq(S), x \in S : s = Append(f, x) BY <1>7, SequenceEmptyOrAppend
  <2>2. Len(f) \in Nat /\ ~ n <= Len(f) BY <2>1, <1>5
  <2>3. Good(f) BY <2>2, <1>4
  <2>4. FlattenSeq(f) \in S /\ FlattenSeq(s) = FlattenSeq(f) \o x BY <2>1, FlattenAppend DEF S
  <2>5. A \o s = Append(A \o f, x) /\ A \o f \in Seq(S) BY <2>1, <1>0
  <2> DEFINE h == A \o f
  <2> HIDE DEF h, Bad
  <2>6. FlattenSeq(Append(h, x)) = FlattenSeq(h) \o x
    <3>1. h \in Seq(S) BY <2>5 DEF h
    <3> QED BY <3>1, <2>1, FlattenAppend DEF S
  <2> DEFINE a == FlattenSeq(A)
             b == FlattenSeq(f)
  <2> HIDE DEF a, b
  <2>7. (a \o b) \o x = a \o (b \o x)
    <3>1. a \in Seq(T) /\ b \in Seq(T) /\ x \in Seq(T) BY <1>a, <2>1, <2>4 DEF a, b, S
    <3> HIDE DEF a, b, S, Bad, Good
    <3>2. Joined(a, b, x) BY <3>1, Associates
    <3> QED BY <3>2 DEF Joined
  <2> QED BY <2>3, <2>4, <2>5, <2>6, <2>7, <1>5 DEF a, b, h
<1> QED BY <1>6, <1>7

\* What is in the parts of a sequence, and only that.
LEMMA ConcatIs ==
  ASSUME NEW T, NEW a \in Seq(T), NEW b \in Seq(T)
  PROVE  a \o b \in Seq(T) /\ ToSet(a \o b) = ToSet(a) \cup ToSet(b)
<1> DEFINE c == a \o b
<1>1. c \in Seq(T) /\ Len(c) = Len(a) + Len(b) /\ Len(a) \in Nat /\ Len(b) \in Nat
      /\ \A i \in 1 .. Len(a) + Len(b) : c[i] = IF i <= Len(a) THEN a[i] ELSE b[i - Len(a)]
  BY ConcatProperties
<1> HIDE DEF c
<1>2. DOMAIN a = 1 .. Len(a) /\ DOMAIN b = 1 .. Len(b) /\ DOMAIN c = 1 .. Len(a) + Len(b) BY <1>1
<1>3. ToSet(c) \subseteq ToSet(a) \cup ToSet(b)
  <2> SUFFICES ASSUME NEW i \in 1 .. Len(a) + Len(b) PROVE c[i] \in ToSet(a) \cup ToSet(b)
    BY <1>2 DEF ToSet
  <2>1. CASE i <= Len(a)
    <3>1. i \in 1 .. Len(a) /\ c[i] = a[i] BY <2>1, <1>1
    <3> QED BY <3>1, <1>2 DEF ToSet
  <2>2. CASE ~ i <= Len(a)
    <3>1. i - Len(a) \in 1 .. Len(b) /\ c[i] = b[i - Len(a)] BY <2>2, <1>1
    <3> QED BY <3>1, <1>2 DEF ToSet
  <2> QED BY <2>1, <2>2
<1>4. ToSet(a) \subseteq ToSet(c)
  <2> SUFFICES ASSUME NEW i \in 1 .. Len(a) PROVE a[i] \in ToSet(c) BY <1>2 DEF ToSet
  <2>1. i \in 1 .. Len(a) + Len(b) /\ i <= Len(a) BY <1>1
  <2> QED BY <2>1, <1>1, <1>2 DEF ToSet
<1>5. ToSet(b) \subseteq ToSet(c)
  <2> SUFFICES ASSUME NEW i \in 1 .. Len(b) PROVE b[i] \in ToSet(c) BY <1>2 DEF ToSet
  <2> DEFINE j == Len(a) + i
  <2>1. j \in 1 .. Len(a) + Len(b) /\ ~ j <= Len(a) /\ j - Len(a) = i BY <1>1
  <2> HIDE DEF j
  <2> QED BY <2>1, <1>1, <1>2 DEF ToSet
<1> QED BY <1>1, <1>3, <1>4, <1>5 DEF c

\* What the parts hold is what they hold together.
Holds(A) == UNION {ToSet(A[i]) : i \in DOMAIN A}

LEMMA FlatHolds ==
  ASSUME NEW T, NEW A \in Seq(Seq(T))
  PROVE  ToSet(FlattenSeq(A)) = Holds(A)
<1> DEFINE S == Seq(T)
           Good(s) == ToSet(FlattenSeq(s)) = Holds(s)
           Bad == {n \in Nat : \E s \in Seq(S) : Len(s) = n /\ ~ Good(s)}
<1>0. A \in Seq(S) /\ <<>> \in S OBVIOUS
<1> HIDE DEF S
<1>1. Bad = {}
  <2> SUFFICES ASSUME Bad # {} PROVE FALSE OBVIOUS
  <2>1. Bad \subseteq Nat OBVIOUS
  <2>2. PICK n \in Bad : \A k \in Bad : n <= k BY <2>1, Least
  <2>3. PICK s \in Seq(S) : Len(s) = n /\ ~ Good(s) OBVIOUS
  <2>4. CASE s = <<>>
    <3>1. FlattenSeq(<<>>) = <<>> BY FlattenIsFlat
    <3>2. ToSet(<<>>) = {} /\ Holds(<<>>) = {} BY DEF ToSet, Holds
    <3> QED BY <3>1, <3>2, <2>3, <2>4
  <2>5. CASE s # <<>>
    <3>1. PICK f \in Seq(S), x \in S : s = Append(f, x) BY <2>5, SequenceEmptyOrAppend
    <3>2. Len(f) \in Nat /\ ~ n <= Len(f) BY <3>1, <2>3
    <3>3. Good(f) BY <3>2, <2>2
    <3>4. FlattenSeq(f) \in S /\ FlattenSeq(s) = FlattenSeq(f) \o x BY <3>1, FlattenAppend DEF S
    <3> DEFINE b == FlattenSeq(f)
               m == Len(f) + 1
    <3>5. /\ DOMAIN s = DOMAIN f \cup {m} /\ m \notin DOMAIN f /\ s[m] = x /\ \A i \in DOMAIN f : s[i] = f[i]
      BY <3>1, AppendIs
    <3> HIDE DEF b, m, Bad
    <3>6. ToSet(b \o x) = ToSet(b) \cup ToSet(x)
      <4>1. b \in Seq(T) /\ x \in Seq(T) BY <3>1, <3>4 DEF b, S
      <4> QED BY <4>1, ConcatIs
    <3>7. Holds(s) = Holds(f) \cup ToSet(x) BY <3>5 DEF Holds
    <3> QED BY <3>3, <3>4, <3>6, <3>7, <2>3 DEF b
  <2> QED BY <2>4, <2>5
<1>2. \A s \in Seq(S) : Good(s)
  <2> SUFFICES ASSUME NEW s \in Seq(S) PROVE Good(s) OBVIOUS
  <2>1. Len(s) \in Nat OBVIOUS
  <2> QED BY <2>1, <1>1
<1>3. Good(A) BY <1>0, <1>2
<1>4. ToSet(FlattenSeq(A)) = Holds(A) BY <1>3
<1> QED BY <1>4

LEMMA InOrderJoin ==
  ASSUME NEW T, NEW u \in Seq(T), NEW v \in Seq(T), NEW at, InOrder(at, u), InOrder(at, v),
         \A x \in ToSet(u), y \in ToSet(v) : at[x] <= at[y]
  PROVE  InOrder(at, u \o v)
<1> DEFINE c == u \o v
           m == Len(u)
           n == Len(v)
<1>1. /\ m \in Nat /\ n \in Nat /\ c \in Seq(T) /\ Len(c) = m + n
      /\ \A i \in 1 .. m + n : c[i] = IF i <= m THEN u[i] ELSE v[i - m]
  BY ConcatProperties
<1>2. DOMAIN u = 1 .. m /\ DOMAIN v = 1 .. n OBVIOUS
<1> HIDE DEF c
<1>3. DOMAIN c = 1 .. m + n BY <1>1
<1> HIDE DEF m, n
<1>4. \A i \in 1 .. m : u[i] \in ToSet(u) BY <1>2 DEF ToSet
<1>5. \A i \in 1 .. n : v[i] \in ToSet(v) BY <1>2 DEF ToSet
<1> SUFFICES ASSUME NEW i \in 1 .. m + n, NEW j \in 1 .. m + n, i < j PROVE at[c[i]] <= at[c[j]]
  BY <1>3 DEF InOrder, c
<1>6. CASE j <= m
  <2>1. i \in 1 .. m /\ j \in 1 .. m /\ c[i] = u[i] /\ c[j] = u[j] BY <1>1, <1>6
  <2> QED BY <2>1, <1>2 DEF InOrder
<1>7. CASE i <= m /\ ~ j <= m
  <2>1. i \in 1 .. m /\ j - m \in 1 .. n /\ c[i] = u[i] /\ c[j] = v[j - m] BY <1>1, <1>7
  <2> QED BY <2>1, <1>4, <1>5
<1>8. CASE ~ i <= m
  <2>1. i - m \in 1 .. n /\ j - m \in 1 .. n /\ c[i] = v[i - m] /\ c[j] = v[j - m] /\ i - m < j - m
    BY <1>1, <1>8
  <2> QED BY <2>1, <1>2 DEF InOrder
<1> QED BY <1>1, <1>6, <1>7, <1>8

\* Parts that are each in order, and in order one after the other.
Rises(at, A) ==
  /\ \A i \in DOMAIN A : InOrder(at, A[i])
  /\ \A i, j \in DOMAIN A : i < j => \A x \in ToSet(A[i]), y \in ToSet(A[j]) : at[x] <= at[y]

LEMMA FlattenInOrder ==
  ASSUME NEW T, NEW A \in Seq(Seq(T)), NEW at, Rises(at, A)
  PROVE  InOrder(at, FlattenSeq(A))
<1> DEFINE S == Seq(T)
           Good(s) == Rises(at, s) => InOrder(at, FlattenSeq(s))
           Bad == {n \in Nat : \E s \in Seq(S) : Len(s) = n /\ ~ Good(s)}
<1>0. A \in Seq(S) /\ <<>> \in S OBVIOUS
<1> HIDE DEF S
<1>1. Bad = {}
  <2> SUFFICES ASSUME Bad # {} PROVE FALSE OBVIOUS
  <2>1. Bad \subseteq Nat OBVIOUS
  <2>2. PICK n \in Bad : \A k \in Bad : n <= k BY <2>1, Least
  <2>3. PICK s \in Seq(S) : Len(s) = n /\ ~ Good(s) OBVIOUS
  <2>4. CASE s = <<>>
    <3>1. FlattenSeq(<<>>) = <<>> BY FlattenIsFlat
    <3> QED BY <3>1, <2>3, <2>4 DEF InOrder
  <2>5. CASE s # <<>>
    <3>1. PICK f \in Seq(S), x \in S : s = Append(f, x) BY <2>5, SequenceEmptyOrAppend
    <3>2. Len(f) \in Nat /\ ~ n <= Len(f) BY <3>1, <2>3
    <3>3. Good(f) BY <3>2, <2>2
    <3>4. FlattenSeq(f) \in S /\ FlattenSeq(s) = FlattenSeq(f) \o x BY <3>1, FlattenAppend DEF S
    <3>5. ToSet(FlattenSeq(f)) = Holds(f) BY <3>1, FlatHolds DEF S
    <3> DEFINE b == FlattenSeq(f)
               m == Len(f) + 1
    <3>6. /\ DOMAIN s = DOMAIN f \cup {m} /\ m \notin DOMAIN f /\ s[m] = x /\ \A i \in DOMAIN f : s[i] = f[i] /\ i < m
      BY <3>1, AppendIs
    <3> HIDE DEF b, m, Bad
    <3>7. Rises(at, s) BY <2>3
    <3>8. Rises(at, f) /\ InOrder(at, x) BY <3>6, <3>7 DEF Rises
    <3>9. \A y \in ToSet(b), z \in ToSet(x) : at[y] <= at[z]
      <4> SUFFICES ASSUME NEW i \in DOMAIN f, NEW y \in ToSet(f[i]), NEW z \in ToSet(x) PROVE at[y] <= at[z]
        BY <3>5 DEF b, Holds
      <4>1. i \in DOMAIN s /\ m \in DOMAIN s /\ i < m /\ s[i] = f[i] /\ s[m] = x BY <3>6
      <4> QED BY <4>1, <3>7 DEF Rises
    <3>10. InOrder(at, b) BY <3>3, <3>8 DEF b
    <3>11. b \in Seq(T) /\ x \in Seq(T) BY <3>1, <3>4 DEF b, S
    <3>12. InOrder(at, b \o x) BY <3>8, <3>9, <3>10, <3>11, InOrderJoin
    <3> QED BY <3>4, <3>12, <2>3 DEF b
  <2> QED BY <2>4, <2>5
<1>2. \A s \in Seq(S) : Good(s)
  <2> SUFFICES ASSUME NEW s \in Seq(S) PROVE Good(s) OBVIOUS
  <2>1. Len(s) \in Nat OBVIOUS
  <2> QED BY <2>1, <1>1
<1> QED BY <1>0, <1>2

WhatsOfAll(g, A) == [i \in DOMAIN A |-> WhatsOf(g, A[i])]

LEMMA FlattenWhats ==
  ASSUME NEW g, NEW T, NEW A \in Seq(Seq(T))
  PROVE  WhatsOf(g, FlattenSeq(A)) = FlattenSeq(WhatsOfAll(g, A))
<1> DEFINE S == Seq(T)
           W == {What(g, n) : n \in T}
           Good(s) == WhatsOf(g, FlattenSeq(s)) = FlattenSeq(WhatsOfAll(g, s))
           Bad == {n \in Nat : \E s \in Seq(S) : Len(s) = n /\ ~ Good(s)}
<1>0. A \in Seq(S) /\ <<>> \in S OBVIOUS
<1>a. \A s \in S : WhatsOf(g, s) \in Seq(W)
  <2> SUFFICES ASSUME NEW s \in Seq(T) PROVE WhatsOf(g, s) \in Seq(W) OBVIOUS
  <2>1. \A i \in 1 .. Len(s) : What(g, s[i]) \in W OBVIOUS
  <2> HIDE DEF W
  <2> QED BY <2>1 DEF WhatsOf
<1> HIDE DEF S, W
<1>1. Bad = {}
  <2> SUFFICES ASSUME Bad # {} PROVE FALSE OBVIOUS
  <2>1. Bad \subseteq Nat OBVIOUS
  <2>2. PICK n \in Bad : \A k \in Bad : n <= k BY <2>1, Least
  <2>3. PICK s \in Seq(S) : Len(s) = n /\ ~ Good(s) OBVIOUS
  <2>4. CASE s = <<>>
    <3>1. FlattenSeq(<<>>) = <<>> BY FlattenIsFlat
    <3>2. WhatsOf(g, <<>>) = <<>> /\ WhatsOfAll(g, <<>>) = <<>> BY DEF WhatsOf, WhatsOfAll
    <3> QED BY <3>1, <3>2, <2>3, <2>4
  <2>5. CASE s # <<>>
    <3>1. PICK f \in Seq(S), x \in S : s = Append(f, x) BY <2>5, SequenceEmptyOrAppend
    <3>2. Len(f) \in Nat /\ ~ n <= Len(f) BY <3>1, <2>3
    <3>3. Good(f) BY <3>2, <2>2
    <3>4. FlattenSeq(f) \in S /\ FlattenSeq(s) = FlattenSeq(f) \o x BY <3>1, FlattenAppend DEF S
    <3> DEFINE b == FlattenSeq(f)
               h == WhatsOfAll(g, f)
               y == WhatsOf(g, x)
    <3>5. WhatsOf(g, b \o x) = WhatsOf(g, b) \o y
      <4> HIDE DEF b
      <4>1. b \in Seq(T) /\ x \in Seq(T) BY <3>1, <3>4 DEF b, S
      <4> QED BY <4>1, WhatsAre
    <3>6. Len(f) \in Nat /\ DOMAIN f = 1 .. Len(f) /\ \A i \in 1 .. Len(f) : f[i] \in S OBVIOUS
    <3>7. h \in Seq(Seq(W))
      <4> DEFINE U == Seq(W)
      <4> HIDE DEF U
      <4>1. \A i \in 1 .. Len(f) : WhatsOf(g, f[i]) \in U BY <3>6, <1>a DEF U
      <4>2. h = [i \in 1 .. Len(f) |-> WhatsOf(g, f[i])] BY <3>6 DEF WhatsOfAll
      <4> HIDE DEF h
      <4>3. h \in Seq(U) BY <3>6, <4>1, <4>2
      <4> QED BY <4>3 DEF U
    <3>8. y \in Seq(W) BY <1>a
    <3>9. WhatsOfAll(g, s) = Append(h, y) BY <3>1 DEF WhatsOfAll
    <3> HIDE DEF h, y, b, Bad
    <3>10. FlattenSeq(Append(h, y)) = FlattenSeq(h) \o y BY <3>7, <3>8, FlattenAppend
    <3> QED BY <3>3, <3>4, <3>5, <3>9, <3>10, <2>3 DEF b, h
  <2> QED BY <2>4, <2>5
<1>2. \A s \in Seq(S) : Good(s)
  <2> SUFFICES ASSUME NEW s \in Seq(S) PROVE Good(s) OBVIOUS
  <2>1. Len(s) \in Nat OBVIOUS
  <2> QED BY <2>1, <1>1
<1> QED BY <1>0, <1>2

-----------------------------------------------------------------------------
(* The number of a box: how many stand before it, itself counted. *)

Place(order, n) == Cardinality({order[j] : j \in 1 .. FirstIn(order, n)})

LEMMA FirstIs ==
  ASSUME NEW T, NEW order \in Seq(T), NEW n \in ToSet(order)
  PROVE  LET f == FirstIn(order, n)
         IN f \in 1 .. Len(order) /\ order[f] = n /\ \A j \in 1 .. f - 1 : order[j] # n
<1> DEFINE P == {i \in 1 .. Len(order) : order[i] = n}
<1>1. DOMAIN order = 1 .. Len(order) OBVIOUS
<1>2. P # {} BY <1>1 DEF ToSet
<1>3. P \subseteq Nat OBVIOUS
<1>4. PICK f \in P : \A i \in P : f <= i BY <1>2, <1>3, Least
<1>5. f \in 1 .. Len(order) /\ order[f] = n OBVIOUS
<1>6. \A j \in 1 .. f - 1 : order[j] # n
  <2> SUFFICES ASSUME NEW j \in 1 .. f - 1, order[j] = n PROVE FALSE OBVIOUS
  <2>1. j \in P /\ ~ f <= j BY <1>5
  <2> QED BY <2>1, <1>4
<1>7. \E i \in DOMAIN order : order[i] = n /\ \A j \in 1 .. i - 1 : order[j] # n BY <1>1, <1>5, <1>6
<1> QED BY <1>1, <1>7 DEF FirstIn

LEMMA PlaceRises ==
  ASSUME NEW T, IsFiniteSet(T), NEW order \in Seq(T), NEW x \in ToSet(order), NEW y \in ToSet(order),
         FirstIn(order, x) < FirstIn(order, y)
  PROVE  Place(order, x) \in Nat /\ Place(order, y) \in Nat /\ Place(order, x) < Place(order, y)
<1> DEFINE f == FirstIn(order, x)
           h == FirstIn(order, y)
           before(k) == {order[j] : j \in 1 .. k}
<1>1. /\ f \in 1 .. Len(order) /\ h \in 1 .. Len(order) /\ order[h] = y
      /\ \A j \in 1 .. h - 1 : order[j] # y
  BY FirstIs
<1>2. Len(order) \in Nat OBVIOUS
<1> HIDE DEF f, h
<1>3. before(f) \subseteq T /\ before(h) \subseteq T BY <1>1, <1>2
<1>4. IsFiniteSet(before(f)) /\ IsFiniteSet(before(h)) BY <1>3, FS_Subset
<1>5. before(f) \cup {y} \subseteq before(h) /\ y \notin before(f)
  <2>1. \A j \in 1 .. f : j \in 1 .. h - 1 /\ j \in 1 .. h BY <1>1 DEF f, h
  <2>2. h \in 1 .. h BY <1>1
  <2> QED BY <2>1, <2>2, <1>1
<1> DEFINE F == before(f)
           H == before(h)
<1>6. Place(order, x) = Cardinality(F) /\ Place(order, y) = Cardinality(H) BY DEF Place, f, h
<1> HIDE DEF F, H
<1>7. IsFiniteSet(F) /\ IsFiniteSet(H) /\ F \cup {y} \subseteq H /\ y \notin F BY <1>4, <1>5 DEF F, H
<1>8. Cardinality(F \cup {y}) = Cardinality(F) + 1 /\ Cardinality(F) \in Nat /\ Cardinality(H) \in Nat
  BY <1>7, FS_AddElement, FS_CardinalityType
<1>9. Cardinality(F \cup {y}) <= Cardinality(H) BY <1>7, FS_Subset
<1> QED BY <1>6, <1>8, <1>9

\* What is in the first part of a sequence comes before what is only in the rest.
LEMMA PartsRise ==
  ASSUME NEW T, IsFiniteSet(T), NEW a \in Seq(T), NEW b \in Seq(T),
         NEW x \in ToSet(a), NEW y \in ToSet(b), y \notin ToSet(a)
  PROVE  LET order == a \o b
         IN /\ x \in ToSet(order) /\ y \in ToSet(order)
            /\ Place(order, x) \in Nat /\ Place(order, y) \in Nat /\ Place(order, x) < Place(order, y)
<1> DEFINE order == a \o b
           m == Len(a)
<1>1. order \in Seq(T) /\ Len(order) = m + Len(b) /\ m \in Nat /\ Len(b) \in Nat
      /\ \A i \in 1 .. m + Len(b) : order[i] = IF i <= m THEN a[i] ELSE b[i - m]
  BY ConcatProperties
<1>2. ToSet(order) = ToSet(a) \cup ToSet(b) BY ConcatIs
<1> HIDE DEF order
<1>3. DOMAIN a = 1 .. m OBVIOUS
<1> HIDE DEF m
<1>4. x \in ToSet(order) /\ y \in ToSet(order) BY <1>2
<1> DEFINE f == FirstIn(order, x)
           h == FirstIn(order, y)
<1>5. /\ f \in 1 .. Len(order) /\ order[f] = x /\ \A j \in 1 .. f - 1 : order[j] # x
      /\ h \in 1 .. Len(order) /\ order[h] = y /\ \A j \in 1 .. h - 1 : order[j] # y
  BY <1>1, <1>4, FirstIs
<1> HIDE DEF f, h
<1>6. f <= m
  <2>1. PICK i \in 1 .. m : a[i] = x BY <1>3 DEF ToSet
  <2>2. i \in 1 .. m + Len(b) /\ order[i] = x BY <2>1, <1>1
  <2>3. ~ i \in 1 .. f - 1 BY <2>2, <1>5
  <2> QED BY <2>1, <2>3, <1>1, <1>5
<1>7. ~ h <= m
  <2> SUFFICES ASSUME h <= m PROVE FALSE OBVIOUS
  <2>1. h \in 1 .. m /\ order[h] = a[h] BY <1>1, <1>5
  <2> QED BY <2>1, <1>3, <1>5 DEF ToSet
<1>8. f < h BY <1>1, <1>5, <1>6, <1>7
<1>9. Place(order, x) \in Nat /\ Place(order, y) \in Nat /\ Place(order, x) < Place(order, y)
  BY <1>1, <1>4, <1>8, PlaceRises DEF f, h
<1> QED BY <1>4, <1>9 DEF order

-----------------------------------------------------------------------------
(* What the editor works out is what the compiler worked with. *)

LEMMA OneInSequence == \A x : SetToSeq({x}) = <<x>>
<1> SUFFICES ASSUME NEW x PROVE SetToSeq({x}) = <<x>> OBVIOUS
<1>1. Cardinality({x}) = 1 BY FS_Singleton
<1>2. \A f \in [1 .. 1 -> {x}] : f = <<x>>
  <2> SUFFICES ASSUME NEW f \in [1 .. 1 -> {x}] PROVE f = <<x>> OBVIOUS
  <2>1. f[1] = x /\ f \in Seq({x}) /\ Len(f) = 1 OBVIOUS
  <2> QED BY <2>1
<1>3. IsInjective(<<x>>) /\ <<x>> \in [1 .. 1 -> {x}] BY DEF IsInjective
<1>4. SetToSeq({x}) = CHOOSE f \in [1 .. 1 -> {x}] : IsInjective(f) BY <1>1 DEF SetToSeq
<1> QED BY <1>2, <1>3, <1>4

\* The first of the boxes of a walk, the shared ones after it.
HeadOf(chains, main) == <<chains[1][1]>> \o main

LEMMA HeadIs ==
  ASSUME NEW g, Drawn(g), NEW chains, NEW prefix, NEW steps, NEW tails,
         IsCompiled(g, chains, prefix, steps, tails)
  PROVE  LET main == MainPrefix(g, prefix)
             rules == OfKind(g, prefix, "validation")
             head == HeadOf(chains, main)
         IN /\ main \in Seq(DOMAIN g.nodes) /\ rules \in Seq(DOMAIN g.nodes)
            /\ main = Among(main, TransformBoxes(g)) \o rules
            /\ OfKind(g, main, "validation") = rules
            /\ ToSet(rules) \subseteq RuleBoxes(g)
            /\ Works(g, main)
            /\ chains[1][1] \in DOMAIN g.nodes /\ Kind(g, chains[1][1]) = "source"
            /\ head \in Seq(DOMAIN g.nodes) /\ Once(head)
<1> DEFINE D == DOMAIN g.nodes
           main == MainPrefix(g, prefix)
           rules == OfKind(g, prefix, "validation")
           head == HeadOf(chains, main)
           c == chains[1]
           mid == Middle(c)
           sinks == MainSinks(g)
           m == Len(main)
<1>1. /\ 1 \in DOMAIN sinks
      /\ IsChain(g, c, sinks[1]) /\ Begins(prefix, mid)
      /\ prefix \in Seq(D) /\ Wedged(g, prefix) = {}
  <2> HIDE DEF sinks
  <2>1. /\ sinks \in Seq(DOMAIN g.nodes) /\ DOMAIN sinks = 1 .. Len(sinks) /\ Len(sinks) >= 1
        /\ \A i \in DOMAIN sinks : IsChain(g, chains[i], sinks[i]) /\ Begins(prefix, Middle(chains[i]))
        /\ prefix \in Seq(DOMAIN g.nodes) /\ Wedged(g, prefix) = {}
    BY PartsAre DEF sinks
  <2>2. Len(sinks) \in Nat BY <2>1
  <2>3. 1 \in DOMAIN sinks BY <2>1, <2>2
  <2> QED BY <2>1, <2>3
<1> HIDE DEF sinks
<1>2. /\ c \in Seq(D) /\ Len(c) \in Nat /\ Len(c) >= 2 /\ Once(c) /\ Kind(g, c[1]) = "source"
      /\ DOMAIN c = 1 .. Len(c) /\ c[1] \in D
  BY <1>1 DEF IsChain
<1> HIDE DEF c, mid
<1>3. /\ mid \in Seq(D) /\ Works(g, mid) /\ Len(mid) = Len(c) - 2
      /\ \A i \in 1 .. Len(c) - 2 : mid[i] = c[i + 1]
  BY <1>1, MiddleIs DEF mid
<1>4. Len(prefix) \in Nat /\ Len(prefix) <= Len(c) - 2 /\ prefix = SubSeq(mid, 1, Len(prefix))
      /\ DOMAIN prefix = 1 .. Len(prefix) /\ DOMAIN mid = 1 .. Len(c) - 2
  BY <1>1, <1>2, <1>3 DEF Begins
<1>5. \A i \in 1 .. Len(prefix) : prefix[i] = mid[i] BY <1>2, <1>3, <1>4
<1>6. Works(g, prefix)
  <2>1. \A i \in 1 .. Len(prefix) : i \in 1 .. Len(c) - 2 BY <1>2, <1>4
  <2> QED BY <2>1, <1>3, <1>4, <1>5 DEF Works
<1>7. /\ m \in 0 .. Len(prefix) /\ main = SubSeq(prefix, 1, m)
      /\ main = Among(main, TransformBoxes(g)) \o Among(prefix, RuleBoxes(g))
  BY <1>1, <1>6, MainIs
<1> HIDE DEF main
<1>8. /\ main \in Seq(D) /\ DOMAIN main = 1 .. m /\ m \in Nat /\ m <= Len(c) - 2
      /\ \A i \in 1 .. m : main[i] = c[i + 1] /\ Kind(g, main[i]) \in {"transform", "validation"}
  <2> DEFINE k == m
  <2>0. k \in 0 .. Len(prefix) /\ k \in Nat /\ k <= Len(c) - 2 BY <1>2, <1>4, <1>7
  <2> HIDE DEF k, D
  <2>1. CutInTwo(D, prefix, k, SubSeq(prefix, 1, k), SubSeq(prefix, k + 1, Len(prefix)))
    BY <2>0, <1>1, CutIs
  <2>2. SubSeq(prefix, 1, k) = main /\ k = m BY <1>7 DEF k
  <2>3. main \in Seq(D) /\ \A i \in 1 .. k : main[i] = prefix[i] BY <2>1, <2>2 DEF CutInTwo
  <2>4. \A i \in 1 .. k : i \in 1 .. Len(prefix) /\ i \in 1 .. Len(c) - 2 BY <2>0, <1>4
  <2>5. \A i \in 1 .. k : main[i] = c[i + 1] /\ Kind(g, main[i]) \in {"transform", "validation"}
    BY <2>3, <2>4, <1>3, <1>4, <1>5 DEF Works
  <2>6. DOMAIN main = 1 .. m BY <2>3
  <2> QED BY <2>0, <2>2, <2>3, <2>5, <2>6
<1> HIDE DEF m
<1>9. rules = Among(prefix, RuleBoxes(g)) BY DEF OfKind, RuleBoxes, rules
<1>10. rules \in Seq(D \cap RuleBoxes(g)) /\ ToSet(rules) \subseteq RuleBoxes(g) BY <1>1, <1>9, AmongIs
<1> HIDE DEF rules
<1>11. rules \in Seq(D) BY <1>10
<1>12. Among(main, RuleBoxes(g)) = rules
  <2> DEFINE a == Among(main, TransformBoxes(g))
  <2>1. a \in Seq(D \cap TransformBoxes(g)) /\ ToSet(a) \subseteq TransformBoxes(g) BY <1>8, AmongIs
  <2> HIDE DEF a
  <2>2. a \in Seq(D) BY <2>1
  <2>3. TransformBoxes(g) \cap RuleBoxes(g) = {} BY DEF TransformBoxes, RuleBoxes
  <2>4. Among(a, RuleBoxes(g)) = <<>>
    <3>1. ToSet(a) \cap RuleBoxes(g) = {} BY <2>1, <2>3
    <3> QED BY <2>2, <3>1, AmongNone
  <2>5. Among(rules, RuleBoxes(g)) = rules BY <1>10, <1>11, AmongAll
  <2>6. Among(a \o rules, RuleBoxes(g)) = Among(a, RuleBoxes(g)) \o Among(rules, RuleBoxes(g))
    BY <2>2, <1>11, AmongConcat
  <2>7. <<>> \o rules = rules BY <1>11
  <2>8. main = a \o rules BY <1>7, <1>9 DEF a
  <2> QED BY <2>4, <2>5, <2>6, <2>7, <2>8
<1>13. OfKind(g, main, "validation") = rules BY <1>12 DEF OfKind, RuleBoxes
<1>14. Works(g, main) BY <1>8 DEF Works
<1>15. head \in Seq(D) /\ Once(head)
  <2> DEFINE one == c[1]
  <2>1. /\ <<one>> \o main \in Seq(D) /\ Len(<<one>> \o main) = Len(main) + 1
        /\ (<<one>> \o main)[1] = one /\ \A i \in 1 .. Len(main) : (<<one>> \o main)[i + 1] = main[i]
    <3>1. one \in D /\ main \in Seq(D) BY <1>2, <1>8
    <3> HIDE DEF one, D
    <3> QED BY <3>1, PrependIs
  <2>2. head = <<one>> \o main BY DEF HeadOf, c
  <2> HIDE DEF head
  <2>3. head \in Seq(D) /\ DOMAIN head = 1 .. m + 1 /\ head[1] = c[1] /\ \A i \in 1 .. m : head[i + 1] = main[i]
    BY <2>1, <2>2, <1>8 DEF m
  <2>4. \A i \in 1 .. m + 1 : head[i] = c[i] /\ i \in DOMAIN c
    <3> SUFFICES ASSUME NEW i \in 1 .. m + 1 PROVE head[i] = c[i] /\ i \in DOMAIN c OBVIOUS
    <3>1. CASE i = 1 BY <3>1, <2>3, <1>2
    <3>2. CASE i # 1
      <4>1. i - 1 \in 1 .. m /\ (i - 1) + 1 = i BY <3>2, <1>8
      <4>2. head[i] = main[i - 1] /\ main[i - 1] = c[i] BY <4>1, <2>3, <1>8
      <4> QED BY <4>1, <4>2, <1>2, <1>8
    <3> QED BY <3>1, <3>2
  <2>5. Once(head) BY <2>3, <2>4, <1>2 DEF Once
  <2> QED BY <2>3, <2>5
<1>16. main = Among(main, TransformBoxes(g)) \o rules BY <1>7, <1>9
<1> QED BY <1>2, <1>8, <1>10, <1>11, <1>13, <1>14, <1>15, <1>16 DEF main, rules, head, c

LEMMA LanesAre ==
  ASSUME NEW g, Drawn(g), NEW chains, NEW prefix, NEW steps, NEW tails,
         IsCompiled(g, chains, prefix, steps, tails)
  PROVE  LET sinks == MainSinks(g)
             main == MainPrefix(g, prefix)
             rules == OfKind(g, prefix, "validation")
         IN /\ Destinations(g) = sinks
            /\ SharedChain(g) = main
            /\ SetToSeq(SourceId(g)) = <<chains[1][1]>>
            /\ ValidationNodeIdsInOrder(g) = EachTarget(g, rules)
            /\ Ordered(g) = OrderOf(g, main, sinks)
<1> DEFINE D == DOMAIN g.nodes
           sinks == MainSinks(g)
           main == MainPrefix(g, prefix)
           rules == OfKind(g, prefix, "validation")
<1>1. /\ sinks \in Seq(D) /\ DOMAIN sinks = 1 .. Len(sinks) /\ Len(sinks) >= 1
      /\ DOMAIN chains = DOMAIN sinks
      /\ \A i \in DOMAIN sinks : chains[i] = ChainTo(g, sinks[i])
      /\ prefix \in Seq(D)
  BY PartsAre
<1>2. \A n \in ToSet(sinks) : ChainFault(g, n) = "none" BY DEF IsCompiled
<1>3. prefix = SharedPrefix(Middles(chains)) BY DEF IsCompiled
<1>4. Destinations(g) = sinks
  <2>1. Destinations(g) = Among(sinks, {s \in ToSet(sinks) : ChainFault(g, s) = "none"}) BY DEF Destinations
  <2> HIDE DEF sinks, D
  <2>2. ToSet(sinks) \subseteq {s \in ToSet(sinks) : ChainFault(g, s) = "none"} BY <1>2
  <2> QED BY <2>1, <2>2, <1>1, AmongAll
<1> HIDE DEF sinks
<1>5. MiddlesOf(g) = Middles(chains)
  <2>1. MiddlesOf(g) = {Middle(ChainTo(g, s)) : s \in ToSet(sinks)} BY <1>4 DEF MiddlesOf
  <2>2. ToSet(sinks) = {sinks[i] : i \in DOMAIN sinks} BY DEF ToSet
  <2>3. {Middle(ChainTo(g, s)) : s \in ToSet(sinks)} = {Middle(ChainTo(g, sinks[i])) : i \in DOMAIN sinks}
    BY <2>2
  <2>4. Middles(chains) = {Middle(ChainTo(g, sinks[i])) : i \in DOMAIN sinks} BY <1>1 DEF Middles
  <2> QED BY <2>1, <2>3, <2>4
<1>6. SharedChain(g) = SharedChainOf(g, prefix)
  <2>1. SharedChain(g) = Given(SharedPrefix(MiddlesOf(g)), LAMBDA p : SharedChainOf(g, p)) BY DEF SharedChain
  <2> QED BY <2>1, <1>3, <1>5 DEF Given
<1>7. SharedChainOf(g, prefix) = main
  <2> DEFINE R == {i \in DOMAIN prefix : Kind(g, prefix[i]) = "validation"}
             n == Len(prefix)
  <2>1. n \in Nat /\ DOMAIN prefix = 1 .. n /\ R \subseteq 1 .. n BY <1>1
  <2>2. SharedChainOf(g, prefix) = SubSeq(prefix, 1, IF R = {} THEN n ELSE Max(R)) BY DEF SharedChainOf
  <2>3. LastRule(g, prefix) = Max({0} \cup R) BY DEF LastRule
  <2>4. Max({0} \cup R) \in {0} \cup R /\ \A x \in {0} \cup R : Max({0} \cup R) >= x
    <3>1. {0} \cup R \in SUBSET (0 .. n) /\ {0} \cup R # {} BY <2>1
    <3> QED BY <3>1, <2>1, MaxIs
  <2> HIDE DEF R, n
  <2>5. CASE R = {}
    <3>1. LastRule(g, prefix) = 0 BY <2>3, <2>4, <2>5
    <3>2. main = prefix BY <3>1 DEF MainPrefix
    <3>3. SubSeq(prefix, 1, n) = prefix BY <1>1, SubSeqFull DEF n
    <3> QED BY <2>2, <2>5, <3>2, <3>3
  <2>6. CASE R # {}
    <3>1. R \in SUBSET (0 .. n) BY <2>1
    <3>2. Max(R) \in R /\ \A x \in R : Max(R) >= x BY <3>1, <2>1, <2>6, MaxIs
    <3> DEFINE a == Max(R)
               b == Max({0} \cup R)
    <3> HIDE DEF a, b
    <3>3. a \in R /\ (\A x \in R : a >= x) /\ b \in {0} \cup R /\ \A x \in {0} \cup R : b >= x
      BY <3>2, <2>4 DEF a, b
    <3>4. a \in 1 .. n /\ b >= a /\ (b # 0 => a >= b /\ b \in 1 .. n) BY <3>3, <2>1
    <3>5. a = b /\ b > 0
      <4>1. b # 0 BY <3>4, <2>1
      <4> QED BY <4>1, <3>4, <2>1
    <3>6. main = SubSeq(prefix, 1, b) BY <3>5, <2>3 DEF MainPrefix, b
    <3> QED BY <3>5, <3>6, <2>2, <2>6 DEF a
  <2> QED BY <2>5, <2>6
<1>8. SharedChain(g) = main BY <1>6, <1>7
<1>9. SetToSeq(SourceId(g)) = <<chains[1][1]>>
  <2>1. Len(sinks) \in Nat BY <1>1
  <2>2. sinks # <<>> /\ 1 \in DOMAIN sinks BY <1>1, <2>1
  <2>3. SourceId(g) = {ChainTo(g, sinks[1])[1]} BY <1>4, <2>2 DEF SourceId
  <2>4. SourceId(g) = {chains[1][1]} BY <2>2, <2>3, <1>1
  <2> QED BY <2>4, OneInSequence
<1>10. OfKind(g, main, "validation") = rules BY HeadIs
<1> HIDE DEF main, rules
<1>11. ValidationNodeIdsInOrder(g) = EachTarget(g, rules)
  <2>1. ValidationNodeIdsInOrder(g) = Given(rules, LAMBDA r : EachTarget(g, r))
    BY <1>8, <1>10 DEF ValidationNodeIdsInOrder
  <2> QED BY <2>1 DEF Given
<1>12. Ordered(g) = OrderOf(g, main, sinks)
  <2>1. Ordered(g) = Given(main, LAMBDA shared : Given(sinks, LAMBDA s : OrderOf(g, shared, s)))
    BY <1>4, <1>8 DEF Ordered
  <2> QED BY <2>1 DEF Given
<1> QED BY <1>4, <1>8, <1>9, <1>11, <1>12 DEF sinks, main, rules

\* A rule stands once for each of its targets, and it has one at least.
LEMMA TargetsAre ==
  ASSUME NEW g, Drawn(g), NEW n \in DOMAIN g.nodes
  PROVE  /\ Targets(g, n) \in Seq(DOMAIN g.nodes) /\ Targets(g, n) # <<>>
         /\ \A t \in DOMAIN Targets(g, n) : Targets(g, n)[t] = n
         /\ ToSet(Targets(g, n)) = {n}
         /\ WhatsOf(g, Targets(g, n)) = [t \in DOMAIN RuleCodes[What(g, n)] |-> What(g, n)]
<1> DEFINE codes == RuleCodes[What(g, n)]
           D == DOMAIN g.nodes
           s == Targets(g, n)
<1>1. What(g, n) \in Whats
  <2>1. g.nodes[n] \in NodeData BY BoxTypes DEF Drawn
  <2> QED BY <2>1 DEF NodeData, What
<1>2. codes \in Seq(Codes) /\ codes # <<>> BY <1>1, RuleCodesAssumption
<1> HIDE DEF codes
<1>3. Len(codes) \in Nat /\ DOMAIN codes = 1 .. Len(codes) /\ Len(codes) >= 1 BY <1>2
<1>4. s = [t \in 1 .. Len(codes) |-> n] BY <1>3 DEF Targets, codes
<1> HIDE DEF s
<1>5. s \in Seq(D) /\ Len(s) = Len(codes) /\ DOMAIN s = 1 .. Len(codes) /\ \A t \in 1 .. Len(codes) : s[t] = n
  BY <1>3, <1>4
<1>6. s # <<>> BY <1>3, <1>5
<1>7. ToSet(s) = {n}
  <2>1. 1 \in 1 .. Len(codes) BY <1>3
  <2> QED BY <2>1, <1>5 DEF ToSet
<1>8. WhatsOf(g, s) = [t \in 1 .. Len(codes) |-> What(g, n)] BY <1>5 DEF WhatsOf
<1> QED BY <1>3, <1>5, <1>6, <1>7, <1>8 DEF s, codes

TargetLists(g, rules) == [i \in DOMAIN rules |-> Targets(g, rules[i])]

LEMMA EachIs ==
  ASSUME NEW g, Drawn(g), NEW rules \in Seq(DOMAIN g.nodes)
  PROVE  LET A == TargetLists(g, rules)
         IN /\ A \in Seq(Seq(DOMAIN g.nodes)) /\ DOMAIN A = DOMAIN rules
            /\ EachTarget(g, rules) = FlattenSeq(A)
            /\ EachTarget(g, rules) \in Seq(DOMAIN g.nodes)
            /\ ToSet(EachTarget(g, rules)) = ToSet(rules)
            /\ EachTarget(g, rules) = <<>> <=> rules = <<>>
            /\ WhatsOf(g, EachTarget(g, rules)) = RunRules(WhatsOf(g, rules))
<1> DEFINE D == DOMAIN g.nodes
           S == Seq(D)
           A == TargetLists(g, rules)
           n == Len(rules)
           each == EachTarget(g, rules)
<1>1. n \in Nat /\ DOMAIN rules = 1 .. n /\ \A i \in 1 .. n : rules[i] \in D OBVIOUS
<1>2. \A i \in 1 .. n : Targets(g, rules[i]) \in S /\ ToSet(Targets(g, rules[i])) = {rules[i]}
  BY <1>1, TargetsAre
<1>3. A = [i \in 1 .. n |-> Targets(g, rules[i])] BY <1>1 DEF TargetLists
<1> HIDE DEF S, n, A
<1>4. A \in Seq(S) /\ Len(A) = n /\ DOMAIN A = 1 .. n BY <1>1, <1>2, <1>3
<1>5. each = FlattenSeq(A)
  <2>1. each = FlattenSeq(<<>> \o A) BY DEF EachTarget, A, TargetLists
  <2>2. <<>> \o A = A BY <1>4
  <2> QED BY <2>1, <2>2
<1>6. \A s \in S : FlattenSeq(Append(A, s)) = FlattenSeq(A) \o s /\ FlattenSeq(A) \in S
  BY <1>4, FlattenAppend DEF S
<1>7. FlattenSeq(A) \in S
  <2>1. <<>> \in S BY DEF S
  <2> QED BY <2>1, <1>6
<1>8. ToSet(each) = ToSet(rules)
  <2>1. ToSet(FlattenSeq(A)) = Holds(A) BY <1>4, FlatHolds DEF S
  <2>2. Holds(A) = UNION {{rules[i]} : i \in 1 .. n} BY <1>2, <1>3, <1>4 DEF Holds
  <2>3. ToSet(rules) = {rules[i] : i \in 1 .. n} BY <1>1 DEF ToSet
  <2> QED BY <2>1, <2>2, <2>3, <1>5
<1>9. each = <<>> <=> rules = <<>>
  <2>1. \A s \in S : s = <<>> <=> ToSet(s) = {}
    <3> SUFFICES ASSUME NEW s \in Seq(D) PROVE s = <<>> <=> ToSet(s) = {} BY DEF S
    <3>1. s # <<>> => 1 \in DOMAIN s OBVIOUS
    <3>2. ToSet(<<>>) = {} BY DEF ToSet
    <3> QED BY <3>1, <3>2 DEF ToSet
  <2>2. rules \in S BY DEF S
  <2> QED BY <2>1, <2>2, <1>5, <1>7, <1>8
<1>10. WhatsOf(g, each) = RunRules(WhatsOf(g, rules))
  <2> DEFINE w == WhatsOf(g, rules)
             B == [i \in 1 .. n |-> [t \in DOMAIN RuleCodes[w[i]] |-> w[i]]]
  <2>1. DOMAIN w = 1 .. n /\ \A i \in 1 .. n : w[i] = What(g, rules[i]) BY <1>1 DEF WhatsOf
  <2> HIDE DEF w
  <2>2. WhatsOfAll(g, A) = [i \in 1 .. n |-> WhatsOf(g, Targets(g, rules[i]))] BY <1>3, <1>4 DEF WhatsOfAll
  <2>3. \A i \in 1 .. n : WhatsOf(g, Targets(g, rules[i]))
                            = [t \in DOMAIN RuleCodes[What(g, rules[i])] |-> What(g, rules[i])]
    BY <1>1, TargetsAre
  <2>a. \A i \in 1 .. n : WhatsOf(g, Targets(g, rules[i])) = [t \in DOMAIN RuleCodes[w[i]] |-> w[i]]
    BY <2>1, <2>3
  <2>4. WhatsOfAll(g, A) = B BY <2>2, <2>a
  <2>5. RunRules(w) = FlattenSeq(<<>> \o B) BY <2>1 DEF RunRules
  <2>6. <<>> \o B = B
    <3>1. B = [i \in 1 .. n |-> B[i]] OBVIOUS
    <3> HIDE DEF B
    <3> QED BY <3>1, <1>1, Forced
  <2>7. WhatsOf(g, FlattenSeq(A)) = FlattenSeq(WhatsOfAll(g, A)) BY <1>4, FlattenWhats DEF S
  <2> HIDE DEF B
  <2> QED BY <2>4, <2>5, <2>6, <2>7, <1>5 DEF w
<1> QED BY <1>1, <1>4, <1>5, <1>7, <1>8, <1>9, <1>10 DEF A, S

LEMMA WrittenIs ==
  ASSUME NEW g, NEW rules
  PROVE  LET built == BuildValidations(g, rules)
         IN /\ built.rules = WhatsOf(g, rules)
            /\ rules = <<>> => built.written = <<>>
            /\ rules # <<>> => /\ DOMAIN built.written = DOMAIN SideSinks(g)
                               /\ \A r \in DOMAIN SideSinks(g) : built.written[r].what = What(g, SideSinks(g)[r])
<1> DEFINE written == [role \in DOMAIN SideSinks(g) |->
                         [what |-> What(g, SideSinks(g)[role]),
                          scope |-> IF role = "invalid" THEN ScopeOf(g, SideSinks(g)[role], rules)
                                    ELSE {}]]
<1>1. CASE rules = <<>>
  <2>1. WhatsOf(g, <<>>) = <<>> BY DEF WhatsOf
  <2> QED BY <2>1, <1>1 DEF BuildValidations
<1>2. CASE rules # <<>>
  <2>1. BuildValidations(g, rules) = [rules |-> WhatsOf(g, rules), written |-> written]
    BY <1>2 DEF BuildValidations
  <2>2. DOMAIN written = DOMAIN SideSinks(g)
        /\ \A r \in DOMAIN SideSinks(g) : written[r].what = What(g, SideSinks(g)[r])
    OBVIOUS
  <2> HIDE DEF written
  <2> QED BY <2>1, <2>2, <1>2
<1> QED BY <1>1, <1>2

\* The lanes paint what was compiled.
LEMMA LanesPaint ==
  ASSUME NEW g, Drawn(g), NEW chains, NEW prefix, NEW steps, NEW tails,
         IsCompiled(g, chains, prefix, steps, tails)
  PROVE  Paints(g, Compile(g).pipeline, StepNodeLanes(g))
<1> DEFINE D == DOMAIN g.nodes
           sinks == MainSinks(g)
           main == MainPrefix(g, prefix)
           rules == OfKind(g, prefix, "validation")
           src == chains[1][1]
           each == EachTarget(g, rules)
           lanes == StepNodeLanes(g)
           out == [i \in DOMAIN chains |-> [what |-> What(g, sinks[i]), steps |-> StepsOf(tails[i])]]
           p == PipelineOf(g, sinks, chains, rules, steps, tails)
<1>1. Compile(g).pipeline = p /\ steps = Transforms(g, main) BY DEF IsCompiled
<1>2. sinks \in Seq(D) /\ DOMAIN sinks = 1 .. Len(sinks) /\ DOMAIN chains = DOMAIN sinks BY PartsAre
<1>3. main \in Seq(D) /\ rules \in Seq(D) BY HeadIs
<1>4. /\ Destinations(g) = sinks /\ SharedChain(g) = main /\ SetToSeq(SourceId(g)) = <<src>>
      /\ ValidationNodeIdsInOrder(g) = each
  BY LanesAre
<1>5. /\ p.input = What(g, src) /\ p.steps = StepsOf(steps) /\ p.outputs = out
      /\ p.rules = BuildValidations(g, rules).rules /\ p.written = BuildValidations(g, rules).written
  BY DEF PipelineOf
<1> HIDE DEF p, sinks, main, rules, src, each
<1>6. lanes = [input |-> <<src>>, transformation |-> Among(main, TransformBoxes(g)), validation |-> each,
               output |-> sinks, written |-> IF each = <<>> THEN <<>> ELSE SideSinks(g)]
  BY <1>4 DEF StepNodeLanes, MainChainTransformNodeIds, OfKind, TransformBoxes
<1> HIDE DEF lanes
<1>7. WhatsOf(g, lanes.input) = <<p.input>>
  <2>1. lanes.input = <<src>> BY <1>6
  <2>2. WhatsOf(g, <<src>>) = <<What(g, src)>> BY DEF WhatsOf
  <2> QED BY <2>1, <2>2, <1>5
<1>8. WhatsOf(g, lanes.transformation) = StepWhats(p.steps)
  <2>1. StepWhats(StepsOf(Transforms(g, main))) = WhatsOf(g, Among(main, TransformBoxes(g)))
    BY <1>3, TransformsAre
  <2> QED BY <2>1, <1>1, <1>5, <1>6
<1>9. /\ WhatsOf(g, each) = RunRules(WhatsOf(g, rules)) /\ (each = <<>> <=> rules = <<>>)
  BY <1>3, EachIs DEF each
<1>10. /\ p.rules = WhatsOf(g, rules)
       /\ rules = <<>> => p.written = <<>>
       /\ rules # <<>> => /\ DOMAIN p.written = DOMAIN SideSinks(g)
                          /\ \A r \in DOMAIN SideSinks(g) : p.written[r].what = What(g, SideSinks(g)[r])
  BY <1>5, WrittenIs
<1>11. WhatsOf(g, lanes.validation) = RunRules(p.rules) BY <1>6, <1>9, <1>10
<1>12. WhatsOf(g, lanes.output) = [i \in DOMAIN p.outputs |-> p.outputs[i].what]
  <2>1. DOMAIN out = DOMAIN sinks /\ \A i \in DOMAIN sinks : out[i].what = What(g, sinks[i]) BY <1>2
  <2>2. WhatsOf(g, sinks) = [i \in DOMAIN sinks |-> What(g, sinks[i])] BY DEF WhatsOf
  <2> HIDE DEF out
  <2>3. [i \in DOMAIN out |-> out[i].what] = [i \in DOMAIN sinks |-> What(g, sinks[i])] BY <2>1
  <2> QED BY <2>2, <2>3, <1>5, <1>6
<1>13. /\ DOMAIN lanes.written = DOMAIN p.written
       /\ \A r \in DOMAIN p.written : What(g, lanes.written[r]) = p.written[r].what
  <2>1. CASE rules = <<>>
    <3>1. lanes.written = <<>> /\ p.written = <<>> BY <2>1, <1>6, <1>9, <1>10
    <3> QED BY <3>1
  <2>2. CASE rules # <<>>
    <3>1. lanes.written = SideSinks(g) BY <2>2, <1>6, <1>9
    <3> QED BY <3>1, <2>2, <1>10
  <2> QED BY <2>1, <2>2
<1> QED BY <1>1, <1>7, <1>8, <1>11, <1>12, <1>13 DEF Paints, lanes

-----------------------------------------------------------------------------
(* The numbers of the boxes. *)

LEMMA QualityIs ==
  ASSUME NEW g, Drawn(g)
  PROVE  /\ Quality(g) \in Seq(DOMAIN g.nodes) /\ ToSet(Quality(g)) \subseteq QualitySinks(g)
         /\ \A r \in DOMAIN SideSinks(g) : SideSinks(g)[r] \in ToSet(Quality(g))
<1> DEFINE D == DOMAIN g.nodes
           S == Seq(D)
           roles == RolesInOrder(g)
           n == Len(roles)
           A == [i \in 1 .. n |-> Numbered(HoldersOf(g, roles[i]))]
           all == <<"report", "valid", "invalid">>
           names == {"report", "valid", "invalid"}
<1>1. roles \in Seq(names \cap DOMAIN SideSinks(g)) /\ ToSet(roles) = names \cap DOMAIN SideSinks(g)
  <2>1. all \in Seq(names) OBVIOUS
  <2>2. ToSet(all) = names
    <3>1. DOMAIN all = 1 .. 3 OBVIOUS
    <3>2. ToSet(all) = {all[i] : i \in 1 .. 3} BY <3>1 DEF ToSet
    <3>3. 1 .. 3 = {1, 2, 3} OBVIOUS
    <3> QED BY <3>2, <3>3
  <2>3. roles = Among(all, DOMAIN SideSinks(g)) BY DEF RolesInOrder
  <2> HIDE DEF all, names
  <2> QED BY <2>1, <2>2, <2>3, AmongIs
<1> HIDE DEF roles
<1>2. n \in Nat /\ DOMAIN roles = 1 .. n BY <1>1
<1> HIDE DEF n
<1>3. \A r : /\ HoldersOf(g, r) \in SUBSET (1 .. MaxIds) /\ HoldersOf(g, r) \in SUBSET D
             /\ HoldersOf(g, r) \subseteq QualitySinks(g)
  BY BoxesAre DEF HoldersOf, QualitySinks
<1>4. \A r : Numbered(HoldersOf(g, r)) \in S /\ ToSet(Numbered(HoldersOf(g, r))) = HoldersOf(g, r)
  <2> SUFFICES ASSUME NEW r
               PROVE  Numbered(HoldersOf(g, r)) \in S /\ ToSet(Numbered(HoldersOf(g, r))) = HoldersOf(g, r)
    OBVIOUS
  <2> DEFINE H == HoldersOf(g, r)
  <2>1. H \in SUBSET (1 .. MaxIds) /\ MaxIds \in Nat /\ H \subseteq D BY <1>3, BoxesAre
  <2> HIDE DEF H, D
  <2>2. Numbered(H) \in Seq(H) /\ ToSet(Numbered(H)) = H BY <2>1, NumberedIs
  <2>3. H \subseteq D BY <2>1
  <2>4. Numbered(H) \in Seq(H) BY <2>2
  <2>5. Numbered(H) \in Seq(D) BY <2>3, <2>4
  <2> QED BY <2>2, <2>5 DEF H
<1> HIDE DEF S
<1>5. A \in Seq(S) /\ <<>> \o A = A /\ DOMAIN A = 1 .. n
  <2>1. A = [i \in 1 .. n |-> A[i]] OBVIOUS
  <2>2. \A i \in 1 .. n : A[i] \in S BY <1>4
  <2> HIDE DEF A
  <2> QED BY <2>1, <2>2, <1>2, Forced
<1>6. Quality(g) = FlattenSeq(A)
  <2>1. Quality(g) = FlattenSeq(<<>> \o A) BY <1>2 DEF Quality, Given, A, roles
  <2> QED BY <2>1, <1>5
<1>7. \A i \in 1 .. n : A[i] = Numbered(HoldersOf(g, roles[i])) OBVIOUS
<1> HIDE DEF A
<1>8. Quality(g) \in Seq(D)
  <2>1. <<>> \in Seq(D) OBVIOUS
  <2>2. A \in Seq(Seq(D)) BY <1>5 DEF S
  <2> HIDE DEF D
  <2> QED BY <2>1, <2>2, <1>6, FlattenAppend
<1>9. ToSet(Quality(g)) = Holds(A) BY <1>5, <1>6, FlatHolds DEF S
<1>10. \A i \in 1 .. n : ToSet(A[i]) = HoldersOf(g, roles[i]) BY <1>4, <1>7
<1>11. ToSet(Quality(g)) \subseteq QualitySinks(g) BY <1>3, <1>5, <1>9, <1>10 DEF Holds
<1>12. ASSUME NEW r \in DOMAIN SideSinks(g) PROVE SideSinks(g)[r] \in ToSet(Quality(g))
  <2>1. PICK h \in QualitySinks(g) : r = g.nodes[h].role BY DEF SideSinks
  <2>2. h \in D /\ g.nodes[h] \in NodeData /\ IsValidationSink(g.nodes[h]) BY <2>1, BoxTypes DEF QualitySinks, Drawn
  <2>3. r \in names BY <2>1, <2>2 DEF NodeData, SinkRoles, IsValidationSink
  <2>4. h \in HoldersOf(g, r) BY <2>1 DEF HoldersOf
  <2>5. HoldersOf(g, r) \in SUBSET Nat BY <1>3, BoxesAre
  <2>6. SideSinks(g)[r] = Min(HoldersOf(g, r)) BY DEF SideSinks
  <2>7. SideSinks(g)[r] \in HoldersOf(g, r) BY <2>4, <2>5, <2>6, MinIs
  <2>8. r \in ToSet(roles) BY <2>3, <1>1
  <2>9. PICK i \in 1 .. n : roles[i] = r BY <2>8, <1>2 DEF ToSet
  <2>10. SideSinks(g)[r] \in ToSet(A[i]) BY <2>7, <2>9, <1>10
  <2> QED BY <2>10, <1>5, <1>9 DEF Holds
<1> QED BY <1>8, <1>11, <1>12

LEMMA BranchIs ==
  ASSUME NEW g, NEW end, NEW main \in Seq(DOMAIN g.nodes), IsChain(g, ChainTo(g, end), end),
         Len(main) <= Len(ChainTo(g, end)) - 2
  PROVE  /\ Branch(g, main, end) \in Seq(DOMAIN g.nodes) /\ end \in ToSet(Branch(g, main, end))
         /\ \A x \in ToSet(Branch(g, main, end)) : x = end \/ Kind(g, x) \in {"transform", "validation"}
<1> DEFINE D == DOMAIN g.nodes
           c == ChainTo(g, end)
           b == Branch(g, main, end)
           m == Len(main) + 1
<1>1. /\ c \in Seq(D) /\ Len(c) \in Nat /\ Len(c) >= 2 /\ c[Len(c)] = end
      /\ \A i \in 2 .. Len(c) - 1 : Kind(g, c[i]) \in {"transform", "validation"}
  BY DEF IsChain
<1>a. b = SubSeq(c, Len(main) + 2, Len(c))
  <2>1. b = Given(c, LAMBDA v : SubSeq(v, Len(main) + 2, Len(v))) BY DEF Branch
  <2> HIDE DEF b, c
  <2> QED BY <2>1 DEF Given
<1> HIDE DEF b, c
<1>2. b = SubSeq(c, m + 1, Len(c))
  <2>1. Len(main) + 2 = m + 1 OBVIOUS
  <2> QED BY <2>1, <1>a
<1>3. m \in Nat /\ m \in 0 .. Len(c) /\ m >= 1 /\ m <= Len(c) - 1 BY <1>1 DEF c
<1>4. CutInTwo(D, c, m, SubSeq(c, 1, m), SubSeq(c, m + 1, Len(c)))
  <2> HIDE DEF D, m
  <2> QED BY <1>1, <1>3, CutIs
<1> HIDE DEF m
<1>5. b \in Seq(D) /\ Len(b) = Len(c) - m /\ \A i \in 1 .. Len(c) - m : b[i] = c[m + i]
  BY <1>2, <1>4 DEF CutInTwo
<1>6. DOMAIN b = 1 .. Len(c) - m BY <1>5
<1>7. end \in ToSet(b)
  <2> DEFINE last == Len(c) - m
  <2>1. last \in 1 .. Len(c) - m /\ m + last = Len(c) BY <1>1, <1>3
  <2>2. b[last] = end BY <2>1, <1>1, <1>5
  <2> QED BY <2>1, <2>2, <1>6 DEF ToSet
<1>8. \A x \in ToSet(b) : x = end \/ Kind(g, x) \in {"transform", "validation"}
  <2> SUFFICES ASSUME NEW i \in 1 .. Len(c) - m PROVE b[i] = end \/ Kind(g, b[i]) \in {"transform", "validation"}
    BY <1>6 DEF ToSet
  <2>1. b[i] = c[m + i] BY <1>5
  <2>2. i \in Nat /\ i >= 1 /\ m + i <= Len(c) /\ m + i >= 2 BY <1>1, <1>3
  <2>3. m + i = Len(c) \/ m + i \in 2 .. Len(c) - 1 BY <2>2, <1>1, <1>3
  <2> QED BY <2>1, <2>3, <1>1
<1> QED BY <1>5, <1>7, <1>8 DEF b

\* The branches, one for each destination.
BranchLists(g, main, sinks) == [i \in DOMAIN sinks |-> Branch(g, main, sinks[i])]

LEMMA BranchesAre ==
  ASSUME NEW g, Drawn(g), NEW chains, NEW prefix, NEW steps, NEW tails,
         IsCompiled(g, chains, prefix, steps, tails)
  PROVE  LET sinks == MainSinks(g)
             main == MainPrefix(g, prefix)
             B == BranchLists(g, main, sinks)
         IN /\ B \in Seq(Seq(DOMAIN g.nodes)) /\ DOMAIN B = DOMAIN sinks /\ Len(B) = Len(sinks)
            /\ \A i \in DOMAIN sinks :
                 /\ sinks[i] \in ToSet(B[i])
                 /\ \A x \in ToSet(B[i]) : x = sinks[i] \/ Kind(g, x) \in {"transform", "validation"}
<1> DEFINE D == DOMAIN g.nodes
           S == Seq(D)
           sinks == MainSinks(g)
           main == MainPrefix(g, prefix)
           B == BranchLists(g, main, sinks)
<1>1. /\ sinks \in Seq(D) /\ DOMAIN sinks = 1 .. Len(sinks) /\ prefix \in Seq(D) /\ Wedged(g, prefix) = {}
      /\ \A i \in DOMAIN sinks : /\ chains[i] = ChainTo(g, sinks[i]) /\ IsChain(g, chains[i], sinks[i])
                                 /\ Begins(prefix, Middle(chains[i]))
  BY PartsAre
<1>2. main \in Seq(D) BY HeadIs
<1>3. Len(main) <= Len(prefix)
  <2>1. main = prefix \/ (main = SubSeq(prefix, 1, LastRule(g, prefix)) /\ LastRule(g, prefix) > 0)
    BY DEF MainPrefix
  <2>2. LastRule(g, prefix) \in 0 .. Len(prefix)
    <3> DEFINE R == {0} \cup {i \in DOMAIN prefix : Kind(g, prefix[i]) = "validation"}
    <3>1. R \in SUBSET (0 .. Len(prefix)) /\ R # {} /\ Len(prefix) \in Nat BY <1>1
    <3>2. LastRule(g, prefix) = Max(R) BY DEF LastRule
    <3> HIDE DEF R
    <3> QED BY <3>1, <3>2, MaxIs
  <2> DEFINE k == LastRule(g, prefix)
  <2> HIDE DEF k
  <2>3. k \in 0 .. Len(prefix) /\ (main = prefix \/ main = SubSeq(prefix, 1, k)) BY <2>1, <2>2 DEF k
  <2>4. Len(prefix) \in Nat /\ Len(SubSeq(prefix, 1, k)) = k BY <2>3, <1>1
  <2> QED BY <2>3, <2>4
<1> HIDE DEF main, sinks
<1>4. ASSUME NEW i \in DOMAIN sinks
      PROVE  /\ Branch(g, main, sinks[i]) \in S /\ sinks[i] \in ToSet(Branch(g, main, sinks[i]))
             /\ \A x \in ToSet(Branch(g, main, sinks[i])) :
                  x = sinks[i] \/ Kind(g, x) \in {"transform", "validation"}
  <2> DEFINE c == ChainTo(g, sinks[i])
  <2>1. IsChain(g, c, sinks[i]) /\ Begins(prefix, Middle(c)) BY <1>1
  <2> HIDE DEF c
  <2>2. Len(Middle(c)) = Len(c) - 2 BY <2>1, MiddleIs
  <2>3. Len(prefix) <= Len(c) - 2 BY <2>1, <2>2 DEF Begins
  <2>4. Len(c) \in Nat /\ Len(prefix) \in Nat /\ Len(main) \in Nat BY <2>1, <1>1, <1>2 DEF IsChain
  <2>5. Len(main) <= Len(c) - 2 BY <2>3, <2>4, <1>3
  <2> QED BY <2>1, <2>5, <1>2, BranchIs DEF c
<1>5. B = [i \in 1 .. Len(sinks) |-> Branch(g, main, sinks[i])] BY <1>1 DEF BranchLists
<1>6. Len(sinks) \in Nat /\ \A i \in 1 .. Len(sinks) : Branch(g, main, sinks[i]) \in S BY <1>1, <1>4
<1> HIDE DEF S, B
<1>7. B \in Seq(S) /\ Len(B) = Len(sinks) BY <1>5, <1>6
<1>8. DOMAIN B = DOMAIN sinks /\ \A i \in DOMAIN sinks : B[i] = Branch(g, main, sinks[i]) BY <1>1, <1>5
<1> QED BY <1>4, <1>7, <1>8 DEF S, B, main, sinks

LEMMA OrderIs ==
  ASSUME NEW g, Drawn(g), NEW chains, NEW prefix, NEW steps, NEW tails,
         IsCompiled(g, chains, prefix, steps, tails)
  PROVE  LET main == MainPrefix(g, prefix)
             rules == OfKind(g, prefix, "validation")
         IN Ordered(g) = (HeadOf(chains, main) \o (IF rules # <<>> THEN Quality(g) ELSE <<>>))
                           \o FlattenSeq(BranchLists(g, main, MainSinks(g)))
<1> DEFINE sinks == MainSinks(g)
           main == MainPrefix(g, prefix)
           rules == OfKind(g, prefix, "validation")
           B == BranchLists(g, main, sinks)
<1>1. Ordered(g) = OrderOf(g, main, sinks) /\ SetToSeq(SourceId(g)) = <<chains[1][1]>> BY LanesAre
<1>2. OfKind(g, main, "validation") = rules BY HeadIs
<1>3. B \in Seq(Seq(DOMAIN g.nodes)) BY BranchesAre
<1> HIDE DEF main, sinks, rules
<1>4. OrderOf(g, main, sinks) = SetToSeq(SourceId(g)) \o main
        \o (IF rules # <<>> THEN Quality(g) ELSE <<>>) \o FlattenSeq(<<>> \o B)
  BY <1>2 DEF OrderOf, B, BranchLists
<1> HIDE DEF B
<1>5. <<>> \o B = B BY <1>3
<1> QED BY <1>1, <1>4, <1>5 DEF HeadOf, main, sinks, rules, B

LEMMA InOrderParts ==
  ASSUME NEW T, NEW u \in Seq(T), NEW v \in Seq(T), NEW at, InOrder(at, u \o v)
  PROVE  InOrder(at, u) /\ InOrder(at, v) /\ \A x \in ToSet(u), y \in ToSet(v) : at[x] <= at[y]
<1> DEFINE c == u \o v
           m == Len(u)
           n == Len(v)
<1>1. /\ m \in Nat /\ n \in Nat /\ c \in Seq(T) /\ Len(c) = m + n
      /\ \A i \in 1 .. m + n : c[i] = IF i <= m THEN u[i] ELSE v[i - m]
  BY ConcatProperties
<1>2. DOMAIN u = 1 .. m /\ DOMAIN v = 1 .. n OBVIOUS
<1>3. InOrder(at, c) OBVIOUS
<1> HIDE DEF c
<1>4. DOMAIN c = 1 .. m + n BY <1>1
<1> HIDE DEF m, n
<1>5. \A i, j \in 1 .. m + n : i < j => at[c[i]] <= at[c[j]] BY <1>3, <1>4 DEF InOrder
<1>6. \A i \in 1 .. m : i \in 1 .. m + n /\ c[i] = u[i] BY <1>1
<1>7. ASSUME NEW i \in 1 .. n PROVE m + i \in 1 .. m + n /\ c[m + i] = v[i]
  <2>1. m + i \in 1 .. m + n /\ ~ m + i <= m /\ (m + i) - m = i BY <1>1
  <2> QED BY <2>1, <1>1
<1>8. InOrder(at, u) BY <1>2, <1>5, <1>6 DEF InOrder
<1>9. InOrder(at, v)
  <2> SUFFICES ASSUME NEW i \in 1 .. n, NEW j \in 1 .. n, i < j PROVE at[v[i]] <= at[v[j]]
    BY <1>2 DEF InOrder
  <2>1. m + i < m + j BY <1>1
  <2> QED BY <2>1, <1>5, <1>7
<1>10. \A x \in ToSet(u), y \in ToSet(v) : at[x] <= at[y]
  <2> SUFFICES ASSUME NEW i \in 1 .. m, NEW j \in 1 .. n PROVE at[u[i]] <= at[v[j]]
    BY <1>2 DEF ToSet
  <2>1. i < m + j BY <1>1
  <2> QED BY <2>1, <1>5, <1>6, <1>7
<1> QED BY <1>8, <1>9, <1>10

\* A line of boxes that stands first, and without repeats, is numbered as it stands.
LEMMA HeadCounts ==
  ASSUME NEW T, IsFiniteSet(T), NEW head \in Seq(T), Once(head), NEW rest \in Seq(T), NEW at,
         \A x \in ToSet(head \o rest) : at[x] = Place(head \o rest, x)
  PROVE  InOrder(at, head) /\ \A x \in ToSet(head) : at[x] \in Nat
<1> DEFINE order == head \o rest
           m == Len(head)
           n == Len(rest)
<1>1. /\ m \in Nat /\ n \in Nat /\ order \in Seq(T) /\ Len(order) = m + n
      /\ \A i \in 1 .. m + n : order[i] = IF i <= m THEN head[i] ELSE rest[i - m]
  BY ConcatProperties
<1>2. DOMAIN head = 1 .. m OBVIOUS
<1>3. ToSet(head) \subseteq ToSet(order) BY ConcatIs
<1>4. \A x \in ToSet(order) : at[x] = Place(order, x) OBVIOUS
<1> HIDE DEF order, m, n
<1>5. \A i \in 1 .. m : head[i] \in ToSet(head) /\ head[i] \in ToSet(order) BY <1>2, <1>3 DEF ToSet
<1>6. ASSUME NEW i \in 1 .. m PROVE FirstIn(order, head[i]) = i
  <2> DEFINE x == head[i]
             f == FirstIn(order, x)
  <2>1. x \in ToSet(order) BY <1>5
  <2>2. f \in 1 .. Len(order) /\ order[f] = x /\ \A j \in 1 .. f - 1 : order[j] # x BY <2>1, <1>1, FirstIs
  <2>3. order[i] = x BY <1>1
  <2> HIDE DEF f
  <2>4. ~ i \in 1 .. f - 1 BY <2>2, <2>3
  <2>5. f \in 1 .. m BY <2>2, <2>4, <1>1
  <2>6. head[f] = head[i] BY <2>2, <2>5, <1>1
  <2> QED BY <2>5, <2>6, <1>2 DEF Once, f
<1>7. ASSUME NEW i \in 1 .. m, NEW j \in 1 .. m, i < j
      PROVE  at[head[i]] \in Nat /\ at[head[j]] \in Nat /\ at[head[i]] < at[head[j]]
  <2> DEFINE x == head[i]
             y == head[j]
  <2>1. x \in ToSet(order) /\ y \in ToSet(order) BY <1>5
  <2>2. FirstIn(order, x) < FirstIn(order, y) BY <1>6, <1>7
  <2> HIDE DEF x, y
  <2>3. Place(order, x) \in Nat /\ Place(order, y) \in Nat /\ Place(order, x) < Place(order, y)
    BY <2>1, <2>2, <1>1, PlaceRises
  <2>4. at[x] = Place(order, x) /\ at[y] = Place(order, y) BY <2>1, <1>4
  <2> QED BY <2>3, <2>4 DEF x, y
<1>8. InOrder(at, head)
  <2> SUFFICES ASSUME NEW i \in 1 .. m, NEW j \in 1 .. m, i < j PROVE at[head[i]] <= at[head[j]]
    BY <1>2 DEF InOrder
  <2>1. at[head[i]] \in Nat /\ at[head[j]] \in Nat /\ at[head[i]] < at[head[j]] BY <1>7
  <2> QED BY <2>1
<1>9. ASSUME NEW x \in ToSet(head) PROVE at[x] \in Nat
  <2>1. at[x] = Place(order, x) BY <1>3, <1>4
  <2> DEFINE before == {order[j] : j \in 1 .. FirstIn(order, x)}
  <2>2. FirstIn(order, x) \in 1 .. Len(order) BY <1>1, <1>3, FirstIs
  <2> DEFINE f == FirstIn(order, x)
  <2> HIDE DEF f
  <2>3. \A j \in 1 .. f : order[j] \in T BY <2>2, <1>1 DEF f
  <2>4. before \subseteq T BY <2>3 DEF f
  <2>5. Place(order, x) = Cardinality(before) BY DEF Place
  <2> HIDE DEF before
  <2> QED BY <2>1, <2>4, <2>5, FS_Subset, FS_CardinalityType
<1> QED BY <1>8, <1>9

\* A sequence with a rule once for each target is in order when the rules are.
LEMMA TargetsInOrder ==
  ASSUME NEW g, Drawn(g), NEW rules \in Seq(DOMAIN g.nodes), NEW at,
         InOrder(at, rules), \A x \in ToSet(rules) : at[x] \in Nat
  PROVE  InOrder(at, EachTarget(g, rules))
<1> DEFINE A == TargetLists(g, rules)
           D == DOMAIN g.nodes
<1>1. A \in Seq(Seq(D)) /\ DOMAIN A = DOMAIN rules /\ EachTarget(g, rules) = FlattenSeq(A) BY EachIs
<1>2. \A i \in DOMAIN rules : rules[i] \in D /\ rules[i] \in ToSet(rules) BY DEF ToSet
<1>3. \A i \in DOMAIN rules : A[i] = Targets(g, rules[i]) BY DEF TargetLists
<1> HIDE DEF A, D
<1>4. \A i \in DOMAIN rules : /\ ToSet(A[i]) = {rules[i]}
                              /\ \A t \in DOMAIN A[i] : A[i][t] = rules[i]
  BY <1>2, <1>3, TargetsAre DEF D
<1>5. \A i \in DOMAIN A : InOrder(at, A[i])
  <2> SUFFICES ASSUME NEW i \in DOMAIN rules PROVE InOrder(at, A[i]) BY <1>1
  <2>1. at[rules[i]] \in Nat BY <1>2
  <2>2. at[rules[i]] <= at[rules[i]] BY <2>1
  <2> QED BY <2>2, <1>4 DEF InOrder
<1>6. \A i, j \in DOMAIN A : i < j => \A x \in ToSet(A[i]), y \in ToSet(A[j]) : at[x] <= at[y]
  BY <1>1, <1>4 DEF InOrder
<1>7. Rises(at, A) BY <1>5, <1>6 DEF Rises
<1> QED BY <1>1, <1>7, FlattenInOrder

\* The destinations stand in their order, each at the end of its branch.
LEMMA SinksRise ==
  ASSUME NEW g, Drawn(g), NEW chains, NEW prefix, NEW steps, NEW tails,
         IsCompiled(g, chains, prefix, steps, tails),
         NEW before \in Seq(DOMAIN g.nodes), ToSet(before) \cap ToSet(MainSinks(g)) = {}
  PROVE  LET sinks == MainSinks(g)
             order == before \o FlattenSeq(BranchLists(g, MainPrefix(g, prefix), sinks))
         IN \A i, j \in DOMAIN sinks : i < j =>
              /\ sinks[i] \in ToSet(order) /\ sinks[j] \in ToSet(order)
              /\ Place(order, sinks[i]) \in Nat /\ Place(order, sinks[j]) \in Nat
              /\ Place(order, sinks[i]) < Place(order, sinks[j])
<1> DEFINE D == DOMAIN g.nodes
           S == Seq(D)
           sinks == MainSinks(g)
           B == BranchLists(g, MainPrefix(g, prefix), sinks)
           order == before \o FlattenSeq(B)
<1>1. /\ B \in Seq(S) /\ DOMAIN B = DOMAIN sinks /\ Len(B) = Len(sinks)
      /\ \A i \in DOMAIN sinks :
           /\ sinks[i] \in ToSet(B[i])
           /\ \A x \in ToSet(B[i]) : x = sinks[i] \/ Kind(g, x) \in {"transform", "validation"}
  BY BranchesAre
<1>2. /\ sinks \in S /\ Once(sinks)
      /\ \A x \in ToSet(sinks) : Kind(g, x) = "sink"
  BY SinksAre
<1>3. IsFiniteSet(D) BY BoxesAre
<1>4. before \in S /\ ToSet(before) \cap ToSet(sinks) = {} OBVIOUS
<1> HIDE DEF sinks, B
<1>5. Len(B) \in Nat /\ DOMAIN sinks = 1 .. Len(B) /\ \A i \in DOMAIN sinks : sinks[i] \in ToSet(sinks)
  BY <1>1, <1>2 DEF ToSet
<1> SUFFICES ASSUME NEW i \in 1 .. Len(B), NEW j \in 1 .. Len(B), i < j
             PROVE  /\ sinks[i] \in ToSet(order) /\ sinks[j] \in ToSet(order)
                    /\ Place(order, sinks[i]) \in Nat /\ Place(order, sinks[j]) \in Nat
                    /\ Place(order, sinks[i]) < Place(order, sinks[j])
  BY <1>5 DEF sinks, B
<1> DEFINE B1 == SubSeq(B, 1, i)
           B2 == SubSeq(B, i + 1, Len(B))
           F1 == FlattenSeq(B1)
           F2 == FlattenSeq(B2)
<1>6. CutInTwo(S, B, i, B1, B2)
  <2>1. i \in 0 .. Len(B) OBVIOUS
  <2> HIDE DEF S
  <2> QED BY <2>1, <1>1, CutIs
<1> HIDE DEF B1, B2, S
<1>7. /\ B1 \in Seq(S) /\ Len(B1) = i /\ \A k \in 1 .. i : B1[k] = B[k]
      /\ B2 \in Seq(S) /\ Len(B2) = Len(B) - i /\ \A k \in 1 .. Len(B) - i : B2[k] = B[i + k]
      /\ B = B1 \o B2
  BY <1>6 DEF CutInTwo
<1>8. DOMAIN B1 = 1 .. i /\ DOMAIN B2 = 1 .. Len(B) - i BY <1>7
<1>9. FlattenSeq(B) = F1 \o F2
  <2>1. FlattenSeq(B1 \o B2) = FlattenSeq(B1) \o FlattenSeq(B2) BY <1>7, FlattenConcat DEF S
  <2> QED BY <2>1, <1>7
<1>10. F1 \in S /\ F2 \in S /\ ToSet(F1) = Holds(B1) /\ ToSet(F2) = Holds(B2)
  <2>1. <<>> \in Seq(D) OBVIOUS
  <2>2. B1 \in Seq(Seq(D)) /\ B2 \in Seq(Seq(D)) BY <1>7 DEF S
  <2> HIDE DEF D
  <2>3. F1 \in Seq(D) /\ F2 \in Seq(D) BY <2>1, <2>2, FlattenAppend
  <2>4. ToSet(F1) = Holds(B1) /\ ToSet(F2) = Holds(B2) BY <2>2, FlatHolds
  <2> QED BY <2>3, <2>4 DEF S
<1> HIDE DEF F1, F2
<1>11. sinks[i] \in ToSet(F1)
  <2>1. i \in 1 .. i /\ B1[i] = B[i] BY <1>7
  <2>2. sinks[i] \in ToSet(B1[i]) BY <2>1, <1>1, <1>5
  <2> QED BY <2>1, <2>2, <1>8, <1>10 DEF Holds
<1>12. sinks[j] \in ToSet(F2)
  <2> DEFINE k == j - i
  <2>1. k \in 1 .. Len(B) - i /\ i + k = j BY <1>5
  <2> HIDE DEF k
  <2>2. B2[k] = B[j] BY <2>1, <1>7
  <2>3. sinks[j] \in ToSet(B2[k]) BY <2>2, <1>1, <1>5
  <2> QED BY <2>1, <2>3, <1>8, <1>10 DEF Holds
<1>13. sinks[j] \notin ToSet(F1)
  <2> SUFFICES ASSUME NEW k \in 1 .. i, sinks[j] \in ToSet(B1[k]) PROVE FALSE
    BY <1>8, <1>10 DEF Holds
  <2>1. k \in 1 .. Len(B) /\ B1[k] = B[k] /\ k # j BY <1>5, <1>7
  <2>2. sinks[j] = sinks[k] \/ Kind(g, sinks[j]) \in {"transform", "validation"} BY <2>1, <1>1, <1>5
  <2>3. Kind(g, sinks[j]) = "sink" BY <1>2, <1>5
  <2>4. sinks[j] = sinks[k] BY <2>2, <2>3
  <2> QED BY <2>1, <2>4, <1>2, <1>5 DEF Once
<1> DEFINE a == before \o F1
<1>14. a \in S /\ ToSet(a) = ToSet(before) \cup ToSet(F1)
  <2>1. before \in Seq(D) /\ F1 \in Seq(D) BY <1>10 DEF S
  <2> HIDE DEF D
  <2> QED BY <2>1, ConcatIs DEF S
<1>15. order = a \o F2
  <2>1. before \in Seq(D) /\ F1 \in Seq(D) /\ F2 \in Seq(D) BY <1>10 DEF S
  <2> HIDE DEF D
  <2>3. Joined(before, F1, F2) BY <2>1, Associates
  <2>2. (before \o F1) \o F2 = before \o (F1 \o F2) BY <2>3 DEF Joined
  <2> QED BY <2>2, <1>9
<1> HIDE DEF a, order
<1>16. sinks[i] \in ToSet(a) /\ sinks[j] \notin ToSet(a) BY <1>4, <1>5, <1>11, <1>13, <1>14
<1>17. a \in Seq(D) /\ F2 \in Seq(D) BY <1>10, <1>14 DEF S
<1> HIDE DEF D
<1> DEFINE x == sinks[i]
           y == sinks[j]
           w == a \o F2
<1> HIDE DEF x, y
<1>18. x \in ToSet(a) /\ y \in ToSet(F2) /\ y \notin ToSet(a) BY <1>12, <1>16 DEF x, y
<1>19. /\ x \in ToSet(w) /\ y \in ToSet(w)
       /\ Place(w, x) \in Nat /\ Place(w, y) \in Nat /\ Place(w, x) < Place(w, y)
  BY <1>3, <1>17, <1>18, PartsRise
<1> HIDE DEF w
<1>20. order = w BY <1>15 DEF w
<1> QED BY <1>19, <1>20 DEF x, y, order

LEMMA OrdinalsAre ==
  ASSUME NEW g, NEW n \in ToSet(Ordered(g))
  PROVE  NodeOrdinals(g)[n] = Place(Ordered(g), n)
<1> DEFINE order == Ordered(g)
           count(s) == [m \in ToSet(s) |-> Cardinality({s[j] : j \in 1 .. FirstIn(s, m)})]
<1>1. NodeOrdinals(g) = Given(order, count) BY DEF NodeOrdinals
<1> HIDE DEF order
<1>2. Given(order, count) = count(order) BY DEF Given
<1>3. n \in ToSet(order) BY DEF order
<1>4. count(order)[n] = Place(order, n) BY <1>3 DEF Place
<1> QED BY <1>1, <1>2, <1>4 DEF order

LEMMA LanesCount ==
  ASSUME NEW g, Drawn(g), NEW chains, NEW prefix, NEW steps, NEW tails,
         IsCompiled(g, chains, prefix, steps, tails)
  PROVE  Counts(NodeOrdinals(g), StepNodeLanes(g))
<1> DEFINE D == DOMAIN g.nodes
           sinks == MainSinks(g)
           main == MainPrefix(g, prefix)
           rules == OfKind(g, prefix, "validation")
           src == chains[1][1]
           each == EachTarget(g, rules)
           lanes == StepNodeLanes(g)
           at == NodeOrdinals(g)
           order == Ordered(g)
           head == HeadOf(chains, main)
           quality == IF rules # <<>> THEN Quality(g) ELSE <<>>
           flat == FlattenSeq(BranchLists(g, main, sinks))
           works == Among(main, TransformBoxes(g))
<1>1. IsFiniteSet(D) BY BoxesAre
<1>2. /\ main \in Seq(D) /\ rules \in Seq(D) /\ main = works \o rules /\ ToSet(rules) \subseteq RuleBoxes(g)
      /\ Works(g, main) /\ src \in D /\ Kind(g, src) = "source" /\ head \in Seq(D) /\ Once(head)
  BY HeadIs
<1>3. order = (head \o quality) \o flat BY OrderIs
<1>4. /\ BranchLists(g, main, sinks) \in Seq(Seq(D)) /\ DOMAIN BranchLists(g, main, sinks) = DOMAIN sinks
      /\ \A i \in DOMAIN sinks : sinks[i] \in ToSet(BranchLists(g, main, sinks)[i])
  BY BranchesAre
<1>5. /\ sinks \in Seq(D)
      /\ \A x \in ToSet(sinks) : Kind(g, x) = "sink" /\ x \notin QualitySinks(g)
  BY SinksAre DEF QualitySinks
<1>6. /\ Quality(g) \in Seq(D) /\ ToSet(Quality(g)) \subseteq QualitySinks(g)
      /\ \A r \in DOMAIN SideSinks(g) : SideSinks(g)[r] \in ToSet(Quality(g))
  BY QualityIs
<1>7. \A x \in ToSet(order) : at[x] = Place(order, x) BY OrdinalsAre
<1>8. \A i, j \in DOMAIN sinks : ToSet(head \o quality) \cap ToSet(sinks) = {} /\ head \o quality \in Seq(D) /\ i < j =>
        /\ sinks[i] \in ToSet(order) /\ sinks[j] \in ToSet(order)
        /\ Place(order, sinks[i]) \in Nat /\ Place(order, sinks[j]) \in Nat
        /\ Place(order, sinks[i]) < Place(order, sinks[j])
  <2> DEFINE before == head \o quality
  <2> HIDE DEF before
  <2> SUFFICES ASSUME ToSet(before) \cap ToSet(sinks) = {}, before \in Seq(D)
               PROVE  \A i, j \in DOMAIN sinks : i < j =>
                        /\ sinks[i] \in ToSet(order) /\ sinks[j] \in ToSet(order)
                        /\ Place(order, sinks[i]) \in Nat /\ Place(order, sinks[j]) \in Nat
                        /\ Place(order, sinks[i]) < Place(order, sinks[j])
    BY DEF before
  <2>1. order = before \o flat BY <1>3 DEF before
  <2> DEFINE o == before \o flat
  <2>2. \A i, j \in DOMAIN sinks : i < j =>
                        /\ sinks[i] \in ToSet(o) /\ sinks[j] \in ToSet(o)
                        /\ Place(o, sinks[i]) \in Nat /\ Place(o, sinks[j]) \in Nat
                        /\ Place(o, sinks[i]) < Place(o, sinks[j])
    BY SinksRise
  <2> HIDE DEF o, order
  <2> QED BY <2>1, <2>2 DEF o
<1>9. lanes = [input |-> <<src>>, transformation |-> works, validation |-> each,
               output |-> sinks, written |-> IF each = <<>> THEN <<>> ELSE SideSinks(g)]
  <2>1. /\ Destinations(g) = sinks /\ SharedChain(g) = main /\ SetToSeq(SourceId(g)) = <<src>>
        /\ ValidationNodeIdsInOrder(g) = each
    BY LanesAre
  <2> HIDE DEF sinks, main, src, each
  <2> QED BY <2>1 DEF StepNodeLanes, MainChainTransformNodeIds, OfKind, TransformBoxes
<1>10. /\ each \in Seq(D) /\ ToSet(each) = ToSet(rules) /\ (each = <<>> <=> rules = <<>>)
  BY <1>2, EachIs
<1>11. works \in Seq(D)
  <2>1. works \in Seq(D \cap TransformBoxes(g)) BY <1>2, AmongIs
  <2> HIDE DEF works, D
  <2> QED BY <2>1
<1>12. InOrder(at, rules) /\ (\A x \in ToSet(rules) : at[x] \in Nat) => InOrder(at, each)
  <2> HIDE DEF at
  <2> QED BY <1>2, TargetsInOrder
<1>a. head = <<src>> \o main BY DEF HeadOf
<1> HIDE DEF sinks, main, rules, src, each, lanes, at, order, head, flat, works, D
<1>b. quality \in Seq(D) /\ ToSet(quality) \subseteq QualitySinks(g)
  <2>1. <<>> \in Seq(D) /\ ToSet(<<>>) = {} BY DEF ToSet
  <2> QED BY <2>1, <1>6
<1>c. rules # <<>> => \A r \in DOMAIN SideSinks(g) : SideSinks(g)[r] \in ToSet(quality) BY <1>6
<1> HIDE DEF quality
\* What the head holds.
<1>13. /\ <<src>> \in Seq(D) /\ ToSet(<<src>>) = {src}
       /\ ToSet(head) = {src} \cup ToSet(main) /\ ToSet(main) = ToSet(works) \cup ToSet(rules)
  <2>1. <<src>> \in Seq(D) BY <1>2
  <2>2. ToSet(<<src>>) = {src}
    <3>1. DOMAIN <<src>> = {1} /\ <<src>>[1] = src OBVIOUS
    <3> QED BY <3>1 DEF ToSet
  <2>3. ToSet(<<src>> \o main) = ToSet(<<src>>) \cup ToSet(main)
    <3> DEFINE one == <<src>>
    <3>1. one \in Seq(D) BY <2>1
    <3>2. main \in Seq(D) BY <1>2
    <3> HIDE DEF one
    <3>3. ToSet(one \o main) = ToSet(one) \cup ToSet(main) BY <3>1, <3>2, ConcatIs
    <3> QED BY <3>3 DEF one
  <2>4. ToSet(works \o rules) = ToSet(works) \cup ToSet(rules) BY <1>2, <1>11, ConcatIs
  <2> QED BY <2>1, <2>2, <2>3, <2>4, <1>2, <1>a
<1>14. ToSet(head) \cap ToSet(sinks) = {} /\ ToSet(head) \cap QualitySinks(g) = {}
  <2>1. \A x \in ToSet(main) : Kind(g, x) \in {"transform", "validation"} BY <1>2 DEF Works, ToSet
  <2>2. \A x \in ToSet(head) : Kind(g, x) \in {"source", "transform", "validation"} BY <2>1, <1>2, <1>13
  <2>3. \A x \in QualitySinks(g) : Kind(g, x) = "sink"
    BY DEF QualitySinks, Drawn, IsGraph, IsBox, IsValidationSink, Kind
  <2> QED BY <2>2, <2>3, <1>5
<1>15. ToSet(head \o quality) = ToSet(head) \cup ToSet(quality) /\ head \o quality \in Seq(D)
  BY <1>2, <1>b, ConcatIs
<1>16. ToSet(head \o quality) \cap ToSet(sinks) = {} BY <1>5, <1>14, <1>15, <1>b
<1>17. flat \in Seq(D)
  <2>1. <<>> \in Seq(D) OBVIOUS
  <2> QED BY <2>1, <1>4, FlattenAppend DEF flat
<1>18. ToSet(sinks) \subseteq ToSet(flat)
  <2>1. ToSet(flat) = Holds(BranchLists(g, main, sinks)) BY <1>4, FlatHolds DEF flat
  <2>2. \A i \in DOMAIN sinks : sinks[i] \in Holds(BranchLists(g, main, sinks)) BY <1>4 DEF Holds
  <2> QED BY <2>1, <2>2 DEF ToSet
<1>d. (head \o quality) \o flat = head \o (quality \o flat)
  <2>1. head \in Seq(D) BY <1>2
  <2>2. quality \in Seq(D) BY <1>b
  <2>3. Joined(head, quality, flat) BY <2>1, <2>2, <1>17, Associates
  <2> QED BY <2>3 DEF Joined
\* The source, the transformations and the rules.
<1>19. InOrder(at, head) /\ \A x \in ToSet(head) : at[x] \in Nat
  <2> DEFINE rest == quality \o flat
             o == head \o rest
  <2>1. order = o BY <1>3, <1>d
  <2>2. rest \in Seq(D) BY <1>17, <1>b, ConcatIs
  <2> HIDE DEF rest
  <2>3. \A x \in ToSet(o) : at[x] = Place(o, x)
    <3> HIDE DEF o
    <3> QED BY <2>1, <1>7
  <2> QED BY <2>2, <2>3, <1>1, <1>2, HeadCounts
<1> DEFINE lead == <<src>> \o works
<1>20. lead \in Seq(D) BY <1>11, <1>13, ConcatIs
<1>21. head = lead \o rules
  <2> DEFINE one == <<src>>
  <2>1. one \in Seq(D) /\ works \in Seq(D) /\ rules \in Seq(D) BY <1>2, <1>11, <1>13
  <2>2. head = one \o main /\ main = works \o rules BY <1>2, <1>a
  <2> HIDE DEF one
  <2>3. Joined(one, works, rules) BY <2>1, Associates
  <2>4. (one \o works) \o rules = one \o (works \o rules) BY <2>3 DEF Joined
  <2>5. head = (one \o works) \o rules BY <2>2, <2>4
  <2> QED BY <2>5 DEF one, lead
<1> HIDE DEF lead
<1>22. /\ InOrder(at, lead) /\ InOrder(at, rules)
       /\ \A x \in ToSet(lead), y \in ToSet(rules) : at[x] <= at[y]
  BY <1>2, <1>19, <1>20, <1>21, InOrderParts
<1>23. \A x \in ToSet(rules) : at[x] \in Nat BY <1>13, <1>19
<1>24. InOrder(at, lead \o each)
  <2>1. InOrder(at, each) BY <1>12, <1>22, <1>23
  <2>2. \A x \in ToSet(lead), y \in ToSet(each) : at[x] <= at[y] BY <1>10, <1>22
  <2> QED BY <2>1, <2>2, <1>10, <1>20, <1>22, InOrderJoin
<1>25. InOrder(at, (lanes.input \o lanes.transformation) \o lanes.validation) BY <1>9, <1>24 DEF lead
\* The destinations.
<1>26. InOrder(at, lanes.output)
  <2> SUFFICES ASSUME NEW i \in DOMAIN sinks, NEW j \in DOMAIN sinks, i < j
               PROVE  at[sinks[i]] <= at[sinks[j]]
    BY <1>9 DEF InOrder
  <2> DEFINE x == sinks[i]
             y == sinks[j]
  <2>1. /\ x \in ToSet(order) /\ y \in ToSet(order)
        /\ Place(order, x) \in Nat /\ Place(order, y) \in Nat /\ Place(order, x) < Place(order, y)
    BY <1>8, <1>15, <1>16
  <2> HIDE DEF x, y
  <2>2. at[x] = Place(order, x) /\ at[y] = Place(order, y) BY <2>1, <1>7
  <2> QED BY <2>1, <2>2 DEF x, y
\* The datasets of the validations block, between the rules and the destinations.
<1>27. ASSUME NEW n \in ToSet(lanes.validation), NEW r \in DOMAIN lanes.written, NEW s \in ToSet(lanes.output)
       PROVE  at[n] < at[lanes.written[r]] /\ at[lanes.written[r]] < at[s]
  <2> DEFINE w == lanes.written[r]
             rest == quality \o flat
             before == head \o quality
  <2>1. n \in ToSet(rules) /\ n \in ToSet(head) /\ s \in ToSet(sinks) BY <1>9, <1>10, <1>13
  <2>2. rules # <<>> /\ each # <<>>
    <3>1. rules # <<>> BY <2>1 DEF ToSet
    <3> QED BY <3>1, <1>10
  <2>3. w \in ToSet(quality)
    <3>1. lanes.written = SideSinks(g) BY <2>2, <1>9
    <3> QED BY <3>1, <2>2, <1>c
  <2> HIDE DEF w
  <2>4. w \notin ToSet(head) BY <2>3, <1>14, <1>b
  <2>5. /\ order = head \o rest /\ order = before \o flat /\ rest \in Seq(D) /\ before \in Seq(D)
        /\ ToSet(rest) = ToSet(quality) \cup ToSet(flat)
    <3>2. quality \o flat \in Seq(D) /\ ToSet(quality \o flat) = ToSet(quality) \cup ToSet(flat)
      BY <1>17, <1>b, ConcatIs
    <3> QED BY <3>2, <1>3, <1>15, <1>d
  <2>6. w \in ToSet(before) /\ s \notin ToSet(before) BY <2>1, <2>3, <1>15, <1>16
  <2> HIDE DEF rest, before
  <2>7. /\ n \in ToSet(order) /\ w \in ToSet(order)
        /\ Place(order, n) \in Nat /\ Place(order, w) \in Nat /\ Place(order, n) < Place(order, w)
    <3>1. w \in ToSet(rest) BY <2>3, <2>5
    <3> DEFINE o == head \o rest
    <3>2. /\ n \in ToSet(o) /\ w \in ToSet(o)
          /\ Place(o, n) \in Nat /\ Place(o, w) \in Nat /\ Place(o, n) < Place(o, w)
      BY <3>1, <2>1, <2>4, <2>5, <1>1, <1>2, PartsRise
    <3> HIDE DEF o
    <3>3. order = o BY <2>5 DEF o
    <3> QED BY <3>2, <3>3
  <2>8. /\ w \in ToSet(order) /\ s \in ToSet(order)
        /\ Place(order, w) \in Nat /\ Place(order, s) \in Nat /\ Place(order, w) < Place(order, s)
    <3>1. s \in ToSet(flat) BY <2>1, <1>18
    <3> DEFINE o == before \o flat
    <3>2. /\ w \in ToSet(o) /\ s \in ToSet(o)
          /\ Place(o, w) \in Nat /\ Place(o, s) \in Nat /\ Place(o, w) < Place(o, s)
      BY <3>1, <2>5, <2>6, <1>1, <1>17, PartsRise
    <3> HIDE DEF o
    <3>3. order = o BY <2>5 DEF o
    <3> QED BY <3>2, <3>3
  <2>9. at[n] = Place(order, n) /\ at[w] = Place(order, w) /\ at[s] = Place(order, s)
    BY <2>7, <2>8, <1>7
  <2> QED BY <2>7, <2>8, <2>9 DEF w
<1> QED BY <1>25, <1>26, <1>27 DEF Counts, lanes, at

(* On any canvas that compiles, whatever was drawn on it: a step a run      *)
(* reports by its position is painted on the box it was compiled from, a    *)
(* rule once for each of its targets; and the numbers on the boxes follow   *)
(* the run, the source first, then the transformations, the rules, the      *)
(* datasets the rules write, and the destinations (editor.ts:1044-1260).    *)
THEOREM StepsArePainted == Spec => []StepsFindTheirBoxes
<1>1. CanvasInv => StepsFindTheirBoxes
  <2> SUFFICES ASSUME CanvasInv, Compile(graph).errors = {}
               PROVE  Paints(graph, Compile(graph).pipeline, StepNodeLanes(graph))
                      /\ Counts(NodeOrdinals(graph), StepNodeLanes(graph))
    BY DEF StepsFindTheirBoxes
  <2>1. Drawn(graph) BY InvInParts, VersionsAre
  <2>2. PICK chains, prefix, steps, tails : IsCompiled(graph, chains, prefix, steps, tails)
    BY <2>1, CompileIs
  <2> QED BY <2>1, <2>2, LanesPaint, LanesCount
<1> QED BY <1>1, CanvasInvariant, PTL

-----------------------------------------------------------------------------
(* Walks, wherever they start on a chain. *)

LEMMA ParentIs ==
  ASSUME NEW g, Drawn(g), NEW a, NEW b, NEW handle \in {"in", "inRight"},
         [from |-> a, to |-> b, at |-> handle] \in g.links
  PROVE  a \in DOMAIN g.nodes /\ b \in DOMAIN g.nodes /\ ParentsOn(g, b, handle) = {a}
<1> DEFINE link(m) == [from |-> m, to |-> b, at |-> handle]
<1>1. link(a).from = a /\ link(a).to = b OBVIOUS
<1>2. a \in DOMAIN g.nodes /\ b \in DOMAIN g.nodes
  BY <1>1 DEF Drawn, Sound, LinksHaveEnds
<1>3. \A m : link(m) \in g.links => m = a
  <2> SUFFICES ASSUME NEW m, link(m) \in g.links PROVE m = a OBVIOUS
  <2>1. /\ link(m).to = link(a).to /\ link(m).at = link(a).at /\ link(m).at # "inScope"
        /\ link(a) \in g.links /\ link(m).from = m
    OBVIOUS
  <2> HIDE DEF link
  <2>2. link(m) = link(a) BY <2>1 DEF Drawn, Sound, OneLinkPerInput
  <2> QED BY <1>1, <2>1, <2>2
<1> QED BY <1>2, <1>3 DEF ParentsOn

\* A line of boxes that starts at a source.
FromSource(g, end, ids) == LineTo(g, end, ids) /\ Kind(g, ids[1]) = "source"

LEMMA LineToIs ==
  ASSUME NEW g, Drawn(g), NEW end, NEW ids, LineTo(g, end, ids)
  PROVE  /\ Len(ids) \in Nat /\ Len(ids) >= 1 /\ DOMAIN ids = 1 .. Len(ids)
         /\ \A i \in 1 .. Len(ids) : ids[i] \in DOMAIN g.nodes
         /\ \A i \in 1 .. Len(ids) - 1 : FeedsOn(g, ids[i])
         /\ \A i \in 2 .. Len(ids) : /\ ParentsOn(g, ids[i], "in") = {ids[i - 1]}
                                     /\ Kind(g, ids[i]) \notin {"source", "note"}
<1>1. /\ Len(ids) \in Nat /\ Len(ids) >= 1 /\ DOMAIN ids = 1 .. Len(ids)
      /\ \A i \in 1 .. Len(ids) : ids[i] \in DOMAIN g.nodes
  BY DEF LineTo
<1>2. \A i \in 1 .. Len(ids) - 1 : FeedsOn(g, ids[i])
  <2> TAKE i \in 1 .. Len(ids) - 1
  <2> DEFINE l == [from |-> ids[i], to |-> ids[i + 1], at |-> "in"]
  <2>1. l \in g.links /\ l.from = ids[i] BY DEF LineTo
  <2> QED BY <2>1, FeederFeeds
<1>3. \A i \in 2 .. Len(ids) : /\ ParentsOn(g, ids[i], "in") = {ids[i - 1]}
                               /\ Kind(g, ids[i]) \notin {"source", "note"}
  <2> TAKE i \in 2 .. Len(ids)
  <2>1. i - 1 \in 1 .. Len(ids) - 1 /\ (i - 1) + 1 = i BY <1>1
  <2> DEFINE l == [from |-> ids[i - 1], to |-> ids[i], at |-> "in"]
  <2>2. [from |-> ids[i - 1], to |-> ids[(i - 1) + 1], at |-> "in"] \in g.links BY <2>1 DEF LineTo
  <2>3. l \in g.links /\ l.to = ids[i] /\ l.at = "in" BY <2>1, <2>2
  <2>4. ParentsOn(g, ids[i], "in") = {ids[i - 1]} BY <2>3, ParentIs
  <2> HIDE DEF l
  <2>5. "in" \in Inputs(g.nodes[ids[i]]) BY <2>3 DEF Drawn, Sound, LinksAreAllowed
  <2> QED BY <2>4, <2>5 DEF Inputs, Kind
<1> QED BY <1>1, <1>2, <1>3

LEMMA SourceIsFirst ==
  ASSUME NEW g, Drawn(g), NEW n, Kind(g, n) = "source"
  PROVE  \A l \in g.links : l.to # n
<1> SUFFICES ASSUME NEW l \in g.links, l.to = n PROVE FALSE OBVIOUS
<1>1. l.at \in Inputs(g.nodes[n]) BY DEF Drawn, Sound, LinksAreAllowed
<1> QED BY <1>1 DEF Inputs, Kind

LEMMA LineStep ==
  ASSUME NEW g, Drawn(g), NEW end, NEW ids, FromSource(g, end, ids),
         NEW k \in 1 .. Len(ids), NEW a \in 1 .. k
  PROVE  StepOn(g, [nodes |-> SubSeq(ids, a, k), problem |-> "none"])
           = [nodes |-> SubSeq(ids, IF a = 1 THEN 1 ELSE a - 1, k), problem |-> "none"]
<1> DEFINE part == SubSeq(ids, a, k)
           w == [nodes |-> part, problem |-> "none"]
           B == DOMAIN g.nodes
<1>1. LineTo(g, end, ids) /\ ids \in Seq(B) /\ Once(ids) BY DEF FromSource, LineTo
<1>2. /\ Len(ids) \in Nat /\ DOMAIN ids = 1 .. Len(ids) /\ \A i \in 1 .. Len(ids) : ids[i] \in B
  BY <1>1, LineToIs
<1>3. part \in Seq(B) /\ Len(part) = k - a + 1 /\ \A i \in 1 .. k - a + 1 : part[i] = ids[a + i - 1]
  <2> HIDE DEF B
  <2> QED BY <1>1, <1>2
<1>4. Head(part) = ids[a]
  <2> HIDE DEF part
  <2>1. part # <<>> /\ 1 \in 1 .. k - a + 1 /\ a + 1 - 1 = a BY <1>3
  <2>2. Head(part) = part[1] BY <1>3, <2>1
  <2> QED BY <1>3, <2>1, <2>2
<1>5. w.nodes = part /\ w.problem = "none" OBVIOUS
<1> HIDE DEF part, w
<1> DEFINE P == ParentsOn(g, ids[a], "in")
<1>6. StepOn(g, w) = IF P = {} THEN w
                     ELSE IF Cardinality(P) > 1 THEN [nodes |-> <<>>, problem |-> "multiple-parents"]
                     ELSE IF P \subseteq ToSet(part) THEN [nodes |-> <<>>, problem |-> "cycle"]
                     ELSE [w EXCEPT !.nodes = <<Max(P)>> \o part]
  BY <1>4, <1>5 DEF StepOn, StepBack
<1>7. CASE a = 1
  <2>1. P = {}
    <3> SUFFICES ASSUME NEW m \in P PROVE FALSE OBVIOUS
    <3> DEFINE l == [from |-> m, to |-> ids[1], at |-> "in"]
    <3>1. l \in g.links /\ l.to = ids[1] BY <1>7 DEF ParentsOn
    <3> QED BY <3>1, SourceIsFirst DEF FromSource
  <2> QED BY <1>6, <1>7, <2>1 DEF w, part
<1>8. CASE a # 1
  <2>1. a \in 2 .. Len(ids) /\ a - 1 \in 1 .. Len(ids) BY <1>8, <1>2
  <2>a. \A i \in 2 .. Len(ids) : ParentsOn(g, ids[i], "in") = {ids[i - 1]} BY <1>1, LineToIs
  <2>2. P = {ids[a - 1]} /\ ids[a - 1] \in B BY <1>2, <2>a, <2>1
  <2> HIDE DEF P
  <2>3. Cardinality(P) = 1 BY <2>2, FS_Singleton
  <2>4. Max(P) = ids[a - 1]
    <3>1. P \subseteq Nat /\ IsFiniteSet(P) BY <2>2, BoxesAre, FS_Singleton
    <3>2. P # {} /\ ~ Cardinality(P) > 1 BY <2>2, <2>3
    <3>3. P = {Max(P)} BY <3>1, <3>2, OneParent
    <3> QED BY <2>2, <3>3
  <2>5. ids[a - 1] \notin ToSet(part)
    <3> SUFFICES ASSUME NEW i \in DOMAIN part, part[i] = ids[a - 1] PROVE FALSE BY DEF ToSet
    <3>1. i \in 1 .. k - a + 1 /\ a + i - 1 \in 1 .. Len(ids) /\ a + i - 1 # a - 1 BY <1>2, <1>3
    <3>2. ids[a + i - 1] = ids[a - 1] BY <1>3, <3>1
    <3> QED BY <1>1, <1>2, <2>1, <3>1, <3>2 DEF Once
  <2>6. <<ids[a - 1]>> \o part = SubSeq(ids, a - 1, k)
    <3> DEFINE x == ids[a - 1]
               long == <<x>> \o part
               s == SubSeq(ids, a - 1, k)
    <3>1. /\ s \in Seq(B) /\ Len(s) = k - a + 2 /\ \A i \in 1 .. k - a + 2 : s[i] = ids[a + i - 2]
      <4> HIDE DEF B
      <4> QED BY <1>1, <1>2, <2>1
    <3>2. x \in B BY <2>2
    <3> HIDE DEF x, B
    <3>3. /\ long \in Seq(B) /\ Len(long) = Len(part) + 1 /\ long[1] = x
          /\ \A i \in 1 .. Len(part) : long[i + 1] = part[i]
      BY <1>3, <3>2, PrependIs
    <3> HIDE DEF long, s
    <3>4. ASSUME NEW i \in 1 .. k - a + 2 PROVE long[i] = s[i]
      <4>1. CASE i = 1
        <5>1. s[1] = ids[a + 1 - 2] /\ a + 1 - 2 = a - 1 BY <3>1
        <5> QED BY <3>3, <4>1, <5>1 DEF x
      <4>2. CASE i # 1
        <5>1. i - 1 \in 1 .. k - a + 1 /\ (i - 1) + 1 = i /\ a + (i - 1) - 1 = a + i - 2 BY <4>2
        <5>2. long[(i - 1) + 1] = part[i - 1] BY <5>1, <3>3, <1>3
        <5>3. part[i - 1] = ids[a + (i - 1) - 1] BY <5>1, <1>3
        <5>4. s[i] = ids[a + i - 2] BY <3>1
        <5> QED BY <5>1, <5>2, <5>3, <5>4
      <4> QED BY <4>1, <4>2
    <3>5. Len(long) = k - a + 2 BY <3>3, <1>3
    <3>6. long = s BY <3>1, <3>3, <3>4, <3>5
    <3> QED BY <3>6 DEF long, s, x
  <2>7. StepOn(g, w) = [w EXCEPT !.nodes = <<Max(P)>> \o part]
    <3>1. P # {} /\ ~ Cardinality(P) > 1 /\ ~ P \subseteq ToSet(part) BY <2>2, <2>3, <2>5
    <3> QED BY <1>6, <3>1 DEF P
  <2>8. StepOn(g, w) = [nodes |-> <<Max(P)>> \o part, problem |-> "none"] BY <2>7 DEF w
  <2> QED BY <1>8, <2>4, <2>6, <2>8 DEF w, part, P
<1> QED BY <1>7, <1>8

LEMMA LineFits ==
  ASSUME NEW g, Drawn(g), NEW end, NEW ids, LineTo(g, end, ids)
  PROVE  Len(ids) <= Cardinality(DOMAIN g.nodes)
<1> DEFINE S == 1 .. Len(ids)
           T == DOMAIN g.nodes
<1>1. Len(ids) \in Nat /\ DOMAIN ids = S /\ ids \in [S -> T] BY DEF LineTo
<1>2. \A i, j \in S : ids[i] = ids[j] => i = j BY <1>1 DEF LineTo, Once
<1>3. IsFiniteSet(T) /\ IsFiniteSet(S) /\ Cardinality(S) = Len(ids)
  <2>1. IsFiniteSet(T) BY BoxesAre
  <2>2. 1 \in Int /\ Len(ids) \in Int /\ Len(ids) >= 1 BY <1>1, LineToIs
  <2>3. IsFiniteSet(1 .. Len(ids)) /\ Cardinality(1 .. Len(ids)) = Len(ids) - 1 + 1
    BY <2>2, FS_Interval
  <2> QED BY <2>1, <2>2, <2>3
<1> HIDE DEF S, T
<1>4. ids \in Injection(S, T) BY <1>1, <1>2 DEF Injection, IsInjective
<1>5. Cardinality(S) <= Cardinality(T) BY <1>3, <1>4, FS_Injection
<1> QED BY <1>3, <1>5 DEF T

\* A walk that starts on a line from a source goes back along the line.
LEMMA WalkDown ==
  ASSUME NEW g, Drawn(g), NEW end, NEW ids, FromSource(g, end, ids), NEW k \in 1 .. Len(ids)
  PROVE  ChainToSink(g, ids[k]) = [nodes |-> SubSeq(ids, 1, k), problem |-> "none"]
<1> DEFINE n == Cardinality(DOMAIN g.nodes)
           start == [nodes |-> <<ids[k]>>, problem |-> "none"]
           Back(i) == IF i < k THEN k - i ELSE 1
           Part(i) == [nodes |-> SubSeq(ids, Back(i), k), problem |-> "none"]
<1>1. LineTo(g, end, ids) /\ ids \in Seq(DOMAIN g.nodes) BY DEF FromSource, LineTo
<1>2. Len(ids) \in Nat /\ ids[k] \in DOMAIN g.nodes BY <1>1
<1>3. k \in Nat /\ k >= 1 /\ k <= Len(ids) BY <1>2
<1>4. /\ n \in Nat
      /\ \E walk : /\ ChainToSink(g, ids[k]) = walk[n]
                   /\ \A i \in 0 .. n : walk[i] = IF i = 0 THEN start ELSE StepOn(g, walk[i - 1])
  BY <1>2, WalkSteps
<1>5. Len(ids) <= n BY <1>1, LineFits
<1>6. start = Part(0)
  <2>1. SubSeq(ids, k, k) = <<ids[k]>>
    <3> DEFINE x == ids[k]
               B == DOMAIN g.nodes
               s == SubSeq(ids, k, k)
    <3>1. s \in Seq(B) /\ Len(s) = 1 /\ s[1] = x
      <4> HIDE DEF B
      <4>1. ids \in Seq(B) BY <1>1 DEF B
      <4> QED BY <4>1, <1>2, <1>3
    <3>a. x \in B BY <1>2
    <3> HIDE DEF x, s, B
    <3>2. <<x>> \in Seq(B) /\ Len(<<x>>) = 1 /\ <<x>>[1] = x BY <3>a
    <3>3. s = <<x>> BY <3>1, <3>2, SeqEqual
    <3> QED BY <3>3 DEF x, s
  <2>2. Back(0) = k BY <1>3
  <2> HIDE DEF Back
  <2> QED BY <2>1, <2>2
<1>7. ASSUME NEW i \in Nat, i >= 1 PROVE StepOn(g, Part(i - 1)) = Part(i)
  <2>1. /\ Back(i - 1) \in 1 .. k
        /\ Back(i) = IF Back(i - 1) = 1 THEN 1 ELSE Back(i - 1) - 1
    <3>1. CASE i < k
      <4>1. Back(i) = k - i /\ Back(i - 1) = k - (i - 1) BY <3>1, <1>3
      <4> HIDE DEF Back
      <4> QED BY <3>1, <4>1, <1>3, <1>7
    <3>2. CASE ~ i < k
      <4>1. Back(i) = 1 /\ Back(i - 1) = 1
        <5>1. CASE i = k BY <5>1, <1>3
        <5>2. CASE i # k
          <6>1. ~ i - 1 < k BY <3>2, <5>2, <1>3
          <6> QED BY <6>1, <3>2
        <5> QED BY <5>1, <5>2
      <4> HIDE DEF Back
      <4> QED BY <4>1, <1>3
    <3> QED BY <3>1, <3>2
  <2> DEFINE a == Back(i - 1)
  <2>2. Part(i - 1) = [nodes |-> SubSeq(ids, a, k), problem |-> "none"] OBVIOUS
  <2>3. Part(i) = [nodes |-> SubSeq(ids, IF a = 1 THEN 1 ELSE a - 1, k), problem |-> "none"]
    <3> HIDE DEF Back
    <3> QED BY <2>1
  <2>4. a \in 1 .. k BY <2>1
  <2> HIDE DEF Part, Back, a
  <2>5. StepOn(g, [nodes |-> SubSeq(ids, a, k), problem |-> "none"])
          = [nodes |-> SubSeq(ids, IF a = 1 THEN 1 ELSE a - 1, k), problem |-> "none"]
    BY <2>4, LineStep
  <2> QED BY <2>2, <2>3, <2>5
<1> HIDE DEF start, Part, n
<1>8. PICK walk : /\ ChainToSink(g, ids[k]) = walk[n]
                  /\ \A i \in 0 .. n : walk[i] = IF i = 0 THEN start ELSE StepOn(g, walk[i - 1])
  BY <1>4
<1> DEFINE Bad == {i \in 0 .. n : walk[i] # Part(i)}
<1>9. Bad = {}
  <2> SUFFICES ASSUME Bad # {} PROVE FALSE OBVIOUS
  <2>1. Bad \subseteq Nat BY <1>4
  <2>2. PICK i \in Bad : \A h \in Bad : i <= h BY <2>1, Least
  <2>3. i \in 0 .. n /\ i # 0 BY <1>6, <1>8, <1>4
  <2>4. i - 1 \in 0 .. n /\ ~ i <= i - 1 /\ i \in Nat /\ i >= 1 BY <2>3, <1>4
  <2>5. walk[i - 1] = Part(i - 1) BY <2>2, <2>4
  <2>6. walk[i] = Part(i) BY <2>3, <2>4, <2>5, <1>7, <1>8
  <2> QED BY <2>6
<1>10. n \in 0 .. n BY <1>4
<1>11. Part(n) = [nodes |-> SubSeq(ids, 1, k), problem |-> "none"]
  <2>1. Back(n) = 1 BY <1>3, <1>4, <1>5
  <2> HIDE DEF Back
  <2> QED BY <2>1 DEF Part
<1> QED BY <1>8, <1>9, <1>10, <1>11

\* The boxes of such a line that are compiled.
LEMMA AliveIs ==
  ASSUME NEW g, Drawn(g), NEW end, NEW ids, LineTo(g, end, ids)
  PROVE  LET c == Alive(g, ids)
         IN /\ c = Among(ids, AliveIn(g)) /\ c \in Seq(DOMAIN g.nodes) /\ Once(c)
            /\ ToSet(c) = ToSet(ids) \cap AliveIn(g)
            /\ (c # <<>> /\ Kind(g, c[1]) = "source") =>
                 /\ c[1] = ids[1] /\ FromSource(g, end, ids)
                 /\ \A j \in 2 .. Len(c) : \E i \in 2 .. Len(ids) : c[j] = ids[i]
<1> DEFINE c == Alive(g, ids)
           A == AliveIn(g)
<1>1. c = Among(ids, A) BY DEF Alive, AliveIn
<1>2. ids \in Seq(DOMAIN g.nodes) /\ Once(ids) /\ Len(ids) \in Nat /\ DOMAIN ids = 1 .. Len(ids)
  BY DEF LineTo
<1>3. c \in Seq(DOMAIN g.nodes \cap A) /\ ToSet(c) = ToSet(ids) \cap A BY <1>1, <1>2, AmongIs
<1>4. c \in Seq(DOMAIN g.nodes) BY <1>3
<1>5. Once(c) BY <1>1, <1>2, AmongOnce
<1> HIDE DEF c
<1>6. ASSUME c # <<>>, Kind(g, c[1]) = "source"
      PROVE  /\ c[1] = ids[1] /\ FromSource(g, end, ids)
             /\ \A j \in 2 .. Len(c) : \E i \in 2 .. Len(ids) : c[j] = ids[i]
  <2>1. DOMAIN c = 1 .. Len(c) /\ Len(c) \in Nat /\ Len(c) >= 1 /\ 1 \in DOMAIN c BY <1>4, <1>6
  <2>2. \A j \in DOMAIN c : \E i \in 1 .. Len(ids) : c[j] = ids[i]
    <3>1. \A j \in DOMAIN c : c[j] \in ToSet(c) BY DEF ToSet
    <3> QED BY <1>2, <1>3, <3>1 DEF ToSet
  <2>3. \A i \in 2 .. Len(ids) : Kind(g, ids[i]) # "source" BY LineToIs
  <2>4. c[1] = ids[1]
    <3>1. PICK i \in 1 .. Len(ids) : c[1] = ids[i] BY <2>1, <2>2
    <3>2. i = 1 BY <1>2, <1>6, <2>3, <3>1
    <3> QED BY <3>1, <3>2
  <2>5. ASSUME NEW j \in 2 .. Len(c) PROVE \E i \in 2 .. Len(ids) : c[j] = ids[i]
    <3>1. j \in DOMAIN c /\ j # 1 BY <2>1
    <3>2. PICK i \in 1 .. Len(ids) : c[j] = ids[i] BY <2>2, <3>1
    <3>3. i # 1 BY <2>1, <2>4, <3>1, <3>2, <1>5 DEF Once
    <3> QED BY <1>2, <3>2, <3>3
  <2> QED BY <1>6, <2>4, <2>5 DEF FromSource
<1> QED BY <1>1, <1>3, <1>4, <1>5, <1>6 DEF c

\* What a walk back from a box finds: a chain from a source, or one of three faults.
SourceChain(g, end, ids, c) ==
  /\ FromSource(g, end, ids) /\ c = Among(ids, AliveIn(g)) /\ c \in Seq(DOMAIN g.nodes) /\ c # <<>>
  /\ Once(c) /\ ToSet(c) = ToSet(ids) \cap AliveIn(g)
  /\ c[1] = ids[1] /\ Kind(g, c[1]) = "source"
  /\ \A j \in 2 .. Len(c) : /\ Kind(g, c[j]) \notin {"source", "note"}
                            /\ ParentsOn(g, c[j], "in") # {}

LEMMA FaultIs ==
  ASSUME NEW g, Drawn(g), NEW end \in DOMAIN g.nodes
  PROVE  LET walk == ChainToSink(g, end)
             c == Alive(g, walk.nodes)
         IN /\ FaultOf(g, walk) \in {"none", "multiple-parents", "cycle", "no-source"}
            /\ FaultOf(g, walk) = "none" <=> walk.problem = "none" /\ c # <<>> /\ Kind(g, c[1]) = "source"
            /\ FaultOf(g, walk) = "none" => SourceChain(g, end, walk.nodes, c)
            /\ ChainFault(g, end) = FaultOf(g, walk) /\ ChainTo(g, end) = c
<1> DEFINE walk == ChainToSink(g, end)
           ids == walk.nodes
           c == Alive(g, ids)
<1>1. walk \in Walks(g, end) BY ChainWalks
<1>2. walk.problem \in {"none", "multiple-parents", "cycle"} BY <1>1 DEF Walks
<1>3. ChainFault(g, end) = FaultOf(g, walk) BY DEF ChainFault, Given
<1>4. ChainTo(g, end) = c BY DEF ChainTo
<1>5. FaultOf(g, walk) = IF walk.problem # "none" THEN walk.problem
                         ELSE IF c = <<>> \/ Kind(g, c[1]) # "source" THEN "no-source"
                         ELSE IF OfKind(g, Tail(c), "source") # <<>> THEN "two-sources"
                         ELSE "none"
  BY DEF FaultOf
<1> HIDE DEF walk, c
<1>6. ASSUME walk.problem = "none", c # <<>>, Kind(g, c[1]) = "source"
      PROVE  SourceChain(g, end, ids, c) /\ OfKind(g, Tail(c), "source") = <<>>
  <2>1. LineTo(g, end, ids) BY <1>1, <1>6 DEF Walks
  <2>2. /\ c = Among(ids, AliveIn(g)) /\ c \in Seq(DOMAIN g.nodes) /\ Once(c)
        /\ ToSet(c) = ToSet(ids) \cap AliveIn(g)
        /\ c[1] = ids[1] /\ FromSource(g, end, ids)
        /\ \A j \in 2 .. Len(c) : \E i \in 2 .. Len(ids) : c[j] = ids[i]
    BY <2>1, <1>6, AliveIs DEF c
  <2>3. \A i \in 2 .. Len(ids) : /\ Kind(g, ids[i]) \notin {"source", "note"}
                                 /\ ParentsOn(g, ids[i], "in") # {}
    <3> HIDE DEF ids
    <3>1. \A i \in 2 .. Len(ids) : /\ ParentsOn(g, ids[i], "in") = {ids[i - 1]}
                                   /\ Kind(g, ids[i]) \notin {"source", "note"}
      BY <2>1, LineToIs
    <3> TAKE i \in 2 .. Len(ids)
    <3>2. ParentsOn(g, ids[i], "in") = {ids[i - 1]} /\ Kind(g, ids[i]) \notin {"source", "note"}
      BY <3>1
    <3> QED BY <3>2
  <2>4. \A j \in 2 .. Len(c) : /\ Kind(g, c[j]) \notin {"source", "note"}
                               /\ ParentsOn(g, c[j], "in") # {}
    BY <2>2, <2>3
  <2>5. OfKind(g, Tail(c), "source") = <<>>
    <3> DEFINE B == DOMAIN g.nodes
               t == Tail(c)
               S == {n \in B : Kind(g, n) = "source"}
    <3>1. c \in Seq(B) /\ c # <<>> BY <2>2, <1>6
    <3>2. t \in Seq(B) /\ Len(t) = Len(c) - 1 /\ \A j \in 1 .. Len(c) - 1 : t[j] = c[j + 1]
      <4> HIDE DEF B
      <4> QED BY <3>1
    <3> HIDE DEF t
    <3>3. ToSet(t) \cap S = {}
      <4> SUFFICES ASSUME NEW j \in DOMAIN t, t[j] \in S PROVE FALSE BY DEF ToSet
      <4>1. j \in 1 .. Len(c) - 1 /\ j + 1 \in 2 .. Len(c) /\ t[j] = c[j + 1] BY <3>1, <3>2
      <4> QED BY <4>1, <2>4
    <3> HIDE DEF B, S
    <3>4. Among(t, S) = <<>> BY <3>2, <3>3, AmongNone
    <3> QED BY <3>4 DEF OfKind, t, S, B
  <2> QED BY <1>6, <2>2, <2>4, <2>5 DEF SourceChain
<1>7. FaultOf(g, walk) = "none" <=> walk.problem = "none" /\ c # <<>> /\ Kind(g, c[1]) = "source"
  BY <1>2, <1>5, <1>6
<1>8. FaultOf(g, walk) \in {"none", "multiple-parents", "cycle", "no-source"} BY <1>2, <1>5, <1>6
<1>9. FaultOf(g, walk) = "none" => SourceChain(g, end, ids, c) BY <1>6, <1>7
<1> QED BY <1>3, <1>4, <1>7, <1>8, <1>9 DEF walk, c

LEMMA AmongSame ==
  ASSUME NEW T, NEW ids \in Seq(T), NEW R, NEW S, ToSet(ids) \cap R = ToSet(ids) \cap S
  PROVE  Among(ids, R) = Among(ids, S)
<1> DEFINE n == Len(ids)
           r == Kept(ids, R)
           s == Kept(ids, S)
<1>1. n \in Nat /\ DOMAIN ids = 1 .. n OBVIOUS
<1>2. KeptIs(ids, R, r) /\ KeptIs(ids, S, s) BY KeptExists
<1>3. \A i \in 1 .. n : ids[i] \in R <=> ids[i] \in S BY <1>1 DEF ToSet
<1> HIDE DEF r, s, n
<1>4. \A i \in 0 .. n :
        /\ r[i] = IF i = 0 THEN <<>> ELSE IF ids[i] \in R THEN Append(r[i - 1], ids[i]) ELSE r[i - 1]
        /\ s[i] = IF i = 0 THEN <<>> ELSE IF ids[i] \in S THEN Append(s[i - 1], ids[i]) ELSE s[i - 1]
  BY <1>2 DEF KeptIs, n
<1> DEFINE Bad == {i \in 0 .. n : r[i] # s[i]}
<1>5. Bad = {}
  <2> SUFFICES ASSUME Bad # {} PROVE FALSE OBVIOUS
  <2>1. Bad \subseteq Nat BY <1>1
  <2>2. PICK i \in Bad : \A h \in Bad : i <= h BY <2>1, Least
  <2>3. i \in 1 .. n /\ i - 1 \in 0 .. n /\ ~ i <= i - 1 BY <1>1, <1>4, <2>2
  <2>4. r[i - 1] = s[i - 1] BY <2>2, <2>3
  <2>5. r[i] = s[i] BY <1>3, <1>4, <2>3, <2>4
  <2> QED BY <2>2, <2>5
<1>6. n \in 0 .. n BY <1>1
<1> QED BY <1>5, <1>6, AmongIsKept DEF r, s, n

\* What comes first in a sequence comes first among those of it that are kept.
LEMMA AmongOrder ==
  ASSUME NEW T, NEW ids \in Seq(T), NEW S, Once(ids),
         NEW i \in 1 .. Len(ids), NEW j \in 1 .. Len(ids), i < j,
         NEW a \in DOMAIN Among(ids, S), NEW b \in DOMAIN Among(ids, S),
         Among(ids, S)[a] = ids[i], Among(ids, S)[b] = ids[j]
  PROVE  a < b
<1> DEFINE c == Among(ids, S)
           u == SubSeq(ids, 1, i)
           v == SubSeq(ids, i + 1, Len(ids))
           cu == Among(u, S)
           cv == Among(v, S)
<1>1. i \in 0 .. Len(ids) /\ Len(ids) \in Nat /\ i \in Nat /\ j \in Nat OBVIOUS
<1>2. CutInTwo(T, ids, i, u, v) BY <1>1, CutIs
<1>3. c \in Seq(T) /\ Once(c) /\ ToSet(c) = ToSet(ids) \cap S
  <2>1. c \in Seq(T \cap S) /\ ToSet(c) = ToSet(ids) \cap S BY AmongIs
  <2> QED BY <2>1, AmongOnce
<1> HIDE DEF u, v
<1>4. /\ u \in Seq(T) /\ Len(u) = i /\ \A h \in 1 .. i : u[h] = ids[h]
      /\ v \in Seq(T) /\ Len(v) = Len(ids) - i /\ \A h \in 1 .. Len(ids) - i : v[h] = ids[i + h]
      /\ ids = u \o v
  BY <1>2 DEF CutInTwo
<1>5. c = cu \o cv BY <1>4, AmongConcat
<1>6. /\ cu \in Seq(T) /\ ToSet(cu) = ToSet(u) \cap S
      /\ cv \in Seq(T) /\ ToSet(cv) = ToSet(v) \cap S
  <2>1. cu \in Seq(T \cap S) /\ ToSet(cu) = ToSet(u) \cap S BY <1>4, AmongIs
  <2>2. cv \in Seq(T \cap S) /\ ToSet(cv) = ToSet(v) \cap S BY <1>4, AmongIs
  <2> QED BY <2>1, <2>2
<1>7. c[a] \in S /\ c[b] \in S /\ a \in DOMAIN c /\ b \in DOMAIN c
  <2>1. c[a] \in ToSet(c) /\ c[b] \in ToSet(c) BY DEF ToSet
  <2> QED BY <2>1, <1>3
<1>8. c[a] = ids[i] /\ c[b] = ids[j] OBVIOUS
<1> HIDE DEF c, cu, cv
<1>9. ids[i] \in ToSet(u)
  <2>1. i \in DOMAIN u /\ u[i] = ids[i] BY <1>1, <1>4
  <2> QED BY <2>1 DEF ToSet
<1>10. ids[j] \in ToSet(v)
  <2>1. j - i \in DOMAIN v /\ v[j - i] = ids[j]
    <3>1. j - i \in 1 .. Len(ids) - i /\ i + (j - i) = j BY <1>1
    <3> QED BY <3>1, <1>4
  <2> QED BY <2>1 DEF ToSet
<1>11. PICK x \in DOMAIN cu : cu[x] = ids[i] BY <1>6, <1>7, <1>8, <1>9 DEF ToSet
<1>12. PICK y \in DOMAIN cv : cv[y] = ids[j] BY <1>6, <1>7, <1>8, <1>10 DEF ToSet
<1>13. /\ Len(cu) \in Nat /\ Len(cv) \in Nat /\ x \in 1 .. Len(cu) /\ y \in 1 .. Len(cv)
       /\ DOMAIN c = 1 .. Len(cu) + Len(cv)
  BY <1>5, <1>6, <1>11, <1>12
<1>14. c[x] = ids[i] /\ c[Len(cu) + y] = ids[j] /\ x \in DOMAIN c /\ Len(cu) + y \in DOMAIN c
  BY <1>5, <1>6, <1>11, <1>12, <1>13
<1>15. a = x BY <1>3, <1>7, <1>8, <1>14 DEF Once
<1>16. b = Len(cu) + y BY <1>3, <1>7, <1>8, <1>14 DEF Once
<1> QED BY <1>13, <1>15, <1>16

\* Everything Compile works with, whatever it finds.
IsBuilt(g, chains, prefix, compiled) ==
  LET good == Destinations(g)
      main == MainPrefix(g, prefix)
      steps == Transforms(g, main)
      tails == Tails(g, chains, main)
  IN /\ chains = [i \in DOMAIN good |-> ChainTo(g, good[i])]
     /\ prefix = SharedPrefix(Middles(chains))
     /\ compiled = ToSet(steps) \union UNION {ToSet(tails[i]) : i \in DOMAIN tails}
     /\ Compile(g).errors = ErrorsOf(g, chains, prefix, compiled)
     /\ Compile(g).unused = UnusedOf(g, chains, compiled)

LEMMA BuiltIs ==
  ASSUME NEW g, Drawn(g), Destinations(g) # <<>>
  PROVE  \E chains, prefix, compiled : IsBuilt(g, chains, prefix, compiled)
<1> DEFINE good == Destinations(g)
           chains == Chains(g, good)
           prefix == SharedPrefix(Middles(chains))
           main == MainPrefix(g, prefix)
           steps == Transforms(g, main)
           tails == Tails(g, chains, main)
           compiled == ToSet(steps) \union UNION {ToSet(tails[i]) : i \in DOMAIN tails}
<1>1. Compile(g) = Compiled(g, good) BY DEF Compile, Given, Destinations
<1>a. good \in Seq(DOMAIN g.nodes)
  <2> DEFINE S == {s \in ToSet(MainSinks(g)) : ChainFault(g, s) = "none"}
  <2>1. good = Among(MainSinks(g), S) BY DEF Destinations
  <2>2. MainSinks(g) \in Seq(DOMAIN g.nodes) BY SinksAre
  <2> HIDE DEF S, good
  <2>3. good \in Seq(DOMAIN g.nodes \cap S) BY <2>1, <2>2, AmongIs
  <2> QED BY <2>3
<1>2. good # <<>> OBVIOUS
<1> HIDE DEF good
<1>3. Compiled(g, good) = Branches(g, good, chains, prefix)
  <2>1. Compiled(g, good) = Given(chains, LAMBDA c :
            Given(SharedPrefix(Middles(c)), LAMBDA p : Branches(g, good, c, p)))
    BY <1>2 DEF Compiled
  <2> HIDE DEF chains
  <2>2. Given(chains, LAMBDA c : Given(SharedPrefix(Middles(c)), LAMBDA p : Branches(g, good, c, p)))
          = Given(prefix, LAMBDA p : Branches(g, good, chains, p))
    BY DEF Given
  <2> HIDE DEF prefix
  <2>3. Given(prefix, LAMBDA p : Branches(g, good, chains, p)) = Branches(g, good, chains, prefix)
    BY DEF Given
  <2> QED BY <2>1, <2>2, <2>3
<1> HIDE DEF chains, prefix
<1>4. Branches(g, good, chains, prefix) = Assemble(g, good, chains, prefix, steps, tails)
  <2>1. Branches(g, good, chains, prefix)
          = Given(Transforms(g, main), LAMBDA s : Given(Tails(g, chains, main), LAMBDA t :
                     Assemble(g, good, chains, prefix, s, t)))
    BY DEF Branches
  <2> HIDE DEF main
  <2> QED BY <2>1 DEF Given
<1> HIDE DEF main, steps, tails
<1>5. /\ Compile(g).errors = ErrorsOf(g, chains, prefix, compiled)
      /\ Compile(g).unused = UnusedOf(g, chains, compiled)
  <2> HIDE DEF compiled
  <2>1. Compile(g) = Assemble(g, good, chains, prefix, steps, tails) BY <1>1, <1>3, <1>4
  <2> DEFINE e == ErrorsOf(g, chains, prefix, compiled)
             p == IF e # {} THEN NoPipeline
                  ELSE PipelineOf(g, good, chains, OfKind(g, prefix, "validation"), steps, tails)
  <2>2. Assemble(g, good, chains, prefix, steps, tails)
          = [pipeline |-> p, errors |-> e, unused |-> UnusedOf(g, chains, compiled)]
    BY DEF Assemble, compiled
  <2> HIDE DEF e, p
  <2>3. Compile(g).errors = e /\ Compile(g).unused = UnusedOf(g, chains, compiled) BY <2>1, <2>2
  <2> QED BY <2>3 DEF e
<1>6. chains = [i \in DOMAIN good |-> ChainTo(g, good[i])]
  <2>1. DOMAIN good = 1 .. Len(good) BY <1>a
  <2> QED BY <2>1, <1>a, ChainsAre DEF chains
<1>7. IsBuilt(g, chains, prefix, compiled)
  <2>1. prefix = SharedPrefix(Middles(chains)) BY DEF prefix
  <2>2. steps = Transforms(g, MainPrefix(g, prefix)) BY DEF steps, main
  <2>3. tails = Tails(g, chains, MainPrefix(g, prefix)) BY DEF tails, main
  <2> HIDE DEF compiled
  <2>4. compiled = ToSet(steps) \union UNION {ToSet(tails[i]) : i \in DOMAIN tails} BY DEF compiled
  <2> QED BY <1>5, <1>6, <2>1, <2>2, <2>3, <2>4 DEF IsBuilt, good
<1> QED BY <1>2, <1>7 DEF good

\* The destinations that reach a source, and their chains.
LEMMA DestinationsAre ==
  ASSUME NEW g, Drawn(g)
  PROVE  LET good == Destinations(g)
         IN /\ good \in Seq(DOMAIN g.nodes) /\ DOMAIN good = 1 .. Len(good) /\ Len(good) \in Nat
            /\ ToSet(good) = {s \in ToSet(MainSinks(g)) : ChainFault(g, s) = "none"}
            /\ \A i \in DOMAIN good :
                 LET ids == ChainToSink(g, good[i]).nodes
                     c == ChainTo(g, good[i])
                 IN IsChain(g, c, good[i]) /\ SourceChain(g, good[i], ids, c)
<1> DEFINE good == Destinations(g)
           S == {s \in ToSet(MainSinks(g)) : ChainFault(g, s) = "none"}
           D == DOMAIN g.nodes
<1>1. good = Among(MainSinks(g), S) BY DEF Destinations
<1>2. MainSinks(g) \in Seq(D) /\ ToSet(MainSinks(g)) \subseteq D BY SinksAre
<1> HIDE DEF good
<1>3. good \in Seq(D) /\ ToSet(good) = S
  <2> HIDE DEF S, D
  <2>1. good \in Seq(D \cap S) /\ ToSet(good) = ToSet(MainSinks(g)) \cap S BY <1>1, <1>2, AmongIs
  <2>2. S \subseteq ToSet(MainSinks(g)) BY DEF S
  <2> QED BY <2>1, <2>2
<1>4. DOMAIN good = 1 .. Len(good) /\ Len(good) \in Nat BY <1>3
<1>5. ASSUME NEW i \in DOMAIN good
      PROVE  /\ IsChain(g, ChainTo(g, good[i]), good[i])
             /\ SourceChain(g, good[i], ChainToSink(g, good[i]).nodes, ChainTo(g, good[i]))
  <2> DEFINE end == good[i]
  <2>1. end \in ToSet(good) BY DEF ToSet
  <2>2. end \in ToSet(MainSinks(g)) /\ ChainFault(g, end) = "none" /\ end \in D BY <2>1, <1>2, <1>3
  <2> HIDE DEF end
  <2>3. IsChain(g, ChainTo(g, end), end) BY <2>2, ChainIs
  <2> DEFINE walk == ChainToSink(g, end)
  <2>4. /\ FaultOf(g, walk) = "none" => SourceChain(g, end, walk.nodes, Alive(g, walk.nodes))
        /\ ChainFault(g, end) = FaultOf(g, walk) /\ ChainTo(g, end) = Alive(g, walk.nodes)
    BY <2>2, FaultIs
  <2>5. SourceChain(g, end, walk.nodes, ChainTo(g, end)) BY <2>2, <2>4
  <2> QED BY <2>3, <2>5 DEF end, walk
<1> QED BY <1>3, <1>4, <1>5 DEF good, S, D

LEMMA ChainsOf ==
  ASSUME NEW g, Drawn(g), NEW chains, NEW prefix, NEW compiled,
         IsBuilt(g, chains, prefix, compiled), Destinations(g) # <<>>
  PROVE  LET good == Destinations(g)
         IN /\ DOMAIN chains = DOMAIN good /\ 1 \in DOMAIN good
            /\ \A i \in DOMAIN good :
                 /\ chains[i] = ChainTo(g, good[i]) /\ IsChain(g, chains[i], good[i])
                 /\ SourceChain(g, good[i], ChainToSink(g, good[i]).nodes, chains[i])
                 /\ Middle(chains[i]) \in Middles(chains) /\ Begins(prefix, Middle(chains[i]))
            /\ prefix \in Seq(DOMAIN g.nodes)
<1> DEFINE good == Destinations(g)
           D == DOMAIN g.nodes
<1>1. chains = [i \in DOMAIN good |-> ChainTo(g, good[i])] /\ prefix = SharedPrefix(Middles(chains))
  BY DEF IsBuilt
<1>2. /\ good \in Seq(D) /\ DOMAIN good = 1 .. Len(good) /\ Len(good) \in Nat
      /\ \A i \in DOMAIN good :
           /\ IsChain(g, ChainTo(g, good[i]), good[i])
           /\ SourceChain(g, good[i], ChainToSink(g, good[i]).nodes, ChainTo(g, good[i]))
  BY DestinationsAre
<1>3. good # <<>> OBVIOUS
<1> HIDE DEF good
<1>4. 1 \in DOMAIN good BY <1>2, <1>3
<1>5. \A i \in DOMAIN good : chains[i] = ChainTo(g, good[i]) /\ Middle(chains[i]) \in Middles(chains)
  BY <1>1 DEF Middles
<1>6. Middles(chains) \in SUBSET Seq(D)
  <2> SUFFICES ASSUME NEW i \in DOMAIN good PROVE Middle(chains[i]) \in Seq(D) BY <1>1 DEF Middles
  <2>1. IsChain(g, chains[i], good[i]) BY <1>2, <1>5
  <2> QED BY <2>1, MiddleIs
<1>7. Middles(chains) # {} BY <1>4, <1>5
<1>8. prefix \in Seq(D) /\ \A s \in Middles(chains) : Begins(prefix, s)
  BY <1>1, <1>6, <1>7, SharedPrefixBegins
<1>9. DOMAIN chains = DOMAIN good BY <1>1
<1> QED BY <1>2, <1>4, <1>5, <1>8, <1>9 DEF good, D

\* The linter follows the same chains.
LEMMA SinkChainsAre ==
  ASSUME NEW g, Drawn(g), NEW chains, NEW prefix, NEW compiled,
         IsBuilt(g, chains, prefix, compiled)
  PROVE  SinkChains(g) = {chains[i] : i \in DOMAIN chains}
<1> DEFINE ends == {m \in DOMAIN g.nodes : Kind(g, m) = "sink" /\ ~ IsValidationSink(g.nodes[m])}
           good == Destinations(g)
           Reaches(c) == c # <<>> /\ Kind(g, c[1]) = "source"
<1>1. ends = ToSet(MainSinks(g))
  <2>1. \A n \in DOMAIN g.nodes : Kind(g, n) = "sink" => ~ g.nodes[n].muted
    BY DEF Drawn, IsGraph, IsBox, Kind
  <2> QED BY <2>1, SinksAre
<1>2. ASSUME NEW n \in ends
      PROVE  /\ Reaches(LinearChainTo(g, n)) <=> ChainFault(g, n) = "none"
             /\ ChainFault(g, n) = "none" => LinearChainTo(g, n) = ChainTo(g, n)
  <2> DEFINE walk == ChainToSink(g, n)
             ids == walk.nodes
             N == {m \in DOMAIN g.nodes : ~ g.nodes[m].muted}
             c == Alive(g, ids)
  <2>1. n \in DOMAIN g.nodes /\ Kind(g, n) = "sink" OBVIOUS
  <2>2. /\ FaultOf(g, walk) = "none" <=> walk.problem = "none" /\ c # <<>> /\ Kind(g, c[1]) = "source"
        /\ ChainFault(g, n) = FaultOf(g, walk) /\ ChainTo(g, n) = c
    BY <2>1, FaultIs
  <2>3. LinearChainTo(g, n) = IF walk.problem # "none" THEN <<>> ELSE Among(ids, N)
    BY DEF LinearChainTo
  <2>4. walk \in Walks(g, n) BY <2>1, ChainWalks
  <2> HIDE DEF walk, c
  <2>5. ASSUME walk.problem = "none" PROVE Among(ids, N) = c
    <3>1. LineTo(g, n, ids) BY <2>4, <2>5 DEF Walks
    <3>2. ids \in Seq(DOMAIN g.nodes) /\ ids[Len(ids)] = n BY <3>1 DEF LineTo
    <3>3. ASSUME NEW i \in DOMAIN ids PROVE Kind(g, ids[i]) # "note"
      <4> HIDE DEF ids
      <4>1. i \in 1 .. Len(ids) /\ Len(ids) \in Nat BY <3>2
      <4>2. \A j \in 1 .. Len(ids) - 1 : FeedsOn(g, ids[j]) BY <3>1, LineToIs
      <4>3. CASE i = Len(ids) BY <2>1, <3>2, <4>3
      <4>4. CASE i # Len(ids) BY <4>1, <4>2, <4>4 DEF FeedsOn
      <4> QED BY <4>3, <4>4
    <3>4. ToSet(ids) \cap N = ToSet(ids) \cap AliveIn(g) BY <3>3 DEF ToSet, AliveIn
    <3> HIDE DEF N, ids
    <3>5. Among(ids, N) = Among(ids, AliveIn(g)) BY <3>2, <3>4, AmongSame
    <3> QED BY <3>5 DEF c, Alive, AliveIn
  <2> QED BY <2>2, <2>3, <2>5
<1>3. SinkChains(g) = {c \in {LinearChainTo(g, n) : n \in ends} : Reaches(c)} BY DEF SinkChains
<1>4. SinkChains(g) = {ChainTo(g, n) : n \in {m \in ends : ChainFault(g, m) = "none"}}
  <2> HIDE DEF ends, Reaches
  <2> QED BY <1>2, <1>3
<1>5. ToSet(good) = {m \in ends : ChainFault(g, m) = "none"} BY <1>1, DestinationsAre
<1>6. chains = [i \in DOMAIN good |-> ChainTo(g, good[i])] BY DEF IsBuilt
<1> HIDE DEF good, ends
<1>7. {ChainTo(g, n) : n \in ToSet(good)} = {chains[i] : i \in DOMAIN chains} BY <1>6 DEF ToSet
<1> QED BY <1>4, <1>5, <1>7

LEMMA TrunkIs ==
  ASSUME NEW g, Drawn(g), NEW chains, NEW prefix, NEW compiled,
         IsBuilt(g, chains, prefix, compiled), Destinations(g) # <<>>
  PROVE  /\ \A n \in Trunk(g) : Kind(g, n) = "source" \/ n \in ToSet(prefix)
         /\ ToSet(prefix) \subseteq Trunk(g)
<1>1. SinkChains(g) = {chains[i] : i \in DOMAIN chains} BY SinkChainsAre
<1>2. {Middle(c) : c \in SinkChains(g)} = Middles(chains) BY <1>1 DEF Middles
<1>3. prefix = SharedPrefix(Middles(chains)) BY DEF IsBuilt
<1>4. Trunk(g) = {c[1] : c \in SinkChains(g)} \union ToSet(prefix)
  <2>1. 1 \in DOMAIN chains BY ChainsOf
  <2>2. SinkChains(g) # {} BY <1>1, <2>1
  <2> QED BY <1>2, <1>3, <2>2 DEF Trunk
<1>5. \A c \in SinkChains(g) : Kind(g, c[1]) = "source" BY DEF SinkChains
<1> QED BY <1>4, <1>5
-----------------------------------------------------------------------------
(* What is above a box. *)

AboveIs(g, ids, above) ==
  above = [i \in 0 .. Cardinality(DOMAIN g.nodes) |->
             IF i = 0 THEN ids ELSE Given(above[i - 1], LAMBDA so_far : Above(g, so_far))]

LEMMA AboveSteps ==
  ASSUME NEW g, Drawn(g), NEW ids \in SUBSET DOMAIN g.nodes
  PROVE  LET n == Cardinality(DOMAIN g.nodes)
         IN /\ n \in Nat
            /\ \E above : /\ Ancestors(g, ids) = above[n]
                          /\ \A k \in 0 .. n : above[k] = IF k = 0 THEN ids ELSE Above(g, above[k - 1])
<1> DEFINE n == Cardinality(DOMAIN g.nodes)
           D == SUBSET DOMAIN g.nodes
           step == [p \in (1 .. n) \X D |-> Above(g, p[2])]
           above == CHOOSE w : AboveIs(g, ids, w)
<1>1. n \in Nat BY BoxesAre
<1>2. ids \in D OBVIOUS
<1>3. step \in [(1 .. n) \X D -> D]
  <2>1. \A p \in (1 .. n) \X D : p[2] \in D OBVIOUS
  <2>2. \A w \in D : Above(g, w) \in D BY FeederFeeds DEF Above
  <2> HIDE DEF D
  <2> QED BY <2>1, <2>2
<1>4. \A k \in 1 .. n, w \in D : step[<<k, w>>] = Above(g, w) OBVIOUS
<1>5. \A w : Given(w, LAMBDA v : Above(g, v)) = Above(g, w) BY DEF Given
<1> HIDE DEF step, D
<1>6. PICK u \in [0 .. n -> D] : Iterates(n, ids, step, u) BY <1>1, <1>2, <1>3, IterationExists
<1>7. AboveIs(g, ids, u)
  <2>1. u = [k \in 0 .. n |-> u[k]] OBVIOUS
  <2>2. \A k \in 0 .. n : u[k] = IF k = 0 THEN ids ELSE step[<<k, u[k - 1]>>] BY <1>6 DEF Iterates
  <2>3. \A k \in 0 .. n : k # 0 => k \in 1 .. n /\ u[k - 1] \in D BY <1>1
  <2> HIDE DEF n
  <2>4. \A k \in 0 .. n : u[k] = IF k = 0 THEN ids ELSE Above(g, u[k - 1]) BY <2>2, <2>3, <1>4
  <2>5. \A k \in 0 .. n : u[k] = IF k = 0 THEN ids ELSE Given(u[k - 1], LAMBDA so_far : Above(g, so_far))
    BY <2>4, <1>5
  <2> QED BY <2>1, <2>5 DEF AboveIs, n
<1>8. AboveIs(g, ids, above) BY <1>7
<1>9. Ancestors(g, ids) = above[n] BY DEF Ancestors, AboveIs
<1> HIDE DEF above
<1>10. \A k \in 0 .. n : above[k] = IF k = 0 THEN ids ELSE Above(g, above[k - 1])
  <2>1. \A k \in 0 .. n : above[k] = IF k = 0 THEN ids ELSE Given(above[k - 1], LAMBDA so_far : Above(g, so_far))
    BY <1>8 DEF AboveIs
  <2> QED BY <2>1, <1>5
<1> QED BY <1>1, <1>9, <1>10

\* The boxes of a line are above its last one.
LEMMA LineIsAbove ==
  ASSUME NEW g, Drawn(g), NEW end \in DOMAIN g.nodes, NEW ids, LineTo(g, end, ids)
  PROVE  ToSet(ids) \subseteq Ancestors(g, {end})
<1> DEFINE n == Cardinality(DOMAIN g.nodes)
           m == Len(ids)
<1>1. /\ n \in Nat
      /\ \E above : /\ Ancestors(g, {end}) = above[n]
                    /\ \A k \in 0 .. n : above[k] = IF k = 0 THEN {end} ELSE Above(g, above[k - 1])
  BY AboveSteps
<1>2. m \in Nat /\ m >= 1 /\ m <= n /\ DOMAIN ids = 1 .. m BY LineToIs, LineFits
<1>3. ids[m] = end /\ \A i \in 1 .. m - 1 : [from |-> ids[i], to |-> ids[i + 1], at |-> "in"] \in g.links
  BY DEF LineTo
<1> HIDE DEF n, m
<1>4. PICK above : /\ Ancestors(g, {end}) = above[n]
                   /\ \A k \in 0 .. n : above[k] = IF k = 0 THEN {end} ELSE Above(g, above[k - 1])
  BY <1>1
<1>5. \A k \in 0 .. n : above[k] \subseteq above[n]
  <2> DEFINE Bad == {k \in 0 .. n : ~ above[n - k] \subseteq above[n]}
  <2>1. Bad = {}
    <3> SUFFICES ASSUME Bad # {} PROVE FALSE OBVIOUS
    <3>1. Bad \subseteq Nat BY <1>1
    <3>2. PICK k \in Bad : \A h \in Bad : k <= h BY <3>1, Least
    <3>3. k \in 0 .. n /\ ~ above[n - k] \subseteq above[n] OBVIOUS
    <3>4. k # 0 BY <1>1, <3>3
    <3>5. k - 1 \in 0 .. n /\ ~ k <= k - 1 BY <3>3, <3>4, <1>1
    <3>6. above[n - (k - 1)] \subseteq above[n] BY <3>2, <3>5
    <3>7. n - (k - 1) \in 0 .. n /\ n - (k - 1) # 0 /\ (n - (k - 1)) - 1 = n - k BY <1>1, <3>3, <3>4
    <3>8. above[n - (k - 1)] = Above(g, above[n - k]) BY <1>4, <3>7
    <3>9. above[n - k] \subseteq above[n - (k - 1)] BY <3>8 DEF Above
    <3> QED BY <3>3, <3>6, <3>9
  <2> TAKE k \in 0 .. n
  <2>2. n - k \in 0 .. n /\ n - (n - k) = k BY <1>1
  <2>3. above[n - (n - k)] \subseteq above[n] BY <2>1, <2>2
  <2> QED BY <2>2, <2>3
<1> DEFINE Bad == {k \in 0 .. m - 1 : ids[m - k] \notin above[k]}
<1>6. Bad = {}
  <2> SUFFICES ASSUME Bad # {} PROVE FALSE OBVIOUS
  <2>1. Bad \subseteq Nat BY <1>2
  <2>2. PICK k \in Bad : \A h \in Bad : k <= h BY <2>1, Least
  <2>3. k \in 0 .. m - 1 /\ ids[m - k] \notin above[k] OBVIOUS
  <2>4. k # 0
    <3>1. 0 \in 0 .. n /\ m - 0 = m BY <1>1, <1>2
    <3>2. above[0] = {end} BY <1>4, <3>1
    <3> QED BY <1>3, <2>3, <3>1, <3>2
  <2>5. k - 1 \in 0 .. m - 1 /\ ~ k <= k - 1 BY <2>3, <2>4, <1>2
  <2>6. ids[m - (k - 1)] \in above[k - 1] BY <2>2, <2>5
  <2>7. m - k \in 1 .. m - 1 /\ (m - k) + 1 = m - (k - 1) /\ k \in 0 .. n BY <1>1, <1>2, <2>3, <2>4
  <2> DEFINE l == [from |-> ids[m - k], to |-> ids[(m - k) + 1], at |-> "in"]
  <2>8. l \in g.links /\ l.from = ids[m - k] /\ l.to = ids[m - (k - 1)] BY <1>3, <2>7
  <2>9. above[k] = Above(g, above[k - 1]) BY <1>4, <2>4, <2>7
  <2> HIDE DEF l
  <2>10. ids[m - k] \in Above(g, above[k - 1]) BY <2>6, <2>8 DEF Above
  <2> QED BY <2>3, <2>9, <2>10
<1>7. ASSUME NEW i \in 1 .. m PROVE ids[i] \in above[n]
  <2>1. m - i \in 0 .. m - 1 /\ m - (m - i) = i /\ m - i \in 0 .. n BY <1>1, <1>2
  <2>2. ids[m - (m - i)] \in above[m - i] BY <1>6, <2>1
  <2> QED BY <1>5, <2>1, <2>2
<1> QED BY <1>2, <1>4, <1>7 DEF ToSet

\* With no second input on a line from a source, nothing else is above its last box.
LEMMA NothingBeside ==
  ASSUME NEW g, Drawn(g), NEW end \in DOMAIN g.nodes, FeedsOn(g, end), NEW ids, FromSource(g, end, ids),
         \A i \in 1 .. Len(ids) : "inRight" \notin Inputs(g.nodes[ids[i]])
  PROVE  Ancestors(g, {end}) \subseteq ToSet(ids)
<1> DEFINE n == Cardinality(DOMAIN g.nodes)
           m == Len(ids)
<1>1. /\ n \in Nat
      /\ \E above : /\ Ancestors(g, {end}) = above[n]
                    /\ \A k \in 0 .. n : above[k] = IF k = 0 THEN {end} ELSE Above(g, above[k - 1])
  <2>1. {end} \in SUBSET DOMAIN g.nodes OBVIOUS
  <2> HIDE DEF n
  <2> QED BY <2>1, AboveSteps DEF n
<1>2. LineTo(g, end, ids) /\ Kind(g, ids[1]) = "source" /\ ids[m] = end BY DEF FromSource, LineTo
<1>3. /\ m \in Nat /\ m >= 1 /\ DOMAIN ids = 1 .. m
      /\ \A i \in 1 .. m : ids[i] \in DOMAIN g.nodes
      /\ \A i \in 1 .. m - 1 : FeedsOn(g, ids[i])
      /\ \A i \in 2 .. m : ParentsOn(g, ids[i], "in") = {ids[i - 1]}
  BY <1>2, LineToIs
<1> HIDE DEF n
<1>4. PICK above : /\ Ancestors(g, {end}) = above[n]
                   /\ \A k \in 0 .. n : above[k] = IF k = 0 THEN {end} ELSE Above(g, above[k - 1])
  BY <1>1
<1>5. \A i \in 1 .. m : FeedsOn(g, ids[i])
  <2> TAKE i \in 1 .. m
  <2>1. i # m => i \in 1 .. m - 1
    <3>1. m \in Nat BY <1>3
    <3> HIDE DEF m
    <3> QED BY <3>1
  <2> QED BY <1>2, <1>3, <2>1
<1>6. ASSUME NEW S, S \subseteq ToSet(ids) PROVE Above(g, S) \subseteq ToSet(ids)
  <2> SUFFICES ASSUME NEW l \in g.links, l.to \in S PROVE l.from \in ToSet(ids) BY <1>6 DEF Above
  <2>1. PICK i \in 1 .. m : l.to = ids[i] BY <1>3, <1>6 DEF ToSet
  <2>2. l.at \in Inputs(g.nodes[ids[i]]) BY <2>1 DEF Drawn, Sound, LinksAreAllowed
  <2>3. ids[i] \in DOMAIN g.nodes /\ FeedsOn(g, ids[i]) BY <1>3, <1>5
  <2>4. l.at # "inScope"
    <3>1. g.nodes[ids[i]].role # "none" => Kind(g, ids[i]) = "sink"
      BY <2>3 DEF Drawn, IsGraph, IsBox, Kind
    <3> QED BY <2>2, <2>3, <3>1 DEF Inputs, FeedsOn, Kind
  <2>5. l.at = "in" BY <2>2, <2>4 DEF Inputs
  <2>6. i # 1 BY <1>2, <2>1, SourceIsFirst
  <2>7. i \in 2 .. m /\ i - 1 \in 1 .. m BY <2>6, <1>3
  <2>8. l = [from |-> l.from, to |-> ids[i], at |-> "in"]
    <3>1. l \in [from: Nat, to: Nat, at: Handle] BY DEF Drawn, IsGraph
    <3> QED BY <3>1, <2>1, <2>5
  <2>9. ParentsOn(g, ids[i], "in") = {l.from}
    <3>1. [from |-> l.from, to |-> ids[i], at |-> "in"] \in g.links BY <2>8
    <3> QED BY <3>1, ParentIs
  <2>10. l.from = ids[i - 1] BY <1>3, <2>7, <2>9
  <2> QED BY <2>7, <2>10, <1>3 DEF ToSet
<1>7. {end} \subseteq ToSet(ids)
  <2>1. m \in DOMAIN ids BY <1>3
  <2> QED BY <1>2, <2>1 DEF ToSet
<1> HIDE DEF m
<1> DEFINE Bad == {k \in 0 .. n : ~ above[k] \subseteq ToSet(ids)}
<1>8. Bad = {}
  <2> SUFFICES ASSUME Bad # {} PROVE FALSE OBVIOUS
  <2>1. Bad \subseteq Nat BY <1>1
  <2>2. PICK k \in Bad : \A h \in Bad : k <= h BY <2>1, Least
  <2>3. k \in 0 .. n /\ ~ above[k] \subseteq ToSet(ids) OBVIOUS
  <2>4. k # 0 BY <1>4, <1>7, <2>3
  <2>5. k - 1 \in 0 .. n /\ ~ k <= k - 1 BY <2>3, <2>4, <1>1
  <2>6. above[k - 1] \subseteq ToSet(ids) BY <2>2, <2>5
  <2>7. above[k] = Above(g, above[k - 1]) BY <1>4, <2>3, <2>4
  <2> QED BY <2>3, <2>6, <2>7, <1>6
<1>9. n \in 0 .. n BY <1>1
<1> QED BY <1>4, <1>8, <1>9
-----------------------------------------------------------------------------
(* What second inputs compile to. *)

SecondBody(g, second, n, stack) ==
  CompileSecond(g, n, stack,
    Given(SecondRest(g, n), LAMBDA rest :
      <<>> \o [i \in DOMAIN rest |->
                 CompiledWith(g, rest[i], second[<<rest[i], stack \union {n}>>])]))

LEMMA SideWalkIs ==
  ASSUME NEW g, Drawn(g), NEW n, ParentsOn(g, n, "inRight") # {}
  PROVE  \E m \in DOMAIN g.nodes :
           LET walk == ChainToSink(g, m)
               c == Alive(g, walk.nodes)
           IN /\ [from |-> m, to |-> n, at |-> "inRight"] \in g.links
              /\ ParentsOn(g, n, "inRight") = {m} /\ SecondWalk(g, n) = walk
              /\ SecondRest(g, n) = SubSeq(c, 2, Len(c)) /\ c \in Seq(DOMAIN g.nodes)
              /\ SecondRest(g, n) \in Seq(DOMAIN g.nodes)
<1> DEFINE P == ParentsOn(g, n, "inRight")
           m == CHOOSE x \in P : TRUE
           walk == ChainToSink(g, m)
           c == Alive(g, walk.nodes)
           rest == SubSeq(c, 2, Len(c))
<1>1. m \in P OBVIOUS
<1>2. SecondWalk(g, n) = walk BY DEF SecondWalk
<1> HIDE DEF m
<1>3. m \in DOMAIN g.nodes /\ [from |-> m, to |-> n, at |-> "inRight"] \in g.links
  BY <1>1 DEF ParentsOn
<1>4. P = {m} BY <1>3, ParentIs
<1>5. SecondRest(g, n) = rest BY <1>2 DEF SecondRest, Given
<1>6. c \in Seq(DOMAIN g.nodes)
  <2>1. walk \in Walks(g, m) BY <1>3, ChainWalks
  <2> HIDE DEF walk
  <2>2. walk.nodes \in Seq(DOMAIN g.nodes) BY <2>1 DEF Walks, LineTo
  <2>3. c = Among(walk.nodes, AliveIn(g)) BY DEF Alive, AliveIn
  <2>4. c \in Seq(DOMAIN g.nodes \cap AliveIn(g)) BY <2>2, <2>3, AmongIs
  <2> QED BY <2>4
<1> HIDE DEF walk, c, P
<1>7. rest \in Seq(DOMAIN g.nodes)
  <2> DEFINE D == DOMAIN g.nodes
  <2>1. c \in Seq(D) BY <1>6
  <2> HIDE DEF D
  <2>2. rest \in Seq(D) BY <2>1
  <2> QED BY <2>2 DEF D
<1> QED BY <1>2, <1>3, <1>4, <1>5, <1>6, <1>7 DEF walk, c, P

LEMMA BodyAgrees ==
  ASSUME NEW g, Drawn(g), NEW n, NEW stack, NEW u, NEW v,
         n \notin stack => \A m \in DOMAIN g.nodes :
                             u[<<m, stack \union {n}>>] = v[<<m, stack \union {n}>>]
  PROVE  SecondBody(g, u, n, stack) = SecondBody(g, v, n, stack)
<1> DEFINE rest == SecondRest(g, n)
           Steps(w) == <<>> \o [i \in DOMAIN rest |-> CompiledWith(g, rest[i], w[<<rest[i], stack \union {n}>>])]
<1>1. \A w : SecondBody(g, w, n, stack) = CompileSecond(g, n, stack, Steps(w)) BY DEF SecondBody, Given
<1> HIDE DEF Steps
<1>2. CASE What(g, n) \notin Dual \/ n \in stack BY <1>1, <1>2 DEF CompileSecond
<1>3. CASE ParentsOn(g, n, "inRight") = {} BY <1>1, <1>3 DEF CompileSecond, CompileSideInput
<1>4. CASE n \notin stack /\ ParentsOn(g, n, "inRight") # {}
  <2>1. rest \in Seq(DOMAIN g.nodes) BY <1>4, SideWalkIs
  <2> HIDE DEF rest
  <2>2. \A i \in DOMAIN rest : rest[i] \in DOMAIN g.nodes BY <2>1
  <2>3. \A i \in DOMAIN rest : u[<<rest[i], stack \union {n}>>] = v[<<rest[i], stack \union {n}>>]
    BY <1>4, <2>2
  <2>4. Steps(u) = Steps(v) BY <2>3 DEF Steps
  <2> QED BY <1>1, <2>4
<1> QED BY <1>2, <1>3, <1>4

LEMMA StackGrows ==
  ASSUME NEW g, Drawn(g), NEW stack \in SUBSET DOMAIN g.nodes, NEW n \in DOMAIN g.nodes
  PROVE  LET left == Cardinality(DOMAIN g.nodes \ stack)
         IN /\ left \in 0 .. Cardinality(DOMAIN g.nodes)
            /\ n \notin stack => /\ left # 0 /\ stack \union {n} \in SUBSET DOMAIN g.nodes
                                 /\ Cardinality(DOMAIN g.nodes \ (stack \union {n})) = left - 1
<1> DEFINE D == DOMAIN g.nodes
           S == D \ stack
<1>1. IsFiniteSet(D) BY BoxesAre
<1>2. S \subseteq D /\ IsFiniteSet(S) /\ Cardinality(S) <= Cardinality(D) BY <1>1, FS_Subset
<1>3. Cardinality(S) \in Nat /\ Cardinality(D) \in Nat BY <1>1, <1>2, FS_CardinalityType
<1>4. ASSUME n \notin stack PROVE Cardinality(D \ (stack \union {n})) = Cardinality(S) - 1 /\ Cardinality(S) # 0
  <2>1. n \in S /\ D \ (stack \union {n}) = S \ {n} BY <1>4
  <2> HIDE DEF S
  <2>2. Cardinality(S \ {n}) = Cardinality(S) - 1 BY <1>2, <2>1, FS_RemoveElement
  <2>3. Cardinality(S) # 0 BY <1>2, <2>1, FS_EmptySet
  <2> QED BY <2>1, <2>2, <2>3
<1>5. n \notin stack => stack \union {n} \in SUBSET D OBVIOUS
<1> QED BY <1>2, <1>3, <1>4, <1>5

\* A second input is compiled under a larger stack, so the boxes off the stack are fewer.
Under(g, k) ==
  {at \in (DOMAIN g.nodes) \X (SUBSET DOMAIN g.nodes) : Cardinality(DOMAIN g.nodes \ at[2]) <= k}
SecondsUpTo(g, k, second) ==
  second = [at \in Under(g, k) |-> SecondBody(g, second, at[1], at[2])]

LEMMA SecondsExist ==
  ASSUME NEW g, Drawn(g), NEW k \in Nat
  PROVE  \E second : SecondsUpTo(g, k, second)
<1> DEFINE Bad == {h \in Nat : \A second : ~ SecondsUpTo(g, h, second)}
<1>1. SUFFICES ASSUME Bad # {} PROVE FALSE OBVIOUS
<1>2. PICK h \in Bad : \A j \in Bad : h <= j
  <2>1. Bad \subseteq Nat OBVIOUS
  <2> HIDE DEF Bad
  <2> QED BY <1>1, <2>1, Least
<1>3. h \in Nat /\ \A second : ~ SecondsUpTo(g, h, second) OBVIOUS
<1>4. \E v : h # 0 => SecondsUpTo(g, h - 1, v)
  <2>1. CASE h = 0 BY <2>1
  <2>2. CASE h # 0
    <3>1. h - 1 \in Nat /\ ~ h <= h - 1 BY <1>3, <2>2
    <3>2. h - 1 \notin Bad BY <1>2, <3>1
    <3> QED BY <3>1, <3>2
  <2> QED BY <2>1, <2>2
<1>5. PICK v : h # 0 => SecondsUpTo(g, h - 1, v) BY <1>4
<1> HIDE DEF Bad
<1> DEFINE w == [at \in Under(g, h) |-> SecondBody(g, v, at[1], at[2])]
<1>6. ASSUME NEW n \in DOMAIN g.nodes, NEW stack \in SUBSET DOMAIN g.nodes, <<n, stack>> \in Under(g, h)
      PROVE  SecondBody(g, v, n, stack) = SecondBody(g, w, n, stack)
  <2> DEFINE left == Cardinality(DOMAIN g.nodes \ stack)
             more == stack \union {n}
  <2>1. left <= h BY <1>6 DEF Under
  <2>2. ASSUME n \notin stack PROVE \A m \in DOMAIN g.nodes : v[<<m, more>>] = w[<<m, more>>]
    <3>1. /\ left # 0 /\ left \in Nat /\ more \in SUBSET DOMAIN g.nodes
          /\ Cardinality(DOMAIN g.nodes \ more) = left - 1
      <4>1. left \in 0 .. Cardinality(DOMAIN g.nodes) BY StackGrows
      <4> QED BY <2>2, <4>1, StackGrows
    <3> HIDE DEF left, more
    <3>2. h # 0 /\ left - 1 <= h - 1 /\ left - 1 <= h BY <1>3, <2>1, <3>1
    <3> TAKE m \in DOMAIN g.nodes
    <3>3. <<m, more>> \in Under(g, h - 1) /\ <<m, more>> \in Under(g, h) BY <3>1, <3>2 DEF Under
    <3>4. v[<<m, more>>] = SecondBody(g, v, m, more)
      <4>1. SecondsUpTo(g, h - 1, v) BY <1>5, <3>2
      <4>2. v = [at \in Under(g, h - 1) |-> SecondBody(g, v, at[1], at[2])] BY <4>1 DEF SecondsUpTo
      <4> QED BY <3>3, <4>2
    <3>5. w[<<m, more>>] = SecondBody(g, v, m, more) BY <3>3
    <3> QED BY <3>4, <3>5
  <2> HIDE DEF w
  <2> QED BY <2>2, BodyAgrees
<1>7. SecondsUpTo(g, h, w)
  <2>1. ASSUME NEW at \in Under(g, h)
        PROVE  SecondBody(g, v, at[1], at[2]) = SecondBody(g, w, at[1], at[2])
    <3>1. at[1] \in DOMAIN g.nodes /\ at[2] \in SUBSET DOMAIN g.nodes /\ at = <<at[1], at[2]>>
      BY DEF Under
    <3> HIDE DEF w
    <3> QED BY <1>6, <3>1
  <2>2. w = [at \in Under(g, h) |-> SecondBody(g, v, at[1], at[2])] OBVIOUS
  <2> HIDE DEF w
  <2>3. w = [at \in Under(g, h) |-> SecondBody(g, w, at[1], at[2])] BY <2>1, <2>2
  <2> QED BY <2>3 DEF SecondsUpTo
<1> QED BY <1>3, <1>7

SecondsIs(g, second) ==
  second = [at \in (DOMAIN g.nodes) \X (SUBSET DOMAIN g.nodes) |-> SecondBody(g, second, at[1], at[2])]

LEMMA SecondsAre ==
  ASSUME NEW g, Drawn(g), NEW n \in DOMAIN g.nodes, NEW stack \in SUBSET DOMAIN g.nodes
  PROVE  Seconds(g)[<<n, stack>>] = SecondBody(g, Seconds(g), n, stack)
<1> DEFINE D == DOMAIN g.nodes
           k == Cardinality(D)
           second == CHOOSE f : SecondsIs(g, f)
<1>1. k \in Nat BY BoxesAre
<1>2. Under(g, k) = D \X (SUBSET D)
  <2>1. ASSUME NEW at \in D \X (SUBSET D) PROVE Cardinality(D \ at[2]) <= k
    <3>1. at[2] \in SUBSET D BY <2>1
    <3>2. IsFiniteSet(D) /\ D \ at[2] \in SUBSET D BY BoxesAre
    <3> HIDE DEF D
    <3> QED BY <3>2, FS_Subset DEF k
  <2> QED BY <2>1 DEF Under
<1>3. SecondsIs(g, second)
  <2>1. PICK f : SecondsUpTo(g, k, f) BY <1>1, SecondsExist
  <2> HIDE DEF k
  <2>2. SecondsIs(g, f) BY <2>1, <1>2 DEF SecondsUpTo, SecondsIs
  <2> QED BY <2>2
<1>4. Seconds(g) = second BY DEF Seconds, SecondsIs, SecondBody
<1> HIDE DEF second, k
<1>5. second = [at \in D \X (SUBSET D) |-> SecondBody(g, second, at[1], at[2])] BY <1>3 DEF SecondsIs
<1>6. <<n, stack>> \in D \X (SUBSET D) OBVIOUS
<1> HIDE DEF D
<1>7. second[<<n, stack>>] = SecondBody(g, second, n, stack) BY <1>5, <1>6
<1> QED BY <1>4, <1>7

-----------------------------------------------------------------------------
(* A walk back always ends at a box that nothing feeds. *)

\* Each step goes one box further, up to a box that nothing feeds.
LEMMA StepGoes ==
  ASSUME NEW g, Drawn(g), NEW end, NEW w \in Walks(g, end), w.problem = "none"
  PROVE  /\ w.nodes \in Seq(DOMAIN g.nodes) /\ w.nodes # <<>> /\ StepOn(g, w).problem = "none"
         /\ ParentsOn(g, w.nodes[1], "in") = {} => StepOn(g, w) = w
         /\ ParentsOn(g, w.nodes[1], "in") # {} => Len(StepOn(g, w).nodes) = Len(w.nodes) + 1
<1> DEFINE ids == w.nodes
           D == DOMAIN g.nodes
           P == ParentsOn(g, ids[1], "in")
<1>1. LineTo(g, end, ids) /\ ids \in Seq(D) /\ ids # <<>> /\ Once(ids) BY DEF Walks, LineTo
<1>2. Len(ids) \in Nat /\ Len(ids) >= 1 /\ DOMAIN ids = 1 .. Len(ids) /\ \A i \in 1 .. Len(ids) : ids[i] \in D
  BY <1>1, LineToIs
<1>3. Head(ids) = ids[1]
  <2> HIDE DEF ids, D
  <2> QED BY <1>1
<1>4. StepOn(g, w) = IF P = {} THEN w
                     ELSE IF Cardinality(P) > 1 THEN [nodes |-> <<>>, problem |-> "multiple-parents"]
                     ELSE IF P \subseteq ToSet(ids) THEN [nodes |-> <<>>, problem |-> "cycle"]
                     ELSE [w EXCEPT !.nodes = <<Max(P)>> \o ids]
  BY <1>3 DEF StepOn, StepBack
<1>5. w = [nodes |-> ids, problem |-> "none"] BY DEF Walks
<1>6. CASE P = {} BY <1>1, <1>4, <1>6
<1>7. CASE P # {}
  <2>1. PICK m : m \in P BY <1>7
  <2> DEFINE l == [from |-> m, to |-> ids[1], at |-> "in"]
  <2>2. m \in D /\ l \in g.links BY <2>1 DEF ParentsOn
  <2>3. P = {m} BY <2>2, ParentIs
  <2>4. l.from = m /\ l.to = ids[1] OBVIOUS
  <2> HIDE DEF P, l
  <2>5. ~ Cardinality(P) > 1 /\ P # {} /\ IsFiniteSet(P)
    <3>1. Cardinality(P) = 1 /\ IsFiniteSet(P) BY <2>3, FS_Singleton
    <3> QED BY <1>7, <3>1
  <2>6. Max(P) = m
    <3>1. P \subseteq Nat BY <2>2, <2>3, BoxesAre
    <3>2. P = {Max(P)} BY <2>5, <3>1, OneParent
    <3> QED BY <2>3, <3>2
  <2>7. m \notin ToSet(ids)
    <3> SUFFICES ASSUME m \in ToSet(ids) PROVE FALSE OBVIOUS
    <3> DEFINE S == ToSet(ids)
    <3>1. S \in SUBSET D /\ S # {} BY <1>2 DEF ToSet
    <3>2. \A i \in 2 .. Len(ids) : [from |-> ids[i - 1], to |-> ids[i], at |-> "in"] \in g.links
      <4> TAKE i \in 2 .. Len(ids)
      <4>1. i - 1 \in 1 .. Len(ids) - 1 /\ (i - 1) + 1 = i BY <1>2
      <4>2. \A h \in 1 .. Len(ids) - 1 : [from |-> ids[h], to |-> ids[h + 1], at |-> "in"] \in g.links
        BY <1>1 DEF LineTo
      <4>3. [from |-> ids[i - 1], to |-> ids[(i - 1) + 1], at |-> "in"] \in g.links BY <4>1, <4>2
      <4> QED BY <4>1, <4>3
    <3>3. ASSUME NEW i \in 1 .. Len(ids) PROVE \E k \in g.links : k.to = ids[i] /\ k.from \in S
      <4>1. CASE i = 1 BY <2>2, <2>4, <4>1
      <4>2. CASE i # 1
        <5>1. i \in 2 .. Len(ids) /\ i - 1 \in 1 .. Len(ids) BY <1>2, <4>2
        <5> DEFINE k == [from |-> ids[i - 1], to |-> ids[i], at |-> "in"]
        <5>2. k \in g.links /\ k.to = ids[i] /\ k.from = ids[i - 1] BY <3>2, <5>1
        <5>3. ids[i - 1] \in S BY <1>2, <5>1 DEF ToSet
        <5> HIDE DEF k, S
        <5> QED BY <5>2, <5>3
      <4> QED BY <4>1, <4>2
    <3>4. \A n \in S : \E k \in g.links : k.to = n /\ k.from \in S BY <1>2, <3>3 DEF ToSet
    <3> HIDE DEF S
    <3>5. \E n \in S : \A k \in g.links : k.to = n => k.from \notin S
      BY <3>1 DEF Drawn, Sound, Acyclic
    <3> QED BY <3>4, <3>5
  <2>8. ~ P \subseteq ToSet(ids) BY <2>3, <2>7
  <2>9. StepOn(g, w) = [w EXCEPT !.nodes = <<m>> \o ids] BY <1>4, <2>5, <2>6, <2>8
  <2> HIDE DEF ids
  <2>10. StepOn(g, w) = [nodes |-> <<m>> \o ids, problem |-> "none"] BY <1>5, <2>9
  <2>11. Len(<<m>> \o ids) = Len(ids) + 1
    <3> HIDE DEF D
    <3> QED BY <1>1, <2>2, PrependIs
  <2> QED BY <1>1, <1>7, <2>10, <2>11 DEF P, ids
<1> QED BY <1>6, <1>7

\* So a walk of a graph that is drawn never fails; at most it finds no source.
LEMMA WalkEnds ==
  ASSUME NEW g, Drawn(g), NEW end \in DOMAIN g.nodes
  PROVE  LET walk == ChainToSink(g, end)
         IN /\ walk.problem = "none" /\ LineTo(g, end, walk.nodes)
            /\ ParentsOn(g, walk.nodes[1], "in") = {}
<1> DEFINE n == Cardinality(DOMAIN g.nodes)
           W == Walks(g, end)
           start == [nodes |-> <<end>>, problem |-> "none"]
           Fed(w) == ParentsOn(g, w.nodes[1], "in") # {}
           Good(w, k) == /\ w \in W /\ w.problem = "none" /\ Len(w.nodes) \in Nat
                         /\ Fed(w) => Len(w.nodes) = k + 1
<1>1. /\ n \in Nat /\ start \in W
      /\ \E walk : /\ ChainToSink(g, end) = walk[n]
                   /\ \A k \in 0 .. n : walk[k] = IF k = 0 THEN start ELSE StepOn(g, walk[k - 1])
  BY WalkSteps
<1>2. start.problem = "none" /\ Len(start.nodes) = 1 OBVIOUS
<1>3. \A w \in W : w.problem = "none" => LineTo(g, end, w.nodes) BY DEF Walks
<1>4. ASSUME NEW w \in W, w.problem = "none"
      PROVE  /\ StepOn(g, w) \in W /\ StepOn(g, w).problem = "none" /\ Len(w.nodes) \in Nat
             /\ ~ Fed(w) => StepOn(g, w) = w
             /\ Fed(w) => Len(StepOn(g, w).nodes) = Len(w.nodes) + 1
  <2>1. StepOn(g, w) \in W BY StepOnWalks
  <2>2. Len(w.nodes) \in Nat
    <3>1. LineTo(g, end, w.nodes) BY <1>3, <1>4
    <3> QED BY <3>1, LineToIs
  <2> QED BY <1>4, <2>1, <2>2, StepGoes
<1> HIDE DEF n, W, start
<1>5. PICK walk : /\ ChainToSink(g, end) = walk[n]
                  /\ \A k \in 0 .. n : walk[k] = IF k = 0 THEN start ELSE StepOn(g, walk[k - 1])
  BY <1>1
<1> HIDE DEF Fed
<1> DEFINE Bad == {k \in 0 .. n : ~ Good(walk[k], k)}
<1>6. Bad = {}
  <2> SUFFICES ASSUME Bad # {} PROVE FALSE OBVIOUS
  <2>1. Bad \subseteq Nat BY <1>1
  <2>2. PICK k \in Bad : \A h \in Bad : k <= h BY <2>1, Least
  <2>3. k \in 0 .. n /\ ~ Good(walk[k], k) OBVIOUS
  <2>4. k # 0
    <3>1. Good(start, 0) BY <1>1, <1>2
    <3>2. 0 \in 0 .. n BY <1>1
    <3>3. walk[0] = start BY <1>5, <3>2
    <3> QED BY <2>3, <3>1, <3>3
  <2>5. k - 1 \in 0 .. n /\ ~ k <= k - 1 /\ (k - 1) + 1 = k /\ k \in Nat BY <2>3, <2>4, <1>1
  <2>6. Good(walk[k - 1], k - 1) BY <2>2, <2>5
  <2>7. walk[k] = StepOn(g, walk[k - 1]) BY <1>5, <2>3, <2>4
  <2> DEFINE v == walk[k - 1]
             s == StepOn(g, v)
  <2>8. v \in W /\ v.problem = "none" /\ Len(v.nodes) \in Nat /\ (Fed(v) => Len(v.nodes) = k) BY <2>5, <2>6
  <2>9. walk[k] = s BY <2>7
  <2> HIDE DEF v
  <2>10. /\ s \in W /\ s.problem = "none"
         /\ ~ Fed(v) => s = v
         /\ Fed(v) => Len(s.nodes) = Len(v.nodes) + 1
    BY <1>4, <2>8
  <2>11. Good(s, k)
    <3> HIDE DEF s
    <3>1. CASE Fed(v) BY <2>5, <2>8, <2>10, <3>1
    <3>2. CASE ~ Fed(v) BY <2>8, <2>10, <3>2
    <3> QED BY <3>1, <3>2
  <2> HIDE DEF s
  <2> QED BY <2>3, <2>9, <2>11
<1>7. Good(walk[n], n)
  <2>1. n \in 0 .. n BY <1>1
  <2> QED BY <1>6, <2>1
<1> DEFINE v == walk[n]
<1>8. v \in W /\ v.problem = "none" /\ Len(v.nodes) \in Nat /\ (Fed(v) => Len(v.nodes) = n + 1)
      /\ ChainToSink(g, end) = v
  BY <1>5, <1>7
<1> HIDE DEF v
<1>9. LineTo(g, end, v.nodes) BY <1>3, <1>8
<1>10. ~ Fed(v)
  <2>1. Len(v.nodes) <= n BY <1>9, LineFits DEF n
  <2> QED BY <1>1, <1>8, <2>1
<1> QED BY <1>8, <1>9, <1>10 DEF Fed

(* A muted rule that nothing feeds is not on the trunk. *)

FlowIs(g, flow) ==
  flow = [i \in 0 .. Cardinality(DOMAIN g.nodes) |->
            IF i = 0 THEN FirstSource(g) ELSE Given(flow[i - 1], LAMBDA so_far : Onward(g, so_far))]

LEMMA FirstSourceIs ==
  ASSUME NEW g, Drawn(g)
  PROVE  \A n \in FirstSource(g) : n \in DOMAIN g.nodes /\ Kind(g, n) = "source"
<1> DEFINE sources == {n \in DOMAIN g.nodes : Kind(g, n) = "source"}
           main == sources \ RightChain(g)
           S == IF main # {} THEN main ELSE sources
<1>1. FirstSource(g) = IF sources = {} THEN {} ELSE {Min(S)} BY DEF FirstSource
<1>2. S \in SUBSET Nat /\ S \subseteq sources /\ (sources # {} => S # {}) BY DEF Drawn, IsGraph
<1> HIDE DEF S
<1>3. sources # {} => Min(S) \in S BY <1>2, MinIs
<1> QED BY <1>1, <1>2, <1>3

LEMMA FlowSteps ==
  ASSUME NEW g, Drawn(g)
  PROVE  LET n == Cardinality(DOMAIN g.nodes)
         IN /\ n \in Nat
            /\ \E flow : /\ FlowOf(g) = flow[n]
                         /\ \A k \in 0 .. n : flow[k] = IF k = 0 THEN FirstSource(g) ELSE Onward(g, flow[k - 1])
<1> DEFINE n == Cardinality(DOMAIN g.nodes)
           D == SUBSET DOMAIN g.nodes
           step == [p \in (1 .. n) \X D |-> Onward(g, p[2])]
           flow == CHOOSE w : FlowIs(g, w)
<1>1. n \in Nat BY BoxesAre
<1>2. FirstSource(g) \in D BY FirstSourceIs
<1>3. step \in [(1 .. n) \X D -> D]
  <2>1. \A p \in (1 .. n) \X D : p[2] \in D OBVIOUS
  <2>2. \A l \in g.links : l.to \in DOMAIN g.nodes BY DEF Drawn, Sound, LinksHaveEnds
  <2>3. \A w \in D : Onward(g, w) \in D BY <2>2 DEF Onward
  <2> HIDE DEF D
  <2> QED BY <2>1, <2>3
<1>4. \A k \in 1 .. n, w \in D : step[<<k, w>>] = Onward(g, w) OBVIOUS
<1>5. \A w : Given(w, LAMBDA v : Onward(g, v)) = Onward(g, w) BY DEF Given
<1> HIDE DEF step, D
<1>6. PICK u \in [0 .. n -> D] : Iterates(n, FirstSource(g), step, u) BY <1>1, <1>2, <1>3, IterationExists
<1>7. FlowIs(g, u)
  <2>1. u = [k \in 0 .. n |-> u[k]] OBVIOUS
  <2>2. \A k \in 0 .. n : u[k] = IF k = 0 THEN FirstSource(g) ELSE step[<<k, u[k - 1]>>]
    BY <1>6 DEF Iterates
  <2>3. \A k \in 0 .. n : k # 0 => k \in 1 .. n /\ u[k - 1] \in D BY <1>1
  <2> HIDE DEF n
  <2>4. \A k \in 0 .. n : u[k] = IF k = 0 THEN FirstSource(g) ELSE Onward(g, u[k - 1]) BY <2>2, <2>3, <1>4
  <2>5. \A k \in 0 .. n :
          u[k] = IF k = 0 THEN FirstSource(g) ELSE Given(u[k - 1], LAMBDA so_far : Onward(g, so_far))
    BY <2>4, <1>5
  <2> QED BY <2>1, <2>5 DEF FlowIs, n
<1>8. FlowIs(g, flow) BY <1>7
<1>9. FlowOf(g) = flow[n] BY DEF FlowOf, FlowIs
<1> HIDE DEF flow
<1>10. \A k \in 0 .. n : flow[k] = IF k = 0 THEN FirstSource(g) ELSE Onward(g, flow[k - 1])
  <2>1. \A k \in 0 .. n :
          flow[k] = IF k = 0 THEN FirstSource(g) ELSE Given(flow[k - 1], LAMBDA so_far : Onward(g, so_far))
    BY <1>8 DEF FlowIs
  <2> QED BY <2>1, <1>5
<1> QED BY <1>1, <1>9, <1>10

LEMMA FlowIsFed ==
  ASSUME NEW g, Drawn(g), NEW h \in FlowOf(g)
  PROVE  Kind(g, h) = "source" \/ ParentsOn(g, h, "in") # {}
<1> DEFINE n == Cardinality(DOMAIN g.nodes)
           Fed(b) == Kind(g, b) = "source" \/ ParentsOn(g, b, "in") # {}
<1>1. n \in Nat BY FlowSteps
<1>2. PICK flow : /\ FlowOf(g) = flow[n]
                  /\ \A k \in 0 .. n : flow[k] = IF k = 0 THEN FirstSource(g) ELSE Onward(g, flow[k - 1])
  BY FlowSteps
<1>3. \A b \in FirstSource(g) : Fed(b) BY FirstSourceIs
<1>4. ASSUME NEW ids, NEW b \in Onward(g, ids), b \notin ids PROVE Fed(b)
  <2>1. PICK l \in g.links : l.to = b /\ l.at = "in" BY <1>4 DEF Onward
  <2>2. l \in [from : Nat, to : Nat, at : Handle] /\ l.from \in DOMAIN g.nodes
    BY FeederFeeds DEF Drawn, IsGraph
  <2>3. l = [from |-> l.from, to |-> b, at |-> "in"] BY <2>1, <2>2
  <2>4. l.from \in ParentsOn(g, b, "in") BY <2>2, <2>3 DEF ParentsOn
  <2> QED BY <2>4
<1> HIDE DEF Fed, n
<1> DEFINE Bad == {k \in 0 .. n : \E b \in flow[k] : ~ Fed(b)}
<1>5. Bad = {}
  <2> SUFFICES ASSUME Bad # {} PROVE FALSE OBVIOUS
  <2>1. Bad \subseteq Nat BY <1>1
  <2>2. PICK k \in Bad : \A j \in Bad : k <= j BY <2>1, Least
  <2>3. k \in 0 .. n /\ \E b \in flow[k] : ~ Fed(b) OBVIOUS
  <2>4. k # 0 BY <1>2, <1>3, <2>3
  <2>5. k - 1 \in 0 .. n /\ ~ k <= k - 1 BY <1>1, <2>3, <2>4
  <2>6. \A b \in flow[k - 1] : Fed(b) BY <2>2, <2>5
  <2>7. flow[k] = Onward(g, flow[k - 1]) BY <1>2, <2>3, <2>4
  <2> QED BY <1>4, <2>3, <2>6, <2>7
<1>6. n \in 0 .. n BY <1>1
<1> QED BY <1>2, <1>5, <1>6 DEF Fed

LEMMA MutedHeadIsOff ==
  ASSUME NEW g, Drawn(g), NEW h \in DOMAIN g.nodes, Kind(g, h) = "validation", g.nodes[h].muted,
         ParentsOn(g, h, "in") = {}
  PROVE  h \notin Trunk(g)
<1>1. CASE SinkChains(g) = {}
  <2>1. Trunk(g) = FlowOf(g) BY <1>1 DEF Trunk
  <2> QED BY <2>1, FlowIsFed
<1>2. CASE SinkChains(g) # {}
  <2> DEFINE N == {m \in DOMAIN g.nodes : ~ g.nodes[m].muted}
             S == {Middle(c) : c \in SinkChains(g)}
  <2>1. ASSUME NEW c \in SinkChains(g) PROVE c[1] # h /\ Middle(c) \in Seq(N)
    <3>1. c # <<>> /\ Kind(g, c[1]) = "source" BY DEF SinkChains
    <3>2. PICK n \in DOMAIN g.nodes : c = LinearChainTo(g, n) BY DEF SinkChains
    <3> DEFINE ids == ChainToSink(g, n).nodes
    <3>3. ChainToSink(g, n).problem = "none" /\ LineTo(g, n, ids) BY WalkEnds
    <3>4. c = Among(ids, N) BY <3>2, <3>3 DEF LinearChainTo
    <3>5. ids \in Seq(DOMAIN g.nodes) BY <3>3 DEF LineTo
    <3> HIDE DEF ids, N
    <3>6. c \in Seq(DOMAIN g.nodes \cap N) BY <3>4, <3>5, AmongIs
    <3>7. DOMAIN g.nodes \cap N = N BY DEF N
    <3>8. c \in Seq(N) BY <3>6, <3>7
    <3>9. SubSeq(c, 2, Len(c) - 1) \in Seq(N) BY <3>8
    <3> QED BY <3>1, <3>9 DEF Middle
  <2>2. S \in SUBSET Seq(N) /\ S # {} BY <1>2, <2>1
  <2> HIDE DEF S, N
  <2>3. SharedPrefix(S) \in Seq(N) BY <2>2, SharedPrefixBegins
  <2>4. h \notin N BY DEF N
  <2>5. h \notin ToSet(SharedPrefix(S)) BY <2>3, <2>4 DEF ToSet
  <2>6. Trunk(g) = {c[1] : c \in SinkChains(g)} \union ToSet(SharedPrefix(S)) BY <1>2 DEF Trunk, S
  <2> QED BY <2>1, <2>5, <2>6
<1> QED BY <1>1, <1>2

LEMMA ReportedAre ==
  ASSUME NEW g
  PROVE  /\ Orphans(g) \subseteq Reported(g) /\ OffTheTrunk(g) \subseteq Reported(g)
         /\ Split(g) \subseteq Reported(g) /\ SecondInputs(g) \subseteq Reported(g)
         /\ Unfilled(g) \subseteq Reported(g)
<1>1. {"orphan", "branch", "split", "second", "unfilled"} = DOMAIN LintErrors(g) BY DEF LintErrors
<1>2. /\ LintErrors(g)["branch"] = OffTheTrunk(g) /\ LintErrors(g)["split"] = Split(g)
      /\ LintErrors(g)["second"] = SecondInputs(g) /\ LintErrors(g)["unfilled"] = Unfilled(g)
      /\ LintErrors(g)["orphan"] = Orphans(g)
  BY DEF LintErrors
<1> DEFINE e == LintErrors(g)
<1>3. Reported(g) = UNION {e[check] : check \in DOMAIN e} BY DEF Reported
<1> HIDE DEF e
<1>4. \A check \in DOMAIN e : e[check] \subseteq Reported(g) BY <1>3
<1>5. {"orphan", "branch", "split", "second", "unfilled"} \subseteq DOMAIN e BY <1>1 DEF e
<1> QED BY <1>2, <1>4, <1>5 DEF e

\* A walk that finds no source ends at a box the linter reports, or at a muted
\* transformation, which it overlooks.
LEMMA NoSourceIsSeen ==
  ASSUME NEW g, Drawn(g), NEW end \in DOMAIN g.nodes,
         end \in ToSet(MainSinks(g)) \/ \E l \in g.links : l.from = end,
         FaultOf(g, ChainToSink(g, end)) # "none"
  PROVE  /\ FaultOf(g, ChainToSink(g, end)) = "no-source"
         /\ MutedHeads(g) # {} \/ Reported(g) # {}
<1> DEFINE walk == ChainToSink(g, end)
           ids == walk.nodes
           c == Alive(g, ids)
           D == DOMAIN g.nodes
           h == ids[1]
<1>1. walk.problem = "none" /\ LineTo(g, end, ids) /\ ParentsOn(g, h, "in") = {} BY WalkEnds
<1>2. /\ FaultOf(g, walk) \in {"none", "multiple-parents", "cycle", "no-source"}
      /\ FaultOf(g, walk) = "none" <=> walk.problem = "none" /\ c # <<>> /\ Kind(g, c[1]) = "source"
  BY FaultIs
<1>3. FaultOf(g, walk) = "no-source"
  <2>1. FaultOf(g, walk) = IF c = <<>> \/ Kind(g, c[1]) # "source" THEN "no-source"
                           ELSE IF OfKind(g, Tail(c), "source") # <<>> THEN "two-sources"
                           ELSE "none"
    BY <1>1 DEF FaultOf
  <2>2. FaultOf(g, walk) # "none" OBVIOUS
  <2> HIDE DEF c, walk
  <2> QED BY <1>2, <2>1, <2>2
<1>4. c = <<>> \/ Kind(g, c[1]) # "source" BY <1>1, <1>2
<1> HIDE DEF walk
<1>5. /\ Len(ids) \in Nat /\ Len(ids) >= 1 /\ DOMAIN ids = 1 .. Len(ids)
      /\ ids \in Seq(D) /\ Once(ids) /\ ids[Len(ids)] = end /\ h \in D
  <2>1. ids \in Seq(D) /\ Once(ids) /\ ids[Len(ids)] = end BY <1>1 DEF LineTo
  <2> HIDE DEF ids
  <2>2. Len(ids) \in Nat /\ Len(ids) >= 1 /\ DOMAIN ids = 1 .. Len(ids) /\ \A i \in 1 .. Len(ids) : ids[i] \in D
    BY <1>1, LineToIs
  <2> QED BY <2>1, <2>2
<1>6. h \in ToSet(MainSinks(g)) \/ \E l \in g.links : l.from = h
  <2>1. CASE Len(ids) = 1 BY <1>5, <2>1
  <2>2. CASE Len(ids) # 1
    <3> DEFINE l == [from |-> ids[1], to |-> ids[1 + 1], at |-> "in"]
    <3>1. 1 \in 1 .. Len(ids) - 1
      <4> DEFINE k == Len(ids)
      <4>1. k \in Nat /\ k >= 1 /\ k # 1 BY <1>5, <2>2
      <4> HIDE DEF k
      <4>2. 1 \in 1 .. k - 1 BY <4>1
      <4> QED BY <4>2 DEF k
    <3>2. l \in g.links /\ l.from = h BY <1>1, <3>1 DEF LineTo
    <3> QED BY <3>2
  <2> QED BY <2>1, <2>2
<1>7. Kind(g, h) # "source"
  <2> SUFFICES ASSUME Kind(g, h) = "source" PROVE FALSE OBVIOUS
  <2>1. h \in AliveIn(g)
    <3>1. ~ g.nodes[h].muted BY <1>5 DEF Drawn, IsGraph, IsBox, Kind
    <3> QED BY <1>5, <3>1 DEF AliveIn
  <2> DEFINE A == AliveIn(g)
  <2>2. c = Among(ids, A) /\ c \in Seq(D) /\ ToSet(c) = ToSet(ids) \cap A BY <1>1, AliveIs
  <2>3. h \in ToSet(ids) BY <1>5 DEF ToSet
  <2>4. h \in ToSet(c) BY <2>1, <2>2, <2>3
  <2> HIDE DEF c
  <2>5. PICK b \in DOMAIN c : c[b] = h BY <2>4 DEF ToSet
  <2>6. 1 \in DOMAIN c /\ DOMAIN c = 1 .. Len(c) /\ Len(c) \in Nat
    <3> HIDE DEF D
    <3> QED BY <2>2, <2>5
  <2>7. c[1] \in ToSet(ids) BY <2>2, <2>6 DEF ToSet
  <2>8. PICK i \in 1 .. Len(ids) : c[1] = ids[i] BY <1>5, <2>7 DEF ToSet
  <2>9. i # 1
    <3> SUFFICES ASSUME i = 1 PROVE FALSE OBVIOUS
    <3>1. c # <<>> BY <2>6
    <3> QED BY <1>4, <2>8, <3>1
  <2>10. 1 \in 1 .. Len(ids) /\ 1 < i BY <1>5, <2>9
  <2> HIDE DEF ids, D, A
  <2>11. b < 1
    <3>1. Among(ids, A)[b] = ids[1] /\ Among(ids, A)[1] = ids[i] BY <2>2, <2>5, <2>8
    <3>2. b \in DOMAIN Among(ids, A) /\ 1 \in DOMAIN Among(ids, A) BY <2>2, <2>6
    <3> QED BY <1>5, <2>10, <3>1, <3>2, AmongOrder
  <2> QED BY <2>6, <2>11
<1> HIDE DEF ids, c
<1>8. CASE h \in ToSet(MainSinks(g))
  <2>1. h \in Orphans(g) BY <1>1, <1>5, <1>8 DEF Orphans
  <2> QED BY <1>3, <2>1, ReportedAre DEF walk
<1>9. CASE \E l \in g.links : l.from = h
  <2>1. Kind(g, h) \in {"transform", "validation"} BY <1>7, <1>9, FeederFeeds DEF FeedsOn
  <2>2. CASE ~ g.nodes[h].muted
    <3>1. h \in Orphans(g) BY <1>1, <1>5, <2>1, <2>2 DEF Orphans, Active
    <3> QED BY <1>3, <3>1, ReportedAre DEF walk
  <2>3. CASE g.nodes[h].muted /\ Kind(g, h) = "transform"
    <3>1. h \in MutedHeads(g) BY <1>1, <1>5, <1>9, <2>3 DEF MutedHeads
    <3> QED BY <1>3, <3>1 DEF walk
  <2>4. CASE g.nodes[h].muted /\ Kind(g, h) = "validation"
    <3>1. h \in OffTheTrunk(g) BY <1>1, <1>5, <2>4, MutedHeadIsOff DEF OffTheTrunk
    <3> QED BY <1>3, <3>1, ReportedAre DEF walk
  <2> QED BY <2>1, <2>2, <2>3, <2>4
<1> QED BY <1>6, <1>8, <1>9
-----------------------------------------------------------------------------
(* No box feeds itself, over whichever inputs. *)

Feeders(g, n) == {l.from : l \in {k \in g.links : k.to = n}}
Upward(g, U) == \A l \in g.links : l.to \in U => l.from \in U

\* a is above n: in every set that holds the feeders of n, and the feeders of its own.
IsAbove(g, a, n) ==
  \A U \in SUBSET DOMAIN g.nodes : Feeders(g, n) \subseteq U /\ Upward(g, U) => a \in U

LEMMA AboveIsTransitive ==
  ASSUME NEW g, NEW a, NEW b, NEW n, IsAbove(g, b, n), IsAbove(g, a, b)
  PROVE  IsAbove(g, a, n)
<1> SUFFICES ASSUME NEW U \in SUBSET DOMAIN g.nodes, Feeders(g, n) \subseteq U, Upward(g, U)
             PROVE  a \in U
  BY DEF IsAbove
<1>1. b \in U BY DEF IsAbove
<1>2. Feeders(g, b) \subseteq U BY <1>1 DEF Feeders, Upward
<1> QED BY <1>2 DEF IsAbove

LEMMA NotAboveItself ==
  ASSUME NEW g, Drawn(g), NEW b \in DOMAIN g.nodes
  PROVE  ~ IsAbove(g, b, b)
<1> DEFINE D == DOMAIN g.nodes
           S == {x \in D : IsAbove(g, b, x)}
           U == D \ S
<1> SUFFICES ASSUME IsAbove(g, b, b) PROVE FALSE OBVIOUS
<1>1. S \in SUBSET D /\ b \in S /\ S # {} OBVIOUS
<1>2. \A l \in g.links : l.from \in D /\ l.to \in D BY DEF Drawn, Sound, LinksHaveEnds
<1>3. Upward(g, U)
  <2> SUFFICES ASSUME NEW l \in g.links, l.to \in U, l.from \in S PROVE FALSE BY <1>2 DEF Upward
  <2>1. IsAbove(g, b, l.to)
    <3> SUFFICES ASSUME NEW V \in SUBSET D, Feeders(g, l.to) \subseteq V, Upward(g, V) PROVE b \in V
      BY DEF IsAbove
    <3>1. l.from \in V BY DEF Feeders
    <3>2. Feeders(g, l.from) \subseteq V BY <3>1 DEF Feeders, Upward
    <3>3. IsAbove(g, b, l.from) OBVIOUS
    <3> QED BY <3>2, <3>3 DEF IsAbove
  <2> QED BY <2>1
<1>4. PICK x \in S : \A l \in g.links : l.to = x => l.from \notin S
  <2> HIDE DEF S
  <2> QED BY <1>1 DEF Drawn, Sound, Acyclic
<1>5. Feeders(g, x) \subseteq U BY <1>2, <1>4 DEF Feeders
<1>6. IsAbove(g, b, x) /\ U \in SUBSET D OBVIOUS
<1>7. b \in U
  <2> HIDE DEF U
  <2> QED BY <1>3, <1>5, <1>6 DEF IsAbove
<1> QED BY <1>1, <1>7

\* A second input is all above the box it is taken to.
LEMMA SideIsAbove ==
  ASSUME NEW g, Drawn(g), NEW m, NEW n, NEW handle, [from |-> m, to |-> n, at |-> handle] \in g.links,
         NEW ids, LineTo(g, m, ids)
  PROVE  \A x \in ToSet(ids) : IsAbove(g, x, n)
<1>1. Len(ids) \in Nat /\ Len(ids) >= 1 /\ DOMAIN ids = 1 .. Len(ids) BY LineToIs
<1>2. ids[Len(ids)] = m BY DEF LineTo
<1> SUFFICES ASSUME NEW U \in SUBSET DOMAIN g.nodes, Feeders(g, n) \subseteq U, Upward(g, U)
             PROVE  \A i \in 1 .. Len(ids) : ids[i] \in U
  BY <1>1 DEF IsAbove, ToSet
<1>3. m \in U
  <2> DEFINE l == [from |-> m, to |-> n, at |-> handle]
  <2>1. l \in g.links /\ l.from = m /\ l.to = n OBVIOUS
  <2> HIDE DEF l
  <2> QED BY <2>1 DEF Feeders
<1> DEFINE t == Len(ids)
           Bad == {k \in 0 .. t - 1 : ids[t - k] \notin U}
<1>4. Bad = {}
  <2> SUFFICES ASSUME Bad # {} PROVE FALSE OBVIOUS
  <2>1. Bad \subseteq Nat BY <1>1
  <2>2. PICK k \in Bad : \A h \in Bad : k <= h BY <2>1, Least
  <2>3. k \in 0 .. t - 1 /\ ids[t - k] \notin U OBVIOUS
  <2>4. k # 0 BY <1>1, <1>2, <1>3, <2>3
  <2>5. k - 1 \in 0 .. t - 1 /\ ~ k <= k - 1 /\ t - k \in 1 .. t - 1 /\ (t - k) + 1 = t - (k - 1)
    BY <1>1, <2>3, <2>4
  <2>6. ids[t - (k - 1)] \in U BY <2>2, <2>5
  <2> DEFINE l == [from |-> ids[t - k], to |-> ids[(t - k) + 1], at |-> "in"]
  <2>7. l \in g.links /\ l.from = ids[t - k] /\ l.to = ids[t - (k - 1)]
    <3>1. \A i \in 1 .. t - 1 : [from |-> ids[i], to |-> ids[i + 1], at |-> "in"] \in g.links
      BY DEF LineTo
    <3> QED BY <2>5, <3>1
  <2> HIDE DEF l
  <2> QED BY <2>3, <2>6, <2>7 DEF Upward
<1> TAKE i \in 1 .. t
<1>5. t - i \in 0 .. t - 1 /\ t - (t - i) = i BY <1>1
<1>6. ids[t - (t - i)] \in U BY <1>4, <1>5
<1> QED BY <1>5, <1>6
-----------------------------------------------------------------------------
(* Second inputs. *)

\* The chain of a second input, as the linter sees it.
LEMMA SideChainIs ==
  ASSUME NEW g, Drawn(g), NEW m, NEW n, [from |-> m, to |-> n, at |-> "inRight"] \in g.links,
         FaultOf(g, ChainToSink(g, m)) = "none"
  PROVE  LET ids == ChainToSink(g, m).nodes
             c == Alive(g, ids)
         IN /\ SourceChain(g, m, ids, c)
            /\ \A j \in 2 .. Len(c) :
                 /\ c[j] \in Active(g, "transform") \/ Kind(g, c[j]) = "validation"
                 /\ ParentsOn(g, c[j], "in") # {} /\ c[j] \in Ancestors(g, {m})
            /\ Len(c) = 1 => \A t \in Ancestors(g, {m}) :
                 t \in Active(g, "transform")
                   => \E a \in Ancestors(g, {m}) : What(g, a) \in Dual /\ g.nodes[a].muted
<1> DEFINE walk == ChainToSink(g, m)
           ids == walk.nodes
           c == Alive(g, ids)
           up == Ancestors(g, {m})
<1>1. m \in DOMAIN g.nodes /\ FeedsOn(g, m)
  <2> DEFINE l == [from |-> m, to |-> n, at |-> "inRight"]
  <2>1. l \in g.links /\ l.from = m OBVIOUS
  <2> HIDE DEF l
  <2> QED BY <2>1, FeederFeeds
<1>2. SourceChain(g, m, ids, c) BY <1>1, FaultIs
<1> HIDE DEF walk
<1> HIDE DEF c
<1>3. /\ FromSource(g, m, ids) /\ c \in Seq(DOMAIN g.nodes) /\ Once(c)
      /\ ToSet(c) = ToSet(ids) \cap AliveIn(g) /\ Kind(g, c[1]) = "source"
      /\ \A j \in 2 .. Len(c) : /\ Kind(g, c[j]) \notin {"source", "note"}
                                /\ ParentsOn(g, c[j], "in") # {}
  BY <1>2 DEF SourceChain
<1>4. LineTo(g, m, ids) /\ ids[Len(ids)] = m BY <1>3 DEF FromSource, LineTo
<1>5. /\ Len(ids) \in Nat /\ DOMAIN ids = 1 .. Len(ids)
      /\ \A i \in 1 .. Len(ids) : ids[i] \in DOMAIN g.nodes
      /\ \A i \in 1 .. Len(ids) - 1 : FeedsOn(g, ids[i])
  <2> HIDE DEF ids
  <2> QED BY <1>4, LineToIs
<1>6. \A i \in 1 .. Len(ids) : FeedsOn(g, ids[i])
  <2> HIDE DEF ids
  <2> TAKE i \in 1 .. Len(ids)
  <2>1. CASE i = Len(ids) BY <1>1, <1>4, <2>1
  <2>2. CASE i # Len(ids)
    <3>1. Len(ids) \in Nat BY <1>5
    <3>2. i \in 1 .. Len(ids) - 1 BY <2>2, <3>1
    <3> QED BY <1>5, <3>2
  <2> QED BY <2>1, <2>2
<1>7. ToSet(ids) \subseteq up
  <2> HIDE DEF ids
  <2> QED BY <1>1, <1>4, LineIsAbove
<1>8. ASSUME NEW j \in 2 .. Len(c)
      PROVE  /\ c[j] \in Active(g, "transform") \/ Kind(g, c[j]) = "validation"
             /\ ParentsOn(g, c[j], "in") # {} /\ c[j] \in up
  <2>1. j \in DOMAIN c /\ c[j] \in DOMAIN g.nodes
    <3> HIDE DEF ids
    <3>1. Len(c) \in Nat /\ DOMAIN c = 1 .. Len(c) BY <1>3
    <3> QED BY <1>3, <3>1
  <2>2. c[j] \in ToSet(ids) /\ c[j] \in AliveIn(g)
    <3>1. c[j] \in ToSet(c) BY <2>1 DEF ToSet
    <3> QED BY <1>3, <3>1
  <2>3. FeedsOn(g, c[j]) BY <2>2, <1>5, <1>6 DEF ToSet
  <2>4. Kind(g, c[j]) \in {"transform", "validation"} BY <2>3, <1>3 DEF FeedsOn
  <2>5. Kind(g, c[j]) = "transform" => c[j] \in Active(g, "transform")
    BY <2>1, <2>2 DEF Active, AliveIn
  <2> QED BY <1>3, <1>7, <2>2, <2>4, <2>5
<1>9. ASSUME Len(c) = 1, NEW t \in up, t \in Active(g, "transform"),
             \A a \in up : ~ (What(g, a) \in Dual /\ g.nodes[a].muted)
      PROVE  FALSE
  <2>1. ToSet(c) = {c[1]}
    <3>1. DOMAIN c = {1}
      <4>1. DOMAIN c = 1 .. Len(c) BY <1>3
      <4> QED BY <1>9, <4>1
    <3> QED BY <3>1 DEF ToSet
  <2>2. \A x \in ToSet(ids) \cap AliveIn(g) : Kind(g, x) = "source" BY <1>3, <2>1
  <2>3. ASSUME NEW i \in 1 .. Len(ids) PROVE "inRight" \notin Inputs(g.nodes[ids[i]])
    <3> SUFFICES ASSUME "inRight" \in Inputs(g.nodes[ids[i]]) PROVE FALSE OBVIOUS
    <3>1. Kind(g, ids[i]) = "transform" /\ What(g, ids[i]) \in Dual BY DEF Inputs, Kind, What
    <3>2. ids[i] \in ToSet(ids) /\ ids[i] \in DOMAIN g.nodes BY <1>5 DEF ToSet
    <3>3. ~ g.nodes[ids[i]].muted BY <1>7, <1>9, <3>1, <3>2
    <3>4. ids[i] \in AliveIn(g) BY <3>1, <3>2, <3>3 DEF AliveIn
    <3> QED BY <2>2, <3>1, <3>2, <3>4
  <2>4. up \subseteq ToSet(ids)
    <3> HIDE DEF ids
    <3> QED BY <1>1, <1>3, <2>3, NothingBeside
  <2>5. t \in ToSet(ids) \cap AliveIn(g) /\ Kind(g, t) = "transform"
    BY <1>9, <2>4 DEF Active, AliveIn
  <2> QED BY <2>2, <2>5
<1> QED BY <1>2, <1>8, <1>9 DEF walk, c

\* What holds of a box that was compiled with nothing refused.
Agreed(g, n) == n \in SecondInputs(g) => n \in FedThroughMuted(g)
Used(g, n) ==
  \/ Kind(g, n) = "source"
  \/ n \in Active(g, "transform") /\ ParentsOn(g, n, "in") # {} /\ Agreed(g, n)
SecondHolds(g, n, second) ==
  /\ second.errors = {} => Agreed(g, n) /\ \A u \in second.used : Used(g, u)
  /\ second.errors \ Overlooked(g) # {} => Reported(g) # {}

LEMMA RefusedHolds ==
  ASSUME NEW g, NEW n, NEW problem, problem \in Overlooked(g) \/ Reported(g) # {}
  PROVE  SecondHolds(g, n, Refused(problem))
<1>1. Refused(problem).errors = {problem} BY DEF Refused, NoSide
<1> QED BY <1>1 DEF SecondHolds

LEMMA SubIs ==
  ASSUME NEW T, NEW s \in Seq(T), NEW a \in Nat, a >= 1, NEW b \in Int, b <= Len(s)
  PROVE  SubSeq(s, a, b) \in Seq(T) /\ ToSet(SubSeq(s, a, b)) \subseteq ToSet(s)
<1> DEFINE sub == SubSeq(s, a, b)
<1>1. Len(s) \in Nat /\ DOMAIN s = 1 .. Len(s) OBVIOUS
<1>2. CASE a <= b
  <2>1. sub \in Seq(T) /\ \A i \in DOMAIN sub : a + i - 1 \in 1 .. Len(s) /\ sub[i] = s[a + i - 1]
    BY <1>1, <1>2
  <2> HIDE DEF sub
  <2>2. \A i \in DOMAIN sub : sub[i] \in ToSet(s) BY <1>1, <2>1 DEF ToSet
  <2>3. ToSet(sub) \subseteq ToSet(s) BY <2>2 DEF ToSet
  <2> QED BY <2>1, <2>3 DEF sub
<1>3. CASE ~ a <= b
  <2>1. sub = <<>> BY <1>3
  <2>2. ToSet(<<>>) = {} BY DEF ToSet
  <2>3. <<>> \in Seq(T) OBVIOUS
  <2> HIDE DEF sub
  <2> QED BY <2>1, <2>2, <2>3 DEF sub
<1> QED BY <1>2, <1>3

LEMMA SideHolds ==
  ASSUME NEW g, Drawn(g), NEW n \in Active(g, "transform"), What(g, n) \in Dual,
         NEW m, [from |-> m, to |-> n, at |-> "inRight"] \in g.links, NEW rest, NEW steps,
         LET c == Alive(g, ChainToSink(g, m).nodes)
         IN rest = SubSeq(c, 2, Len(c)) /\ rest \in Seq(DOMAIN g.nodes),
         DOMAIN steps = DOMAIN rest,
         \A i \in DOMAIN rest : \E second :
           /\ steps[i] = CompiledWith(g, rest[i], second)
           /\ rest[i] \in Active(g, "transform") => SecondHolds(g, rest[i], second)
  PROVE  LET walk == ChainToSink(g, m)
         IN SecondHolds(g, n, CompileSide(g, n, FaultOf(g, walk), Alive(g, walk.nodes), steps))
<1> DEFINE walk == ChainToSink(g, m)
           ids == walk.nodes
           c == Alive(g, ids)
           fault == FaultOf(g, walk)
           side == CompileSide(g, n, fault, c, steps)
           whole == [side |-> <<[input |-> What(g, c[1]), steps |-> [i \in DOMAIN steps |-> steps[i].step]]>>,
                     used |-> ToSet(c) \union UNION {steps[i].used : i \in DOMAIN steps},
                     errors |-> UNION {steps[i].errors : i \in DOMAIN steps}]
           reshaped == [side |-> <<[input |-> What(g, c[1]), steps |-> <<>>]>>,
                        used |-> ToSet(c), errors |-> {"union-reshapes"}]
<1>1. m \in DOMAIN g.nodes /\ ParentsOn(g, n, "inRight") = {m} BY ParentIs
<1>2. fault \in {"none", "multiple-parents", "cycle", "no-source"} BY <1>1, FaultIs
<1>3. side = IF fault \in {"multiple-parents", "cycle", "no-source"} THEN Refused(fault)
             ELSE IF fault = "two-sources" \/ OfKind(g, Tail(c), "validation") # <<>>
                  THEN [Refused("side-chain") EXCEPT !.used = ToSet(c)]
             ELSE IF Tail(c) # <<>> /\ What(g, n) \notin SubPipelines THEN reshaped
             ELSE Given(steps, LAMBDA made :
               [side |-> <<[input |-> What(g, c[1]), steps |-> [i \in DOMAIN made |-> made[i].step]]>>,
                used |-> ToSet(c) \union UNION {made[i].used : i \in DOMAIN made},
                errors |-> UNION {made[i].errors : i \in DOMAIN made}])
  BY DEF CompileSide
<1>4. Given(steps, LAMBDA made :
               [side |-> <<[input |-> What(g, c[1]), steps |-> [i \in DOMAIN made |-> made[i].step]]>>,
                used |-> ToSet(c) \union UNION {made[i].used : i \in DOMAIN made},
                errors |-> UNION {made[i].errors : i \in DOMAIN made}]) = whole
  <2> HIDE DEF c
  <2> QED BY DEF Given
<1> HIDE DEF side
<1>5. CASE fault \in {"multiple-parents", "cycle", "no-source"}
  <2>1. fault \in Overlooked(g) \/ Reported(g) # {}
    <3> DEFINE l == [from |-> m, to |-> n, at |-> "inRight"]
    <3>1. l \in g.links /\ l.from = m OBVIOUS
    <3> HIDE DEF l
    <3>2. fault = "no-source" /\ (MutedHeads(g) # {} \/ Reported(g) # {})
      BY <1>1, <1>5, <3>1, NoSourceIsSeen
    <3> QED BY <3>2 DEF Overlooked
  <2>2. side = Refused(fault) BY <1>3, <1>5
  <2> HIDE DEF fault
  <2>3. SecondHolds(g, n, Refused(fault)) BY <2>1, RefusedHolds
  <2> QED BY <2>2, <2>3 DEF side, fault
<1>6. CASE fault = "none"
  <2>1. /\ SourceChain(g, m, ids, c)
        /\ \A j \in 2 .. Len(c) :
             /\ c[j] \in Active(g, "transform") \/ Kind(g, c[j]) = "validation"
             /\ ParentsOn(g, c[j], "in") # {} /\ c[j] \in Ancestors(g, {m})
        /\ Len(c) = 1 => \A t \in Ancestors(g, {m}) :
             t \in Active(g, "transform")
               => \E a \in Ancestors(g, {m}) : What(g, a) \in Dual /\ g.nodes[a].muted
    BY <1>6, SideChainIs
  <2> HIDE DEF walk
  <2> HIDE DEF ids, fault
  <2> HIDE DEF c
  <2>2. c \in Seq(DOMAIN g.nodes) /\ c # <<>> /\ Kind(g, c[1]) = "source" BY <2>1 DEF SourceChain
  <2>3. /\ rest \in Seq(DOMAIN g.nodes) /\ Len(rest) = Len(c) - 1 /\ Len(c) \in Nat /\ Len(c) >= 1
        /\ \A j \in 1 .. Len(c) - 1 : rest[j] = c[j + 1]
    <3> DEFINE D == DOMAIN g.nodes
    <3>0. rest = SubSeq(c, 2, Len(c)) /\ rest \in Seq(D) BY DEF c, ids, walk
    <3>1. c \in Seq(D) /\ c # <<>> BY <2>2
    <3> HIDE DEF D
    <3>2. Len(rest) = Len(c) - 1 /\ \A j \in 1 .. Len(c) - 1 : rest[j] = c[j + 1]
      <4>1. Len(c) \in Nat /\ 1 \in 0 .. Len(c) /\ 1 + 1 = 2 BY <3>1
      <4>2. CutInTwo(D, c, 1, SubSeq(c, 1, 1), SubSeq(c, 1 + 1, Len(c))) BY <3>1, <4>1, CutIs
      <4>3. CutInTwo(D, c, 1, SubSeq(c, 1, 1), rest) BY <3>0, <4>1, <4>2
      <4>4. Len(rest) = Len(c) - 1 /\ \A j \in 1 .. Len(c) - 1 : rest[j] = c[1 + j]
        BY <4>3 DEF CutInTwo
      <4>5. \A j \in 1 .. Len(c) - 1 : 1 + j = j + 1 OBVIOUS
      <4> QED BY <4>4, <4>5
    <3>3. Len(c) \in Nat /\ Len(c) >= 1 BY <3>1
    <3> QED BY <3>0, <3>2, <3>3 DEF D
  <2>4. Tail(c) = rest
    <3> DEFINE D == DOMAIN g.nodes
               t == Tail(c)
    <3>1. c \in Seq(D) /\ c # <<>> /\ rest \in Seq(D) BY <2>2, <2>3
    <3> HIDE DEF D
    <3>2. t \in Seq(D) /\ Len(t) = Len(c) - 1 /\ \A j \in 1 .. Len(c) - 1 : t[j] = c[j + 1] BY <3>1
    <3> HIDE DEF t
    <3>3. t = rest BY <2>3, <3>1, <3>2, SeqEqual
    <3> QED BY <3>3 DEF t
  <2>5. \A i \in DOMAIN rest : /\ rest[i] \in Active(g, "transform") \/ Kind(g, rest[i]) = "validation"
                               /\ ParentsOn(g, rest[i], "in") # {} /\ rest[i] \in Ancestors(g, {m})
    <3> TAKE i \in DOMAIN rest
    <3>1. i \in 1 .. Len(c) - 1 /\ i + 1 \in 2 .. Len(c) BY <2>3
    <3> QED BY <2>1, <2>3, <3>1
  <2>6. \A x \in ToSet(c) : Kind(g, x) = "source" \/ \E i \in DOMAIN rest : x = rest[i]
    <3> SUFFICES ASSUME NEW j \in DOMAIN c, j # 1 PROVE \E i \in DOMAIN rest : c[j] = rest[i]
      BY <2>2 DEF ToSet
    <3>1. j \in 1 .. Len(c) BY <2>2
    <3>2. j - 1 \in 1 .. Len(c) - 1 /\ (j - 1) + 1 = j BY <2>3, <3>1
    <3>3. j - 1 \in DOMAIN rest BY <2>3, <3>2
    <3>4. rest[j - 1] = c[j] BY <2>3, <3>2
    <3> QED BY <3>3, <3>4
  <2>7. CASE OfKind(g, rest, "validation") # <<>>
    <3>1. side = [Refused("side-chain") EXCEPT !.used = ToSet(c)] BY <1>3, <1>6, <2>4, <2>7
    <3>2. side.errors = {"side-chain"} BY <3>1 DEF Refused, NoSide
    <3>3. PICK i \in DOMAIN rest : Kind(g, rest[i]) = "validation" /\ rest[i] \in DOMAIN g.nodes
      <4>1. OfKind(g, rest, "validation") = Among(rest, RuleBoxes(g)) BY DEF OfKind, RuleBoxes
      <4>2. ToSet(rest) \cap RuleBoxes(g) # {} BY <2>3, <2>7, <4>1, AmongNone
      <4> QED BY <4>2 DEF ToSet, RuleBoxes
    <3>4. rest[i] \in Ancestors(g, {m}) BY <2>5
    <3>5. CASE rest[i] \in Trunk(g)
      <4>1. n \in FedThroughTrunkRule(g) BY <1>1, <3>3, <3>4, <3>5 DEF FedThroughTrunkRule
      <4>2. "side-chain" \in Overlooked(g) BY <4>1 DEF Overlooked
      <4>3. SecondHolds(g, n, side) BY <3>2, <4>2 DEF SecondHolds
      <4> QED BY <4>3 DEF side, fault, c, ids, walk
    <3>6. CASE rest[i] \notin Trunk(g)
      <4>1. rest[i] \in OffTheTrunk(g) BY <3>3, <3>6 DEF OffTheTrunk
      <4>2. SecondHolds(g, n, side) BY <3>2, <4>1, ReportedAre DEF SecondHolds
      <4> QED BY <4>2 DEF side, fault, c, ids, walk
    <3> QED BY <3>5, <3>6
  <2>8. CASE OfKind(g, rest, "validation") = <<>>
    <3>1. \A i \in DOMAIN rest : rest[i] \in Active(g, "transform")
      <4> SUFFICES ASSUME NEW i \in DOMAIN rest, Kind(g, rest[i]) = "validation" PROVE FALSE BY <2>5
      <4>1. OfKind(g, rest, "validation") = Among(rest, RuleBoxes(g)) BY DEF OfKind, RuleBoxes
      <4>2. ToSet(rest) \cap RuleBoxes(g) = {} BY <2>3, <2>8, <4>1, AmongNone
      <4>3. rest[i] \in ToSet(rest) BY DEF ToSet
      <4>4. rest[i] \in DOMAIN g.nodes
        <5> DEFINE D == DOMAIN g.nodes
        <5>1. rest \in Seq(D) BY <2>3
        <5> HIDE DEF D
        <5>2. DOMAIN rest = 1 .. Len(rest) /\ \A h \in 1 .. Len(rest) : rest[h] \in D BY <5>1, SeqFacts
        <5> QED BY <5>2 DEF D
      <4> QED BY <4>2, <4>3, <4>4 DEF RuleBoxes
    <3>2. CASE rest # <<>> /\ What(g, n) \notin SubPipelines
      <4>1. side = reshaped BY <1>3, <1>6, <2>4, <2>8, <3>2
      <4>2. side.errors = {"union-reshapes"} BY <4>1
      <4>3. n \in SecondInputs(g)
        <5>1. 1 \in DOMAIN rest BY <2>3, <3>2
        <5>2. rest[1] \in Active(g, "transform") /\ rest[1] \in Ancestors(g, {m}) BY <2>5, <3>1, <5>1
        <5> QED BY <1>1, <3>2, <5>2 DEF SecondInputs
      <4>4. SecondHolds(g, n, side) BY <4>2, <4>3, ReportedAre DEF SecondHolds
      <4> QED BY <4>4 DEF side, fault, c, ids, walk
    <3>3. CASE ~ (rest # <<>> /\ What(g, n) \notin SubPipelines)
      <4>1. side = whole BY <1>3, <1>4, <1>6, <2>4, <2>8, <3>3
      <4>2. /\ side.errors = UNION {steps[i].errors : i \in DOMAIN steps}
            /\ side.used = ToSet(c) \union UNION {steps[i].used : i \in DOMAIN steps}
        BY <4>1
      <4> HIDE DEF whole
      <4>3. \A i \in DOMAIN rest : \E second :
              /\ steps[i] = CompiledWith(g, rest[i], second) /\ SecondHolds(g, rest[i], second)
        BY <3>1
      <4>4. \A i \in DOMAIN steps :
              /\ steps[i].errors = {} => Agreed(g, rest[i]) /\ \A u \in steps[i].used : u = rest[i] \/ Used(g, u)
              /\ steps[i].errors \ Overlooked(g) # {} => Reported(g) # {}
        <5> TAKE i \in DOMAIN steps
        <5>1. PICK second : steps[i] = CompiledWith(g, rest[i], second) /\ SecondHolds(g, rest[i], second)
          BY <4>3
        <5>2. steps[i].errors = second.errors /\ steps[i].used = {rest[i]} \union second.used
          BY <5>1 DEF CompiledWith
        <5> QED BY <5>1, <5>2 DEF SecondHolds
      <4>5. ASSUME side.errors = {} PROVE Agreed(g, n) /\ \A u \in side.used : Used(g, u)
        <5>1. \A i \in DOMAIN steps : steps[i].errors = {}
          <6> TAKE i \in DOMAIN steps
          <6> DEFINE e == steps[i].errors
          <6>1. e \in {steps[h].errors : h \in DOMAIN steps} OBVIOUS
          <6>2. UNION {steps[h].errors : h \in DOMAIN steps} = {} BY <4>2, <4>5
          <6> HIDE DEF e
          <6>3. e = {} BY <6>1, <6>2
          <6> QED BY <6>3 DEF e
        <5>2. \A i \in DOMAIN rest : Used(g, rest[i]) BY <2>5, <3>1, <4>4, <5>1 DEF Used
        <5>3. \A x \in ToSet(c) : Used(g, x) BY <2>6, <5>2 DEF Used
        <5>4. \A i \in DOMAIN steps : \A u \in steps[i].used : Used(g, u) BY <4>4, <5>1, <5>2
        <5>5. \A u \in side.used : Used(g, u) BY <4>2, <5>3, <5>4
        <5>6. ASSUME n \in SecondInputs(g) PROVE n \in FedThroughMuted(g)
          <6>1. /\ What(g, n) \notin SubPipelines
                /\ \E t \in Ancestors(g, {m}) : t \in Active(g, "transform")
            BY <5>6, <1>1 DEF SecondInputs
          <6>2. rest = <<>> BY <3>3, <6>1
          <6>3. Len(c) = 1
            <7> DEFINE D == DOMAIN g.nodes
            <7>0. rest \in Seq(D) BY <2>3
            <7> HIDE DEF D
            <7>1. Len(rest) = 0 BY <6>2, <7>0, SeqFacts
            <7>2. Len(rest) = Len(c) - 1 /\ Len(c) \in Nat BY <2>3
            <7> QED BY <7>1, <7>2
          <6>4. \E a \in Ancestors(g, {m}) : What(g, a) \in Dual /\ g.nodes[a].muted
            BY <2>1, <6>1, <6>3
          <6> QED BY <1>1, <6>4 DEF FedThroughMuted
        <5> QED BY <5>5, <5>6 DEF Agreed
      <4>6. ASSUME side.errors \ Overlooked(g) # {} PROVE Reported(g) # {}
        <5>1. \E i \in DOMAIN steps : steps[i].errors \ Overlooked(g) # {} BY <4>2, <4>6
        <5> QED BY <4>4, <5>1
      <4>7. SecondHolds(g, n, side) BY <4>5, <4>6 DEF SecondHolds
      <4> QED BY <4>7 DEF side, fault, c, ids, walk
    <3> QED BY <3>2, <3>3
  <2> QED BY <2>7, <2>8
<1> QED BY <1>2, <1>5, <1>6

LEMMA SecondsHold ==
  ASSUME NEW g, Drawn(g), NEW n \in Active(g, "transform"),
         NEW stack \in SUBSET DOMAIN g.nodes, \A a \in stack : IsAbove(g, n, a)
  PROVE  SecondHolds(g, n, Seconds(g)[<<n, stack>>])
<1> DEFINE D == DOMAIN g.nodes
           left(s) == Cardinality(D \ s)
           second == Seconds(g)
           Bad == {k \in Nat : \E b \in Active(g, "transform"), s \in SUBSET D :
                                 /\ left(s) = k /\ \A a \in s : IsAbove(g, b, a)
                                 /\ ~ SecondHolds(g, b, second[<<b, s>>])}
<1>1. \A s \in SUBSET D : left(s) \in Nat
  <2> TAKE s \in SUBSET D
  <2>1. left(s) \in 0 .. Cardinality(D)
    <3>1. n \in D BY DEF Active
    <3> QED BY <3>1, StackGrows
  <2>2. Cardinality(D) \in Nat BY BoxesAre
  <2> HIDE DEF left, D
  <2> QED BY <2>1, <2>2
<1>2. SUFFICES ASSUME Bad # {} PROVE FALSE
  <2> SUFFICES ASSUME ~ SecondHolds(g, n, second[<<n, stack>>]) PROVE Bad # {} BY <1>2
  <2> HIDE DEF second, left
  <2>1. left(stack) \in Nat BY <1>1
  <2> QED BY <2>1
<1>3. PICK k \in Bad : \A j \in Bad : k <= j
  <2>1. Bad \subseteq Nat OBVIOUS
  <2> HIDE DEF Bad
  <2> QED BY <1>2, <2>1, Least
<1>4. PICK b \in Active(g, "transform"), s \in SUBSET D :
        /\ left(s) = k /\ \A a \in s : IsAbove(g, b, a)
        /\ ~ SecondHolds(g, b, second[<<b, s>>])
  OBVIOUS
<1>5. b \in D BY DEF Active
<1> DEFINE rest == SecondRest(g, b)
           more == s \union {b}
           f == [i \in DOMAIN rest |-> CompiledWith(g, rest[i], second[<<rest[i], more>>])]
           steps == <<>> \o f
<1>6. second[<<b, s>>] = CompileSecond(g, b, s, steps)
  <2>1. second[<<b, s>>] = SecondBody(g, second, b, s) BY <1>5, SecondsAre
  <2> HIDE DEF second
  <2>2. SecondBody(g, second, b, s) = CompileSecond(g, b, s, steps) BY DEF SecondBody, Given
  <2> QED BY <2>1, <2>2
<1> HIDE DEF steps, second
<1>7. CASE What(g, b) \notin Dual
  <2>1. second[<<b, s>>] = NoSide BY <1>6, <1>7 DEF CompileSecond
  <2>2. b \notin SecondInputs(g) BY <1>7 DEF SecondInputs
  <2>3. SecondHolds(g, b, NoSide) BY <2>2 DEF SecondHolds, Agreed, NoSide
  <2> QED BY <1>4, <2>1, <2>3
<1>8. CASE What(g, b) \in Dual /\ b \in s
  <2>1. IsAbove(g, b, b) BY <1>4, <1>8
  <2> QED BY <1>5, <2>1, NotAboveItself
<1>9. CASE What(g, b) \in Dual /\ b \notin s /\ ParentsOn(g, b, "inRight") = {}
  <2>1. second[<<b, s>>] = Refused("no-second-source")
    BY <1>6, <1>9 DEF CompileSecond, CompileSideInput
  <2>2. b \in SecondInputs(g) BY <1>9 DEF SecondInputs
  <2>3. SecondHolds(g, b, Refused("no-second-source")) BY <2>2, RefusedHolds, ReportedAre
  <2> QED BY <1>4, <2>1, <2>3
<1>10. CASE What(g, b) \in Dual /\ b \notin s /\ ParentsOn(g, b, "inRight") # {}
  <2>1. PICK m \in DOMAIN g.nodes :
          LET walk == ChainToSink(g, m)
              c == Alive(g, walk.nodes)
          IN /\ [from |-> m, to |-> b, at |-> "inRight"] \in g.links
             /\ ParentsOn(g, b, "inRight") = {m} /\ SecondWalk(g, b) = walk
             /\ SecondRest(g, b) = SubSeq(c, 2, Len(c)) /\ c \in Seq(DOMAIN g.nodes)
             /\ SecondRest(g, b) \in Seq(DOMAIN g.nodes)
    BY <1>10, SideWalkIs
  <2> DEFINE walk == ChainToSink(g, m)
             c == Alive(g, walk.nodes)
  <2>2. /\ [from |-> m, to |-> b, at |-> "inRight"] \in g.links /\ SecondWalk(g, b) = walk
        /\ rest = SubSeq(c, 2, Len(c)) /\ rest \in Seq(DOMAIN g.nodes)
    BY <2>1
  <2>3. second[<<b, s>>] = CompileSide(g, b, FaultOf(g, walk), c, steps)
    <3>1. second[<<b, s>>] = CompileSideInput(g, b, steps) BY <1>6, <1>10 DEF CompileSecond
    <3>2. CompileSideInput(g, b, steps)
            = Given(SecondWalk(g, b),
                    LAMBDA w : CompileSide(g, b, FaultOf(g, w), Alive(g, w.nodes), steps))
      BY <1>10 DEF CompileSideInput
    <3> HIDE DEF walk
    <3>3. Given(walk, LAMBDA w : CompileSide(g, b, FaultOf(g, w), Alive(g, w.nodes), steps))
            = CompileSide(g, b, FaultOf(g, walk), Alive(g, walk.nodes), steps)
      BY DEF Given
    <3> QED BY <2>2, <3>1, <3>2, <3>3
  <2> HIDE DEF walk
  <2> HIDE DEF c, rest
  <2>4. DOMAIN rest = 1 .. Len(rest) /\ Len(rest) \in Nat /\ \A i \in DOMAIN rest : rest[i] \in D
    <3>1. rest \in Seq(D) BY <2>2
    <3> HIDE DEF D
    <3> QED BY <3>1, SeqFacts
  <2>5. steps = f /\ DOMAIN f = DOMAIN rest
    <3>1. f = [i \in 1 .. Len(rest) |-> f[i]] BY <2>4
    <3> HIDE DEF f
    <3>2. <<>> \o f = f /\ DOMAIN f = 1 .. Len(rest) BY <3>1, <2>4, Forced
    <3> QED BY <3>2, <2>4 DEF steps
  <2>10. \A i \in DOMAIN rest : IsAbove(g, rest[i], b)
    <3> DEFINE ids == walk.nodes
    <3>1. LineTo(g, m, ids) BY WalkEnds DEF walk
    <3> HIDE DEF ids
    <3>2. \A x \in ToSet(ids) : IsAbove(g, x, b) BY <2>2, <3>1, SideIsAbove
    <3>3. c \in Seq(D) /\ ToSet(c) \subseteq ToSet(ids)
      <4>1. c = Alive(g, ids) BY DEF c, ids
      <4> QED BY <3>1, <4>1, AliveIs
    <3>4. ToSet(rest) \subseteq ToSet(c)
      <4>1. rest = SubSeq(c, 2, Len(c)) BY <2>2
      <4>2. Len(c) \in Int /\ Len(c) <= Len(c) /\ 2 \in Nat
        <5> HIDE DEF D
        <5> QED BY <3>3
      <4> DEFINE k2 == Len(c)
      <4>3. k2 \in Int /\ k2 <= Len(c) /\ rest = SubSeq(c, 2, k2) BY <4>1, <4>2
      <4> HIDE DEF D, k2
      <4> QED BY <3>3, <4>3, SubIs
    <3> QED BY <3>2, <3>3, <3>4 DEF ToSet
  <2>6. ASSUME NEW i \in DOMAIN rest, rest[i] \in Active(g, "transform")
        PROVE  SecondHolds(g, rest[i], second[<<rest[i], more>>])
    <3>1. left(s) # 0 /\ more \in SUBSET D /\ left(more) = left(s) - 1
      BY <1>5, <1>10, StackGrows
    <3>2. left(s) = k /\ k \in Nat BY <1>4
    <3> HIDE DEF left
    <3>3. k - 1 \in Nat /\ ~ k <= k - 1 /\ left(more) = k - 1 BY <3>1, <3>2
    <3> HIDE DEF more
    <3>4. k - 1 \notin Bad BY <1>3, <3>3
    <3>5. \A a \in more : IsAbove(g, rest[i], a)
      <4>1. IsAbove(g, rest[i], b) BY <2>10
      <4> QED BY <1>4, <4>1, AboveIsTransitive DEF more
    <3> QED BY <2>6, <3>1, <3>3, <3>4, <3>5
  <2>7. \A i \in DOMAIN rest : \E x :
          /\ steps[i] = CompiledWith(g, rest[i], x)
          /\ rest[i] \in Active(g, "transform") => SecondHolds(g, rest[i], x)
    <3> TAKE i \in DOMAIN rest
    <3> DEFINE x == second[<<rest[i], more>>]
    <3>1. steps[i] = CompiledWith(g, rest[i], x) BY <2>5
    <3>2. rest[i] \in Active(g, "transform") => SecondHolds(g, rest[i], x) BY <2>6
    <3> HIDE DEF x
    <3> QED BY <3>1, <3>2
  <2>8. DOMAIN steps = DOMAIN rest BY <2>5
  <2> HIDE DEF f, D
  <2>9. SecondHolds(g, b, CompileSide(g, b, FaultOf(g, walk), Alive(g, walk.nodes), steps))
    <3>1. rest = SubSeq(Alive(g, ChainToSink(g, m).nodes), 2, Len(Alive(g, ChainToSink(g, m).nodes)))
      BY <2>2 DEF c, walk
    <3>2. rest \in Seq(DOMAIN g.nodes) BY <2>2
    <3> QED BY <1>10, <2>2, <2>7, <2>8, <3>1, <3>2, SideHolds DEF walk
  <2> QED BY <1>4, <2>3, <2>9 DEF c
<1> QED BY <1>7, <1>8, <1>9, <1>10

LEMMA TransformHolds ==
  ASSUME NEW g, Drawn(g), NEW n \in Active(g, "transform")
  PROVE  LET c == CompileTransform(g, n)
         IN /\ c.errors = {} => Agreed(g, n) /\ \A u \in c.used : u = n \/ Used(g, u)
            /\ c.errors \ Overlooked(g) # {} => Reported(g) # {}
<1> DEFINE c == CompileTransform(g, n)
           second == Seconds(g)[<<n, {}>>]
<1>1. c = CompiledWith(g, n, second) BY TransformIs
<1>2. SecondHolds(g, n, second)
  <2>1. {} \in SUBSET DOMAIN g.nodes OBVIOUS
  <2> QED BY <2>1, SecondsHold
<1> HIDE DEF c, second
<1>3. c.errors = second.errors /\ c.used = {n} \union second.used BY <1>1 DEF CompiledWith
<1>4. /\ c.errors = {} => Agreed(g, n) /\ \A u \in c.used : u = n \/ Used(g, u)
      /\ c.errors \ Overlooked(g) # {} => Reported(g) # {}
  BY <1>2, <1>3 DEF SecondHolds
<1> QED BY <1>4 DEF c
-----------------------------------------------------------------------------
(* The linter and the compiler. *)

LEMMA TransformsFrom ==
  ASSUME NEW g, NEW ids \in Seq(DOMAIN g.nodes), ToSet(ids) \subseteq AliveIn(g)
  PROVE  LET steps == Transforms(g, ids)
         IN /\ \A c \in ToSet(steps) : \E n \in Active(g, "transform") \cap ToSet(ids) : c = CompileTransform(g, n)
            /\ \A n \in ToSet(ids) : Kind(g, n) = "transform" => CompileTransform(g, n) \in ToSet(steps)
<1> DEFINE T == TransformBoxes(g)
           nodes == Among(ids, T)
           steps == Transforms(g, ids)
<1>1. steps = [i \in DOMAIN nodes |-> CompileTransform(g, nodes[i])] /\ DOMAIN steps = DOMAIN nodes
  BY TransformsAre
<1>2. ToSet(nodes) = ToSet(ids) \cap T
  <2> HIDE DEF T
  <2> QED BY AmongIs
<1> HIDE DEF nodes, steps
<1>3. ASSUME NEW c \in ToSet(steps)
      PROVE  \E n \in Active(g, "transform") \cap ToSet(ids) : c = CompileTransform(g, n)
  <2>1. PICK i \in DOMAIN nodes : c = CompileTransform(g, nodes[i]) BY <1>1 DEF ToSet
  <2>2. nodes[i] \in ToSet(nodes) BY DEF ToSet
  <2>3. nodes[i] \in Active(g, "transform") \cap ToSet(ids) BY <1>2, <2>2 DEF TransformBoxes, AliveIn, Active
  <2> QED BY <2>1, <2>3
<1>4. ASSUME NEW n \in ToSet(ids), Kind(g, n) = "transform" PROVE CompileTransform(g, n) \in ToSet(steps)
  <2>1. n \in DOMAIN g.nodes BY DEF AliveIn
  <2>2. n \in ToSet(nodes) BY <1>2, <1>4, <2>1 DEF TransformBoxes
  <2>3. PICK i \in DOMAIN nodes : n = nodes[i] BY <2>2 DEF ToSet
  <2>4. i \in DOMAIN steps /\ steps[i] = CompileTransform(g, n) BY <1>1, <2>3
  <2> QED BY <2>4 DEF ToSet
<1> QED BY <1>3, <1>4 DEF steps

LEMMA ChainSub ==
  ASSUME NEW g, NEW c, NEW end, IsChain(g, c, end), NEW a \in Nat, a >= 1, NEW b \in Int, b <= Len(c)
  PROVE  /\ SubSeq(c, a, b) \in Seq(DOMAIN g.nodes)
         /\ ToSet(SubSeq(c, a, b)) \subseteq AliveIn(g) \cap ToSet(c)
<1> DEFINE D == DOMAIN g.nodes
           sub == SubSeq(c, a, b)
<1>1. c \in Seq(D) /\ ToSet(c) \subseteq AliveIn(g) BY DEF IsChain
<1> HIDE DEF D
<1>2. sub \in Seq(D) /\ ToSet(sub) \subseteq ToSet(c) BY <1>1, SubIs
<1> QED BY <1>1, <1>2 DEF D

\* What all destinations share is alive, and so is the run of it before the branches.
LEMMA MainAre ==
  ASSUME NEW g, Drawn(g), NEW chains, NEW prefix, NEW compiled,
         IsBuilt(g, chains, prefix, compiled), Destinations(g) # <<>>
  PROVE  LET main == MainPrefix(g, prefix)
         IN /\ prefix \in Seq(DOMAIN g.nodes) /\ ToSet(prefix) \subseteq AliveIn(g) /\ Works(g, prefix)
            /\ main \in Seq(DOMAIN g.nodes) /\ ToSet(main) \subseteq AliveIn(g)
            /\ 1 \in DOMAIN chains /\ ToSet(main) \subseteq ToSet(chains[1])
<1> DEFINE good == Destinations(g)
           D == DOMAIN g.nodes
           c == chains[1]
           mid == Middle(c)
           main == MainPrefix(g, prefix)
<1>1. /\ IsChain(g, c, good[1]) /\ Begins(prefix, mid) /\ prefix \in Seq(D) /\ 1 \in DOMAIN chains
  <2> HIDE DEF c, mid
  <2>1. 1 \in DOMAIN good /\ prefix \in Seq(D) /\ DOMAIN chains = DOMAIN good BY ChainsOf
  <2>2. /\ IsChain(g, chains[1], good[1]) /\ Begins(prefix, Middle(chains[1]))
    <3> HIDE DEF good
    <3>1. \A i \in DOMAIN good : IsChain(g, chains[i], good[i]) /\ Begins(prefix, Middle(chains[i]))
      BY ChainsOf DEF good
    <3> QED BY <2>1, <3>1
  <2> QED BY <2>1, <2>2 DEF c, mid
<1> HIDE DEF c, good
<1>2. c \in Seq(D) /\ Len(c) >= 2 /\ Len(c) \in Nat BY <1>1 DEF IsChain
<1>3. mid \in Seq(D) /\ ToSet(mid) \subseteq AliveIn(g) /\ ToSet(mid) \subseteq ToSet(c)
  <2>1. 2 \in Nat /\ Len(c) - 1 \in Int /\ Len(c) - 1 <= Len(c) BY <1>2
  <2>2. mid = SubSeq(c, 2, Len(c) - 1) BY DEF Middle
  <2> DEFINE k == Len(c) - 1
  <2> HIDE DEF mid
  <2>3. k \in Int /\ k <= Len(c) /\ mid = SubSeq(c, 2, k) BY <2>1, <2>2
  <2> HIDE DEF k
  <2> QED BY <1>1, <2>3, ChainSub
<1>4. Works(g, mid) /\ Len(mid) \in Nat
  <2>1. Works(g, mid) BY <1>1, MiddleIs
  <2> HIDE DEF mid, D
  <2>2. Len(mid) \in Nat BY <1>3
  <2> QED BY <2>1, <2>2
<1> HIDE DEF mid
<1>5. prefix = SubSeq(mid, 1, Len(prefix)) /\ Len(prefix) <= Len(mid) /\ Len(prefix) \in Nat
  BY <1>1 DEF Begins
<1>6. ToSet(prefix) \subseteq ToSet(mid)
  <2> DEFINE k == Len(prefix)
             sub == SubSeq(mid, 1, k)
  <2>1. k \in Int /\ k <= Len(mid) /\ prefix = sub BY <1>5
  <2> HIDE DEF D, k
  <2>2. ToSet(sub) \subseteq ToSet(mid) BY <1>3, <2>1, SubIs
  <2> HIDE DEF sub
  <2> QED BY <2>1, <2>2
<1>7. Works(g, prefix)
  <2>1. \A x \in ToSet(mid) : Kind(g, x) \in {"transform", "validation"} BY <1>4 DEF Works, ToSet
  <2>2. \A i \in DOMAIN prefix : prefix[i] \in ToSet(mid) BY <1>6 DEF ToSet
  <2> QED BY <2>1, <2>2 DEF Works
<1>8. main \in Seq(D) /\ ToSet(main) \subseteq ToSet(prefix)
  <2> DEFINE R == {0} \union {i \in DOMAIN prefix : Kind(g, prefix[i]) = "validation"}
             l == LastRule(g, prefix)
             sub == SubSeq(prefix, 1, l)
  <2>1. l \in 0 .. Len(prefix)
    <3>1. DOMAIN prefix = 1 .. Len(prefix) /\ Len(prefix) \in Nat BY <1>1
    <3>2. R \in SUBSET (0 .. Len(prefix)) /\ R # {} BY <3>1
    <3> HIDE DEF R
    <3>3. Max(R) \in R BY <3>1, <3>2, MaxIs
    <3> QED BY <3>2, <3>3 DEF LastRule, R
  <2>2. main = IF l > 0 THEN sub ELSE prefix BY DEF MainPrefix
  <2> HIDE DEF l, main
  <2>3. l \in Int /\ l <= Len(prefix) BY <1>5, <2>1
  <2> HIDE DEF D
  <2>4. sub \in Seq(D) /\ ToSet(sub) \subseteq ToSet(prefix) BY <1>1, <2>3, SubIs
  <2> HIDE DEF sub
  <2> QED BY <1>1, <2>2, <2>4
<1> HIDE DEF main
<1> QED BY <1>1, <1>3, <1>6, <1>7, <1>8 DEF D, main, c

LEMMA TailsAre ==
  ASSUME NEW g, NEW n \in Nat, NEW chains, DOMAIN chains = 1 .. n, NEW main
  PROVE  LET tails == Tails(g, chains, main)
         IN DOMAIN tails = 1 .. n /\ \A i \in 1 .. n : tails[i] = Transforms(g, TailOf(chains[i], main))
<1> DEFINE f == [i \in 1 .. n |-> Transforms(g, TailOf(chains[i], main))]
<1>1. Tails(g, chains, main) = <<>> \o f BY DEF Tails, TailOf
<1>2. f = [i \in 1 .. n |-> f[i]] /\ \A i \in 1 .. n : f[i] = Transforms(g, TailOf(chains[i], main)) OBVIOUS
<1> HIDE DEF f
<1>3. <<>> \o f = f /\ DOMAIN f = 1 .. n BY <1>2, Forced
<1> QED BY <1>1, <1>2, <1>3

\* Whatever was compiled is an active transformation of a chain; and with no rule
\* astray or parted from the others, each of them was.
LEMMA CompiledFrom ==
  ASSUME NEW g, Drawn(g), NEW chains, NEW prefix, NEW compiled,
         IsBuilt(g, chains, prefix, compiled), Destinations(g) # <<>>
  PROVE  /\ \A c \in compiled : \E n \in Active(g, "transform"), i \in DOMAIN chains :
              n \in ToSet(chains[i]) /\ c = CompileTransform(g, n)
         /\ (Wedged(g, prefix) = {} /\ Stray(g, Middles(chains), prefix) = {}) =>
              \A i \in DOMAIN chains : \A n \in ToSet(Middle(chains[i])) :
                Kind(g, n) = "transform" => CompileTransform(g, n) \in compiled
<1> DEFINE good == Destinations(g)
           D == DOMAIN g.nodes
           main == MainPrefix(g, prefix)
           steps == Transforms(g, main)
           tails == Tails(g, chains, main)
           m == Len(good)
<1>1. compiled = ToSet(steps) \union UNION {ToSet(tails[i]) : i \in DOMAIN tails} BY DEF IsBuilt
<1>2. /\ prefix \in Seq(D) /\ main \in Seq(D) /\ ToSet(main) \subseteq AliveIn(g)
      /\ 1 \in DOMAIN chains /\ ToSet(main) \subseteq ToSet(chains[1])
  BY MainAre
<1>3. good \in Seq(D) /\ m \in Nat /\ DOMAIN good = 1 .. m BY DestinationsAre
<1>4. /\ DOMAIN chains = DOMAIN good
      /\ \A i \in DOMAIN good : /\ IsChain(g, chains[i], good[i])
                                /\ Middle(chains[i]) \in Middles(chains) /\ Begins(prefix, Middle(chains[i]))
  BY ChainsOf
<1> HIDE DEF good, m
<1>5. DOMAIN chains = 1 .. m BY <1>3, <1>4
<1> HIDE DEF main
<1>6. DOMAIN tails = 1 .. m /\ \A i \in 1 .. m : tails[i] = Transforms(g, TailOf(chains[i], main))
  <2>1. m \in Nat BY <1>3
  <2>2. /\ DOMAIN Tails(g, chains, main) = 1 .. m
        /\ \A i \in 1 .. m : Tails(g, chains, main)[i] = Transforms(g, TailOf(chains[i], main))
    BY <1>5, <2>1, TailsAre
  <2> QED BY <2>2
<1>7. \A i \in 1 .. m : /\ TailOf(chains[i], main) \in Seq(D)
                        /\ ToSet(TailOf(chains[i], main)) \subseteq AliveIn(g) \cap ToSet(chains[i])
  <2> TAKE i \in 1 .. m
  <2> DEFINE c == chains[i]
             a == Len(main) + 2
             b == Len(c) - 1
  <2>1. IsChain(g, c, good[i]) BY <1>3, <1>4
  <2> HIDE DEF c
  <2>2. Len(main) \in Nat /\ Len(c) \in Nat
    <3>1. c \in Seq(D) BY <2>1 DEF IsChain
    <3> HIDE DEF D
    <3> QED BY <3>1, <1>2
  <2>3. a \in Nat /\ a >= 1 /\ b \in Int /\ b <= Len(c) BY <2>2
  <2>4. TailOf(c, main) = SubSeq(c, a, b) BY DEF TailOf
  <2> HIDE DEF a, b
  <2>5. SubSeq(c, a, b) \in Seq(D) /\ ToSet(SubSeq(c, a, b)) \subseteq AliveIn(g) \cap ToSet(c)
    BY <2>1, <2>3, ChainSub
  <2> QED BY <2>4, <2>5 DEF c
<1>8. /\ \A c \in ToSet(steps) : \E n \in Active(g, "transform") \cap ToSet(main) : c = CompileTransform(g, n)
      /\ \A n \in ToSet(main) : Kind(g, n) = "transform" => CompileTransform(g, n) \in ToSet(steps)
  BY <1>2, TransformsFrom
<1>9. \A i \in 1 .. m :
        /\ \A c \in ToSet(tails[i]) :
             \E n \in Active(g, "transform") \cap ToSet(chains[i]) : c = CompileTransform(g, n)
        /\ \A n \in ToSet(TailOf(chains[i], main)) : Kind(g, n) = "transform" => CompileTransform(g, n) \in ToSet(tails[i])
  <2> TAKE i \in 1 .. m
  <2> DEFINE t == TailOf(chains[i], main)
  <2>1. /\ t \in Seq(D) /\ ToSet(t) \subseteq AliveIn(g) /\ ToSet(t) \subseteq ToSet(chains[i])
        /\ tails[i] = Transforms(g, t)
    BY <1>6, <1>7
  <2> HIDE DEF t, tails
  <2>2. /\ \A c \in ToSet(Transforms(g, t)) :
             \E n \in Active(g, "transform") \cap ToSet(t) : c = CompileTransform(g, n)
        /\ \A n \in ToSet(t) : Kind(g, n) = "transform" => CompileTransform(g, n) \in ToSet(Transforms(g, t))
    BY <2>1, TransformsFrom
  <2> QED BY <2>1, <2>2 DEF t
<1> HIDE DEF steps, tails
<1>10. ASSUME NEW c \in compiled
       PROVE  \E n \in Active(g, "transform"), i \in DOMAIN chains :
                n \in ToSet(chains[i]) /\ c = CompileTransform(g, n)
  <2>1. CASE c \in ToSet(steps) BY <1>2, <1>8, <2>1
  <2>2. CASE \E i \in DOMAIN tails : c \in ToSet(tails[i]) BY <1>5, <1>6, <1>9, <2>2
  <2> QED BY <1>1, <2>1, <2>2
<1>11. ASSUME Wedged(g, prefix) = {}, Stray(g, Middles(chains), prefix) = {}, NEW i \in DOMAIN chains,
              NEW n \in ToSet(Middle(chains[i])), Kind(g, n) = "transform"
       PROVE  CompileTransform(g, n) \in compiled
  <2> DEFINE c == chains[i]
             t == TailOf(c, main)
             x == Among(main, TransformBoxes(g))
             y == Among(prefix, RuleBoxes(g))
             mid == Middle(c)
  <2>1. /\ IsChain(g, c, good[i]) /\ mid \in Middles(chains) /\ Begins(prefix, mid) BY <1>4, <1>11
  <2>2. i \in 1 .. m BY <1>5
  <2> HIDE DEF c
  <2>3. t \in Seq(D) /\ mid = (x \o y) \o t
    <3>1. mid \in Middles(chains) /\ Begins(prefix, mid) BY <2>1
    <3> QED BY <1>2, <1>11, <2>1, <3>1, WayIs DEF main
  <2>4. /\ x \in Seq(D) /\ ToSet(x) \subseteq ToSet(main)
        /\ y \in Seq(D) /\ ToSet(y) \subseteq RuleBoxes(g)
    <3> DEFINE T == TransformBoxes(g)
               R == RuleBoxes(g)
    <3> HIDE DEF D, T, R
    <3>1. Among(main, T) \in Seq(D \cap T) /\ ToSet(Among(main, T)) = ToSet(main) \cap T BY <1>2, AmongIs
    <3>2. Among(prefix, R) \in Seq(D \cap R) /\ ToSet(Among(prefix, R)) = ToSet(prefix) \cap R BY <1>2, AmongIs
    <3>3. Among(main, T) \in Seq(D) /\ Among(prefix, R) \in Seq(D) BY <3>1, <3>2
    <3> QED BY <3>1, <3>2, <3>3 DEF T, R
  <2>5. n \in ToSet(mid) BY <1>11 DEF c
  <2> HIDE DEF x, y, t, mid, D
  <2>6. ToSet(mid) \subseteq ToSet(x) \union ToSet(y) \union ToSet(t)
    <3> SUFFICES ASSUME NEW j \in DOMAIN mid PROVE mid[j] \in ToSet(x) \union ToSet(y) \union ToSet(t)
      BY DEF ToSet
    <3> DEFINE a == Len(x)
               b == Len(y)
               w == x \o y
    <3>1. /\ a \in Nat /\ b \in Nat /\ DOMAIN x = 1 .. a /\ DOMAIN y = 1 .. b
          /\ w \in Seq(D) /\ Len(w) = a + b
          /\ \A h \in 1 .. a : w[h] = x[h]
          /\ \A h \in 1 .. b : w[a + h] = y[h]
      BY <2>3, <2>4
    <3>2. mid = w \o t /\ t \in Seq(D) BY <2>3
    <3> HIDE DEF a, b, w
    <3>3. /\ DOMAIN t = 1 .. Len(t) /\ Len(t) \in Nat
          /\ DOMAIN mid = 1 .. Len(w) + Len(t)
          /\ \A h \in 1 .. Len(w) : mid[h] = w[h]
          /\ \A h \in 1 .. Len(t) : mid[Len(w) + h] = t[h]
      <4>1. w \in Seq(D) /\ t \in Seq(D) BY <3>1, <3>2
      <4>2. mid = w \o t BY <3>2
      <4>3. DOMAIN t = 1 .. Len(t) /\ Len(t) \in Nat /\ Len(w) \in Nat BY <4>1
      <4> QED BY <4>1, <4>2, <4>3
    <3>4. CASE j \in 1 .. a
      <4>1. mid[j] = x[j] /\ j \in DOMAIN x BY <3>1, <3>3, <3>4
      <4> QED BY <4>1 DEF ToSet
    <3>5. CASE j \in a + 1 .. a + b
      <4>1. j - a \in 1 .. b /\ a + (j - a) = j /\ j \in 1 .. Len(w) BY <3>1, <3>5
      <4>2. mid[j] = y[j - a] /\ j - a \in DOMAIN y BY <3>1, <3>3, <4>1
      <4> QED BY <4>2 DEF ToSet
    <3>6. CASE j \in a + b + 1 .. a + b + Len(t)
      <4>1. j - Len(w) \in 1 .. Len(t) /\ Len(w) + (j - Len(w)) = j BY <3>1, <3>3, <3>6
      <4>2. mid[j] = t[j - Len(w)] /\ j - Len(w) \in DOMAIN t BY <3>3, <4>1
      <4> QED BY <4>2 DEF ToSet
    <3>7. j \in 1 .. a \/ j \in a + 1 .. a + b \/ j \in a + b + 1 .. a + b + Len(t)
      BY <3>1, <3>3
    <3> QED BY <3>4, <3>5, <3>6, <3>7
  <2>7. n \notin ToSet(y) BY <1>11, <2>4 DEF RuleBoxes
  <2>8. CASE n \in ToSet(x)
    <3>1. CompileTransform(g, n) \in ToSet(steps) BY <1>8, <1>11, <2>4, <2>8
    <3> QED BY <1>1, <3>1
  <2>9. CASE n \in ToSet(t)
    <3>1. CompileTransform(g, n) \in ToSet(tails[i]) BY <1>9, <1>11, <2>2, <2>9 DEF t, c
    <3> QED BY <1>1, <1>6, <2>2, <3>1
  <2> QED BY <2>5, <2>6, <2>7, <2>8, <2>9
<1> QED BY <1>10, <1>11

\* A walk from a box all destinations share goes through those before it, and no other.
LEMMA PrefixWalk ==
  ASSUME NEW g, Drawn(g), NEW chains, NEW prefix, NEW compiled,
         IsBuilt(g, chains, prefix, compiled), Destinations(g) # <<>>,
         NEW a \in DOMAIN prefix, NEW b \in DOMAIN prefix
  PROVE  /\ prefix[b] \in ToSet(ChainToSink(g, prefix[a]).nodes) <=> b <= a
         /\ prefix[a] = prefix[b] => a = b
<1> DEFINE good == Destinations(g)
           D == DOMAIN g.nodes
           end == good[1]
           ids == ChainToSink(g, end).nodes
           c == chains[1]
           mid == Middle(c)
<1>1. /\ prefix \in Seq(D) /\ IsChain(g, c, end) /\ SourceChain(g, end, ids, c) /\ Begins(prefix, mid)
  <2>1. prefix \in Seq(D) /\ 1 \in DOMAIN good BY ChainsOf
  <2>2. \A i \in DOMAIN good :
          /\ IsChain(g, chains[i], good[i]) /\ Begins(prefix, Middle(chains[i]))
          /\ SourceChain(g, good[i], ChainToSink(g, good[i]).nodes, chains[i])
    <3> HIDE DEF c, mid, end, ids
    <3> QED BY ChainsOf
  <2> HIDE DEF good
  <2> QED BY <2>1, <2>2
<1> HIDE DEF c, end, good, ids
<1>2. /\ FromSource(g, end, ids) /\ c = Among(ids, AliveIn(g)) /\ c \in Seq(D) /\ Once(c)
      /\ ToSet(c) = ToSet(ids) \cap AliveIn(g)
  BY <1>1 DEF SourceChain
<1>3. ids \in Seq(D) /\ Once(ids) BY <1>2 DEF FromSource, LineTo
<1>4. mid \in Seq(D) /\ Len(mid) = Len(c) - 2 /\ \A i \in 1 .. Len(c) - 2 : mid[i] = c[i + 1]
  BY <1>1, MiddleIs
<1> HIDE DEF D, mid
<1>5. /\ Len(c) \in Nat /\ DOMAIN c = 1 .. Len(c) /\ Len(ids) \in Nat /\ DOMAIN ids = 1 .. Len(ids)
      /\ Len(mid) \in Nat /\ DOMAIN mid = 1 .. Len(mid)
  BY <1>2, <1>3, <1>4
<1>6. Len(prefix) \in Nat /\ DOMAIN prefix = 1 .. Len(prefix) BY <1>1
<1>7. Len(prefix) <= Len(mid) /\ \A i \in DOMAIN prefix : prefix[i] = mid[i]
  <2>1. Len(prefix) <= Len(mid) /\ prefix = SubSeq(mid, 1, Len(prefix)) BY <1>1 DEF Begins
  <2> DEFINE k == Len(prefix)
  <2>2. k \in 0 .. Len(mid) BY <1>5, <1>6, <2>1
  <2> HIDE DEF k
  <2>3. CutInTwo(D, mid, k, SubSeq(mid, 1, k), SubSeq(mid, k + 1, Len(mid))) BY <1>4, <2>2, CutIs
  <2>4. \A i \in 1 .. k : SubSeq(mid, 1, k)[i] = mid[i] BY <2>3 DEF CutInTwo
  <2>5. SubSeq(mid, 1, k) = prefix BY <2>1 DEF k
  <2> QED BY <1>6, <2>1, <2>4, <2>5 DEF k
<1>8. ASSUME NEW i \in DOMAIN prefix
      PROVE  i \in Nat /\ i + 1 \in DOMAIN c /\ prefix[i] = c[i + 1] /\ \E h \in 1 .. Len(ids) : prefix[i] = ids[h]
  <2>1. i \in 1 .. Len(c) - 2 /\ i + 1 \in DOMAIN c /\ i \in Nat BY <1>4, <1>5, <1>6, <1>7
  <2>2. prefix[i] = c[i + 1] BY <1>4, <1>7, <2>1
  <2>3. c[i + 1] \in ToSet(c) BY <2>1 DEF ToSet
  <2>4. c[i + 1] \in ToSet(ids) BY <1>2, <2>3
  <2> QED BY <1>5, <2>1, <2>2, <2>4 DEF ToSet
<1>9. PICK h \in 1 .. Len(ids) : prefix[a] = ids[h] BY <1>8
<1>10. PICK k \in 1 .. Len(ids) : prefix[b] = ids[k] BY <1>8
<1>11. /\ a \in Nat /\ b \in Nat /\ a + 1 \in DOMAIN c /\ b + 1 \in DOMAIN c
       /\ c[a + 1] = ids[h] /\ c[b + 1] = ids[k]
  BY <1>8, <1>9, <1>10
<1>12. ids[h] = ids[k] => h = k BY <1>3, <1>5 DEF Once
<1>13. c[a + 1] = c[b + 1] => a = b
  <2>1. c[a + 1] = c[b + 1] => a + 1 = b + 1 BY <1>2, <1>11 DEF Once
  <2> QED BY <1>11, <2>1
<1>14. ASSUME NEW i \in 1 .. Len(ids), NEW j \in 1 .. Len(ids), i < j, NEW x \in DOMAIN c, NEW y \in DOMAIN c,
              c[x] = ids[i], c[y] = ids[j]
       PROVE  x < y
  <2>1. x \in DOMAIN Among(ids, AliveIn(g)) /\ y \in DOMAIN Among(ids, AliveIn(g))
        /\ Among(ids, AliveIn(g))[x] = ids[i] /\ Among(ids, AliveIn(g))[y] = ids[j]
    BY <1>2, <1>14
  <2> QED BY <1>3, <1>14, <2>1, AmongOrder
<1>15. k < h => b + 1 < a + 1 BY <1>11, <1>14
<1>16. h < k => a + 1 < b + 1 BY <1>11, <1>14
<1>17. k <= h <=> b <= a
  <2>1. h \in Nat /\ k \in Nat BY <1>5
  <2>2. h = k => a = b BY <1>11, <1>13
  <2> QED BY <1>11, <1>15, <1>16, <2>1, <2>2
<1>18. ChainToSink(g, ids[h]).nodes = SubSeq(ids, 1, h)
  <2>1. ChainToSink(g, ids[h]) = [nodes |-> SubSeq(ids, 1, h), problem |-> "none"] BY <1>2, WalkDown
  <2> QED BY <2>1
<1>19. ids[k] \in ToSet(SubSeq(ids, 1, h)) <=> k <= h
  <2> DEFINE s == SubSeq(ids, 1, h)
  <2>1. h \in 0 .. Len(ids) /\ h \in Nat /\ k \in Nat BY <1>5
  <2>2. CutInTwo(D, ids, h, s, SubSeq(ids, h + 1, Len(ids))) BY <1>3, <2>1, CutIs
  <2> HIDE DEF s
  <2>3. s \in Seq(D) /\ Len(s) = h /\ \A i \in 1 .. h : s[i] = ids[i] BY <2>2 DEF CutInTwo
  <2>4. DOMAIN s = 1 .. h BY <2>3
  <2>5. ASSUME k <= h PROVE ids[k] \in ToSet(s)
    <3>1. k \in DOMAIN s /\ s[k] = ids[k] BY <2>1, <2>3, <2>4, <2>5
    <3> QED BY <3>1 DEF ToSet
  <2>6. ASSUME ids[k] \in ToSet(s) PROVE k <= h
    <3>1. PICK i \in DOMAIN s : ids[k] = s[i] BY <2>6 DEF ToSet
    <3>2. i \in 1 .. h /\ i \in DOMAIN ids /\ ids[k] = ids[i] BY <1>5, <2>3, <2>4, <3>1
    <3>3. k = i BY <1>3, <1>5, <3>2 DEF Once
    <3> QED BY <3>2, <3>3
  <2> QED BY <2>5, <2>6 DEF s
<1> QED BY <1>9, <1>10, <1>11, <1>13, <1>17, <1>18, <1>19

\* The boxes the linter finds between two rules are those the compiler does.
LEMMA SplitIsWedged ==
  ASSUME NEW g, Drawn(g), NEW chains, NEW prefix, NEW compiled,
         IsBuilt(g, chains, prefix, compiled), Destinations(g) # <<>>
  PROVE  Split(g) = Wedged(g, prefix)
<1> DEFINE D == DOMAIN g.nodes
           R == {i \in DOMAIN prefix : Kind(g, prefix[i]) = "validation"}
           first == FirstRule(g, prefix)
           last == LastRule(g, prefix)
           Apart(p) == \E a, b \in R : a < p /\ p < b
<1>1. prefix \in Seq(D) /\ ToSet(prefix) \subseteq AliveIn(g) /\ Works(g, prefix) BY MainAre
<1>2. DOMAIN prefix = 1 .. Len(prefix) /\ Len(prefix) \in Nat /\ R \subseteq 1 .. Len(prefix)
  <2>1. DOMAIN prefix = 1 .. Len(prefix) /\ Len(prefix) \in Nat
    <3> HIDE DEF D
    <3> QED BY <1>1
  <2> QED BY <2>1
<1>3. /\ first \in {Len(prefix) + 1} \union R /\ \A x \in R : first <= x
      /\ last \in {0} \union R /\ \A x \in R : last >= x
  <2> DEFINE S == {Len(prefix) + 1} \union R
             T == {0} \union R
             m == Len(prefix)
  <2>1. first = Min(S) /\ last = Max(T) BY DEF FirstRule, LastRule
  <2>2. S \in SUBSET Nat /\ S # {} /\ T \in SUBSET (0 .. m) /\ T # {} /\ m \in Nat
    <3>1. m \in Nat /\ R \subseteq 1 .. m BY <1>2
    <3> HIDE DEF R, m
    <3>2. R \subseteq Nat /\ R \subseteq 0 .. m /\ m + 1 \in Nat BY <3>1
    <3>3. {m + 1} \union R \subseteq Nat /\ {0} \union R \subseteq 0 .. m BY <3>1, <3>2
    <3> QED BY <3>1, <3>3 DEF m
  <2>3. R \subseteq S /\ R \subseteq T OBVIOUS
  <2> HIDE DEF S, T, m
  <2>4. Min(S) \in S /\ \A x \in S : Min(S) <= x BY <2>2, MinIs
  <2>5. Max(T) \in T /\ \A x \in T : Max(T) >= x BY <2>2, MaxIs
  <2> QED BY <2>1, <2>3, <2>4, <2>5 DEF S, T
<1> HIDE DEF first, last
<1>4. \A p \in DOMAIN prefix : (first < p /\ p < last) <=> Apart(p)
  <2> TAKE p \in DOMAIN prefix
  <2> HIDE DEF R
  <2>1. p \in Nat /\ p >= 1 /\ p <= Len(prefix) BY <1>2
  <2>2. ASSUME first < p, p < last PROVE first \in R /\ last \in R BY <1>2, <1>3, <2>1, <2>2
  <2>3. ASSUME NEW a \in R, NEW b \in R, a < p, p < b PROVE first < p /\ p < last
    <3>1. first <= a /\ last >= b BY <1>3
    <3>2. first \in Nat /\ last \in Nat /\ a \in Nat /\ b \in Nat BY <1>2, <1>3
    <3> QED BY <2>1, <2>3, <3>1, <3>2
  <2> QED BY <2>2, <2>3
<1>5. \A p, q \in DOMAIN prefix : prefix[p] = prefix[q] => p = q BY PrefixWalk
<1>6. Trunk(g) \intersect {n \in D : Kind(g, n) = "validation"} = {prefix[i] : i \in R}
  <2>1. \A n \in Trunk(g) : Kind(g, n) = "source" \/ n \in ToSet(prefix) BY TrunkIs
  <2>2. ToSet(prefix) \subseteq Trunk(g) BY TrunkIs
  <2>3. \A i \in DOMAIN prefix : prefix[i] \in D /\ prefix[i] \in ToSet(prefix)
    <3>1. \A i \in DOMAIN prefix : prefix[i] \in ToSet(prefix) BY DEF ToSet
    <3> QED BY <1>1, <3>1 DEF AliveIn
  <2>4. \A n \in ToSet(prefix) : \E i \in DOMAIN prefix : n = prefix[i] BY DEF ToSet
  <2> QED BY <2>1, <2>2, <2>3, <2>4
<1>7. ASSUME NEW p \in DOMAIN prefix, Kind(g, prefix[p]) = "transform"
      PROVE  BetweenRules(g, prefix[p]) <=> Apart(p)
  <2> DEFINE n == prefix[p]
             onTrunk(ids) == \E r \in ids \intersect Trunk(g) : Kind(g, r) = "validation"
             back == ToSet(ChainToSink(g, n).nodes) \ {n}
             ahead == FedThrough(g, n)
  <2>1. BetweenRules(g, n) <=> onTrunk(back) /\ onTrunk(ahead) BY DEF BetweenRules
  <2>2. n \in D /\ \A i \in R : prefix[i] \in D /\ prefix[i] # n
    <3>1. \A i \in DOMAIN prefix : prefix[i] \in ToSet(prefix) BY DEF ToSet
    <3> QED BY <1>1, <1>7, <3>1 DEF AliveIn
  <2>3. back \subseteq D
    <3>1. ChainToSink(g, n) \in Walks(g, n) BY <2>2, ChainWalks
    <3> DEFINE w == ChainToSink(g, n)
    <3> HIDE DEF w
    <3>2. w.nodes \in Seq(D) BY <3>1 DEF Walks, w
    <3>3. ToSet(w.nodes) \subseteq D
      <4> HIDE DEF D
      <4> QED BY <3>2 DEF ToSet
    <3> QED BY <3>3 DEF w
  <2>4. ahead \subseteq D BY DEF FedThrough
  <2>5. \A ids \in SUBSET D : onTrunk(ids) <=> \E i \in R : prefix[i] \in ids BY <1>6
  <2>6. \A i \in R : prefix[i] \in back <=> i < p
    <3> TAKE i \in R
    <3>1. i \in DOMAIN prefix /\ i \in Nat /\ p \in Nat BY <1>2
    <3>2. prefix[i] \in ToSet(ChainToSink(g, prefix[p]).nodes) <=> i <= p BY <3>1, PrefixWalk
    <3>3. prefix[i] # n /\ i # p BY <2>2
    <3> QED BY <3>1, <3>2, <3>3
  <2>7. \A i \in R : prefix[i] \in ahead <=> p < i
    <3> TAKE i \in R
    <3>1. i \in DOMAIN prefix /\ i \in Nat /\ p \in Nat BY <1>2
    <3>2. prefix[p] \in ToSet(ChainToSink(g, prefix[i]).nodes) <=> p <= i BY <3>1, PrefixWalk
    <3>3. prefix[i] # n /\ i # p /\ prefix[i] \in D BY <2>2
    <3>4. prefix[i] \in ahead <=> prefix[p] \in ToSet(ChainToSink(g, prefix[i]).nodes)
      BY <3>3 DEF FedThrough
    <3> QED BY <3>1, <3>2, <3>3, <3>4
  <2> HIDE DEF back, ahead, R
  <2>8. onTrunk(back) <=> \E i \in R : prefix[i] \in back BY <2>3, <2>5
  <2>9. onTrunk(ahead) <=> \E i \in R : prefix[i] \in ahead BY <2>4, <2>5
  <2> HIDE DEF onTrunk
  <2> QED BY <2>1, <2>6, <2>7, <2>8, <2>9 DEF n
<1>8. Wedged(g, prefix) = {prefix[p] : p \in {q \in DOMAIN prefix : Apart(q) /\ Kind(g, prefix[q]) = "transform"}}
  <2>1. \A q \in DOMAIN prefix : Kind(g, prefix[q]) # "validation" <=> Kind(g, prefix[q]) = "transform"
    BY <1>1 DEF Works
  <2>2. Wedged(g, prefix)
          = {prefix[i] : i \in {j \in DOMAIN prefix : first < j /\ j < last /\ Kind(g, prefix[j]) # "validation"}}
    BY DEF Wedged, first, last
  <2> HIDE DEF R
  <2>3. {j \in DOMAIN prefix : first < j /\ j < last /\ Kind(g, prefix[j]) # "validation"}
          = {q \in DOMAIN prefix : Apart(q) /\ Kind(g, prefix[q]) = "transform"}
    BY <1>4, <2>1
  <2> QED BY <2>2, <2>3
<1>9. ASSUME NEW n \in Split(g) PROVE n \in Wedged(g, prefix)
  <2>1. n \in Active(g, "transform") /\ n \in Trunk(g) /\ BetweenRules(g, n) BY DEF Split
  <2>2. Kind(g, n) = "transform" BY <2>1 DEF Active
  <2>3. n \in ToSet(prefix) BY <2>1, <2>2, TrunkIs
  <2>4. PICK p \in DOMAIN prefix : n = prefix[p] BY <2>3 DEF ToSet
  <2> HIDE DEF R
  <2>5. Apart(p) BY <1>7, <2>1, <2>2, <2>4
  <2> QED BY <1>8, <2>2, <2>4, <2>5
<1>10. ASSUME NEW n \in Wedged(g, prefix) PROVE n \in Split(g)
  <2>1. PICK p \in DOMAIN prefix : n = prefix[p] /\ Apart(p) /\ Kind(g, prefix[p]) = "transform"
    <3> HIDE DEF R
    <3> QED BY <1>8
  <2>2. BetweenRules(g, n)
    <3> HIDE DEF R
    <3> QED BY <1>7, <2>1
  <2>3. n \in ToSet(prefix) BY <2>1 DEF ToSet
  <2>4. n \in Trunk(g) BY <2>3, TrunkIs
  <2>5. n \in Active(g, "transform") BY <1>1, <2>1, <2>3 DEF Active, AliveIn
  <2> QED BY <2>2, <2>4, <2>5 DEF Split
<1> QED BY <1>9, <1>10

LEMMA NoErrors ==
  ASSUME NEW g, NEW chains, NEW prefix, NEW compiled, ErrorsOf(g, chains, prefix, compiled) = {}
  PROVE  /\ \A n \in ToSet(MainSinks(g)) : ChainFault(g, n) = "none"
         /\ \A c \in compiled : c.errors = {}
         /\ \A r \in SinkRoles \ {"none"} : ~ Cardinality(HoldersOf(g, r)) > 1
         /\ Stray(g, Middles(chains), prefix) = {} /\ Wedged(g, prefix) = {}
         /\ OfKind(g, prefix, "validation") = <<>> => QualitySinks(g) = {}
<1> DEFINE errors == ErrorsOf(g, chains, prefix, compiled)
           Faults == {ChainFault(g, n) : n \in ToSet(MainSinks(g))} \ {"none"}
           InBoxes == UNION {c.errors : c \in compiled}
           Taken == IF \E r \in SinkRoles \ {"none"} : Cardinality(HoldersOf(g, r)) > 1
                    THEN {"role-taken"} ELSE {}
           Astray == IF Stray(g, Middles(chains), prefix) # {} THEN {"stray-rule"} ELSE {}
           Parted == IF Wedged(g, prefix) # {} THEN {"between-rules"} ELSE {}
           NoRule == IF OfKind(g, prefix, "validation") = <<>> /\ QualitySinks(g) # {} THEN {"no-rule"} ELSE {}
<1>1. Faults \subseteq errors /\ InBoxes \subseteq errors /\ Taken \subseteq errors
      /\ Astray \subseteq errors /\ Parted \subseteq errors /\ NoRule \subseteq errors
  BY DEF ErrorsOf
<1> HIDE DEF errors
<1>2. Faults = {} /\ InBoxes = {} /\ Taken = {} /\ Astray = {} /\ Parted = {} /\ NoRule = {}
  BY <1>1 DEF errors
<1>3. \A n \in ToSet(MainSinks(g)) : ChainFault(g, n) = "none"
  <2> HIDE DEF InBoxes, Taken, Astray, Parted, NoRule
  <2> QED BY <1>2
<1>4. \A c \in compiled : c.errors = {}
  <2>1. InBoxes = {} BY <1>2
  <2> TAKE c \in compiled
  <2>2. c.errors \subseteq InBoxes OBVIOUS
  <2> HIDE DEF InBoxes
  <2> QED BY <2>1, <2>2
<1>5. \A r \in SinkRoles \ {"none"} : ~ Cardinality(HoldersOf(g, r)) > 1
  <2>1. Taken = {} BY <1>2
  <2> QED BY <2>1
<1>6. Stray(g, Middles(chains), prefix) = {} /\ Wedged(g, prefix) = {}
  <2>1. Astray = {} /\ Parted = {} BY <1>2
  <2> QED BY <2>1
<1>7. OfKind(g, prefix, "validation") = <<>> => QualitySinks(g) = {}
  <2>1. NoRule = {} BY <1>2
  <2> QED BY <2>1
<1> QED BY <1>3, <1>4, <1>5, <1>6, <1>7

\* A box of a chain has something before it, unless it is the source.
LEMMA OnChain ==
  ASSUME NEW g, Drawn(g), NEW chains, NEW prefix, NEW compiled,
         IsBuilt(g, chains, prefix, compiled), Destinations(g) # <<>>,
         NEW i \in DOMAIN chains, NEW n \in ToSet(chains[i])
  PROVE  /\ Kind(g, n) # "source" => ParentsOn(g, n, "in") # {}
         /\ Kind(g, n) \in {"transform", "validation"} => n \in ToSet(Middle(chains[i]))
<1> DEFINE good == Destinations(g)
           end == good[i]
           ids == ChainToSink(g, end).nodes
           c == chains[i]
           mid == Middle(c)
           D == DOMAIN g.nodes
<1>1. /\ i \in DOMAIN good /\ IsChain(g, c, end) /\ SourceChain(g, end, ids, c) /\ end \in ToSet(good)
  <2>1. DOMAIN chains = DOMAIN good BY ChainsOf
  <2>2. \A h \in DOMAIN good :
          /\ IsChain(g, chains[h], good[h])
          /\ SourceChain(g, good[h], ChainToSink(g, good[h]).nodes, chains[h])
    <3> HIDE DEF c, mid, end, ids
    <3> QED BY ChainsOf
  <2>3. i \in DOMAIN good BY <2>1
  <2>4. good[i] \in ToSet(good) BY <2>3 DEF ToSet
  <2> HIDE DEF good
  <2> QED BY <2>2, <2>3, <2>4
<1>2. Kind(g, end) = "sink"
  <2>1. ToSet(good) = {s \in ToSet(MainSinks(g)) : ChainFault(g, s) = "none"} BY DestinationsAre
  <2>2. end \in ToSet(MainSinks(g)) BY <1>1, <2>1
  <2> QED BY <2>2, SinksAre
<1> HIDE DEF end, ids, good
<1>3. /\ c \in Seq(D) /\ Len(c) >= 2 /\ c[Len(c)] = end /\ Kind(g, c[1]) = "source" BY <1>1 DEF IsChain
<1>4. mid \in Seq(D) /\ Len(mid) = Len(c) - 2 /\ \A h \in 1 .. Len(c) - 2 : mid[h] = c[h + 1]
  <2> HIDE DEF c
  <2> QED BY <1>1, MiddleIs
<1>5. \A j \in 2 .. Len(c) : ParentsOn(g, c[j], "in") # {} BY <1>1 DEF SourceChain
<1>6. PICK j \in DOMAIN c : n = c[j] BY DEF ToSet
<1> HIDE DEF c, D, mid
<1>7. DOMAIN c = 1 .. Len(c) /\ Len(c) \in Nat /\ DOMAIN mid = 1 .. Len(mid) BY <1>3, <1>4
<1>8. Kind(g, n) # "source" => ParentsOn(g, n, "in") # {}
  <2> SUFFICES ASSUME Kind(g, n) # "source" PROVE ParentsOn(g, n, "in") # {} OBVIOUS
  <2>1. j # 1 BY <1>3, <1>6
  <2>2. j \in 2 .. Len(c) BY <1>6, <1>7, <2>1
  <2> QED BY <1>5, <1>6, <2>2
<1>9. ASSUME Kind(g, n) \in {"transform", "validation"} PROVE n \in ToSet(mid)
  <2>1. j # 1 /\ j # Len(c) BY <1>2, <1>3, <1>6, <1>9
  <2>2. j - 1 \in 1 .. Len(c) - 2 /\ (j - 1) + 1 = j BY <1>6, <1>7, <2>1
  <2>3. mid[j - 1] = n /\ j - 1 \in DOMAIN mid BY <1>4, <1>6, <1>7, <2>2
  <2> QED BY <2>3 DEF ToSet
<1> QED BY <1>8, <1>9 DEF mid, c

\* A graph that compiles, with every box used.
IsClean(g, chains, prefix, compiled) ==
  /\ IsBuilt(g, chains, prefix, compiled) /\ Destinations(g) # <<>>
  /\ ErrorsOf(g, chains, prefix, compiled) = {} /\ UnusedOf(g, chains, compiled) = {}

LEMMA AllUsed ==
  ASSUME NEW g, Drawn(g), NEW chains, NEW prefix, NEW compiled, IsClean(g, chains, prefix, compiled)
  PROVE  /\ \A n \in Active(g, "transform") : ParentsOn(g, n, "in") # {} /\ Agreed(g, n)
         /\ \A n \in Active(g, "validation") : ParentsOn(g, n, "in") # {} /\ n \in ToSet(prefix)
         /\ \A n \in ToSet(MainSinks(g)) : ParentsOn(g, n, "in") # {}
<1>1. /\ IsBuilt(g, chains, prefix, compiled) /\ Destinations(g) # <<>>
      /\ ErrorsOf(g, chains, prefix, compiled) = {} /\ UnusedOf(g, chains, compiled) = {}
  BY DEF IsClean
<1>2. /\ \A n \in ToSet(MainSinks(g)) : ChainFault(g, n) = "none"
      /\ \A c \in compiled : c.errors = {}
      /\ Stray(g, Middles(chains), prefix) = {} /\ Wedged(g, prefix) = {}
  BY <1>1, NoErrors
<1>3. \A n \in DOMAIN g.nodes : n \notin QualitySinks(g) /\ Kind(g, n) # "note" /\ ~ g.nodes[n].muted =>
        (\E i \in DOMAIN chains : n \in ToSet(chains[i])) \/ \E c \in compiled : n \in c.used
  BY <1>1 DEF UnusedOf
<1>4. \A i \in DOMAIN chains : \A n \in ToSet(chains[i]) :
        /\ Kind(g, n) # "source" => ParentsOn(g, n, "in") # {}
        /\ Kind(g, n) \in {"transform", "validation"} => n \in ToSet(Middle(chains[i]))
  BY <1>1, OnChain
<1>5. /\ \A c \in compiled : \E n \in Active(g, "transform"), i \in DOMAIN chains :
           n \in ToSet(chains[i]) /\ c = CompileTransform(g, n)
      /\ \A i \in DOMAIN chains : \A n \in ToSet(Middle(chains[i])) :
           Kind(g, n) = "transform" => CompileTransform(g, n) \in compiled
  BY <1>1, <1>2, CompiledFrom
<1>6. \A n \in Active(g, "transform") : CompileTransform(g, n) \in compiled =>
        Agreed(g, n) /\ \A u \in CompileTransform(g, n).used : u = n \/ Used(g, u)
  BY <1>2, TransformHolds
<1>7. ASSUME NEW kind \in {"transform", "validation"}, NEW n \in Active(g, kind)
      PROVE  \/ \E i \in DOMAIN chains : n \in ToSet(chains[i])
             \/ kind = "transform" /\ ParentsOn(g, n, "in") # {} /\ Agreed(g, n)
  <2>1. n \in DOMAIN g.nodes /\ Kind(g, n) = kind /\ ~ g.nodes[n].muted BY DEF Active
  <2>2. n \notin QualitySinks(g)
    <3>1. g.nodes[n].role # "none" => Kind(g, n) = "sink" BY <2>1 DEF Drawn, IsGraph, IsBox, Kind
    <3> QED BY <2>1, <3>1 DEF QualitySinks, IsValidationSink
  <2>3. SUFFICES ASSUME NEW c \in compiled, n \in c.used
                 PROVE  \/ \E i \in DOMAIN chains : n \in ToSet(chains[i])
                        \/ kind = "transform" /\ ParentsOn(g, n, "in") # {} /\ Agreed(g, n)
    BY <1>3, <2>1, <2>2
  <2>4. PICK b \in Active(g, "transform"), i \in DOMAIN chains :
          b \in ToSet(chains[i]) /\ c = CompileTransform(g, b)
    BY <1>5
  <2>5. n = b \/ Used(g, n) BY <1>6, <2>3, <2>4
  <2>6. Used(g, n) => kind = "transform" /\ ParentsOn(g, n, "in") # {} /\ Agreed(g, n)
    BY <2>1 DEF Used, Active
  <2> QED BY <2>4, <2>5, <2>6
<1>8. ASSUME NEW n \in Active(g, "transform") PROVE ParentsOn(g, n, "in") # {} /\ Agreed(g, n)
  <2>1. Kind(g, n) = "transform" BY DEF Active
  <2>2. SUFFICES ASSUME NEW i \in DOMAIN chains, n \in ToSet(chains[i])
                 PROVE  ParentsOn(g, n, "in") # {} /\ Agreed(g, n)
    BY <1>7
  <2>3. ParentsOn(g, n, "in") # {} /\ n \in ToSet(Middle(chains[i])) BY <1>4, <2>1, <2>2
  <2> QED BY <1>5, <1>6, <2>1, <2>3
<1>9. ASSUME NEW n \in Active(g, "validation") PROVE ParentsOn(g, n, "in") # {} /\ n \in ToSet(prefix)
  <2>1. Kind(g, n) = "validation" BY DEF Active
  <2>2. PICK i \in DOMAIN chains : n \in ToSet(chains[i]) BY <1>7
  <2>3. ParentsOn(g, n, "in") # {} /\ n \in ToSet(Middle(chains[i])) BY <1>4, <2>1, <2>2
  <2>4. Middle(chains[i]) \in Middles(chains) BY DEF Middles
  <2>5. n \in ToSet(prefix) BY <1>2, <2>1, <2>3, <2>4 DEF Stray
  <2> QED BY <2>3, <2>5
<1>10. ASSUME NEW n \in ToSet(MainSinks(g)) PROVE ParentsOn(g, n, "in") # {}
  <2>1. n \in ToSet(Destinations(g)) BY <1>2, DestinationsAre
  <2>2. Kind(g, n) = "sink" BY SinksAre
  <2> DEFINE good == Destinations(g)
  <2>3. PICK i \in DOMAIN good : n = good[i] BY <2>1 DEF ToSet
  <2>4. DOMAIN chains = DOMAIN good /\ \A h \in DOMAIN good : IsChain(g, chains[h], good[h])
    BY <1>1, ChainsOf
  <2> HIDE DEF good
  <2>5. IsChain(g, chains[i], n) /\ i \in DOMAIN chains BY <2>3, <2>4
  <2> DEFINE c == chains[i]
             D == DOMAIN g.nodes
  <2>6. c \in Seq(D) /\ Len(c) >= 2 /\ c[Len(c)] = n BY <2>5 DEF IsChain
  <2>7. n \in ToSet(c)
    <3> HIDE DEF c, D
    <3>1. Len(c) \in DOMAIN c BY <2>6
    <3> QED BY <2>6, <3>1 DEF ToSet
  <2> QED BY <1>4, <2>2, <2>5, <2>7
<1> QED BY <1>8, <1>9, <1>10

\* The datasets of a validations block, as the linter and the compiler count them.
LEMMA HoldersAre ==
  ASSUME NEW g, Drawn(g), NEW n \in DOMAIN g.nodes, IsValidationSink(g.nodes[n])
  PROVE  LET S == HoldersOf(g, g.nodes[n].role)
         IN /\ {m \in DOMAIN g.nodes : g.nodes[m].role = g.nodes[n].role} = S
            /\ n \in S /\ n \in QualitySinks(g) /\ S \subseteq Nat /\ IsFiniteSet(S)
            /\ g.nodes[n].role \in SinkRoles \ {"none"}
<1> DEFINE S == HoldersOf(g, g.nodes[n].role)
<1>1. g.nodes[n].role # "none" /\ g.nodes[n].role \in SinkRoles
  BY DEF IsValidationSink, Drawn, IsGraph, IsBox, NodeData
<1>2. \A m \in DOMAIN g.nodes : g.nodes[m].role # "none" => ~ g.nodes[m].muted
  BY DEF Drawn, IsGraph, IsBox
<1>3. {m \in DOMAIN g.nodes : g.nodes[m].role = g.nodes[n].role} = S
  BY <1>1, <1>2 DEF HoldersOf, QualitySinks, IsValidationSink
<1>4. n \in QualitySinks(g) BY <1>1, <1>2 DEF QualitySinks, IsValidationSink
<1>5. S \subseteq DOMAIN g.nodes BY <1>3
<1>6. DOMAIN g.nodes \subseteq Nat /\ IsFiniteSet(DOMAIN g.nodes) BY BoxesAre
<1>7. IsFiniteSet(S) BY <1>5, <1>6, FS_Subset
<1> QED BY <1>1, <1>3, <1>4, <1>5, <1>6, <1>7

LEMMA OnlyHolder ==
  ASSUME NEW S, IsFiniteSet(S), S \subseteq Nat, S # {}
  PROVE  Cardinality(S) > 1 <=> \E n \in S : n # Min(S)
<1>1. Min(S) \in S /\ Min(S) \in Nat BY MinIs
<1>2. ASSUME ~ Cardinality(S) > 1 PROVE \A n \in S : n = Min(S)
  <2>1. S = {Max(S)} BY <1>2, OneParent
  <2> QED BY <1>1, <2>1
<1>3. ASSUME \A n \in S : n = Min(S) PROVE ~ Cardinality(S) > 1
  <2>1. S = {Min(S)} BY <1>1, <1>3
  <2> DEFINE m == Min(S)
  <2>2. S = {m} BY <2>1
  <2> HIDE DEF m
  <2>3. Cardinality(S) = 1 BY <2>2, FS_Singleton
  <2> QED BY <2>3
<1> QED BY <1>2, <1>3

\* Rules the linter counts are those of the chain all destinations share.
LEMMA RulesOfTrunk ==
  ASSUME NEW g, Drawn(g), NEW chains, NEW prefix, NEW compiled,
         IsBuilt(g, chains, prefix, compiled), Destinations(g) # <<>>
  PROVE  Active(g, "validation") \intersect Trunk(g) = {} <=> OfKind(g, prefix, "validation") = <<>>
<1> DEFINE D == DOMAIN g.nodes
           R == RuleBoxes(g)
<1>1. prefix \in Seq(D) /\ ToSet(prefix) \subseteq AliveIn(g) BY MainAre
<1>2. OfKind(g, prefix, "validation") = Among(prefix, R) BY DEF OfKind, RuleBoxes
<1>3. Among(prefix, R) = <<>> <=> ToSet(prefix) \cap R = {}
  <2> HIDE DEF D, R
  <2> QED BY <1>1, AmongNone
<1>4. ToSet(prefix) \cap R = Active(g, "validation") \intersect Trunk(g)
  <2>1. ToSet(prefix) \cap R \subseteq Active(g, "validation") BY <1>1 DEF RuleBoxes, Active, AliveIn
  <2>2. ToSet(prefix) \subseteq Trunk(g) BY TrunkIs
  <2>3. \A n \in Trunk(g) : Kind(g, n) = "source" \/ n \in ToSet(prefix) BY TrunkIs
  <2>4. \A n \in Active(g, "validation") : Kind(g, n) = "validation" /\ n \in R BY DEF RuleBoxes, Active
  <2> QED BY <2>1, <2>2, <2>3, <2>4
<1> QED BY <1>2, <1>3, <1>4

\* The first half of LintAgrees, of any graph that is drawn.
LEMMA CleanIsPassed ==
  ASSUME NEW g, Drawn(g), NEW chains, NEW prefix, NEW compiled, IsClean(g, chains, prefix, compiled)
  PROVE  \A check \in DOMAIN LintErrors(g) : LintErrors(g)[check] \subseteq Excused(g)[check]
<1>1. /\ IsBuilt(g, chains, prefix, compiled) /\ Destinations(g) # <<>>
      /\ ErrorsOf(g, chains, prefix, compiled) = {}
  BY DEF IsClean
<1>2. /\ \A n \in Active(g, "transform") : ParentsOn(g, n, "in") # {} /\ Agreed(g, n)
      /\ \A n \in Active(g, "validation") : ParentsOn(g, n, "in") # {} /\ n \in ToSet(prefix)
      /\ \A n \in ToSet(MainSinks(g)) : ParentsOn(g, n, "in") # {}
  BY AllUsed
<1>3. Orphans(g) = {} BY <1>2 DEF Orphans
<1>4. OffTheTrunk(g) \subseteq MutedRules(g)
  <2> SUFFICES ASSUME NEW n \in OffTheTrunk(g), n \notin MutedRules(g) PROVE FALSE OBVIOUS
  <2>1. n \in DOMAIN g.nodes /\ n \notin Trunk(g) /\ Kind(g, n) = "validation" BY DEF OffTheTrunk
  <2>2. n \in Active(g, "validation") BY <2>1 DEF Active, MutedRules
  <2>3. ToSet(prefix) \subseteq Trunk(g) BY <1>1, TrunkIs
  <2> QED BY <1>2, <2>1, <2>2, <2>3
<1>5. Split(g) = {}
  <2>1. Wedged(g, prefix) = {} BY <1>1, NoErrors
  <2>2. Split(g) = Wedged(g, prefix) BY <1>1, SplitIsWedged
  <2> QED BY <2>1, <2>2
<1>6. SecondInputs(g) \subseteq FedThroughMuted(g)
  <2>1. \A n \in SecondInputs(g) : n \in Active(g, "transform") BY DEF SecondInputs
  <2> QED BY <1>2, <2>1 DEF Agreed
<1>7. Unfilled(g) = {}
  <2> SUFFICES ASSUME NEW n \in Unfilled(g) PROVE FALSE OBVIOUS
  <2> DEFINE role == g.nodes[n].role
             S == HoldersOf(g, role)
  <2>1. /\ n \in DOMAIN g.nodes /\ IsValidationSink(g.nodes[n])
        /\ \/ Active(g, "validation") \intersect Trunk(g) = {}
           \/ n # Min({m \in DOMAIN g.nodes : g.nodes[m].role = g.nodes[n].role})
    BY DEF Unfilled
  <2>2. /\ {m \in DOMAIN g.nodes : g.nodes[m].role = g.nodes[n].role} = S
        /\ n \in S /\ n \in QualitySinks(g) /\ S \subseteq Nat /\ IsFiniteSet(S) /\ role \in SinkRoles \ {"none"}
    BY <2>1, HoldersAre
  <2> HIDE DEF S
  <2>3. /\ \A r \in SinkRoles \ {"none"} : ~ Cardinality(HoldersOf(g, r)) > 1
        /\ OfKind(g, prefix, "validation") = <<>> => QualitySinks(g) = {}
    BY <1>1, NoErrors
  <2>4. ~ Cardinality(S) > 1 BY <2>2, <2>3 DEF S
  <2>5. n = Min(S) BY <2>2, <2>4, OnlyHolder
  <2>6. Active(g, "validation") \intersect Trunk(g) = {} BY <2>1, <2>2, <2>5
  <2>7. OfKind(g, prefix, "validation") = <<>> BY <1>1, <2>6, RulesOfTrunk
  <2> QED BY <2>2, <2>3, <2>7
<1> QED BY <1>3, <1>4, <1>5, <1>6, <1>7 DEF LintErrors, Excused

\* The second half.
LEMMA RefusedIsReported ==
  ASSUME NEW g, Drawn(g), NEW chains, NEW prefix, NEW compiled,
         IsBuilt(g, chains, prefix, compiled), Destinations(g) # <<>>,
         NEW problem \in ErrorsOf(g, chains, prefix, compiled), problem \notin Overlooked(g)
  PROVE  Reported(g) # {}
<1> SUFFICES ASSUME Reported(g) = {} PROVE FALSE OBVIOUS
<1>2. OffTheTrunk(g) = {} /\ Split(g) = {} /\ SecondInputs(g) = {} /\ Unfilled(g) = {} BY ReportedAre
<1>3. problem \notin {ChainFault(g, n) : n \in ToSet(MainSinks(g))} \ {"none"}
  <2> SUFFICES ASSUME NEW n \in ToSet(MainSinks(g)), problem = ChainFault(g, n), problem # "none"
               PROVE  FALSE
    OBVIOUS
  <2>1. n \in DOMAIN g.nodes BY SinksAre
  <2>2. ChainFault(g, n) = FaultOf(g, ChainToSink(g, n)) BY <2>1, FaultIs
  <2>3. problem = "no-source" /\ MutedHeads(g) # {} BY <2>1, <2>2, NoSourceIsSeen
  <2> QED BY <2>3 DEF Overlooked
<1>4. problem \notin UNION {c.errors : c \in compiled}
  <2> SUFFICES ASSUME NEW c \in compiled, problem \in c.errors PROVE FALSE OBVIOUS
  <2>1. PICK n \in Active(g, "transform") : c = CompileTransform(g, n) BY CompiledFrom
  <2>2. c.errors \ Overlooked(g) # {} BY <2>1
  <2> QED BY <2>1, <2>2, TransformHolds
<1>5. \A r \in SinkRoles \ {"none"} : ~ Cardinality(HoldersOf(g, r)) > 1
  <2> SUFFICES ASSUME NEW r \in SinkRoles \ {"none"}, Cardinality(HoldersOf(g, r)) > 1 PROVE FALSE OBVIOUS
  <2> DEFINE S == HoldersOf(g, r)
  <2>1. \A n \in S : n \in DOMAIN g.nodes /\ IsValidationSink(g.nodes[n]) /\ g.nodes[n].role = r
    BY DEF HoldersOf, QualitySinks
  <2>2. S # {}
    <3> SUFFICES ASSUME S = {} PROVE FALSE OBVIOUS
    <3> HIDE DEF S
    <3>1. Cardinality(S) = 0 BY FS_EmptySet
    <3> QED BY <3>1 DEF S
  <2>3. \A n \in S : /\ {m \in DOMAIN g.nodes : g.nodes[m].role = g.nodes[n].role} = S
                     /\ S \subseteq Nat /\ IsFiniteSet(S)
    BY <2>1, HoldersAre
  <2>4. Cardinality(S) > 1 OBVIOUS
  <2> HIDE DEF S
  <2>5. PICK n \in S : n # Min(S) BY <2>2, <2>3, <2>4, OnlyHolder
  <2>6. n \in Unfilled(g) BY <2>1, <2>3, <2>5 DEF Unfilled
  <2> QED BY <1>2, <2>6
<1>6. Stray(g, Middles(chains), prefix) = {}
  <2> SUFFICES ASSUME NEW n \in Stray(g, Middles(chains), prefix) PROVE FALSE OBVIOUS
  <2>1. PICK i \in DOMAIN chains : n \in ToSet(Middle(chains[i])) BY DEF Stray, Middles
  <2>2. Kind(g, n) = "validation" /\ n \notin ToSet(prefix) BY DEF Stray
  <2> DEFINE good == Destinations(g)
             mid == Middle(chains[i])
  <2>3. mid \in Seq(DOMAIN g.nodes)
    <3>1. DOMAIN chains = DOMAIN good /\ \A h \in DOMAIN good : IsChain(g, chains[h], good[h])
      BY ChainsOf
    <3> HIDE DEF good
    <3> QED BY <3>1, MiddleIs
  <2> HIDE DEF mid
  <2>4. n \in DOMAIN g.nodes BY <2>1, <2>3 DEF mid, ToSet
  <2>5. n \notin Trunk(g) BY <2>2, TrunkIs
  <2> QED BY <1>2, <2>2, <2>4, <2>5 DEF OffTheTrunk
<1>7. Wedged(g, prefix) = {} BY <1>2, SplitIsWedged
<1>8. OfKind(g, prefix, "validation") = <<>> => QualitySinks(g) = {}
  <2> SUFFICES ASSUME OfKind(g, prefix, "validation") = <<>>, NEW n \in QualitySinks(g) PROVE FALSE OBVIOUS
  <2>1. Active(g, "validation") \intersect Trunk(g) = {} BY RulesOfTrunk
  <2>2. n \in DOMAIN g.nodes /\ IsValidationSink(g.nodes[n]) BY DEF QualitySinks
  <2> QED BY <1>2, <2>1, <2>2 DEF Unfilled
<1>9. problem # "two-inputs" BY DEF Overlooked
<1> QED BY <1>3, <1>4, <1>5, <1>6, <1>7, <1>8, <1>9 DEF ErrorsOf

\* When no destination reaches a source.
LEMMA NoneIsSeen ==
  ASSUME NEW g, Drawn(g), Destinations(g) = <<>>
  PROVE  MutedHeads(g) # {} \/ Reported(g) # {} \/ Lacking(g)
<1> SUFFICES ASSUME ~ Lacking(g) PROVE MutedHeads(g) # {} \/ Reported(g) # {} OBVIOUS
<1>1. ToSet(MainSinks(g)) # {} /\ ToSet(MainSinks(g)) \subseteq DOMAIN g.nodes
  <2> DEFINE sinks == MainSinks(g)
  <2>1. sinks \in Seq(DOMAIN g.nodes) /\ ToSet(sinks) \subseteq DOMAIN g.nodes BY SinksAre
  <2>2. sinks # <<>> BY DEF Lacking
  <2> HIDE DEF sinks
  <2>3. 1 \in DOMAIN sinks BY <2>1, <2>2
  <2>4. sinks[1] \in ToSet(sinks) BY <2>3 DEF ToSet
  <2> QED BY <2>1, <2>4 DEF sinks
<1>2. PICK n \in ToSet(MainSinks(g)) : TRUE BY <1>1
<1>3. n \in DOMAIN g.nodes BY <1>1
<1>4. ToSet(Destinations(g)) = {s \in ToSet(MainSinks(g)) : ChainFault(g, s) = "none"} BY DestinationsAre
<1>5. ToSet(Destinations(g)) = {} BY DEF ToSet
<1>6. ChainFault(g, n) # "none" BY <1>4, <1>5
<1>7. ChainFault(g, n) = FaultOf(g, ChainToSink(g, n)) BY <1>3, FaultIs
<1> QED BY <1>3, <1>6, <1>7, NoSourceIsSeen

(* On any canvas, whatever was drawn on it: of a graph that compiles with   *)
(* every box used, the linter reports no box but a muted rule off the       *)
(* shared chain and a union fed through a muted join; and of a graph the    *)
(* compiler refuses it reports a box, or a job without an output or an      *)
(* input, unless the destinations read different sources, a chain starts at *)
(* a muted transformation, or a second input is taken from below a rule of  *)
(* the shared chain (lint.ts against compileGraph, toJson.ts:526-709).      *)
THEOREM LinterAgrees == Spec => []LintAgrees
<1>1. CanvasInv => LintAgrees
  <2> SUFFICES ASSUME CanvasInv
               PROVE  /\ Compile(graph).errors = {} /\ Compile(graph).unused = {} =>
                           \A check \in DOMAIN LintErrors(graph) :
                             LintErrors(graph)[check] \subseteq Excused(graph)[check]
                      /\ Compile(graph).errors \ Overlooked(graph) # {} =>
                           Reported(graph) # {} \/ Lacking(graph)
    BY DEF LintAgrees
  <2>1. Drawn(graph) BY InvInParts, VersionsAre
  <2>2. CASE Destinations(graph) = <<>>
    <3>1. Compile(graph).errors = {"no-destination"}
      <4>1. Compile(graph) = Compiled(graph, Destinations(graph)) BY DEF Compile, Given, Destinations
      <4> QED BY <2>2, <4>1 DEF Compiled
    <3>2. MutedHeads(graph) # {} \/ Reported(graph) # {} \/ Lacking(graph) BY <2>1, <2>2, NoneIsSeen
    <3> QED BY <3>1, <3>2 DEF Overlooked
  <2>3. CASE Destinations(graph) # <<>>
    <3>1. PICK chains, prefix, compiled : IsBuilt(graph, chains, prefix, compiled) BY <2>1, <2>3, BuiltIs
    <3>2. /\ Compile(graph).errors = ErrorsOf(graph, chains, prefix, compiled)
          /\ Compile(graph).unused = UnusedOf(graph, chains, compiled)
      BY <3>1 DEF IsBuilt
    <3>3. ASSUME Compile(graph).errors = {}, Compile(graph).unused = {}
          PROVE  \A check \in DOMAIN LintErrors(graph) :
                   LintErrors(graph)[check] \subseteq Excused(graph)[check]
      <4>1. IsClean(graph, chains, prefix, compiled) BY <2>3, <3>1, <3>2, <3>3 DEF IsClean
      <4> QED BY <2>1, <4>1, CleanIsPassed
    <3>4. ASSUME Compile(graph).errors \ Overlooked(graph) # {} PROVE Reported(graph) # {}
      <4>1. PICK problem : problem \in ErrorsOf(graph, chains, prefix, compiled) /\ problem \notin Overlooked(graph)
        BY <3>2, <3>4
      <4> QED BY <2>1, <2>3, <3>1, <4>1, RefusedIsReported
    <3> QED BY <3>3, <3>4
  <2> QED BY <2>2, <2>3
<1> QED BY <1>1, CanvasInvariant, PTL
=============================================================================
