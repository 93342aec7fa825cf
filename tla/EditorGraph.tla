---------------------------- MODULE EditorGraph ----------------------------
(***************************************************************************)
(* The canvas of a job under its editor (store/editor.ts): the gestures    *)
(* that change the graph, what each leaves in the history, undo and redo.  *)
(* The other things a version holds (parameters, settings, positions) are  *)
(* left out: an edit of theirs is a new version of the same graph. A box   *)
(* has the number after the last one in use, where the code draws a random *)
(* identifier: nothing compares identifiers across versions but the key of *)
(* a field typed into, which undo, redo and opening a job forget.          *)
(***************************************************************************)
EXTENDS CanvasGraph

CONSTANTS
  Palette,      \* boxes the palette adds
  Forms,        \* what the form of a box may turn its `what` into
  Imported,     \* graphs a job is opened with, or a pasted pipeline becomes
  HistoryLimit,
  MaxIds,       \* boxes ever on the canvas, between two openings
  MaxSelected,  \* boxes, and links, in a selection
  MaxCommits    \* changes made, between two openings

ASSUME PaletteAssumption == \A d \in Palette : IsBox(d)
ASSUME FormsAssumption ==
  /\ Forms \in [Whats -> SUBSET Whats]
  /\ \A w \in Whats : \A v \in Forms[w] : v \in Dual <=> w \in Dual
ASSUME BoundsAssumption == {HistoryLimit, MaxIds, MaxSelected, MaxCommits} \subseteq Nat /\ HistoryLimit > 0

ASSUME ImportedAssumption ==
  \A g \in Imported : IsGraph(g) /\ DOMAIN g.nodes \subseteq 1 .. MaxIds /\ Sound(g)

VARIABLES
  graph,
  past,
  future,
  key,      \* lastCommitKey
  turn,     \* sameTurn: this event-loop turn has committed already
  doomed,   \* boxes React Flow is yet to remove in this turn
  commits

vars == <<graph, past, future, key, turn, doomed, commits>>

NoKey == <<0, "none">>

Init ==
  /\ graph \in Imported
  /\ past = <<>> /\ future = <<>> /\ key = NoKey /\ turn = FALSE /\ doomed = {}
  /\ commits = 0

\* Gestures come one at a time; what one handler does is not interleaved.
Still == doomed = {}
CanCommit == commits < MaxCommits

\* Mutant of Latest: a history that grows for ever.
LatestOfAll(s) == s

\* The history keeps the latest versions.
Latest(s) == IF Len(s) > HistoryLimit THEN SubSeq(s, Len(s) - HistoryLimit + 1, Len(s)) ELSE s

\* commit: the change joins the entry of the one before it, or makes its own.
Committed(joins, field) ==
  /\ past' = IF joins THEN past ELSE Latest(Append(past, graph))
  /\ future' = IF joins THEN future ELSE <<>>
  /\ key' = field /\ commits' = commits + 1

\* A commit from a handler of its own: its turn is over before the next gesture.
Commit(g) ==
  /\ Still /\ CanCommit
  /\ graph' = g /\ Committed(FALSE, NoKey)
  /\ UNCHANGED <<turn, doomed>>

\* The same field again, within the window or after it.
CommitField(g, field) ==
  /\ Still /\ CanCommit
  /\ graph' = g
  /\ \E joins \in {FALSE, key = field} : Committed(joins, field)
  /\ UNCHANGED <<turn, doomed>>
-----------------------------------------------------------------------------
Versions == {past[i] : i \in DOMAIN past} \union {future[i] : i \in DOMAIN future}
            \union {graph}
InUse == UNION {DOMAIN g.nodes : g \in Versions}
IsNext(i) == i - 1 \in InUse \union {0} /\ \A n \in InUse : n < i

\* insert: addNode, addTransform, addSource, addSink, addValidation, addNote.
With(g, i, d) ==
  [g EXCEPT !.nodes = [n \in DOMAIN g.nodes \union {i} |-> IF n = i THEN d ELSE g.nodes[n]]]
Insert(d) == \E i \in 1 .. MaxIds : IsNext(i) /\ Commit(With(graph, i, d))
Duplicate(n) == Insert(graph.nodes[n])

\* onConnect, from the output of one box to an input of another.
Connected(g, a, b, handle) ==
  [g EXCEPT !.links = {l \in @ : ~(l.to = b /\ l.at = handle)}
                      \union {[from |-> a, to |-> b, at |-> handle]}]
CanConnect(g, a, b) ==
  /\ MayFeed(g.nodes[a], g.nodes[b])
  /\ ~CreatesCycle(g, a, b)
Connect(a, b, handle) ==
  /\ handle \in Inputs(graph.nodes[b])
  /\ CanConnect(graph, a, b)
  /\ Commit(Connected(graph, a, b, handle))

\* removeNodes: the boxes and every link to or from them.
Touching(g, ids) == {l \in g.links : l.from \in ids \/ l.to \in ids}
Without(g, ids) ==
  [nodes |-> [n \in DOMAIN g.nodes \ ids |-> g.nodes[n]], links |-> g.links \ Touching(g, ids)]
RemoveNodes(n) == Commit(Without(graph, {n}))

\* The delete key on a selection of boxes and links. React Flow hands over the
\* links that go, those of the boxes among them, and in the same turn the boxes.
DeleteLinks(ids, links) ==
  /\ Still /\ CanCommit
  /\ LET gone == links \union Touching(graph, ids)
     IN IF gone = {} THEN UNCHANGED <<graph, past, future, key, turn, commits>>
        ELSE /\ graph' = [graph EXCEPT !.links = @ \ gone]
             /\ Committed(FALSE, NoKey) /\ turn' = (ids # {})
  /\ doomed' = ids

DeleteNodes ==
  /\ doomed # {}
  /\ graph' = [graph EXCEPT !.nodes = [n \in DOMAIN graph.nodes \ doomed |-> graph.nodes[n]]]
  /\ Committed(turn, NoKey)
  /\ turn' = FALSE /\ doomed' = {}

\* toggleDisabled: only transformations and rules can be muted.
ToggleMuted(n) ==
  /\ Kind(graph, n) \in {"transform", "validation"}
  /\ CommitField([graph EXCEPT !.nodes[n].muted = ~@], <<n, "disabled">>)

\* updateNodeData and updateNodeParam: a field of the form of the box.
EditField(n, what) ==
  /\ what \in Forms[graph.nodes[n].what]
  /\ CommitField([graph EXCEPT !.nodes[n].what = what], <<n, "field">>)

\* layout, a drag that ends, and edits of settings or parameters.
Arrange == Commit(graph)

\* applyPipeline and replaceGraph.
Apply(g) == Commit(g)

\* Mutant of Undo: the field last typed into is not forgotten.
UndoRemembers ==
  /\ Still /\ past # <<>>
  /\ graph' = past[Len(past)]
  /\ past' = SubSeq(past, 1, Len(past) - 1) /\ future' = <<graph>> \o future
  /\ UNCHANGED <<key, turn, doomed, commits>>

Undo ==
  /\ Still /\ past # <<>>
  /\ graph' = past[Len(past)]
  /\ past' = SubSeq(past, 1, Len(past) - 1)
  /\ future' = SubSeq(<<graph>> \o future, 1, IF Len(future) < HistoryLimit THEN Len(future) + 1
                                              ELSE HistoryLimit)
  /\ key' = NoKey
  /\ UNCHANGED <<turn, doomed, commits>>

Redo ==
  /\ Still /\ future # <<>>
  /\ graph' = future[1]
  /\ past' = Latest(Append(past, graph))
  /\ future' = SubSeq(future, 2, Len(future))
  /\ key' = NoKey
  /\ UNCHANGED <<turn, doomed, commits>>

\* open, close and reload: another graph, and no history.
Open(g) ==
  /\ Still
  /\ graph' = g /\ past' = <<>> /\ future' = <<>> /\ key' = NoKey /\ commits' = 0
  /\ UNCHANGED <<turn, doomed>>
-----------------------------------------------------------------------------
Boxes == DOMAIN graph.nodes
Selections(S) == {T \in SUBSET S : Cardinality(T) <= MaxSelected}

Next ==
  \/ \E d \in Palette : Insert(d)
  \/ \E n \in Boxes : Duplicate(n)
  \/ \E a, b \in Boxes, handle \in Handle : Connect(a, b, handle)
  \/ \E n \in Boxes : RemoveNodes(n)
  \/ \E ids \in Selections(Boxes), links \in Selections(graph.links) :
       <<ids, links>> # <<{}, {}>> /\ DeleteLinks(ids, links)
  \/ DeleteNodes
  \/ \E n \in Boxes : ToggleMuted(n)
  \/ \E n \in Boxes, what \in Whats : EditField(n, what)
  \/ Arrange
  \/ \E g \in Imported : Apply(g)
  \/ Undo
  \/ Redo
  \/ \E g \in Imported : Open(g)

Spec == Init /\ [][Next]_vars
-----------------------------------------------------------------------------
\* The types of the store and of its history.
TypeOK ==
  /\ past \in Seq(Versions) /\ future \in Seq(Versions)
  /\ \A g \in Versions : IsGraph(g) /\ DOMAIN g.nodes \subseteq 1 .. MaxIds
  /\ Len(past) + Len(future) <= HistoryLimit
  /\ key \in (0 .. MaxIds) \X {"none", "disabled", "field"}
  /\ turn \in BOOLEAN /\ doomed \subseteq Boxes /\ (turn => doomed # {})
  /\ commits \in 0 .. MaxCommits + 1

(* Whatever was drawn, undone, redone, duplicated or pasted, the graph on  *)
(* the canvas and every graph undo or redo can bring back has no loop, no  *)
(* link to a box that is gone, one link per input, and no link the canvas  *)
(* refuses (onConnect's guards, editor.ts:698-740).                        *)
VersionsAreSound ==
  /\ TypeOK
  /\ \A g \in Versions : Sound(g)

(* One gesture is one undo (the comment of commit, editor.ts:334-342): a   *)
(* canvas delete, which arrives as two callbacks, included; no change is   *)
(* made without its version, but for more of what is typed into a field;   *)
(* and that never rewrites a version that has something to redo after it.  *)
History == INSTANCE Timeline WITH
  Limit <- HistoryLimit, NoField <- NoKey,
  versions <- past \o <<graph>> \o future, at <- Len(past) + 1,
  half <- turn, typing <- key, made <- commits
KeepsTimeline == History!Spec
=============================================================================
