------------------------------ MODULE Traversal ------------------------------
(***************************************************************************)
(* Questions about the graph of one version: the neighbourhood of a node   *)
(* and what a change of it reaches (services/query.py), and the same of    *)
(* the projection in the cloud (infrastructure/aws/neptune_projection.py). *)
(* An edge has several sources; edges are read in the order of their keys. *)
(***************************************************************************)
EXTENDS Naturals, FiniteSets, Sequences, SequencesExt

CONSTANTS
  Urns,       \* nodes, numbered in the order of their names
  Graphs,     \* sequences of edges [from, to], in the order of their keys
  Subjects,   \* nodes that are asked about
  Depths,     \* of a question
  RowLimit    \* of the projection

ASSUME TraversalAssumption ==
  /\ Urns \subseteq Nat /\ IsFiniteSet(Urns) /\ Subjects \subseteq Urns /\ RowLimit \in Nat
  /\ Depths \subseteq 1 .. 5
  /\ Graphs \subseteq Seq([from : SUBSET Urns, to : Urns])

VARIABLES
  question,   \* what was asked, of which graph
  walk,       \* the neighbourhood: nodes, edges and the frontier of the last round
  search      \* the impact: the queue, the best lengths, what is affected

queryVars == <<question, walk, search>>

NoQuestion == [kind |-> "NONE", graph |-> <<>>, subject |-> 0, direction |-> "down", depth |-> 0]
NoWalk == [nodes |-> {}, selected |-> {}, frontier |-> {}, rounds |-> 0]
NoSearch == [queue |-> <<>>, best |-> {}, affected |-> {}, truncated |-> FALSE]

QueryInit == question = NoQuestion /\ walk = NoWalk /\ search = NoSearch

Graph == question.graph
Keys == DOMAIN Graph
EndsOf(k) == Graph[k].from \cup {Graph[k].to}

(***************************************************************************)
(* lineage.                                                                *)
(***************************************************************************)
AskLineage ==
  /\ question = NoQuestion
  /\ \E g \in Graphs, s \in Subjects, d \in Depths, direction \in {"up", "down", "both"} :
       /\ question' = [kind |-> "LINEAGE", graph |-> g, subject |-> s, direction |-> direction, depth |-> d]
       /\ walk' = [NoWalk EXCEPT !.nodes = {s}, !.frontier = {s}]
  /\ UNCHANGED search

\* The ends of an edge that a frontier discovers.
Discovered(k, frontier) ==
  (IF question.direction # "up" /\ Graph[k].from \cap frontier # {} THEN {Graph[k].to} ELSE {})
    \cup (IF question.direction # "down" /\ Graph[k].to \in frontier THEN Graph[k].from ELSE {})

\* An edge that is met brings all its ends into the nodes, the other sources too: what
\* an edge discovers is followed unless an end of an edge before it.
WalkRound ==
  /\ question.kind = "LINEAGE" /\ walk.frontier # {} /\ walk.rounds < question.depth
  /\ LET met == {k \in Keys : Discovered(k, walk.frontier) # {}}
         NodesBefore(k) == walk.nodes \cup UNION {EndsOf(j) : j \in {i \in met : i < k}}
     IN walk' = [nodes |-> walk.nodes \cup UNION {EndsOf(k) : k \in met},
                 selected |-> walk.selected \cup met,
                 frontier |-> UNION {Discovered(k, walk.frontier) \ NodesBefore(k) : k \in met},
                 rounds |-> walk.rounds + 1]
  /\ UNCHANGED <<question, search>>

Walked == question.kind = "LINEAGE" /\ (walk.frontier = {} \/ walk.rounds = question.depth)
WalkTruncated == \E k \in Keys : Discovered(k, walk.frontier) # {}

(***************************************************************************)
(* impact: breadth first; the severity a path gives is left out.           *)
(***************************************************************************)
AskImpact ==
  /\ question = NoQuestion
  /\ \E g \in Graphs, s \in Subjects, d \in Depths :
       /\ question' = [kind |-> "IMPACT", graph |-> g, subject |-> s, direction |-> "down", depth |-> d]
       /\ search' = [NoSearch EXCEPT !.queue = <<[node |-> s, length |-> 0]>>,
                                     !.best = {[node |-> s, length |-> 0]}]
  /\ UNCHANGED walk

KnownAnyway(found, k, length) == \E b \in found.best : b.node \in EndsOf(k)  \* mistake: any end is known
Known(found, k, length) == \E b \in found.best : b.node = Graph[k].to /\ b.length <= length

ReachTarget(found, k) ==
  LET at == Head(search.queue)
      reached == [node |-> Graph[k].to, length |-> at.length + 1]
  IN IF at.node \notin Graph[k].from \/ Known(found, k, at.length + 1) THEN found
     ELSE [found EXCEPT !.best = {b \in @ : b.node # reached.node} \cup {reached},
                        !.affected = {a \in @ : a.node # reached.node} \cup {reached},
                        !.queue = Append(@, reached)]

Outgoing(node) == {k \in Keys : node \in Graph[k].from}
Cut(node) == search.truncated \/ Outgoing(node) # {}

VisitNode ==
  /\ question.kind = "IMPACT" /\ search.queue # <<>>
  /\ LET rest == [search EXCEPT !.queue = Tail(@)]
         found[k \in 0 .. Len(Graph)] == IF k = 0 THEN rest ELSE ReachTarget(found[k - 1], k)
     IN search' = IF Head(search.queue).length >= question.depth
                  THEN [rest EXCEPT !.truncated = Cut(Head(search.queue).node)]
                  ELSE found[Len(Graph)]
  /\ UNCHANGED <<question, walk>>

Searched == question.kind = "IMPACT" /\ search.queue = <<>>

(***************************************************************************)
(* The projection: a relationship for each source of an edge; the rows are *)
(* paths that use none twice, the shortest first.                          *)
(***************************************************************************)
Steps ==
  LET down == UNION {{[at |-> x, by |-> <<x, k>>, to |-> Graph[k].to] : x \in Graph[k].from} : k \in Keys}
      up == {[at |-> s.to, by |-> s.by, to |-> s.at] : s \in down}
  IN (IF question.direction # "up" THEN down ELSE {}) \cup (IF question.direction # "down" THEN up ELSE {})
Paths ==
  LET Longer(p) == {Append(p, s) : s \in {r \in Steps :
                      r.at = Last(p).to /\ \A i \in DOMAIN p : p[i].by # r.by}}
      of[n \in 1 .. question.depth] ==
        IF n = 1 THEN {<<s>> : s \in {r \in Steps : r.at = question.subject}}
        ELSE LET shorter == of[n - 1]
             IN shorter \cup UNION {Longer(p) : p \in {q \in shorter : Len(q) = n - 1}}
  IN of[question.depth]

Row(p) == [node |-> Last(p).to, length |-> Len(p)]
Sooner(r, q) == r.length < q.length \/ (r.length = q.length /\ r.node < q.node)
LimitedPaths == {q \in Paths : Cardinality({o \in Paths : Sooner(Row(o), Row(q))}) < RowLimit}
ProjectedImpact ==
  LET rows == {Row(p) : p \in LimitedPaths}
  IN {r \in rows : \A q \in rows : q.node = r.node => r.length <= q.length}
\* The projection flags an answer for the number of its rows, and never for the depth.
ProjectionTruncated == Cardinality(Paths) > RowLimit
ProjectedLineage == UNION {{p[i].by[2] : i \in DOMAIN p} : p \in LimitedPaths}

QueryNext == AskLineage \/ WalkRound \/ AskImpact \/ VisitNode

(***************************************************************************)
(* Properties.                                                             *)
(***************************************************************************)

\* What is downstream, however far.
Downstream ==
  LET within[n \in 0 .. Cardinality(Urns)] ==
        IF n = 0 THEN {question.subject}
        ELSE LET near == within[n - 1]
             IN near \cup {Graph[k].to : k \in {j \in Keys : Graph[j].from \cap near # {}}}
  IN within[Cardinality(Urns)]

\* An impact that is not flagged as truncated leaves out nothing that is downstream.
ImpactIsWhole ==
  Searched /\ ~search.truncated => {a.node : a \in search.affected} \cup {question.subject} = Downstream

\* The impact that the projection gives is all that is downstream.
WholeProjection == {r.node : r \in ProjectedImpact} \cup {question.subject} = Downstream

\* An answer that the projection does not flag has the nodes of the local answer at the
\* same distance, the subject itself aside, and is whole unless the local one is flagged:
\* a cut by the depth is silent in the projection and told by the local graph.  They show
\* the same edges upstream, and the local one shows none downstream, or around, that the
\* projection does not.
BackendsAgree ==
  /\ Searched /\ ~ProjectionTruncated =>
       /\ search.affected = {r \in ProjectedImpact : r.node # question.subject}
       /\ WholeProjection \/ search.truncated
  /\ Walked /\ ~ProjectionTruncated =>
       /\ walk.selected \subseteq ProjectedLineage
       /\ question.direction = "up" => walk.selected = ProjectedLineage

\* An impact that the projection does not flag leaves out nothing that is downstream.  The
\* code breaks it (README, section 5).
\* (Component PRD 11:118, "never partial-silent", of answers about a depth.)
ProjectionIsWhole == Searched /\ ~ProjectionTruncated => WholeProjection

\* A lineage that is not flagged as truncated leaves out no edge of a node that it shows
\* to be downstream of the subject.
LineageIsWhole ==
  Walked /\ question.direction = "down" /\ ~WalkTruncated =>
    \A k \in Keys : Graph[k].from \cap Downstream # {} => k \in walk.selected
=============================================================================
