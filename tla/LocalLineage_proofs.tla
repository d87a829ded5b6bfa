-------------------------- MODULE LocalLineage_proofs --------------------------
(***************************************************************************)
(* Theorems about what the local commands record, propose and publish, for *)
(* any commands, edges, artifacts and reviewers, with any number of        *)
(* crashes, attempts, corrections and reconciliations.                     *)
(***************************************************************************)
EXTENDS LocalLineage, TLAPS

-----------------------------------------------------------------------------
(* The inductive invariant.                                                *)

\* What an edge may rest on: nothing yet, or assertions with one of an analysis.
Evidence == {s \in SUBSET Assertions : s # {} => \E x \in s : x[1] = "SCA"}
EdgeMaps == UNION {[D -> Evidence] : D \in SUBSET Edges}

\* What a reviewer may put in place of a row, and a graph may have: any assertions.
Maps == UNION {[D -> SUBSET Assertions] : D \in SUBSET Edges}

Decisions == {"APPROVED", "REJECTED", "SUPERSEDED"}
States == Decisions \cup {"IN_REVIEW", "FINALIZED"}
Keys == [origin : Commands \cup Artifacts, first : EdgeMaps, base : Nat,
         version : Nat \ {0}, edges : Maps]
Rows == [state : States, lock : Nat, kept : BOOLEAN, approval : BOOLEAN, activated : Nat]
Documents == [base : Nat, runtime : SUBSET ({"SESSION", "EVENT"} \X Edges),
              edges : EdgeMaps, proposal : {<< >>} \cup (Keys \X States)]
Statuses == {"QUEUED", "RUNNING", "COMPLETED", "FAILED_TERMINAL", "FAILED_REDRIVABLE"}
LegacyPlaces == {"LEGACY_ANALYSE", "LEGACY_MERGE", "LEGACY_PROPOSE", "LEGACY_KEEP", "LEGACY_PROPOSED"}
Places == {"IDLE", "STAGE", "PUT", "RECORD", "MERGE", "KEEP", "PROPOSED", "DONE"} \cup LegacyPlaces
Tasks == [status : Statuses, at : Places, attempt : Nat,
          todo : SUBSET ({"SCA", "EVENT", "SESSION"} \X Edges), document : Documents]

\* Where a request stands says what it has done to the version it decides.
Undecided == {"IDLE", "DECIDE"}
Opened == {"EVIDENCE", "RUN", "RESERVE", "ACTIVATE"}
Done == {"REGISTER", "FINALIZE"}
Standing == Undecided \cup Opened \cup Done \cup {"PUBLISHED"}

Requests == [at : Standing, key : {<< >>} \cup Keys, lock : Nat,
             decision : Decisions \cup {"NONE"}, token : Nat]
Reconciliations == [at : {"IDLE", "MERGE", "PROPOSE"}, artifact : Artifacts \cup {NotReconciling.artifact},
                    todo : SUBSET Edges, edges : EdgeMaps, base : Nat]
Packages == [graph : Nat, approved : {<< >>} \cup Keys]

TablesTyped ==
  /\ input \in Inputs
  /\ ledger \in [Edges -> Evidence]
  /\ DOMAIN proposal \subseteq Keys /\ proposal \in [DOMAIN proposal -> Rows]
  /\ graph \in Seq(Maps)
  /\ pointer \in [active : Nat, token : Nat] /\ pointer.active \in DOMAIN graph
  /\ package \in [Artifacts -> Packages]

ProcessesTyped ==
  /\ task \in [Commands -> Tasks]
  /\ artifact \in [Commands -> Seq(Documents \cup {Torn})]
  /\ recorded \in [Commands -> Seq(Documents)]
  /\ reviewer \in [Reviewers -> Requests]
  /\ reconciler \in Reconciliations

\* The evidence in these edges is in the ledger.
InLedger(edges) == \A e \in DOMAIN edges : edges[e] \subseteq ledger[e]

\* The rows that reviewers wrote.
Reviewed == {row \in Edges \X SUBSET Assertions : ByReview(row[1], row[2])}

\* These edges have the evidence that the graph b has about them, except that in
\* the rows that reviewers wrote.
KeepsBase(edges, b) ==
  b \in DOMAIN graph =>
    \A e \in DOMAIN edges \cap DOMAIN graph[b] :
      graph[b][e] \subseteq edges[e] \/ <<e, graph[b][e]>> \in Reviewed

\* A command with checkpoints read its base before it merged anything.
Pinned(c) == Kind(c) # "OTHER"

DocumentOK(c, d) ==
  /\ d.base \in 0 .. Len(graph)
  /\ InLedger(d.edges)
  /\ Pinned(c) => KeepsBase(d.edges, d.base)
  /\ \A e \in Edges : <<"EVENT", e>> \in d.runtime => e \in input.command[c].found

\* The store has what is recorded, and what is about to be recorded.
StoredOK(c) ==
  /\ Len(recorded[c]) <= Len(artifact[c])
  /\ \A i \in 1 .. Len(recorded[c]) : artifact[c][i] = recorded[c][i]
  /\ task[c].at = "RECORD" =>
       Len(artifact[c]) >= Number(c) /\ artifact[c][Number(c)] = task[c].document

\* An event is merged after the assertion of the analysis about its edge.
MergingOK(c) ==
  task[c].at \in {"MERGE", "LEGACY_MERGE"} =>
    \A e \in Edges : <<"EVENT", e>> \in task[c].todo =>
      <<"SCA", e>> \in task[c].todo \/ ledger[e] # {}

CommandOK(c) ==
  /\ StoredOK(c) /\ MergingOK(c)
  /\ DocumentOK(c, task[c].document)
  /\ \A i \in 1 .. Len(recorded[c]) : DocumentOK(c, recorded[c][i])
  /\ task[c].at \in LegacyPlaces => ~Pinned(c)

\* A row of a graph is one that a reviewer wrote, or one of the ledger.
Rests(e, row) == <<e, row>> \in Reviewed \/ (row \in Evidence /\ row \subseteq ledger[e])
GraphsOK == \A b \in 1 .. Len(graph) : \A e \in DOMAIN graph[b] : Rests(e, graph[b][e])

\* One proposal with its versions: each version but the last is superseded.
SameProposal(p, q) == p.origin = q.origin /\ p.first = q.first /\ p.base = q.base
FirstOf(p) == KeyOf(p.origin, p.first, p.base)
OfRun(p) == p.origin \in Commands /\ Pinned(p.origin)

KeyOK(p) ==
  /\ p.base <= Len(graph) /\ InLedger(p.first)
  /\ FirstOf(p) \in DOMAIN proposal
  /\ p.version = 1 => p.edges = p.first
  /\ OfRun(p) =>
       /\ KeepsBase(p.first, p.base)
       /\ Len(recorded[p.origin]) >= 8
       /\ p.first = recorded[p.origin][8].edges /\ p.base = recorded[p.origin][8].base

VersionsOK ==
  \A p, q \in DOMAIN proposal : SameProposal(p, q) =>
    /\ p.version = q.version => p = q
    /\ p.version < q.version => proposal[p].state = "SUPERSEDED"

ProposalsOK == VersionsOK /\ \A p \in DOMAIN proposal : KeyOK(p) /\ proposal[p].activated <= Len(graph)

RequestOK(r) ==
  LET at == reviewer[r].at
      row == proposal[KeyAt(r)]
  IN  /\ at # "IDLE" => KeyAt(r) \in DOMAIN proposal
      /\ at = "DECIDE" => reviewer[r].decision \in Decisions
      /\ at \in Opened =>
           /\ reviewer[r].decision \in {"APPROVED", "REJECTED"}
           /\ row.state = reviewer[r].decision /\ row.activated = 0
      /\ at \notin Undecided \cup {"EVIDENCE"} => KeyAt(r).origin \in Commands /\ row.approval
      /\ at \in {"RESERVE", "ACTIVATE"} => reviewer[r].decision = "APPROVED"
      /\ at \in Done => row.state = "APPROVED" /\ row.activated # 0
      /\ at = "FINALIZE" => package[ArtifactOf(KeyAt(r).origin)] = PackageOf(r)
      /\ at = "PUBLISHED" => row.state = "FINALIZED"

OneDecides ==
  \A r, s \in Reviewers :
    reviewer[r].at \notin Undecided /\ reviewer[s].at \notin Undecided /\ KeyAt(r) = KeyAt(s) => r = s

RequestsOK == OneDecides /\ \A r \in Reviewers : RequestOK(r)

ReconcilerOK ==
  /\ InLedger(reconciler.edges) /\ reconciler.base <= Len(graph)
  /\ reconciler.at # "IDLE" => reconciler.artifact \in Artifacts

LineageInv ==
  /\ TablesTyped /\ ProcessesTyped
  /\ \A c \in Commands : CommandOK(c)
  /\ GraphsOK /\ ProposalsOK /\ RequestsOK /\ FinalizedIsServed /\ ReconcilerOK

-----------------------------------------------------------------------------
(* The operators.                                                          *)

LEMMA EdgeMapFacts ==
  ASSUME NEW f \in EdgeMaps
  PROVE  /\ DOMAIN f \subseteq Edges
         /\ \A e \in DOMAIN f : f[e] \in Evidence
         /\ f \in [DOMAIN f -> Evidence]
<1>1. PICK D \in SUBSET Edges : f \in [D -> Evidence]
  BY DEF EdgeMaps
<1> QED
  BY <1>1

LEMMA EdgeMapIntro ==
  ASSUME NEW D \in SUBSET Edges, NEW f \in [D -> Evidence]
  PROVE  f \in EdgeMaps
BY DEF EdgeMaps

\* The edges of an analysis are edges that a graph may have.
LEMMA MapFacts ==
  /\ EdgeMaps \subseteq Maps
  /\ \A f \in Maps : /\ DOMAIN f \subseteq Edges
                     /\ \A e \in DOMAIN f : f[e] \in SUBSET Assertions
                     /\ f \in [DOMAIN f -> SUBSET Assertions]
<1>1. \A D \in SUBSET Edges : [D -> Evidence] \subseteq [D -> SUBSET Assertions]
  BY DEF Evidence
<1>2. EdgeMaps \subseteq Maps
  BY <1>1 DEF EdgeMaps, Maps
<1>3. ASSUME NEW f \in Maps
      PROVE  /\ DOMAIN f \subseteq Edges
             /\ \A e \in DOMAIN f : f[e] \in SUBSET Assertions
             /\ f \in [DOMAIN f -> SUBSET Assertions]
  <2>1. PICK D \in SUBSET Edges : f \in [D -> SUBSET Assertions]
    BY DEF Maps
  <2> QED
    BY <2>1
<1> QED
  BY <1>2, <1>3

LEMMA MapIntro ==
  ASSUME NEW D \in SUBSET Edges, NEW f \in [D -> SUBSET Assertions]
  PROVE  f \in Maps
BY DEF Maps

\* What a reviewer wrote stays written: no proposal is deleted.
LEMMA ReviewedGrows ==
  ASSUME DOMAIN proposal \subseteq DOMAIN proposal'
  PROVE  Reviewed \subseteq Reviewed'
BY DEF Reviewed, ByReview

LEMMA NoEdgesType == NoEdges \in EdgeMaps /\ DOMAIN NoEdges = {}
<1>1. {} \in SUBSET Edges /\ NoEdges \in [{} -> Evidence]
  BY DEF NoEdges
<1> QED
  BY <1>1, EdgeMapIntro DEF NoEdges

LEMMA WithType ==
  ASSUME NEW f \in EdgeMaps, NEW e \in Edges, NEW s \in Evidence
  PROVE  /\ With(f, e, s) \in EdgeMaps
         /\ DOMAIN With(f, e, s) = DOMAIN f \cup {e}
         /\ With(f, e, s)[e] = s
         /\ \A k \in DOMAIN f : k # e => With(f, e, s)[k] = f[k]
<1>1. /\ DOMAIN f \cup {e} \in SUBSET Edges
      /\ With(f, e, s) \in [DOMAIN f \cup {e} -> Evidence]
  BY EdgeMapFacts DEF With
<1>2. With(f, e, s) \in EdgeMaps
  BY <1>1, EdgeMapIntro
<1> QED
  BY <1>1, <1>2 DEF With

\* An edge keeps resting on an analysis when an assertion is merged into it.
LEMMA EvidenceGrows ==
  ASSUME NEW s \in Evidence, NEW a \in Assertions, a[1] = "SCA" \/ s # {}
  PROVE  s \cup {a} \in Evidence
BY DEF Evidence

LEMMA NoDocumentType == NoDocument \in Documents
BY NoEdgesType DEF NoDocument, Documents

LEMMA NoDocumentOK ==
  ASSUME NEW c \in Commands, graph \in Seq(Maps)
  PROVE  DocumentOK(c, NoDocument)
<1>1. NoDocument.base = 0 /\ DOMAIN NoDocument.edges = {} /\ NoDocument.runtime = {}
  BY NoEdgesType DEF NoDocument
<1>2. 0 \in 0 .. Len(graph)
  OBVIOUS
<1> QED
  BY <1>1, <1>2 DEF DocumentOK, InLedger, KeepsBase

\* The document that the next stage begins with is one that is recorded, or empty.
LEMMA DocumentType ==
  ASSUME LineageInv, NEW c \in Commands
  PROVE  /\ Document(c) \in Documents /\ DocumentOK(c, Document(c))
         /\ recorded[c] \in Seq(Documents) /\ Number(c) = Len(recorded[c]) + 1
         /\ recorded[c] # << >> => Document(c) = recorded[c][Len(recorded[c])]
<1>1. recorded[c] \in Seq(Documents) /\ graph \in Seq(Maps)
  BY DEF LineageInv, ProcessesTyped, TablesTyped
<1>2. CASE recorded[c] = << >>
  BY <1>1, <1>2, NoDocumentType, NoDocumentOK DEF Document, Number
<1>3. CASE recorded[c] # << >>
  <2>1. Len(recorded[c]) \in 1 .. Len(recorded[c])
    BY <1>1, <1>3
  <2>2. Document(c) = recorded[c][Len(recorded[c])]
    BY <1>3 DEF Document, Latest
  <2>3. DocumentOK(c, recorded[c][Len(recorded[c])])
    BY <2>1 DEF LineageInv, CommandOK
  <2> QED
    BY <1>1, <2>1, <2>2, <2>3 DEF Number
<1> QED
  BY <1>2, <1>3

\* The paths there are.
IncrementalPaths ==
  {<<"I1", "I2", "I3", "I4">>, <<"I1", "I2", "I3", "I4", "I5", "I6", "I8">>,
   <<"I1", "I2", "I3", "I4", "I5", "I6", "I7", "I8", "I9", "I10">>}
BaselinePaths ==
  {<<"B1", "B2", "B3">>, <<"B1", "B2", "B3", "B4", "B5", "B6", "B7", "B8">>,
   <<"B1", "B2", "B3", "B4", "B5", "B6", "B7", "B8", "B9", "B10">>}

LEMMA PathCases ==
  ASSUME NEW c \in Commands, input \in Inputs
  PROVE  \/ ~Pinned(c) /\ Path(c) = <<"LEGACY">>
         \/ Pinned(c) /\ Path(c) \in IncrementalPaths \cup BaselinePaths
<1>1. Kind(c) \in {"BASELINE", "INCREMENTAL", "OTHER"}
  BY InputAssumption DEF Kind
<1>2. CASE Kind(c) = "OTHER"
  BY <1>2 DEF Path, Pinned
<1>3. CASE Kind(c) = "INCREMENTAL"
  BY <1>3 DEF Path, Pinned, IncrementalPaths
<1>4. CASE Kind(c) = "BASELINE"
  BY <1>4 DEF Path, Pinned, BaselinePaths
<1> QED
  BY <1>1, <1>2, <1>3, <1>4

\* The stages of a path: which commands have them, and the place of the proposal.
LEMMA PathStages ==
  ASSUME NEW c \in Commands, input \in Inputs
  PROVE  /\ Len(Path(c)) \in Nat
         /\ \A n \in 1 .. Len(Path(c)) :
              /\ Path(c)[n] \in {"I9", "B9"} => n = 9
              /\ Path(c)[n] = "LEGACY" <=> ~Pinned(c)
<1>1. CASE ~Pinned(c) /\ Path(c) = <<"LEGACY">>
  BY <1>1
<1>2. CASE Pinned(c) /\ Path(c) \in IncrementalPaths
  <2>1. CASE Path(c) = <<"I1", "I2", "I3", "I4">>
    BY <1>2, <2>1
  <2>2. CASE Path(c) = <<"I1", "I2", "I3", "I4", "I5", "I6", "I8">>
    BY <1>2, <2>2
  <2>3. CASE Path(c) = <<"I1", "I2", "I3", "I4", "I5", "I6", "I7", "I8", "I9", "I10">>
    BY <1>2, <2>3
  <2> QED
    BY <1>2, <2>1, <2>2, <2>3 DEF IncrementalPaths
<1>3. CASE Pinned(c) /\ Path(c) \in BaselinePaths
  <2>1. CASE Path(c) = <<"B1", "B2", "B3">>
    BY <1>3, <2>1
  <2>2. CASE Path(c) = <<"B1", "B2", "B3", "B4", "B5", "B6", "B7", "B8">>
    BY <1>3, <2>2
  <2>3. CASE Path(c) = <<"B1", "B2", "B3", "B4", "B5", "B6", "B7", "B8", "B9", "B10">>
    BY <1>3, <2>3
  <2> QED
    BY <1>3, <2>1, <2>2, <2>3 DEF BaselinePaths
<1> QED
  BY <1>1, <1>2, <1>3, PathCases

\* A worker that is in a stage is at a place of the path of its command.
LEMMA StageIsOnPath ==
  ASSUME LineageInv, NEW c \in Commands, NEW stages, In(c, stages)
  PROVE  /\ Number(c) \in 1 .. Len(Path(c)) /\ Path(c)[Number(c)] \in stages
         /\ task[c].at = "STAGE"
         /\ stages \subseteq {"I9", "B9"} => Number(c) = 9
         /\ "LEGACY" \notin stages => Pinned(c)
         /\ stages = {"LEGACY"} => ~Pinned(c)
<1>1. Number(c) >= 1 /\ Number(c) \in Nat
  BY DocumentType
<1>2. Number(c) <= Len(Path(c)) /\ Path(c)[Number(c)] \in stages /\ task[c].at = "STAGE"
  BY DEF In, Stage
<1>3. input \in Inputs
  BY DEF LineageInv, TablesTyped
<1>4. Number(c) \in 1 .. Len(Path(c))
  BY <1>1, <1>2, <1>3, PathStages
<1> QED
  BY <1>2, <1>3, <1>4, PathStages

-----------------------------------------------------------------------------
(* What a step keeps that leaves the rest alone.                           *)

\* The ledger, the published graphs and what reviewers wrote only grow.
Grows ==
  /\ input' = input
  /\ Reviewed \subseteq Reviewed'
  /\ \A e \in Edges : ledger[e] \subseteq ledger'[e]
  /\ graph' \in Seq(Maps) /\ Len(graph) <= Len(graph')
  /\ \A b \in 1 .. Len(graph) : graph'[b] = graph[b]

\* A document stays sound: its base is the graph it was, and the ledger has more.
LEMMA DocumentKept ==
  ASSUME LineageInv, Grows, NEW c \in Commands, NEW d \in Documents, DocumentOK(c, d)
  PROVE  DocumentOK(c, d)'
<1>1. Len(graph) \in Nat /\ DOMAIN graph = 1 .. Len(graph)
  BY DEF LineageInv, TablesTyped
<1>2. Len(graph') \in Nat /\ DOMAIN graph' = 1 .. Len(graph')
  BY DEF Grows
<1>3. d.edges \in EdgeMaps /\ d.base \in Nat
  BY DEF Documents
<1>4. DOMAIN d.edges \subseteq Edges
  BY <1>3, EdgeMapFacts
<1>5. d.base \in 0 .. Len(graph')
  BY <1>1, <1>3, <1>2 DEF Grows, DocumentOK
<1>6. \A e \in DOMAIN d.edges : d.edges[e] \subseteq ledger'[e]
  BY <1>4 DEF Grows, DocumentOK, InLedger
<1>7. ASSUME Pinned(c), d.base \in DOMAIN graph', NEW e \in DOMAIN d.edges \cap DOMAIN graph'[d.base]
      PROVE  graph'[d.base][e] \subseteq d.edges[e] \/ <<e, graph'[d.base][e]>> \in Reviewed'
  <2>1. d.base \in DOMAIN graph
    <3>1. d.base # 0
      BY <1>7, <1>2
    <3> QED
      BY <1>1, <3>1 DEF DocumentOK
  <2>2. graph'[d.base] = graph[d.base]
    BY <1>1, <2>1 DEF Grows
  <2> QED
    BY <1>7, <2>1, <2>2 DEF DocumentOK, KeepsBase, Grows
<1>8. Pinned(c)' = Pinned(c) /\ input' = input
  BY DEF Grows, Pinned, Kind
<1>9. Pinned(c)' => KeepsBase(d.edges, d.base)'
  BY <1>7, <1>8 DEF KeepsBase
<1> QED
  BY <1>5, <1>6, <1>8, <1>9 DEF DocumentOK, InLedger

\* A command that a step leaves alone.
LEMMA CommandKept ==
  ASSUME LineageInv, Grows, NEW c \in Commands,
         task'[c] = task[c], artifact'[c] = artifact[c], recorded'[c] = recorded[c]
  PROVE  CommandOK(c)'
<1>1. CommandOK(c) /\ task[c] \in Tasks /\ recorded[c] \in Seq(Documents)
  BY DEF LineageInv, ProcessesTyped
<1>2. PICK d \in Documents : d = task[c].document
  BY <1>1 DEF Tasks
<1>3. DocumentOK(c, d)'
  BY <1>1, <1>2, DocumentKept DEF CommandOK
<1>4. \A i \in 1 .. Len(recorded[c]) : recorded[c][i] \in Documents /\ DocumentOK(c, recorded[c][i])
  BY <1>1 DEF CommandOK
<1>5. PICK docs \in Seq(Documents) : docs = recorded[c]
  BY <1>1
<1>6. ASSUME NEW i \in 1 .. Len(docs)
      PROVE  DocumentOK(c, docs[i])'
  <2>1. PICK e \in Documents : e = docs[i]
    BY <1>4, <1>5
  <2>2. DocumentOK(c, e)'
    BY <1>4, <1>5, <2>1, DocumentKept
  <2> QED
    BY <2>1, <2>2
<1>7. StoredOK(c)'
  BY <1>1 DEF CommandOK, StoredOK, Number
<1>8. MergingOK(c)'
  BY <1>1 DEF CommandOK, MergingOK, Grows
<1>9. task'[c].at \in LegacyPlaces => ~Pinned(c)'
  BY <1>1 DEF CommandOK, Grows, Pinned, Kind
<1>10. DocumentOK(c, task[c].document)'
  BY <1>2, <1>3 DEF DocumentOK, InLedger, KeepsBase
<1>11. \A i \in 1 .. Len(recorded'[c]) : DocumentOK(c, recorded[c][i])'
  BY <1>5, <1>6 DEF DocumentOK, InLedger, KeepsBase
<1> QED
  BY <1>7, <1>8, <1>9, <1>10, <1>11 DEF CommandOK

\* The commands, when a step changes at most one of them.
LEMMA CommandsKept ==
  ASSUME LineageInv, Grows, NEW c \in Commands, CommandOK(c)',
         \A x \in Commands \ {c} : /\ task'[x] = task[x] /\ artifact'[x] = artifact[x]
                                   /\ recorded'[x] = recorded[x]
  PROVE  \A x \in Commands : CommandOK(x)'
<1>1. ASSUME NEW x \in Commands, x # c
      PROVE  CommandOK(x)'
  BY <1>1, CommandKept
<1> QED
  BY <1>1

\* No command is changed.
LEMMA AllCommandsKept ==
  ASSUME LineageInv, Grows, UNCHANGED <<task, artifact, recorded>>
  PROVE  \A x \in Commands : CommandOK(x)'
<1>1. ASSUME NEW x \in Commands
      PROVE  CommandOK(x)'
  BY <1>1, CommandKept
<1> QED
  BY <1>1

\* What the graphs, the proposals and the reconciliation rest on is still there.
LEMMA GraphsKept ==
  ASSUME LineageInv, Grows, graph' = graph
  PROVE  GraphsOK'
<1>1. PICK g \in Seq(Maps) : g = graph
  BY DEF LineageInv, TablesTyped
<1>2. ASSUME NEW b \in 1 .. Len(g), NEW e \in DOMAIN g[b]
      PROVE  Rests(e, g[b][e])'
  <2>1. g[b] \in Maps
    BY <1>1
  <2>2. e \in Edges
    BY <1>2, <2>1, MapFacts
  <2>3. PICK row : row = g[b][e]
    OBVIOUS
  <2>4. Rests(e, row)
    BY <1>1, <1>2, <2>3 DEF LineageInv, GraphsOK
  <2> QED
    BY <2>2, <2>3, <2>4 DEF Grows, Rests
<1> QED
  BY <1>1, <1>2 DEF GraphsOK, Rests

\* The stages that are recorded stay as they are.
RecordedGrows ==
  \A c \in Commands : /\ Len(recorded'[c]) \in Nat /\ Len(recorded[c]) <= Len(recorded'[c])
                      /\ \A i \in 1 .. Len(recorded[c]) : recorded'[c][i] = recorded[c][i]

LEMMA KeyKept ==
  ASSUME LineageInv, Grows, RecordedGrows, DOMAIN proposal \subseteq DOMAIN proposal',
         NEW p \in DOMAIN proposal
  PROVE  KeyOK(p)'
<1>1. p \in Keys /\ KeyOK(p)
  BY DEF LineageInv, TablesTyped, ProposalsOK
<1>2. p.first \in EdgeMaps /\ p.base \in Nat /\ p.version \in Nat
  BY <1>1 DEF Keys
<1>3. DOMAIN p.first \subseteq Edges
  BY <1>2, EdgeMapFacts
<1>4. Len(graph) \in Nat /\ DOMAIN graph = 1 .. Len(graph)
  BY DEF LineageInv, TablesTyped
<1>5. Len(graph') \in Nat /\ DOMAIN graph' = 1 .. Len(graph')
  BY DEF Grows
<1>6. p.base <= Len(graph')
  BY <1>1, <1>2, <1>4, <1>5 DEF Grows, KeyOK
<1>7. \A e \in DOMAIN p.first : p.first[e] \subseteq ledger'[e]
  BY <1>1, <1>3 DEF Grows, KeyOK, InLedger
<1>8. FirstOf(p) \in DOMAIN proposal'
  BY <1>1 DEF KeyOK
<1>9. OfRun(p)' <=> OfRun(p)
  BY DEF OfRun, Pinned, Kind, Grows
<1>10. ASSUME OfRun(p), p.base \in DOMAIN graph', NEW e \in DOMAIN p.first \cap DOMAIN graph'[p.base]
       PROVE  graph'[p.base][e] \subseteq p.first[e] \/ <<e, graph'[p.base][e]>> \in Reviewed'
  <2>1. p.base \in DOMAIN graph
    BY <1>1, <1>2, <1>4, <1>5, <1>10 DEF KeyOK
  <2>2. graph'[p.base] = graph[p.base]
    BY <1>4, <2>1 DEF Grows
  <2> QED
    BY <1>1, <1>10, <2>1, <2>2 DEF KeyOK, KeepsBase, Grows
<1>11. ASSUME OfRun(p)
       PROVE  /\ Len(recorded'[p.origin]) >= 8
              /\ p.first = recorded'[p.origin][8].edges /\ p.base = recorded'[p.origin][8].base
  <2>1. p.origin \in Commands /\ recorded[p.origin] \in Seq(Documents)
    BY <1>11 DEF OfRun, LineageInv, ProcessesTyped
  <2>2. Len(recorded[p.origin]) \in Nat /\ Len(recorded[p.origin]) >= 8
    BY <1>1, <1>11, <2>1 DEF KeyOK
  <2>3. 8 \in 1 .. Len(recorded[p.origin])
    BY <2>2
  <2>4. recorded'[p.origin][8] = recorded[p.origin][8]
    BY <2>1, <2>3 DEF RecordedGrows
  <2> QED
    BY <1>1, <1>11, <2>1, <2>2, <2>4 DEF KeyOK, RecordedGrows
<1>12. KeepsBase(p.first, p.base)' <=>
         (p.base \in DOMAIN graph' =>
            \A e \in DOMAIN p.first \cap DOMAIN graph'[p.base] :
              graph'[p.base][e] \subseteq p.first[e] \/ <<e, graph'[p.base][e]>> \in Reviewed')
  BY DEF KeepsBase
<1> HIDE DEF OfRun, FirstOf, KeepsBase
<1> QED
  BY <1>1, <1>6, <1>7, <1>8, <1>9, <1>10, <1>11, <1>12 DEF KeyOK, InLedger

\* No proposal is changed.
LEMMA ProposalsKept ==
  ASSUME LineageInv, Grows, RecordedGrows, proposal' = proposal
  PROVE  ProposalsOK'
<1>1. \A p \in DOMAIN proposal : KeyOK(p)'
  <2>1. ASSUME NEW p \in DOMAIN proposal
        PROVE  KeyOK(p)'
    BY KeyKept
  <2> QED
    BY <2>1
<1>2. VersionsOK'
  BY DEF LineageInv, ProposalsOK, VersionsOK
<1>3. \A p \in DOMAIN proposal : proposal'[p].activated <= Len(graph')
  <2>1. ASSUME NEW p \in DOMAIN proposal
        PROVE  proposal[p].activated <= Len(graph')
    <3>1. proposal[p].activated \in Nat /\ proposal[p].activated <= Len(graph)
      BY DEF LineageInv, TablesTyped, Rows, ProposalsOK
    <3>2. Len(graph) \in Nat /\ Len(graph') \in Nat /\ Len(graph) <= Len(graph')
      BY DEF LineageInv, TablesTyped, Grows
    <3> QED
      BY <3>1, <3>2
  <2> QED
    BY <2>1
<1> QED
  BY <1>1, <1>2, <1>3 DEF ProposalsOK

LEMMA RequestsKept ==
  ASSUME LineageInv, UNCHANGED <<input, reviewer, proposal, package>>
  PROVE  RequestsOK' /\ FinalizedIsServed'
<1>1. RequestsOK'
  BY DEF LineageInv, RequestsOK, OneDecides, RequestOK, KeyAt, PackageOf, ArtifactOf
<1>2. FinalizedIsServed'
  BY DEF LineageInv, FinalizedIsServed, ArtifactOf
<1> QED
  BY <1>1, <1>2

LEMMA ReconcilerKept ==
  ASSUME LineageInv, Grows, reconciler' = reconciler
  PROVE  ReconcilerOK'
<1>1. PICK r \in Reconciliations : r = reconciler
  BY DEF LineageInv, ProcessesTyped
<1>2. DOMAIN r.edges \subseteq Edges /\ r.base \in Nat
  BY EdgeMapFacts DEF Reconciliations
<1>3. Len(graph) \in Nat /\ Len(graph') \in Nat
  BY DEF LineageInv, TablesTyped, Grows
<1> QED
  BY <1>1, <1>2, <1>3 DEF LineageInv, ReconcilerOK, InLedger, Grows

\* Nothing but the commands is changed.
LEMMA NothingElse ==
  ASSUME LineageInv, UNCHANGED <<input, ledger, graph>>, DOMAIN proposal \subseteq DOMAIN proposal'
  PROVE  Grows
BY ReviewedGrows DEF LineageInv, TablesTyped, Grows

-----------------------------------------------------------------------------
(* The steps of a worker that change only its task, its run or its join.    *)

tables == <<input, ledger, proposal, reviewer, reconciler, graph, pointer, package>>

\* What CommandOK asks of a task that is not about to record.
TaskOK(c, new) ==
  /\ new.at # "RECORD"
  /\ DocumentOK(c, new.document)
  /\ new.at \in LegacyPlaces => ~Pinned(c)
  /\ new.at \in {"MERGE", "LEGACY_MERGE"} =>
       \A e \in Edges : <<"EVENT", e>> \in new.todo => <<"SCA", e>> \in new.todo \/ ledger[e] # {}

\* Nothing but the commands is changed, and the stages that are recorded are kept.
LEMMA WorkerStepKeeps ==
  ASSUME LineageInv, UNCHANGED tables, RecordedGrows, ProcessesTyped',
         NEW c \in Commands, CommandOK(c)',
         \A x \in Commands \ {c} : /\ task'[x] = task[x] /\ artifact'[x] = artifact[x]
                                   /\ recorded'[x] = recorded[x]
  PROVE  LineageInv'
<1>1. Grows
  BY NothingElse DEF tables
<1>2. TablesTyped'
  BY DEF tables, LineageInv, TablesTyped
<1>3. \A x \in Commands : CommandOK(x)'
  BY <1>1, CommandsKept
<1>4. GraphsOK' /\ ProposalsOK' /\ RequestsOK' /\ FinalizedIsServed' /\ ReconcilerOK'
  BY <1>1, GraphsKept, ProposalsKept, RequestsKept, ReconcilerKept DEF tables
<1> QED
  BY <1>2, <1>3, <1>4 DEF LineageInv

LEMMA TaskKept ==
  ASSUME LineageInv, UNCHANGED <<input, ledger, graph, artifact, recorded>>,
         DOMAIN proposal \subseteq DOMAIN proposal',
         NEW c \in Commands, NEW new \in Tasks, TaskOK(c, new), task' = [task EXCEPT ![c] = new]
  PROVE  /\ CommandOK(c)' /\ RecordedGrows
         /\ task' \in [Commands -> Tasks] /\ \A x \in Commands \ {c} : task'[x] = task[x]
<1>1. /\ task \in [Commands -> Tasks]
      /\ recorded \in [Commands -> Seq(Documents)]
  BY DEF LineageInv, ProcessesTyped
<1>2. task'[c] = new /\ \A x \in Commands \ {c} : task'[x] = task[x]
  BY <1>1
<1>3. RecordedGrows /\ task' \in [Commands -> Tasks]
  BY <1>1 DEF RecordedGrows
<1>4. StoredOK(c)' /\ MergingOK(c)'
  BY <1>2 DEF LineageInv, CommandOK, StoredOK, MergingOK, TaskOK, Number
<1>9. Reviewed \subseteq Reviewed'
  BY ReviewedGrows
<1>5. DocumentOK(c, task[c].document)'
  BY <1>2, <1>9 DEF TaskOK, DocumentOK, InLedger, KeepsBase, Pinned, Kind
<1>6. \A i \in 1 .. Len(recorded'[c]) : DocumentOK(c, recorded[c][i])'
  BY <1>9 DEF LineageInv, CommandOK, DocumentOK, InLedger, KeepsBase, Pinned, Kind
<1>7. task'[c].at \in LegacyPlaces => ~Pinned(c)'
  BY <1>2 DEF TaskOK, Pinned, Kind
<1>8. CommandOK(c)'
  BY <1>4, <1>5, <1>6, <1>7 DEF CommandOK
<1> QED
  BY <1>2, <1>3, <1>8

LEMMA TaskStep ==
  ASSUME LineageInv, UNCHANGED <<tables, artifact, recorded>>,
         NEW c \in Commands, NEW new \in Tasks, TaskOK(c, new), task' = [task EXCEPT ![c] = new]
  PROVE  LineageInv'
<1>1. /\ CommandOK(c)' /\ RecordedGrows
      /\ task' \in [Commands -> Tasks] /\ \A x \in Commands \ {c} : task'[x] = task[x]
  BY TaskKept DEF tables
<1>2. ProcessesTyped'
  BY <1>1 DEF LineageInv, ProcessesTyped, tables
<1> QED
  BY <1>1, <1>2, WorkerStepKeeps

\* The task of a command, as a record of its own.
LEMMA TaskFacts ==
  ASSUME LineageInv, NEW c \in Commands
  PROVE  /\ task \in [Commands -> Tasks] /\ task[c] \in Tasks
         /\ task[c].document \in Documents /\ DocumentOK(c, task[c].document)
         /\ task[c].at \in LegacyPlaces => ~Pinned(c)
BY DEF LineageInv, ProcessesTyped, Tasks, CommandOK

\* The worker takes a document to the next place.
LEMMA ComputeStep ==
  ASSUME LineageInv, UNCHANGED <<tables, artifact, recorded>>, NEW c \in Commands,
         NEW document \in Documents, DocumentOK(c, document), Compute(c, document)
  PROVE  LineageInv'
<1>1. PICK t \in Tasks : t = task[c]
  BY TaskFacts
<1>2. PICK new : new = [t EXCEPT !.at = "PUT", !.document = document]
  OBVIOUS
<1>3. new \in Tasks /\ new.at = "PUT" /\ new.document = document
  BY <1>1, <1>2 DEF Tasks, Places
<1>4. task' = [task EXCEPT ![c] = new]
  BY <1>1, <1>2, TaskFacts DEF Compute
<1>5. TaskOK(c, new)
  BY <1>3 DEF TaskOK, LegacyPlaces
<1> QED
  BY <1>3, <1>4, <1>5, TaskStep

LEMMA GiveUpType ==
  ASSUME LineageInv, NEW c \in Commands, GiveUp(c)
  PROVE  \E new \in Tasks : /\ task' = [task EXCEPT ![c] = new] /\ TaskOK(c, new)
                            /\ new.at = "IDLE"
<1>1. PICK t \in Tasks : t = task[c]
  BY TaskFacts
<1>2. PICK status \in Statuses :
        status = IF task[c].attempt = MaxAttempts THEN "FAILED_TERMINAL" ELSE "FAILED_REDRIVABLE"
  BY DEF Statuses
<1>3. PICK new : new = [t EXCEPT !.at = "IDLE", !.todo = {}, !.document = NoDocument, !.status = status]
  OBVIOUS
<1>4. new \in Tasks /\ new.at = "IDLE" /\ new.document = NoDocument
  BY <1>1, <1>2, <1>3, NoDocumentType DEF Tasks, Places
<1>5. task' = [task EXCEPT ![c] = new]
  BY <1>1, <1>2, <1>3, TaskFacts DEF GiveUp
<1>6. TaskOK(c, new)
  BY <1>4, NoDocumentOK DEF TaskOK, LegacyPlaces, LineageInv, TablesTyped
<1> QED
  BY <1>4, <1>5, <1>6

LEMMA GiveUpStep ==
  ASSUME LineageInv, UNCHANGED <<tables, artifact, recorded>>, NEW c \in Commands, GiveUp(c)
  PROVE  LineageInv'
<1>1. PICK new \in Tasks : task' = [task EXCEPT ![c] = new] /\ TaskOK(c, new)
  BY GiveUpType
<1> QED
  BY <1>1, TaskStep

LEMMA BeginSafe ==
  ASSUME LineageInv, NEW c \in Commands, Begin(c)
  PROVE  LineageInv'
<1>1. PICK t \in Tasks : t = task[c] /\ DocumentOK(c, t.document)
  BY TaskFacts
<1>9. PICK n \in Nat : n = t.attempt + 1
  BY <1>1 DEF Tasks
<1>2. PICK new : new = [t EXCEPT !.at = "STAGE", !.status = "RUNNING", !.attempt = n]
  OBVIOUS
<1>3. new \in Tasks /\ new.at = "STAGE" /\ new.document = t.document
  BY <1>1, <1>9, <1>2 DEF Tasks, Places, Statuses
<1>4. task' = [task EXCEPT ![c] = new]
  BY <1>1, <1>9, <1>2, TaskFacts DEF Begin
<1>5. TaskOK(c, new)
  BY <1>1, <1>3 DEF TaskOK, LegacyPlaces
<1>6. UNCHANGED <<tables, artifact, recorded>>
  BY DEF Begin, tables, published, evidence
<1> QED
  BY <1>3, <1>4, <1>5, <1>6, TaskStep

LEMMA CompleteSafe ==
  ASSUME LineageInv, NEW c \in Commands, Complete(c)
  PROVE  LineageInv'
<1>1. PICK t \in Tasks : t = task[c]
  BY TaskFacts
<1>2. PICK new : new = [t EXCEPT !.at = "IDLE", !.status = "COMPLETED", !.document = NoDocument]
  OBVIOUS
<1>3. new \in Tasks /\ new.at = "IDLE" /\ new.document = NoDocument
  BY <1>1, <1>2, NoDocumentType DEF Tasks, Places, Statuses
<1>4. task' = [task EXCEPT ![c] = new]
  BY <1>1, <1>2, TaskFacts DEF Complete
<1>5. TaskOK(c, new)
  BY <1>3, NoDocumentOK DEF TaskOK, LegacyPlaces, LineageInv, TablesTyped
<1>6. UNCHANGED <<tables, artifact, recorded>>
  BY DEF Complete, tables, published, evidence
<1> QED
  BY <1>3, <1>4, <1>5, <1>6, TaskStep

LEMMA StartSafe ==
  ASSUME LineageInv, NEW c \in Commands, Start(c)
  PROVE  LineageInv'
<1>1. PICK b \in Nat : b = pointer.active /\ b \in 1 .. Len(graph)
  BY DEF LineageInv, TablesTyped
<1>2. PICK d : d = [NoDocument EXCEPT !.base = b]
  OBVIOUS
<1>3. d \in Documents /\ d.base = b /\ d.edges = NoEdges /\ d.runtime = {}
  BY <1>2, NoDocumentType DEF Documents, NoDocument
<1>4. DocumentOK(c, d)
  BY <1>1, <1>3, NoEdgesType DEF DocumentOK, InLedger, KeepsBase, LineageInv, TablesTyped
<1>5. Compute(c, d) /\ UNCHANGED <<tables, artifact, recorded>>
  BY <1>1, <1>2 DEF Start, tables, published, evidence
<1> QED
  BY <1>3, <1>4, <1>5, ComputeStep

LEMMA JoinSessionsSafe ==
  ASSUME LineageInv, NEW c \in Commands, JoinSessions(c)
  PROVE  LineageInv'
<1>1. UNCHANGED <<tables, artifact, recorded>>
  BY DEF JoinSessions, tables, published
<1>2. PICK seen : seen = Observed(ArtifactOf(c))
  OBVIOUS
<1>3. seen \subseteq Edges
  BY <1>2 DEF Observed
<1>4. PICK observed : observed = input.command[c].observed /\ observed \subseteq input.command[c].found
                      /\ observed \subseteq Edges
  BY InputAssumption DEF LineageInv, TablesTyped
<1>5. PICK runtime : runtime = IF seen # {} THEN {"SESSION"} \X seen ELSE {"EVENT"} \X observed
  OBVIOUS
<1>6. PICK d \in Documents : d = Document(c) /\ DocumentOK(c, d)
  BY DocumentType
<1>7. PICK n : n = [d EXCEPT !.runtime = runtime]
  OBVIOUS
<1>8. runtime \in SUBSET ({"SESSION", "EVENT"} \X Edges)
  BY <1>3, <1>4, <1>5
<1>9. n \in Documents /\ n.base = d.base /\ n.edges = d.edges /\ n.runtime = runtime
  BY <1>6, <1>7, <1>8 DEF Documents
<1>10. \A e \in Edges : <<"EVENT", e>> \in runtime => e \in input.command[c].found
  BY <1>4, <1>5
<1>11. DocumentOK(c, n)
  BY <1>6, <1>9, <1>10 DEF DocumentOK
<1>12. CASE Compute(c, n)
  BY <1>1, <1>9, <1>11, <1>12, ComputeStep
<1>13. CASE GiveUp(c)
  BY <1>1, <1>13, GiveUpStep
<1>14. Compute(c, n) \/ GiveUp(c)
  BY <1>2, <1>4, <1>5, <1>6, <1>7 DEF JoinSessions
<1> QED
  BY <1>12, <1>13, <1>14

LEMMA StartMergeSafe ==
  ASSUME LineageInv, NEW c \in Commands, StartMerge(c)
  PROVE  LineageInv'
<1>1. UNCHANGED <<tables, artifact, recorded>>
  BY DEF StartMerge, tables, published, evidence
<1>2. PICK t \in Tasks : t = task[c]
  BY TaskFacts
<1>3. PICK d \in Documents : d = Document(c) /\ DocumentOK(c, d)
  BY DocumentType
<1>4. PICK found \in SUBSET Edges : found = input.command[c].found
  BY InputAssumption DEF LineageInv, TablesTyped
<1>5. PICK todo : todo = ({"SCA"} \X found) \cup d.runtime
  OBVIOUS
<1>6. d.runtime \in SUBSET ({"SESSION", "EVENT"} \X Edges)
  BY <1>3 DEF Documents
<1>7. todo \in SUBSET ({"SCA", "EVENT", "SESSION"} \X Edges)
  BY <1>4, <1>5, <1>6
<1>8. PICK new : new = [t EXCEPT !.at = "MERGE", !.todo = todo, !.document = d]
  OBVIOUS
<1>9. new \in Tasks /\ new.at = "MERGE" /\ new.todo = todo /\ new.document = d
  BY <1>2, <1>7, <1>8, <1>3 DEF Tasks, Places
<1>10. task' = [task EXCEPT ![c] = new]
  BY <1>2, <1>3, <1>4, <1>5, <1>8, TaskFacts DEF StartMerge
<1>11. ASSUME NEW e \in Edges, <<"EVENT", e>> \in todo
       PROVE  <<"SCA", e>> \in todo
  <2>1. <<"EVENT", e>> \in d.runtime
    BY <1>5, <1>11
  <2>2. e \in found
    BY <2>1, <1>3, <1>4 DEF DocumentOK
  <2> QED
    BY <2>2, <1>5
<1>12. TaskOK(c, new)
  BY <1>3, <1>9, <1>11 DEF TaskOK, LegacyPlaces
<1> QED
  BY <1>1, <1>9, <1>10, <1>12, TaskStep

LEMMA EndMergeSafe ==
  ASSUME LineageInv, NEW c \in Commands, EndMerge(c) \/ EnterReview(c)
  PROVE  LineageInv'
<1>1. UNCHANGED <<tables, artifact, recorded>>
  BY DEF EndMerge, EnterReview, tables, published, evidence
<1>2. PICK d \in Documents : d = task[c].document /\ DocumentOK(c, d)
  BY TaskFacts
<1>3. Compute(c, d)
  BY <1>2 DEF EndMerge, EnterReview
<1> QED
  BY <1>1, <1>2, <1>3, ComputeStep

LEMMA RecheckSafe ==
  ASSUME LineageInv, NEW c \in Commands, Recheck(c) \/ NoLineage(c)
  PROVE  LineageInv'
<1>1. UNCHANGED <<tables, artifact, recorded>>
  BY DEF Recheck, NoLineage, tables, published, evidence
<1>2. PICK d \in Documents : d = Document(c) /\ DocumentOK(c, d)
  BY DocumentType
<1>3. Compute(c, d) \/ GiveUp(c)
  BY <1>2 DEF Recheck, NoLineage
<1> QED
  BY <1>1, <1>2, <1>3, ComputeStep, GiveUpStep

LEMMA InsertRunSafe ==
  ASSUME LineageInv, NEW c \in Commands, InsertRun(c)
  PROVE  LineageInv'
<1>1. UNCHANGED <<tables, artifact, recorded>>
  BY DEF InsertRun, tables, published, evidence
<1>2. ~Pinned(c)
  BY StageIsOnPath DEF InsertRun
<1>3. PICK t \in Tasks : t = task[c] /\ DocumentOK(c, t.document)
  BY TaskFacts
<1>4. PICK new : new = [t EXCEPT !.at = "LEGACY_ANALYSE"]
  OBVIOUS
<1>5. new \in Tasks /\ new.at = "LEGACY_ANALYSE" /\ new.document = t.document
  BY <1>3, <1>4 DEF Tasks, Places, LegacyPlaces
<1>6. TaskOK(c, new)
  BY <1>2, <1>3, <1>5 DEF TaskOK
<1>7. GiveUp(c) \/ task' = [task EXCEPT ![c] = new]
  BY <1>3, <1>4, TaskFacts DEF InsertRun
<1> QED
  BY <1>1, <1>5, <1>6, <1>7, TaskStep, GiveUpStep

LEMMA AnalyseLegacySafe ==
  ASSUME LineageInv, NEW c \in Commands, AnalyseLegacy(c)
  PROVE  LineageInv'
<1>1. UNCHANGED <<tables, artifact, recorded>>
  BY DEF AnalyseLegacy, tables, published, evidence
<1>2. PICK t \in Tasks : t = task[c] /\ DocumentOK(c, t.document) /\ ~Pinned(c)
  BY TaskFacts DEF AnalyseLegacy, LegacyPlaces
<1>3. PICK found \in SUBSET Edges : found = input.command[c].found
  BY InputAssumption DEF LineageInv, TablesTyped
<1>4. PICK todo : todo = {"SCA", "EVENT"} \X found
  OBVIOUS
<1>5. CASE input.command[c].known
  <2>1. PICK new : new = [t EXCEPT !.at = "LEGACY_MERGE", !.todo = todo]
    OBVIOUS
  <2>2. new \in Tasks /\ new.at = "LEGACY_MERGE" /\ new.todo = todo /\ new.document = t.document
    BY <1>2, <1>3, <1>4, <2>1 DEF Tasks, Places, LegacyPlaces
  <2>3. \A e \in Edges : <<"EVENT", e>> \in todo => <<"SCA", e>> \in todo
    BY <1>4
  <2>4. TaskOK(c, new)
    BY <1>2, <2>2, <2>3 DEF TaskOK
  <2>5. task' = [task EXCEPT ![c] = new]
    BY <1>2, <1>3, <1>4, <1>5, <2>1, TaskFacts DEF AnalyseLegacy
  <2> QED
    BY <1>1, <2>2, <2>4, <2>5, TaskStep
<1>6. CASE ~input.command[c].known
  <2>1. PICK new : new = [t EXCEPT !.at = "DONE"]
    OBVIOUS
  <2>2. new \in Tasks /\ new.at = "DONE" /\ new.document = t.document
    BY <1>2, <2>1 DEF Tasks, Places
  <2>3. TaskOK(c, new)
    BY <1>2, <2>2 DEF TaskOK, LegacyPlaces
  <2>4. task' = [task EXCEPT ![c] = new]
    BY <1>2, <1>6, <2>1, TaskFacts DEF AnalyseLegacy
  <2> QED
    BY <1>1, <2>2, <2>3, <2>4, TaskStep
<1> QED
  BY <1>5, <1>6

LEMMA ReadPointerSafe ==
  ASSUME LineageInv, NEW c \in Commands, ReadPointer(c)
  PROVE  LineageInv'
<1>1. UNCHANGED <<tables, artifact, recorded>>
  BY DEF ReadPointer, tables, published, evidence
<1>2. PICK t \in Tasks : t = task[c] /\ DocumentOK(c, t.document) /\ ~Pinned(c)
  BY TaskFacts DEF ReadPointer, LegacyPlaces
<1>3. PICK b \in Nat : b = pointer.active /\ b \in 0 .. Len(graph)
  BY DEF LineageInv, TablesTyped
<1>4. PICK d : d = [t.document EXCEPT !.base = b]
  OBVIOUS
<1>5. d \in Documents /\ d.base = b /\ d.edges = t.document.edges /\ d.runtime = t.document.runtime
  <2>1. t.document \in Documents
    BY <1>2 DEF Tasks
  <2> QED
    BY <2>1, <1>3, <1>4 DEF Documents
<1>6. PICK new : new = [t EXCEPT !.at = "LEGACY_PROPOSE", !.document = d]
  OBVIOUS
<1>7. new \in Tasks /\ new.at = "LEGACY_PROPOSE" /\ new.document = d
  BY <1>2, <1>5, <1>6 DEF Tasks, Places, LegacyPlaces
<1>8. DocumentOK(c, d)
  BY <1>2, <1>3, <1>5 DEF DocumentOK
<1>9. TaskOK(c, new)
  BY <1>2, <1>7, <1>8 DEF TaskOK
<1>10. task' = [task EXCEPT ![c] = new]
  BY <1>2, <1>3, <1>4, <1>6, TaskFacts DEF ReadPointer
<1> QED
  BY <1>1, <1>7, <1>9, <1>10, TaskStep

LEMMA EnterReviewLegacySafe ==
  ASSUME LineageInv, NEW c \in Commands, EnterReviewLegacy(c)
  PROVE  LineageInv'
<1>1. UNCHANGED <<tables, artifact, recorded>>
  BY DEF EnterReviewLegacy, tables, published, evidence
<1>2. PICK t \in Tasks : t = task[c] /\ DocumentOK(c, t.document)
  BY TaskFacts
<1>3. PICK new : new = [t EXCEPT !.at = "DONE"]
  OBVIOUS
<1>4. new \in Tasks /\ new.at = "DONE" /\ new.document = t.document
  BY <1>2, <1>3 DEF Tasks, Places
<1>5. TaskOK(c, new)
  BY <1>2, <1>4 DEF TaskOK, LegacyPlaces
<1>6. task' = [task EXCEPT ![c] = new]
  BY <1>2, <1>3, TaskFacts DEF EnterReviewLegacy
<1> QED
  BY <1>1, <1>4, <1>5, <1>6, TaskStep

-----------------------------------------------------------------------------
(* The steps of a worker that put or record a document.                     *)

Manifests == Seq(Documents \cup {Torn})

\* The store has these recorded documents, and they are sound.
StoreHas(c, a, r) ==
  Len(r) <= Len(a) /\ \A i \in 1 .. Len(r) : a[i] = r[i] /\ DocumentOK(c, r[i])

LEMMA StoreFacts ==
  ASSUME LineageInv, NEW c \in Commands
  PROVE  /\ artifact \in [Commands -> Manifests] /\ recorded \in [Commands -> Seq(Documents)]
         /\ artifact[c] \in Manifests /\ recorded[c] \in Seq(Documents)
         /\ StoreHas(c, artifact[c], recorded[c])
         /\ task[c].at = "RECORD" =>
              Len(artifact[c]) >= Len(recorded[c]) + 1
                /\ artifact[c][Len(recorded[c]) + 1] = task[c].document
<1>1. CommandOK(c) /\ ProcessesTyped
  BY DEF LineageInv
<1>2. artifact[c] \in Manifests /\ recorded[c] \in Seq(Documents)
  BY <1>1 DEF ProcessesTyped, Manifests
<1>3. StoreHas(c, artifact[c], recorded[c])
  BY <1>1 DEF StoreHas, CommandOK, StoredOK
<1> QED
  BY <1>1, <1>2, <1>3 DEF CommandOK, StoredOK, Number, ProcessesTyped, Manifests

LEMMA StoreStep ==
  ASSUME LineageInv, UNCHANGED tables, NEW c \in Commands,
         NEW new \in Tasks, task' = [task EXCEPT ![c] = new], DocumentOK(c, new.document),
         new.at \notin {"MERGE", "LEGACY_MERGE"} \cup LegacyPlaces,
         NEW a \in Manifests, artifact' = [artifact EXCEPT ![c] = a],
         NEW r \in Seq(Documents), recorded' = [recorded EXCEPT ![c] = r],
         Len(recorded[c]) <= Len(r), \A i \in 1 .. Len(recorded[c]) : r[i] = recorded[c][i],
         StoreHas(c, a, r),
         new.at = "RECORD" => Len(a) >= Len(r) + 1 /\ a[Len(r) + 1] = new.document
  PROVE  LineageInv'
<1>1. /\ task \in [Commands -> Tasks]
      /\ artifact \in [Commands -> Manifests] /\ recorded \in [Commands -> Seq(Documents)]
  BY TaskFacts, StoreFacts
<1>2. /\ task'[c] = new /\ artifact'[c] = a /\ recorded'[c] = r
      /\ \A x \in Commands \ {c} : /\ task'[x] = task[x] /\ artifact'[x] = artifact[x]
                                   /\ recorded'[x] = recorded[x]
  BY <1>1
<1>3. task' \in [Commands -> Tasks] /\ artifact' \in [Commands -> Manifests]
        /\ recorded' \in [Commands -> Seq(Documents)]
  BY <1>1
<1>4. ProcessesTyped'
  BY <1>3 DEF LineageInv, ProcessesTyped, tables, Manifests
<1>5. RecordedGrows
  <2>1. ASSUME NEW x \in Commands
        PROVE  /\ Len(recorded'[x]) \in Nat /\ Len(recorded[x]) <= Len(recorded'[x])
               /\ \A i \in 1 .. Len(recorded[x]) : recorded'[x][i] = recorded[x][i]
    BY <1>1, <1>2, <1>3
  <2> QED
    BY <2>1 DEF RecordedGrows
<1>6. StoredOK(c)'
  BY <1>2 DEF StoredOK, StoreHas, Number
<1>7. MergingOK(c)'
  BY <1>2 DEF MergingOK
<1>11. Reviewed \subseteq Reviewed'
  BY ReviewedGrows DEF tables
<1>8. DocumentOK(c, task[c].document)'
  BY <1>2, <1>11 DEF DocumentOK, InLedger, KeepsBase, Pinned, Kind, tables
<1>9. \A i \in 1 .. Len(recorded'[c]) : DocumentOK(c, recorded[c][i])'
  BY <1>2, <1>11 DEF StoreHas, DocumentOK, InLedger, KeepsBase, Pinned, Kind, tables
<1>10. CommandOK(c)'
  BY <1>2, <1>6, <1>7, <1>8, <1>9 DEF CommandOK
<1> QED
  BY <1>2, <1>4, <1>5, <1>10, WorkerStepKeeps

LEMMA PutManifestSafe ==
  ASSUME LineageInv, NEW c \in Commands, PutManifest(c)
  PROVE  LineageInv'
<1>1. UNCHANGED tables /\ recorded' = recorded
  BY DEF PutManifest, tables, published, evidence
<1>2. CASE ~PutAccepted(c)
  BY <1>1, <1>2, GiveUpStep DEF PutManifest
<1>3. CASE PutAccepted(c)
  <2>1. PICK t \in Tasks : t = task[c] /\ DocumentOK(c, t.document) /\ t.document \in Documents
    BY TaskFacts
  <2>2. PICK new : new = [t EXCEPT !.at = "RECORD"]
    OBVIOUS
  <2>3. new \in Tasks /\ new.at = "RECORD" /\ new.document = t.document
    BY <2>1, <2>2 DEF Tasks, Places
  <2>4. task' = [task EXCEPT ![c] = new]
    BY <1>3, <2>1, <2>2, TaskFacts DEF PutManifest
  <2>5. PICK r \in Seq(Documents) : r = recorded[c]
    BY StoreFacts
  <2>6. recorded' = [recorded EXCEPT ![c] = r]
    BY <1>1, <2>5, StoreFacts
  <2>7. PICK b \in Manifests : b = artifact[c] /\ StoreHas(c, b, r)
    BY <2>5, StoreFacts
  <2>8. PICK a : a = IF Len(b) >= Len(r) + 1 THEN b ELSE Append(b, t.document)
    OBVIOUS
  <2>9. artifact' = [artifact EXCEPT ![c] = a]
    BY <1>3, <2>1, <2>5, <2>7, <2>8, StoreFacts DEF PutManifest, Number
  <2>10. Len(b) >= Len(r) + 1 => b[Len(r) + 1] = t.document
    BY <1>3, <2>1, <2>5, <2>7 DEF PutAccepted, Number
  <2>11. Len(b) \in Nat /\ Len(r) \in Nat /\ Len(r) <= Len(b)
    BY <2>5, <2>7 DEF Manifests, StoreHas
  <2>12. /\ a \in Manifests /\ StoreHas(c, a, r)
         /\ Len(a) >= Len(r) + 1 /\ a[Len(r) + 1] = new.document
    <3>1. CASE Len(b) >= Len(r) + 1
      BY <2>3, <2>7, <2>8, <2>10, <3>1
    <3>2. CASE ~(Len(b) >= Len(r) + 1)
      <4>1. Len(b) = Len(r) /\ a = Append(b, t.document)
        BY <2>8, <2>11, <3>2
      <4>2. a \in Manifests /\ Len(a) = Len(b) + 1 /\ a[Len(b) + 1] = t.document
              /\ \A i \in 1 .. Len(b) : a[i] = b[i]
        BY <2>1, <2>7, <4>1 DEF Manifests
      <4> QED
        BY <2>3, <2>7, <2>11, <4>1, <4>2 DEF StoreHas
    <3> QED
      BY <3>1, <3>2
  <2>13. DocumentOK(c, new.document)
    BY <2>1, <2>3
  <2>14. new.at \notin {"MERGE", "LEGACY_MERGE"} \cup LegacyPlaces
    BY <2>3 DEF LegacyPlaces
  <2>15. Len(recorded[c]) <= Len(r) /\ \A i \in 1 .. Len(recorded[c]) : r[i] = recorded[c][i]
    BY <2>5, <2>11
  <2> QED
    BY <1>1, <2>3, <2>4, <2>6, <2>9, <2>12, <2>13, <2>14, <2>15, StoreStep
<1> QED
  BY <1>2, <1>3

LEMMA RecordStageSafe ==
  ASSUME LineageInv, NEW c \in Commands, RecordStage(c)
  PROVE  LineageInv'
<1>1. UNCHANGED tables /\ artifact' = artifact
  BY DEF RecordStage, tables, published, evidence
<1>2. PICK t \in Tasks : /\ t = task[c] /\ DocumentOK(c, t.document) /\ t.document \in Documents
                         /\ t.at = "RECORD"
  BY TaskFacts DEF RecordStage
<1>3. PICK new : new = [t EXCEPT !.at = "STAGE"]
  OBVIOUS
<1>4. new \in Tasks /\ new.at = "STAGE" /\ new.document = t.document
  BY <1>2, <1>3 DEF Tasks, Places
<1>5. task' = [task EXCEPT ![c] = new]
  BY <1>2, <1>3, TaskFacts DEF RecordStage
<1>6. PICK s \in Seq(Documents) : s = recorded[c]
  BY StoreFacts
<1>7. PICK r \in Seq(Documents) : r = Append(s, t.document)
  <2>1. Append(s, t.document) \in Seq(Documents)
    BY <1>2
  <2> QED
    BY <2>1
<1>8. recorded' = [recorded EXCEPT ![c] = r]
  BY <1>2, <1>6, <1>7, StoreFacts DEF RecordStage
<1>9. PICK a \in Manifests : /\ a = artifact[c] /\ StoreHas(c, a, s)
                             /\ Len(a) >= Len(s) + 1 /\ a[Len(s) + 1] = t.document
  BY <1>2, <1>6, StoreFacts
<1>10. artifact' = [artifact EXCEPT ![c] = a]
  BY <1>1, <1>9, StoreFacts
<1>11. Len(r) = Len(s) + 1 /\ Len(s) \in Nat /\ r[Len(s) + 1] = t.document
         /\ \A i \in 1 .. Len(s) : r[i] = s[i]
  BY <1>2, <1>6, <1>7
<1>12. StoreHas(c, a, r)
  <2>1. ASSUME NEW i \in 1 .. Len(r)
        PROVE  a[i] = r[i] /\ DocumentOK(c, r[i])
    <3>1. CASE i = Len(s) + 1
      BY <1>2, <1>9, <1>11, <3>1
    <3>2. CASE i # Len(s) + 1
      BY <1>9, <1>11, <3>2 DEF StoreHas
    <3> QED
      BY <3>1, <3>2
  <2> QED
    BY <2>1, <1>9, <1>11 DEF StoreHas
<1>13. DocumentOK(c, new.document)
  BY <1>2, <1>4
<1>14. new.at \notin {"MERGE", "LEGACY_MERGE"} \cup LegacyPlaces /\ new.at # "RECORD"
  BY <1>4 DEF LegacyPlaces
<1>15. Len(recorded[c]) <= Len(r) /\ \A i \in 1 .. Len(recorded[c]) : r[i] = recorded[c][i]
  BY <1>6, <1>11
<1> QED
  BY <1>1, <1>4, <1>5, <1>8, <1>10, <1>12, <1>13, <1>14, <1>15, StoreStep

\* A stage whose document is the one before it.
LEMMA CheckpointStep ==
  ASSUME LineageInv, UNCHANGED tables, NEW c \in Commands, NEW stages, In(c, stages),
         Intact(c), Checkpoint(c)
  PROVE  LineageInv'
<1>1. PICK new \in Tasks : new = task[c] /\ DocumentOK(c, new.document) /\ new.at = "STAGE"
  BY TaskFacts, StageIsOnPath
<1>2. task' = [task EXCEPT ![c] = new]
  BY <1>1, TaskFacts DEF Checkpoint
<1>3. PICK d \in Documents : d = Document(c) /\ DocumentOK(c, d)
  BY DocumentType
<1>4. PICK s \in Seq(Documents) : s = recorded[c]
  BY StoreFacts
<1>5. PICK b \in Manifests : b = artifact[c] /\ StoreHas(c, b, s)
  BY <1>4, StoreFacts
<1>6. Len(b) \in Nat /\ Len(s) \in Nat /\ Len(b) = Len(s)
  BY <1>4, <1>5 DEF Manifests, StoreHas, Intact, Number
<1>7. PICK r \in Seq(Documents) : r = Append(s, d)
  <2>1. Append(s, d) \in Seq(Documents)
    OBVIOUS
  <2> QED
    BY <2>1
<1>8. PICK a : a = Append(b, d)
  OBVIOUS
<1>9. artifact' = [artifact EXCEPT ![c] = a] /\ recorded' = [recorded EXCEPT ![c] = r]
  BY <1>3, <1>4, <1>5, <1>7, <1>8, StoreFacts DEF Checkpoint
<1>10. Len(r) = Len(s) + 1 /\ r[Len(s) + 1] = d /\ \A i \in 1 .. Len(s) : r[i] = s[i]
  BY <1>3, <1>4, <1>7
<1>11. a \in Manifests /\ Len(a) = Len(b) + 1 /\ a[Len(b) + 1] = d /\ \A i \in 1 .. Len(b) : a[i] = b[i]
  BY <1>3, <1>5, <1>8 DEF Manifests
<1>12. StoreHas(c, a, r)
  <2>1. ASSUME NEW i \in 1 .. Len(r)
        PROVE  a[i] = r[i] /\ DocumentOK(c, r[i])
    <3>1. CASE i = Len(s) + 1
      BY <1>3, <1>6, <1>10, <1>11, <3>1
    <3>2. CASE i # Len(s) + 1
      BY <1>5, <1>6, <1>10, <1>11, <3>2 DEF StoreHas
    <3> QED
      BY <3>1, <3>2
  <2> QED
    BY <2>1, <1>6, <1>10, <1>11 DEF StoreHas
<1>13. new.at \notin {"MERGE", "LEGACY_MERGE"} \cup LegacyPlaces /\ new.at # "RECORD"
  BY <1>1 DEF LegacyPlaces
<1>14. Len(recorded[c]) <= Len(r) /\ \A i \in 1 .. Len(recorded[c]) : r[i] = recorded[c][i]
  BY <1>4, <1>6, <1>10
<1> QED
  BY <1>1, <1>2, <1>9, <1>11, <1>12, <1>13, <1>14, StoreStep

LEMMA DeriveSafe ==
  ASSUME LineageInv, NEW c \in Commands, ChangedScope(c) \/ Derive(c)
  PROVE  LineageInv'
<1>1. UNCHANGED tables
  BY DEF ChangedScope, Derive, tables, published, evidence
<1>2. CASE GiveUp(c) /\ UNCHANGED <<artifact, recorded>>
  BY <1>1, <1>2, GiveUpStep
<1>3. CASE Intact(c) /\ Checkpoint(c)
  <2>1. CASE ChangedScope(c)
    <3>1. In(c, {"I2"})
      BY <2>1 DEF ChangedScope
    <3> QED
      BY <1>1, <1>3, <3>1, CheckpointStep
  <2>2. CASE Derive(c)
    <3>1. In(c, Derived \ {"I2"})
      BY <2>2 DEF Derive
    <3> QED
      BY <1>1, <1>3, <3>1, CheckpointStep
  <2> QED
    BY <2>1, <2>2
<1> QED
  BY <1>2, <1>3 DEF ChangedScope, Derive

LEMMA CrashSafe ==
  ASSUME LineageInv, NEW c \in Commands, Crash(c)
  PROVE  LineageInv'
<1>1. UNCHANGED tables /\ recorded' = recorded /\ GiveUp(c)
  BY DEF Crash, tables, published, evidence
<1>2. CASE artifact' = artifact
  BY <1>1, <1>2, GiveUpStep
<1>3. CASE artifact' # artifact
  <2>1. PICK new \in Tasks : /\ task' = [task EXCEPT ![c] = new] /\ TaskOK(c, new) /\ new.at = "IDLE"
    BY <1>1, GiveUpType
  <2>2. PICK r \in Seq(Documents) : r = recorded[c]
    BY StoreFacts
  <2>3. PICK b \in Manifests : b = artifact[c] /\ StoreHas(c, b, r)
    BY <2>2, StoreFacts
  <2>4. PICK a : a = Append(b, Torn)
    OBVIOUS
  <2>5. artifact' = [artifact EXCEPT ![c] = a]
    BY <1>3, <2>3, <2>4, StoreFacts DEF Crash
  <2>6. recorded' = [recorded EXCEPT ![c] = r]
    BY <1>1, <2>2, StoreFacts
  <2>7. a \in Manifests /\ Len(a) = Len(b) + 1 /\ Len(b) \in Nat /\ \A i \in 1 .. Len(b) : a[i] = b[i]
    BY <2>3, <2>4 DEF Manifests
  <2>8. Len(r) \in Nat
    BY <2>2
  <2>9. StoreHas(c, a, r)
    BY <2>3, <2>7, <2>8 DEF StoreHas
  <2>10. new.at \notin {"MERGE", "LEGACY_MERGE"} \cup LegacyPlaces /\ new.at # "RECORD"
           /\ DocumentOK(c, new.document)
    BY <2>1 DEF LegacyPlaces, TaskOK
  <2>11. Len(recorded[c]) <= Len(r) /\ \A i \in 1 .. Len(recorded[c]) : r[i] = recorded[c][i]
    BY <2>2, <2>8
  <2> QED
    BY <1>1, <2>1, <2>5, <2>6, <2>7, <2>9, <2>10, <2>11, StoreStep
<1> QED
  BY <1>2, <1>3

-----------------------------------------------------------------------------
(* Merging.                                                                 *)

\* An assertion that is merged keeps the ledger what it is, and adds to it.
LEMMA MergeGrows ==
  ASSUME LineageInv, UNCHANGED <<input, graph, proposal>>, NEW e \in Edges, NEW x \in Assertions,
         x[1] = "SCA" \/ ledger[e] # {}, Merge(e, x), NEW m, m = Merged(e, x)
  PROVE  /\ Grows /\ ledger' \in [Edges -> Evidence]
         /\ m \in Evidence /\ ledger'[e] = m /\ m # {} /\ ledger[e] \subseteq m
         /\ \A y \in Edges \ {e} : ledger'[y] = ledger[y]
<1>1. ledger \in [Edges -> Evidence] /\ graph \in Seq(Maps)
  BY DEF LineageInv, TablesTyped
<1>2. PICK l \in [Edges -> Evidence] : l = ledger
  BY <1>1
<1>3. m = l[e] \cup {x} /\ m \in Evidence
  <2>1. l[e] \in Evidence
    BY <1>2
  <2>2. l[e] \cup {x} \in Evidence
    BY <1>2, <2>1, EvidenceGrows
  <2> QED
    BY <1>2, <2>2 DEF Merged
<1>4. ledger' = [l EXCEPT ![e] = m]
  BY <1>2, <1>3 DEF Merge
<1>5. ledger' \in [Edges -> Evidence] /\ ledger'[e] = m /\ \A y \in Edges \ {e} : ledger'[y] = l[y]
  BY <1>2, <1>3, <1>4
<1>6. Grows
  BY <1>1, <1>2, <1>3, <1>5, ReviewedGrows DEF Grows
<1> QED
  BY <1>2, <1>3, <1>5, <1>6

\* The edges of a document or a reconciliation take the merged edge as the ledger has it.
LEMMA EdgesMerged ==
  ASSUME LineageInv, Grows, NEW e \in Edges, NEW m \in Evidence, ledger'[e] = m,
         NEW f \in EdgeMaps, InLedger(f)
  PROVE  /\ With(f, e, m) \in EdgeMaps
         /\ \A y \in DOMAIN With(f, e, m) : With(f, e, m)[y] \subseteq ledger'[y]
<1>1. /\ With(f, e, m) \in EdgeMaps /\ DOMAIN With(f, e, m) = DOMAIN f \cup {e}
      /\ With(f, e, m)[e] = m /\ \A k \in DOMAIN f : k # e => With(f, e, m)[k] = f[k]
  BY WithType
<1>2. DOMAIN f \subseteq Edges
  BY EdgeMapFacts
<1> QED
  BY <1>1, <1>2 DEF InLedger, Grows

\* The document of a pinned command has what its base has, when it takes a merged edge.
LEMMA BaseMerged ==
  ASSUME LineageInv, UNCHANGED graph, NEW e \in Edges, NEW m \in Evidence, ledger[e] \subseteq m,
         NEW f \in EdgeMaps, NEW b \in DOMAIN graph, KeepsBase(f, b),
         NEW y \in DOMAIN With(f, e, m) \cap DOMAIN graph[b]
  PROVE  graph[b][y] \subseteq With(f, e, m)[y] \/ <<y, graph[b][y]>> \in Reviewed
<1>1. /\ DOMAIN With(f, e, m) = DOMAIN f \cup {e}
      /\ With(f, e, m)[e] = m /\ \A k \in DOMAIN f : k # e => With(f, e, m)[k] = f[k]
  BY WithType
<1>2. CASE y = e
  <2>1. b \in 1 .. Len(graph)
    BY DEF LineageInv, TablesTyped
  <2>2. graph[b][y] \subseteq ledger[y] \/ <<y, graph[b][y]>> \in Reviewed
    BY <2>1 DEF LineageInv, GraphsOK, Rests
  <2> QED
    BY <1>1, <1>2, <2>2
<1>3. CASE y # e
  BY <1>1, <1>3 DEF KeepsBase
<1> QED
  BY <1>2, <1>3

\* A step that merges for one command, or for none.
LEMMA LedgerStep ==
  ASSUME LineageInv, Grows, ledger' \in [Edges -> Evidence],
         UNCHANGED <<proposal, graph, pointer, package, artifact, recorded, reviewer>>,
         task' \in [Commands -> Tasks], reconciler' \in Reconciliations, ReconcilerOK',
         \A x \in Commands : CommandOK(x)'
  PROVE  LineageInv'
<1>1. TablesTyped' /\ ProcessesTyped'
  BY DEF LineageInv, TablesTyped, ProcessesTyped, Grows
<1>2. GraphsOK'
  BY GraphsKept
<1>3. RecordedGrows
  BY DEF LineageInv, ProcessesTyped, RecordedGrows
<1>4. ProposalsOK'
  BY <1>3, ProposalsKept
<1>5. RequestsOK' /\ FinalizedIsServed'
  BY RequestsKept DEF Grows
<1> QED
  BY <1>1, <1>2, <1>4, <1>5 DEF LineageInv

\* The document of a command with other edges.
LEMMA DocumentEdges ==
  ASSUME NEW d \in Documents, NEW edges \in EdgeMaps, NEW n, n = [d EXCEPT !.edges = edges]
  PROVE  n \in Documents /\ n.base = d.base /\ n.runtime = d.runtime /\ n.edges = edges
BY DEF Documents

LEMMA MergeNextSafe ==
  ASSUME LineageInv, NEW c \in Commands, MergeNext(c)
  PROVE  LineageInv'
<1>1. UNCHANGED <<input, proposal, graph, pointer, package, artifact, recorded, reviewer, reconciler>>
  BY DEF MergeNext, published
<1>2. PICK u \in Tasks : /\ u = task[c] /\ u.document \in Documents /\ DocumentOK(c, u.document)
                         /\ u.at \in {"MERGE", "LEGACY_MERGE"} /\ (u.at = "LEGACY_MERGE" => ~Pinned(c))
  BY TaskFacts DEF MergeNext, LegacyPlaces
<1>3. PICK t \in u.todo :
        /\ t[1] = "EVENT" => <<"SCA", t[2]>> \notin u.todo
        /\ IF Corroborates(t)
           THEN /\ Merge(t[2], <<t[1], ArtifactOf(c)>>)
                /\ Handled(c, t, With(u.document.edges, t[2], Merged(t[2], <<t[1], ArtifactOf(c)>>)))
           ELSE Handled(c, t, u.document.edges) /\ UNCHANGED ledger
  BY <1>2 DEF MergeNext
<1>4. u.todo \subseteq {"SCA", "EVENT", "SESSION"} \X Edges
  BY <1>2 DEF Tasks
<1>5. PICK k \in {"SCA", "EVENT", "SESSION"}, e \in Edges : t = <<k, e>>
  BY <1>3, <1>4
<1>6. PICK x \in Assertions : x = <<k, ArtifactOf(c)>>
  BY InputAssumption DEF LineageInv, TablesTyped, Assertions, ArtifactOf
<1>7. \A y \in Edges : <<"EVENT", y>> \in u.todo => <<"SCA", y>> \in u.todo \/ ledger[y] # {}
  BY <1>2 DEF LineageInv, CommandOK, MergingOK
<1>8. PICK d \in Documents : d = u.document /\ DocumentOK(c, d)
  BY <1>2
<1>9. d.edges \in EdgeMaps /\ d.base \in Nat /\ InLedger(d.edges)
  BY <1>8 DEF Documents, DocumentOK
<1>10. PICK todo : todo = u.todo \ {t}
  OBVIOUS
<1>11. ASSUME NEW edges \in EdgeMaps, Handled(c, t, edges), Grows,
              \A y \in DOMAIN edges : edges[y] \subseteq ledger'[y],
              Pinned(c) => \A b \in DOMAIN graph : KeepsBase(d.edges, b) =>
                 \A y \in DOMAIN edges \cap DOMAIN graph[b] :
                   graph[b][y] \subseteq edges[y] \/ <<y, graph[b][y]>> \in Reviewed,
              \A y \in Edges : <<"EVENT", y>> \in todo => <<"SCA", y>> \in todo \/ ledger'[y] # {},
              ledger' \in [Edges -> Evidence]
       PROVE  LineageInv'
  <2>1. PICK n : n = [d EXCEPT !.edges = edges]
    OBVIOUS
  <2>2. n \in Documents /\ n.base = d.base /\ n.runtime = d.runtime /\ n.edges = edges
    BY <2>1, DocumentEdges
  <2>3. PICK new : new = [u EXCEPT !.todo = todo, !.document = n]
    OBVIOUS
  <2>4. new \in Tasks /\ new.at = u.at /\ new.todo = todo /\ new.document = n
    BY <1>2, <1>4, <1>10, <2>2, <2>3 DEF Tasks
  <2>5. task' = [task EXCEPT ![c] = new]
    BY <1>2, <1>8, <1>10, <1>11, <2>1, <2>3, TaskFacts DEF Handled
  <2>6. task' \in [Commands -> Tasks] /\ task'[c] = new /\ \A y \in Commands \ {c} : task'[y] = task[y]
    BY <2>4, <2>5, TaskFacts
  <2>7. DocumentOK(c, task[c].document)'
    <3>1. n.base \in 0 .. Len(graph')
      BY <1>1, <1>8, <2>2 DEF DocumentOK
    <3>2. Pinned(c)' <=> Pinned(c)
      BY <1>1 DEF Pinned, Kind
    <3>3. Pinned(c) => KeepsBase(n.edges, n.base)'
      BY <1>1, <1>8, <1>11, <2>2 DEF DocumentOK, KeepsBase, Grows
    <3>4. \A y \in Edges : <<"EVENT", y>> \in n.runtime => y \in input'.command[c].found
      BY <1>1, <1>8, <2>2 DEF DocumentOK
    <3> QED
      BY <1>11, <2>2, <2>4, <2>6, <3>1, <3>2, <3>3, <3>4 DEF DocumentOK, InLedger, KeepsBase
  <2>8. StoredOK(c)' /\ MergingOK(c)'
    BY <1>1, <1>2, <1>11, <2>4, <2>6 DEF LineageInv, CommandOK, StoredOK, MergingOK, Number
  <2>9. \A i \in 1 .. Len(recorded'[c]) : DocumentOK(c, recorded[c][i])'
    <3>1. PICK r \in Seq(Documents) : r = recorded[c] /\ StoreHas(c, artifact[c], r)
      BY StoreFacts
    <3>2. ASSUME NEW i \in 1 .. Len(r)
          PROVE  DocumentOK(c, r[i])'
      <4>1. PICK o \in Documents : o = r[i] /\ DocumentOK(c, o)
        BY <3>1 DEF StoreHas
      <4>2. DocumentOK(c, o)'
        BY <1>11, <4>1, DocumentKept
      <4> QED
        BY <4>1, <4>2
    <3> QED
      BY <1>1, <3>1, <3>2 DEF DocumentOK, InLedger, KeepsBase
  <2>10. task'[c].at \in LegacyPlaces => ~Pinned(c)'
    BY <1>1, <1>2, <2>4, <2>6 DEF Pinned, Kind, LegacyPlaces
  <2>11. CommandOK(c)'
    BY <2>7, <2>8, <2>9, <2>10 DEF CommandOK
  <2>12. \A y \in Commands : CommandOK(y)'
    BY <1>1, <1>11, <2>6, <2>11, CommandsKept
  <2>13. reconciler' \in Reconciliations /\ ReconcilerOK'
    BY <1>1, <1>11, ReconcilerKept DEF LineageInv, ProcessesTyped
  <2> QED
    BY <1>1, <1>11, <2>6, <2>12, <2>13, LedgerStep
<1>12. CASE Corroborates(t)
  <2>1. PICK m : m = Merged(e, x)
    OBVIOUS
  <2>2. Merge(e, x) /\ Handled(c, t, With(d.edges, e, m))
    BY <1>3, <1>5, <1>6, <1>8, <1>12, <2>1
  <2>3. x[1] = "SCA" \/ ledger[e] # {}
    BY <1>3, <1>5, <1>6, <1>7, <1>12 DEF Corroborates
  <2>4. /\ Grows /\ ledger' \in [Edges -> Evidence]
        /\ m \in Evidence /\ ledger'[e] = m /\ m # {} /\ ledger[e] \subseteq m
        /\ \A y \in Edges \ {e} : ledger'[y] = ledger[y]
    BY <1>1, <2>1, <2>2, <2>3, MergeGrows
  <2>5. PICK f : f = With(d.edges, e, m)
    OBVIOUS
  <2>6. f \in EdgeMaps /\ \A y \in DOMAIN f : f[y] \subseteq ledger'[y]
    BY <1>9, <2>4, <2>5, EdgesMerged
  <2>7. ASSUME NEW b \in DOMAIN graph, KeepsBase(d.edges, b), NEW y \in DOMAIN f \cap DOMAIN graph[b]
        PROVE  graph[b][y] \subseteq f[y] \/ <<y, graph[b][y]>> \in Reviewed
    BY <1>1, <1>9, <2>4, <2>5, <2>7, BaseMerged
  <2>8. ASSUME NEW y \in Edges, <<"EVENT", y>> \in todo
        PROVE  <<"SCA", y>> \in todo \/ ledger'[y] # {}
    <3>1. <<"SCA", y>> \in u.todo \/ ledger[y] # {}
      BY <1>7, <1>10, <2>8
    <3>2. CASE y = e
      BY <2>4, <3>2
    <3>3. CASE y # e
      BY <1>5, <1>10, <2>4, <3>1, <3>3
    <3> QED
      BY <3>2, <3>3
  <2>9. Handled(c, t, f)
    BY <2>2, <2>5
  <2> QED
    BY <1>11, <2>4, <2>6, <2>7, <2>8, <2>9
<1>13. CASE ~Corroborates(t)
  <2>1. Handled(c, t, d.edges) /\ ledger' = ledger /\ k = "SESSION"
    BY <1>3, <1>5, <1>8, <1>13 DEF Corroborates
  <2>2. Grows /\ ledger' \in [Edges -> Evidence]
    BY <1>1, <2>1, NothingElse DEF LineageInv, TablesTyped
  <2>3. \A y \in DOMAIN d.edges : d.edges[y] \subseteq ledger'[y]
    BY <1>9, <2>1 DEF InLedger
  <2>4. \A b \in DOMAIN graph : KeepsBase(d.edges, b) =>
          \A y \in DOMAIN d.edges \cap DOMAIN graph[b] :
            graph[b][y] \subseteq d.edges[y] \/ <<y, graph[b][y]>> \in Reviewed
    BY DEF KeepsBase
  <2>5. \A y \in Edges : <<"EVENT", y>> \in todo => <<"SCA", y>> \in todo \/ ledger'[y] # {}
    BY <1>5, <1>7, <1>10, <2>1
  <2> QED
    BY <1>9, <1>11, <2>1, <2>2, <2>3, <2>4, <2>5
<1> QED
  BY <1>12, <1>13

-----------------------------------------------------------------------------
(* Proposing.                                                               *)

\* Of the rows that are there, what their requests rest on is kept; a new one is open.
RowsKept ==
  /\ DOMAIN proposal \subseteq DOMAIN proposal'
  /\ \A p \in DOMAIN proposal :
       /\ proposal'[p].state = proposal[p].state
       /\ proposal'[p].approval = proposal[p].approval
       /\ proposal'[p].activated = proposal[p].activated
  /\ \A p \in DOMAIN proposal' \ DOMAIN proposal :
       proposal'[p].state = "IN_REVIEW" /\ proposal'[p].activated = 0

ProposalsTyped == DOMAIN proposal \subseteq Keys /\ proposal \in [DOMAIN proposal -> Rows]

LEMMA RowsKeptServe ==
  ASSUME LineageInv, RowsKept, UNCHANGED <<input, reviewer, package>>
  PROVE  RequestsOK' /\ FinalizedIsServed'
<1>1. ASSUME NEW r \in Reviewers
      PROVE  RequestOK(r)'
  <2>1. RequestOK(r)
    BY DEF LineageInv, RequestsOK
  <2>2. KeyAt(r)' = KeyAt(r) /\ ArtifactOf(KeyAt(r).origin)' = ArtifactOf(KeyAt(r).origin)
    BY DEF KeyAt, ArtifactOf
  <2>3. CASE reviewer[r].at = "IDLE"
    BY <2>3 DEF RequestOK, Opened, Done, Undecided
  <2>4. CASE reviewer[r].at # "IDLE"
    <3>1. KeyAt(r) \in DOMAIN proposal
      BY <2>1, <2>4 DEF RequestOK
    <3>2. /\ proposal'[KeyAt(r)].state = proposal[KeyAt(r)].state
          /\ proposal'[KeyAt(r)].approval = proposal[KeyAt(r)].approval
          /\ proposal'[KeyAt(r)].activated = proposal[KeyAt(r)].activated
          /\ KeyAt(r) \in DOMAIN proposal'
      BY <3>1 DEF RowsKept
    <3>3. PackageOf(r)' = PackageOf(r)
      BY <2>2, <3>2 DEF PackageOf
    <3> QED
      BY <2>1, <2>2, <3>2, <3>3 DEF RequestOK
  <2> QED
    BY <2>3, <2>4
<1>2. OneDecides'
  BY DEF LineageInv, RequestsOK, OneDecides, KeyAt
<1>3. FinalizedIsServed'
  <2>1. ASSUME NEW p \in DOMAIN proposal'
        PROVE  /\ proposal'[p].state = "FINALIZED" =>
                    /\ proposal'[p].approval /\ proposal'[p].activated # 0
                    /\ package'[ArtifactOf(p.origin)] = [graph |-> proposal'[p].activated, approved |-> p]
               /\ proposal'[p].activated # 0 => proposal'[p].state \in {"APPROVED", "FINALIZED"}
    <3>1. CASE p \in DOMAIN proposal
      BY <3>1 DEF RowsKept, LineageInv, FinalizedIsServed
    <3>2. CASE p \notin DOMAIN proposal
      BY <2>1, <3>2 DEF RowsKept
    <3> QED
      BY <3>1, <3>2
  <2> QED
    BY <2>1 DEF FinalizedIsServed, ArtifactOf
<1> QED
  BY <1>1, <1>2, <1>3 DEF RequestsOK

\* The rows may change, the keys and what they rest on do not.
LEMMA SameKeys ==
  ASSUME LineageInv, UNCHANGED <<input, ledger, graph, recorded>>, ProposalsTyped',
         DOMAIN proposal' = DOMAIN proposal,
         \A p \in DOMAIN proposal : /\ proposal[p].state = "SUPERSEDED" => proposal'[p].state = "SUPERSEDED"
                                    /\ proposal'[p].activated <= Len(graph)
  PROVE  ProposalsOK'
<1>1. Grows /\ RecordedGrows
  BY NothingElse DEF LineageInv, ProcessesTyped, RecordedGrows
<1>2. \A p \in DOMAIN proposal : KeyOK(p)'
  <2>1. ASSUME NEW p \in DOMAIN proposal
        PROVE  KeyOK(p)'
    BY <1>1, KeyKept
  <2> QED
    BY <2>1
<1>3. VersionsOK'
  BY DEF LineageInv, ProposalsOK, VersionsOK, SameProposal
<1> QED
  BY <1>2, <1>3 DEF ProposalsOK

LEMMA WithRow ==
  ASSUME ProposalsTyped, NEW key \in Keys, NEW row \in Rows
  PROVE  /\ DOMAIN With(proposal, key, row) = DOMAIN proposal \cup {key}
         /\ DOMAIN With(proposal, key, row) \subseteq Keys
         /\ With(proposal, key, row) \in [DOMAIN With(proposal, key, row) -> Rows]
         /\ With(proposal, key, row)[key] = row
         /\ \A p \in DOMAIN proposal : p # key => With(proposal, key, row)[p] = proposal[p]
BY DEF With, ProposalsTyped

LEMMA NewProposalType ==
  NewProposal \in Rows /\ NewProposal.state = "IN_REVIEW" /\ NewProposal.activated = 0
BY DEF NewProposal, Rows, States

LEMMA KeyType ==
  ASSUME NEW origin \in Commands \cup Artifacts, NEW edges \in EdgeMaps, NEW base \in Nat,
         NEW key, key = KeyOf(origin, edges, base)
  PROVE  /\ key \in Keys /\ key.origin = origin /\ key.first = edges /\ key.base = base
         /\ key.version = 1 /\ key.edges = edges
BY MapFacts DEF KeyOf, Keys

\* The first version of a proposal is created, or found.
LEMMA CreateKeeps ==
  ASSUME LineageInv, UNCHANGED <<input, ledger, graph, recorded>>,
         NEW origin \in Commands \cup Artifacts, NEW edges \in EdgeMaps, NEW base \in Nat,
         base <= Len(graph), InLedger(edges),
         origin \in Commands /\ Pinned(origin) =>
           /\ KeepsBase(edges, base) /\ Len(recorded[origin]) >= 8
           /\ edges = recorded[origin][8].edges /\ base = recorded[origin][8].base,
         NEW key, key = KeyOf(origin, edges, base), Create(key)
  PROVE  ProposalsTyped' /\ ProposalsOK' /\ RowsKept /\ key \in DOMAIN proposal'
<1>1. ProposalsTyped /\ ProposalsOK
  BY DEF LineageInv, TablesTyped, ProposalsTyped
<1>2. /\ key \in Keys /\ key.origin = origin /\ key.first = edges /\ key.base = base
      /\ key.version = 1 /\ key.edges = edges
  BY KeyType
<1>3. Grows /\ RecordedGrows
  <2>1. DOMAIN proposal \subseteq DOMAIN proposal'
    BY DEF Create, With
  <2> QED
    BY <2>1, NothingElse DEF LineageInv, ProcessesTyped, RecordedGrows
<1>4. CASE key \in DOMAIN proposal
  <2>1. proposal' = proposal
    BY <1>4 DEF Create
  <2>2. ProposalsOK'
    BY <1>3, <2>1, ProposalsKept
  <2> QED
    BY <1>1, <1>4, <2>1, <2>2 DEF ProposalsTyped, RowsKept
<1>5. CASE key \notin DOMAIN proposal
  <2>1. PICK f : f = With(proposal, key, NewProposal)
    OBVIOUS
  <2>2. /\ DOMAIN f = DOMAIN proposal \cup {key} /\ DOMAIN f \subseteq Keys /\ f \in [DOMAIN f -> Rows]
        /\ f[key] = NewProposal /\ \A p \in DOMAIN proposal : p # key => f[p] = proposal[p]
    <3>1. ProposalsTyped /\ key \in Keys /\ NewProposal \in Rows /\ f = With(proposal, key, NewProposal)
      BY <1>1, <1>2, <2>1, NewProposalType
    <3> HIDE DEF ProposalsTyped, Keys, Rows, NewProposal
    <3> QED
      BY <3>1, WithRow
  <2>3. proposal' = f
    BY <1>5, <2>1 DEF Create
  <2>4. ProposalsTyped' /\ RowsKept
    BY <1>5, <2>2, <2>3, NewProposalType DEF ProposalsTyped, RowsKept
  <2>5. \A p \in DOMAIN proposal : KeyOK(p)'
    <3>1. ASSUME NEW p \in DOMAIN proposal
          PROVE  KeyOK(p)'
      BY <1>3, <2>2, <2>3, KeyKept
    <3> QED
      BY <3>1
  <2>6. FirstOf(key) = key
    BY <1>2 DEF FirstOf
  <2>7. KeyOK(key)'
    <3>1. key.base <= Len(graph') /\ \A e \in DOMAIN key.first : key.first[e] \subseteq ledger'[e]
      BY <1>2 DEF InLedger
    <3>2. FirstOf(key) \in DOMAIN proposal' /\ (key.version = 1 => key.edges = key.first)
      BY <1>2, <2>2, <2>3, <2>6
    <3>3. OfRun(key)' <=> OfRun(key)
      BY DEF OfRun, Pinned, Kind
    <3>4. OfRun(key) => origin \in Commands /\ Pinned(origin)
      BY <1>2 DEF OfRun
    <3>5. KeepsBase(key.first, key.base) => KeepsBase(key.first, key.base)'
      BY <1>3 DEF KeepsBase, Grows
    <3>6. KeepsBase(edges, base) <=> KeepsBase(key.first, key.base)
      BY <1>2
    <3>7. OfRun(key) => /\ KeepsBase(key.first, key.base) /\ Len(recorded'[key.origin]) >= 8
                        /\ key.first = recorded'[key.origin][8].edges
                        /\ key.base = recorded'[key.origin][8].base
      BY <1>2, <3>4, <3>6
    <3> HIDE DEF OfRun, KeepsBase, FirstOf
    <3> QED
      BY <3>1, <3>2, <3>3, <3>5, <3>7 DEF KeyOK, InLedger
  <2>8. ASSUME NEW q \in DOMAIN proposal, SameProposal(key, q)
        PROVE  FALSE
    <3>1. q \in Keys /\ KeyOK(q)
      BY <1>1 DEF ProposalsTyped, ProposalsOK
    <3>2. FirstOf(q) = key
      BY <1>2, <2>6, <2>8 DEF SameProposal, FirstOf
    <3> QED
      BY <1>5, <3>1, <3>2 DEF KeyOK
  <2>9. ASSUME NEW p \in DOMAIN proposal', NEW q \in DOMAIN proposal', SameProposal(p, q)
        PROVE  /\ p.version = q.version => p = q
               /\ p.version < q.version => proposal'[p].state = "SUPERSEDED"
    <3>1. CASE p \in DOMAIN proposal /\ q \in DOMAIN proposal
      BY <1>1, <2>4, <2>9, <3>1 DEF ProposalsOK, VersionsOK, RowsKept
    <3>2. CASE p = key /\ q = key
      BY <1>2, <3>2
    <3>3. CASE p = key /\ q \in DOMAIN proposal
      BY <2>8, <2>9, <3>3
    <3>4. CASE q = key /\ p \in DOMAIN proposal
      BY <2>8, <2>9, <3>4 DEF SameProposal
    <3> QED
      BY <2>2, <2>3, <3>1, <3>2, <3>3, <3>4
  <2>10. VersionsOK'
    BY <2>9 DEF VersionsOK, SameProposal
  <2>11. \A p \in DOMAIN proposal' : proposal'[p].activated <= Len(graph')
    <3>1. Len(graph) \in Nat
      BY DEF LineageInv, TablesTyped
    <3>2. proposal'[key].activated <= Len(graph')
      BY <2>2, <2>3, <3>1, NewProposalType
    <3>3. \A p \in DOMAIN proposal : proposal'[p].activated <= Len(graph')
      BY <1>1, <2>4 DEF ProposalsOK, RowsKept
    <3> QED
      BY <2>2, <2>3, <3>2, <3>3
  <2> QED
    BY <2>2, <2>3, <2>4, <2>5, <2>7, <2>10, <2>11 DEF ProposalsOK
<1> QED
  BY <1>4, <1>5

\* A worker that changes its task and the rows of proposals.
LEMMA ProposingStep ==
  ASSUME LineageInv,
         UNCHANGED <<input, ledger, reviewer, reconciler, graph, pointer, package, artifact, recorded>>,
         NEW c \in Commands, NEW new \in Tasks, TaskOK(c, new), task' = [task EXCEPT ![c] = new],
         ProposalsTyped', ProposalsOK', RowsKept
  PROVE  LineageInv'
<1>1. /\ CommandOK(c)' /\ RecordedGrows
      /\ task' \in [Commands -> Tasks] /\ \A x \in Commands \ {c} : task'[x] = task[x]
  BY TaskKept DEF RowsKept
<1>2. Grows
  BY NothingElse DEF RowsKept
<1>3. TablesTyped' /\ ProcessesTyped'
  BY <1>1 DEF LineageInv, TablesTyped, ProcessesTyped, ProposalsTyped
<1>4. \A x \in Commands : CommandOK(x)'
  BY <1>1, <1>2, CommandsKept
<1>5. GraphsOK' /\ ReconcilerOK'
  BY <1>2, GraphsKept, ReconcilerKept
<1>6. RequestsOK' /\ FinalizedIsServed'
  BY RowsKeptServe
<1> QED
  BY <1>3, <1>4, <1>5, <1>6 DEF LineageInv

LEMMA DocumentProposal ==
  ASSUME NEW d \in Documents, NEW key \in Keys, NEW state \in States,
         NEW n, n = [d EXCEPT !.proposal = <<key, state>>]
  PROVE  n \in Documents /\ n.base = d.base /\ n.runtime = d.runtime /\ n.edges = d.edges
BY DEF Documents

LEMMA NinthDocument ==
  ASSUME LineageInv, NEW c \in Commands, Number(c) = 9
  PROVE  Len(recorded[c]) = 8 /\ Document(c) = recorded[c][8]
<1>1. recorded[c] \in Seq(Documents) /\ 9 = Len(recorded[c]) + 1
  BY DocumentType
<1>2. Len(recorded[c]) \in Nat
  BY <1>1
<1>3. \A n \in Nat : 9 = n + 1 => n = 8
  OBVIOUS
<1>4. Len(recorded[c]) = 8
  BY <1>1, <1>2, <1>3, Zenon
<1>5. Len(<< >>) = 0 /\ 8 # 0
  OBVIOUS
<1>6. recorded[c] # << >>
  BY <1>4, <1>5, Zenon
<1> QED
  BY <1>4, <1>6, DocumentType

LEMMA ProposeSafe ==
  ASSUME LineageInv, NEW c \in Commands, Propose(c)
  PROVE  LineageInv'
<1>1. UNCHANGED <<input, ledger, reviewer, reconciler, graph, pointer, package, artifact, recorded>>
  BY DEF Propose, evidence, published
<1>2. Pinned(c) /\ Number(c) = 9
  <2>1. CASE In(c, {"I9"})
    BY <2>1, StageIsOnPath
  <2>2. CASE In(c, {"B9"})
    BY <2>2, StageIsOnPath
  <2> QED
    BY <2>1, <2>2 DEF Propose
<1>3. PICK d \in Documents : d = Document(c) /\ DocumentOK(c, d)
  BY DocumentType
<1>4. PICK key : key = KeyOf(c, d.edges, d.base)
  OBVIOUS
<1>5. CASE ~Creatable(d.edges, d.base)
  <2>1. GiveUp(c) /\ UNCHANGED tables
    BY <1>1, <1>3, <1>5 DEF Propose, tables
  <2> QED
    BY <1>1, <2>1, GiveUpStep
<1>6. CASE Creatable(d.edges, d.base)
  <2>1. d.edges \in EdgeMaps /\ d.base \in Nat
    BY <1>3 DEF Documents
  <2>2. d.base <= Len(graph) /\ InLedger(d.edges) /\ KeepsBase(d.edges, d.base)
    <3>1. Len(graph) \in Nat
      BY DEF LineageInv, TablesTyped
    <3> QED
      BY <1>2, <1>3, <2>1, <3>1 DEF DocumentOK
  <2>3. Len(recorded[c]) = 8 /\ d = recorded[c][8]
    BY <1>2, <1>3, NinthDocument
  <2>5. Create(key)
    BY <1>3, <1>4, <1>6 DEF Propose
  <2>6. /\ KeepsBase(d.edges, d.base) /\ Len(recorded[c]) >= 8
        /\ d.edges = recorded[c][8].edges /\ d.base = recorded[c][8].base
    BY <2>2, <2>3
  <2>7. ProposalsTyped' /\ ProposalsOK' /\ RowsKept /\ key \in DOMAIN proposal'
    BY <1>1, <1>4, <2>1, <2>2, <2>5, <2>6, CreateKeeps
  <2>8. key \in Keys
    BY <1>4, <2>1, KeyType
  <2>9. PICK state \in States : state = proposal'[key].state
    BY <2>7 DEF ProposalsTyped, Rows
  <2>10. PICK n : n = [d EXCEPT !.proposal = <<key, state>>]
    OBVIOUS
  <2>11. n \in Documents /\ n.base = d.base /\ n.runtime = d.runtime /\ n.edges = d.edges
    BY <2>8, <2>10, DocumentProposal
  <2>12. DocumentOK(c, n)
    BY <1>3, <2>11 DEF DocumentOK
  <2>13. PICK at \in {"PROPOSED", "KEEP"} : at = IF key \in DOMAIN proposal THEN "PROPOSED" ELSE "KEEP"
    OBVIOUS
  <2>14. PICK t \in Tasks : t = task[c]
    BY TaskFacts
  <2>15. PICK new : new = [t EXCEPT !.at = at, !.document = n]
    OBVIOUS
  <2>16. new \in Tasks /\ new.at = at /\ new.document = n
    BY <2>11, <2>13, <2>14, <2>15 DEF Tasks, Places
  <2>17. task' = [task EXCEPT ![c] = new]
    BY <1>3, <1>4, <1>6, <2>9, <2>10, <2>13, <2>14, <2>15, TaskFacts DEF Propose
  <2>18. TaskOK(c, new)
    BY <2>12, <2>13, <2>16 DEF TaskOK, LegacyPlaces
  <2> QED
    BY <1>1, <2>7, <2>16, <2>17, <2>18, ProposingStep
<1> QED
  BY <1>5, <1>6

LEMMA ProposeLegacySafe ==
  ASSUME LineageInv, NEW c \in Commands, ProposeLegacy(c)
  PROVE  LineageInv'
<1>1. UNCHANGED <<input, ledger, reviewer, reconciler, graph, pointer, package, artifact, recorded>>
  BY DEF ProposeLegacy, evidence, published
<1>2. PICK t \in Tasks : t = task[c] /\ DocumentOK(c, t.document) /\ t.document \in Documents /\ ~Pinned(c)
  BY TaskFacts DEF ProposeLegacy, LegacyPlaces
<1>3. PICK d \in Documents : d = t.document
  BY <1>2
<1>4. PICK key : key = KeyOf(c, d.edges, d.base)
  OBVIOUS
<1>5. CASE ~Creatable(d.edges, d.base)
  <2>1. GiveUp(c) /\ UNCHANGED tables
    BY <1>1, <1>2, <1>3, <1>5 DEF ProposeLegacy, tables
  <2> QED
    BY <1>1, <2>1, GiveUpStep
<1>6. CASE Creatable(d.edges, d.base)
  <2>1. d.edges \in EdgeMaps /\ d.base \in Nat
    BY <1>3 DEF Documents
  <2>2. d.base <= Len(graph) /\ InLedger(d.edges)
    BY <1>2, <1>3 DEF DocumentOK, LineageInv, TablesTyped
  <2>3. Create(key)
    BY <1>2, <1>3, <1>4, <1>6 DEF ProposeLegacy
  <2>4. ProposalsTyped' /\ ProposalsOK' /\ RowsKept
    BY <1>1, <1>2, <1>4, <2>1, <2>2, <2>3, CreateKeeps
  <2>5. key \in Keys
    BY <1>4, <2>1, KeyType
  <2>6. PICK state \in States : state = "IN_REVIEW"
    BY DEF States
  <2>7. PICK n : n = [d EXCEPT !.proposal = <<key, state>>]
    OBVIOUS
  <2>8. n \in Documents /\ n.base = d.base /\ n.runtime = d.runtime /\ n.edges = d.edges
    BY <2>5, <2>7, DocumentProposal
  <2>9. DocumentOK(c, n)
    BY <1>2, <1>3, <2>8 DEF DocumentOK
  <2>10. PICK new : new = [t EXCEPT !.at = "LEGACY_KEEP", !.document = n]
    OBVIOUS
  <2>11. new \in Tasks /\ new.at = "LEGACY_KEEP" /\ new.document = n
    BY <1>2, <2>8, <2>10 DEF Tasks, Places, LegacyPlaces
  <2>12. task' = [task EXCEPT ![c] = new]
    <3>1. task' = [task EXCEPT ![c].at = "LEGACY_KEEP", ![c].document.proposal = <<key, state>>]
      BY <1>2, <1>3, <1>4, <1>6, <2>6 DEF ProposeLegacy
    <3> QED
      BY <1>2, <1>3, <2>7, <2>10, <3>1, TaskFacts
  <2>13. TaskOK(c, new)
    BY <1>2, <2>9, <2>11 DEF TaskOK
  <2> QED
    BY <1>1, <2>4, <2>11, <2>12, <2>13, ProposingStep
<1> QED
  BY <1>5, <1>6

LEMMA KeepProposalSafe ==
  ASSUME LineageInv, NEW c \in Commands, KeepProposal(c)
  PROVE  LineageInv'
<1>1. UNCHANGED <<input, ledger, reviewer, reconciler, graph, pointer, package, artifact, recorded>>
  BY DEF KeepProposal, evidence, published
<1>2. PICK t \in Tasks : /\ t = task[c] /\ DocumentOK(c, t.document)
                         /\ t.at \in {"KEEP", "LEGACY_KEEP"} /\ (t.at = "LEGACY_KEEP" => ~Pinned(c))
  BY TaskFacts DEF KeepProposal, LegacyPlaces
<1>3. PICK at \in {"PROPOSED", "LEGACY_PROPOSED"} :
        at = IF t.at = "KEEP" THEN "PROPOSED" ELSE "LEGACY_PROPOSED"
  OBVIOUS
<1>4. PICK new : new = [t EXCEPT !.at = at]
  OBVIOUS
<1>5. new \in Tasks /\ new.at = at /\ new.document = t.document
  BY <1>2, <1>3, <1>4 DEF Tasks, Places, LegacyPlaces
<1>6. task' = [task EXCEPT ![c] = new]
  BY <1>2, <1>3, <1>4, TaskFacts DEF KeepProposal
<1>7. TaskOK(c, new)
  BY <1>2, <1>3, <1>5 DEF TaskOK, LegacyPlaces
<1>8. PICK key : key = t.document.proposal[1]
  OBVIOUS
<1>9. PICK f : f = proposal /\ DOMAIN f \subseteq Keys /\ f \in [DOMAIN f -> Rows]
  BY DEF LineageInv, TablesTyped
<1>10. proposal' = [f EXCEPT ![key].kept = TRUE]
  BY <1>2, <1>8, <1>9 DEF KeepProposal
<1>11. DOMAIN proposal' = DOMAIN f /\ proposal' \in [DOMAIN f -> Rows]
  <2> DEFINE kept == [f[key] EXCEPT !.kept = TRUE]
  <2>1. key \in DOMAIN f => kept \in Rows
    BY <1>9 DEF Rows
  <2>2. PICK row : row = kept
    OBVIOUS
  <2>3. proposal' = [f EXCEPT ![key] = row]
    BY <1>10, <2>2
  <2> HIDE DEF kept
  <2> QED
    BY <1>9, <2>1, <2>2, <2>3
<1>12. ASSUME NEW p \in DOMAIN f
       PROVE  /\ proposal'[p].state = f[p].state /\ proposal'[p].approval = f[p].approval
              /\ proposal'[p].activated = f[p].activated
  <2>1. f[p] \in Rows
    BY <1>9
  <2> QED
    BY <1>9, <1>10, <2>1 DEF Rows
<1>13. ProposalsTyped' /\ RowsKept
  BY <1>9, <1>11, <1>12 DEF ProposalsTyped, RowsKept
<1>14. ProposalsOK'
  BY <1>1, <1>9, <1>11, <1>12, <1>13, SameKeys DEF LineageInv, ProposalsOK
<1> QED
  BY <1>1, <1>5, <1>6, <1>7, <1>13, <1>14, ProposingStep

-----------------------------------------------------------------------------
(* Sessions and their reconciliation.                                       *)

LEMMA SessionEndsSafe ==
  ASSUME LineageInv, NEW session, SessionEnds(session)
  PROVE  LineageInv'
<1>1. UNCHANGED <<tables, task, artifact, recorded>>
  BY DEF SessionEnds, tables, evidence, published
<1>2. Grows /\ RecordedGrows
  BY <1>1, NothingElse DEF tables, LineageInv, ProcessesTyped, RecordedGrows
<1>3. \A x \in Commands : CommandOK(x)'
  BY <1>1, <1>2, AllCommandsKept
<1>4. TablesTyped' /\ ProcessesTyped'
  BY <1>1 DEF LineageInv, TablesTyped, ProcessesTyped, tables
<1>5. GraphsOK' /\ ProposalsOK' /\ RequestsOK' /\ FinalizedIsServed' /\ ReconcilerOK'
  BY <1>1, <1>2, GraphsKept, ProposalsKept, RequestsKept, ReconcilerKept DEF tables
<1> QED
  BY <1>3, <1>4, <1>5 DEF LineageInv

\* The reconciliation goes on, and leaves the rest alone.
LEMMA ReconcilerStep ==
  ASSUME LineageInv, UNCHANGED <<input, task, artifact, recorded, ledger, proposal, reviewer, graph, pointer, package>>,
         reconciler' \in Reconciliations, ReconcilerOK'
  PROVE  LineageInv'
<1>1. Grows /\ RecordedGrows
  BY NothingElse DEF LineageInv, ProcessesTyped, RecordedGrows
<1>2. \A x \in Commands : CommandOK(x)'
  BY <1>1, AllCommandsKept
<1>3. TablesTyped' /\ ProcessesTyped'
  BY DEF LineageInv, TablesTyped, ProcessesTyped
<1>4. GraphsOK' /\ ProposalsOK' /\ RequestsOK' /\ FinalizedIsServed'
  BY <1>1, GraphsKept, ProposalsKept, RequestsKept
<1> QED
  BY <1>2, <1>3, <1>4 DEF LineageInv

LEMMA NotReconcilingType ==
  ASSUME graph \in Seq(Maps)
  PROVE  /\ NotReconciling \in Reconciliations /\ NotReconciling.at = "IDLE"
         /\ DOMAIN NotReconciling.edges = {} /\ NotReconciling.base = 0 /\ 0 <= Len(graph)
BY NoEdgesType DEF NotReconciling, Reconciliations

LEMMA ReadSessionsSafe ==
  ASSUME LineageInv, NEW a \in Artifacts, ReadSessions(a)
  PROVE  LineageInv'
<1>1. UNCHANGED <<input, task, artifact, recorded, ledger, proposal, reviewer, graph, pointer, package>>
  BY DEF ReadSessions, others, published
<1>2. PICK i \in Reconciliations : /\ i = NotReconciling /\ DOMAIN i.edges = {} /\ i.base = 0 /\ 0 <= Len(graph)
  BY NotReconcilingType DEF LineageInv, TablesTyped
<1>3. PICK todo \in SUBSET Edges : todo = Observed(a)
  BY DEF Observed
<1>4. PICK new : new = [i EXCEPT !.at = "MERGE", !.artifact = a, !.todo = todo]
  OBVIOUS
<1>5. new \in Reconciliations /\ new.edges = i.edges /\ new.base = i.base /\ new.artifact = a
  BY <1>2, <1>3, <1>4 DEF Reconciliations
<1>6. reconciler' = new
  BY <1>2, <1>3, <1>4 DEF ReadSessions
<1>7. ReconcilerOK'
  BY <1>1, <1>2, <1>5, <1>6 DEF ReconcilerOK, InLedger
<1> QED
  BY <1>1, <1>5, <1>6, <1>7, ReconcilerStep

LEMMA MergeObservationSafe ==
  ASSUME LineageInv, MergeObservation
  PROVE  LineageInv'
<1>1. UNCHANGED <<input, task, artifact, recorded, proposal, reviewer, graph, pointer, package>>
  BY DEF MergeObservation, others, published
<1>2. PICK i \in Reconciliations : i = reconciler /\ i.at = "MERGE"
  BY DEF LineageInv, ProcessesTyped, MergeObservation
<1>3. i.artifact \in Artifacts /\ i.edges \in EdgeMaps /\ InLedger(i.edges) /\ i.base <= Len(graph)
        /\ i.todo \subseteq Edges
  BY <1>2 DEF LineageInv, ReconcilerOK, Reconciliations
<1>4. PICK x \in Assertions : x = <<"SESSION", i.artifact>>
  BY <1>3 DEF Assertions
<1>5. PICK e \in i.todo :
        IF ledger[e] # {}
        THEN /\ Merge(e, x)
             /\ reconciler' = [i EXCEPT !.todo = i.todo \ {e}, !.edges = With(i.edges, e, Merged(e, x))]
        ELSE reconciler' = [i EXCEPT !.todo = i.todo \ {e}] /\ UNCHANGED ledger
  BY <1>2, <1>4 DEF MergeObservation, Corroborates
<1>6. e \in Edges
  BY <1>3
<1>7. CASE ledger[e] # {}
  <2>1. PICK m : m = Merged(e, x)
    OBVIOUS
  <2>2. /\ Grows /\ ledger' \in [Edges -> Evidence]
        /\ m \in Evidence /\ ledger'[e] = m
    BY <1>1, <1>5, <1>6, <1>7, <2>1, MergeGrows
  <2>3. PICK f : f = With(i.edges, e, m)
    OBVIOUS
  <2>4. f \in EdgeMaps /\ \A y \in DOMAIN f : f[y] \subseteq ledger'[y]
    BY <1>3, <1>6, <2>2, <2>3, EdgesMerged
  <2>5. PICK new : new = [i EXCEPT !.todo = i.todo \ {e}, !.edges = f]
    OBVIOUS
  <2>6. new \in Reconciliations /\ new.edges = f /\ new.base = i.base /\ new.artifact = i.artifact
    BY <1>2, <2>4, <2>5 DEF Reconciliations
  <2>7. reconciler' = new
    BY <1>5, <1>7, <2>1, <2>3, <2>5
  <2>8. ReconcilerOK'
    BY <1>1, <1>3, <2>4, <2>6, <2>7 DEF ReconcilerOK, InLedger
  <2>9. \A y \in Commands : CommandOK(y)'
    BY <1>1, <2>2, AllCommandsKept
  <2>10. task' \in [Commands -> Tasks]
    BY <1>1, TaskFacts DEF LineageInv, ProcessesTyped
  <2> QED
    BY <1>1, <2>2, <2>6, <2>7, <2>8, <2>9, <2>10, LedgerStep
<1>8. CASE ~(ledger[e] # {})
  <2>1. PICK new : new = [i EXCEPT !.todo = i.todo \ {e}]
    OBVIOUS
  <2>2. new \in Reconciliations /\ new.edges = i.edges /\ new.base = i.base /\ new.artifact = i.artifact
    BY <1>2, <2>1 DEF Reconciliations
  <2>3. reconciler' = new /\ ledger' = ledger
    BY <1>5, <1>8, <2>1
  <2>4. ReconcilerOK'
    BY <1>1, <1>3, <2>2, <2>3 DEF ReconcilerOK, InLedger
  <2> QED
    BY <1>1, <2>2, <2>3, <2>4, ReconcilerStep
<1> QED
  BY <1>7, <1>8

LEMMA ReadBaseSafe ==
  ASSUME LineageInv, ReadBase
  PROVE  LineageInv'
<1>1. UNCHANGED <<input, task, artifact, recorded, ledger, proposal, reviewer, graph, pointer, package>>
  BY DEF ReadBase, others, published
<1>2. PICK i \in Reconciliations : i = reconciler /\ i.at = "MERGE"
  BY DEF LineageInv, ProcessesTyped, ReadBase
<1>3. i.artifact \in Artifacts /\ InLedger(i.edges)
  BY <1>2 DEF LineageInv, ReconcilerOK
<1>4. PICK b \in Nat : b = pointer.active /\ b <= Len(graph)
  BY DEF LineageInv, TablesTyped
<1>5. CASE reconciler' = NotReconciling
  <2>1. reconciler' \in Reconciliations /\ reconciler'.at = "IDLE" /\ DOMAIN reconciler'.edges = {}
          /\ reconciler'.base <= Len(graph)
    BY <1>5, NotReconcilingType DEF LineageInv, TablesTyped
  <2>2. ReconcilerOK'
    BY <1>1, <2>1 DEF ReconcilerOK, InLedger
  <2> QED
    BY <1>1, <2>1, <2>2, ReconcilerStep
<1>6. CASE reconciler' # NotReconciling
  <2>1. PICK new : new = [i EXCEPT !.at = "PROPOSE", !.base = b]
    OBVIOUS
  <2>2. new \in Reconciliations /\ new.edges = i.edges /\ new.base = b /\ new.artifact = i.artifact
    BY <1>2, <2>1 DEF Reconciliations
  <2>3. reconciler' = new
    BY <1>2, <1>4, <1>6, <2>1 DEF ReadBase
  <2>4. ReconcilerOK'
    BY <1>1, <1>3, <1>4, <2>2, <2>3 DEF ReconcilerOK, InLedger
  <2> QED
    BY <1>1, <2>2, <2>3, <2>4, ReconcilerStep
<1> QED
  BY <1>5, <1>6

LEMMA ProposeReconciledSafe ==
  ASSUME LineageInv, ProposeReconciled
  PROVE  LineageInv'
<1>1. UNCHANGED <<input, task, artifact, recorded, ledger, reviewer, graph, pointer, package>>
  BY DEF ProposeReconciled, others, published
<1>2. PICK i \in Reconciliations : i = reconciler /\ i.at = "PROPOSE"
  BY DEF LineageInv, ProcessesTyped, ProposeReconciled
<1>3. /\ i.artifact \in Artifacts /\ i.edges \in EdgeMaps /\ InLedger(i.edges)
      /\ i.base \in Nat /\ i.base <= Len(graph)
  BY <1>2 DEF LineageInv, ReconcilerOK, Reconciliations
<1>4. reconciler' \in Reconciliations /\ ReconcilerOK'
  <2>1. reconciler' \in Reconciliations /\ reconciler'.at = "IDLE" /\ DOMAIN reconciler'.edges = {}
          /\ reconciler'.base <= Len(graph)
    BY NotReconcilingType DEF LineageInv, TablesTyped, ProposeReconciled
  <2> QED
    BY <1>1, <2>1 DEF ReconcilerOK, InLedger
<1>5. CASE proposal' = proposal
  BY <1>1, <1>4, <1>5, ReconcilerStep
<1>6. CASE proposal' # proposal
  <2>1. PICK key : key = KeyOf(i.artifact, i.edges, i.base)
    OBVIOUS
  <2>2. Create(key)
    BY <1>2, <1>6, <2>1 DEF ProposeReconciled
  <2>3. i.artifact \notin Commands
    BY <1>3, NamesAssumption
  <2>4. ProposalsTyped' /\ ProposalsOK' /\ RowsKept
    BY <1>1, <1>3, <2>1, <2>2, <2>3, CreateKeeps
  <2>5. Grows
    BY <1>1, <2>4, NothingElse DEF RowsKept
  <2>6. (\A x \in Commands : CommandOK(x)') /\ GraphsOK'
    BY <1>1, <2>5, AllCommandsKept, GraphsKept
  <2>7. RequestsOK' /\ FinalizedIsServed'
    BY <1>1, <2>4, RowsKeptServe
  <2>8. TablesTyped' /\ ProcessesTyped'
    BY <1>1, <1>4, <2>4 DEF LineageInv, TablesTyped, ProcessesTyped, ProposalsTyped
  <2> QED
    BY <1>4, <2>4, <2>6, <2>7, <2>8 DEF LineageInv
<1> QED
  BY <1>5, <1>6

-----------------------------------------------------------------------------
(* Review.                                                                  *)

aside == <<input, task, artifact, recorded, ledger, reconciler>>

LEMMA ReviewFacts ==
  ASSUME LineageInv, NEW r \in Reviewers
  PROVE  /\ reviewer \in [Reviewers -> Requests] /\ reviewer[r] \in Requests
         /\ ProposalsTyped /\ RequestOK(r)
         /\ reviewer[r].at # "IDLE" =>
              /\ KeyAt(r) \in DOMAIN proposal /\ KeyAt(r) \in Keys
              /\ proposal[KeyAt(r)] \in Rows /\ KeyOK(KeyAt(r))
              /\ proposal[KeyAt(r)].activated <= Len(graph)
<1>1. reviewer \in [Reviewers -> Requests] /\ ProposalsTyped /\ RequestOK(r)
  BY DEF LineageInv, ProcessesTyped, TablesTyped, ProposalsTyped, RequestsOK
<1>2. reviewer[r].at # "IDLE" => KeyAt(r) \in DOMAIN proposal
  BY <1>1 DEF RequestOK
<1> QED
  BY <1>1, <1>2 DEF ProposalsTyped, LineageInv, ProposalsOK

\* Whoever decides a version, or can decide it, is the only one that goes on with it.
LEMMA OthersUndecided ==
  ASSUME LineageInv, NEW r \in Reviewers,
         \/ reviewer[r].at \notin Undecided
         \/ reviewer[r].at = "DECIDE" /\ proposal[KeyAt(r)].state = "IN_REVIEW",
         NEW s \in Reviewers, s # r, KeyAt(s) = KeyAt(r)
  PROVE  reviewer[s].at \in Undecided
<1>1. CASE reviewer[r].at \notin Undecided
  BY <1>1 DEF LineageInv, RequestsOK, OneDecides
<1>2. CASE proposal[KeyAt(r)].state = "IN_REVIEW"
  <2>1. RequestOK(s) /\ reviewer[s].at \in Standing
    BY ReviewFacts DEF Requests
  <2> QED
    BY <1>2, <2>1 DEF RequestOK, Standing, Opened, Done, Undecided
<1> QED
  BY <1>1, <1>2

\* What one request does to its version and to the package leaves the others as they are.
LEMMA RequestsStep ==
  ASSUME LineageInv, UNCHANGED input, NEW r \in Reviewers, NEW new \in Requests,
         reviewer' = [reviewer EXCEPT ![r] = new], NEW k,
         DOMAIN proposal \subseteq DOMAIN proposal',
         \A p \in DOMAIN proposal : p # k =>
           /\ proposal'[p].state = proposal[p].state /\ proposal'[p].approval = proposal[p].approval
           /\ proposal'[p].activated = proposal[p].activated,
         new.at \notin Undecided => new.key = k,
         \A s \in Reviewers : s # r /\ KeyAt(s) = k => reviewer[s].at \in Undecided,
         \A s \in Reviewers : s # r /\ reviewer[s].at = "FINALIZE" =>
           package'[ArtifactOf(KeyAt(s).origin)] = package[ArtifactOf(KeyAt(s).origin)],
         RequestOK(r)'
  PROVE  RequestsOK'
<1>1. reviewer'[r] = new /\ \A s \in Reviewers : s # r => reviewer'[s] = reviewer[s]
  BY ReviewFacts
<1>2. ASSUME NEW s \in Reviewers, s # r
      PROVE  RequestOK(s)'
  <2>1. RequestOK(s) /\ reviewer'[s] = reviewer[s] /\ KeyAt(s)' = KeyAt(s)
    BY <1>1, <1>2, ReviewFacts DEF KeyAt
  <2>2. ArtifactOf(KeyAt(s).origin)' = ArtifactOf(KeyAt(s).origin)
    BY <2>1 DEF ArtifactOf
  <2>3. CASE reviewer[s].at \in Undecided
    BY <2>1, <2>3 DEF RequestOK, Undecided, Opened, Done
  <2>4. CASE reviewer[s].at \notin Undecided
    <3>1. KeyAt(s) \in DOMAIN proposal /\ KeyAt(s) # k
      BY <1>2, <2>1, <2>4 DEF RequestOK, Undecided
    <3>2. /\ proposal'[KeyAt(s)].state = proposal[KeyAt(s)].state
          /\ proposal'[KeyAt(s)].approval = proposal[KeyAt(s)].approval
          /\ proposal'[KeyAt(s)].activated = proposal[KeyAt(s)].activated
          /\ KeyAt(s) \in DOMAIN proposal'
      BY <3>1
    <3>3. PackageOf(s)' = PackageOf(s)
      BY <2>1, <3>2 DEF PackageOf
    <3>4. reviewer[s].at = "FINALIZE" => package'[ArtifactOf(KeyAt(s).origin)] = PackageOf(s)
      BY <1>2, <2>1 DEF RequestOK
    <3> QED
      BY <2>1, <2>2, <3>2, <3>3, <3>4 DEF RequestOK
  <2> QED
    BY <2>3, <2>4
<1>3. OneDecides'
  <2>1. \A s \in Reviewers : s # r => KeyAt(s)' = KeyAt(s)
    BY <1>1 DEF KeyAt
  <2>2. KeyAt(r)' = new.key
    BY <1>1 DEF KeyAt
  <2>3. OneDecides
    BY DEF LineageInv, RequestsOK
  <2>4. ASSUME NEW s \in Reviewers, NEW u \in Reviewers, s # u, reviewer'[s].at \notin Undecided,
               reviewer'[u].at \notin Undecided, KeyAt(s)' = KeyAt(u)'
        PROVE  FALSE
    <3>1. CASE s # r /\ u # r
      BY <1>1, <2>1, <2>3, <2>4, <3>1 DEF OneDecides
    <3>2. CASE s = r
      BY <1>1, <2>1, <2>2, <2>4, <3>2
    <3>3. CASE u = r
      BY <1>1, <2>1, <2>2, <2>4, <3>3
    <3> QED
      BY <3>1, <3>2, <3>3
  <2> QED
    BY <2>4 DEF OneDecides
<1> QED
  BY <1>2, <1>3 DEF RequestsOK

\* A step of a request that publishes nothing.
LEMMA ReviewStepKeeps ==
  ASSUME LineageInv, UNCHANGED <<aside, graph>>,
         pointer' \in [active : Nat, token : Nat], pointer'.active = pointer.active,
         package' \in [Artifacts -> Packages], reviewer' \in [Reviewers -> Requests],
         DOMAIN proposal \subseteq DOMAIN proposal',
         ProposalsTyped', ProposalsOK', RequestsOK', FinalizedIsServed'
  PROVE  LineageInv'
<1>1. Grows
  BY NothingElse DEF aside
<1>2. TablesTyped' /\ ProcessesTyped'
  BY DEF aside, LineageInv, TablesTyped, ProcessesTyped, ProposalsTyped
<1>3. \A x \in Commands : CommandOK(x)'
  BY <1>1, AllCommandsKept DEF aside
<1>4. GraphsOK' /\ ReconcilerOK'
  BY <1>1, GraphsKept, ReconcilerKept DEF aside
<1> QED
  BY <1>2, <1>3, <1>4 DEF LineageInv

\* A step of a request that changes nothing but the request.
LEMMA RequestOnly ==
  ASSUME LineageInv, UNCHANGED <<aside, graph, proposal, package>>,
         pointer' \in [active : Nat, token : Nat], pointer'.active = pointer.active,
         NEW r \in Reviewers, NEW new \in Requests, reviewer' = [reviewer EXCEPT ![r] = new],
         new.at \in Undecided \/ (reviewer[r].at \notin Undecided /\ new.key = KeyAt(r)),
         RequestOK(r)'
  PROVE  LineageInv'
<1>1. reviewer \in [Reviewers -> Requests]
  BY ReviewFacts
<1>2. reviewer' \in [Reviewers -> Requests]
  BY <1>1
<1>3. package' \in [Artifacts -> Packages] /\ ProposalsTyped'
  BY DEF LineageInv, TablesTyped, ProposalsTyped
<1>4. Grows /\ RecordedGrows
  BY NothingElse DEF aside, LineageInv, ProcessesTyped, RecordedGrows
<1>5. ProposalsOK'
  BY <1>4, ProposalsKept
<1>6. FinalizedIsServed'
  BY DEF LineageInv, FinalizedIsServed, ArtifactOf, aside
<1>7. RequestsOK'
  <2>1. CASE new.at \in Undecided
    <3>1. reviewer'[r] = new /\ \A s \in Reviewers : s # r => reviewer'[s] = reviewer[s]
      BY <1>1
    <3>2. ASSUME NEW s \in Reviewers, s # r
          PROVE  RequestOK(s)'
      <4>1. RequestOK(s)
        BY ReviewFacts
      <4>2. reviewer'[s] = reviewer[s]
        BY <3>1, <3>2
      <4> QED
        BY <4>1, <4>2 DEF RequestOK, KeyAt, PackageOf, ArtifactOf, aside
    <3>3. OneDecides'
      BY <2>1, <3>1 DEF LineageInv, RequestsOK, OneDecides, KeyAt
    <3> QED
      BY <3>2, <3>3 DEF RequestsOK
  <2>2. CASE reviewer[r].at \notin Undecided /\ new.key = KeyAt(r)
    <3>1. PICK k : k = KeyAt(r)
      OBVIOUS
    <3>2. ASSUME NEW s \in Reviewers, s # r, KeyAt(s) = k
          PROVE  reviewer[s].at \in Undecided
      BY <2>2, <3>1, <3>2, OthersUndecided
    <3>3. input' = input /\ DOMAIN proposal \subseteq DOMAIN proposal'
      BY DEF aside
    <3> QED
      BY <2>2, <3>1, <3>2, <3>3, RequestsStep
  <2> QED
    BY <2>1, <2>2
<1> QED
  BY <1>2, <1>3, <1>5, <1>6, <1>7, ReviewStepKeeps

LEMMA IdleRequest ==
  ASSUME NEW r \in Reviewers, reviewer'[r].at = "IDLE"
  PROVE  RequestOK(r)'
BY DEF RequestOK, Undecided, Opened, Done

LEMMA NotReviewingType == NotReviewing \in Requests /\ NotReviewing.at = "IDLE" /\ "IDLE" \in Undecided
BY DEF NotReviewing, Requests, Standing, Undecided

\* The request ends.
LEMMA AbortStep ==
  ASSUME LineageInv, UNCHANGED <<aside, graph, proposal, package, pointer>>,
         NEW r \in Reviewers, Abort(r)
  PROVE  LineageInv'
<1>1. PICK new \in Requests : new = NotReviewing /\ new.at = "IDLE" /\ new.at \in Undecided
  BY NotReviewingType
<1>2. reviewer' = [reviewer EXCEPT ![r] = new]
  BY <1>1 DEF Abort, SetReviewer
<1>3. reviewer'[r].at = "IDLE"
  BY <1>1, <1>2, ReviewFacts
<1>4. RequestOK(r)'
  BY <1>3, IdleRequest
<1>5. pointer' \in [active : Nat, token : Nat] /\ pointer'.active = pointer.active
  BY DEF LineageInv, TablesTyped
<1> QED
  BY <1>1, <1>2, <1>4, <1>5, RequestOnly

\* A row of a version is written.
LEMMA SetRow ==
  ASSUME LineageInv, NEW k \in DOMAIN proposal, NEW row \in Rows, Set(k, row)
  PROVE  /\ ProposalsTyped' /\ DOMAIN proposal' = DOMAIN proposal /\ proposal'[k] = row
         /\ \A p \in DOMAIN proposal : p # k => proposal'[p] = proposal[p]
<1>1. ProposalsTyped /\ k \in Keys
  BY DEF LineageInv, TablesTyped, ProposalsTyped
<1>2. PICK f : f = With(proposal, k, row)
  OBVIOUS
<1>3. /\ DOMAIN f = DOMAIN proposal \cup {k} /\ DOMAIN f \subseteq Keys /\ f \in [DOMAIN f -> Rows]
      /\ f[k] = row /\ \A p \in DOMAIN proposal : p # k => f[p] = proposal[p]
  BY <1>1, <1>2, WithRow
<1> QED
  BY <1>2, <1>3 DEF Set, ProposalsTyped

\* A request writes the row of its version, and goes on or ends.
LEMMA RowStep ==
  ASSUME LineageInv, UNCHANGED <<aside, graph, package, pointer>>,
         NEW r \in Reviewers, NEW new \in Requests, reviewer' = [reviewer EXCEPT ![r] = new],
         NEW k \in DOMAIN proposal, k = KeyAt(r), NEW row \in Rows, Set(k, row),
         new.at \notin Undecided => new.key = k,
         \/ reviewer[r].at \notin Undecided
         \/ reviewer[r].at = "DECIDE" /\ proposal[k].state = "IN_REVIEW",
         proposal[k].state # "SUPERSEDED", row.activated <= Len(graph),
         RequestOK(r)',
         row.state = "FINALIZED" =>
           /\ row.approval /\ row.activated # 0
           /\ package[ArtifactOf(k.origin)] = [graph |-> row.activated, approved |-> k],
         row.activated # 0 => row.state \in {"APPROVED", "FINALIZED"}
  PROVE  LineageInv'
<1>1. /\ ProposalsTyped' /\ DOMAIN proposal' = DOMAIN proposal /\ proposal'[k] = row
      /\ \A p \in DOMAIN proposal : p # k => proposal'[p] = proposal[p]
  BY SetRow
<1>2. ProposalsOK'
  <2>1. UNCHANGED <<input, ledger, graph, recorded>>
    BY DEF aside
  <2>2. ASSUME NEW p \in DOMAIN proposal
        PROVE  /\ proposal[p].state = "SUPERSEDED" => proposal'[p].state = "SUPERSEDED"
               /\ proposal'[p].activated <= Len(graph)
    BY <1>1 DEF LineageInv, ProposalsOK
  <2> QED
    BY <1>1, <2>1, <2>2, SameKeys
<1>3. RequestsOK'
  <2>1. ASSUME NEW s \in Reviewers, s # r, KeyAt(s) = k
        PROVE  reviewer[s].at \in Undecided
    BY <2>1, OthersUndecided
  <2>2. input' = input /\ package' = package
    BY DEF aside
  <2>3. \A p \in DOMAIN proposal : p # k =>
           /\ proposal'[p].state = proposal[p].state /\ proposal'[p].approval = proposal[p].approval
           /\ proposal'[p].activated = proposal[p].activated
    BY <1>1
  <2>4. \A s \in Reviewers : s # r /\ KeyAt(s) = k => reviewer[s].at \in Undecided
    BY <2>1
  <2>5. \A s \in Reviewers : s # r /\ reviewer[s].at = "FINALIZE" =>
           package'[ArtifactOf(KeyAt(s).origin)] = package[ArtifactOf(KeyAt(s).origin)]
    BY <2>2
  <2>6. DOMAIN proposal \subseteq DOMAIN proposal'
    BY <1>1
  <2> QED
    BY <2>2, <2>3, <2>4, <2>5, <2>6, RequestsStep, ZenonT(30)
<1>4. FinalizedIsServed'
  <2>1. ASSUME NEW p \in DOMAIN proposal
        PROVE  /\ proposal'[p].state = "FINALIZED" =>
                    /\ proposal'[p].approval /\ proposal'[p].activated # 0
                    /\ package[ArtifactOf(p.origin)] = [graph |-> proposal'[p].activated, approved |-> p]
               /\ proposal'[p].activated # 0 => proposal'[p].state \in {"APPROVED", "FINALIZED"}
    <3>1. CASE p = k
      BY <1>1, <3>1
    <3>2. CASE p # k
      BY <1>1, <3>2 DEF LineageInv, FinalizedIsServed
    <3> QED
      BY <3>1, <3>2
  <2> QED
    BY <1>1, <2>1 DEF FinalizedIsServed, ArtifactOf, aside
<1>5. /\ pointer' \in [active : Nat, token : Nat] /\ pointer'.active = pointer.active
      /\ package' \in [Artifacts -> Packages]
  BY DEF LineageInv, TablesTyped
<1>6. reviewer' \in [Reviewers -> Requests]
  BY ReviewFacts
<1> QED
  BY <1>1, <1>2, <1>3, <1>4, <1>5, <1>6, ReviewStepKeeps

LEMMA ReadProposalSafe ==
  ASSUME LineageInv, NEW r \in Reviewers, ReadProposal(r)
  PROVE  LineageInv'
<1>1. UNCHANGED <<aside, graph, proposal, package, pointer>>
  BY DEF ReadProposal, aside, rest, published, evidence
<1>2. PICK key \in DOMAIN proposal, decision \in Decisions :
        reviewer' = [reviewer EXCEPT ![r] =
          [NotReviewing EXCEPT !.at = "DECIDE", !.key = key, !.lock = proposal[key].lock, !.decision = decision]]
  BY DEF ReadProposal, SetReviewer, Decisions
<1>3. PICK lock \in Nat : lock = proposal[key].lock /\ key \in Keys
  BY DEF LineageInv, TablesTyped, Rows
<1>4. PICK new : new = [NotReviewing EXCEPT !.at = "DECIDE", !.key = key, !.lock = lock, !.decision = decision]
  OBVIOUS
<1>5. new \in Requests /\ new.at = "DECIDE" /\ new.key = key /\ new.decision = decision
  BY <1>3, <1>4 DEF Requests, NotReviewing, Standing, Undecided
<1>6. reviewer' = [reviewer EXCEPT ![r] = new]
  BY <1>2, <1>3, <1>4
<1>7. reviewer'[r] = new
  BY <1>6, ReviewFacts
<1>8. RequestOK(r)'
  BY <1>1, <1>2, <1>5, <1>7 DEF RequestOK, KeyAt, Undecided, Opened, Done
<1>9. pointer' \in [active : Nat, token : Nat] /\ pointer'.active = pointer.active
  BY <1>1 DEF LineageInv, TablesTyped
<1> QED
  BY <1>1, <1>5, <1>6, <1>8, <1>9, RequestOnly DEF Undecided

\* A request with its version, as it stands.
RequestFacts(r, q, k, row) ==
  /\ q = reviewer[r] /\ k = KeyAt(r) /\ k = q.key /\ k \in Keys /\ row = proposal[k]
  /\ row.activated <= Len(graph) /\ KeyOK(k)
  /\ row.activated # 0 => row.state \in {"APPROVED", "FINALIZED"}
  /\ q.at = "DECIDE" => q.decision \in Decisions
  /\ q.at \in Opened =>
       /\ q.decision \in {"APPROVED", "REJECTED"}
       /\ row.state = q.decision /\ row.activated = 0
  /\ q.at \notin Undecided \cup {"EVIDENCE"} => k.origin \in Commands /\ row.approval
  /\ q.at \in {"RESERVE", "ACTIVATE"} => q.decision = "APPROVED"
  /\ q.at \in Done => row.state = "APPROVED" /\ row.activated # 0
  /\ q.at = "FINALIZE" => package[ArtifactOf(k.origin)] = [graph |-> row.activated, approved |-> k]
  /\ q.at = "PUBLISHED" => row.state = "FINALIZED"

LEMMA RequestAt ==
  ASSUME LineageInv, NEW r \in Reviewers, reviewer[r].at # "IDLE"
  PROVE  \E q \in Requests, k \in DOMAIN proposal, row \in Rows : RequestFacts(r, q, k, row)
<1>1. /\ reviewer[r] \in Requests /\ RequestOK(r)
      /\ KeyAt(r) \in DOMAIN proposal /\ KeyAt(r) \in Keys
      /\ proposal[KeyAt(r)] \in Rows /\ KeyOK(KeyAt(r))
      /\ proposal[KeyAt(r)].activated <= Len(graph)
  BY ReviewFacts
<1>2. proposal[KeyAt(r)].activated # 0 => proposal[KeyAt(r)].state \in {"APPROVED", "FINALIZED"}
  BY <1>1 DEF LineageInv, FinalizedIsServed
<1>3. PICK q \in Requests, k \in DOMAIN proposal, row \in Rows :
        q = reviewer[r] /\ k = KeyAt(r) /\ row = proposal[k]
  BY <1>1
<1>4. k = q.key
  BY <1>3 DEF KeyAt
<1>5. PackageOf(r) = [graph |-> row.activated, approved |-> k]
  BY <1>3 DEF PackageOf
<1> HIDE DEF KeyAt, KeyOK, PackageOf
<1>6. /\ q.at = "DECIDE" => q.decision \in Decisions
      /\ q.at \in Opened =>
           /\ q.decision \in {"APPROVED", "REJECTED"}
           /\ row.state = q.decision /\ row.activated = 0
      /\ q.at \notin Undecided \cup {"EVIDENCE"} => k.origin \in Commands /\ row.approval
      /\ q.at \in {"RESERVE", "ACTIVATE"} => q.decision = "APPROVED"
      /\ q.at \in Done => row.state = "APPROVED" /\ row.activated # 0
      /\ q.at = "FINALIZE" => package[ArtifactOf(k.origin)] = [graph |-> row.activated, approved |-> k]
      /\ q.at = "PUBLISHED" => row.state = "FINALIZED"
  BY <1>1, <1>3, <1>5 DEF RequestOK
<1>7. k \in Keys /\ row.activated <= Len(graph) /\ KeyOK(k)
        /\ (row.activated # 0 => row.state \in {"APPROVED", "FINALIZED"})
  BY <1>1, <1>2, <1>3
<1> QED
  BY <1>3, <1>4, <1>6, <1>7 DEF RequestFacts

LEMMA DecideSafe ==
  ASSUME LineageInv, NEW r \in Reviewers, Decide(r)
  PROVE  LineageInv'
<1>1. UNCHANGED <<aside, graph, package, pointer>>
  BY DEF Decide, aside, rest, published, evidence
<1>2. CASE ~StillOpen(r)
  BY <1>1, <1>2, AbortStep DEF Decide
<1>3. CASE StillOpen(r)
  <2>1. PICK q \in Requests, k \in DOMAIN proposal, row \in Rows :
           /\ q = reviewer[r] /\ k = KeyAt(r) /\ k = q.key /\ k \in Keys /\ row = proposal[k]
           /\ row.activated <= Len(graph)
           /\ row.activated # 0 => row.state \in {"APPROVED", "FINALIZED"}
    <3>1. PICK now \in Requests, key \in DOMAIN proposal, old \in Rows : RequestFacts(r, now, key, old)
      BY RequestAt DEF Decide
    <3> QED
      BY <3>1 DEF RequestFacts
  <2>2. q.at = "DECIDE" /\ q.decision \in {"APPROVED", "REJECTED"} /\ row.state = "IN_REVIEW"
    BY <1>3, <2>1 DEF Decide, StillOpen
  <2>3. row.activated = 0
    BY <2>1, <2>2
  <2>4. PICK lock \in Nat : lock = row.lock + 1
    BY <2>1 DEF Rows
  <2>5. PICK to : to = [row EXCEPT !.state = q.decision, !.lock = lock]
    OBVIOUS
  <2>6. to \in Rows /\ to.state = q.decision /\ to.activated = row.activated
    BY <2>1, <2>2, <2>4, <2>5 DEF Rows, States, Decisions
  <2>7. Set(k, to)
    BY <1>3, <2>1, <2>4, <2>5 DEF Decide, Decided
  <2>8. PICK new : new = [q EXCEPT !.at = "EVIDENCE"]
    OBVIOUS
  <2>9. new \in Requests /\ new.at = "EVIDENCE" /\ new.key = k /\ new.decision = q.decision
    BY <2>1, <2>8 DEF Requests, Standing, Opened
  <2>10. reviewer' = [reviewer EXCEPT ![r] = new]
    BY <1>3, <2>1, <2>8, ReviewFacts DEF Decide, GoTo
  <2>11. reviewer'[r] = new
    BY <2>10, ReviewFacts
  <2>12. proposal'[k] = to /\ k \in DOMAIN proposal'
    BY <2>6, <2>7, SetRow
  <2>13. RequestOK(r)'
    BY <2>2, <2>3, <2>6, <2>9, <2>11, <2>12 DEF RequestOK, KeyAt, Undecided, Opened, Done
  <2>14. new.at \notin Undecided => new.key = k
    BY <2>9
  <2>15. reviewer[r].at = "DECIDE" /\ proposal[k].state = "IN_REVIEW" /\ proposal[k].state # "SUPERSEDED"
    BY <2>1, <2>2
  <2>16. to.state # "FINALIZED" /\ to.activated = 0 /\ to.activated <= Len(graph)
    BY <2>1, <2>2, <2>3, <2>6
  <2> QED
    BY <1>1, <2>1, <2>6, <2>7, <2>9, <2>10, <2>13, <2>14, <2>15, <2>16, RowStep
<1> QED
  BY <1>2, <1>3

LEMMA PutApprovalSafe ==
  ASSUME LineageInv, NEW r \in Reviewers, PutApproval(r)
  PROVE  LineageInv'
<1>1. UNCHANGED <<aside, graph, package, pointer>>
  BY DEF PutApproval, aside, rest, published, evidence
<1>2. PICK q \in Requests, k \in DOMAIN proposal, row \in Rows :
           /\ q = reviewer[r] /\ k = KeyAt(r) /\ k = q.key /\ k \in Keys /\ row = proposal[k]
           /\ row.activated <= Len(graph)
           /\ q.at \in Opened =>
                /\ q.decision \in {"APPROVED", "REJECTED"}
                /\ row.state = q.decision /\ row.activated = 0
  <2>1. PICK now \in Requests, key \in DOMAIN proposal, old \in Rows : RequestFacts(r, now, key, old)
    BY RequestAt DEF PutApproval
  <2> QED
    BY <2>1 DEF RequestFacts
<1>3. /\ q.at = "EVIDENCE" /\ q.decision \in {"APPROVED", "REJECTED"}
      /\ row.state = q.decision /\ row.activated = 0
  BY <1>2 DEF PutApproval, Opened
<1>4. PICK to : to = [row EXCEPT !.approval = TRUE]
  OBVIOUS
<1>5. to \in Rows /\ to.state = row.state /\ to.activated = 0 /\ to.approval = TRUE
  BY <1>2, <1>3, <1>4 DEF Rows
<1>6. Set(k, to)
  BY <1>2, <1>4 DEF PutApproval
<1>7. proposal'[k] = to /\ k \in DOMAIN proposal'
  BY <1>5, <1>6, SetRow
<1>8. \E new \in Requests : /\ reviewer' = [reviewer EXCEPT ![r] = new] /\ RequestOK(r)'
                            /\ new.at \notin Undecided => new.key = k
  <2>1. CASE HasRun(r)
    <3>1. PICK new : new = [q EXCEPT !.at = "RUN"]
      OBVIOUS
    <3>2. new \in Requests /\ new.at = "RUN" /\ new.key = k /\ new.decision = q.decision
      BY <1>2, <3>1 DEF Requests, Standing, Opened
    <3>3. reviewer' = [reviewer EXCEPT ![r] = new]
      BY <1>2, <2>1, <3>1, ReviewFacts DEF PutApproval, GoTo
    <3>4. reviewer'[r] = new
      BY <3>3, ReviewFacts
    <3>5. k.origin \in Commands
      BY <1>2, <2>1 DEF HasRun
    <3>6. RequestOK(r)'
      BY <1>3, <1>5, <1>7, <3>2, <3>4, <3>5 DEF RequestOK, KeyAt, Undecided, Opened, Done
    <3> QED
      BY <3>2, <3>3, <3>6
  <2>2. CASE ~HasRun(r)
    <3>1. reviewer' = [reviewer EXCEPT ![r] = NotReviewing]
      BY <2>2 DEF PutApproval, Abort, SetReviewer
    <3>2. reviewer'[r].at = "IDLE"
      BY <3>1, NotReviewingType, ReviewFacts
    <3> QED
      BY <3>1, <3>2, IdleRequest, NotReviewingType
  <2> QED
    BY <2>1, <2>2
<1>9. PICK new \in Requests : /\ reviewer' = [reviewer EXCEPT ![r] = new] /\ RequestOK(r)'
                              /\ new.at \notin Undecided => new.key = k
  BY <1>8
<1>10. reviewer[r].at \notin Undecided /\ proposal[k].state # "SUPERSEDED"
  BY <1>2, <1>3 DEF Undecided
<1>11. to.state # "FINALIZED" /\ to.activated = 0 /\ to.activated <= Len(graph)
  BY <1>2, <1>3, <1>5
<1> QED
  BY <1>1, <1>2, <1>5, <1>6, <1>9, <1>10, <1>11, RowStep

LEMMA MarkRunSafe ==
  ASSUME LineageInv, NEW r \in Reviewers, MarkRun(r)
  PROVE  LineageInv'
<1>1. UNCHANGED <<aside, graph, proposal, package, pointer>>
  BY DEF MarkRun, aside, rest, published, evidence
<1>2. CASE reviewer[r].decision = "REJECTED"
  BY <1>1, <1>2, AbortStep DEF MarkRun
<1>3. CASE reviewer[r].decision # "REJECTED"
  <2>1. PICK q \in Requests, k \in DOMAIN proposal, row \in Rows :
           /\ q = reviewer[r] /\ k = KeyAt(r) /\ k = q.key /\ row = proposal[k]
           /\ q.at \in Opened =>
                /\ q.decision \in {"APPROVED", "REJECTED"}
                /\ row.state = q.decision /\ row.activated = 0
           /\ q.at \notin Undecided \cup {"EVIDENCE"} => k.origin \in Commands /\ row.approval
    <3>1. PICK now \in Requests, key \in DOMAIN proposal, old \in Rows : RequestFacts(r, now, key, old)
      BY RequestAt DEF MarkRun
    <3> QED
      BY <3>1 DEF RequestFacts
  <2>2. /\ q.at = "RUN" /\ q.decision = "APPROVED" /\ row.state = "APPROVED" /\ row.activated = 0
        /\ k.origin \in Commands /\ row.approval
    BY <1>3, <2>1 DEF MarkRun, Opened, Undecided
  <2>3. PICK new : new = [q EXCEPT !.at = "RESERVE"]
    OBVIOUS
  <2>4. new \in Requests /\ new.at = "RESERVE" /\ new.key = k /\ new.decision = q.decision
    BY <2>1, <2>3 DEF Requests, Standing, Opened
  <2>5. reviewer' = [reviewer EXCEPT ![r] = new]
    BY <1>3, <2>1, <2>3, ReviewFacts DEF MarkRun, GoTo
  <2>6. reviewer'[r] = new
    BY <2>5, ReviewFacts
  <2>7. RequestOK(r)'
    BY <1>1, <2>1, <2>2, <2>4, <2>6 DEF RequestOK, KeyAt, Undecided, Opened, Done
  <2>8. pointer' \in [active : Nat, token : Nat] /\ pointer'.active = pointer.active
    BY <1>1 DEF LineageInv, TablesTyped
  <2>9. reviewer[r].at \notin Undecided /\ new.key = KeyAt(r)
    BY <2>1, <2>2, <2>4 DEF Undecided
  <2> QED
    BY <1>1, <2>4, <2>5, <2>7, <2>8, <2>9, RequestOnly
<1> QED
  BY <1>2, <1>3

LEMMA ReserveSafe ==
  ASSUME LineageInv, NEW r \in Reviewers, Reserve(r)
  PROVE  LineageInv'
<1>1. UNCHANGED <<aside, graph, proposal, package>>
  BY DEF Reserve, aside, rest, evidence
<1>2. CASE ~OnItsBase(r)
  BY <1>1, <1>2, AbortStep DEF Reserve
<1>3. CASE OnItsBase(r)
  <2>1. PICK q \in Requests, k \in DOMAIN proposal, row \in Rows :
           /\ q = reviewer[r] /\ k = KeyAt(r) /\ k = q.key /\ row = proposal[k]
           /\ q.at \in Opened =>
                /\ q.decision \in {"APPROVED", "REJECTED"}
                /\ row.state = q.decision /\ row.activated = 0
           /\ q.at \notin Undecided \cup {"EVIDENCE"} => k.origin \in Commands /\ row.approval
           /\ q.at \in {"RESERVE", "ACTIVATE"} => q.decision = "APPROVED"
    <3>1. PICK now \in Requests, key \in DOMAIN proposal, old \in Rows : RequestFacts(r, now, key, old)
      BY RequestAt DEF Reserve
    <3> QED
      BY <3>1 DEF RequestFacts
  <2>2. /\ q.at = "RESERVE" /\ q.decision = "APPROVED" /\ row.state = "APPROVED" /\ row.activated = 0
        /\ k.origin \in Commands /\ row.approval
    BY <2>1 DEF Reserve, Opened, Undecided
  <2>3. PICK p \in [active : Nat, token : Nat] : p = pointer
    BY DEF LineageInv, TablesTyped
  <2>4. PICK n \in Nat : n = p.token + 1
    BY <2>3
  <2>5. pointer' = [p EXCEPT !.token = n]
    BY <1>3, <2>3, <2>4 DEF Reserve
  <2>6. pointer' \in [active : Nat, token : Nat] /\ pointer'.active = pointer.active
    BY <2>3, <2>4, <2>5
  <2>7. PICK new : new = [q EXCEPT !.at = "ACTIVATE", !.token = n]
    OBVIOUS
  <2>8. new \in Requests /\ new.at = "ACTIVATE" /\ new.key = k /\ new.decision = q.decision
    BY <2>1, <2>4, <2>7 DEF Requests, Standing, Opened
  <2>9. reviewer' = [reviewer EXCEPT ![r] = new]
    BY <1>3, <2>1, <2>3, <2>4, <2>7 DEF Reserve, SetReviewer
  <2>10. reviewer'[r] = new
    BY <2>9, ReviewFacts
  <2>11. RequestOK(r)'
    BY <1>1, <2>1, <2>2, <2>8, <2>10 DEF RequestOK, KeyAt, Undecided, Opened, Done
  <2>12. reviewer[r].at \notin Undecided /\ new.key = KeyAt(r)
    BY <2>1, <2>2, <2>8 DEF Undecided
  <2> QED
    BY <1>1, <2>6, <2>8, <2>9, <2>11, <2>12, RequestOnly
<1> QED
  BY <1>2, <1>3

LEMMA FinalizeSafe ==
  ASSUME LineageInv, NEW r \in Reviewers, Finalize(r)
  PROVE  LineageInv'
<1>1. UNCHANGED <<aside, graph, package, pointer>>
  BY DEF Finalize, aside, rest, published, evidence
<1>2. PICK q \in Requests, k \in DOMAIN proposal, row \in Rows :
           /\ q = reviewer[r] /\ k = KeyAt(r) /\ k = q.key /\ k \in Keys /\ row = proposal[k]
           /\ row.activated <= Len(graph)
           /\ q.at \notin Undecided \cup {"EVIDENCE"} => k.origin \in Commands /\ row.approval
           /\ q.at \in Done => row.state = "APPROVED" /\ row.activated # 0
           /\ q.at = "FINALIZE" => package[ArtifactOf(k.origin)] = [graph |-> row.activated, approved |-> k]
  <2>1. PICK now \in Requests, key \in DOMAIN proposal, old \in Rows : RequestFacts(r, now, key, old)
    BY RequestAt DEF Finalize
  <2> QED
    BY <2>1 DEF RequestFacts
<1>3. /\ q.at = "FINALIZE" /\ row.state = "APPROVED" /\ row.activated # 0 /\ k.origin \in Commands /\ row.approval
      /\ package[ArtifactOf(k.origin)] = [graph |-> row.activated, approved |-> k]
  BY <1>2 DEF Finalize, Done, Undecided
<1>4. PICK lock \in Nat : lock = row.lock + 1
  BY <1>2 DEF Rows
<1>5. PICK to : to = [row EXCEPT !.state = "FINALIZED", !.lock = lock]
  OBVIOUS
<1>6. to \in Rows /\ to.state = "FINALIZED" /\ to.activated = row.activated /\ to.approval = row.approval
  BY <1>2, <1>4, <1>5 DEF Rows, States
<1>7. Set(k, to)
  BY <1>2, <1>4, <1>5 DEF Finalize
<1>8. PICK new : new = [q EXCEPT !.at = "PUBLISHED"]
  OBVIOUS
<1>9. new \in Requests /\ new.at = "PUBLISHED" /\ new.key = k
  BY <1>2, <1>8 DEF Requests, Standing
<1>10. reviewer' = [reviewer EXCEPT ![r] = new]
  BY <1>2, <1>8, ReviewFacts DEF Finalize, GoTo
<1>11. reviewer'[r] = new
  BY <1>10, ReviewFacts
<1>12. proposal'[k] = to /\ k \in DOMAIN proposal'
  BY <1>6, <1>7, SetRow
<1>13. RequestOK(r)'
  BY <1>3, <1>6, <1>9, <1>11, <1>12 DEF RequestOK, KeyAt, Undecided, Opened, Done
<1>14. reviewer[r].at \notin Undecided /\ proposal[k].state # "SUPERSEDED" /\ (new.at \notin Undecided => new.key = k)
  BY <1>2, <1>3, <1>9 DEF Undecided
<1>15. /\ to.activated <= Len(graph) /\ to.state \in {"APPROVED", "FINALIZED"}
       /\ to.approval /\ to.activated # 0
       /\ package[ArtifactOf(k.origin)] = [graph |-> to.activated, approved |-> k]
  BY <1>2, <1>3, <1>6
<1> QED
  BY <1>1, <1>2, <1>6, <1>7, <1>9, <1>10, <1>13, <1>14, <1>15, RowStep

LEMMA RequestEnds ==
  ASSUME LineageInv, NEW r \in Reviewers, MarkPublished(r) \/ ReviewStops(r)
  PROVE  LineageInv'
<1>1. UNCHANGED <<aside, graph, proposal, package, pointer>> /\ Abort(r)
  BY DEF MarkPublished, ReviewStops, aside, rest, published, evidence
<1> QED
  BY <1>1, AbortStep

\* A package that is registered is of the graph that was activated, and stays.
LEMMA RegisterPackageSafe ==
  ASSUME LineageInv, NEW r \in Reviewers, RegisterPackage(r)
  PROVE  LineageInv'
<1>1. UNCHANGED <<aside, graph, proposal, pointer>>
  BY DEF RegisterPackage, aside, rest, evidence
<1>2. CASE ~PackageFits(r)
  BY <1>1, <1>2, AbortStep DEF RegisterPackage
<1>3. CASE PackageFits(r)
  <2>1. PICK q \in Requests, k \in DOMAIN proposal, row \in Rows :
           /\ q = reviewer[r] /\ k = KeyAt(r) /\ k = q.key /\ k \in Keys /\ row = proposal[k]
           /\ q.at \notin Undecided \cup {"EVIDENCE"} => k.origin \in Commands /\ row.approval
           /\ q.at \in Done => row.state = "APPROVED" /\ row.activated # 0
    <3>1. PICK now \in Requests, key \in DOMAIN proposal, old \in Rows : RequestFacts(r, now, key, old)
      BY RequestAt DEF RegisterPackage
    <3> QED
      BY <3>1 DEF RequestFacts
  <2>2. /\ q.at = "REGISTER" /\ row.state = "APPROVED" /\ row.activated # 0 /\ row.activated \in Nat
        /\ k.origin \in Commands /\ row.approval
    BY <2>1 DEF RegisterPackage, Done, Undecided, Rows
  <2>3. PICK a \in Artifacts : a = ArtifactOf(k.origin)
    BY <2>2, InputAssumption DEF LineageInv, TablesTyped, ArtifactOf
  <2>4. PICK bound : bound = [graph |-> row.activated, approved |-> k]
    OBVIOUS
  <2>5. bound = PackageOf(r) /\ bound \in Packages
    BY <2>1, <2>2, <2>4 DEF PackageOf, Packages
  <2>6. package \in [Artifacts -> Packages] /\ package[a] \in {NoPackage, bound}
    BY <1>3, <2>1, <2>3, <2>5 DEF PackageFits, LineageInv, TablesTyped
  <2>7. package' = [package EXCEPT ![a] = bound]
    <3>1. package' = [package EXCEPT ![a] = IF package[a] = NoPackage THEN bound ELSE package[a]]
      BY <1>3, <2>1, <2>3, <2>5, <2>6 DEF RegisterPackage
    <3> QED
      BY <2>6, <3>1
  <2>8. package' \in [Artifacts -> Packages] /\ package'[a] = bound
          /\ \A b \in Artifacts : b # a => package'[b] = package[b]
    BY <2>5, <2>6, <2>7
  <2>9. ASSUME NEW b \in Artifacts, package[b] # NoPackage
        PROVE  package'[b] = package[b]
    BY <2>6, <2>8, <2>9
  <2>10. PICK new : new = [q EXCEPT !.at = "FINALIZE"]
    OBVIOUS
  <2>11. new \in Requests /\ new.at = "FINALIZE" /\ new.key = k
    BY <2>1, <2>10 DEF Requests, Standing, Done
  <2>12. reviewer' = [reviewer EXCEPT ![r] = new]
    BY <1>3, <2>1, <2>10, ReviewFacts DEF RegisterPackage, GoTo
  <2>13. reviewer'[r] = new /\ reviewer' \in [Reviewers -> Requests]
    BY <2>11, <2>12, ReviewFacts
  <2>14. RequestOK(r)'
    <3>1. PackageOf(r)' = bound
      BY <1>1, <2>1, <2>4, <2>11, <2>13 DEF PackageOf, KeyAt
    <3>2. package'[ArtifactOf(k.origin)'] = bound
      BY <1>1, <2>3, <2>8 DEF ArtifactOf, aside
    <3>3. KeyAt(r)' = k
      BY <2>11, <2>13 DEF KeyAt
    <3> QED
      BY <1>1, <2>1, <2>2, <2>11, <2>13, <3>1, <3>2, <3>3 DEF RequestOK, ArtifactOf, Undecided, Opened, Done
  <2>15. NoPackage.graph = 0
    BY DEF NoPackage
  <2>16. \A s \in Reviewers : s # r /\ reviewer[s].at = "FINALIZE" =>
           package'[ArtifactOf(KeyAt(s).origin)] = package[ArtifactOf(KeyAt(s).origin)]
    <3>1. ASSUME NEW s \in Reviewers, reviewer[s].at = "FINALIZE"
          PROVE  package'[ArtifactOf(KeyAt(s).origin)] = package[ArtifactOf(KeyAt(s).origin)]
      <4>1. PICK now \in Requests, key \in DOMAIN proposal, old \in Rows : RequestFacts(s, now, key, old)
        BY <3>1, RequestAt
      <4>2. /\ key = KeyAt(s) /\ key.origin \in Commands /\ old.activated # 0
            /\ package[ArtifactOf(key.origin)] = [graph |-> old.activated, approved |-> key]
        BY <3>1, <4>1 DEF RequestFacts, Done, Undecided
      <4>3. PICK b \in Artifacts : b = ArtifactOf(key.origin)
        BY <4>2, InputAssumption DEF LineageInv, TablesTyped, ArtifactOf
      <4>4. package[b] # NoPackage
        BY <2>15, <4>2, <4>3
      <4> QED
        BY <2>9, <4>2, <4>3, <4>4
    <3> QED
      BY <3>1
  <2>17. RequestsOK'
    <3>1. \A s \in Reviewers : s # r /\ KeyAt(s) = k => reviewer[s].at \in Undecided
      <4>1. ASSUME NEW s \in Reviewers, s # r, KeyAt(s) = k
            PROVE  reviewer[s].at \in Undecided
        BY <2>1, <2>2, <4>1, OthersUndecided DEF Undecided
      <4> QED
        BY <4>1
    <3>2. input' = input /\ DOMAIN proposal \subseteq DOMAIN proposal'
      BY <1>1 DEF aside
    <3>3. \A p \in DOMAIN proposal : p # k =>
           /\ proposal'[p].state = proposal[p].state /\ proposal'[p].approval = proposal[p].approval
           /\ proposal'[p].activated = proposal[p].activated
      BY <1>1
    <3>4. new.at \notin Undecided => new.key = k
      BY <2>11
    <3> QED
      BY <2>11, <2>12, <2>14, <2>16, <3>1, <3>2, <3>3, <3>4, RequestsStep, ZenonT(30)
  <2>18. FinalizedIsServed'
    <3>1. ASSUME NEW p \in DOMAIN proposal
          PROVE  /\ proposal[p].state = "FINALIZED" =>
                      /\ proposal[p].approval /\ proposal[p].activated # 0
                      /\ package'[ArtifactOf(p.origin)] = [graph |-> proposal[p].activated, approved |-> p]
                 /\ proposal[p].activated # 0 => proposal[p].state \in {"APPROVED", "FINALIZED"}
      <4>1. /\ proposal[p].state = "FINALIZED" =>
                 /\ proposal[p].approval /\ proposal[p].activated # 0
                 /\ package[ArtifactOf(p.origin)] = [graph |-> proposal[p].activated, approved |-> p]
            /\ proposal[p].activated # 0 => proposal[p].state \in {"APPROVED", "FINALIZED"}
        BY DEF LineageInv, FinalizedIsServed
      <4>2. CASE proposal[p].state = "FINALIZED"
        <5>1. package[ArtifactOf(p.origin)] # NoPackage
          BY <2>15, <4>1, <4>2
        <5>2. CASE ArtifactOf(p.origin) \in Artifacts
          BY <2>9, <4>1, <4>2, <5>1, <5>2
        <5>3. CASE ArtifactOf(p.origin) \notin Artifacts
          BY <2>3, <2>6, <2>7, <4>1, <4>2, <5>3
        <5> QED
          BY <5>2, <5>3
      <4> QED
        BY <4>1, <4>2
    <3> QED
      BY <1>1, <3>1 DEF FinalizedIsServed, ArtifactOf, aside
  <2>19. /\ pointer' \in [active : Nat, token : Nat] /\ pointer'.active = pointer.active
         /\ ProposalsTyped'
    BY <1>1 DEF LineageInv, TablesTyped, ProposalsTyped
  <2>20. ProposalsOK'
    <3>1. Grows /\ RecordedGrows
      BY <1>1, NothingElse DEF aside, LineageInv, ProcessesTyped, RecordedGrows
    <3> QED
      BY <1>1, <3>1, ProposalsKept
  <2> QED
    BY <1>1, <2>8, <2>13, <2>17, <2>18, <2>19, <2>20, ReviewStepKeeps
<1> QED
  BY <1>2, <1>3

\* The successor of a version that is open is new, and is the last.
LEMMA CorrectSafe ==
  ASSUME LineageInv, NEW r \in Reviewers, Correct(r)
  PROVE  LineageInv'
<1>1. UNCHANGED <<aside, graph, package, pointer>>
  BY DEF Correct, aside, rest, published, evidence
<1>2. CASE ~StillOpen(r)
  BY <1>1, <1>2, AbortStep DEF Correct
<1>3. CASE StillOpen(r)
  <2>1. PICK q \in Requests, k \in DOMAIN proposal, row \in Rows :
           /\ q = reviewer[r] /\ k = KeyAt(r) /\ k = q.key /\ k \in Keys /\ row = proposal[k]
           /\ row.activated <= Len(graph) /\ KeyOK(k)
           /\ row.activated # 0 => row.state \in {"APPROVED", "FINALIZED"}
    <3>1. PICK now \in Requests, key \in DOMAIN proposal, old \in Rows : RequestFacts(r, now, key, old)
      BY RequestAt DEF Correct
    <3> QED
      BY <3>1 DEF RequestFacts
  <2>2. q.at = "DECIDE" /\ q.decision = "SUPERSEDED" /\ row.state = "IN_REVIEW"
    BY <1>3, <2>1 DEF Correct, StillOpen
  <2>3. row.activated = 0
    BY <2>1, <2>2
  <2>4. PICK edges \in input.corrections :
          /\ proposal' = With(With(proposal, k, Decided(r)), Successor(r, edges), NewProposal)
          /\ Abort(r)
    BY <1>3, <2>1 DEF Correct
  <2>5. k.first \in EdgeMaps /\ k.version \in Nat \ {0} /\ k.base \in Nat
    BY <2>1 DEF Keys
  <2>7. edges \in Maps
    <3>1. DOMAIN edges \in SUBSET Edges /\ edges \in [DOMAIN edges -> SUBSET Assertions]
      BY <2>4, InputAssumption DEF LineageInv, TablesTyped
    <3> QED
      BY <3>1, MapIntro
  <2>6. PICK v \in Nat \ {0} : v = k.version
    BY <2>5
  <2>8. PICK n \in Nat \ {0} : n = k.version + 1 /\ n # 1 /\ k.version < n
    <3>1. v + 1 \in Nat \ {0} /\ v + 1 # 1 /\ v < v + 1
      OBVIOUS
    <3> QED
      BY <2>6, <3>1
  <2>9. PICK successor : successor = [k EXCEPT !.version = n, !.edges = edges]
    OBVIOUS
  <2>10. /\ successor \in Keys /\ successor.origin = k.origin /\ successor.first = k.first
         /\ successor.base = k.base /\ successor.version = n /\ successor.edges = edges
    BY <2>1, <2>7, <2>8, <2>9 DEF Keys
  <2>11. PICK lock \in Nat : lock = row.lock + 1
    BY <2>1 DEF Rows
  <2>12. PICK to : to = [row EXCEPT !.state = "SUPERSEDED", !.lock = lock]
    OBVIOUS
  <2>13. to \in Rows /\ to.state = "SUPERSEDED" /\ to.activated = 0
    BY <2>1, <2>3, <2>11, <2>12 DEF Rows, States, Decisions
  <2>14. to = Decided(r)
    BY <2>1, <2>2, <2>11, <2>12 DEF Decided
  <2>15. PICK f : f = With(proposal, k, to)
    OBVIOUS
  <2>16. proposal' = With(f, successor, NewProposal)
    BY <2>1, <2>4, <2>8, <2>9, <2>14, <2>15 DEF Successor
  <2>17. DOMAIN f = DOMAIN proposal /\ f[k] = to /\ \A p \in DOMAIN proposal : p # k => f[p] = proposal[p]
    BY <2>15 DEF With
  <2>18. /\ DOMAIN proposal' = DOMAIN proposal \cup {successor}
         /\ proposal'[successor] = NewProposal
         /\ \A p \in DOMAIN proposal : p # successor => proposal'[p] = f[p]
         /\ proposal' = [p \in DOMAIN proposal' |-> proposal'[p]]
    BY <2>16, <2>17 DEF With
  <2>19. ProposalsTyped /\ VersionsOK
    BY DEF LineageInv, TablesTyped, ProposalsTyped, ProposalsOK
  <2>20. SameProposal(k, successor)
    BY <2>10 DEF SameProposal
  <2>21. ASSUME NEW p \in DOMAIN proposal, SameProposal(k, p)
         PROVE  /\ p.version \in Nat /\ ~(k.version < p.version)
                /\ p.version = k.version => p = k
                /\ p.version < k.version => proposal[p].state = "SUPERSEDED"
    <3>1. p.version \in Nat
      BY <2>19 DEF ProposalsTyped, Keys
    <3>2. SameProposal(p, k)
      BY <2>21 DEF SameProposal
    <3> QED
      BY <2>1, <2>2, <2>19, <2>21, <3>1, <3>2 DEF VersionsOK
  <2>22. successor \notin DOMAIN proposal
    BY <2>8, <2>10, <2>20, <2>21
  <2>23. proposal'[k] = to /\ \A p \in DOMAIN proposal : p # k => proposal'[p] = proposal[p]
    BY <2>17, <2>18, <2>22
  <2>24. ProposalsTyped'
    <3>1. DOMAIN proposal' \subseteq Keys
      BY <2>10, <2>18, <2>19 DEF ProposalsTyped
    <3>2. \A p \in DOMAIN proposal' : proposal'[p] \in Rows
      BY <2>13, <2>18, <2>19, <2>23, NewProposalType DEF ProposalsTyped
    <3> QED
      BY <2>18, <3>1, <3>2 DEF ProposalsTyped
  <2>25. Grows /\ RecordedGrows
    BY <1>1, <2>18, NothingElse DEF aside, LineageInv, ProcessesTyped, RecordedGrows
  <2>26. \A p \in DOMAIN proposal : KeyOK(p)'
    <3>1. ASSUME NEW p \in DOMAIN proposal
          PROVE  KeyOK(p)'
      BY <2>18, <2>25, KeyKept
    <3> QED
      BY <3>1
  <2>27. KeyOK(successor)'
    <3>1. successor.base <= Len(graph')
      BY <1>1, <2>1, <2>10 DEF KeyOK
    <3>2. \A y \in DOMAIN successor.first : successor.first[y] \subseteq ledger'[y]
      BY <1>1, <2>1, <2>10 DEF KeyOK, InLedger, aside
    <3>3. FirstOf(successor) \in DOMAIN proposal'
      BY <2>1, <2>10, <2>18 DEF FirstOf, KeyOK
    <3>4. successor.version # 1
      BY <2>8, <2>10
    <3>5. OfRun(successor)' <=> OfRun(k)
      BY <1>1, <2>10 DEF OfRun, Pinned, Kind, aside
    <3>6. OfRun(k) =>
            /\ KeepsBase(k.first, k.base) /\ Len(recorded[k.origin]) >= 8
            /\ k.first = recorded[k.origin][8].edges /\ k.base = recorded[k.origin][8].base
      BY <2>1 DEF KeyOK
    <3>7. KeepsBase(k.first, k.base) => KeepsBase(successor.first, successor.base)'
      BY <1>1, <2>10, <2>25 DEF KeepsBase, Grows
    <3>8. OfRun(k) =>
            /\ KeepsBase(successor.first, successor.base)' /\ Len(recorded'[successor.origin]) >= 8
            /\ successor.first = recorded'[successor.origin][8].edges
            /\ successor.base = recorded'[successor.origin][8].base
      BY <1>1, <2>10, <3>6, <3>7 DEF aside
    <3> HIDE DEF OfRun, KeepsBase, FirstOf
    <3> QED
      BY <3>1, <3>2, <3>3, <3>4, <3>5, <3>8 DEF KeyOK, InLedger
  <2>28. ASSUME NEW p \in DOMAIN proposal', NEW x \in DOMAIN proposal', SameProposal(p, x)
         PROVE  /\ p.version = x.version => p = x
                /\ p.version < x.version => proposal'[p].state = "SUPERSEDED"
    <3>1. CASE p \in DOMAIN proposal /\ x \in DOMAIN proposal
      BY <2>13, <2>19, <2>23, <2>28, <3>1 DEF VersionsOK
    <3>2. CASE p = successor /\ x = successor
      BY <2>8, <2>10, <3>2
    <3>3. CASE p = successor /\ x \in DOMAIN proposal
      <4>1. SameProposal(k, x)
        BY <2>10, <2>28, <3>3 DEF SameProposal
      <4>2. x.version \in Nat /\ ~(k.version < x.version)
        BY <2>21, <3>3, <4>1
      <4> QED
        BY <2>5, <2>8, <2>10, <3>3, <4>2
    <3>4. CASE x = successor /\ p \in DOMAIN proposal
      <4>1. SameProposal(k, p)
        BY <2>10, <2>28, <3>4 DEF SameProposal
      <4>2. /\ p.version \in Nat /\ ~(k.version < p.version)
            /\ p.version = k.version => p = k
            /\ p.version < k.version => proposal[p].state = "SUPERSEDED"
        BY <2>21, <3>4, <4>1
      <4>3. p.version # n
        BY <2>5, <2>8, <4>2
      <4>4. proposal'[p].state = "SUPERSEDED"
        BY <2>5, <2>13, <2>23, <3>4, <4>2
      <4> QED
        BY <2>10, <3>4, <4>3, <4>4
    <3> QED
      BY <2>18, <3>1, <3>2, <3>3, <3>4
  <2>29. VersionsOK'
    BY <2>28 DEF VersionsOK, SameProposal
  <2>30. Len(graph') \in Nat
    BY <2>25 DEF Grows
  <2>31. \A p \in DOMAIN proposal' : proposal'[p].activated <= Len(graph')
    <3>1. \A p \in DOMAIN proposal : p # k => proposal'[p].activated <= Len(graph')
      BY <1>1, <2>23 DEF LineageInv, ProposalsOK
    <3>2. proposal'[k].activated <= Len(graph')
      BY <2>13, <2>23, <2>30
    <3>3. proposal'[successor].activated <= Len(graph')
      BY <2>18, <2>30, NewProposalType
    <3> QED
      BY <2>18, <3>1, <3>2, <3>3
  <2>32. ProposalsOK'
    BY <2>18, <2>26, <2>27, <2>29, <2>31 DEF ProposalsOK
  <2>33. PICK new \in Requests : new = NotReviewing /\ new.at \in Undecided /\ new.at = "IDLE"
    BY NotReviewingType
  <2>34. reviewer' = [reviewer EXCEPT ![r] = new]
    BY <2>4, <2>33 DEF Abort, SetReviewer
  <2>35. reviewer'[r].at = "IDLE" /\ reviewer' \in [Reviewers -> Requests]
    BY <2>33, <2>34, ReviewFacts
  <2>36. RequestsOK'
    <3>1. \A s \in Reviewers : s # r /\ KeyAt(s) = k => reviewer[s].at \in Undecided
      <4>1. ASSUME NEW s \in Reviewers, s # r, KeyAt(s) = k
            PROVE  reviewer[s].at \in Undecided
        BY <2>1, <2>2, <4>1, OthersUndecided
      <4> QED
        BY <4>1
    <3>2. input' = input /\ DOMAIN proposal \subseteq DOMAIN proposal'
      BY <1>1, <2>18 DEF aside
    <3>3. \A p \in DOMAIN proposal : p # k =>
           /\ proposal'[p].state = proposal[p].state /\ proposal'[p].approval = proposal[p].approval
           /\ proposal'[p].activated = proposal[p].activated
      BY <2>23
    <3>4. \A s \in Reviewers : s # r /\ reviewer[s].at = "FINALIZE" =>
           package'[ArtifactOf(KeyAt(s).origin)] = package[ArtifactOf(KeyAt(s).origin)]
      BY <1>1
    <3>5. new.at \notin Undecided => new.key = k
      BY <2>33
    <3>6. RequestOK(r)'
      BY <2>35, IdleRequest
    <3> QED
      BY <2>33, <2>34, <3>1, <3>2, <3>3, <3>4, <3>5, <3>6, RequestsStep
  <2>37. FinalizedIsServed'
    <3>1. ASSUME NEW p \in DOMAIN proposal'
          PROVE  /\ proposal'[p].state = "FINALIZED" =>
                      /\ proposal'[p].approval /\ proposal'[p].activated # 0
                      /\ package[ArtifactOf(p.origin)] = [graph |-> proposal'[p].activated, approved |-> p]
                 /\ proposal'[p].activated # 0 => proposal'[p].state \in {"APPROVED", "FINALIZED"}
      <4>1. CASE p = k
        BY <2>13, <2>23, <4>1
      <4>2. CASE p = successor
        BY <2>18, <4>2, NewProposalType
      <4>3. CASE p \in DOMAIN proposal /\ p # k
        BY <2>23, <4>3 DEF LineageInv, FinalizedIsServed
      <4> QED
        BY <2>18, <4>1, <4>2, <4>3
    <3> QED
      BY <1>1, <3>1 DEF FinalizedIsServed, ArtifactOf, aside
  <2>38. /\ pointer' \in [active : Nat, token : Nat] /\ pointer'.active = pointer.active
         /\ package' \in [Artifacts -> Packages]
    BY <1>1 DEF LineageInv, TablesTyped
  <2> QED
    BY <1>1, <2>18, <2>24, <2>32, <2>35, <2>36, <2>37, <2>38, ReviewStepKeeps
<1> QED
  BY <1>2, <1>3

-----------------------------------------------------------------------------
(* The activation.                                                          *)

\* A row of a proposal is one that a reviewer wrote, or one of the ledger.
LEMMA ProposedRow ==
  ASSUME LineageInv, NEW k \in DOMAIN proposal, NEW e \in DOMAIN k.edges, NEW row, row = k.edges[e]
  PROVE  /\ e \in Edges /\ row \in SUBSET Assertions /\ Rests(e, row)
         /\ Rewrites(k, e) \/ (e \in DOMAIN k.first /\ k.first[e] = row)
<1>1. k \in Keys /\ KeyOK(k)
  BY DEF LineageInv, TablesTyped, ProposalsOK
<1>2. k.edges \in Maps /\ k.first \in EdgeMaps
  BY <1>1 DEF Keys
<1>3. e \in Edges /\ row \in SUBSET Assertions
  BY <1>2, MapFacts
<1>4. CASE Rewrites(k, e)
  <2>1. ByReview(e, row)
    BY <1>4 DEF ByReview
  <2> QED
    BY <1>3, <1>4, <2>1 DEF Rests, Reviewed
<1>5. CASE ~Rewrites(k, e)
  <2>1. e \in DOMAIN k.first /\ k.first[e] = row
    BY <1>5 DEF Rewrites
  <2>2. row \in Evidence
    BY <1>2, <2>1, EdgeMapFacts
  <2>3. row \subseteq ledger[e]
    BY <1>1, <2>1 DEF KeyOK, InLedger
  <2> QED
    BY <1>3, <2>1, <2>2, <2>3 DEF Rests
<1> QED
  BY <1>4, <1>5

\* What the graph is that a request activates.
LEMMA ProjectedFacts ==
  ASSUME LineageInv, NEW b \in 1 .. Len(graph), NEW k \in DOMAIN proposal, k.base = b,
         NEW r, KeyAt(r) = k, NEW g, g = Projected(r)
  PROVE  /\ g \in Maps /\ \A e \in DOMAIN g : Rests(e, g[e])
         /\ \A e \in DOMAIN graph[b] : e \in DOMAIN g
         /\ \A e \in DOMAIN graph[b] : e \in DOMAIN k.edges => g[e] = k.edges[e]
         /\ \A e \in DOMAIN graph[b] : e \notin DOMAIN k.edges => g[e] = graph[b][e]
<1>1. PICK base \in Maps : base = graph[b] /\ \A e \in DOMAIN base : Rests(e, base[e])
  BY DEF LineageInv, TablesTyped, GraphsOK
<1>2. PICK edges \in Maps : edges = k.edges /\ \A e \in DOMAIN edges : Rests(e, edges[e])
  <2>1. k.edges \in Maps
    BY DEF LineageInv, TablesTyped, Keys
  <2>2. PICK edges \in Maps : edges = k.edges
    BY <2>1
  <2>3. ASSUME NEW e \in DOMAIN edges
        PROVE  Rests(e, edges[e])
    <3>1. PICK row : row = edges[e]
      OBVIOUS
    <3>2. Rests(e, row)
      BY <2>2, <3>1, ProposedRow
    <3> QED
      BY <3>1, <3>2
  <2> QED
    BY <2>2, <2>3
<1>3. DOMAIN base \subseteq Edges /\ DOMAIN edges \subseteq Edges
  BY MapFacts
<1>4. PICK D \in SUBSET Edges : D = DOMAIN base \cup DOMAIN edges
  BY <1>3
<1>5. g = [e \in D |-> IF e \in DOMAIN edges THEN edges[e] ELSE base[e]]
  BY <1>1, <1>2, <1>4 DEF Projected
<1>6. \A e \in D : g[e] \in SUBSET Assertions /\ Rests(e, g[e])
  <2>1. ASSUME NEW e \in D
        PROVE  g[e] \in SUBSET Assertions /\ Rests(e, g[e])
    <3>1. CASE e \in DOMAIN edges
      <4>1. g[e] = edges[e]
        BY <1>5, <3>1
      <4> QED
        BY <1>2, <3>1, <4>1, MapFacts
    <3>2. CASE e \notin DOMAIN edges
      <4>1. g[e] = base[e] /\ e \in DOMAIN base
        BY <1>4, <1>5, <3>2
      <4> QED
        BY <1>1, <4>1, MapFacts
    <3> QED
      BY <3>1, <3>2
  <2> QED
    BY <2>1
<1>7. g \in [D -> SUBSET Assertions] /\ DOMAIN g = D
  BY <1>5, <1>6
<1>8. g \in Maps
  BY <1>7, MapIntro
<1> QED
  BY <1>1, <1>2, <1>4, <1>5, <1>6, <1>7, <1>8

\* An activation that takes place, and what it makes of its version.
Activates(r, q, k, row, to) ==
  /\ q = reviewer[r] /\ k = KeyAt(r) /\ k = q.key /\ row = proposal[k]
  /\ KeyOK(k) /\ k.origin \in Commands /\ row.approval /\ row.state = "APPROVED"
  /\ q.at = "ACTIVATE"
  /\ pointer.active = k.base /\ k.base \in 1 .. Len(graph)
  /\ to \in Rows /\ to.state = "APPROVED" /\ to.approval /\ to.activated = Len(graph) + 1
  /\ graph' = Append(graph, Projected(r))
  /\ pointer' = [pointer EXCEPT !.active = Len(graph) + 1]
  /\ Set(k, to) /\ GoTo(r, "REGISTER")

LEMMA ActivateFacts ==
  ASSUME LineageInv, NEW r \in Reviewers, Activate(r)
  PROVE  \/ UNCHANGED <<graph, pointer, proposal>> /\ Abort(r)
         \/ \E q \in Requests, k \in DOMAIN proposal, row \in Rows, to \in Rows : Activates(r, q, k, row, to)
<1>1. CASE ~(pointer.token = reviewer[r].token /\ OnItsBase(r))
  BY <1>1 DEF Activate
<1>2. CASE pointer.token = reviewer[r].token /\ OnItsBase(r)
  <2>1. PICK q \in Requests, k \in DOMAIN proposal, row \in Rows :
           /\ q = reviewer[r] /\ k = KeyAt(r) /\ k = q.key /\ k \in Keys /\ row = proposal[k]
           /\ KeyOK(k)
           /\ q.at \in Opened => row.state = q.decision /\ row.activated = 0
           /\ q.at \notin Undecided \cup {"EVIDENCE"} => k.origin \in Commands /\ row.approval
           /\ q.at \in {"RESERVE", "ACTIVATE"} => q.decision = "APPROVED"
    <3>1. PICK now \in Requests, key \in DOMAIN proposal, old \in Rows : RequestFacts(r, now, key, old)
      BY RequestAt DEF Activate
    <3> QED
      BY <3>1 DEF RequestFacts
  <2>2. q.at = "ACTIVATE" /\ row.state = "APPROVED" /\ k.origin \in Commands /\ row.approval
    BY <2>1 DEF Activate, Opened, Undecided
  <2>3. pointer.active = k.base /\ k.base \in 1 .. Len(graph)
    BY <1>2, <2>1 DEF OnItsBase, LineageInv, TablesTyped
  <2>4. PICK n \in Nat : n = Len(graph) + 1
    BY DEF LineageInv, TablesTyped
  <2>5. PICK to : to = [row EXCEPT !.activated = n]
    OBVIOUS
  <2>6. to \in Rows /\ to.state = row.state /\ to.approval = row.approval /\ to.activated = n
    BY <2>1, <2>4, <2>5 DEF Rows
  <2>7. /\ graph' = Append(graph, Projected(r))
        /\ pointer' = [pointer EXCEPT !.active = Len(graph) + 1]
        /\ Set(k, to) /\ GoTo(r, "REGISTER")
    BY <1>2, <2>1, <2>4, <2>5 DEF Activate
  <2> QED
    BY <2>1, <2>2, <2>3, <2>4, <2>6, <2>7 DEF Activates
<1> QED
  BY <1>1, <1>2

LEMMA ActivateSafe ==
  ASSUME LineageInv, NEW r \in Reviewers, Activate(r)
  PROVE  LineageInv'
<1>1. UNCHANGED <<aside, package>>
  BY DEF Activate, aside, rest, evidence
<1>2. CASE UNCHANGED <<graph, pointer, proposal>> /\ Abort(r)
  BY <1>1, <1>2, AbortStep
<1>3. ASSUME NEW q \in Requests, NEW k \in DOMAIN proposal, NEW row \in Rows, NEW to \in Rows,
             Activates(r, q, k, row, to)
      PROVE  LineageInv'
  <2>1. PICK old \in Seq(Maps) : old = graph /\ Len(old) \in Nat
    BY DEF LineageInv, TablesTyped
  <2>2. k \in Keys
    BY DEF LineageInv, TablesTyped
  <2>3. PICK g : g = Projected(r)
    OBVIOUS
  <2>4. KeyAt(r) = k /\ k.base \in 1 .. Len(graph)
    BY <1>3 DEF Activates
  <2>5. g \in Maps /\ \A e \in DOMAIN g : Rests(e, g[e])
    BY <2>3, <2>4, ProjectedFacts
  <2>6. graph' = Append(old, g)
    BY <1>3, <2>1, <2>3 DEF Activates
  <2>7. /\ graph' \in Seq(Maps) /\ Len(graph') = Len(old) + 1 /\ graph'[Len(old) + 1] = g
        /\ \A b \in 1 .. Len(old) : graph'[b] = old[b]
    BY <2>1, <2>5, <2>6
  <2>8. Grows
    <3>1. DOMAIN proposal \subseteq DOMAIN proposal'
      BY <1>3 DEF Activates, Set, With
    <3> QED
      BY <1>1, <2>1, <2>7, <3>1, ReviewedGrows DEF Grows, aside
  <2>9. GraphsOK'
    <3>1. ASSUME NEW b \in 1 .. Len(graph'), NEW e \in DOMAIN graph'[b], NEW past, past = graph'[b][e]
          PROVE  Rests(e, past)'
      <4>1. Rests(e, past)
        <5>1. CASE b = Len(old) + 1
          BY <2>5, <2>7, <3>1, <5>1
        <5>2. CASE b # Len(old) + 1
          <6>1. b \in 1 .. Len(old)
            BY <2>1, <2>7, <5>2
          <6> QED
            BY <2>1, <2>7, <3>1, <6>1 DEF LineageInv, GraphsOK
        <5> QED
          BY <5>1, <5>2
      <4> QED
        BY <1>1, <2>8, <4>1 DEF Rests, Grows, aside
    <3> QED
      BY <3>1 DEF GraphsOK, Rests
  <2>10. RecordedGrows
    BY <1>1 DEF aside, LineageInv, ProcessesTyped, RecordedGrows
  <2>11. /\ ProposalsTyped' /\ DOMAIN proposal' = DOMAIN proposal /\ proposal'[k] = to
         /\ \A p \in DOMAIN proposal : p # k => proposal'[p] = proposal[p]
    BY <1>3, SetRow DEF Activates
  <2>12. to.state = "APPROVED" /\ to.approval /\ to.activated = Len(old) + 1
    BY <1>3, <2>1 DEF Activates
  <2>13. proposal[k].state = "APPROVED"
    BY <1>3 DEF Activates
  <2>14. ProposalsOK'
    <3>1. \A p \in DOMAIN proposal : KeyOK(p)'
      <4>1. ASSUME NEW p \in DOMAIN proposal
            PROVE  KeyOK(p)'
        BY <2>8, <2>10, <2>11, KeyKept
      <4> QED
        BY <4>1
    <3>2. VersionsOK'
      <4>1. \A p \in DOMAIN proposal : proposal[p].state = "SUPERSEDED" => proposal'[p].state = "SUPERSEDED"
        BY <2>11, <2>13
      <4> QED
        BY <2>11, <4>1 DEF LineageInv, ProposalsOK, VersionsOK, SameProposal
    <3>3. ASSUME NEW p \in DOMAIN proposal
          PROVE  proposal'[p].activated <= Len(graph')
      <4>1. CASE p = k
        BY <2>1, <2>7, <2>11, <2>12, <4>1
      <4>2. CASE p # k
        <5>1. proposal[p].activated \in Nat /\ proposal[p].activated <= Len(old)
          BY <2>1 DEF LineageInv, TablesTyped, Rows, ProposalsOK
        <5> QED
          BY <2>1, <2>7, <2>11, <4>2, <5>1
      <4> QED
        BY <4>1, <4>2
    <3> QED
      BY <2>11, <3>1, <3>2, <3>3 DEF ProposalsOK
  <2>15. PICK new : new = [q EXCEPT !.at = "REGISTER"]
    OBVIOUS
  <2>16. q = reviewer[r] /\ k = q.key /\ q.at = "ACTIVATE" /\ GoTo(r, "REGISTER") /\ k.origin \in Commands
    BY <1>3 DEF Activates
  <2>17. new \in Requests /\ new.at = "REGISTER" /\ new.key = k
    BY <2>15, <2>16 DEF Requests, Standing, Done
  <2>18. reviewer' = [reviewer EXCEPT ![r] = new]
    BY <2>15, <2>16, ReviewFacts DEF GoTo
  <2>19. reviewer'[r] = new /\ reviewer' \in [Reviewers -> Requests]
    BY <2>17, <2>18, ReviewFacts
  <2>20. to.activated # 0
    BY <2>1, <2>12
  <2>21. RequestOK(r)'
    BY <2>11, <2>12, <2>16, <2>17, <2>19, <2>20 DEF RequestOK, KeyAt, Undecided, Opened, Done
  <2>22. RequestsOK'
    <3>1. \A s \in Reviewers : s # r /\ KeyAt(s) = k => reviewer[s].at \in Undecided
      <4>1. ASSUME NEW s \in Reviewers, s # r, KeyAt(s) = k
            PROVE  reviewer[s].at \in Undecided
        BY <2>4, <2>16, <4>1, OthersUndecided DEF Undecided
      <4> QED
        BY <4>1
    <3>2. input' = input /\ DOMAIN proposal \subseteq DOMAIN proposal'
      BY <1>1, <2>11 DEF aside
    <3>3. \A p \in DOMAIN proposal : p # k =>
           /\ proposal'[p].state = proposal[p].state /\ proposal'[p].approval = proposal[p].approval
           /\ proposal'[p].activated = proposal[p].activated
      BY <2>11
    <3>4. \A s \in Reviewers : s # r /\ reviewer[s].at = "FINALIZE" =>
           package'[ArtifactOf(KeyAt(s).origin)] = package[ArtifactOf(KeyAt(s).origin)]
      BY <1>1
    <3>5. new.at \notin Undecided => new.key = k
      BY <2>17
    <3> QED
      BY <2>17, <2>18, <2>21, <3>1, <3>2, <3>3, <3>4, <3>5, RequestsStep, ZenonT(30)
  <2>23. FinalizedIsServed'
    <3>1. ASSUME NEW p \in DOMAIN proposal
          PROVE  /\ proposal'[p].state = "FINALIZED" =>
                      /\ proposal'[p].approval /\ proposal'[p].activated # 0
                      /\ package[ArtifactOf(p.origin)] = [graph |-> proposal'[p].activated, approved |-> p]
                 /\ proposal'[p].activated # 0 => proposal'[p].state \in {"APPROVED", "FINALIZED"}
      <4>1. CASE p = k
        BY <2>11, <2>12, <4>1
      <4>2. CASE p # k
        BY <2>11, <4>2 DEF LineageInv, FinalizedIsServed
      <4> QED
        BY <4>1, <4>2
    <3> QED
      BY <1>1, <2>11, <3>1 DEF FinalizedIsServed, ArtifactOf, aside
  <2>24. pointer' \in [active : Nat, token : Nat] /\ pointer'.active = Len(old) + 1
    BY <1>3, <2>1 DEF Activates, LineageInv, TablesTyped
  <2>25. pointer'.active \in DOMAIN graph'
    BY <2>1, <2>7, <2>24
  <2>26. TablesTyped' /\ ProcessesTyped'
    BY <1>1, <2>7, <2>11, <2>19, <2>24, <2>25 DEF LineageInv, TablesTyped, ProcessesTyped, ProposalsTyped, aside
  <2>27. (\A x \in Commands : CommandOK(x)') /\ ReconcilerOK'
    BY <1>1, <2>8, AllCommandsKept, ReconcilerKept DEF aside
  <2> QED
    BY <2>9, <2>14, <2>22, <2>23, <2>26, <2>27 DEF LineageInv
<1> QED
  BY <1>2, <1>3, ActivateFacts

-----------------------------------------------------------------------------
(* The theorems.                                                            *)

LEMMA InitSafe ==
  ASSUME Init
  PROVE  LineageInv
<1>1. NoEdges \in EdgeMaps /\ DOMAIN NoEdges = {} /\ NoDocument \in Documents
  BY NoEdgesType, NoDocumentType
<1>2. {} \in Evidence
  BY DEF Evidence
<1>3. graph \in Seq(Maps) /\ Len(graph) = 1 /\ DOMAIN graph = {1} /\ graph[1] = NoEdges
  BY <1>1, MapFacts DEF Init
<1>4. TablesTyped
  <2>1. ledger \in [Edges -> Evidence]
    BY <1>2 DEF Init
  <2>2. DOMAIN proposal = {} /\ proposal \in [DOMAIN proposal -> Rows]
    BY <1>1 DEF Init, NoEdges
  <2>3. pointer \in [active : Nat, token : Nat] /\ pointer.active \in DOMAIN graph
    BY <1>3 DEF Init
  <2>4. package \in [Artifacts -> Packages]
    BY DEF Init, NoPackage, Packages
  <2> QED
    BY <1>3, <2>1, <2>2, <2>3, <2>4 DEF TablesTyped, Init
<1>5. ProcessesTyped
  <2>1. task \in [Commands -> Tasks]
    BY <1>1 DEF Init, Tasks, Places, Statuses
  <2>2. artifact \in [Commands -> Seq(Documents \cup {Torn})] /\ recorded \in [Commands -> Seq(Documents)]
    BY DEF Init
  <2>3. reviewer \in [Reviewers -> Requests]
    BY NotReviewingType DEF Init
  <2>4. reconciler \in Reconciliations
    BY <1>3, NotReconcilingType DEF Init
  <2> QED
    BY <2>1, <2>2, <2>3, <2>4 DEF ProcessesTyped
<1>6. ASSUME NEW c \in Commands
      PROVE  CommandOK(c)
  <2>1. task[c].at = "IDLE" /\ task[c].document = NoDocument /\ recorded[c] = << >> /\ artifact[c] = << >>
    BY DEF Init
  <2>2. DocumentOK(c, NoDocument)
    BY <1>3, NoDocumentOK
  <2> QED
    BY <2>1, <2>2 DEF CommandOK, StoredOK, MergingOK, LegacyPlaces
<1>7. GraphsOK
  BY <1>1, <1>3 DEF GraphsOK, InLedger
<1>8. DOMAIN proposal = {}
  BY <1>1 DEF Init
<1>9. ProposalsOK /\ FinalizedIsServed
  BY <1>8 DEF ProposalsOK, VersionsOK, FinalizedIsServed
<1>10. RequestsOK
  <2>1. \A r \in Reviewers : reviewer[r].at = "IDLE"
    BY NotReviewingType DEF Init
  <2> QED
    BY <2>1 DEF RequestsOK, OneDecides, RequestOK, Undecided, Opened, Done
<1>11. ReconcilerOK
  BY <1>3, NotReconcilingType DEF Init, ReconcilerOK, InLedger
<1> QED
  BY <1>4, <1>5, <1>6, <1>7, <1>9, <1>10, <1>11 DEF LineageInv

LEMMA WorkerSafe ==
  ASSUME LineageInv, NEW c \in Commands, WorkerStep(c) \/ Crash(c)
  PROVE  LineageInv'
<1>1. CASE Begin(c) \/ PutManifest(c) \/ RecordStage(c) \/ Complete(c) \/ Crash(c)
  BY <1>1, BeginSafe, PutManifestSafe, RecordStageSafe, CompleteSafe, CrashSafe
<1>2. CASE Start(c) \/ ChangedScope(c) \/ Derive(c) \/ JoinSessions(c)
  BY <1>2, StartSafe, DeriveSafe, JoinSessionsSafe
<1>3. CASE StartMerge(c) \/ MergeNext(c) \/ EndMerge(c) \/ Recheck(c)
  BY <1>3, StartMergeSafe, MergeNextSafe, EndMergeSafe, RecheckSafe
<1>4. CASE Propose(c) \/ KeepProposal(c) \/ EnterReview(c) \/ NoLineage(c)
  BY <1>4, ProposeSafe, KeepProposalSafe, EndMergeSafe, RecheckSafe
<1>5. CASE InsertRun(c) \/ AnalyseLegacy(c) \/ ReadPointer(c) \/ ProposeLegacy(c) \/ EnterReviewLegacy(c)
  BY <1>5, InsertRunSafe, AnalyseLegacySafe, ReadPointerSafe, ProposeLegacySafe, EnterReviewLegacySafe
<1> QED
  BY <1>1, <1>2, <1>3, <1>4, <1>5 DEF WorkerStep

LEMMA ReviewSafe ==
  ASSUME LineageInv, NEW r \in Reviewers, ReadProposal(r) \/ ReviewStep(r) \/ ReviewStops(r)
  PROVE  LineageInv'
<1>1. CASE ReadProposal(r) \/ Decide(r) \/ Correct(r) \/ PutApproval(r) \/ MarkRun(r)
  BY <1>1, ReadProposalSafe, DecideSafe, CorrectSafe, PutApprovalSafe, MarkRunSafe
<1>2. CASE Reserve(r) \/ Activate(r) \/ RegisterPackage(r) \/ Finalize(r) \/ MarkPublished(r) \/ ReviewStops(r)
  BY <1>2, ReserveSafe, ActivateSafe, RegisterPackageSafe, FinalizeSafe, RequestEnds
<1> QED
  BY <1>1, <1>2 DEF ReviewStep

LEMMA StutterSafe ==
  ASSUME LineageInv, UNCHANGED vars
  PROVE  LineageInv'
<1>1. UNCHANGED <<input, task, artifact, recorded, ledger, proposal, reviewer, graph, pointer, package, reconciler>>
  BY DEF vars
<1>2. reconciler' \in Reconciliations /\ ReconcilerOK'
  BY <1>1 DEF LineageInv, ProcessesTyped, ReconcilerOK, InLedger
<1> QED
  BY <1>1, <1>2, ReconcilerStep

LEMMA NextSafe ==
  ASSUME LineageInv, [Next]_vars
  PROVE  LineageInv'
<1>1. ASSUME NEW c \in Commands, WorkerStep(c) \/ Crash(c)
      PROVE  LineageInv'
  BY <1>1, WorkerSafe
<1>2. ASSUME NEW r \in input.reviewers, ReadProposal(r) \/ ReviewStep(r) \/ ReviewStops(r)
      PROVE  LineageInv'
  <2>1. r \in Reviewers
    BY <1>2, InputAssumption DEF LineageInv, TablesTyped
  <2> QED
    BY <1>2, <2>1, ReviewSafe
<1>3. ASSUME NEW session \in input.sessions, SessionEnds(session)
      PROVE  LineageInv'
  BY <1>3, SessionEndsSafe
<1>4. ASSUME NEW a \in Artifacts, ReadSessions(a)
      PROVE  LineageInv'
  BY <1>4, ReadSessionsSafe
<1>5. CASE ReconcileStep
  BY <1>5, MergeObservationSafe, ReadBaseSafe, ProposeReconciledSafe DEF ReconcileStep
<1>6. CASE UNCHANGED vars
  BY <1>6, StutterSafe
<1> QED
  BY <1>1, <1>2, <1>3, <1>4, <1>5, <1>6 DEF Next

\* In every reachable state the tables and the processes are as LineageInv says.
THEOREM LineageHolds == Spec => []LineageInv
<1>1. Init => LineageInv
  BY InitSafe
<1>2. LineageInv /\ [Next]_vars => LineageInv'
  BY NextSafe
<1> QED
  BY <1>1, <1>2, PTL DEF Spec

\* A completed stage can be loaded: the evidence store has the document that is recorded,
\* whatever attempts stopped while they wrote it, for any number of attempts.
THEOREM RecordedStaysReadable == Spec => []RecordedIsReadable
<1>1. LineageInv => RecordedIsReadable
  <2>1. ASSUME LineageInv, NEW c \in Commands, NEW i \in DOMAIN recorded[c]
        PROVE  i <= Len(artifact[c]) /\ artifact[c][i] = recorded[c][i]
    <3>1. /\ artifact[c] \in Manifests /\ recorded[c] \in Seq(Documents)
          /\ StoreHas(c, artifact[c], recorded[c])
      BY <2>1, StoreFacts
    <3>2. i \in 1 .. Len(recorded[c]) /\ Len(recorded[c]) \in Nat /\ Len(artifact[c]) \in Nat
      BY <3>1 DEF Manifests
    <3> QED
      BY <3>1, <3>2 DEF StoreHas
  <2> QED
    BY <2>1 DEF RecordedIsReadable
<1> QED
  BY <1>1, LineageHolds, PTL

\* A Baseline or Incremental command proposes one change, however often it is delivered
\* and its stages are computed, and whatever else is merged, reviewed and published.
THEOREM RunsProposeOnce == Spec => []OneProposalPerRun
<1>1. LineageInv => OneProposalPerRun
  <2>1. ASSUME LineageInv, NEW p \in DOMAIN proposal, NEW q \in DOMAIN proposal,
               p.origin = q.origin, p.origin \in Commands, p.version = 1, q.version = 1,
               Kind(p.origin) # "OTHER"
        PROVE  p = q
    <3>1. p \in Keys /\ q \in Keys /\ KeyOK(p) /\ KeyOK(q)
      BY <2>1 DEF LineageInv, TablesTyped, ProposalsOK
    <3>2. OfRun(p) /\ OfRun(q)
      BY <2>1 DEF OfRun, Pinned
    <3>3. /\ p.first = recorded[p.origin][8].edges /\ p.base = recorded[p.origin][8].base
          /\ q.first = recorded[p.origin][8].edges /\ q.base = recorded[p.origin][8].base
      BY <2>1, <3>1, <3>2 DEF KeyOK
    <3>4. SameProposal(p, q)
      BY <2>1, <3>3 DEF SameProposal
    <3> QED
      BY <2>1, <3>4 DEF LineageInv, ProposalsOK, VersionsOK
  <2> QED
    BY <2>1 DEF OneProposalPerRun
<1> QED
  BY <1>1, LineageHolds, PTL

\* A version that is finalized was approved and activated, and the package of its artifact
\* is the graph that was approved; one that was rejected or superseded is in no graph.
THEOREM FinalizedStaysServed == Spec => []FinalizedIsServed
<1>1. LineageInv => FinalizedIsServed
  BY DEF LineageInv
<1> QED
  BY <1>1, LineageHolds, PTL

\* What runtime evidence says is in the ledger only for an edge that an analysis found,
\* and in a graph for such an edge or where a reviewer wrote it.
LEMMA NeverAlone ==
  ASSUME LineageInv
  PROVE  RuntimeNeverAlone
<1>1. ASSUME NEW s \in Evidence
      PROVE  AnalysisIn(s)
  BY DEF Evidence, AnalysisIn
<1>2. ASSUME NEW e \in Edges
      PROVE  AnalysisIn(ledger[e])
  <2>1. ledger[e] \in Evidence
    BY DEF LineageInv, TablesTyped
  <2> QED
    BY <1>1, <2>1
<1>3. ASSUME NEW i \in DOMAIN graph, NEW e \in DOMAIN graph[i]
      PROVE  AnalysisIn(graph[i][e]) \/ ByReview(e, graph[i][e])
  <2>1. i \in 1 .. Len(graph)
    BY DEF LineageInv, TablesTyped
  <2>2. PICK row : row = graph[i][e]
    OBVIOUS
  <2>3. Rests(e, row)
    BY <2>1, <2>2 DEF LineageInv, GraphsOK
  <2>4. AnalysisIn(row) \/ ByReview(e, row)
    BY <1>1, <2>3 DEF Rests, Reviewed
  <2> QED
    BY <2>2, <2>4
<1> QED
  BY <1>2, <1>3 DEF RuntimeNeverAlone

\* A step that changes the active graph is an activation.
LEMMA PointerChange ==
  ASSUME LineageInv, [Next]_vars, pointer'.active # pointer.active
  PROVE  \E r \in Reviewers : Activate(r)
<1>1. ASSUME NEW c \in Commands, WorkerStep(c) \/ Crash(c)
      PROVE  pointer' = pointer
  BY <1>1 DEF WorkerStep, Crash, Begin, PutManifest, RecordStage, Complete, Start, ChangedScope, Derive,
     JoinSessions, StartMerge, MergeNext, EndMerge, Recheck, Propose, KeepProposal, EnterReview,
     NoLineage, InsertRun, AnalyseLegacy, ReadPointer, ProposeLegacy, EnterReviewLegacy, published
<1>2. ASSUME NEW r \in input.reviewers, ReadProposal(r) \/ ReviewStep(r) \/ ReviewStops(r)
      PROVE  Activate(r) \/ pointer'.active = pointer.active
  <2>1. CASE Reserve(r)
    BY <2>1 DEF Reserve, LineageInv, TablesTyped
  <2> QED
    BY <1>2, <2>1 DEF ReviewStep, ReadProposal, ReviewStops, Decide, Correct, PutApproval, MarkRun,
       RegisterPackage, Finalize, MarkPublished, published
<1>3. input.reviewers \subseteq Reviewers
  BY InputAssumption DEF LineageInv, TablesTyped
<1>4. ASSUME NEW session, SessionEnds(session)
      PROVE  pointer' = pointer
  BY <1>4 DEF SessionEnds, published
<1>5. ASSUME NEW a, ReadSessions(a)
      PROVE  pointer' = pointer
  BY <1>5 DEF ReadSessions, others, published
<1>6. CASE ReconcileStep
  BY <1>6 DEF ReconcileStep, MergeObservation, ReadBase, ProposeReconciled, others, published
<1>7. CASE UNCHANGED vars
  BY <1>7 DEF vars
<1> QED
  BY <1>1, <1>2, <1>3, <1>4, <1>5, <1>6, <1>7 DEF Next

LEMMA ActivationKeepsEvidence ==
  ASSUME LineageInv, NEW r \in Reviewers, Activate(r), pointer'.active # pointer.active,
         Kind(Origin.origin) # "OTHER"
  PROVE  LosesNoEvidence
<1>1. PICK q \in Requests, k \in DOMAIN proposal, row \in Rows, to \in Rows : Activates(r, q, k, row, to)
  BY ActivateFacts
<1>2. PICK old \in Seq(Maps) : old = graph /\ Len(old) \in Nat
  BY DEF LineageInv, TablesTyped
<1>3. PICK b \in 1 .. Len(old) : b = k.base /\ b = pointer.active
  BY <1>1, <1>2 DEF Activates
<1>4. k \in Keys /\ KeyAt(r) = k /\ KeyOK(k) /\ k.origin \in Commands
  BY <1>1 DEF Activates, LineageInv, TablesTyped
<1>5. PICK g : g = Projected(r)
  OBVIOUS
<1>6. /\ g \in Maps
      /\ \A e \in DOMAIN old[b] : e \in DOMAIN g
      /\ \A e \in DOMAIN old[b] : e \in DOMAIN k.edges => g[e] = k.edges[e]
      /\ \A e \in DOMAIN old[b] : e \notin DOMAIN k.edges => g[e] = old[b][e]
  <2>1. b \in 1 .. Len(graph) /\ k.base = b /\ KeyAt(r) = k /\ g = Projected(r)
    BY <1>2, <1>3, <1>4, <1>5
  <2>2. /\ g \in Maps
        /\ \A e \in DOMAIN graph[b] : e \in DOMAIN g
        /\ \A e \in DOMAIN graph[b] : e \in DOMAIN k.edges => g[e] = k.edges[e]
        /\ \A e \in DOMAIN graph[b] : e \notin DOMAIN k.edges => g[e] = graph[b][e]
    BY <2>1, ProjectedFacts
  <2> QED
    BY <1>2, <2>2
<1>7. graph' = Append(old, g) /\ pointer'.active = Len(old) + 1
  BY <1>1, <1>2, <1>5 DEF Activates, LineageInv, TablesTyped
<1>8. graph'[Len(old) + 1] = g
  BY <1>2, <1>6, <1>7
<1>9. /\ DOMAIN proposal' = DOMAIN proposal /\ proposal'[k] = to
      /\ \A p \in DOMAIN proposal : p # k => proposal'[p] = proposal[p]
  BY <1>1, SetRow DEF Activates
<1>10. to.activated = pointer'.active
  BY <1>1, <1>2, <1>7 DEF Activates
<1>11. \A p \in DOMAIN proposal' : proposal'[p].activated = pointer'.active => p = k
  <2>1. ASSUME NEW p \in DOMAIN proposal, p # k
        PROVE  proposal'[p].activated # pointer'.active
    <3>1. proposal[p].activated \in Nat /\ proposal[p].activated <= Len(old)
      BY <1>2 DEF LineageInv, TablesTyped, Rows, ProposalsOK
    <3> QED
      BY <1>2, <1>7, <1>9, <2>1, <3>1
  <2> QED
    BY <1>9, <2>1
<1>12. Origin = k
  BY <1>9, <1>10, <1>11 DEF Origin
<1>13. OfRun(k)
  BY <1>4, <1>12 DEF OfRun, Pinned
<1>14. KeepsBase(k.first, k.base)
  BY <1>4, <1>13 DEF KeyOK
<1>15. ASSUME NEW e \in DOMAIN old[b], NEW past, past = old[b][e]
       PROVE  e \in DOMAIN g /\ (past \subseteq g[e] \/ ByReview(e, past) \/ Rewrites(Origin, e))
  <2>1. CASE e \in DOMAIN k.edges
    <3>1. PICK new : new = k.edges[e]
      OBVIOUS
    <3>2. Rewrites(k, e) \/ (e \in DOMAIN k.first /\ k.first[e] = new)
      BY <2>1, <3>1, ProposedRow
    <3>3. e \in DOMAIN k.first => past \subseteq k.first[e] \/ <<e, past>> \in Reviewed
      BY <1>2, <1>3, <1>14, <1>15 DEF KeepsBase
    <3>4. <<e, past>> \in Reviewed => ByReview(e, past)
      BY DEF Reviewed
    <3> QED
      BY <1>6, <1>12, <1>15, <2>1, <3>1, <3>2, <3>3, <3>4
  <2>2. CASE e \notin DOMAIN k.edges
    BY <1>6, <1>15, <2>2
  <2> QED
    BY <2>1, <2>2
<1> QED
  BY <1>2, <1>3, <1>7, <1>8, <1>15 DEF LosesNoEvidence

\* Runtime evidence never stands alone, and a Baseline or Incremental that is published
\* loses no edge of the graph before it and no assertion about one, though others merge,
\* correct, decide and publish between the reading of its base and its activation; only
\* the rows that a reviewer wrote are excepted.
THEOREM EvidenceStaysSound == Spec => EvidenceIsSound
<1>1. LineageInv => RuntimeNeverAlone
  BY NeverAlone
<1>2. LineageInv /\ [Next]_vars =>
        [pointer'.active # pointer.active /\ Kind(Origin.origin) # "OTHER" => LosesNoEvidence]_vars
  BY PointerChange, ActivationKeepsEvidence
<1>3. Spec => []RuntimeNeverAlone
  BY <1>1, LineageHolds, PTL
<1>4. Spec => [][pointer'.active # pointer.active /\ Kind(Origin.origin) # "OTHER" => LosesNoEvidence]_vars
  BY <1>2, LineageHolds, PTL DEF Spec
<1> QED
  BY <1>3, <1>4 DEF EvidenceIsSound, EvidenceIsKept

=============================================================================
