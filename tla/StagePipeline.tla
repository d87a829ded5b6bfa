---------------------------- MODULE StagePipeline ----------------------------
(***************************************************************************)
(* What the stages of the AWS Baseline and Incremental workflows compute:  *)
(* from a pinned source and a pinned active graph to a proposal.  Each     *)
(* stage reads the document of the stage before and writes one of its own, *)
(* or raises and the workflow ends FAILED_REDRIVABLE (StageLedger models   *)
(* how a stage is leased, retried and recorded).  A Baseline plans the     *)
(* whole source, analyses its work units in a distributed map and          *)
(* aggregates their results; an Incremental plans the changed paths.       *)
(*                                                                         *)
(* A document is a record of the fields the stages hand on.  A source is a *)
(* function from its files to the edges each of them yields; an edge set   *)
(* is the set of its edges.                                                *)
(***************************************************************************)
EXTENDS Integers, FiniteSets, Sequences

CONSTANTS
  Files, Python,   \* paths; those that end in .py
  Skippable,       \* paths that end in .md, and the two generated files
  Edges,
  Revisions,       \* 1 .. n, in the order they are pushed
  Dependents,      \* Dependents[f]: paths that depend on a path
  Pins,            \* determinants an intent may lack
  Intents,         \* what may be pushed: a source (its files, with the edges of
                   \* each), classification evidence, pins and runtime manifests
  Wrapped,         \* how the map exports the output of a child
  MaxTries,        \* tries of a worker of the map
  MaxFaults,       \* bound: workers that stop
  Unparsable

\* What the constants are.
SourceParameters ==
  /\ Python \cup Skippable \subseteq Files /\ Python \cap Skippable = {}
  /\ Revisions = 1 .. Cardinality(Revisions)
  /\ Dependents \in [Files -> SUBSET Files]
  /\ \A i \in Intents :
       /\ DOMAIN i.source \subseteq Files /\ i.pins \subseteq Pins
       /\ \A f \in DOMAIN i.source : i.source[f] \in (SUBSET Edges) \cup {Unparsable}
  /\ Wrapped \in BOOLEAN /\ MaxTries \in Nat \ {0} /\ MaxFaults \in Nat

Commands == {"BASELINE", "INCREMENTAL"} \X Revisions
NoGraph == <<"NONE", 0>>

VARIABLES
  content,   \* the source of each revision that was pushed
  document,  \* the document each workflow hands on, with the stage that is next
  worker,    \* worker[c][u]: the workers of the map, one for each work unit
  pointer,   \* the active graph
  rows,      \* the rows of each published graph
  faults

vars == <<content, document, worker, pointer, rows, faults>>

NotStarted ==
  [stage |-> "NONE", pins |-> {}, evidence |-> {}, manifests |-> {}, base |-> NoGraph,
   fence |-> 0, changed |-> {}, removed |-> {}, closure |-> {}, status |-> "NONE",
   expected |-> {}, recomputed |-> {}, skipped |-> {}, unsupported |-> {},
   completed |-> {}, edges |-> {}, runtime |-> "NONE", coverage |-> "NONE"]
NotRun == [state |-> "PENDING", tries |-> 0, edges |-> {}]

Init ==
  /\ content = << >>
  /\ document = [c \in Commands |-> NotStarted]
  /\ worker = [c \in Commands |-> [f \in Files |-> NotRun]]
  /\ pointer = [version |-> NoGraph, fence |-> 0]
  /\ rows = [c \in Commands \cup {NoGraph} |-> {}]
  /\ faults = 0

Revision(c) == c[2]
At(c, stage) == document[c].stage = stage

\* The stage hands on the document with these changes, or raises.
HandOn(c, next) == document' = [document EXCEPT ![c] = next]
Raise(c) == document' = [document EXCEPT ![c].stage = "FAILED_REDRIVABLE"]

\* A source is accepted as the intent of one command; a path is changed or removed
\* against the source before.
Accept(r, kind, i) ==
  LET before == IF r = 1 THEN << >> ELSE content[r - 1]
      now == i.source
      changed == {f \in DOMAIN now : f \in DOMAIN before => now[f] # before[f]}
  IN  /\ r = Len(content) + 1
      /\ content' = Append(content, now)
      /\ HandOn(<<kind, r>>,
           [NotStarted EXCEPT
              !.stage = IF kind = "BASELINE" THEN "B1" ELSE "I1",
              !.pins = i.pins, !.evidence = i.evidence, !.manifests = i.manifests,
              !.changed = changed, !.removed = DOMAIN before \ DOMAIN now,
              !.closure = UNION {Dependents[f] : f \in changed}])
      /\ UNCHANGED <<worker, pointer, rows, faults>>
-----------------------------------------------------------------------------
(* Pins, classification and the plan.                                      *)

\* B1, I1: pin the active graph and its fence.
PinIntent(c) ==
  /\ document[c].stage \in {"B1", "I1"}
  /\ HandOn(c, [document[c] EXCEPT !.stage = IF @ = "B1" THEN "B2" ELSE "I2",
                                   !.base = pointer.version, !.fence = pointer.fence])
  /\ UNCHANGED <<content, worker, pointer, rows, faults>>

\* B2: a Baseline needs every determinant.
BaselinePins(c) ==
  /\ At(c, "B2")
  /\ IF document[c].pins = Pins THEN HandOn(c, [document[c] EXCEPT !.stage = "B3"]) ELSE Raise(c)
  /\ UNCHANGED <<content, worker, pointer, rows, faults>>

\* evaluate_classification: the evidence of the lowest level decides, if it
\* agrees; a heuristic alone never excludes a repository.
Decided(evidence) ==
  LET lowest == {e \in evidence : \A other \in evidence : e.level <= other.level}
  IN  /\ Cardinality({e.class : e \in lowest}) = 1
      /\ \A e \in lowest : e.class # "UNKNOWN" /\ (e.level = 7 => ~e.excludes)

\* B3: without a decision the repository is UNKNOWN and its status REVIEW_REQUIRED.
Classify(c) ==
  /\ At(c, "B3")
  /\ HandOn(c, [document[c] EXCEPT !.stage = "B4",
                  !.status = IF Decided(document[c].evidence) THEN "EVALUATED" ELSE "REVIEW_REQUIRED"])
  /\ UNCHANGED <<content, worker, pointer, rows, faults>>

Skipped(paths) == paths \cap Skippable

\* B4: the whole inventory, in work units of one file.
PlanBaseline(c) ==
  LET inventory == DOMAIN content[Revision(c)]
  IN  /\ At(c, "B4")
      /\ IF document[c].status = "EVALUATED"
         THEN HandOn(c, [document[c] EXCEPT
                !.stage = "B5", !.expected = inventory, !.recomputed = inventory \cap Python,
                !.skipped = Skipped(inventory),
                !.unsupported = inventory \ (Python \cup Skipped(inventory))])
         ELSE Raise(c)
      /\ UNCHANGED <<content, worker, pointer, rows, faults>>

\* I2: the changed paths with what depends on them, without the removed ones.
ChangedScope(c) ==
  /\ At(c, "I2")
  /\ HandOn(c, [document[c] EXCEPT
                  !.stage = "I3", !.changed = (@ \cup document[c].closure) \ document[c].removed])
  /\ UNCHANGED <<content, worker, pointer, rows, faults>>

\* I3: a changed path is recomputed or unsupported.
PlanDelta(c) ==
  LET d == document[c]
  IN  /\ At(c, "I3")
      /\ HandOn(c, [d EXCEPT !.stage = "I4", !.expected = d.changed \cup d.removed,
                             !.recomputed = d.changed \cap Python,
                             !.unsupported = d.changed \ Python, !.skipped = d.removed])
      /\ UNCHANGED <<content, worker, pointer, rows, faults>>

\* I4: the determinants are there and the plan accounts for its scope.
ImmutableInputs(c) ==
  LET d == document[c]
  IN  /\ At(c, "I4")
      /\ IF d.pins = Pins /\ d.expected = d.recomputed \cup d.skipped \cup d.unsupported
         THEN HandOn(c, [d EXCEPT !.stage = "I5"])
         ELSE Raise(c)
      /\ UNCHANGED <<content, worker, pointer, rows, faults>>
-----------------------------------------------------------------------------
(* Static analysis.                                                        *)

\* Mistake: the analyser reads the source that was pushed last.
SourceOfHead(c) == content[Len(content)]
SourceOf(c) == content[Revision(c)]

\* ScaStageUseCase: the work unit's paths, from the pinned archive.  A path that
\* the archive lacks or that does not parse ends the analysis.
Readable(c, paths) ==
  \A f \in paths : f \in DOMAIN SourceOf(c) /\ SourceOf(c)[f] # Unparsable
EdgesOf(c, paths) == UNION {SourceOf(c)[f] : f \in paths}

\* I5: one work unit; its paths must not be accounted for otherwise.
AnalyseDelta(c) ==
  LET d == document[c]
  IN  /\ At(c, "I5")
      /\ IF Readable(c, d.recomputed) /\ d.recomputed \cap (d.skipped \cup d.unsupported) = {}
         THEN HandOn(c, [d EXCEPT !.stage = "I6", !.completed = d.recomputed,
                                  !.edges = EdgesOf(c, d.recomputed)])
         ELSE Raise(c)
      /\ UNCHANGED <<content, worker, pointer, rows, faults>>

SetWorker(c, f, w) == worker' = [worker EXCEPT ![c][f] = w]

\* B5: a worker of the map analyses its unit.
AnalyseUnit(c, f) ==
  /\ At(c, "B5")
  /\ f \in document[c].recomputed
  /\ worker[c][f].state = "PENDING"
  /\ SetWorker(c, f, IF Readable(c, {f})
                     THEN [worker[c][f] EXCEPT !.state = "SUCCEEDED", !.edges = EdgesOf(c, {f})]
                     ELSE [worker[c][f] EXCEPT !.state = "FAILED"])
  /\ UNCHANGED <<content, document, pointer, rows, faults>>

\* A worker stops before its answer; the map tries again, a limited number of times.
WorkerStops(c, f) ==
  /\ At(c, "B5")
  /\ f \in document[c].recomputed
  /\ worker[c][f].state = "PENDING"
  /\ faults < MaxFaults
  /\ faults' = faults + 1
  /\ SetWorker(c, f, [worker[c][f] EXCEPT
                        !.tries = @ + 1, !.state = IF worker[c][f].tries + 1 = MaxTries THEN "FAILED" ELSE @])
  /\ UNCHANGED <<content, document, pointer, rows>>

Ended(c, state) == {f \in document[c].recomputed : worker[c][f].state = state}
\* The map ends with its first failed child, or with one result for each unit.
MapEnded(c) == Ended(c, "FAILED") # {} \/ Ended(c, "SUCCEEDED") = document[c].recomputed

\* B5A: read_succeeded and the aggregation take a child's output as
\* the outcome and the reference; wrapped in the state of the child it is
\* refused.
Aggregate(c) ==
  LET d == document[c]
      done == Ended(c, "SUCCEEDED")
  IN  /\ At(c, "B5")
      /\ MapEnded(c)
      /\ IF Ended(c, "FAILED") # {} \/ (Wrapped /\ done # {})
         THEN Raise(c)
         ELSE HandOn(c, [d EXCEPT !.stage = "B6", !.completed = done,
                                  !.edges = UNION {worker[c][f].edges : f \in done}])
      /\ UNCHANGED <<content, worker, pointer, rows, faults>>
-----------------------------------------------------------------------------
(* Runtime evidence, consolidation and the proposal.                       *)

\* B6, I6: the windows are trusted together or not at all.
ValidateRuntime(c) ==
  LET m == document[c].manifests
  IN  /\ document[c].stage \in {"B6", "I6"}
      /\ HandOn(c, [document[c] EXCEPT
           !.stage = IF @ = "B6" THEN "B7" ELSE "I7",
           !.runtime = CASE "INVALID" \in m -> "QUARANTINED"
                         [] "INVALID" \notin m /\ "INCOMPLETE" \in m -> "INCOMPLETE"
                         [] m = {} -> "NOT_PROVIDED"
                         [] OTHER -> "VALIDATED"])
      /\ UNCHANGED <<content, worker, pointer, rows, faults>>

\* B7: the residue is skipped with a record.
SkipResidue(c) ==
  /\ At(c, "B7")
  /\ HandOn(c, [document[c] EXCEPT !.stage = "B8"])
  /\ UNCHANGED <<content, worker, pointer, rows, faults>>

\* Mistake: an unsupported path does not count against the coverage.
ExactlyAccounted(d) == d.expected = d.completed \cup d.skipped \cup d.unsupported
\* Each path of the scope is accounted for once, and none is unsupported.
Complete(d) ==
  /\ ExactlyAccounted(d)
  /\ d.completed \cap d.skipped = {}
  /\ d.unsupported = {}

\* B8, I7: the assertions become edges, and the coverage has its verdict.
Consolidate(c) ==
  /\ document[c].stage \in {"B8", "I7"}
  /\ HandOn(c, [document[c] EXCEPT
                  !.stage = IF @ = "B8" THEN "B9" ELSE "I8",
                  !.coverage = IF Complete(document[c]) THEN "COMPLETE" ELSE "INCOMPLETE"])
  /\ UNCHANGED <<content, worker, pointer, rows, faults>>

\* I8: the active graph and its fence are the pinned ones.
Recheck(c) ==
  LET d == document[c]
  IN  /\ At(c, "I8")
      /\ IF pointer = [version |-> d.base, fence |-> d.fence]
         THEN HandOn(c, [d EXCEPT !.stage = "I9"])
         ELSE Raise(c)
      /\ UNCHANGED <<content, worker, pointer, rows, faults>>

\* B9, I9: a proposal, or the reason why there is none.  No stage fills in the
\* edges the proposal would remove.
Propose(c) ==
  LET d == document[c]
  IN  /\ d.stage \in {"B9", "I9"}
      /\ HandOn(c, [d EXCEPT !.stage = IF d.coverage = "INCOMPLETE" THEN "QUARANTINED"
                                       ELSE IF d.edges = {} THEN "NO_LINEAGE"
                                       ELSE "AWAITING_APPROVAL"])
      /\ UNCHANGED <<content, worker, pointer, rows, faults>>

OnItsBase(c) == pointer.version = document[c].base

\* A reviewer decides; an approved proposal is published on its base
\* (CloudPublication models how).
Approve(c) ==
  /\ At(c, "AWAITING_APPROVAL")
  /\ OnItsBase(c)
  /\ pointer' = [version |-> c, fence |-> pointer.fence + 1]
  /\ rows' = [rows EXCEPT ![c] = rows[document[c].base] \cup document[c].edges]
  /\ HandOn(c, [document[c] EXCEPT !.stage = "PUBLISHED"])
  /\ UNCHANGED <<content, worker, faults>>

Reject(c) ==
  /\ At(c, "AWAITING_APPROVAL")
  /\ HandOn(c, [document[c] EXCEPT !.stage = "REJECTED"])
  /\ UNCHANGED <<content, worker, pointer, rows, faults>>
-----------------------------------------------------------------------------
Stage(c) ==
  \/ PinIntent(c) \/ BaselinePins(c) \/ Classify(c) \/ PlanBaseline(c)
  \/ ChangedScope(c) \/ PlanDelta(c) \/ ImmutableInputs(c) \/ AnalyseDelta(c)
  \/ \E f \in Files : AnalyseUnit(c, f)
  \/ Aggregate(c) \/ ValidateRuntime(c) \/ SkipResidue(c) \/ Consolidate(c)
  \/ Recheck(c) \/ Propose(c)

Next ==
  \/ \E r \in Revisions, kind \in {"BASELINE", "INCREMENTAL"}, i \in Intents : Accept(r, kind, i)
  \/ \E c \in Commands : Stage(c) \/ Approve(c) \/ Reject(c)
  \/ \E c \in Commands, f \in Files : WorkerStops(c, f)

Spec == Init /\ [][Next]_vars /\ \A c \in Commands : WF_vars(Stage(c))
-----------------------------------------------------------------------------
(* Properties.                                                             *)

TypeOK ==
  /\ Len(content) \in Revisions \cup {0}
  /\ \A c \in Commands :
       /\ document[c].base \in Commands \cup {NoGraph}
       /\ document[c].edges \subseteq Edges
       /\ document[c].coverage \in {"NONE", "COMPLETE", "INCOMPLETE"}
  /\ worker \in [Commands -> [Files -> [state : {"PENDING", "SUCCEEDED", "FAILED"},
                                        tries : 0 .. MaxTries, edges : SUBSET Edges]]]
  /\ pointer.version \in Commands \cup {NoGraph}
  /\ rows \in [Commands \cup {NoGraph} -> SUBSET Edges]

\* Coverage is complete only when every path of the scope that the pinned source
\* has is one that yields no lineage or was analysed, with all its edges found.
CompleteMeansAnalysed ==
  \A c \in Commands :
    document[c].coverage = "COMPLETE" =>
      \A f \in document[c].expected \cap DOMAIN content[Revision(c)] :
        f \in Skippable \/ (f \in Python /\ content[Revision(c)][f] \subseteq document[c].edges)

\* A Baseline proposes the edges of the whole pinned source, an Incremental those of
\* the files that changed, whatever was pushed or published meanwhile.
ProposedIsThePinnedSource ==
  \A c \in Commands :
    document[c].stage \in {"AWAITING_APPROVAL", "PUBLISHED"} =>
      LET source == content[Revision(c)]
          scope == {f \in DOMAIN source \cap Python : c[1] = "BASELINE" \/ f \in document[c].changed}
      IN  /\ \A f \in scope : source[f] # Unparsable
          /\ document[c].edges = UNION {source[f] : f \in scope}

\* No published change is lost: the active graph has the edges of each workflow
\* that was published, though they ran side by side.
PublishedIsKept ==
  \A c \in Commands :
    document[c].stage = "PUBLISHED" => document[c].edges \subseteq rows[pointer.version]
=============================================================================
