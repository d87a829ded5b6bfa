----------------------------- MODULE LocalLineage -----------------------------
(***************************************************************************)
(* What the local commands do to the graph: from a pinned base over the    *)
(* analysis and the ledger of evidence to a proposal, its review and its   *)
(* publication.  Baseline and Incremental commands go through checkpoints, *)
(* each of which computes a document, puts it into the write-once evidence *)
(* store and records it; commands of any other kind do everything in one   *)
(* run without checkpoints.  Workers, reviewers and the reconciliation of  *)
(* runtime evidence run side by side and each of them may stop anywhere.   *)
(*                                                                         *)
(* An edge of the ledger is the set of the assertions about it, and its    *)
(* version is their number.  The attempts of one command follow one        *)
(* another here (LocalWorker and CommandStore have overlapping ones), and  *)
(* a publication is its reservation and its activation (Publisher has its  *)
(* stages).                                                                *)
(***************************************************************************)
EXTENDS Integers, FiniteSets, Sequences

CONSTANTS
  Commands, Edges, Artifacts, Reviewers,
  Inputs,        \* what may be accepted: for each command its kind, its artifact and
                 \* what the analysis of that artifact gives, and the runtime sessions,
                 \* each with its artifact and the edge it observes; the edges that
                 \* reviewers put in place of the proposed ones; bounds: who reviews,
                 \* how many processes stop, how many reconciliations
  MaxAttempts,   \* attempts of a command
  MaxVersions,   \* bound: versions of a proposal
  Torn

\* A proposal has a run when its correlation is that of a command: sessions and
\* commands are never called the same.
ASSUME NamesAssumption == Commands \cap Artifacts = {}

\* What speaks for an edge: an analysis, an event or a session of an artifact.
Assertions == {"SCA", "EVENT", "SESSION"} \X Artifacts

ASSUME InputAssumption ==
  /\ MaxAttempts \in Nat \ {0} /\ MaxVersions \in Nat \ {0}
  /\ \A i \in Inputs : i.sessions \subseteq Artifacts \X Edges /\ i.reviewers \subseteq Reviewers
                     /\ i.crashes \in Nat /\ i.reconciliations \in Nat
  /\ \A i \in Inputs : \A edges \in i.corrections :
       /\ DOMAIN edges # {} /\ DOMAIN edges \subseteq Edges
       /\ edges \in [DOMAIN edges -> SUBSET Assertions]
  /\ \A i \in Inputs, c \in Commands :
       LET d == i.command[c] IN
       /\ d.kind \in {"BASELINE", "INCREMENTAL", "OTHER"} /\ d.artifact \in Artifacts
       /\ d.found \subseteq Edges /\ d.observed \subseteq d.found
       /\ {d.known, d.inScope, d.analysed, d.covered} \subseteq BOOLEAN

NoEdges == [e \in {} |-> {}]
NoPackage == [graph |-> 0, approved |-> << >>]

VARIABLES
  input,       \* what was accepted
  task,        \* task[c]: the command, and where its worker is
  artifact,    \* artifact[c]: the manifests in the evidence store, one for each stage
  recorded,    \* recorded[c]: the documents of the completed stages
  run,         \* run[c]: the state of its run, "NONE" before it is inserted
  join,        \* join[c]: the evidence object that joins the sessions a run found
  ended,       \* the runtime sessions that are complete
  ledger,      \* the assertions about each edge
  proposal,    \* the proposals there are, by command or artifact, edges, base and version
  reviewer,    \* what each reviewer is doing
  reconciler,  \* what the reconciliation is doing
  graph,       \* the published graphs, each from edges to assertions; the last is newest
  pointer,     \* the active graph and the token of the last reservation
  package,     \* package[a]: the graph an artifact is bound to
  crashes, reconciled

vars == <<input, task, artifact, recorded, run, join, ended, ledger, proposal,
          reviewer, reconciler, graph, pointer, package, crashes, reconciled>>
evidence == <<join, ledger>>
published == <<graph, pointer, package>>

NotReviewing == [at |-> "IDLE", key |-> << >>, lock |-> 0, decision |-> "NONE", token |-> 0]
NotReconciling == [at |-> "IDLE", artifact |-> CHOOSE a \in Artifacts : TRUE, todo |-> {}, edges |-> NoEdges, base |-> 0]
NoDocument == [base |-> 0, runtime |-> {}, edges |-> NoEdges, proposal |-> << >>]

Init ==
  /\ input \in Inputs
  /\ task = [c \in Commands |->
               [status |-> "QUEUED", at |-> "IDLE", attempt |-> 0, todo |-> {}, document |-> NoDocument]]
  /\ artifact = [c \in Commands |-> << >>]
  /\ recorded = [c \in Commands |-> << >>]
  /\ run = [c \in Commands |-> "NONE"]
  /\ join = [c \in Commands |-> {}]
  /\ ended = {}
  /\ ledger = [e \in Edges |-> {}]
  /\ proposal = NoEdges
  /\ reviewer = [r \in Reviewers |-> NotReviewing]
  /\ reconciler = NotReconciling
  /\ graph = <<NoEdges>>
  /\ pointer = [active |-> 1, token |-> 1]
  /\ package = [a \in Artifacts |-> NoPackage]
  /\ crashes = 0
  /\ reconciled = 0

Latest(s) == s[Len(s)]
\* Mistake: the versions of the edges are read from the ledger again.
DocumentReread(c) ==
  IF recorded[c] = << >> THEN NoDocument
  ELSE [Latest(recorded[c]) EXCEPT !.edges = [e \in DOMAIN @ |-> ledger[e]]]
\* What the last recorded stage hands on, and the number of the stage that is next.
Document(c) == IF recorded[c] = << >> THEN NoDocument ELSE Latest(recorded[c])
Number(c) == Len(recorded[c]) + 1
Kind(c) == input.command[c].kind
ArtifactOf(c) == input.command[c].artifact

\* A command that was found INCOMPLETE or UNKNOWN ends without its later stages; an
\* Incremental whose analysis is partial goes from I6 to I8.
Path(c) ==
  LET i == input.command[c] IN
  CASE Kind(c) = "OTHER" -> <<"LEGACY">>
    [] Kind(c) = "INCREMENTAL" ->
         IF ~i.known THEN <<"I1", "I2", "I3", "I4">>
         ELSE IF ~i.analysed THEN <<"I1", "I2", "I3", "I4", "I5", "I6", "I8">>
         ELSE <<"I1", "I2", "I3", "I4", "I5", "I6", "I7", "I8", "I9", "I10">>
    [] Kind(c) = "BASELINE" ->
         IF ~i.known THEN <<"B1", "B2", "B3">>
         ELSE IF ~i.covered THEN <<"B1", "B2", "B3", "B4", "B5", "B6", "B7", "B8">>
         ELSE <<"B1", "B2", "B3", "B4", "B5", "B6", "B7", "B8", "B9", "B10">>

Stage(c) == Path(c)[Number(c)]
In(c, stages) ==
  task[c].at = "STAGE" /\ Number(c) <= Len(Path(c)) /\ Stage(c) \in stages

\* The worker has the document of the stage and puts it next.
Compute(c, document) ==
  task' = [task EXCEPT ![c].at = "PUT", ![c].document = document]
\* The attempt ends with an error, or stops; the command may have attempts left.
GiveUp(c) ==
  task' = [task EXCEPT ![c] = [@ EXCEPT
             !.at = "IDLE", !.todo = {}, !.document = NoDocument,
             !.status = IF task[c].attempt = MaxAttempts THEN "FAILED_TERMINAL"
                                                         ELSE "FAILED_REDRIVABLE"]]
RunState(c, state) == run' = [run EXCEPT ![c] = state]
-----------------------------------------------------------------------------
(* A command and its checkpoints.                                          *)

\* _handle_message: an attempt starts, and skips the stages that are recorded.
Begin(c) ==
  /\ task[c].at = "IDLE"
  /\ task[c].status \in {"QUEUED", "FAILED_REDRIVABLE"}
  /\ task' = [task EXCEPT ![c] = [@ EXCEPT
                !.at = "STAGE", !.status = "RUNNING", !.attempt = task[c].attempt + 1]]
  /\ UNCHANGED <<input, artifact, recorded, run, ended, evidence, proposal, reviewer, reconciler, published, crashes, reconciled>>

\* Mistake: an object that is there is taken for the one that is put.
PutAcceptedAlways(c) == TRUE
\* checkpoint: put the manifest of the stage, which is written once.
PutAccepted(c) ==
  Len(artifact[c]) >= Number(c) => artifact[c][Number(c)] = task[c].document

PutManifest(c) ==
  /\ task[c].at = "PUT"
  /\ IF PutAccepted(c)
     THEN /\ artifact' = [artifact EXCEPT ![c] =
                            IF Len(@) >= Number(c) THEN @ ELSE Append(@, task[c].document)]
          /\ task' = [task EXCEPT ![c].at = "RECORD"]
     ELSE GiveUp(c) /\ UNCHANGED artifact
  /\ UNCHANGED <<input, recorded, run, ended, evidence, proposal, reviewer, reconciler, published, crashes, reconciled>>

\* checkpoint: record the stage.
RecordStage(c) ==
  /\ task[c].at = "RECORD"
  /\ recorded' = [recorded EXCEPT ![c] = Append(@, task[c].document)]
  /\ task' = [task EXCEPT ![c].at = "STAGE"]
  /\ UNCHANGED <<input, artifact, run, ended, evidence, proposal, reviewer, reconciler, published, crashes, reconciled>>

\* A stage whose document depends on the source and on earlier documents only gives
\* the same one each time, so that computing, putting and recording it are one step,
\* which a torn object ends.
Derived == {"I2", "B2", "I3", "I4", "B3", "B4", "I5", "B5", "B7", "I10", "B10"}
Intact(c) == Len(artifact[c]) < Number(c)

Checkpoint(c) ==
  /\ artifact' = [artifact EXCEPT ![c] = Append(@, Document(c))]
  /\ recorded' = [recorded EXCEPT ![c] = Append(@, Document(c))]
  /\ UNCHANGED task

\* The worker stops, in the middle of a write too: the object is then torn.
Crash(c) ==
  /\ task[c].at # "IDLE"
  /\ crashes < input.crashes
  /\ crashes' = crashes + 1
  /\ GiveUp(c)
  /\ \/ UNCHANGED artifact
     \/ /\ task[c].at = "PUT" \/ In(c, Derived)
        /\ Intact(c)
        /\ artifact' = [artifact EXCEPT ![c] = Append(@, Torn)]
  /\ UNCHANGED <<input, recorded, run, ended, evidence, proposal, reviewer, reconciler, published, reconciled>>

\* The command is over; the run of one that was cut short has failed.
Complete(c) ==
  /\ \/ task[c].at = "DONE"
     \/ task[c].at = "STAGE" /\ Number(c) > Len(Path(c))
  /\ task' = [task EXCEPT ![c] = [@ EXCEPT !.at = "IDLE", !.status = "COMPLETED", !.document = NoDocument]]
  /\ IF Latest(Path(c)) \in {"I10", "B10", "LEGACY"} THEN UNCHANGED run ELSE RunState(c, "FAILED")
  /\ UNCHANGED <<input, artifact, recorded, ended, evidence, proposal, reviewer, reconciler, published, crashes, reconciled>>
-----------------------------------------------------------------------------
(* The stages.                                                             *)

\* I1, B1: pin the active graph; insert the run, or find it.
Start(c) ==
  /\ In(c, {"I1", "B1"})
  /\ RunState(c, "QUEUED")
  /\ Compute(c, [NoDocument EXCEPT !.base = pointer.active])
  /\ UNCHANGED <<input, artifact, recorded, ended, evidence, proposal, reviewer, reconciler, published, crashes, reconciled>>

\* I2: the changed paths must be the scope of the source.
ChangedScope(c) ==
  /\ In(c, {"I2"})
  /\ IF input.command[c].inScope /\ Intact(c) THEN Checkpoint(c) ELSE GiveUp(c) /\ UNCHANGED <<artifact, recorded>>
  /\ UNCHANGED <<input, run, ended, evidence, proposal, reviewer, reconciler, published, crashes, reconciled>>

\* B2, I3, B4, B7, I10, B10 set no state of the run; I4 and B3, I5 and B5 do.
RunStateAt(c) ==
  CASE Stage(c) \in {"I4", "B3"} -> "CLASSIFYING"
    [] Stage(c) \in {"I5", "B5"} -> "RESOLVING"
    [] OTHER -> run[c]

Derive(c) ==
  /\ In(c, Derived \ {"I2"})
  /\ RunState(c, RunStateAt(c))
  /\ IF Intact(c) THEN Checkpoint(c) ELSE GiveUp(c) /\ UNCHANGED <<artifact, recorded>>
  /\ UNCHANGED <<input, ended, evidence, proposal, reviewer, reconciler, published, crashes, reconciled>>

Observed(a) == {e \in Edges : <<a, e>> \in ended}

\* I6, B6: the complete sessions of the artifact, joined in one object that is
\* written once, or else the observation that came with the event.
JoinSessions(c) ==
  LET seen == Observed(ArtifactOf(c))
  IN  /\ In(c, {"I6", "B6"})
      /\ IF seen = {} \/ join[c] \in {{}, seen}
         THEN /\ RunState(c, "STORING_EVIDENCE")
              /\ join' = [join EXCEPT ![c] = seen]
              /\ Compute(c, [Document(c) EXCEPT
                               !.runtime = IF seen # {} THEN {"SESSION"} \X seen
                                           ELSE {"EVENT"} \X input.command[c].observed])
         ELSE GiveUp(c) /\ UNCHANGED <<run, join>>
      /\ UNCHANGED <<input, artifact, recorded, ended, ledger, proposal, reviewer, reconciler, published, crashes, reconciled>>

With(f, key, value) == [k \in DOMAIN f \cup {key} |-> IF k = key THEN value ELSE f[k]]

\* merge: add an assertion to the newest version of an edge, if it is not there.
Merge(e, assertion) == ledger' = [ledger EXCEPT ![e] = @ \cup {assertion}]
Merged(e, assertion) == ledger[e] \cup {assertion}

\* I7, B8: the assertions of the analysis and of the event, each with its edge.
StartMerge(c) ==
  /\ In(c, {"I7", "B8"})
  /\ task' = [task EXCEPT
       ![c].at = "MERGE",
       ![c].todo = ({"SCA"} \X input.command[c].found) \cup Document(c).runtime,
       ![c].document = Document(c)]
  /\ UNCHANGED <<input, artifact, recorded, run, ended, evidence, proposal, reviewer, reconciler, published, crashes, reconciled>>

Static(todo) == {t \in todo : t[1] = "SCA"}

\* merge_runtime_observation corroborates the edges that are in the ledger.
Corroborates(t) == t[1] = "SESSION" => ledger[t[2]] # {}

\* The assertion is dealt with, and these are the edges of the document.
Handled(c, t, edges) ==
  task' = [task EXCEPT ![c].todo = task[c].todo \ {t},
                       ![c].document = [task[c].document EXCEPT !.edges = edges]]

\* The next assertion is merged, in a transaction of its own: those of the analysis
\* and the event edge by edge, then those of the sessions.
MergeNext(c) ==
  /\ task[c].at \in {"MERGE", "LEGACY_MERGE"}
  /\ \E t \in task[c].todo :
       /\ t[1] = "EVENT" => <<"SCA", t[2]>> \notin task[c].todo
       /\ t[1] = "SESSION" => Static(task[c].todo) = {}
       /\ LET assertion == <<t[1], ArtifactOf(c)>> IN
          IF Corroborates(t)
          THEN /\ Merge(t[2], assertion)
               /\ Handled(c, t, With(task[c].document.edges, t[2], Merged(t[2], assertion)))
          ELSE Handled(c, t, task[c].document.edges) /\ UNCHANGED ledger
  /\ UNCHANGED <<input, artifact, recorded, run, ended, join, proposal, reviewer, reconciler, published, crashes, reconciled>>

EndMerge(c) ==
  /\ task[c].at = "MERGE" /\ task[c].todo = {}
  /\ RunState(c, "MERGING")
  /\ Compute(c, task[c].document)
  /\ UNCHANGED <<input, artifact, recorded, ended, evidence, proposal, reviewer, reconciler, published, crashes, reconciled>>

\* I8: the pinned graph is the active one.
Recheck(c) ==
  /\ In(c, {"I8"})
  /\ IF pointer.active = Document(c).base THEN Compute(c, Document(c)) ELSE GiveUp(c)
  /\ UNCHANGED <<input, artifact, recorded, run, ended, evidence, proposal, reviewer, reconciler, published, crashes, reconciled>>

\* review.create: the identity of a proposal is its origin, its edges with their
\* versions, and its base, which must be active; a later version keeps the identity.
KeyOf(origin, edges, base) ==
  [origin |-> origin, first |-> edges, base |-> base, version |-> 1, edges |-> edges]
NewProposal == [state |-> "IN_REVIEW", lock |-> 1, kept |-> FALSE, approval |-> FALSE, activated |-> 0]
Creatable(edges, base) == DOMAIN edges # {} /\ pointer.active = base
Create(key) ==
  proposal' = IF key \in DOMAIN proposal THEN proposal ELSE With(proposal, key, NewProposal)

\* I9, B9: what create returns, one that is there with the state it has.
Propose(c) ==
  LET d == Document(c)
      key == KeyOf(c, d.edges, d.base)
  IN  /\ In(c, {"I9"}) \/ (In(c, {"B9"}) /\ DOMAIN d.edges # {})
      /\ IF Creatable(d.edges, d.base)
         THEN /\ Create(key)
              /\ task' = [task EXCEPT
                   ![c].at = IF key \in DOMAIN proposal THEN "PROPOSED" ELSE "KEEP",
                   ![c].document = [d EXCEPT !.proposal = <<key, proposal'[key].state>>]]
         ELSE GiveUp(c) /\ UNCHANGED proposal
      /\ UNCHANGED <<input, artifact, recorded, run, ended, evidence, reviewer, reconciler, published, crashes, reconciled>>

\* review.create: the evidence of a proposal is put after it is stored.
KeepProposal(c) ==
  /\ task[c].at \in {"KEEP", "LEGACY_KEEP"}
  /\ proposal' = [proposal EXCEPT ![task[c].document.proposal[1]].kept = TRUE]
  /\ task' = [task EXCEPT ![c].at = IF @ = "KEEP" THEN "PROPOSED" ELSE "LEGACY_PROPOSED"]
  /\ UNCHANGED <<input, artifact, recorded, run, ended, evidence, reviewer, reconciler, published, crashes, reconciled>>

\* _stage sets the state of the run, also that of a stage that is there.
EnterReview(c) ==
  /\ task[c].at = "PROPOSED"
  /\ RunState(c, "IN_REVIEW")
  /\ Compute(c, task[c].document)
  /\ UNCHANGED <<input, artifact, recorded, ended, evidence, proposal, reviewer, reconciler, published, crashes, reconciled>>

\* B9 without edges.
NoLineage(c) ==
  /\ In(c, {"B9"}) /\ DOMAIN Document(c).edges = {}
  /\ RunState(c, "NO_LINEAGE")
  /\ Compute(c, Document(c))
  /\ UNCHANGED <<input, artifact, recorded, ended, evidence, proposal, reviewer, reconciler, published, crashes, reconciled>>
-----------------------------------------------------------------------------
(* Commands of the other kinds: no checkpoints, and the base is read last. *)

\* The run is inserted, not inserted or found: a second attempt fails here.
InsertRun(c) ==
  /\ In(c, {"LEGACY"})
  /\ IF run[c] = "NONE"
     THEN /\ RunState(c, "QUEUED")
          /\ task' = [task EXCEPT ![c].at = "LEGACY_ANALYSE"]
     ELSE GiveUp(c) /\ UNCHANGED run
  /\ UNCHANGED <<input, artifact, recorded, ended, evidence, proposal, reviewer, reconciler, published, crashes, reconciled>>

\* Each edge of the analysis is given a runtime assertion of its own.
AnalyseLegacy(c) ==
  /\ task[c].at = "LEGACY_ANALYSE"
  /\ IF input.command[c].known
     THEN /\ RunState(c, "STORING_EVIDENCE")
          /\ task' = [task EXCEPT ![c].at = "LEGACY_MERGE",
                                  ![c].todo = {"SCA", "EVENT"} \X input.command[c].found]
     ELSE /\ RunState(c, "FAILED")
          /\ task' = [task EXCEPT ![c].at = "DONE"]
  /\ UNCHANGED <<input, artifact, recorded, ended, evidence, proposal, reviewer, reconciler, published, crashes, reconciled>>

ReadPointer(c) ==
  /\ task[c].at = "LEGACY_MERGE" /\ task[c].todo = {}
  /\ RunState(c, "MERGING")
  /\ task' = [task EXCEPT ![c].at = "LEGACY_PROPOSE", ![c].document.base = pointer.active]
  /\ UNCHANGED <<input, artifact, recorded, ended, evidence, proposal, reviewer, reconciler, published, crashes, reconciled>>

ProposeLegacy(c) ==
  LET d == task[c].document
      key == KeyOf(c, d.edges, d.base)
  IN  /\ task[c].at = "LEGACY_PROPOSE"
      /\ IF Creatable(d.edges, d.base)
         THEN /\ Create(key)
              /\ task' = [task EXCEPT ![c].at = "LEGACY_KEEP", ![c].document.proposal = <<key, "IN_REVIEW">>]
         ELSE GiveUp(c) /\ UNCHANGED proposal
      /\ UNCHANGED <<input, artifact, recorded, run, ended, evidence, reviewer, reconciler, published, crashes, reconciled>>

EnterReviewLegacy(c) ==
  /\ task[c].at = "LEGACY_PROPOSED"
  /\ RunState(c, "IN_REVIEW")
  /\ task' = [task EXCEPT ![c].at = "DONE"]
  /\ UNCHANGED <<input, artifact, recorded, ended, evidence, proposal, reviewer, reconciler, published, crashes, reconciled>>
-----------------------------------------------------------------------------
(* Review and publication.                                                 *)

rest == <<input, artifact, recorded, ended, evidence, reconciler, reconciled>>
SetReviewer(r, next) == reviewer' = [reviewer EXCEPT ![r] = next]
GoTo(r, at) == reviewer' = [reviewer EXCEPT ![r].at = at]
KeyAt(r) == reviewer[r].key
\* The request fails, or its process stops: nothing repeats it.
Abort(r) == SetReviewer(r, NotReviewing)
Set(key, row) == proposal' = With(proposal, key, row)

\* A reviewer sees a proposal and means to decide about it.
ReadProposal(r) ==
  /\ reviewer[r].at = "IDLE"
  /\ \E key \in DOMAIN proposal, decision \in {"APPROVED", "REJECTED", "SUPERSEDED"} :
       /\ proposal[key].state = "IN_REVIEW"
       /\ decision = "SUPERSEDED" => input.corrections # {}
       /\ SetReviewer(r, [NotReviewing EXCEPT
            !.at = "DECIDE", !.key = key, !.lock = proposal[key].lock, !.decision = decision])
  /\ UNCHANGED <<rest, task, run, proposal, published, crashes, reconciled>>

\* _locked_proposal, assert_transition: the version is as it was read, and open.
StillOpen(r) ==
  proposal[KeyAt(r)].lock = reviewer[r].lock /\ proposal[KeyAt(r)].state = "IN_REVIEW"
Decided(r) ==
  [proposal[KeyAt(r)] EXCEPT !.state = reviewer[r].decision, !.lock = @ + 1]

\* _decide: the decision is committed before its evidence is put.
Decide(r) ==
  /\ reviewer[r].at = "DECIDE"
  /\ reviewer[r].decision \in {"APPROVED", "REJECTED"}
  /\ IF StillOpen(r) THEN Set(KeyAt(r), Decided(r)) /\ GoTo(r, "EVIDENCE")
                     ELSE Abort(r) /\ UNCHANGED proposal
  /\ UNCHANGED <<rest, task, run, published, crashes, reconciled>>

\* correct: the version is superseded by one with the edges of the request, which may
\* be any: they are checked neither against the version nor against the ledger.
Successor(r, edges) == [KeyAt(r) EXCEPT !.version = @ + 1, !.edges = edges]

Correct(r) ==
  /\ reviewer[r].at = "DECIDE"
  /\ reviewer[r].decision = "SUPERSEDED"
  /\ KeyAt(r).version < MaxVersions
  /\ IF StillOpen(r)
     THEN \E edges \in input.corrections :
            proposal' = With(With(proposal, KeyAt(r), Decided(r)), Successor(r, edges), NewProposal)
     ELSE UNCHANGED proposal
  /\ Abort(r)
  /\ UNCHANGED <<rest, task, run, published, crashes, reconciled>>

\* The run of a proposal is found by its correlation, which only commands have.
HasRun(r) == KeyAt(r).origin \in Commands

PutApproval(r) ==
  /\ reviewer[r].at = "EVIDENCE"
  /\ Set(KeyAt(r), [proposal[KeyAt(r)] EXCEPT !.approval = TRUE])
  /\ IF HasRun(r) THEN GoTo(r, "RUN") ELSE Abort(r)
  /\ UNCHANGED <<rest, task, run, published, crashes, reconciled>>

\* reject ends here; approve goes on to publish.
MarkRun(r) ==
  /\ reviewer[r].at = "RUN"
  /\ IF reviewer[r].decision = "REJECTED"
     THEN RunState(KeyAt(r).origin, "REJECTED") /\ Abort(r)
     ELSE RunState(KeyAt(r).origin, "PUBLISHING") /\ GoTo(r, "RESERVE")
  /\ UNCHANGED <<rest, task, proposal, published, crashes, reconciled>>

\* Mistake: the change is put on top of whatever is active.
OnItsBaseAlways(r) == TRUE
OnItsBase(r) == pointer.active = KeyAt(r).base

\* _reserve_operation: take the next token.
Reserve(r) ==
  /\ reviewer[r].at = "RESERVE"
  /\ IF OnItsBase(r)
     THEN /\ pointer' = [pointer EXCEPT !.token = @ + 1]
          /\ SetReviewer(r, [reviewer[r] EXCEPT !.at = "ACTIVATE", !.token = pointer.token + 1])
     ELSE Abort(r) /\ UNCHANGED pointer
  /\ UNCHANGED <<rest, task, run, proposal, graph, package, crashes>>

\* _projected_edges: the rows of the base with those of the proposal in their place.
Projected(r) ==
  LET base == graph[KeyAt(r).base] IN
  [e \in DOMAIN base \cup DOMAIN KeyAt(r).edges |->
     IF e \in DOMAIN KeyAt(r).edges THEN KeyAt(r).edges[e] ELSE base[e]]

\* _activate_operation: the reservation is the last one, and the base active.
Activate(r) ==
  /\ reviewer[r].at = "ACTIVATE"
  /\ IF pointer.token = reviewer[r].token /\ OnItsBase(r)
     THEN /\ graph' = Append(graph, Projected(r))
          /\ pointer' = [pointer EXCEPT !.active = Len(graph) + 1]
          /\ Set(KeyAt(r), [proposal[KeyAt(r)] EXCEPT !.activated = Len(graph) + 1])
          /\ GoTo(r, "REGISTER")
     ELSE Abort(r) /\ UNCHANGED <<graph, pointer, proposal>>
  /\ UNCHANGED <<rest, task, run, package, crashes>>

\* register_package: an artifact has one package, for good.
PackageOf(r) == [graph |-> proposal[KeyAt(r)].activated, approved |-> KeyAt(r)]
\* Mistake: the row that is there is left alone without a word.
PackageFitsAlways(r) == TRUE
PackageFits(r) == package[ArtifactOf(KeyAt(r).origin)] \in {NoPackage, PackageOf(r)}

RegisterPackage(r) ==
  LET a == ArtifactOf(KeyAt(r).origin)
  IN  /\ reviewer[r].at = "REGISTER"
      /\ IF PackageFits(r)
         THEN /\ package' = [package EXCEPT ![a] = IF @ = NoPackage THEN PackageOf(r) ELSE @]
              /\ GoTo(r, "FINALIZE")
         ELSE Abort(r) /\ UNCHANGED package
      /\ UNCHANGED <<rest, task, run, proposal, graph, pointer, crashes>>

\* finalize: nobody else changes an APPROVED version, so reading it and writing it
\* are one step.
Finalize(r) ==
  /\ reviewer[r].at = "FINALIZE"
  /\ Set(KeyAt(r), [proposal[KeyAt(r)] EXCEPT !.state = "FINALIZED", !.lock = @ + 1])
  /\ GoTo(r, "PUBLISHED")
  /\ UNCHANGED <<rest, task, run, published, crashes, reconciled>>

MarkPublished(r) ==
  /\ reviewer[r].at = "PUBLISHED"
  /\ RunState(KeyAt(r).origin, "PUBLISHED")
  /\ Abort(r)
  /\ UNCHANGED <<rest, task, proposal, published, crashes, reconciled>>

ReviewStops(r) ==
  /\ reviewer[r].at \notin {"IDLE", "DECIDE"}
  /\ crashes < input.crashes
  /\ crashes' = crashes + 1
  /\ Abort(r)
  /\ UNCHANGED <<rest, task, run, proposal, published>>
-----------------------------------------------------------------------------
(* Runtime sessions end, and are reconciled with the ledger.               *)

SessionEnds(session) ==
  /\ session \in input.sessions \ ended
  /\ ended' = ended \cup {session}
  /\ UNCHANGED <<input, task, artifact, recorded, run, evidence, proposal, reviewer, reconciler, published, crashes, reconciled>>

others == <<input, task, artifact, recorded, run, join, ended, reviewer, published, crashes>>

ReadSessions(a) ==
  /\ reconciler.at = "IDLE"
  /\ Observed(a) # {}
  /\ reconciled < input.reconciliations
  /\ reconciled' = reconciled + 1
  /\ reconciler' = [NotReconciling EXCEPT !.at = "MERGE", !.artifact = a, !.todo = Observed(a)]
  /\ UNCHANGED <<others, ledger, proposal>>

MergeObservation ==
  /\ reconciler.at = "MERGE"
  /\ \E e \in reconciler.todo :
       IF Corroborates(<<"SESSION", e>>)
       THEN /\ Merge(e, <<"SESSION", reconciler.artifact>>)
            /\ reconciler' = [reconciler EXCEPT
                 !.todo = reconciler.todo \ {e},
                 !.edges = With(reconciler.edges, e, Merged(e, <<"SESSION", reconciler.artifact>>))]
       ELSE /\ reconciler' = [reconciler EXCEPT !.todo = reconciler.todo \ {e}]
            /\ UNCHANGED ledger
  /\ UNCHANGED <<others, proposal, reconciled>>

ReadBase ==
  /\ reconciler.at = "MERGE" /\ reconciler.todo = {}
  /\ reconciler' = IF DOMAIN reconciler.edges = {} THEN NotReconciling
                   ELSE [reconciler EXCEPT !.at = "PROPOSE", !.base = pointer.active]
  /\ UNCHANGED <<others, ledger, proposal, reconciled>>

ProposeReconciled ==
  /\ reconciler.at = "PROPOSE"
  /\ IF Creatable(reconciler.edges, reconciler.base)
     THEN Create(KeyOf(reconciler.artifact, reconciler.edges, reconciler.base))
     ELSE UNCHANGED proposal
  /\ reconciler' = NotReconciling
  /\ UNCHANGED <<others, ledger, reconciled>>
-----------------------------------------------------------------------------
WorkerStep(c) ==
  \/ Begin(c) \/ PutManifest(c) \/ RecordStage(c) \/ Complete(c)
  \/ Start(c) \/ ChangedScope(c) \/ Derive(c) \/ JoinSessions(c)
  \/ StartMerge(c) \/ MergeNext(c) \/ EndMerge(c) \/ Recheck(c)
  \/ Propose(c) \/ KeepProposal(c) \/ EnterReview(c) \/ NoLineage(c)
  \/ InsertRun(c) \/ AnalyseLegacy(c) \/ ReadPointer(c) \/ ProposeLegacy(c) \/ EnterReviewLegacy(c)

\* A request that was begun goes on.
ReviewStep(r) ==
  \/ Decide(r) \/ Correct(r) \/ PutApproval(r) \/ MarkRun(r) \/ Reserve(r) \/ Activate(r)
  \/ RegisterPackage(r) \/ Finalize(r) \/ MarkPublished(r)

ReconcileStep == MergeObservation \/ ReadBase \/ ProposeReconciled

Next ==
  \/ \E c \in Commands : WorkerStep(c) \/ Crash(c)
  \/ \E r \in input.reviewers : ReadProposal(r) \/ ReviewStep(r) \/ ReviewStops(r)
  \/ \E session \in input.sessions : SessionEnds(session)
  \/ \E a \in Artifacts : ReadSessions(a)
  \/ ReconcileStep

Spec == Init /\ [][Next]_vars
-----------------------------------------------------------------------------
(* Properties.                                                             *)

\* A completed stage can be loaded: the manifest it refers to is the one the store
\* has, though writers are torn and stages are computed again.
RecordedIsReadable ==
  \A c \in Commands : \A i \in DOMAIN recorded[c] :
    i <= Len(artifact[c]) /\ artifact[c][i] = recorded[c][i]

\* A Baseline or Incremental proposes one change, however often its stages are
\* computed and whatever is merged meanwhile.
OneProposalPerRun ==
  \A p, q \in DOMAIN proposal :
    (p.origin = q.origin /\ p.origin \in Commands /\ p.version = 1 /\ q.version = 1
       /\ Kind(p.origin) # "OTHER") => p = q

\* A correction gave the edge e another row than the proposal had for it.
Rewrites(key, e) ==
  e \in DOMAIN key.edges /\ ~(e \in DOMAIN key.first /\ key.first[e] = key.edges[e])
ByReview(e, row) == \E key \in DOMAIN proposal : Rewrites(key, e) /\ key.edges[e] = row

\* Runtime evidence corroborates: the ledger has no edge that no analysis has found,
\* and no graph has one, except where a reviewer wrote the row.
AnalysisIn(row) == row = {} \/ \E x \in row : x[1] = "SCA"
RuntimeNeverAlone ==
  /\ \A e \in Edges : AnalysisIn(ledger[e])
  /\ \A i \in DOMAIN graph : \A e \in DOMAIN graph[i] :
       AnalysisIn(graph[i][e]) \/ ByReview(e, graph[i][e])

\* A finalized version was activated, its approval is kept, and the package of its
\* artifact is the graph that was approved; a version that was rejected or superseded
\* never is.
FinalizedIsServed ==
  \A key \in DOMAIN proposal :
    LET p == proposal[key] IN
    /\ p.state = "FINALIZED" =>
         /\ p.approval /\ p.activated # 0
         /\ package[ArtifactOf(key.origin)] = [graph |-> p.activated, approved |-> key]
    /\ p.activated # 0 => p.state \in {"APPROVED", "FINALIZED"}

\* The next graph has every edge of the one before and knows no less about it, unless
\* a reviewer wrote the row of the edge that is there, or the one that takes its place.
Origin == CHOOSE key \in DOMAIN proposal' : proposal'[key].activated = pointer'.active
LosesNoEvidence ==
  \A e \in DOMAIN graph[pointer.active] :
    LET before == graph[pointer.active][e]
        after == graph'[pointer'.active]
    IN  /\ e \in DOMAIN after
        /\ before \subseteq after[e] \/ ByReview(e, before) \/ Rewrites(Origin, e)

\* A Baseline or Incremental that is published loses no edge and no evidence of one,
\* though others merge and publish between its base and its activation; only what a
\* reviewer wrote may replace evidence or be replaced.
EvidenceIsKept ==
  [][pointer'.active # pointer.active /\ Kind(Origin.origin) # "OTHER" => LosesNoEvidence]_vars

\* Runtime evidence corroborates what an analysis found, and neither it nor any other
\* assertion is lost when a graph is put together, reconciled and activated, except
\* where a reviewer decided about the edge.
EvidenceIsSound == []RuntimeNeverAlone /\ EvidenceIsKept

\* Two statements of the documents that the code breaks (README, section 5).  A
\* correction makes a version of the edge, so that the ledger has what the reviewer wrote
\* and the next merge starts from it.
CorrectionReachesLedger ==
  \A key \in DOMAIN proposal : key.version > 1 =>
    \A e \in DOMAIN key.edges : key.edges[e] \subseteq ledger[e]

\* An approval is not lost: a version that is approved, and that can be published still,
\* has a request that goes on to publish it.
ApprovalIsNotLost ==
  \A key \in DOMAIN proposal :
    (proposal[key].state = "APPROVED" /\ key.origin \in Commands
       /\ proposal[key].activated = 0 /\ key.base = pointer.active)
    => \E r \in input.reviewers : reviewer[r].at \notin {"IDLE", "DECIDE"} /\ KeyAt(r) = key
=============================================================================
