# A formal model of the lineage collector

This directory models the stateful core of the lineage collection platform:
how a signed repository event becomes a durable command, how local workers and
AWS stages execute it under leases, how evidence becomes a proposal, how an
approved proposal is published behind a fencing token, how deployment events
move the graph that is served, how runtime evidence is collected, and what the
gates, reports and answers that read the graph may claim. TLA+ modules state
what the code does, TLC checks them on small instances, and TLAPS proves the
central results for every size.

All paths below are relative to `src/apps/api/src/lineage_api` unless they
start with `src/`.

## 1. The system

The platform exists twice over the same domain code. The **local product** keeps
its state in one SQLite database and a write-once object directory. `db.py`
opens a transaction with `BEGIN IMMEDIATE`, so writing transactions run one
after another, and a transaction is one step of a model. What interleaves is
everything between two transactions: FastAPI runs the synchronous routes on a
thread pool, `cli.py` starts workers in processes of their own, and each of
them may stop at any point. The **AWS deployment** keeps its state in a DynamoDB
table, S3 objects that are written once, and a Neptune graph; Lambda functions
and ECS tasks are invoked by state machines, queues and streams, which invoke
again whatever did not answer. A conditional write is one step of a model.

| Component | State | Operations | Interacts with |
|---|---|---|---|
| Intake (`services/intake.py`, `SQLiteIntakeUnitOfWork`) | `events`, quarantine | accept | stores command and outbox event in the same transaction |
| Command store (`infrastructure/sqlite_control.py`) | `commands`, `command_attempts`, `stage_results` | submit, claim, renew, complete, fail, record_stage | called by every worker |
| Outbox (`SQLiteOutbox`, `application/outbox.py`) | `outbox_events` | append, pending, mark_delivered, dispatch | reads events, publishes messages |
| Lane broker (`infrastructure/local_broker.py`) | `lane_messages`, `lane_group_state` | publish, claim, acknowledge, retry, redrive | delivers to workers |
| Worker loop, local workflows (`services/orchestration.py`, `application/workflows`) | locals of a thread, `runs`, checkpoints | worker_once, worker_drain, process, approve, reconcile | all of the above |
| Evidence store (`services/evidence_store.py`) | files, `evidence_objects` | put, get | everybody |
| Consolidation (`services/consolidation.py`) | versions of an edge | merge, merge_many | workflow stages |
| Review (`services/review.py`) | `proposals`, `audit_events` | create, approve, reject, correct, finalize | orchestration, publisher |
| Publisher (`services/publisher.py`) | `pointers`, `publish_reservations`, `publication_operations`, `graph_versions`, `graph_edges` | publish, promote_existing, reserve | review, deployment |
| Deployment (`application/workflows/deployment.py`, `infrastructure/sqlite_deployment.py`) | `lineage_packages`, `deployment_events`, `deployment_state` | handle | publisher |
| Stage executor (`entrypoints/aws`, `infrastructure/aws/dynamodb_control.py`) | stage rows with leases, run summaries | claim_stage, record, redrive | state machines, approval stream |
| Stage handlers (`application/stage_handlers.py`) | documents of B1-B10, I1-I10, D1-D6 | one per stage | executor, S3, pointer |
| AWS publication (`infrastructure/aws/query_projection.py`, `neptune_projection.py`) | proposals, rows of namespaces, pointer, packages, deployment order and state | review, publish, promote | executor, deployment |
| Runtime plane (`services/runtime.py`, `services/runtime_policy.py`, `runtime/`) | sessions, profiles, leases, kill switches, a producer's buffer | grant, ready, observe, drain, close, revoke, renew, enqueue, flush | intake of evidence |
| Runtime verification (`application/java_runtime_stage.py`, `services/java_runtime_verification.py`) | files of a run | compile, execute, observe | sessions |
| Pull request gates (`application/pr_gate_execution.py`, `application/workflows/pr_gate.py`) | heads, checks | evaluate, upsert | pointer |
| Nightly (`application/nightly_execution.py`) | pins, cache entries, reports | N1-N6 | pointer, proposals |
| Collections (`src/scripts/floci/collection_runner.py`, `application/collections.py`, `infrastructure/*_git_source.py`) | status documents, jobs, head document | submit, run, review, publish, restart | workflows, publication |
| Queries (`services/query.py`, `neptune_projection.py`) | derived | lineage, impact | active graph |
| Analysers, resolver, LLM gateway, UI, observability | none, or derived | pure, or presentation | |

`PROJECT.json` lists every component with its status and reason, and every
hazard at the line where it bites.

What is hard in this code:

* **Time and fencing.** An operation reads the clock before it waits for the
  write lock, so it decides with an old reading. All workers use the owner name
  `local-worker`, all invocations of a container the name of its log stream;
  only epochs tell a stale one from its successor.
* **Several budgets.** Attempts and deadline belong to the command, deliveries
  to its message, retries to the state machine; they run out independently.
* **Steps of several writes.** Dispatch, checkpoint, review, publication,
  deployment, renewal and close each consist of many, with a crash or another
  actor between any two; whoever called calls again and meets half of it done.
* **What was read before.** `publish()`, `handle()`, the gates, the nightly run
  and the projection act on a pointer or a row they read some writes ago.
* **Delivery.** Providers send events again, late and out of order; requests of
  an agent lose their answer and are repeated.
* **Write-once artifacts.** A stage that starts over must compute the same
  document, or it conflicts with its former self.

What makes each part correct:

* a command is executed by at most one lease holder that can still write, its
  attempts are accounted for, and a stage has one result;
* a message is in one pair of hands, groups stay in order, nothing is lost;
* an accepted command is always announced, and settles;
* a stage hands on only what its row records, the summary of a run is that of
  its furthest stage, and the last of several claims is the one that counts;
* a proposal is the lineage of its pinned source, one version of it is decided,
  it is activated once, and the graph that is active is its base changed by
  what was approved;
* the namespace that is served is complete, exactly one is active, tokens grow;
* the deployment state is that of the newest event of the system and agrees
  with what that event did;
* a runtime session or window that says COMPLETE has lost nothing, whatever
  forbids a lease has ended it, and what has ended stays ended;
* a check that passes, a report of no drift and an answer that is not marked as
  partial were true of the graph they name.

## 2. The modules

| Module | Models |
|---|---|
| `CommandStore` | `SQLiteCommandStore`, one action per transaction |
| `FencedExecution` | what `CommandStorePort` promises: epochs, grants and a write-once ledger, without tables and clocks; refined by `CommandStore` and by `StageLedger` |
| `LaneBroker` | `LocalLaneBroker` |
| `LocalWorker` | the worker loop over the store it extends and the `LaneBroker` it instantiates, with intake, outbox and checkpoints |
| `LocalLineage` | what the local commands compute and record, from the pin to the proposal, with review, finalization and reconciliation of runtime evidence |
| `Publisher` | `publish()` and `promote_existing()`, with rollbacks |
| `Deployment` | `handle()` over the `Publisher` it extends, each handler being one of its deployers |
| `StageLedger` | the AWS stage executor over the DynamoDB stage rows |
| `StagePipeline` | what the stages of the AWS workflows compute and hand on |
| `CloudWorkflow` | composes `StageLedger` and `StagePipeline` |
| `CloudPublication` | reviews, publication, the pointer and deployments on AWS |
| `RuntimeSession`, `RuntimePolicy`, `RuntimeProducer`, `RuntimeWitness` | sessions; profiles, leases and switches; the producer in a process; generated tests and what they witness |
| `RuntimePlane` | composes the four |
| `PinnedRuns` | the AWS pull request gate P1-P8 and the nightly run N1-N6 |
| `LocalGate` | the pull request gate of the local product |
| `RepositorySource` | a snapshot of a checkout that is edited meanwhile |
| `CollectionRunner` | the jobs of the cell: queue, attempts, restarts, review, publication, deployment |
| `Traversal` | lineage and impact in both backends |
| `EdgeLedger` | the versions of one edge and the confidence they derive |
| `ControlRoom` | composes the last six |
| `*_proofs` | the theorems (section 4) |
| `MC...` | the values of the constants for TLC |

Where parts share no state in the code (`CloudWorkflow`, `RuntimePlane`,
`ControlRoom`), the composition chooses with its variable `part` which of them a
behaviour follows; the others rest. This loses no interleaving, since steps of
parts without common state commute, and keeps the state space a sum.

`PROJECT.json` maps each definition to the lines it stands for. Within a module
a definition whose comment starts with "Mistake" is not part of the model: it
is a plausible bug in the definition that follows it, which the property of
some run must notice.

### How code becomes actions

**CommandStore.** `commands[c]` is the row of a command, `attempts[c]` its rows
in `command_attempts`, `results` the table `stage_results`, `leases[w]` the
`Lease` object a worker holds in memory. An operation takes a reading `t` of the
clock from `Readings`, between `now - LockWait` and `now`. Operations that raise
write nothing (the transaction is rolled back) and are no actions, except that
`claim` commits a terminal failure before it raises (`ClaimExhausted`,
`ClaimPastDeadline`). `RETRY_WAIT` is in the schema and no operation writes it.

**LaneBroker.** `messages[m]` is a row, `claimOrder` the groups of
`lane_group_state` in the order of `last_claim_order`, `deliveries[r]` the
`LaneMessage` a receiver holds. `TextAtMost` is the order of `_utc_text`: the
text of a whole second has no fraction and sorts after every fraction of it.
With `TicksPerSecond = 1` it is the order of the instants.

**LocalWorker.** `pc[w]` is the place of a thread in `worker_once`, between two
transactions. A command, its outbox event and its message share one
identifier (the code derives the latter two by hashing). `Operate` stands for
what a stage computes: any output, or an exception. `Crash` forgets all locals.
`PutArtifact` is the write-once `put` of the evidence store, taken as atomic
here; `LocalLineage` has its two writes and the torn file.

**LocalLineage.** `task[c]` is the attempt that runs a command, `artifact` and
`recorded` its checkpoints in the evidence store and in `stage_results`,
`ledger[e]` the assertions merged about an edge, `proposal` the versions under
review, `reviewer` and `reconciler` the calls of `approve()`, `correct()` and
`reconcile_runtime_evidence()` between their transactions (a correction brings any
edges with any evidence, as `review.py:193-238` accepts them), `graph` and `pointer`
what is published, `package` what the deployment would serve.

**Publisher.** `ops[o]` is the operation row, `caller[t].row` the copy a caller
read last, `from` the test of `publish()` it has come to. Namespace number
`k+1` is the one made with token `k`. Row contents are `MISSING`, `GOOD` (as
approved) or `BAD`; with `Faulty` the storage may keep something else for the
last row of a batch, which is what the verification is for. `Overlap` lets two
callers run one operation at once. `deployer[d]` is a call of
`promote_existing()`, which first reserves and then promotes.

**Deployment.** `events[e]` is the status of an event, `deployed[s]` the state
row of a system, `handler[h]` a call of `handle()`. The provider order
(sequence, attempt) is one number. Systems share one environment and hence one
pointer, as in the code; one provider serves all of them. Packages are
registered before the events arrive.

**StageLedger.** `ledger[r]` is the row of a stage (status, epoch, holder,
recorded reference), `run` the summary, `artifacts` the keys in S3, `proposal`
the row I9 creates, `outbox` the approval record, `attempt[a]` an invocation
between two of its calls, `caller[r]` how often its caller has invoked it. A
reference to an artifact is the value of its document, so "the same document
again" is equality. Leases carry no clock: a lease may be taken over whenever
the code allows a takeover at all, which is every moment for a redrive under the
owner name of the log stream, and for the rows in `Outlasting` (ECS) while the
former invocation still runs.

**StagePipeline.** `content[n]` is the n-th push, `document[c]` the documents of
a workflow, `worker[u]` a worker of the distributed map, `active` the version
the pointer names and `rows` the content of a version. A source is a function
from files to the edges each yields or `Unparsable`.

**CloudPublication.** `proposal[p]`, `evidence` and `review[r]` are the rows of a
review and the transaction a reviewer is in; `publisher[a]` a function that
handles an approval; `rows[g]` what Neptune holds for a graph version, `pointer`
the row of the environment, `registry` its packages, `announced` the approval
records, `state` and `deployer` the deployment; `restaged` is auxiliary and has
the graphs whose rows changed after they had been active. Digests are represented by what
they are digests of.

**RuntimePlane.** A request of a session is split where the code has a
transaction of its own: `mark_ready`, `begin_drain`, `close` and `revoke` read
in one and write in another, and any of them may overlap. `reopened` is
auxiliary: the sessions that a late `mark_ready` or `begin_drain` took back. A
lease renewal is its read and its write. In the producer every lock region is
one action and the transport call is between two; `saved` is the snapshot that
the host took last, at any moment, a restart begins from it, and the auxiliary
`forgotten` has the payloads it knew nothing of.
`RuntimeWitness` computes which files are kept and what they reference by rounds
over the files, each round a recursive function's next value.

**ControlRoom.** `work[k]` is a pinned run: its stage, its pin and what its
stages saw; `pointer` the graph that is active with its fence, `checks` and
`reports` what the runs stored. `moments` is auxiliary: it records the states
the environment has been in, so that the properties can speak of the time of a
run. A collection is the status document in memory of the worker and the one on
disk; the scope of the analyser (`ScopeOf`) is taken of the files a revision has,
and `EdgesOf` is what the stage overrides derive that the cell's integration
supplies (`src/tests/integration/floci/java_stage_overrides.py`). Graphs are
sequences of edges in the order of their keys, since both backends read them in that order. `WalkRound` is a pass of `lineage()` over the
edges: the loop adds the ends of each edge that the frontier meets, so what an
edge discovers counts as new unless an edge before it, or an earlier round, had
it. `VisitNode` takes an entry from the queue and follows its edges one by one.
The provenance of an edge is sorted already when an assertion is merged, so
`InOrderOfIds` inserts the new id at its place instead of sorting again.

## 3. What TLC checks

Every passing run finishes its state space; the violation run stops at the
violation. `CHECK_DEADLOCK FALSE` stands where the modelled system really stops:
every command settled and the clock at its bound, every publication over, every
event answered, every session and window ended.

| Run | Question | Instance |
|---|---|---|
| `CommandStore_fencing` | Do the three tables agree, with one lease honoured? Is every transaction a step of `FencedExecution`? | 2 commands of one identity, 2 workers of one owner name, 2 outputs, 2 attempts, readings up to 1 tick old; 306,461 states |
| `LaneBroker_queue` | Are receipts fenced, groups in order, heads and messages kept? | 3 messages (2 heads of one pull request in different groups, 2 messages of one group), 2 receivers, 2 deliveries, 1 redrive, readings up to 1 tick old; 1,572,660 |
| `LocalWorker_accepted` | Does every accepted command settle, announced until it does? Is what a worker goes on with recorded, and its artifact there? | 1 command, 2 workers, 2 lanes, 2 outputs, takeovers, 2 failing operations, 1 crash, the interactive lane's budgets (2 attempts, 5 deliveries, a deadline of 2 ticks of 60 s); 283,655 |
| `LocalLineage_workflows` | Can records be loaded, is there one proposal per run, is what is finalized what is served, does runtime evidence only corroborate and stay? | 2 commands of any kinds, 2 artifacts, 2 edges, 2 reviewers, corrections to any edges, reconciliation, 1 crash anywhere, in 11 combinations; 781,674 |
| `Publisher_overlap` | Is what is served complete, final, fenced and announced? | 2 operations, 2 callers that may run the same one, 1 promotion, 2 edges in 2 batches, a faulty storage, 1 crash; 1,785,943 |
| `Publisher_redriven` | Does a call of `publish()` end, and its operation with it? | 2 operations, 2 callers, rollbacks up to token 2, 1 crash; 348,241 |
| `Deployment_systems` | Does the state row of each system tell what its newest event did; does each event get one result? | 2 systems, 4 events, 2 handlers, 1 crash; 79,625 |
| `CloudWorkflow_stages` | Are stages handed on as recorded, and do they end? Does complete coverage mean analysed, and a proposal the pinned source? | ledger: 5 rows, 2 invocations of one owner name, 2 faults; stages: 2 pushes of 7 intents, 4 files, workers with 2 tries; 153,889 |
| `CloudPublication_reviews` | Is the active graph its base and what was approved, decided once, activated once, moved by right? | 2 proposals of one base, 2 reviewers with approval, correction and rejection, 2 deployment events, 1 fault; 856,964 |
| `RuntimePlane_evidence` | Has a COMPLETE session or window lost nothing; are live leases allowed; does a verdict rest on what ran? | 1 session with 2 requests of any kind at a time and 6 in all, 5 observations; 2 leases of a profile with 1 renewal; 2 threads, a buffer of 2, 3 payloads, snapshots at any moment, 1 restart; checkouts of 11 files; 2,331,636 |
| `ControlRoom_shown` | Were passes and quiet reports true, snapshots and graphs whole, answers whole, decisions independent of the order of evidence? | 3 gates (one alone with 2 moves of what it reads, two together with 1 move), 3 nightly runs each alone, 2 graph versions and 1 fault; 3 local evaluations; a checkout with 2 edits; 3 revisions with 2 attempts; 288 graphs of 3 edges; 6 assertions; 2,361,226 |
| `ControlRoom_partial` | Does an answer that is not flagged as partial have every edge within its depth? No (section 5). | the graphs of `ControlRoom_shown` |

Several properties are conjunctions of named parts: `LedgersAgree` of
`OneActiveLease`, `AttemptLedger`, `CompletedOutputIsRecorded`; `DeliveredInTurn`
of `OneActiveDelivery`, `GroupsAreFifo`; `NothingIsForgotten` of `AckedMeansDone`,
`CommandIsAnnounced`; `ServedIsSound` of `ActiveIsIntact`, `OneActive`,
`NamespacesAreOwned`; `ActivationsAreFinal` of `PointerIsFenced`, `ActivatesOnce`,
`ServedRowsAreFinal`; `RowsTellTheTruth` of `StateOfItsEvent`,
`PackageOfTheArtifact`, `NewestSpeaks`; `EventsEndOnce` of `ResultsAreFinal`,
`EventEnds`; `LedgerIsFollowed` of `HandedOnIsRecorded`,
`SummaryIsTheFurthestStage`; `WorkSettles` of `ApprovalIsPublished`,
`WorkflowEnds`; `NoChangeIsLost` of `ProposedIsThePinnedSource`,
`PublishedIsKept`; `MovesAreFenced` of `PointerIsFenced`, `NewestEventSpeaks`;
`WholeWhenComplete` of `CompleteIsWhole`, `CompleteMeansDelivered`;
`EndedStaysEnded` of `EndedAcceptsNothing`, `EndedLeasesStay`; `PassesWereTrue`
of `PassWasTrue`, `LocalPassWasTrue`; `AnswersAreWhole` of `ImpactIsWhole`,
`BackendsAgree`; `NothingTurnsBack` of `NoCheckReturns`, `ConfidenceGrows`.

### Bounds

* **Time** (`MaxTime`) is long enough for a lease or delivery to expire, to be
  granted again, and for the deadline to pass after the last grant. Ticks stand
  for the distances that matter: `LeaseTicks`, `VisibilityTicks` and
  `DeadlineTicks` are 1 to 3, so that a lease or a delivery expires before the
  deadline. `LocalWorker` accepts a command only while its deadline and one
  visibility timeout still fit before `MaxTime`; otherwise the end of the clock
  would look like a stuck system.
* **`LockWait`** is how old a reading may be when the write lock is granted. It
  is 1 for the two stores alone, and 0 where they are composed.
* **Attempts and deliveries** are 2, the least with a takeover and an
  exhaustion. `LocalWorker_accepted` has the interactive lane as configured
  (`services/intake.py:38-42`, `local_broker.py:182`): 2 attempts, 5 deliveries and a
  deadline of 120 s, 2 leases long. The events lane has 5, 5 and 900 s, so that
  the deliveries are used up before the deadline, and `AcceptedSettles` is false
  there (section 5).
* **Two workers, callers, handlers, invocations and reviewers** are enough for
  every hazard listed: each is about one actor overtaking another. Three
  messages are needed for two heads and a group at once, three gates for an
  older event of a head that comes back, three revisions for one that only
  removes a file of the analyser's scope, beside a change outside of it, and one
  that brings the file back.
* **`MaxToken`, `MaxFence`** bound reservations and rollbacks. Promotions start
  only while `TokensLeft` keeps a token for every operation and every promotion
  that runs, so no caller is stopped by the bound.
* **`MaxCrashes`, `MaxFailures`, `MaxFaults`, `MaxStops`, `MaxRedrives`,
  `MaxMoves`** bound what the environment does. One crash can happen at every
  place; a second one would only matter for the budgets. `CloudWorkflow_stages`
  has two, since an invocation that is given up and its successor may both stop.
* **`MaxVersion`, `MaxCalls`, `MaxEnqueues`, `MaxEdits`, `MaxGraphs`** let each
  thing happen twice or more: a correction of a version, a request repeated
  beside another, a buffer that overflows and empties, an edit during the
  reading of a checkout, an older graph that comes back.

Symmetry is used for workers, receivers, callers, requests, threads, commands and
outputs that the constants treat alike, in runs without liveness only.

### Fairness

* `LocalWorker!FairSpec`: weak fairness of every worker and of the clock.
  `worker_once` is called again and again: by `process_command` after most
  failures, by `worker_drain` while there are messages, and by whoever starts
  `cli.py worker` again when it ended; the last is an assumption about the
  operation of the system. The operating system runs every thread, and no step
  waits for another thread but for the write lock, which each transaction
  releases. Nothing is assumed about crashes or about which output an
  operation gives.
* `Publisher!FairSpec`: weak fairness of calls that run. A call of `publish()`
  for an operation that was left half done may come or not: nothing in the code
  makes one (section 5). `PublicationEnds` therefore says that a call ends, and
  that unless its process stops it leaves the operation over.
* `Deployment!FairDeploymentSpec`: weak fairness of calls that run, and strong fairness of
  `Resume` for each event: the provider delivers an event again until it is
  answered, which is what its `PROCESSING` status is kept for.
* `StageLedger!Spec` and `CloudWorkflow!WorkflowSpec`: weak fairness of each
  invocation that runs (Lambda and ECS run what they accepted), strong fairness
  of `Invoke` for each row (state machine, queue and stream retry until their
  budget `Tries` is used). Faults are not fair, and are bounded.
* `StagePipeline!Spec` and `CloudPublication!Spec` state weak fairness of their
  functions for the same reason; no property that is checked there rests on it.

## 4. What is proved

TLAPS proves the following for any number of commands, workers, messages, rows,
proposals, sessions, runs and so on, and any value of the bounds. The
assumptions are the named ASSUMEs of the modules, which TLC evaluates in every
run: types of the constants, positive budgets where the configuration demands
them, null values that are no values, and in `StagePipeline` to `CollectionRunner`
the shape of inputs that the code validates before it uses them.

| Theorem | Statement |
|---|---|
| `LocalWorker_proofs!TypeCorrect` | `Spec => []TypeOK` (`Spec`: the command store) |
| `LocalWorker_proofs!LeasesExclude` | `Spec => []OneActiveLease` |
| `LocalWorker_proofs!TakeoverAfterExpiry` | `Spec => NoEarlyTakeover` |
| `LocalWorker_proofs!ResultsAreFenced` | `Spec => StageResultsFenced` |
| `LocalWorker_proofs!CompletedOutputs` | `Spec => []CompletedOutputIsRecorded` |
| `LocalWorker_proofs!AttemptsAreTold` | `Spec => []AttemptLedger` |
| `LocalWorker_proofs!TablesAgree` | `Spec => []LedgersAgree` |
| `LocalWorker_proofs!StoreImplementsPort` | `Spec => ImplementsFencedExecution` |
| `LocalWorker_proofs!LoopRunsStore`, `LoopTablesAgree` | `LoopSpec => Spec`, and therefore `LoopSpec => []LedgersAgree` |
| `LocalWorker_proofs!LoopRunsQueue` | `LoopSpec => Broker!Spec` |
| `LocalWorker_proofs!ContinuesWithRecorded` | `LoopSpec => []CarriedIsRecorded` |
| `LocalWorker_proofs!ArtifactFirst` | `LoopSpec => []ResultHasArtifact` |
| `LocalWorker_proofs!AnnouncedUntilDone` | `LoopSpec => []NothingIsForgotten` |
| `LocalLineage_proofs!LineageHolds` | `Spec => []LineageInv` |
| `LocalLineage_proofs!RecordedStaysReadable` | `Spec => []RecordedIsReadable` |
| `LocalLineage_proofs!RunsProposeOnce` | `Spec => []OneProposalPerRun` |
| `LocalLineage_proofs!FinalizedStaysServed` | `Spec => []FinalizedIsServed` |
| `LocalLineage_proofs!EvidenceStaysSound` | `Spec => EvidenceIsSound` |
| `LaneBroker_proofs!DeliveryInTurn` | `Spec => []DeliveredInTurn` |
| `LaneBroker_proofs!HeadSurvives` | `Spec => []NewestHeadSurvives` |
| `LaneBroker_proofs!MessagesAreKept` | `Spec => NoMessageLost` |
| `CloudWorkflow_proofs!TypeCorrect` | `Spec => []TypeOK` (`Spec`: the stage ledger) |
| `CloudWorkflow_proofs!HandedOn`, `SummaryFollows`, `LedgerFollowed` | `Spec => []LedgerIsFollowed`, and its parts |
| `CloudWorkflow_proofs!LastClaim` | `Spec => LastClaimCompletes` |
| `CloudWorkflow_proofs!LedgerImplementsFencing` | `Spec => ImplementsFencedExecution` |
| `CloudWorkflow_proofs!WorkflowFollowsLedger` | `WorkflowSpec => []LedgerIsFollowed` |
| `CloudWorkflow_proofs!WorkflowFences` | `WorkflowSpec => LastClaimCompletes` |
| `CloudWorkflow_proofs!StagesTypeCorrect` | `WorkflowSpec => []Stages!TypeOK` |
| `CloudWorkflow_proofs!CompleteIsAnalysed` | `WorkflowSpec => []CompleteMeansAnalysed` |
| `CloudWorkflow_proofs!ChangesAreKept` | `WorkflowSpec => []NoChangeIsLost` |
| `CloudPublication_proofs!Published` | `Spec => []PublishedIsTheApprovedChange` |
| `CloudPublication_proofs!OneDecided` | `Spec => []OneVersionDecided` |
| `CloudPublication_proofs!Once` | `Spec => []PublishedOnce` |
| `CloudPublication_proofs!Fenced` | `Spec => MovesAreFenced` |
| `RuntimePlane_proofs!LeasesAreAllowed` | `Spec => []LiveLeasesAreAllowed` |
| `RuntimePlane_proofs!RecordsAreCounted` | `Spec => []EachRecordIsCounted` |
| `RuntimePlane_proofs!CompleteMeansWhole` | `Spec => []WholeWhenComplete` |
| `RuntimePlane_proofs!EvidenceIsEarned` | `Spec => []WitnessIsEarned` |
| `RuntimePlane_proofs!EndedForGood` | `Spec => EndedStaysEnded` |
| `ControlRoom_proofs!Passes` | `Spec => []PassesWereTrue` |
| `ControlRoom_proofs!QuietReports` | `Spec => []QuietReportIsTrue` |
| `ControlRoom_proofs!Snapshots` | `Spec => []SnapshotIsTheRevision` |
| `ControlRoom_proofs!GraphsAreOfRevisions` | `Spec => []GraphHasItsRevision` |
| `ControlRoom_proofs!Answers` | `Spec => []AnswersAreWhole` |
| `ControlRoom_proofs!OrderForgotten` | `Spec => []OrderIsForgotten` |
| `ControlRoom_proofs!RoomTurnsNothingBack` | `Spec => NothingTurnsBack`, from `ChecksDoNotReturn` and `EvidenceOnlyAdds` |
| `Deployment_proofs!ServedStaysSound` | `MaxFence = 0 => (Spec => []ServedIsSound)` |
| `Deployment_proofs!EventsFollowActivation` | `MaxFence = 0 => (Spec => []AnnouncedIffActivated)` |
| `Deployment_proofs!ActivationsStayFinal` | `MaxFence = 0 => (Spec => ActivationsAreFinal)` |
| `Deployment_proofs!TypeCorrect` | `DeploymentSpec => []DeploymentTypeOK` |
| `Deployment_proofs!RowsAreTrue` | `DeploymentSpec => []RowsTellTheTruth` |
| `Deployment_proofs!FirstResultStays` | `DeploymentSpec => ResultsAreFinal`, the safety part of `EventsEndOnce` |

### The arguments

**CommandStore.** `OneActiveLease` is not inductive. A state in which two
workers hold leases of the same epoch, while the row is not running, satisfies
it and leads out of it as soon as the command is granted that epoch. The
strengthening `EpochsFence` says that leases are accounted for: the epoch of a
lease in memory was issued, that is, it is at most the epoch of the row, and two
workers never hold one epoch of a command. Granting an epoch above all issued
ones keeps this, and the check of the lease compares the epoch, so the property
follows. `CompletedOutputIsRecorded` holds because `complete` stores the
workflow result in the transaction that sets the status, and a stored result is
never replaced. `AttemptLedger` needs that a command that was never granted has
attempt 0. The action properties follow from single steps and the type
invariant.

**The port.** The refinement maps `issued` to the epoch of the row, `open` to
whether it is running, `held` to command and epoch of the lease in memory, and
`ledger` to the checksum of the stage result. Each action of `CommandStore` is
one step of `FencedExecution` or leaves it alone (`Submit`, `Renew`, a replayed
completion, a terminal failure of a command that does not run, `Tick`); the
proof has one lemma or step for each, and rests on the same strengthening: a
holder whose lease is active holds the epoch that is open. `StageLedger`
implements the same specification, with stage rows for commands and invocations
for workers, although its claims need no expiry. That both do is why code above
the port need not know which store it has.

**LocalWorker.** A step of the loop that touches the store is one transaction of
it and every other step leaves the store's tables alone, so `LoopSpec => Spec`,
and what is proved of the store holds of the composition; likewise for the queue.
`LoopInv` says what the places of a worker have already committed.
`NothingIsForgotten` needs more than itself: that a worker which is about to
acknowledge holds a command that ended with its result, that one which is about
to mark an event delivered has published its message, and that the message it
holds is the one of its command (`WorkersOK`, `EventsOK`). `CarriedIsRecorded`
is kept when a second command of the same identity records other outputs,
because outputs are recorded once and an attempt reads what it continues with.
`ResultHasArtifact` needs that the artifact of a checkpoint in memory is in the
store as soon as the worker has passed `PutArtifact`, whoever overtakes it then.

**LocalLineage.** None of its properties is inductive; `LineageInv` adds what the
parts rely on. Of a command: the store has what is recorded and what is about to
be recorded (`StoredOK`), the edges of every document it carries or recorded
rest on assertions of the ledger (`DocumentOK`), and those of a command with
checkpoints have all evidence of the graph that it read as its base. An event is
merged after the analysis of its edge (`MergingOK`). Of a proposal: its first
version is what the eighth stage recorded, which is written once, so a
redelivery finds the proposal that is there; its versions follow one another,
each but the last SUPERSEDED (`VersionsOK`). Of a request: its place in
`approve()` tells the state of the row it decides, and no two requests have
decided one version (`OneDecides`), because the decision compares the lock. The
ledger and the graphs only grow, so whatever a process read stays true of them;
only the activation, which compares base and pointer, may replace the graph, and
its new graph has for every edge of the base either the base's assertions or
those of the proposal, which contain them. Reviewers may put anything in their
place: a row of a graph either rests on the ledger or is one that a correction wrote
(`Reviewed`), and such rows only become more. `RuntimeNeverAlone` and
`EvidenceIsKept` except exactly them (`ByReview`, `Rewrites`); for all others they
follow from the type of the ledger, whose evidence of an edge has an assertion of an
analysis, and from the growth above. The
proof needed the identity of a proposal (the field `first` of `KeyOf`, for the
`proposal_id` that corrections keep, `review.py:208-238`): without it two
corrected proposals of one reconciled artifact were one.

**StageLedger.** `IInv` is `TypeOK` with `RowsOK` (a row that is done has its
artifact, and the rows before it are done), `InvocationsOK` (what an invocation
carries is what the rows before it recorded, and its epoch was issued to it) and
`CallersOK` (a caller that has an answer has the recorded one).

**StagePipeline.** In `CloudWorkflow` the steps of the ledger and those of the
stages leave one another alone, so the theorems on the ledger carry over.
`StagesInv` is the type invariant with three parts. `DocumentsOK`: a document a
workflow has handed on was derived from the revision it pinned, whatever has been
pushed since. `WorkersOK`: a result that a worker of the map holds, or has
written, tells of its own file at that revision, complete only if all its edges
were found. `PublishedIsKept`: the graph of the pointer has the edges of every
workflow that was published, because a publication compares the pointer with its
base. `CompleteMeansAnalysed` follows, since the aggregation counts one result
for every file in the scope.

**LaneBroker.** `Budgeted`: a message that waits has a delivery left, so an
exhausted one is dead and cannot be claimed. `Numbered`: sequence numbers count
publications, so the newest head is the one with the greatest number.
`Receipts`: no two receivers have receipts of one epoch of a message, and none
has one that was not issued. With them `DeliveredInTurn` and
`NewestHeadSurvives` are inductive. `NoMessageLost` is about single steps.

**CloudPublication.** A graph version is reached by what its publisher did, in
order, so `IInv` describes each function by what must be true where it stands:
`PublisherRuns(k)` (an approval is there before staging, the rows are staged
before they are verified, verified before the pointer moves), `DeployerRuns(e)`
likewise, and around them `OneAfterAnother` (versions of a proposal are decided
in turn), `PointerIsAnnounced`, `BasesWereActive`, `PackagesAreRegistered`,
`RegisteredIsAnnounced` and `AnnouncedIsStaged`. The property excepts graphs whose
base is in `restaged`: a namespace whose rows were written again, and came out
different, after it had been active (section 5). A publisher that failed before, or
that staged more than once before the swap, is no exception. Two proposals are too few
for the exception; in the run no base is written again, and the theorem covers it.

**RuntimePlane.** `ActiveAreAllowed` says of leases that whatever would forbid an
active one has ended it: each of disabling, revoking and switching ends the
leases it covers in its own transaction, and the second transaction of a renewal
checks again. For sessions `RowInv` relates state, outcome and what is stored,
and `CallInv` says what a request may rely on between its transactions. Between the
read and the write of `close` nothing is stored, because the row it read was
draining (`Frozen`). `mark_ready` and `begin_drain` write the state they computed
from an old read, and can take a closed session back. A session that was taken
back is in `reopened`, and `RowInv` and `Frozen` say what remains true of it: what
its agent was told is stored stays stored, and a close that calls it COMPLETE has
all of that. The theorems need no hypothesis about who calls when; the properties
except reopened sessions only where the code breaks them (`NothingAfterTheEnd`,
section 5).
For the producer `Flow` has `BatchIsPrefix` (what a flush sends is still the head of
the buffer), `Balanced` (the counters add up) and `Accounted` (a payload is
delivered, buffered or counted as lost), and `SavedFlow` says the same of the
snapshot, in which what was buffered stands for what a restart counts as lost. Both
are about the payloads that the producer knows of, all but those in `forgotten`.
`TallyInv` matches the counters with the payloads one by one.

**ControlRoom.** For the pinned runs `MomentsAgree` says that the fence of the
pointer never comes back: two moments with one fence have one graph. What a
stage saw was true at some moment since the pin (`GateSound`, `NightSound`), and
the last comparison of pin and pointer turns that into the moment of the
verdict. The local gate keeps `Honest`: reasons and block are what the pinned
version gives for the changes evaluated so far. A snapshot keeps `Sound`: what
was read before the check of the checkout is what the check saw. For the cell
`Whole` is kept for every proposal, package and queued deployment: it has all
edges of its revision, because the scope of a plan is either empty, when no file in
the scope of the revision changed, or all files in it. It may have more: the edges
of files that were removed (`RemovedEdgesVanish`, section 5).

**Publisher.** The hypothesis `MaxFence = 0` says that nobody calls
`rollback()`; in the code only a test does, and with it the properties are false
(section 5). They hold for callers that run one operation side by side, for
storages that spoil rows and for any crashes. None of them is inductive, because
`WriteBatch` sets the stage of an operation without looking at it: the stage alone
says nothing. `IInv` therefore says what each stage still guarantees wherever a
slow writer has set it back to. `OperationInv`: the rows below `next` are there,
and all of them in every stage that follows the batches; VERIFIED means intact;
the event is there just when the namespace has been served; and an operation with
an event does not hold the fence any more, which is what makes a second activation
impossible. `CallInv` says what a call may rely on in the row it read, `NamespaceInv`
that what was served is intact, that only a spoilt namespace is discarded and that
no namespace exists for a token still to come, and `TokensGrow` that a reserved
token is above the one of the pointer. The proof rests on one idea, `Grows`: rows,
events, tokens and served namespaces are never taken back by any step, so that
whatever another call may rely on stays true (`CallKept`, `OperationKept`). Then
each action has a lemma for the few things it changes, and the two activations
share `SwapKeeps`.

**Deployment.** `RowsTellTheTruth` needs what a call of `handle()` carries between
its transactions (`CallInv`): a result of PROMOTED is about a successful deployment
and the namespace of its own package, one of LINEAGE_OUT_OF_SYNC about a successful
deployment. `SpeaksForItsOwn` says that the event in a state row is one of that
system that was accepted, so that whatever ends another event leaves the row alone.
Of the pointer only `PointerTyped` is needed: promotions lead to namespaces. That
the environment begins with a largest package rests on `LargestOf`, which follows
from the well-foundedness of strict inclusion among finite sets.

**Evidence of an execution.** `WitnessInv` relates the place of the stage to what
it has: before it grants itself a session nothing is witnessed, before the Java
part nothing is kept, at the compiler what is kept is the selection of the
checkout. That the selection compiles (`SelectionCompiles`) rests on two
functions that are defined by rounds: the files that can be compiled shrink, and
what is referenced grows. A set that grows inside a finite one is the same from
the round on whose number is the size of that one (`GrowingEnds`,
`ShrinkingEnds`), so the last round is closed. The proof found that unique class
names are not enough, and `NamesAreClear` says what is (section 5).

**Questions.** `SearchInv` says what a breadth-first search knows at any moment:
every entry of `best` is the subject or is reached from a nearer one by an edge,
and it waits in the queue, or lies at the depth of the question, or has been
passed on: the targets of all its edges are known as near as it makes them
(`Passed`). When the queue is empty and nothing was cut, what is known is closed
under the edges, hence all that is downstream (`ImpactWhole`). For the projection
a `Trail` is a path that uses no relationship twice; as there are finitely many
relationships and trails are short, the rows are a finite set, and a limit that
is not below their number leaves all of them (`AllRows`); the flag of the projection
says exactly that the limit is below it (`RowsAreMany`). A shortest way from the
subject uses no relationship twice, so both sides find the same distances
(`ImpactAgrees`), unless the flag is set; and what the projection leaves out without
a flag, the local search flags. `WalkInv` is the same for a neighbourhood: every edge of it is
on a trail of that length, and upstream every step from a node that is not in the
frontier has been followed (`LineageAgrees`). Downstream the last part is false,
which is what `ControlRoom_partial` shows. `Graphs` may be any finite sequences of
edges over a finite set of nodes.

**Evidence of an edge.** `EdgeInv` says that the provenance of the newest version is
strictly sorted by id and that the version is what `Derivation` makes of it. In a
sorted provenance the first place with a property holds the least id with it
(`LeastFirst`), so the text does not depend on the order of arrival
(`Forgotten`). A merge adds one id and takes none away, and `Band` is monotone in
the set of mechanisms unless that set is empty (`BandGrows`), which the code
excludes by raising.

These proofs need induction over numbers and sequences. The induction theorems of the
library take an operator and cannot be instantiated, but the least number of a set
of naturals can be had without: inclusion is well-founded on the finite subsets of a
set, and the intervals below the members are such (`LeastNumber`). Each induction
is then a step that takes the least exception and shows that there is none.

### Only model-checked

* Liveness: `AcceptedSettles`, `PublicationEnds`, `EventEnds` (of `EventsEndOnce`;
  its other part is `FirstResultStays`), `WorkSettles`. Fairness and ENABLED are
  out of the reach of the prover.
* The properties that the code breaks (section 5).

## 5. Where code and documents differ

Shown by a run, with a finding in `PROJECT.json` that quotes the document:

* `ControlRoom_partial`: `lineage()` does not follow a source that an edge has
  beside the node it was reached from (`services/query.py:62`), so that an answer
  which is not flagged as truncated leaves out edges.

The modules also state the following. They belong to no run; added to the `.cfg`
named, TLC refutes each.

* `AcceptedSettles` in `LocalWorker_accepted`, with `MaxDeliveries = 2`,
  `DeadlineTicks = 6` and `MaxTime = 7`, which stand for the 5 attempts, 5
  deliveries and 900 s of the events lane. When the last attempt outlives its lease,
  the message becomes dead instead of being delivered again, and nothing looks at
  the command's attempts or deadline then (`services/orchestration.py:281`,
  `local_broker.py:444`;
  `src/docs/build-prds/B05-classifier-and-orchestrator.md:51`: "Every accepted command
  terminates visibly"). The interactive lane is safe: its deadline comes first.
* `CorrectionReachesLedger` in `LocalLineage_workflows`: a correction changes a
  proposal and no row of the ledger (`review.py:193-289`), and the next proposal
  starts from what was corrected. `src/docs/component-prds/09-proposal-review-and-autopublish.md:85`
  has "Correction creates edge v+1 and proposal v+1".
* `ApprovalIsNotLost` in `LocalLineage_workflows`: `approve()` commits the decision
  and then publishes (`orchestration.py:1721-1726`). A process that stops in between
  leaves a version that nothing publishes and that cannot be approved again; likewise
  an operation that lost its token is never staged again (`publisher.py:639`).
  `src/docs/build-prds/B12-publisher-and-projection-manager.md:79`: "approval is never lost".
* `ActiveNamespaceStays` in `CloudPublication_reviews`, with one reviewer,
  `MaxVersion = 1`, `Events = {"ep", "eq"}` and no failed event: `_publish` stages
  without asking whether its namespace was active before
  (`application/stage_handlers.py:1598-1643`). A publication whose receipt was lost,
  called again after a deployment moved the pointer back to its base, writes into a
  namespace that is registered and served, which
  `src/docs/component-prds/10-fenced-publication-and-projections.md:68` forbids.
* `NothingAfterTheEnd` in `RuntimePlane_evidence`: `mark_ready`
  (`runtime.py:134-142`) and `begin_drain` (`170-182`) write a state computed from an
  old read over CLOSED, and the session stores observations again, which
  `src/docs/component-prds/06-runtime-observation-plane.md:75` and `:79` forbid.
* `WindowForgetsNothing` in `RuntimePlane_evidence`: a producer that restarts from a
  snapshot older than its last enqueue has those records in no counter and calls its
  window COMPLETE (`runtime/producer.py:97-131`), against
  `src/docs/plans/2026-08-07-runtime-lineage-instrumentation.md:130`.
* `RemovedEdgesVanish` in `ControlRoom_shown`: removed paths are looked for in the
  scope of the new inventory (`collection_runner.py:1130`, `1149-1154`), and no stage
  fills the tombstones that
  `src/docs/plans/2026-08-05-lineage-collection-architecture-refactor-design.md:481` describes;
  the edges of a removed file stay.
* `ProjectionIsWhole` in `ControlRoom_shown`: `impact()` of the projection is flagged
  by its limit of rows and never by its depth (`neptune_projection.py:264`), where
  `src/docs/component-prds/11-apis-review-ui-and-pr-gate.md:118` wants "never
  partial-silent".

Seen while modelling the local product:

* The recovery sweep of the broker compares texts whose order is not that of the
  instants within a second (`local_broker.py:448`, `:254`): with
  `TicksPerSecond = 2` a delivery is taken back before its visibility timeout.
* A late claim makes a completed command `FAILED_TERMINAL`
  (`sqlite_control.py:179`, `src/README.md:140`).
* The handler of an older event can move the pointer back after a newer one was
  promoted (`deployment.py:202`).
* An older dead letter that is redriven can be in flight beside a later message
  of its group, which is why `GroupsAreFifo` excepts redriven messages.
* `rollback()` accepts a namespace that was never verified
  (`publisher.py:944-947`), and two rollbacks around a reservation let the token
  of the pointer go down (`publisher.py:955`). Only tests call it, so
  `ActiveIsIntact` and `PointerIsFenced` are checked without rollbacks; with
  `MaxFence = 2` TLC finds both.
* A slow writer of edges sets the stage of an operation back, even of a
  completed one (`publisher.py:543-550`). The namespace does not change
  (`ServedRowsAreFinal`), and nothing activates twice (`ActivatesOnce`).
* When rollbacks have led to a namespace in staging and back, the activation of
  its operation finds it PRIOR, not STAGING (`publisher.py:659-669`), and no row
  of `graph_versions` is ACTIVE afterwards.
* Two deliveries of one event that run at once may report `FAILED_TERMINAL` for
  a promotion that took effect (`deployment.py:214-226`). The pointer is one per
  environment and `deployment_state` one per system; two systems in one
  environment replace each other's graph.
* A proposal reconciled with runtime evidence has no run, and its approval ends
  in `RUN_NOT_FOUND` after it has committed. A second proposal of one base stays
  APPROVED for ever. A crash after the proposal is stored leaves it without its
  evidence. A retried I9 after the decision sets the run back to `IN_REVIEW`.
* The local gate is given the head it asks about, so `PR_HEAD_SUPERSEDED` never
  fires.

Seen while modelling AWS:

* An approved proposal for an artifact that is published already is never
  activated. A correction that failed half way leaves a file that no later one
  can write. A retried D5 promotes again; a failed one never succeeds after
  another system moved the pointer.
* A crash between the artifact of a pin and its record, and a pointer that moves
  then, make the stage conflict with its own artifact at every retry.
* The child of the distributed map exports its whole state
  (`src/infra/workflows/baseline.asl.json:380-431`) while the aggregation accepts
  only `outcome` and `output` (`application/sca_aggregation.py:239`); the constant `Wrapped`
  is FALSE as in the tests.
* One file that cannot be parsed fails the whole Baseline; changed paths are
  relative to the previous push and not to the active base.
* An older event's check of the same head may overwrite a newer one; stages of
  gates and nightly runs that are redone after their artifact was written
  conflict for ever.
* A collection's head document is written before its approval, so a resubmission
  after a rejection finds no changes; a restart leaves queued collections where
  they are; the worker's update of the whole status document overwrites a
  publication marked stale.

Seen while modelling the runtime plane:

* An exception that escapes the parsing of an observation leaves `observe` without
  counting a rejection (`runtime.py:157-162`).
* The selection of Java files resolves an import by the simple name of a class
  (`application/java_runtime_stage.py:276`) and looks at a name without an import
  only if it is that of a file it dropped (`304-309`). A file that imports an absent
  class while another file has its simple name, or that uses a neighbour that no
  file declares, is kept and fails the compiler. `KeptFilesCompile` is about
  checkouts without such names (`NamesAreClear`).
* A repository that javac cannot compile hides an ambiguous parent
  (`application/java_runtime_stage.py:237-313`); a verdict may be `CORROBORATED` although
  another stage failed; only the first Python path runs.

## 6. What is not modelled, and the plan

`PROJECT.json` gives the reason for each part. Data is abstracted: a row is
right or wrong, an artifact is its content, a graph a small set of edges. Pure
functions (analysers, classification), the text of generated code, cloud
services and presentation are left out, and so are the LLM gateway and the
resolver, which no workflow calls. `stage()` and `activate()` of the publisher
are called only by tests; the dispatcher never passes a supersession key, so the
supersession of `LaneBroker` is reached by direct callers only.

Every safety property that a passing run checks is also a theorem. The hypothesis
`MaxFence = 0` stands for behaviour of the code in which the properties are false
(section 5), so it goes only when the code changes.

Modelling that would follow: the validation of documents and the resources of
collections, and the DynamoDB forms of intake and of runtime policy, which differ
from the local ones in how their transactions are split.
