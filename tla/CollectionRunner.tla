--------------------------- MODULE CollectionRunner ---------------------------
(***************************************************************************)
(* The collections and deployments that a user submits to the cell         *)
(* (scripts/floci/collection_runner.py, floci_product_api.py): the API     *)
(* writes a status document and enqueues a job in memory; one worker       *)
(* drives the stages of each job in turn, and holds the status document    *)
(* while it does; the API publishes what is approved.  StagePipeline and   *)
(* CloudPublication model the stages; here they are what they result in.   *)
(***************************************************************************)
EXTENDS Integers, FiniteSets, Sequences

CONSTANTS
  Submitted,     \* revisions
  Files,
  Lineage,       \* the files in the scope of the analyser
  Archive,       \* Archive[r]: the files of a revision, with what is in them
  MaxAttempts, MaxQueued, MaxGraphs,   \* bounds: attempts of a revision; jobs that wait;
  MaxStops                             \* active graphs; failures, restarts and publications
                                       \* of other systems

Nothing == "NONE"
Commands == Submitted \X (1 .. MaxAttempts)

ASSUME RunnerAssumption ==
  /\ Nothing \notin Submitted /\ Lineage \subseteq Files
  /\ \A r \in Submitted : DOMAIN Archive[r] \subseteq Files
  /\ {MaxAttempts, MaxQueued, MaxGraphs, MaxStops} \subseteq Nat

VARIABLES
  key,         \* key[r]: the attempt that is the head of a collection key, or 0
  status,      \* status[c]: the status document of a command
  queue,       \* the jobs in memory
  worker,      \* the job of the worker, and what it holds
  repository,  \* the revision that is the head of the repository
  reviews,     \* reviews[c]: the proposal of a command
  draining,    \* is the outbox of approved proposals being drained?
  active,      \* the active graph: how many there have been, its revision and edges
  packages,    \* packages[r]: the edges of the package that was published for it, or NoPackage
  stops

runnerVars == <<key, status, queue, worker, repository, reviews, draining, active, packages, stops>>

NoPackage == {Nothing}
NoProposal == [state |-> "NONE", base |-> 0, edges |-> {}]
NoJob == [command |-> Nothing, at |-> "IDLE", kind |-> "NONE", base |-> 0, scope |-> {}]

\* The scope of the analyser is taken of the files that a revision has; an edge is known by
\* its ends and its type, so that another content of a file is another edge.
ScopeOf(r) == Lineage \cap DOMAIN Archive[r]
EdgesOf(r, files) == {<<f, Archive[r][f]>> : f \in files}

RunnerInit ==
  /\ key = [r \in Submitted |-> 0]
  /\ status = [c \in Commands |-> "NONE"]
  /\ queue = << >> /\ worker = NoJob
  /\ repository = Nothing
  /\ reviews = [c \in Commands |-> NoProposal]
  /\ draining = FALSE
  /\ active = [version |-> 0, of |-> Nothing, edges |-> {}]
  /\ packages = [r \in Submitted |-> NoPackage]
  /\ stops = 0

Mishap == stops < MaxStops /\ stops' = stops + 1
-----------------------------------------------------------------------------
(* Submissions.                                                            *)

\* A collection whose last attempt has not failed is answered with that attempt, which
\* changes nothing; a new one has its document and its key before its job.
SubmitCollection(r) ==
  LET attempt == key[r] + 1 IN
  /\ key[r] # 0 => status[<<r, key[r]>>] = "FAILED"
  /\ attempt <= MaxAttempts /\ Len(queue) < MaxQueued
  /\ key' = [key EXCEPT ![r] = attempt]
  /\ status' = [status EXCEPT ![<<r, attempt>>] = "QUEUED"]
  /\ queue' = Append(queue, <<"COLLECTION", <<r, attempt>>>>)
  /\ UNCHANGED <<worker, repository, reviews, draining, active, packages, stops>>

\* A deployment is of a package that is published.
SubmitDeployment(r) ==
  /\ packages[r] # NoPackage /\ active.of # r /\ active.version < MaxGraphs
  /\ Len(queue) < MaxQueued
  /\ queue' = Append(queue, <<"DEPLOYMENT", r>>)
  /\ UNCHANGED <<key, status, worker, repository, reviews, draining, active, packages, stops>>
-----------------------------------------------------------------------------
(* The worker.                                                             *)

Goes(at) == worker' = [worker EXCEPT !.at = at]
OnlyWorker == UNCHANGED <<key, queue, repository, reviews, draining, active, packages, stops>>
\* The whole document is written as the worker holds it.
Updates(state) == status' = [status EXCEPT ![worker.command] = state]
Settles(state) == Updates(state) /\ worker' = NoJob

TakeCollection ==
  /\ worker = NoJob /\ queue # << >> /\ Head(queue)[1] = "COLLECTION"
  /\ queue' = Tail(queue)
  /\ worker' = [NoJob EXCEPT !.command = Head(queue)[2], !.at = "PLAN"]
  /\ status' = [status EXCEPT ![Head(queue)[2]] = "RUNNING"]
  /\ UNCHANGED <<key, repository, reviews, draining, active, packages, stops>>

\* The plan: a Baseline where nothing is published; otherwise the difference from the
\* head of the repository, and the whole scope of the analyser if that touches it.  The
\* scope is that of the new revision: a file that it removed is not in it.
Running == worker.command[1]
Differing(r, head) ==
  {f \in Files : (f \in DOMAIN Archive[r]) # (f \in DOMAIN Archive[head])}
    \cup {f \in DOMAIN Archive[r] \cap DOMAIN Archive[head] : Archive[r][f] # Archive[head][f]}
\* Mistake: what differs is the scope.
DeltaScope(r, head) == Differing(r, head) \cap ScopeOf(r)
Closure(r, head) == IF Differing(r, head) \cap ScopeOf(r) = {} THEN {} ELSE ScopeOf(r)
Plan ==
  /\ worker.at = "PLAN"
  /\ \/ /\ \A r \in Submitted : packages[r] = NoPackage
        /\ worker' = [worker EXCEPT !.at = "PIN", !.kind = "BASELINE", !.scope = ScopeOf(Running)]
        /\ UNCHANGED status
     \/ /\ \E r \in Submitted : packages[r] # NoPackage
        /\ repository = Nothing
        /\ worker' = [worker EXCEPT !.at = "PIN", !.kind = "INCREMENTAL", !.scope = ScopeOf(Running)]
        /\ UNCHANGED status
     \/ /\ \E r \in Submitted : packages[r] # NoPackage
        /\ repository = Running
        /\ Settles("NO_CHANGES")
     \/ /\ \E r \in Submitted : packages[r] # NoPackage
        /\ repository \notin {Nothing, Running}
        /\ worker' = [worker EXCEPT !.at = "PIN", !.kind = "INCREMENTAL",
                                    !.scope = Closure(Running, repository)]
        /\ UNCHANGED status
  /\ OnlyWorker

\* Intake, and B1 or I1.
Pin ==
  /\ worker.at = "PIN"
  /\ worker' = [worker EXCEPT !.at = "PROPOSE", !.base = active.version]
  /\ UNCHANGED status /\ OnlyWorker

\* The stages up to B9 or I9: an Incremental fails if the graph is not the pinned one any
\* more, and without edges there is no proposal.
Propose ==
  LET edges == EdgesOf(Running, worker.scope) IN
  /\ worker.at = "PROPOSE"
  /\ \/ /\ worker.kind = "INCREMENTAL" /\ active.version # worker.base
        /\ Settles("FAILED") /\ UNCHANGED reviews
     \/ /\ worker.kind = "INCREMENTAL" => active.version = worker.base
        /\ reviews' = IF edges = {} THEN reviews
                      ELSE [reviews EXCEPT ![worker.command] =
                              [state |-> "IN_REVIEW", base |-> worker.base, edges |-> edges]]
        /\ Goes("TERMINAL") /\ UNCHANGED status
  /\ UNCHANGED <<key, queue, repository, draining, active, packages, stops>>

\* B10 or I10: the collection is complete, and its proposal waits for a review.
Complete ==
  /\ worker.at = "TERMINAL"
  /\ Updates("COMPLETED") /\ Goes("HEAD")
  /\ OnlyWorker
PutHead ==
  /\ worker.at = "HEAD"
  /\ repository' = Running
  /\ worker' = NoJob
  /\ UNCHANGED <<key, status, queue, reviews, draining, active, packages, stops>>

\* A step raises.
Fail ==
  /\ worker # NoJob /\ Mishap
  /\ Settles("FAILED")
  /\ UNCHANGED <<key, queue, repository, reviews, draining, active, packages>>

\* D1-D6 point the environment to the graph of the package, or fail.
RunDeployment ==
  /\ worker = NoJob /\ queue # << >> /\ Head(queue)[1] = "DEPLOYMENT"
  /\ queue' = Tail(queue)
  /\ LET r == Head(queue)[2] IN
     \/ /\ active' = [version |-> active.version + 1, of |-> r, edges |-> packages[r]]
        /\ UNCHANGED stops
     \/ /\ Mishap /\ UNCHANGED active
  /\ UNCHANGED <<key, status, worker, repository, reviews, draining, packages>>

\* The process starts again, without its jobs.
Restart ==
  /\ Mishap
  /\ queue' = << >> /\ worker' = NoJob /\ draining' = FALSE
  /\ UNCHANGED <<key, status, repository, reviews, active, packages>>
-----------------------------------------------------------------------------
(* Reviews, and the publication of what is approved.                       *)

OnlyReviews == UNCHANGED <<key, queue, worker, repository, stops>>

Review(c, decision) ==
  /\ ~draining
  /\ reviews[c].state = "IN_REVIEW"
  /\ reviews' = [reviews EXCEPT ![c].state = decision]
  /\ draining' = (decision = "APPROVED")
  /\ OnlyReviews /\ UNCHANGED <<status, active, packages>>

\* What is published: the base with the edges of the proposal laid over it.  No collection
\* names an edge to be removed.
Overlay(c) == active.edges \cup reviews[c].edges

\* The drain publishes on the base of the proposal, the first package of the revision, or
\* settles the proposal and its collection as stale.
PublishApproved(c) ==
  LET edges == Overlay(c) IN
  /\ draining /\ reviews[c].state = "APPROVED"
  /\ reviews[c].base = active.version /\ packages[c[1]] = NoPackage
  /\ active' = [version |-> active.version + 1, of |-> c[1], edges |-> edges]
  /\ packages' = [packages EXCEPT ![c[1]] = edges]
  /\ reviews' = [reviews EXCEPT ![c].state = "PUBLISHED"]
  /\ OnlyReviews /\ UNCHANGED <<status, draining>>
MarkStale(c) ==
  /\ draining /\ reviews[c].state = "APPROVED"
  /\ reviews[c].base # active.version
  /\ reviews' = [reviews EXCEPT ![c].state = "STALE"]
  /\ status' = [status EXCEPT ![c] = "FAILED"]
  /\ OnlyReviews /\ UNCHANGED <<active, packages, draining>>

\* The drain is done, or another error ends it.
OutboxDrained ==
  /\ draining
  /\ draining' = FALSE
  /\ UNCHANGED <<key, status, queue, worker, repository, reviews, active, packages, stops>>

\* Another system's graph is published in the environment.
PublishForeign ==
  /\ Mishap
  /\ active' = [active EXCEPT !.version = @ + 1]
  /\ UNCHANGED <<key, status, queue, worker, repository, reviews, draining, packages>>

RunnerNext ==
  \/ \E r \in Submitted : SubmitCollection(r) \/ SubmitDeployment(r)
  \/ TakeCollection \/ Plan \/ Pin \/ Propose \/ Complete \/ PutHead \/ Fail
  \/ RunDeployment \/ Restart
  \/ \E c \in Commands : Review(c, "APPROVED") \/ Review(c, "REJECTED") \/ PublishApproved(c) \/ MarkStale(c)
  \/ OutboxDrained \/ PublishForeign
-----------------------------------------------------------------------------
(* Properties.                                                             *)

\* The active graph has every edge of its revision: also when the head that its delta was
\* taken against was rejected, stale or never published, when attempts failed between,
\* and when an older package was deployed meanwhile.
GraphHasItsRevision ==
  active.of # Nothing => EdgesOf(active.of, ScopeOf(active.of)) \subseteq active.edges

\* It has no edge of a file that its revision removed.  The code breaks it (README, section
\* 5).  (The design says that the removal makes a tombstone,
\* 2026-08-05-lineage-collection-architecture-refactor-design.md:481; a removed file adds
\* nothing to the scope, and no collection sets tombstoneEdgeIds.)
RemovedEdgesVanish ==
  active.of # Nothing => \A edge \in active.edges : edge[1] \in DOMAIN Archive[active.of]
=============================================================================
