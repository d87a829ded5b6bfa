-------------------------- MODULE CloudPublication --------------------------
(***************************************************************************)
(* How lineage becomes active in the AWS deployment.  Workflows pin the    *)
(* active graph and propose a change of it; reviewers approve, reject or   *)
(* correct a version of a proposal; each approval is published by a        *)
(* Lambda function that stages the rows in a namespace of their own,       *)
(* verifies them and moves the pointer of the environment; deployment      *)
(* events move the same pointer to the package of the deployed artifact.   *)
(*                                                                         *)
(* A function may stop between any two of its calls.  What called it calls *)
(* again, a bounded number of times; the stages that were recorded are     *)
(* then skipped.  Digests are represented by what they are digests of: a   *)
(* graph version by the version of the proposal, a checksum by the rows, a *)
(* reference to a package by the content of the package.                   *)
(***************************************************************************)
EXTENDS Integers, FiniteSetsExt

CONSTANTS
  Proposals,     \* proposals, one for each workflow
  MaxVersion,    \* bound: versions of a proposal
  Edges,         \* rows of the projection
  Adds,          \* Adds[p]: the edges its first version writes
  Removes,       \* Removes[p]: the edges it removes
  Corrections,   \* sets of edges a reviewer may correct a version to
  DigestOf,      \* DigestOf[p]: the artifact of a proposal, or of an event
  SystemOf,      \* SystemOf[d]: the system of an artifact
  Reviewers,
  Requests,      \* Requests[r]: the proposals a reviewer decides, each with the action
  Events,        \* deployment events
  OrderOf,       \* OrderOf[e]: place of the event in the provider's order
  FailedEvents,  \* events that report a failed deployment
  MaxTries,      \* bound: invocations of one function for one message
  MaxFaults,     \* bound: crashed or throttled invocations
  NoPackage, NoEvent

ASSUME ProposalAssumption ==
  /\ Adds \in [Proposals -> SUBSET Edges]
  /\ Removes \in [Proposals -> SUBSET Edges]
  /\ \A p \in Proposals : Adds[p] \cap Removes[p] = {}
  /\ Corrections \subseteq SUBSET Edges
  /\ \A p \in Proposals, c \in Corrections : c # {} /\ c \cap Removes[p] = {}
  /\ Requests \in [Reviewers -> SUBSET (Proposals \X {"APPROVE", "REJECT", "CORRECT"})]
  /\ MaxVersion \in Nat \ {0} /\ MaxTries \in Nat \ {0} /\ MaxFaults \in Nat
ASSUME EventAssumption ==
  /\ OrderOf \in [Events -> Nat]
  /\ FailedEvents \subseteq Events
  /\ Events \cap Proposals = {}
  /\ NoEvent \notin Events
  /\ NoPackage \notin [version : Proposals \X Nat, rows : SUBSET Edges, fence : Nat]

Versions == Proposals \X (1 .. MaxVersion)
None == <<"NONE", 0>>      \* no graph is active
GraphVersions == Versions \cup {None}
Digests == {DigestOf[x] : x \in Proposals \cup Events}
Systems == {SystemOf[d] : d \in Digests}

VARIABLES
  proposal,   \* proposal table: each version of each proposal
  evidence,   \* evidence bucket: the approvals and corrections written
  review,     \* where each reviewer's request is
  rows,       \* Neptune: the rows of each namespace
  pointer,    \* pointer table: the ACTIVE item of the environment
  registry,   \* ledger table: the PACKAGE item of each artifact
  announced,  \* ledger table: the events of pointer moves
  publisher,  \* the publication of each approved version
  state,      \* control table: the deployment state of each system
  deployer,   \* where the stages of each deployment event are
  faults,
  restaged    \* history: graphs whose namespace changed after they were active

reviewVars == <<proposal, evidence, review>>
graphVars == <<rows, pointer, registry, announced, restaged>>
vars == <<reviewVars, graphVars, publisher, state, deployer, faults>>

Unborn == [state |-> "NONE", lock |-> 0, base |-> None, fence |-> 0, adds |-> {}]
NoReview == [pc |-> "idle", of |-> None, action |-> "NONE", lock |-> 0, edges |-> {}]
Waiting == [pc |-> "ready", fence |-> 0, expected |-> {}, tries |-> 0]
NoState == [event |-> NoEvent, status |-> "NONE", result |-> "NONE"]
Delivered == [pc |-> "D2", package |-> NoPackage, prior |-> None, fence |-> 0,
              tries |-> 0]

Init ==
  /\ proposal = [k \in Versions |-> Unborn]
  /\ evidence = {}
  /\ review = [r \in Reviewers |-> NoReview]
  /\ rows = [k \in GraphVersions |-> {}]
  /\ pointer = [version |-> None, rows |-> {}, fence |-> 0, package |-> NoPackage,
                by |-> NoEvent]
  /\ registry = [d \in Digests |-> NoPackage]
  /\ announced = {}
  /\ publisher = [k \in Versions |-> Waiting]
  /\ state = [s \in Systems |-> NoState]
  /\ deployer = [e \in Events |-> Delivered]
  /\ faults = 0
  /\ restaged = {}

Fault == faults < MaxFaults /\ faults' = faults + 1
-----------------------------------------------------------------------------
(* Workflows propose.                                                      *)

\* I1: pin the active graph and its fence.
PinBase(p) ==
  /\ proposal[<<p, 1>>].state = "NONE"
  /\ proposal' = [proposal EXCEPT ![<<p, 1>>] =
                    [@ EXCEPT !.state = "PINNED", !.base = pointer.version,
                              !.fence = pointer.fence]]
  /\ UNCHANGED <<evidence, review, graphVars, publisher, state, deployer, faults>>

\* A version in review, at its first lock.
Opened(row, edges) == [row EXCEPT !.state = "IN_REVIEW", !.lock = 1, !.adds = edges]

\* I8 and I9: recheck the base and create the proposal.  A workflow whose base
\* moved fails and raises no proposal.
CreateProposal(p) ==
  LET k == <<p, 1>>
  IN  /\ proposal[k].state = "PINNED"
      /\ proposal' =
           IF pointer.version = proposal[k].base /\ pointer.fence = proposal[k].fence
           THEN [proposal EXCEPT ![k] = Opened(@, Adds[p])]
           ELSE [proposal EXCEPT ![k].state = "FAILED"]
      /\ UNCHANGED <<evidence, review, graphVars, publisher, state, deployer, faults>>
-----------------------------------------------------------------------------
(* Reviewers decide.                                                       *)

\* review_proposal reads the version and checks it before it writes anything.
ReadProposal(r, k, action, edges) ==
  /\ review[r].pc = "idle"
  /\ <<k[1], action>> \in Requests[r]
  /\ proposal[k].state = "IN_REVIEW"
  /\ action = "CORRECT" => k[2] < MaxVersion
  /\ review' = [review EXCEPT ![r] = [pc |-> "put", of |-> k, action |-> action,
                                      lock |-> proposal[k].lock, edges |-> edges]]
  /\ UNCHANGED <<proposal, evidence, graphVars, publisher, state, deployer, faults>>

\* The evidence is written before the decision, under a key that is written
\* once.  An approval holds the time of the request, so the same reviewer's
\* second try never writes the same; a correction's key belongs to the version.
PutEvidence(r) ==
  LET v == review[r]
      key == IF v.action = "CORRECT" THEN <<v.of, "edges">> ELSE <<v.of, v.action, r>>
      same == {x \in evidence : x.key = key}
  IN  /\ v.pc = "put"
      /\ IF same = {} \/ (v.action = "CORRECT" /\ \A x \in same : x.edges = v.edges)
         THEN /\ evidence' = evidence \cup {[key |-> key, edges |-> v.edges]}
              /\ review' = [review EXCEPT ![r].pc = "commit"]
         ELSE /\ review' = [review EXCEPT ![r] = NoReview]
              /\ UNCHANGED evidence
      /\ UNCHANGED <<proposal, graphVars, publisher, state, deployer, faults>>

\* Mistake: the transaction does not compare the state again.
StillOpenAlways(k, lock) == TRUE

\* The condition of the transaction on the version that was read.
StillOpen(k, lock) == proposal[k].state = "IN_REVIEW" /\ proposal[k].lock = lock

Decided(row, as) == [row EXCEPT !.state = as, !.lock = @ + 1]

\* A correction supersedes the version and stores its successor.
Corrected(v) ==
  LET next == <<v.of[1], v.of[2] + 1>>
  IN [proposal EXCEPT ![v.of] = Decided(@, "SUPERSEDED"),
                      ![next] = Opened(proposal[v.of], v.edges)]

\* The decision, its audit row and the PROPOSAL_APPROVED record in one
\* transaction; of two reviewers one gets CONCURRENT_DECISION.
CommitDecision(r) ==
  LET v == review[r]
      decided == IF v.action = "APPROVE" THEN "APPROVED" ELSE "REJECTED"
  IN  /\ v.pc = "commit"
      /\ review' = [review EXCEPT ![r] = NoReview]
      /\ proposal' =
           IF ~StillOpen(v.of, v.lock) THEN proposal
           ELSE IF v.action = "CORRECT" THEN Corrected(v)
           ELSE [proposal EXCEPT ![v.of] = Decided(@, decided)]
      /\ UNCHANGED <<evidence, graphVars, publisher, state, deployer, faults>>

\* A write of the request is throttled: the reviewer gets an error.
ReviewFails(r) ==
  /\ review[r].pc # "idle"
  /\ Fault
  /\ review' = [review EXCEPT ![r] = NoReview]
  /\ UNCHANGED <<proposal, evidence, graphVars, publisher, state, deployer>>
-----------------------------------------------------------------------------
(* The publication of an approved version.                                 *)

Package(k, checksum, fence) == [version |-> k, rows |-> checksum, fence |-> fence]

\* A call of the function ends without a receipt; the stream calls again until
\* the record goes to the dead letter queue.
Again(k) ==
  publisher' = [publisher EXCEPT ![k] =
                  [Waiting EXCEPT !.tries = @ + publisher[k].tries + 1,
                                  !.pc = IF publisher[k].tries + 1 < MaxTries
                                         THEN "ready" ELSE "dead"]]

OnItsBase(k) == pointer.version = proposal[k].base

\* The function reads the pointer.  A publication that was already activated
\* replays its receipt if the pointer still is the one it wrote.
ReadPointer(k) ==
  LET base == proposal[k].base
  IN  /\ proposal[k].state = "APPROVED"
      /\ publisher[k].pc = "ready"
      /\ IF pointer.version = k
         THEN IF /\ rows[k] = pointer.rows
                 /\ pointer.by = k[1]
                 /\ pointer.package = Package(k, rows[k], pointer.fence)
              THEN publisher' = [publisher EXCEPT ![k].pc = "recorded"]
              ELSE Again(k)
         ELSE IF OnItsBase(k)
              THEN publisher' = [publisher EXCEPT ![k] =
                     [@ EXCEPT !.pc = "copy", !.fence = pointer.fence,
                               !.expected = (rows[base] \ Removes[k[1]])
                                              \cup proposal[k].adds]]
              ELSE Again(k)
      /\ UNCHANGED <<reviewVars, graphVars, state, deployer, faults>>

\* A package refers to the namespace.
WasActive(k) == \E a \in announced : a.package.version = k

\* The calls of Neptune change one namespace and look neither at its fence nor at
\* the packages: a publication whose receipt was lost stages again once a
\* deployment brought its base back.
Stage(k, pc, next, staged) ==
  /\ publisher[k].pc = pc
  /\ rows' = [rows EXCEPT ![k] = staged]
  /\ restaged' = IF WasActive(k) /\ staged # rows[k] THEN restaged \cup {k} ELSE restaged
  /\ publisher' = [publisher EXCEPT ![k].pc = next]
  /\ UNCHANGED <<reviewVars, pointer, registry, announced, state, deployer, faults>>

CopyNamespace(k) == Stage(k, "copy", "delete", rows[k] \cup rows[proposal[k].base])
DeleteEdges(k) == Stage(k, "delete", "merge", rows[k] \ Removes[k[1]])
MergeEdges(k) == Stage(k, "merge", "verify", rows[k] \cup proposal[k].adds)

Verified(k) == rows[k] = publisher[k].expected

VerifyRows(k) ==
  /\ publisher[k].pc = "verify"
  /\ IF Verified(k)
     THEN publisher' = [publisher EXCEPT ![k].pc = "activate"]
     ELSE Again(k)
  /\ UNCHANGED <<reviewVars, graphVars, state, deployer, faults>>

PointerUnmoved(version, fence) == pointer.version = version /\ pointer.fence = fence

\* The pointer moves, an event is written.
MovePointer(package, fence, by) ==
  /\ pointer' = [version |-> package.version, rows |-> package.rows, fence |-> fence,
                 package |-> package, by |-> by]
  /\ announced' = announced \cup {[package |-> package, fence |-> fence, by |-> by]}

\* Mistake: a package takes the place of the one before.
PackageReplaced(digest, package) == TRUE
PackageFits(digest, package) == registry[digest] \in {NoPackage, package}

\* activate_pointer: the pointer, the event and the package of the artifact in
\* one transaction.  The package row is written once.
ActivatePointer(k) ==
  LET package == Package(k, publisher[k].expected, publisher[k].fence + 1)
      digest == DigestOf[k[1]]
  IN  /\ publisher[k].pc = "activate"
      /\ IF /\ pointer.fence = 0 \/ PointerUnmoved(proposal[k].base, publisher[k].fence)
            /\ PackageFits(digest, package)
         THEN /\ MovePointer(package, publisher[k].fence + 1, k[1])
              /\ registry' = [registry EXCEPT ![digest] = package]
              /\ publisher' = [publisher EXCEPT ![k].pc = "record"]
         ELSE /\ Again(k)
              /\ UNCHANGED <<pointer, announced, registry>>
      /\ UNCHANGED <<reviewVars, rows, restaged, state, deployer, faults>>

\* The executor records the receipt and acknowledges the record.
RecordReceipt(k) ==
  /\ publisher[k].pc = "record"
  /\ publisher' = [publisher EXCEPT ![k].pc = "recorded"]
  /\ UNCHANGED <<reviewVars, graphVars, state, deployer, faults>>

\* The function stops, or a call is throttled.
PublisherStops(k) ==
  /\ publisher[k].pc \notin {"ready", "recorded", "dead"}
  /\ Fault
  /\ Again(k)
  /\ UNCHANGED <<reviewVars, graphVars, state, deployer>>
-----------------------------------------------------------------------------
(* The stages of a deployment event.                                       *)

System(e) == SystemOf[DigestOf[e]]

DeployAgain(e) ==
  deployer' = [deployer EXCEPT ![e].tries = @ + 1,
                 ![e].pc = IF deployer[e].tries + 1 = MaxTries THEN "dead"
                           ELSE IF @ = "promote" THEN "D5"
                           ELSE IF @ = "complete" THEN "D6" ELSE @]

\* A stage has its effect and is recorded, or the function stops before the
\* stage is recorded and the stage runs again.
Recorded(e, next) ==
  \/ deployer' = [deployer EXCEPT ![e] = next] /\ UNCHANGED faults
  \/ DeployAgain(e) /\ Fault

\* Mistake: the event that arrived last is the newest.
NewestAlways(e) == TRUE
Newest(e) ==
  LET known == state[System(e)].event
  IN  known \in {NoEvent, e} \/ (known # NoEvent /\ OrderOf[known] < OrderOf[e])

\* D1, D2: the state names the newest event of its system.
EstablishOrder(e) ==
  LET s == System(e)
  IN  /\ deployer[e].pc = "D2"
      /\ IF Newest(e)
         THEN /\ state' = [state EXCEPT ![s].event = e, ![s].status = "AUTHORITATIVE"]
              /\ Recorded(e, [deployer[e] EXCEPT !.pc = "D3"])
         ELSE /\ Recorded(e, [deployer[e] EXCEPT !.pc = "stale"])
              /\ UNCHANGED state
      /\ UNCHANGED <<reviewVars, graphVars, publisher>>

\* complete_deployment, on the condition that the state still names the event.
Complete(e, result) ==
  state' = [state EXCEPT ![System(e)] = [event |-> e, status |-> result, result |-> result]]

\* D3: record the deployed artifact; a failed deployment is complete.
RecordDigest(e) ==
  LET s == System(e)
  IN  /\ deployer[e].pc = "D3"
      /\ IF /\ state[s].event = e
            /\ \/ state[s].status \in {"AUTHORITATIVE", "RECORDED"}
               \/ state[s].result # "NONE"
         THEN IF e \in FailedEvents
              THEN /\ Complete(e, "FAILED_NO_CHANGE")
                   /\ Recorded(e, [deployer[e] EXCEPT !.pc = "done"])
              ELSE /\ state' = [state EXCEPT ![s].status = "RECORDED"]
                   /\ Recorded(e, [deployer[e] EXCEPT !.pc = "D4"])
         ELSE DeployAgain(e) /\ UNCHANGED <<state, faults>>
      /\ UNCHANGED <<reviewVars, graphVars, publisher>>

\* D4: the package of the artifact, whose namespace must hold its rows.
ResolvePackage(e) ==
  LET package == registry[DigestOf[e]]
  IN  /\ deployer[e].pc = "D4"
      /\ IF package = NoPackage /\ state[System(e)].event = e
         THEN /\ Complete(e, "LINEAGE_OUT_OF_SYNC")
              /\ Recorded(e, [deployer[e] EXCEPT !.pc = "done"])
         ELSE /\ IF package # NoPackage /\ rows[package.version] = package.rows
                 THEN Recorded(e, [deployer[e] EXCEPT !.pc = "D5", !.package = package])
                 ELSE DeployAgain(e) /\ UNCHANGED faults
              /\ UNCHANGED state
      /\ UNCHANGED <<reviewVars, graphVars, publisher>>

\* D5 reads the pointer; the package may be active through this very event.
ReadBeforePromote(e) ==
  LET package == deployer[e].package
  IN  /\ deployer[e].pc = "D5"
      /\ IF pointer.version = package.version /\ pointer.by = e
         THEN Recorded(e, [deployer[e] EXCEPT !.pc = "D6"])
         ELSE /\ deployer' = [deployer EXCEPT ![e] =
                    [@ EXCEPT !.pc = "promote", !.prior = pointer.version,
                              !.fence = pointer.fence]]
              /\ UNCHANGED faults
      /\ UNCHANGED <<reviewVars, graphVars, publisher, state>>

StillNewest(e) == state[System(e)].event = e /\ state[System(e)].status = "RECORDED"

\* D5: promote_deployment moves the pointer while it is the one that was read
\* and the event is the newest of its system.
PromotePackage(e) ==
  LET d == deployer[e]
  IN  /\ d.pc = "promote"
      /\ IF PointerUnmoved(d.prior, d.fence) /\ d.fence > 0 /\ StillNewest(e)
         THEN /\ MovePointer(d.package, d.fence + 1, e)
              /\ Recorded(e, [d EXCEPT !.pc = "D6"])
         ELSE /\ DeployAgain(e)
              /\ UNCHANGED <<pointer, announced, faults>>
      /\ UNCHANGED <<reviewVars, rows, restaged, registry, publisher, state>>

\* D6 reads back the pointer and the rows.
ReadBack(e) ==
  LET d == deployer[e]
  IN  /\ d.pc = "D6"
      /\ IF /\ pointer.package = d.package /\ pointer.by = e
            /\ rows[d.package.version] = d.package.rows
         THEN deployer' = [deployer EXCEPT ![e].pc = "complete"]
         ELSE DeployAgain(e)
      /\ UNCHANGED <<reviewVars, graphVars, publisher, state, faults>>

CompletePromotion(e) ==
  /\ deployer[e].pc = "complete"
  /\ IF state[System(e)].event = e
     THEN /\ Complete(e, "PROMOTED")
          /\ Recorded(e, [deployer[e] EXCEPT !.pc = "done"])
     ELSE DeployAgain(e) /\ UNCHANGED <<state, faults>>
  /\ UNCHANGED <<reviewVars, graphVars, publisher>>
-----------------------------------------------------------------------------
Publish(k) ==
  \/ ReadPointer(k) \/ CopyNamespace(k) \/ DeleteEdges(k) \/ MergeEdges(k)
  \/ VerifyRows(k) \/ ActivatePointer(k) \/ RecordReceipt(k)

Deploy(e) ==
  \/ EstablishOrder(e) \/ RecordDigest(e) \/ ResolvePackage(e)
  \/ ReadBeforePromote(e) \/ PromotePackage(e) \/ ReadBack(e) \/ CompletePromotion(e)

Decide(r) == PutEvidence(r) \/ CommitDecision(r)

Next ==
  \/ \E p \in Proposals : PinBase(p) \/ CreateProposal(p)
  \/ \E r \in Reviewers, k \in Versions :
       \/ \E action \in {"APPROVE", "REJECT"} : ReadProposal(r, k, action, {})
       \/ \E edges \in Corrections : ReadProposal(r, k, "CORRECT", edges)
  \/ \E r \in Reviewers : Decide(r) \/ ReviewFails(r)
  \/ \E k \in Versions : Publish(k) \/ PublisherStops(k)
  \/ \E e \in Events : Deploy(e)

\* The stream and the queue call the functions, and a request is answered.
Fairness ==
  /\ \A k \in Versions : WF_vars(Publish(k))
  /\ \A e \in Events : WF_vars(Deploy(e))
  /\ \A r \in Reviewers : WF_vars(Decide(r))

Spec == Init /\ [][Next]_vars /\ Fairness
-----------------------------------------------------------------------------
(* Properties.                                                             *)

TypeOK ==
  /\ proposal \in [Versions -> [state : {"NONE", "PINNED", "FAILED", "IN_REVIEW", "APPROVED",
                                         "REJECTED", "SUPERSEDED"},
                                lock : 0 .. 2, base : GraphVersions, fence : Nat,
                                adds : SUBSET Edges]]
  /\ review \in [Reviewers -> [pc : {"idle", "put", "commit"}, of : GraphVersions,
                               action : {"NONE", "APPROVE", "REJECT", "CORRECT"},
                               lock : 0 .. 2, edges : SUBSET Edges]]
  /\ rows \in [GraphVersions -> SUBSET Edges]
  /\ publisher \in [Versions -> [pc : {"ready", "copy", "delete", "merge", "verify",
                                       "activate", "record", "recorded", "dead"},
                                 fence : Nat, expected : SUBSET Edges, tries : 0 .. MaxTries]]
  /\ \A s \in Systems : state[s].event \in Events \cup {NoEvent}

\* Rows are staged in a namespace and swapped in: nobody writes into the namespace of
\* the active graph.  The code breaks it (README, section 5).
ActiveNamespaceStays ==
  [][pointer.version # None => rows'[pointer.version] = rows[pointer.version]]_vars

\* The rows that a graph had when it became active.
RowsOf(version) ==
  {a.package.rows : a \in {b \in announced : b.package.version = version}}
    \cup {none \in {{}} : version = None}

\* A graph that became active is its base, which had been active, changed by
\* exactly what a reviewer approved.  The exception is a base whose namespace was
\* written after it had become active, against ActiveNamespaceStays.
ChangeOfBase(k, staged) ==
  LET base == proposal[k].base
  IN  \/ base \in restaged
      \/ \E prior \in RowsOf(base) : staged = (prior \ Removes[k[1]]) \cup proposal[k].adds
PublishedIsTheApprovedChange ==
  \A a \in announced :
    /\ proposal[a.package.version].state = "APPROVED"
    /\ ChangeOfBase(a.package.version, a.package.rows)

\* One version of a proposal is decided, whoever reviews or corrects beside.
OneVersionDecided ==
  \A p \in Proposals :
    Cardinality({v \in 1 .. MaxVersion : proposal[<<p, v>>].state
                                           \in {"IN_REVIEW", "APPROVED", "REJECTED"}}) <= 1

\* A proposal activates its graph once, and on the base it was reviewed for.
PublishedOnce ==
  \A a, b \in announced : a.by \in Proposals /\ a.by = b.by => a = b

\* The fence grows with each move of the pointer; a publication moves it from
\* its base, a deployment while it is the newest event of its system.
PointerIsFenced ==
  [][pointer' # pointer =>
       /\ pointer'.fence = pointer.fence + 1
       /\ pointer'.by \in Proposals => pointer.version = proposal[pointer'.version].base
       /\ pointer'.by \in Events => state[System(pointer'.by)].event = pointer'.by]_vars

\* A result stays with the newest event: what is said of a system's deployment
\* is never what an older event did.
NewestEventSpeaks ==
  [][\A s \in Systems : state[s].event # NoEvent =>
       /\ state'[s].event # NoEvent
       /\ OrderOf[state[s].event] <= OrderOf[state'[s].event]
       /\ state'[s].result = "PROMOTED" /\ state[s].result # "PROMOTED" =>
            \E a \in announced : a.by = state'[s].event]_vars

\* Who moves the pointer had the right to when it moved: a reviewer's approval on the
\* base that is active, or the newest event of a system, whose row keeps that order.
MovesAreFenced == PointerIsFenced /\ NewestEventSpeaks
=============================================================================
