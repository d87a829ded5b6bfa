------------------------------ MODULE PinnedRuns ------------------------------
(***************************************************************************)
(* The two workflows of the cloud that read the active graph and publish   *)
(* nothing: the pull request gate P1-P8 (application/pr_gate_execution.py) *)
(* and the nightly reconciliation N1-N6 (application/nightly_execution.py).*)
(* Both pin the pointer of the environment, evaluate for a while, read the *)
(* pointer again, and write one result.  A stage computes its document,    *)
(* writes it once and records it; it may stop in between and starts over.  *)
(***************************************************************************)
EXTENDS Integers, FiniteSets, Sequences

CONSTANTS
  GraphVersions,
  Rows,        \* Rows[v]: the rows of a graph version, as it was published
  Gates,       \* events of one pull request, each with its gate
  SequenceOf, HeadOf,   \* what the provider said with each event
  Covered,     \* Covered[g]: is every path of the candidate accounted for?
  ImpactOf,    \* ImpactOf[g][v]: the effects of its changes on a graph, and whether it was cut short
  Nights,      \* nightly runs
  Clean,       \* the rows that a clean analysis of the sample finds
  Sample,      \* the rows that touch the scope of the sample
  Archived,    \* Archived[n]: are all accepted events receipted and archived?
  Audited,     \* Audited[n]: is every sample of the audit eligible?
  StaleKeys,   \* StaleKeys[n]: the cache entries of its manifest, 1..k
  DrainLimit,
  MaxMoves, MaxFaults   \* bounds: changes of the environment times runs, stages that stop

None == "NONE"
Effects == {"WARN", "BLOCK", "TRUNCATED"}
Runs == Gates \cup Nights

ASSUME PinnedAssumption ==
  /\ None \notin GraphVersions \cup Nights /\ Gates \cap Nights = {}
  /\ SequenceOf \in [Gates -> Nat] /\ Covered \in [Gates -> BOOLEAN]
  /\ ImpactOf \in [Gates -> [GraphVersions -> SUBSET Effects]]
  /\ Clean \subseteq Sample
  /\ \A n \in Nights : IsFiniteSet(StaleKeys[n]) /\ StaleKeys[n] = 1 .. Cardinality(StaleKeys[n])
  /\ {MaxMoves, MaxFaults, DrainLimit} \subseteq Nat

VARIABLES
  pointer,     \* the active graph of the environment and its fence
  deployment,  \* the result of the last deployment that is complete
  promoting,   \* a promotion that has moved the pointer and is not complete
  rows,        \* rows[v]: the namespace of a graph version now
  head,        \* the newest event of the pull request
  cache,       \* cache[k]: the determinant of an entry and the run that invalidated it
  work,        \* the runs: their stage and what it has computed
  checks,      \* checks[h]: the check of a head
  announced,   \* the checks that have an outbox event
  reports,     \* the reports of the nightly runs
  proposals,   \* proposals[n]: the reconciliation that a run proposed
  moments,     \* auxiliary: the states that the environment has been in
  moves, faults

envVars == <<pointer, deployment, promoting, rows>>
resultVars == <<checks, announced, reports, proposals>>
pinnedVars == <<envVars, head, cache, work, resultVars, moments, moves, faults>>

NoEvent == [sequence |-> 0, head |-> None]
NoDocument ==
  [reasons |-> {}, pin |-> [version |-> None, fence |-> 0], impact |-> {}, verdict |-> "NONE",
   missing |-> {}, unexpected |-> {}, results |-> << >>]
NoCheck == [gate |-> None, pin |-> NoDocument.pin, verdict |-> "NONE", reasons |-> {}]

Succeeded == {"PROMOTED", "ROLLED_BACK"}
InSync(pin) == deployment.outcome \in Succeeded /\ deployment.version = pin.version

Moment ==
  [head |-> head.head, pointer |-> pointer, synced |-> InSync(pointer),
   rows |-> IF pointer.version = None THEN {} ELSE rows[pointer.version]]

\* The environment may have a graph already, by a publication or by a deployment.
PinnedInit ==
  /\ pointer \in {[version |-> None, fence |-> 0]} \cup {[version |-> v, fence |-> 1] : v \in GraphVersions}
  /\ deployment = [outcome |-> "NONE", version |-> None]
  /\ promoting = None
  /\ rows = Rows
  /\ head = NoEvent
  /\ cache = [k \in UNION {StaleKeys[n] : n \in Nights} |-> [determinant |-> 1, by |-> None]]
  /\ work = [r \in Runs |->
       [stage |-> IF r \in Gates THEN "P1" ELSE "N1", doc |-> NoDocument, at |-> "IDLE",
        computed |-> NoDocument, stored |-> NoDocument]]
  /\ checks = [h \in {HeadOf[g] : g \in Gates} |-> NoCheck]
  /\ announced = {}
  /\ reports = [n \in Nights |-> NoDocument]
  /\ proposals = [n \in Nights |-> "NONE"]
  /\ moments = {Moment}
  /\ moves = 0 /\ faults = 0
-----------------------------------------------------------------------------
(* What moves the environment meanwhile.                                   *)

Move == moves' = moves + 1 /\ UNCHANGED <<head, work, resultVars, faults>>
PointTo(v) == pointer' = [version |-> v, fence |-> pointer.fence + 1]

\* A publication (activate_pointer).
Publish(v) ==
  /\ Move /\ v # pointer.version /\ promoting = None
  /\ PointTo(v)
  /\ UNCHANGED <<deployment, promoting, rows, cache>>

\* A deployment moves the pointer (promote_deployment), and is complete later, or
\* another result replaces that of the last one.
Promote(v) ==
  /\ Move /\ pointer.version # None /\ promoting = None
  /\ PointTo(v) /\ promoting' = v
  /\ UNCHANGED <<deployment, rows, cache>>
CompletePromotion ==
  /\ promoting # None
  /\ \E outcome \in Succeeded : deployment' = [outcome |-> outcome, version |-> promoting]
  /\ promoting' = None
  /\ UNCHANGED <<pointer, rows, head, cache, work, resultVars, moves, faults>>
FailDeployment ==
  /\ Move /\ deployment.outcome \in Succeeded
  /\ deployment' = [outcome |-> "FAILED_NO_CHANGE", version |-> None]
  /\ UNCHANGED <<pointer, promoting, rows, cache>>

\* A namespace loses or gets a row, as by a publication that starts over.
Rewrite(v, row) ==
  /\ Move
  /\ rows' = [rows EXCEPT ![v] = IF row \in @ THEN @ \ {row} ELSE @ \cup {row}]
  /\ UNCHANGED <<pointer, deployment, promoting, cache>>

\* Another run invalidates an entry of the cache, or the gateway derives it anew.
DrainedByAnother(k) ==
  /\ Move /\ cache[k].by = None
  /\ cache' = [cache EXCEPT ![k].by = "ANOTHER"]
  /\ UNCHANGED envVars
Refresh(k) ==
  /\ Move
  /\ cache' = [cache EXCEPT ![k] = [determinant |-> @.determinant + 1, by |-> None]]
  /\ UNCHANGED envVars
-----------------------------------------------------------------------------
(* How a stage runs.                                                       *)

NextStage ==
  [P1 |-> "P3", P3 |-> "P4", P4 |-> "P7", P7 |-> "P8", P8 |-> "END",
   N1 |-> "N3", N3 |-> "N4", N4 |-> "N5", N5 |-> "N6", N6 |-> "END"]

Begins(r, stage) == work[r].stage = stage /\ work[r].at = "IDLE"
GoesOn(r, stage, at) == work[r].stage = stage /\ work[r].at = at
Computing(r, at, document) == work' = [work EXCEPT ![r].at = at, ![r].computed = document]
Add(document, reasons) == [document EXCEPT !.reasons = @ \cup reasons]
If(condition, reason) == IF condition THEN {reason} ELSE {}
\* The attempt fails or stops, and the stage is started again.
Again(r) == Computing(r, "IDLE", NoDocument)

\* The stage is complete.
Recorded(r, document) ==
  work' = [work EXCEPT ![r] =
    [stage |-> NextStage[@.stage], doc |-> document, at |-> "IDLE", computed |-> NoDocument,
     stored |-> NoDocument]]

\* The document of a stage is written once, and then recorded: another document than the
\* one that is there is a conflict, and the stage stops before or after it is written.
\* Nobody else sees any of it, so that all of it is one step with what came before.
Ends(r, document) ==
  \/ /\ IF work[r].stored \in {NoDocument, document} THEN Recorded(r, document) ELSE Again(r)
     /\ UNCHANGED faults
  \/ /\ faults < MaxFaults /\ faults' = faults + 1
     /\ \E stored \in {work[r].stored, document} :
          /\ work[r].stored # NoDocument => stored = work[r].stored
          /\ work' = [work EXCEPT ![r].at = "IDLE", ![r].computed = NoDocument, ![r].stored = stored]

StageStops(r) ==
  /\ work[r].at # "IDLE" /\ faults < MaxFaults
  /\ faults' = faults + 1
  /\ Again(r)
  /\ UNCHANGED <<envVars, head, cache, resultVars, moves>>
-----------------------------------------------------------------------------
(* The gate.  What depends on the recorded document only is the same for   *)
(* every attempt, and is one step.                                         *)

EventOf(g) == [sequence |-> SequenceOf[g], head |-> HeadOf[g]]

\* P1 pins the head: by pin_pr_head, the newest event of the provider is the head.
NewestHead(g) == head.sequence < SequenceOf[g] \/ head = EventOf(g)
PinHead(g) ==
  /\ Begins(g, "P1")
  /\ head' = IF NewestHead(g) THEN EventOf(g) ELSE head
  /\ Ends(g, Add(work[g].doc, If(~NewestHead(g), "PR_HEAD_SUPERSEDED")))
  /\ UNCHANGED <<envVars, cache, resultVars, moves>>

\* P3 reads the pointer, and then the deployment.
ReadEnvironment(g) ==
  /\ Begins(g, "P3")
  /\ Computing(g, "DEPLOYMENT", [Add(work[g].doc, If(pointer.version = None, "MISSING_ENVIRONMENT"))
                                  EXCEPT !.pin = pointer])
  /\ UNCHANGED <<envVars, head, cache, resultVars, moves, faults>>
ReadDeployment(g) ==
  /\ GoesOn(g, "P3", "DEPLOYMENT")
  /\ Ends(g, Add(work[g].computed, If(~InSync(work[g].computed.pin), "LINEAGE_OUT_OF_SYNC")))
  /\ UNCHANGED <<envVars, head, cache, resultVars, moves>>

\* P2 takes the candidate: what its analysis covered and what its changes reach in each
\* graph; P4 its coverage; P5 traverses the pinned graph; P6 decides.
Candidate(g) == [covered |-> Covered[g], effects |-> ImpactOf[g]]
Analysis(g, document) == Add(document, If(~Candidate(g).covered, "INCOMPLETE_COVERAGE"))
Impact(g, document) ==
  LET effects == IF document.pin.version = None THEN {} ELSE Candidate(g).effects[document.pin.version]
  IN  [Add(document, If("TRUNCATED" \in effects, "IMPACT_TRUNCATED") \cup If("WARN" \in effects, "IMPACT_WARNING"))
        EXCEPT !.impact = effects]
Policy(document) ==
  [document EXCEPT !.verdict =
     IF "BLOCK" \in document.impact THEN "BLOCK" ELSE IF document.reasons # {} THEN "WARN" ELSE "PASS"]
Evaluate(g) ==
  /\ Begins(g, "P4")
  /\ Recorded(g, Policy(Impact(g, Analysis(g, work[g].doc))))
  /\ UNCHANGED <<envVars, head, cache, resultVars, moves, faults>>

\* P7 reads the head, and then the pointer: what is stale only warns.
\* Mistake: the graph is the same, whatever happened to the pointer meanwhile.
SameGraph(pin) == pointer.version = pin.version
Unmoved(pin) == pointer = pin
Warned(document, stale) == [document EXCEPT !.verdict = IF stale THEN "WARN" ELSE @]
ReadHead(g) ==
  LET stale == head.head # HeadOf[g] IN
  /\ Begins(g, "P7")
  /\ Computing(g, "POINTER", Warned(Add(work[g].doc, If(stale, "PR_HEAD_SUPERSEDED")), stale))
  /\ UNCHANGED <<envVars, head, cache, resultVars, moves, faults>>
Freshness(g) ==
  LET moved == ~Unmoved(work[g].computed.pin)
  IN  /\ GoesOn(g, "P7", "POINTER")
      /\ Ends(g, Warned(Add(work[g].computed, If(moved, "ENVIRONMENT_CHANGED")), moved))
      /\ UNCHANGED <<envVars, head, cache, resultVars, moves>>

\* P8 stores the check of the head with an event, unless the same check had one before:
\* then the token of the request may still be known, or the stored check must be equal.
CheckOf(g) ==
  [gate |-> g, pin |-> work[g].doc.pin, verdict |-> work[g].doc.verdict, reasons |-> work[g].doc.reasons]
\* Mistake: every check is stored, with an event of its own.
StoredAgain(g) == TRUE
Unannounced(g) == CheckOf(g) \notin announced
UpsertCheck(g) ==
  /\ Begins(g, "P8")
  /\ IF Unannounced(g)
     THEN /\ checks' = [checks EXCEPT ![HeadOf[g]] = CheckOf(g)]
          /\ announced' = announced \cup {CheckOf(g)}
     ELSE UNCHANGED <<checks, announced>>
  /\ \/ Ends(g, work[g].doc)
     \/ /\ CheckOf(g) \in announced /\ checks[HeadOf[g]] # CheckOf(g)
        /\ Again(g) /\ UNCHANGED faults
  /\ UNCHANGED <<envVars, head, cache, reports, proposals, moves>>

Gate(g) ==
  \/ ReadEnvironment(g) \/ ReadDeployment(g) \/ Evaluate(g)
  \/ ReadHead(g) \/ Freshness(g) \/ UpsertCheck(g)
-----------------------------------------------------------------------------
(* The nightly run.                                                        *)

\* N1 pins the graph, which must be published, and compares the events with their
\* receipts and archives.
PinGraph(n) ==
  /\ Begins(n, "N1") /\ pointer.version # None
  /\ Ends(n, [Add(work[n].doc, If(~Archived[n], "ARCHIVE_RECONCILIATION_DRIFT")) EXCEPT !.pin = pointer])
  /\ UNCHANGED <<envVars, head, cache, resultVars, moves>>

\* N3 reads the namespace, and then the pointer.
ReadRows(n) ==
  LET actual == rows[work[n].doc.pin.version] IN
  /\ Begins(n, "N3")
  /\ Computing(n, "POINTER",
       [Add(work[n].doc,
            If(actual # Rows[work[n].doc.pin.version], "PROJECTION_CHECKSUM_DRIFT")
              \cup If(actual \cap Sample # Clean, "PUBLISHED_SAMPLE_DRIFT"))
        EXCEPT !.missing = Clean \ actual, !.unexpected = (actual \cap Sample) \ Clean])
  /\ UNCHANGED <<envVars, head, cache, resultVars, moves, faults>>
VerifyProjection(n) ==
  /\ GoesOn(n, "N3", "POINTER")
  /\ Ends(n, Add(work[n].computed, If(~Unmoved(work[n].computed.pin), "ENVIRONMENT_CHANGED")))
  /\ UNCHANGED <<envVars, head, cache, resultVars, moves>>

\* N4 invalidates the entries of its manifest one by one, up to its limit: only an entry
\* with the determinant of the manifest, and not one that another run invalidated.
Entries(n) == {k \in StaleKeys[n] : k <= DrainLimit}
Drainable(n, k) == cache[k].determinant = 1 /\ cache[k].by \in {None, n}
Processed(n) == Len(work[n].computed.results)
BeginDrain(n) ==
  /\ Begins(n, "N4")
  /\ Computing(n, "DRAIN", work[n].doc)
  /\ UNCHANGED <<envVars, head, cache, resultVars, moves, faults>>
InvalidateEntry(n) ==
  LET k == Processed(n) + 1
      answer == IF Drainable(n, k) THEN "INVALIDATED" ELSE "SUPERSEDED"
  IN  /\ GoesOn(n, "N4", "DRAIN") /\ k \in Entries(n)
      /\ IF Drainable(n, k) THEN cache' = [cache EXCEPT ![k].by = n] ELSE UNCHANGED cache
      /\ IF ~Drainable(n, k) /\ cache[k].determinant = 1 THEN Again(n)
         ELSE Computing(n, "DRAIN", [work[n].computed EXCEPT !.results = Append(@, answer)])
      /\ UNCHANGED <<envVars, head, resultVars, moves, faults>>
\* Mistake: what was processed is what there was.
TruncatedNever(n) == FALSE
Truncated(n) == Entries(n) # StaleKeys[n]
EndDrain(n) ==
  LET results == work[n].computed.results IN
  /\ GoesOn(n, "N4", "DRAIN") /\ Processed(n) = Cardinality(Entries(n))
  /\ Ends(n, Add(work[n].computed,
       If(Truncated(n) \/ \E i \in DOMAIN results : results[i] # "INVALIDATED", "CACHE_DRAIN_INCOMPLETE")))
  /\ UNCHANGED <<envVars, head, cache, resultVars, moves>>

\* N5 audits what was published without a review.
Audit(n) ==
  /\ Begins(n, "N5")
  /\ Recorded(n, Add(work[n].doc, If(~Audited[n], "AUTOPUBLISH_AUDIT_DRIFT")))
  /\ UNCHANGED <<envVars, head, cache, resultVars, moves, faults>>

\* N6 stores the report, a proposal for what differs, and an event, in one transaction;
\* done again, both must be as they were.
Differs(document) == document.missing \cup document.unexpected # {}
CompleteNightly(n) ==
  LET report == work[n].doc IN
  /\ Begins(n, "N6")
  /\ IF reports[n] = NoDocument
     THEN /\ reports' = [reports EXCEPT ![n] = report]
          /\ proposals' = [proposals EXCEPT ![n] = IF Differs(report) THEN "IN_REVIEW" ELSE "NONE"]
     ELSE UNCHANGED <<reports, proposals>>
  /\ \/ Ends(n, report)
     \/ proposals[n] = "DECIDED" /\ Again(n) /\ UNCHANGED faults
  /\ UNCHANGED <<envVars, head, cache, checks, announced, moves>>

\* A reviewer decides about the proposal.
Decide(n) ==
  /\ proposals[n] = "IN_REVIEW"
  /\ proposals' = [proposals EXCEPT ![n] = "DECIDED"]
  /\ UNCHANGED <<envVars, head, cache, work, checks, announced, reports, moves, faults>>

Nightly(n) ==
  \/ PinGraph(n) \/ ReadRows(n) \/ VerifyProjection(n) \/ Audit(n) \/ CompleteNightly(n) \/ Decide(n)
  \/ BeginDrain(n) \/ InvalidateEntry(n) \/ EndDrain(n)
-----------------------------------------------------------------------------
Environment == (\E v \in GraphVersions : Publish(v) \/ Promote(v)) \/ CompletePromotion \/ FailDeployment

\* Gates and nightly runs do not meet but in what they read.
PinnedNext(runs) ==
  /\ \/ Environment
     \/ \E g \in Gates \cap runs : Gate(g)
     \/ runs \cap Gates # {} /\ \E g \in Gates : PinHead(g)
     \/ \E n \in Nights \cap runs : Nightly(n)
     \/ \E r \in runs : StageStops(r)
     \/ /\ runs \cap Nights # {}
        /\ \/ \E v \in GraphVersions, row \in Sample : Rewrite(v, row)
           \/ \E k \in DOMAIN cache : Refresh(k) \/ DrainedByAnother(k)
  /\ moves' * Cardinality(runs) <= MaxMoves
  /\ moments' = moments \cup {Moment'}
-----------------------------------------------------------------------------
(* Properties.                                                             *)

\* What a PASS says was true at one moment: its head was the newest, its graph was
\* active, and at a moment with that very pointer the deployed artifact was that of the
\* graph, though head, pointer and deployment are three reads at different times and all
\* of them move.
PassWasTrue ==
  \A c \in announced : c.verdict = "PASS" =>
    /\ Covered[c.gate] /\ ImpactOf[c.gate][c.pin.version] = {}
    /\ \E m \in moments : m.head = HeadOf[c.gate] /\ m.pointer = c.pin
    /\ \E m \in moments : m.synced /\ m.pointer = c.pin

\* A check that another one of its head has replaced does not come back, though a stage
\* that stopped after storing it stores it again.
NoCheckReturns ==
  [][\A c \in announced : checks[HeadOf[c.gate]] # c => checks'[HeadOf[c.gate]] # c]_pinnedVars

\* A nightly report without alerts is true: at one moment the pinned graph was active,
\* intact, and agreed with the clean analysis; and no entry of its manifest is left.
QuietReportIsTrue ==
  \A n \in Nights : reports[n] # NoDocument /\ reports[n].reasons = {} =>
    /\ \E m \in moments :
         m.pointer = reports[n].pin /\ m.rows = Rows[m.pointer.version] /\ m.rows \cap Sample = Clean
    /\ \A k \in StaleKeys[n] : cache[k].determinant = 1 => cache[k].by # None
=============================================================================
