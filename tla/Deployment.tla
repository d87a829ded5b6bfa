----------------------------- MODULE Deployment -----------------------------
(***************************************************************************)
(* The deployment workflow: what handle() of workflows/deployment.py does  *)
(* with the events a deployment provider sends, possibly more than once,   *)
(* out of order and at the same time, over the tables of                   *)
(* infrastructure/sqlite_deployment.py and the pointer of Publisher.       *)
(*                                                                         *)
(* One handler is one call of handle().  It moves the pointer through      *)
(* promote_existing(), so that it is one of the deployers of Publisher; no *)
(* publication runs, and the packages are namespaces published earlier.    *)
(***************************************************************************)
EXTENDS Publisher

CONSTANTS
  Events,      \* deployment events, by their id
  Systems,     \* systems deployed into the environment
  SystemOf,    \* the system an event deploys
  OrderOf,     \* (provider sequence, attempt) of an event, as one number
  TypeOf,      \* DEPLOYMENT or ROLLBACK
  OutcomeOf,   \* SUCCEEDED or FAILED, as the provider reports it
  PackageOf,   \* the namespace registered for the artifact, or NoPackage
  NoPackage,
  NoEvent

ASSUME DeploymentAssumption ==
  /\ SystemOf \in [Events -> Systems]
  /\ OrderOf \in [Events -> Nat \ {0}]
  /\ TypeOf \in [Events -> {"DEPLOYMENT", "ROLLBACK"}]
  /\ OutcomeOf \in [Events -> {"SUCCEEDED", "FAILED"}]
  /\ PackageOf \in [Events -> (1 .. (MaxToken + 1)) \cup {NoPackage}]
  /\ NoPackage \notin Nat
  /\ NoEvent \notin Events

VARIABLES
  events,     \* deployment_events: the status of each event
  deployed,   \* deployment_state, by system
  handler     \* where each call of handle() is

deploymentVars == <<vars, events, deployed, handler>>

Ended == {"STALE", "PROMOTED", "ROLLED_BACK", "LINEAGE_OUT_OF_SYNC",
          "FAILED_NO_CHANGE", "FAILED_TERMINAL"}

\* Nothing was deployed yet: the row is absent.
NoDeployment ==
  [event |-> NoEvent, order |-> 0, artifact |-> NoEvent, package |-> NoPackage,
   version |-> 0, state |-> "ABSENT"]

NotServing == [pc |-> "idle", event |-> NoEvent, state |-> "NONE", version |-> 0]

\* Every namespace of a package is published; the last one is active.
DeploymentInit ==
  LET packages == {PackageOf[e] : e \in Events} \ {NoPackage}
      last == CHOOSE v \in packages \cup {1} : \A u \in packages \cup {1} : u <= v
  IN
  /\ pointer = [active |-> last, fence |-> last - 1]
  /\ reservation = [token |-> last - 1,
                    status |-> IF last = 1 THEN "NONE" ELSE "ACTIVATED"]
  /\ ops = [o \in Operations |-> NewRow("ABSENT", 0)]
  /\ graph = [v \in Versions |->
                [state |-> IF v = last THEN "ACTIVE" ELSE IF v < last THEN "PRIOR"
                           ELSE "ABSENT",
                 rows |-> Rows(IF v <= last THEN "GOOD" ELSE "MISSING")]]
  /\ outbox = [o \in Operations |-> "NONE"]
  /\ caller = [t \in Callers |-> NoCall]
  /\ deployer = [d \in Deployers |-> NoPromotion]
  /\ crashes = 0
  /\ events = [e \in Events |-> "ABSENT"]
  /\ deployed = [s \in Systems |-> NoDeployment]
  /\ handler = [h \in Deployers |-> NotServing]
-----------------------------------------------------------------------------
Set(h, pc, state, version) ==
  handler' = [handler EXCEPT ![h] =
                [pc |-> pc, event |-> handler[h].event, state |-> state,
                 version |-> version]]

\* The unique key of deployment_events: another event of the system has the
\* same place in the provider's order.
OrderTaken(e) ==
  \E f \in Events : /\ f # e /\ events[f] # "ABSENT"
                    /\ SystemOf[f] = SystemOf[e] /\ OrderOf[f] = OrderOf[e]

\* The event is not newer than the last one the system accepted.
Older(e) == deployed[SystemOf[e]].order >= OrderOf[e]

\* claim(): an old event is recorded as stale, a new one becomes the event
\* that speaks for its system.  The deployed artifact stays what it was.
ClaimStale(h, e) ==
  /\ handler[h].pc = "idle"
  /\ events[e] = "ABSENT"
  /\ Older(e)
  /\ ~OrderTaken(e)
  /\ events' = [events EXCEPT ![e] = "STALE"]
  /\ UNCHANGED <<vars, deployed, handler>>

ClaimNew(h, e) ==
  /\ handler[h].pc = "idle"
  /\ events[e] = "ABSENT"
  /\ ~Older(e)
  /\ ~OrderTaken(e)
  /\ events' = [events EXCEPT ![e] = "PROCESSING"]
  /\ deployed' = [deployed EXCEPT ![SystemOf[e]] =
       [@ EXCEPT !.event = e, !.order = OrderOf[e], !.state = "PROCESSING"]]
  /\ handler' = [handler EXCEPT ![h] =
       [pc |-> "claimed", event |-> e, state |-> "NONE", version |-> 0]]
  /\ UNCHANGED vars

\* Mistake: an event that was superseded meanwhile is not taken up again.
ResumeCurrent(h, e) ==
  /\ handler[h].pc = "idle"
  /\ events[e] = "PROCESSING"
  /\ deployed[SystemOf[e]].event = e
  /\ handler' = [handler EXCEPT ![h] =
       [pc |-> "claimed", event |-> e, state |-> "NONE", version |-> 0]]
  /\ UNCHANGED <<vars, events, deployed>>

\* An event that has no result yet is taken up again, by a redelivery after
\* a crash or by one that runs beside the first call.
Resume(h, e) ==
  /\ handler[h].pc = "idle"
  /\ events[e] = "PROCESSING"
  /\ handler' = [handler EXCEPT ![h] =
       [pc |-> "claimed", event |-> e, state |-> "NONE", version |-> 0]]
  /\ UNCHANGED <<vars, events, deployed>>

\* The provider's deployment failed: nothing to promote.
ReportFailure(h) ==
  /\ handler[h].pc = "claimed"
  /\ OutcomeOf[handler[h].event] = "FAILED"
  /\ Set(h, "complete", "FAILED_NO_CHANGE", 0)
  /\ UNCHANGED <<vars, events, deployed>>

\* No package was approved for the artifact that now runs.
ReportMissing(h) ==
  /\ handler[h].pc = "claimed"
  /\ OutcomeOf[handler[h].event] = "SUCCEEDED"
  /\ PackageOf[handler[h].event] = NoPackage
  /\ Set(h, "complete", "LINEAGE_OUT_OF_SYNC", pointer.active)
  /\ UNCHANGED <<vars, events, deployed>>

\* Read the pointer and call promote_existing() with what was read.
StartPromotion(h) ==
  LET e == handler[h].event IN
  /\ handler[h].pc = "claimed"
  /\ OutcomeOf[e] = "SUCCEEDED"
  /\ PackageOf[e] # NoPackage
  /\ BeginPromotion(h, PackageOf[e])
  /\ Set(h, "promoting", "NONE", PackageOf[e])
  /\ UNCHANGED <<events, deployed>>

RunPromotion(h) ==
  /\ ReservePromotion(h) \/ Promote(h)
  /\ UNCHANGED <<events, deployed, handler>>

\* promote_existing() raised: the state row tells whether another event
\* speaks for the system by now.
ReadAuthority(h) ==
  LET e == handler[h].event IN
  /\ handler[h].pc = "promoting"
  /\ deployer[h].pc = "refused"
  /\ EndPromotion(h)
  /\ Set(h, "refused", IF deployed[SystemOf[e]].event # e
                       THEN "FAILED_NO_CHANGE" ELSE "FAILED_TERMINAL", 0)
  /\ UNCHANGED <<events, deployed>>

ReadPointer(h) ==
  /\ handler[h].pc = "refused"
  /\ Set(h, "complete", handler[h].state, pointer.active)
  /\ UNCHANGED <<vars, events, deployed>>

\* promote_existing() returned: the pointer must still be what it returned.
ReadBack(h) ==
  LET e == handler[h].event IN
  /\ handler[h].pc = "promoting"
  /\ deployer[h].pc = "promoted"
  /\ EndPromotion(h)
  /\ IF pointer = [active |-> PackageOf[e], fence |-> deployer[h].token]
     THEN Set(h, "complete",
              IF TypeOf[e] = "ROLLBACK" THEN "ROLLED_BACK" ELSE "PROMOTED", PackageOf[e])
     ELSE Set(h, "complete", "FAILED_TERMINAL", pointer.active)
  /\ UNCHANGED <<events, deployed>>

\* What the state row of the system becomes, when the event still speaks for
\* it: a promotion and a successful deployment that could not be followed
\* change what is deployed, a failed deployment does not.
Recorded(e, state, version) ==
  LET row == deployed[SystemOf[e]] IN
  CASE state \in {"PROMOTED", "ROLLED_BACK"} ->
         [row EXCEPT !.artifact = e, !.package = PackageOf[e], !.version = version,
                     !.state = state]
    [] state = "LINEAGE_OUT_OF_SYNC"
         \/ (state = "FAILED_TERMINAL" /\ OutcomeOf[e] = "SUCCEEDED") ->
         [row EXCEPT !.artifact = e, !.package = NoPackage, !.version = version,
                     !.state = state]
    [] OTHER -> [row EXCEPT !.state = state]

\* Mistake: the event speaks for its system although a newer one came.
CompleteAnyway(h) ==
  LET e == handler[h].event
      state == handler[h].state
  IN
  /\ handler[h].pc = "complete"
  /\ IF events[e] \in Ended
     THEN UNCHANGED <<events, deployed>>
     ELSE /\ events' = [events EXCEPT ![e] = state]
          /\ deployed' = [deployed EXCEPT ![SystemOf[e]] =
                            Recorded(e, state, handler[h].version)]
  /\ handler' = [handler EXCEPT ![h] = NotServing]
  /\ UNCHANGED vars

\* complete(): the first result of an event stays; an event that no longer
\* speaks for its system ends without a change.
CompleteEvent(h) ==
  LET e == handler[h].event
      authoritative == deployed[SystemOf[e]].event = e
      state == IF authoritative THEN handler[h].state ELSE "FAILED_NO_CHANGE"
  IN
  /\ handler[h].pc = "complete"
  /\ IF events[e] \in Ended
     THEN UNCHANGED <<events, deployed>>
     ELSE /\ events' = [events EXCEPT ![e] = state]
          /\ deployed' = IF authoritative
                         THEN [deployed EXCEPT ![SystemOf[e]] =
                                 Recorded(e, state, handler[h].version)]
                         ELSE deployed
  /\ handler' = [handler EXCEPT ![h] = NotServing]
  /\ UNCHANGED vars

\* A call stops in the middle and forgets what it had read.
StopHandling(h) ==
  /\ handler[h].pc # "idle"
  /\ crashes < MaxCrashes
  /\ crashes' = crashes + 1
  /\ handler' = [handler EXCEPT ![h] = NotServing]
  /\ deployer' = [deployer EXCEPT ![h] = NoPromotion]
  /\ UNCHANGED <<pointer, reservation, ops, graph, outbox, caller, events, deployed>>

HandlerStep(h) ==
  \/ ReportFailure(h) \/ ReportMissing(h)
  \/ StartPromotion(h) \/ RunPromotion(h)
  \/ ReadAuthority(h) \/ ReadPointer(h) \/ ReadBack(h)
  \/ CompleteEvent(h)

DeploymentNext ==
  \/ \E h \in Deployers, e \in Events :
       ClaimStale(h, e) \/ ClaimNew(h, e) \/ Resume(h, e)
  \/ \E h \in Deployers : HandlerStep(h) \/ StopHandling(h)

DeploymentSpec == DeploymentInit /\ [][DeploymentNext]_deploymentVars

\* A call goes on, and the provider delivers an event again until it has a
\* result.
FairDeploymentSpec ==
  /\ DeploymentSpec
  /\ \A h \in Deployers : WF_deploymentVars(HandlerStep(h))
  /\ \A e \in Events : SF_deploymentVars(\E h \in Deployers : Resume(h, e))
-----------------------------------------------------------------------------
(* Properties.                                                             *)

\* Every table row and every call is of its type.
DeploymentTypeOK ==
  /\ events \in [Events -> {"ABSENT", "PROCESSING"} \cup Ended]
  /\ deployed \in [Systems ->
       [event : Events \cup {NoEvent}, order : Nat, artifact : Events \cup {NoEvent},
        package : Nat \cup {NoPackage}, version : 0 .. (MaxToken + 1),
        state : {"ABSENT", "PROCESSING"} \cup Ended]]
  /\ handler \in [Deployers ->
       [pc : {"idle", "claimed", "promoting", "refused", "complete"},
        event : Events \cup {NoEvent}, state : {"NONE"} \cup Ended,
        version : 0 .. (MaxToken + 1)]]
  /\ pointer.active \in 1 .. (MaxToken + 1)

\* The state row tells what its own event did: the row and the event agree,
\* and what it calls promoted is the package of that event
\* (claim and complete, two tables).
StateOfItsEvent ==
  \A s \in Systems :
    LET row == deployed[s] IN
    row.event # NoEvent =>
      /\ row.state = events[row.event]
      /\ row.order = OrderOf[row.event]
      /\ row.state \in {"PROMOTED", "ROLLED_BACK"} =>
           /\ row.artifact = row.event
           /\ row.package = PackageOf[row.event]
           /\ row.version = row.package

\* The deployed artifact is one that the provider deployed, and the package
\* beside it is the package of that artifact, never of another one
\* (Recorded keeps or clears the three columns together).
PackageOfTheArtifact ==
  \A s \in Systems :
    LET row == deployed[s] IN
    /\ row.artifact # NoEvent => OutcomeOf[row.artifact] = "SUCCEEDED"
    /\ row.package # NoPackage =>
         /\ row.artifact # NoEvent
         /\ row.package = PackageOf[row.artifact]

\* The first result of an event is its result, however often and wherever it
\* is delivered again.
ResultsAreFinal ==
  [][\A e \in Events : events[e] \in Ended => events'[e] = events[e]]_deploymentVars

\* A newer event of the system cannot be displaced by an older one.
NewestSpeaks ==
  \A e \in Events :
    events[e] # "ABSENT" => deployed[SystemOf[e]].order >= OrderOf[e]

\* Every event that was accepted gets a result when it is delivered again
\* after a crash.
EventEnds == \A e \in Events : events[e] = "PROCESSING" ~> events[e] \in Ended

\* What the rows tell of a system is true of its newest event: its state, the artifact
\* that was deployed and the package beside it, whatever order its events came in.
RowsTellTheTruth == StateOfItsEvent /\ PackageOfTheArtifact /\ NewestSpeaks

\* Each event ends, and with one result, though it is delivered again, is handled
\* twice at once, and its handler may stop in the middle.
EventsEndOnce == ResultsAreFinal /\ EventEnds
=============================================================================
