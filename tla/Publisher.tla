----------------------------- MODULE Publisher -----------------------------
(***************************************************************************)
(* Publication of approved proposals into one environment: the resumable   *)
(* publish() of services/publisher.py, the promotion of an already built   *)
(* namespace by a deployment event (promote_existing) and the rollback.    *)
(*                                                                         *)
(* A publication is an operation row that walks through durable stages.    *)
(* Each stage is one SQLite transaction.  A caller reads the row, acts on  *)
(* what it read, and reads again: `caller' keeps what it read, so a caller *)
(* can act on a row that another caller has moved.  Namespace v(k+1) is    *)
(* the number k+1; the seeded environment serves namespace 1 at fence 0.   *)
(***************************************************************************)
EXTENDS Integers, FiniteSetsExt

CONSTANTS
  Operations,     \* approved proposals, one publication operation each
  Callers,        \* threads that run publish()
  Deployers,      \* threads that run promote_existing()
  Edges,          \* number of edges of a package
  BatchSize,      \* edges written per transaction
  FailurePolicy,  \* what a failed verification does with the namespace
  Faulty,         \* whether the storage may spoil a row while it is written
  Overlap,        \* whether two callers may run one operation at a time
  MaxToken,       \* bound: the last token a reservation may take
  MaxFence,       \* bound: the last token a rollback may take
  MaxCrashes      \* bound: how many callers stop in the middle

ASSUME PublisherAssumption ==
  /\ Edges \in Nat
  /\ BatchSize \in Nat \ {0}
  /\ FailurePolicy \in {"RETAIN", "DISCARD"}
  /\ Faulty \in BOOLEAN
  /\ Overlap \in BOOLEAN
  /\ MaxToken \in Nat
  /\ MaxFence \in Nat
  /\ MaxCrashes \in Nat

VARIABLES
  pointer,      \* pointers: the active namespace and its fencing token
  reservation,  \* publish_reservations: the last reservation
  ops,          \* publication_operations
  graph,        \* graph_versions and graph_edges, by namespace
  outbox,       \* the PUBLICATION_ACTIVATED event of each operation
  caller,       \* where each publish() call is, and the row it read last
  deployer,     \* where each promote_existing() call is
  crashes       \* how many calls have stopped in the middle

tables == <<pointer, reservation, ops, graph, outbox>>
vars == <<pointer, reservation, ops, graph, outbox, caller, deployer, crashes>>

Versions == 1 .. (MaxToken + 1)
Failed == {"FAILED_VERIFY_RETAINED", "FAILED_VERIFY_DISCARDED"}
Activated == {"ACTIVATED", "DELIVERY_CONFIRMED", "COMPLETED"}

\* Mistake: a crash between two batches is not resumed.
StepsNoResume == << {"CREATED"}, {"RESERVED"}, {"MANIFEST_WRITTEN"},
                    {"NAMESPACE_CREATED"}, {"EDGES_WRITTEN"},
                    {"VERIFIED"}, {"ACTIVATED"}, {"DELIVERY_CONFIRMED"} >>

\* The tests of publish() on the stage it read, in the order they are made.
Steps == << {"CREATED"}, {"RESERVED"}, {"MANIFEST_WRITTEN"},
            {"NAMESPACE_CREATED", "EDGES_WRITING"}, {"EDGES_WRITTEN"},
            {"VERIFIED"}, {"ACTIVATED"}, {"DELIVERY_CONFIRMED"} >>

Stages == {"ABSENT", "COMPLETED"} \cup Failed \cup UNION {Steps[i] : i \in 1..8}

NewRow(stage, prior) ==
  [stage |-> stage, prior |-> prior, token |-> 0, next |-> 0]

Version(row) == row.token + 1

NoCall == [pc |-> "idle", op |-> "none", from |-> 1, row |-> NewRow("ABSENT", 0)]
NoPromotion == [pc |-> "idle", target |-> 0, prior |-> 0, token |-> 0]

Rows(value) == [e \in 1..Edges |-> value]

Init ==
  /\ pointer = [active |-> 1, fence |-> 0]
  /\ reservation = [token |-> 0, status |-> "NONE"]
  /\ ops = [o \in Operations |-> NewRow("ABSENT", 0)]
  /\ graph = [v \in Versions |->
                IF v = 1 THEN [state |-> "ACTIVE", rows |-> Rows("GOOD")]
                         ELSE [state |-> "ABSENT", rows |-> Rows("MISSING")]]
  /\ outbox = [o \in Operations |-> "NONE"]
  /\ caller = [t \in Callers |-> NoCall]
  /\ deployer = [d \in Deployers |-> NoPromotion]
  /\ crashes = 0
-----------------------------------------------------------------------------
(* The transactions.                                                       *)

\* The largest token ever handed out, as a reservation computes it.
LastToken ==
  IF pointer.fence > reservation.token THEN pointer.fence ELSE reservation.token

Reserve(token) ==
  /\ token <= MaxToken
  /\ reservation' = [token |-> token, status |-> "RESERVED"]

\* The activation fence: the token is the one of the last reservation, which
\* nobody has used, and the pointer is still where the caller expects it.
HoldsFence(token) == reservation.token = token /\ reservation.status = "RESERVED"

\* Mistake: the token alone is compared.
FenceOpenByToken(token, prior) == reservation.token = token

FenceOpen(token, prior) == HoldsFence(token) /\ pointer.active = prior

Intact(v) == graph[v].rows = Rows("GOOD")

\* graph_versions when v becomes the active namespace: only a namespace in
\* one of the states `from' is marked.
Swapped(v, from) ==
  [u \in Versions |->
     IF u = v /\ graph[u].state \in from THEN [graph[u] EXCEPT !.state = "ACTIVE"]
     ELSE IF graph[u].state = "ACTIVE" THEN [graph[u] EXCEPT !.state = "PRIOR"]
     ELSE graph[u]]

PointTo(v, token) == pointer' = [active |-> v, fence |-> token]

\* The rows of the batch are inserted where there is none.  A faulty storage
\* keeps other content for the last row of a batch.
Inserted(v, batch, spoilt) ==
  [graph EXCEPT ![v].rows =
     [e \in 1..Edges |->
        IF e \in batch /\ @[e] = "MISSING"
        THEN IF spoilt /\ \A f \in batch : f <= e THEN "BAD" ELSE "GOOD"
        ELSE @[e]]]
-----------------------------------------------------------------------------
(* publish().                                                              *)

Busy(o) == \E t \in Callers : caller[t].pc # "idle" /\ caller[t].op = o

Start(t, o, row) ==
  caller' = [caller EXCEPT ![t] =
               [pc |-> "loaded", op |-> o, from |-> 1, row |-> row]]

\* The first call stores the operation.  The proposal was based on a
\* namespace that was active at some time.
Create(t, o) ==
  /\ caller[t].pc = "idle"
  /\ ops[o].stage = "ABSENT"
  /\ \E base \in Versions :
       /\ graph[base].state \in {"ACTIVE", "PRIOR"}
       /\ ops' = [ops EXCEPT ![o] = NewRow("CREATED", base)]
       /\ Start(t, o, NewRow("CREATED", base))
  /\ UNCHANGED <<pointer, reservation, graph, outbox, deployer, crashes>>

\* A later call finds the operation.  A call that finds a completed or a
\* failed one returns or raises at once and changes nothing.
Redrive(t, o) ==
  /\ caller[t].pc = "idle"
  /\ ops[o].stage \notin {"ABSENT", "COMPLETED"} \cup Failed
  /\ Overlap \/ ~Busy(o)
  /\ Start(t, o, ops[o])
  /\ UNCHANGED <<tables, deployer, crashes>>

\* The call has come to test i and the row it read passes it.
At(t, i) ==
  /\ caller[t].pc = "loaded"
  /\ caller[t].from <= i
  /\ caller[t].row.stage \in Steps[i]

Goto(t, pc) == caller' = [caller EXCEPT ![t].pc = pc]

\* Read the row again, then go on behind test i.
ReloadAfter(t, i) == caller' = [caller EXCEPT ![t].pc = "reload", ![t].from = i + 1]

Raise(t) == caller' = [caller EXCEPT ![t] = NoCall]

\* The transaction moves the operation if it is still in one of the stages.
Advance(o, stages, stage) ==
  ops' = IF ops[o].stage \in stages THEN [ops EXCEPT ![o].stage = stage] ELSE ops

Reload(t) ==
  /\ caller[t].pc = "reload"
  /\ caller' = [caller EXCEPT ![t].pc = "loaded", ![t].row = ops[caller[t].op]]
  /\ UNCHANGED <<tables, deployer, crashes>>

Return(t) ==
  /\ caller[t].pc = "loaded"
  /\ \A i \in 1..8 : ~At(t, i)
  /\ Raise(t)
  /\ UNCHANGED <<tables, deployer, crashes>>

ReserveOperation(t) ==
  LET o == caller[t].op IN
  /\ At(t, 1)
  /\ IF ops[o].stage # "CREATED"
     THEN ReloadAfter(t, 1) /\ UNCHANGED <<reservation, ops>>
     ELSE IF pointer.active # ops[o].prior
     THEN Raise(t) /\ UNCHANGED <<reservation, ops>>
     ELSE /\ Reserve(LastToken + 1)
          /\ ops' = [ops EXCEPT ![o].token = LastToken + 1, ![o].stage = "RESERVED"]
          /\ ReloadAfter(t, 1)
  /\ UNCHANGED <<pointer, graph, outbox, deployer, crashes>>

WriteManifest(t) ==
  /\ At(t, 2)
  /\ Advance(caller[t].op, {"RESERVED"}, "MANIFEST_WRITTEN")
  /\ ReloadAfter(t, 2)
  /\ UNCHANGED <<pointer, reservation, graph, outbox, deployer, crashes>>

\* The namespace belongs to the operation's own token, so it holds nothing of
\* another operation and the code's conflict test passes.
CreateNamespace(t) ==
  LET v == Version(caller[t].row) IN
  /\ At(t, 3)
  /\ graph' = IF graph[v].state = "ABSENT"
              THEN [graph EXCEPT ![v].state = "STAGING"] ELSE graph
  /\ Advance(caller[t].op, {"MANIFEST_WRITTEN"},
             IF Edges = 0 THEN "EDGES_WRITTEN" ELSE "NAMESPACE_CREATED")
  /\ ReloadAfter(t, 3)
  /\ UNCHANGED <<pointer, reservation, outbox, deployer, crashes>>

\* The loop over the batches reads the row again before each batch, for the
\* index to go on from.
ReadNextEdge(t) ==
  /\ At(t, 4) \/ caller[t].pc = "edges"
  /\ caller' = [caller EXCEPT ![t].pc = "batch", ![t].row = ops[caller[t].op]]
  /\ UNCHANGED <<tables, deployer, crashes>>

BatchEnd(start) == Min({start + BatchSize, Edges})

\* The stage and the index are stored whatever the stage has become.
StoreProgress(o, end) ==
  ops' = [ops EXCEPT ![o].next = end,
                     ![o].stage = IF end = Edges THEN "EDGES_WRITTEN" ELSE "EDGES_WRITING"]

WriteBatch(t) ==
  LET o == caller[t].op
      v == Version(caller[t].row)
      start == caller[t].row.next
      end == BatchEnd(start)
      batch == (start + 1) .. end
  IN
  /\ caller[t].pc = "batch"
  /\ start < Edges
  /\ IF \E e \in batch : graph[v].rows[e] = "BAD"
     THEN Raise(t) /\ UNCHANGED <<ops, graph>>
     ELSE /\ \E spoilt \in {FALSE, Faulty} : graph' = Inserted(v, batch, spoilt)
          /\ StoreProgress(o, end)
          /\ IF end = Edges THEN ReloadAfter(t, 4) ELSE Goto(t, "edges")
  /\ UNCHANGED <<pointer, reservation, outbox, deployer, crashes>>

NoEdgeLeft(t) ==
  /\ caller[t].pc = "batch"
  /\ caller[t].row.next >= Edges
  /\ Advance(caller[t].op, {"NAMESPACE_CREATED", "EDGES_WRITING"}, "EDGES_WRITTEN")
  /\ ReloadAfter(t, 4)
  /\ UNCHANGED <<pointer, reservation, graph, outbox, deployer, crashes>>

\* Mistake: the rows are counted and their content is not compared.
CheckRowCount(t) ==
  LET v == Version(caller[t].row) IN
  /\ At(t, 5)
  /\ Goto(t, IF \A e \in 1..Edges : graph[v].rows[e] # "MISSING"
             THEN "verified" ELSE "mismatch")
  /\ UNCHANGED <<tables, deployer, crashes>>

\* The rows are read in one transaction and the verdict stored in another.
CheckRows(t) ==
  /\ At(t, 5)
  /\ Goto(t, IF Intact(Version(caller[t].row)) THEN "verified" ELSE "mismatch")
  /\ UNCHANGED <<tables, deployer, crashes>>

MarkVerified(t) ==
  /\ caller[t].pc = "verified"
  /\ Advance(caller[t].op, {"EDGES_WRITTEN"}, "VERIFIED")
  /\ ReloadAfter(t, 5)
  /\ UNCHANGED <<pointer, reservation, graph, outbox, deployer, crashes>>

MarkFailed(t) ==
  LET v == Version(caller[t].row)
      discard == FailurePolicy = "DISCARD"
  IN
  /\ caller[t].pc = "mismatch"
  /\ graph' = IF discard /\ graph[v].state = "STAGING"
              THEN [graph EXCEPT ![v].state = "DISCARDED"] ELSE graph
  /\ ops' = [ops EXCEPT ![caller[t].op].stage =
               IF discard THEN "FAILED_VERIFY_DISCARDED" ELSE "FAILED_VERIFY_RETAINED"]
  /\ Raise(t)
  /\ UNCHANGED <<pointer, reservation, outbox, deployer, crashes>>

\* One transaction moves the pointer, uses the reservation up, writes the
\* event and moves the operation, or does nothing at all.
ActivateOperation(t) ==
  LET o == caller[t].op
      row == caller[t].row
  IN
  /\ At(t, 6)
  /\ IF ops[o].stage # "VERIFIED"
     THEN ReloadAfter(t, 6) /\ UNCHANGED tables
     ELSE IF ~FenceOpen(row.token, row.prior)
     THEN Raise(t) /\ UNCHANGED tables
     ELSE /\ graph' = Swapped(Version(row), {"STAGING"})
          /\ PointTo(Version(row), row.token)
          /\ reservation' = [reservation EXCEPT !.status = "ACTIVATED"]
          /\ outbox' = [outbox EXCEPT ![o] = IF @ = "NONE" THEN "PENDING" ELSE @]
          /\ ops' = [ops EXCEPT ![o].stage = "ACTIVATED"]
          /\ ReloadAfter(t, 6)
  /\ UNCHANGED <<deployer, crashes>>

\* Mistake: the operation goes on and the event stays pending.
ConfirmOnly(t) ==
  /\ At(t, 7)
  /\ Advance(caller[t].op, {"ACTIVATED"}, "DELIVERY_CONFIRMED")
  /\ ReloadAfter(t, 7)
  /\ UNCHANGED <<pointer, reservation, graph, outbox, deployer, crashes>>

DeliverOutbox(t) ==
  LET o == caller[t].op IN
  /\ At(t, 7)
  /\ outbox' = [outbox EXCEPT ![o] = "DELIVERED"]
  /\ Advance(o, {"ACTIVATED"}, "DELIVERY_CONFIRMED")
  /\ ReloadAfter(t, 7)
  /\ UNCHANGED <<pointer, reservation, graph, deployer, crashes>>

Complete(t) ==
  /\ At(t, 8)
  /\ Advance(caller[t].op, {"DELIVERY_CONFIRMED"}, "COMPLETED")
  /\ ReloadAfter(t, 8)
  /\ UNCHANGED <<pointer, reservation, graph, outbox, deployer, crashes>>

Crash(t) ==
  /\ caller[t].pc # "idle"
  /\ crashes < MaxCrashes
  /\ crashes' = crashes + 1
  /\ Raise(t)
  /\ UNCHANGED <<tables, deployer>>
-----------------------------------------------------------------------------
(* promote_existing() and rollback().                                      *)

\* Bound: a promotion starts only while the tokens last for it, for the
\* promotions that run and for the operations that have none yet.
TokensLeft ==
  reservation.token + Cardinality({o \in Operations : ops[o].token = 0})
    + Cardinality({d \in Deployers : deployer[d].pc = "reserve"}) < MaxToken

\* The deployment workflow reads the pointer it expects to replace.
BeginPromotion(d, v) ==
  /\ deployer[d].pc = "idle"
  /\ TokensLeft
  /\ deployer' = [deployer EXCEPT ![d] =
       [pc |-> "reserve", target |-> v, prior |-> pointer.active, token |-> 0]]
  /\ UNCHANGED <<tables, caller, crashes>>

\* A finished publication registers its namespace as a deployment package.
PromotePackage(d) ==
  \E o \in Operations : ops[o].stage = "COMPLETED" /\ BeginPromotion(d, Version(ops[o]))

ReservePromotion(d) ==
  /\ deployer[d].pc = "reserve"
  /\ IF pointer.active # deployer[d].prior
     THEN deployer' = [deployer EXCEPT ![d].pc = "refused"] /\ UNCHANGED reservation
     ELSE /\ Reserve(LastToken + 1)
          /\ deployer' = [deployer EXCEPT ![d].pc = "promote", ![d].token = LastToken + 1]
  /\ UNCHANGED <<pointer, ops, graph, outbox, caller, crashes>>

\* The rows are compared with the package here, in the transaction that
\* moves the pointer.
Promote(d) ==
  LET p == deployer[d] IN
  /\ p.pc = "promote"
  /\ IF FenceOpen(p.token, p.prior) /\ Intact(p.target)
     THEN /\ graph' = Swapped(p.target, {"STAGING", "ACTIVE", "PRIOR", "DISCARDED"})
          /\ PointTo(p.target, p.token)
          /\ reservation' = [reservation EXCEPT !.status = "ACTIVATED"]
          /\ deployer' = [deployer EXCEPT ![d].pc = "promoted"]
     ELSE /\ deployer' = [deployer EXCEPT ![d].pc = "refused"]
          /\ UNCHANGED <<graph, pointer, reservation>>
  /\ UNCHANGED <<ops, outbox, caller, crashes>>

\* promote_existing() returns the new pointer or raises.
EndPromotion(d) ==
  /\ deployer[d].pc \in {"promoted", "refused"}
  /\ deployer' = [deployer EXCEPT ![d] = NoPromotion]
  /\ UNCHANGED <<tables, caller, crashes>>

CrashPromotion(d) ==
  /\ deployer[d].pc # "idle"
  /\ crashes < MaxCrashes
  /\ crashes' = crashes + 1
  /\ deployer' = [deployer EXCEPT ![d] = NoPromotion]
  /\ UNCHANGED <<tables, caller>>

\* A rollback looks at the pointer's token only, and at no state of the
\* namespace.
Rollback ==
  /\ pointer.fence < MaxFence
  /\ \E v \in Versions :
       /\ graph[v].state # "ABSENT"
       /\ graph' = Swapped(v, {"STAGING", "ACTIVE", "PRIOR", "DISCARDED"})
       /\ PointTo(v, pointer.fence + 1)
  /\ UNCHANGED <<reservation, ops, outbox, caller, deployer, crashes>>

PublishStep(t) ==
  \/ Reload(t) \/ Return(t)
  \/ ReserveOperation(t) \/ WriteManifest(t) \/ CreateNamespace(t)
  \/ ReadNextEdge(t) \/ WriteBatch(t) \/ NoEdgeLeft(t)
  \/ CheckRows(t) \/ MarkVerified(t) \/ MarkFailed(t)
  \/ ActivateOperation(t) \/ DeliverOutbox(t) \/ Complete(t)

PromoteStep(d) == ReservePromotion(d) \/ Promote(d) \/ EndPromotion(d)

Next ==
  \/ \E t \in Callers, o \in Operations : Create(t, o) \/ Redrive(t, o)
  \/ \E t \in Callers : PublishStep(t) \/ Crash(t)
  \/ \E d \in Deployers : PromotePackage(d) \/ PromoteStep(d) \/ CrashPromotion(d)
  \/ Rollback

Spec == Init /\ [][Next]_vars

\* A call that runs goes on.  Nothing calls publish() again: Redrive is a step
\* that may be taken and never one that has to be.
FairSpec ==
  /\ Spec
  /\ \A t \in Callers : WF_vars(PublishStep(t))
  /\ \A d \in Deployers : WF_vars(PromoteStep(d))
-----------------------------------------------------------------------------
(* Properties.                                                             *)

\* Every table row and every call is of its type.
TypeOK ==
  /\ pointer \in [active : Versions, fence : 0 .. (MaxToken + MaxFence)]
  /\ reservation \in [token : 0..MaxToken, status : {"NONE", "RESERVED", "ACTIVATED"}]
  /\ ops \in [Operations -> [stage : Stages, prior : 0 .. (MaxToken + 1),
                             token : 0..MaxToken, next : 0..Edges]]
  /\ graph \in [Versions ->
       [state : {"ABSENT", "STAGING", "ACTIVE", "PRIOR", "DISCARDED"},
        rows : [1..Edges -> {"MISSING", "GOOD", "BAD"}]]]
  /\ outbox \in [Operations -> {"NONE", "PENDING", "DELIVERED"}]
  /\ \A t \in Callers : caller[t].row.stage \in Stages
  /\ \A d \in Deployers : deployer[d].token \in 0..MaxToken
  /\ crashes \in 0..MaxCrashes

\* The namespace that is served is complete and as approved, whatever crashed,
\* was redriven or went on with a row another caller had moved on
\* (publisher.py, publish and promote_existing).
ActiveIsIntact == Intact(pointer.active)

\* The pointer and the graph tables agree: the namespace that is served is
\* the one that is marked active (the two updates of one activation).
OneActive == {v \in Versions : graph[v].state = "ACTIVE"} = {pointer.active}

\* A namespace that has been served never changes, although the writer of its
\* rows does not look at the stage of its operation
\* (_write_operation_edges: INSERT OR IGNORE, UPDATE without a stage test).
ServedRowsAreFinal ==
  [][\A v \in Versions : graph[v].state \in {"ACTIVE", "PRIOR"} =>
        graph'[v].rows = graph[v].rows]_vars

\* The token of the pointer only grows, and each value is handed out once:
\* whoever moves the pointer uses a token above the one it replaces
\* (reserve, _reserve_operation, _activate_operation, promote_existing).
PointerIsFenced ==
  [][pointer' # pointer => pointer'.fence > pointer.fence]_vars

\* Two operations never write into one namespace (the version is made of the
\* token, and a token counts both the pointer and the last reservation).
NamespacesAreOwned ==
  \A o, p \in Operations :
    o # p /\ ops[o].token # 0 => ops[o].token # ops[p].token

\* What is served is one graph of one operation, complete, whoever crashed, was
\* redriven or went on with a row that another caller had moved.
ServedIsSound == ActiveIsIntact /\ OneActive /\ NamespacesAreOwned

\* An operation moves the pointer at most once, also when a slow caller sets
\* its stage back and it is verified again.
ActivatesOnce ==
  [][\A o \in Operations : outbox[o] # "NONE" =>
        ~(ops[o].stage = "VERIFIED" /\ ops'[o].stage = "ACTIVATED")]_vars

\* What was put into service is settled: its rows stay as they are, the token of the
\* pointer grows, and no operation is activated a second time.
ActivationsAreFinal == PointerIsFenced /\ ActivatesOnce /\ ServedRowsAreFinal

\* The event that tells the caches is there exactly for the operations whose
\* namespace was put into service, whatever a slow writer has made of their
\* stage since, and it is delivered before the operation goes on
\* (_activate_operation, _deliver_operation_outbox).
AnnouncedIffActivated ==
  \A o \in Operations :
    /\ outbox[o] # "NONE" <=>
         /\ ops[o].token # 0
         /\ graph[Version(ops[o])].state \in {"ACTIVE", "PRIOR"}
    /\ ops[o].stage \in {"DELIVERY_CONFIRMED", "COMPLETED"} => outbox[o] = "DELIVERED"

\* A publication is over when it is completed, has failed verification, or has
\* lost its fence or its base to another writer.
Lost(o) ==
  /\ ops[o].stage \notin Activated
  /\ pointer.active # ops[o].prior \/ ops[o].token \in 1..(reservation.token - 1)

Over(o) == ops[o].stage \in {"COMPLETED"} \cup Failed \/ Lost(o)

\* A call of publish() that is not stopped carries its publication to the end,
\* wherever the call before it was stopped: it goes on until it returns or
\* raises, and it gives up no publication that could still be completed.
PublicationEnds ==
  /\ \A t \in Callers : caller[t].pc # "idle" ~> caller[t].pc = "idle"
  /\ [][\A t \in Callers, o \in Operations :
          caller[t].op = o /\ caller'[t].op # o /\ crashes' = crashes => Over(o)']_vars
=============================================================================
