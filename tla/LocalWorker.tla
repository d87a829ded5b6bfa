---------------------------- MODULE LocalWorker -----------------------------
(***************************************************************************)
(* The local execution path of a command: durable intake, the outbox       *)
(* dispatcher, the lane broker, the worker loop of RunOrchestrator and the *)
(* checkpoints of a workflow, composed from CommandStore and LaneBroker.   *)
(*                                                                         *)
(* A command has one outbox event and one lane message, so the three share *)
(* its identifier here (outbox_id and message_id are hashes of it).  Each  *)
(* worker is a thread or process inside worker_once; between two of its    *)
(* transactions every other worker may run, and it may die at any point.   *)
(***************************************************************************)
EXTENDS CommandStore, Sequences, FiniteSets, SequencesExt

CONSTANTS
    Lanes, LaneOf,          \* lane of a command
    LanePriority,           \* the lanes in the order worker_once polls them
    Groups, GroupOf,        \* partition_key: the scope of the command
    StageOrder,             \* the checkpoints of the workflow, in order
    MaxDeliveries, VisibilityTicks, TicksPerSecond,
    MaxFailures,            \* bound of the model: operations that raise
    MaxCrashes,             \* bound of the model: workers that die
    NoDelivery, NoKey

ASSUME WorkerAssumption ==
    /\ LanePriority \in Seq(Lanes) /\ LanePriority # <<>>
    /\ StageOrder \in Seq(STRING) /\ StageOrder # <<>>
    /\ CheckpointStages = {StageOrder[i] : i \in DOMAIN StageOrder}
    /\ WorkflowStage \notin CheckpointStages
    /\ IsFiniteSet(Commands)
    /\ MaxFailures \in Nat
    /\ MaxCrashes \in Nat

ASSUME QueueAssumption ==
    /\ LaneOf \in [Commands -> Lanes] /\ GroupOf \in [Commands -> Groups]
    /\ MaxDeliveries \in Nat \ {0} /\ VisibilityTicks \in Nat \ {0}
    /\ TicksPerSecond \in Nat \ {0}

VARIABLES
    messages, claimOrder, deliveries, redrives,  \* LaneBroker
    outbox,     \* table outbox_events: status and available_at by command
    pc,         \* where each worker is in worker_once
    batch,      \* the pending events a dispatching worker has read, in order
    poll,       \* index in LanePriority of the lane it polls next
    stage,      \* index in StageOrder of the checkpoint it executes
    body,       \* the output of the operation it has just executed
    carried,    \* the checkpoint outputs it continues with
    artifacts,  \* evidence objects, by workflow/{command}/{stage}
    failures, crashes

Broker == INSTANCE LaneBroker WITH
    Messages <- Commands, Receivers <- Workers, MaxRedrives <- [c \in Commands |-> 0],
    SupersessionKeys <- {}, SupersessionKeyOf <- [c \in Commands |-> NoKey]

ASSUME DeliveryAssumption == NoDelivery \notin Broker!Delivery

storeVars == <<commands, attempts, results, leases>>
brokerVars == <<messages, claimOrder, deliveries, redrives>>
threadVars == <<batch, poll, stage, body, carried>>
boundVars == <<failures, crashes>>
loopVars == <<storeVars, brokerVars, now, outbox, pc, threadVars, artifacts, boundVars>>

----------------------------------------------------------------------------
PC == {"idle", "dispatching", "publishing", "polling", "received", "claiming",
       "checkpoint", "operating", "storing", "recording", "completing",
       "failing", "retrying", "requeueing", "acking", "returning"}

LastStage == StageOrder[Len(StageOrder)]
NothingCarried == [s \in CheckpointStages |-> NoOutput]

(* The message of a worker names its command: payload_ref command://{id}. *)
CommandOf(w) == deliveries[w].message

Goto(w, label) == pc' = [pc EXCEPT ![w] = label]
At(w, label) == pc[w] = label

LoopInit ==
    /\ Init
    /\ Broker!Init
    /\ outbox = [c \in Commands |-> [status |-> "ABSENT", available |-> 0]]
    /\ pc = [w \in Workers |-> "idle"]
    /\ batch = [w \in Workers |-> <<>>]
    /\ poll = [w \in Workers |-> 1]
    /\ stage = [w \in Workers |-> 1]
    /\ body = [w \in Workers |-> NoOutput]
    /\ carried = [w \in Workers |-> NothingCarried]
    /\ artifacts = [c \in Commands |-> NothingCarried]
    /\ failures = 0
    /\ crashes = 0

(* accept: the receipt, the command and its outbox event commit together;  *)
(* a duplicate delivery returns what is stored.  Bound of the model: early *)
(* enough for the deadline and the visibility timeout after it.            *)
Accept(c) ==
    \E t \in Readings :
        /\ now + DeadlineTicks + VisibilityTicks =< MaxTime
        /\ Submit(c, t)
        /\ outbox' = [outbox EXCEPT ![c] = [status |-> "PENDING", available |-> t]]
        /\ UNCHANGED <<brokerVars, pc, threadVars, artifacts, boundVars>>

----------------------------------------------------------------------------
(* OutboxDispatcher.dispatch *)

Pending == {c \in Commands :
               /\ outbox[c].status = "PENDING"
               /\ Broker!TextAtMost(outbox[c].available, now)}

(* Mutant of ReadPending: the events are marked delivered when they are read. *)
ReadPendingMarked(w) ==
    /\ At(w, "idle")
    /\ batch' = [batch EXCEPT ![w] = SetToSeq(Pending)]
    /\ outbox' = [c \in Commands |->
           IF c \in Pending THEN [outbox[c] EXCEPT !.status = "DELIVERED"] ELSE outbox[c]]
    /\ Goto(w, IF Pending = {} THEN "polling" ELSE "dispatching")
    /\ UNCHANGED <<storeVars, brokerVars, now, poll, stage, body, carried,
                   artifacts, boundVars>>

(* pending: a snapshot in the order of available_at, which SQL compares as *)
(* text; events of one instant come in any order.                          *)
OldestFirst(events) ==
    \A i, j \in DOMAIN events :
        i < j => Broker!TextAtMost(outbox[events[i]].available, outbox[events[j]].available)

ReadPending(w) ==
    /\ At(w, "idle")
    /\ \E events \in SetToSeqs(Pending) :
           OldestFirst(events) /\ batch' = [batch EXCEPT ![w] = events]
    /\ Goto(w, IF Pending = {} THEN "polling" ELSE "dispatching")
    /\ poll' = [poll EXCEPT ![w] = 1]
    /\ UNCHANGED <<storeVars, brokerVars, now, outbox, stage, body, carried,
                   artifacts, boundVars>>

(* publish deduplicates by message id: a second publication changes nothing. *)
PublishEvent(w) ==
    LET c == Head(batch[w])
    IN  /\ At(w, "dispatching")
        /\ IF messages[c].status = "ABSENT"
           THEN \E t \in Readings : Broker!Publish(c, t)
           ELSE UNCHANGED <<brokerVars, now>>
        /\ Goto(w, "publishing")
        /\ UNCHANGED <<storeVars, outbox, threadVars, artifacts, boundVars>>

(* mark_delivered: a no-op on an event another dispatcher marked. *)
MarkDelivered(w) ==
    /\ At(w, "publishing")
    /\ outbox' = [outbox EXCEPT ![Head(batch[w])].status = "DELIVERED"]
    /\ batch' = [batch EXCEPT ![w] = Tail(@)]
    /\ Goto(w, IF Len(batch[w]) = 1 THEN "polling" ELSE "dispatching")
    /\ UNCHANGED <<storeVars, brokerVars, now, poll, stage, body, carried,
                   artifacts, boundVars>>

----------------------------------------------------------------------------
(* worker_once: the first lane with a deliverable message. *)
PollLane(w) ==
    /\ At(w, "polling")
    /\ \E t \in Readings :
           LET lane == LanePriority[poll[w]]
           IN  \/ /\ Broker!Claim(w, lane, t)
                  /\ Goto(w, "received")
                  /\ poll' = poll
               \/ /\ Broker!ClaimNothing(lane, t)
                  /\ Goto(w, IF poll[w] = Len(LanePriority) THEN "returning" ELSE "polling")
                  /\ poll' = [poll EXCEPT
                         ![w] = IF poll[w] = Len(LanePriority) THEN 1 ELSE @ + 1]
    /\ UNCHANGED <<storeVars, outbox, batch, stage, body, carried, artifacts, boundVars>>

(* _handle_message: get() is a transaction of its own, before claim(). *)
ReadCommand(w) ==
    /\ At(w, "received")
    /\ Goto(w, IF commands[CommandOf(w)].status = "COMPLETED" THEN "acking" ELSE "claiming")
    /\ UNCHANGED <<storeVars, brokerVars, now, outbox, threadVars, artifacts, boundVars>>

(* claim() is outside the try block: when it raises, the message is left   *)
(* in flight until its visibility timeout.                                 *)
ClaimCommand(w) ==
    LET c == CommandOf(w)
    IN  /\ At(w, "claiming")
        /\ \E t \in Readings :
               \/ /\ ClaimGranted(w, c, t)
                  /\ Goto(w, "checkpoint")
               \/ /\ ClaimExhausted(c) \/ ClaimPastDeadline(c, t)
                  /\ Goto(w, "returning")
               \/ /\ ClaimRefused(c, t)
                  /\ Goto(w, "returning")
                  /\ UNCHANGED <<storeVars, now>>
        /\ stage' = [stage EXCEPT ![w] = 1]
        /\ carried' = [carried EXCEPT ![w] = NothingCarried]
        /\ UNCHANGED <<brokerVars, outbox, batch, poll, body, artifacts, boundVars>>

----------------------------------------------------------------------------
(* IncrementalWorkflow.checkpoint and BaselineWorkflow.checkpoint *)

StageOf(w) == StageOrder[stage[w]]

(* The checkpoint returns output o and the workflow goes on. *)
NextStage(w, o) ==
    /\ carried' = [carried EXCEPT ![w][StageOf(w)] = o]
    /\ stage' = [stage EXCEPT ![w] = IF StageOf(w) = LastStage THEN 1 ELSE @ + 1]
    /\ body' = [body EXCEPT ![w] = NoOutput]
    /\ Goto(w, IF StageOf(w) = LastStage THEN "completing" ELSE "checkpoint")

(* completed_stage: a stored result is reused without executing the stage. *)
LookUpStage(w) ==
    LET stored == results[KeyOf(CommandOf(w), StageOf(w))]
    IN  /\ At(w, "checkpoint")
        /\ IF stored = NoResult
           THEN Goto(w, "operating") /\ UNCHANGED <<stage, body, carried>>
           ELSE NextStage(w, stored.checksum)
        /\ UNCHANGED <<storeVars, brokerVars, now, outbox, batch, poll, artifacts, boundVars>>

(* operation(): its output depends on state this module does not have, so  *)
(* it is any output; or it raises.                                         *)
Operate(w) ==
    /\ At(w, "operating")
    /\ \/ /\ \E o \in Outputs : body' = [body EXCEPT ![w] = o]
          /\ Goto(w, "storing")
          /\ UNCHANGED boundVars
       \/ /\ failures < MaxFailures
          /\ failures' = failures + 1
          /\ Goto(w, "failing")
          /\ UNCHANGED <<body, crashes>>
    /\ UNCHANGED <<storeVars, brokerVars, now, outbox, batch, poll, stage, carried, artifacts>>

(* Mutant of PutArtifact: a refused overwrite is ignored. *)
PutArtifactIfAbsent(w) ==
    LET c == CommandOf(w)
    IN  /\ At(w, "storing")
        /\ artifacts' = [artifacts EXCEPT ![c][StageOf(w)] =
               IF @ = NoOutput THEN body[w] ELSE @]
        /\ Goto(w, "recording")
        /\ UNCHANGED <<storeVars, brokerVars, now, outbox, threadVars, boundVars>>

(* artifacts.put: write-once by command and stage; other content raises. *)
PutArtifact(w) ==
    LET c == CommandOf(w)
        existing == artifacts[c][StageOf(w)]
    IN  /\ At(w, "storing")
        /\ IF existing \in {NoOutput, body[w]}
           THEN /\ artifacts' = [artifacts EXCEPT ![c][StageOf(w)] = body[w]]
                /\ Goto(w, "recording")
           ELSE Goto(w, "failing") /\ UNCHANGED artifacts
        /\ UNCHANGED <<storeVars, brokerVars, now, outbox, threadVars, boundVars>>

(* A result stored under the key makes a second recording a replay only if *)
(* it has the same checksum.                                               *)
SameResult(stored, o) == stored # NoResult /\ stored.checksum = o

(* Mutant of RecordCheckpoint: a stale lease is not an error. *)
RecordCheckpointUnfenced(w) ==
    /\ At(w, "recording")
    /\ \E t \in Readings :
           \/ RecordStage(w, StageOf(w), body[w], t)
           \/ /\ ~ActiveLease(leases[w], t)
              /\ UNCHANGED <<storeVars, now>>
    /\ NextStage(w, body[w])
    /\ UNCHANGED <<brokerVars, outbox, batch, poll, artifacts, boundVars>>

(* record_stage: inserts under the lease, returns an equal stored result,  *)
(* and raises on another checksum or a stale lease.                        *)
RecordCheckpoint(w) ==
    LET stored == results[KeyOf(CommandOf(w), StageOf(w))]
    IN  /\ At(w, "recording")
        /\ \E t \in Readings :
               \/ /\ RecordStage(w, StageOf(w), body[w], t)
                  /\ NextStage(w, body[w])
               \/ /\ SameResult(stored, body[w])
                  /\ NextStage(w, body[w])
                  /\ UNCHANGED <<storeVars, now>>
               \/ /\ IF stored = NoResult
                     THEN ~ActiveLease(leases[w], t)
                     ELSE ~SameResult(stored, body[w])
                  /\ Goto(w, "failing")
                  /\ UNCHANGED <<storeVars, now, stage, body, carried>>
        /\ UNCHANGED <<brokerVars, outbox, batch, poll, artifacts, boundVars>>

----------------------------------------------------------------------------
(* The end of _handle_message *)

(* complete: the workflow result is a function of the checkpoint outputs,  *)
(* here the last one.  A stale lease or another checksum raises.           *)
CompleteCommand(w) ==
    LET c == CommandOf(w)
        o == carried[w][LastStage]
    IN  /\ At(w, "completing")
        /\ \E t \in Readings :
               \/ /\ Complete(w, o, t)
                  /\ Goto(w, "acking")
               \/ /\ CompleteReplayed(w, o)
                  /\ Goto(w, "acking")
                  /\ UNCHANGED <<storeVars, now>>
               \/ /\ CompleteRefused(w, o, t)
                  /\ Goto(w, "failing")
                  /\ UNCHANGED <<storeVars, now>>
        /\ UNCHANGED <<brokerVars, outbox, threadVars, artifacts, boundVars>>

(* except: get() decides whether fail() is called at all. *)
ReadAfterFailure(w) ==
    /\ At(w, "failing")
    /\ Goto(w, IF commands[CommandOf(w)].status = "COMPLETED" THEN "requeueing" ELSE "retrying")
    /\ UNCHANGED <<storeVars, brokerVars, now, outbox, threadVars, artifacts, boundVars>>

(* fail(retryable=True): when it raises, the retry of the message is       *)
(* skipped.                                                                *)
FailCommand(w) ==
    /\ At(w, "retrying")
    /\ \E t \in Readings :
           \/ Fail(w, TRUE, t) /\ Goto(w, "requeueing")
           \/ /\ ~ActiveLease(leases[w], t)
              /\ Goto(w, "returning")
              /\ UNCHANGED <<storeVars, now>>
    /\ UNCHANGED <<brokerVars, outbox, threadVars, artifacts, boundVars>>

(* Mutant of RequeueMessage: the failed delivery is acknowledged. *)
AcknowledgeFailed(w) ==
    /\ At(w, "requeueing")
    /\ \E t \in Readings :
           \/ Broker!Acknowledge(w, t)
           \/ /\ ~Broker!ActiveDelivery(deliveries[w], t)
              /\ UNCHANGED <<brokerVars, now>>
    /\ Goto(w, "returning")
    /\ UNCHANGED <<storeVars, outbox, threadVars, artifacts, boundVars>>

(* broker.retry, or a stale delivery. *)
RequeueMessage(w) ==
    /\ At(w, "requeueing")
    /\ \E t \in Readings :
           \/ Broker!Retry(w, t, t)
           \/ /\ ~Broker!ActiveDelivery(deliveries[w], t)
              /\ UNCHANGED <<brokerVars, now>>
    /\ Goto(w, "returning")
    /\ UNCHANGED <<storeVars, outbox, threadVars, artifacts, boundVars>>

(* broker.acknowledge, or a stale delivery. *)
AcknowledgeMessage(w) ==
    /\ At(w, "acking")
    /\ \E t \in Readings :
           \/ Broker!Acknowledge(w, t)
           \/ /\ ~Broker!ActiveDelivery(deliveries[w], t)
              /\ UNCHANGED <<brokerVars, now>>
    /\ Goto(w, "returning")
    /\ UNCHANGED <<storeVars, outbox, threadVars, artifacts, boundVars>>

(* The worker forgets its lease, its delivery and its locals. *)
Forget(w) ==
    /\ Goto(w, "idle")
    /\ leases' = [leases EXCEPT ![w] = NoLease]
    /\ deliveries' = [deliveries EXCEPT ![w] = NoDelivery]
    /\ batch' = [batch EXCEPT ![w] = <<>>]
    /\ poll' = [poll EXCEPT ![w] = 1]
    /\ stage' = [stage EXCEPT ![w] = 1]
    /\ body' = [body EXCEPT ![w] = NoOutput]
    /\ carried' = [carried EXCEPT ![w] = NothingCarried]
    /\ UNCHANGED <<commands, attempts, results, messages, claimOrder, redrives,
                   now, outbox, artifacts>>

(* worker_once returns or raises; its caller calls it again. *)
Return(w) ==
    /\ At(w, "returning")
    /\ Forget(w)
    /\ UNCHANGED boundVars

(* The process dies; a new one calls worker_once.  Bound of the model: no  *)
(* crash so late that the clock stops before the delivery it leaves behind *)
(* becomes visible again.                                                  *)
Crash(w) ==
    /\ ~At(w, "idle")
    /\ crashes < MaxCrashes
    /\ now + VisibilityTicks =< MaxTime
    /\ crashes' = crashes + 1
    /\ Forget(w)
    /\ UNCHANGED failures

LoopTick ==
    /\ now < MaxTime
    /\ now' = now + 1
    /\ UNCHANGED <<storeVars, brokerVars, outbox, pc, threadVars, artifacts, boundVars>>

LoopStep(w) ==
    \/ ReadPending(w) \/ PublishEvent(w) \/ MarkDelivered(w)
    \/ PollLane(w) \/ ReadCommand(w) \/ ClaimCommand(w)
    \/ LookUpStage(w) \/ Operate(w) \/ PutArtifact(w) \/ RecordCheckpoint(w)
    \/ CompleteCommand(w) \/ ReadAfterFailure(w) \/ FailCommand(w)
    \/ RequeueMessage(w) \/ AcknowledgeMessage(w) \/ Return(w)

LoopNext ==
    \/ \E c \in Commands : Accept(c)
    \/ \E w \in Workers : LoopStep(w) \/ Crash(w)
    \/ LoopTick

LoopSpec == LoopInit /\ [][LoopNext]_loopVars

(* The callers of worker_once call it again and again, the operating       *)
(* system runs every thread, and time passes.                              *)
Fairness ==
    /\ \A w \in Workers : WF_loopVars(LoopStep(w))
    /\ WF_loopVars(LoopTick)

FairSpec == LoopSpec /\ Fairness

----------------------------------------------------------------------------
Settled(c) == commands[c].status \in {"COMPLETED", "FAILED_TERMINAL"}

(* The threads are in a place of worker_once with locals of its type. *)
LoopTypeOK ==
    /\ TypeOK
    /\ Broker!TypeOK
    /\ outbox \in [Commands -> [status : {"ABSENT", "PENDING", "DELIVERED"}, available : Nat]]
    /\ pc \in [Workers -> PC]
    /\ batch \in [Workers -> Seq(Commands)]
    /\ poll \in [Workers -> DOMAIN LanePriority]
    /\ stage \in [Workers -> DOMAIN StageOrder]
    /\ body \in [Workers -> Outputs \union {NoOutput}]
    /\ carried \in [Workers -> [CheckpointStages -> Outputs \union {NoOutput}]]
    /\ artifacts \in [Commands -> [CheckpointStages -> Outputs \union {NoOutput}]]

(* A workflow continues only with recorded outputs: whatever was retried,  *)
(* taken over or shared with another command of the identity, the outputs  *)
(* a worker carries from its checkpoints are those of the stage ledger.    *)
CarriedIsRecorded ==
    \A w \in Workers, s \in CheckpointStages :
        carried[w][s] # NoOutput =>
            LET stored == results[KeyOf(CommandOf(w), s)]
            IN  stored # NoResult /\ stored.checksum = carried[w][s]

(* At-least-once: the message of a command is acknowledged only after its  *)
(* workflow result was recorded and the command reached its end.           *)
AckedMeansDone ==
    \A c \in Commands :
        messages[c].status = "ACKED" =>
            /\ Settled(c)
            /\ results[KeyOf(c, WorkflowStage)] # NoResult

(* Transactional outbox: a command that is not at its end is announced by  *)
(* a pending event or by a message that was not acknowledged, and an event *)
(* is marked delivered only once its message exists.                       *)
CommandIsAnnounced ==
    \A c \in Commands :
        /\ ~Settled(c) /\ commands[c].status # "ABSENT" =>
              \/ outbox[c].status = "PENDING"
              \/ messages[c].status \in {"AVAILABLE", "IN_FLIGHT", "DEAD"}
        /\ outbox[c].status = "DELIVERED" => messages[c].status # "ABSENT"

(* No command is forgotten: until it ends an event or a message announces  *)
(* it, through crashes of dispatcher and worker, and the message is there   *)
(* until the command ended with its result.                                 *)
NothingIsForgotten == AckedMeansDone /\ CommandIsAnnounced

(* The artifact comes before its ledger entry: a recorded checkpoint has   *)
(* the artifact it names, whoever crashed, failed or was overtaken between *)
(* artifacts.put and record_stage.                                         *)
ResultHasArtifact ==
    \A c \in Commands, s \in CheckpointStages :
        LET r == results[KeyOf(c, s)]
        IN  r # NoResult => artifacts[r.command][s] = r.checksum

(* Every accepted command reaches its end.  It needs a deadline that comes *)
(* before the deliveries of the message are used up, as the interactive    *)
(* lane has it; in the events lane the code breaks it (README, section 5). *)
AcceptedSettles ==
    \A c \in Commands : commands[c].status = "QUEUED" ~> Settled(c)

=============================================================================
