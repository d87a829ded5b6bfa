---------------------------- MODULE StageLedger ----------------------------
(***************************************************************************)
(* One command in the AWS deployment: the state machine, the approval      *)
(* stream and the intake queue invoke stages; each invocation runs         *)
(* AwsStageExecutor.execute(), which claims the row of the stage in the    *)
(* DynamoDB ledger, computes a document, puts it under a key that is       *)
(* written once, and records its reference together with the summary of    *)
(* the run.  A caller that gives up invokes again while the first          *)
(* invocation still runs; in the rows of the analysis workers the lease    *)
(* runs out before the invocation ends, and both go on.                    *)
(*                                                                         *)
(* A reference to an artifact is the value of its document.  Leases carry  *)
(* no clock.                                                               *)
(***************************************************************************)
EXTENDS Integers

CONSTANTS
  Rows,        \* ledger rows of the command: a stage and its idempotency key
  Before,      \* Before[r]: the rows whose success lets r start
  Ordinal,     \* Ordinal[r]: position in the workflow, 0 without run summary
  Intake,      \* the row of the intake message
  Approval,    \* the row of the PROPOSAL_APPROVED record
  Pin,         \* the row that pins the active version (I1, B1)
  Proposing,     \* the row that creates the proposal (I9, B9)
  Outlasting,  \* rows of the ECS worker, which may outlast its lease (I5, B5)
  Versions,    \* graph versions the pointer may show
  Attempts,    \* invocations that can run at a time
  OwnerOf,     \* the log stream an invocation runs under
  Tries,       \* Tries[r]: how often r's caller invokes it
  MaxFaults,   \* bound: throttled, crashed, raised or unanswered invocations
  NoAttempt, NoOwner, NoDocument

ASSUME RowsAssumption ==
  /\ Intake \in Rows /\ Approval \in Rows /\ Intake # Approval
  /\ Before \in [Rows -> SUBSET Rows]
  /\ Ordinal \in [Rows -> Nat]
  /\ Pin \in Rows /\ Proposing \in Rows /\ Outlasting \subseteq Rows
  /\ Versions # {}
  /\ Tries \in [Rows -> Nat \ {0}]
  /\ MaxFaults \in Nat
ASSUME NullAssumption ==
  /\ NoAttempt \notin Attempts
  /\ \A a \in Attempts : OwnerOf[a] # NoOwner
  /\ NoDocument \notin Rows \cup Versions
  /\ NoAttempt \notin Rows \X Nat

VARIABLES
  ledger,     \* LEDGER table: the row of each stage
  run,        \* LEDGER table: RUN#<command>, the summary of the run
  artifacts,  \* S3: the document under the key of each row
  proposal,   \* the state of the proposal
  pointer,    \* the active version, which other commands move
  outbox,     \* the status of the PROPOSAL_APPROVED record
  started,    \* whether the state machine execution exists
  caller,     \* what the caller of each row waits for
  attempt,    \* where each invocation is
  faults,     \* faults so far
  claims      \* history: how often each row was claimed

world == <<proposal, pointer, outbox, started>>
stored == <<ledger, run, artifacts, world, claims>>
vars == <<stored, caller, attempt, faults>>

\* The pinning row writes the version it read; the document of any other row
\* is a function of its input.
Documents == Rows \cup Versions
Machine == Rows \ {Intake, Approval}

NoRow == [status |-> "ABSENT", owner |-> NoOwner, epoch |-> 0,
          expired |-> FALSE, output |-> NoDocument]
Idle == [pc |-> "idle", row |-> Intake, epoch |-> 0, document |-> NoDocument]
NotCalled == [status |-> "READY", attempt |-> NoAttempt, tries |-> 0,
              output |-> NoDocument]

Init ==
  /\ ledger = [r \in Rows |-> NoRow]
  /\ run = [ordinal |-> 0, output |-> NoDocument]
  /\ artifacts = [r \in Rows |-> NoDocument]
  /\ proposal = "NONE"
  /\ pointer \in Versions
  /\ outbox = "NONE"
  /\ started = FALSE
  /\ caller = [r \in Rows |-> NotCalled]
  /\ attempt = [a \in Attempts |-> Idle]
  /\ faults = 0
  /\ claims = [r \in Rows |-> 0]
-----------------------------------------------------------------------------
(* The callers and the rest of the world.                                  *)

Succeeded(r) == caller[r].status = "SUCCEEDED"

\* The state machine runs a row when it was started and the rows before are
\* done; the queue and the stream deliver a message that was written.
Due(r) ==
  /\ r \in Machine => started /\ \A q \in Machine : caller[q].status # "FAILED"
  /\ r = Approval => outbox # "NONE"
  /\ \A q \in Before[r] : Succeeded(q)

Invoke(r, a) ==
  /\ caller[r].status = "READY"
  /\ Due(r)
  /\ attempt[a] = Idle
  /\ caller' = [caller EXCEPT ![r].status = "WAITING", ![r].attempt = a,
                              ![r].tries = @ + 1]
  /\ attempt' = [attempt EXCEPT ![a] = [Idle EXCEPT !.pc = "claim", !.row = r]]
  /\ UNCHANGED <<stored, faults>>

\* Mistake: an invocation that did not answer well is still waited for.
StillWaiting(call) == [call EXCEPT !.attempt = NoAttempt]

\* The caller's row after an invocation that did not answer well: tried again
\* while it has tries left, else the error terminal or the dead letter queue.
Again(call) ==
  [call EXCEPT !.attempt = NoAttempt,
               !.status = IF call.tries < Tries[attempt[call.attempt].row]
                          THEN "READY" ELSE "FAILED"]

\* Mistake: the choice behind the stage does not look at the outcome.
AnsweredAlways(r, outcome, document) ==
  [caller[r] EXCEPT !.attempt = NoAttempt, !.status = "SUCCEEDED",
                    !.output = document]

\* The caller's row after the answer of execute().  The state machine routes
\* REDRIVE_REQUIRED to its error terminal; the queue and the stream report
\* the message as failed and deliver it again.
Answered(r, outcome, document) ==
  IF outcome # "REDRIVE_REQUIRED"
  THEN [caller[r] EXCEPT !.attempt = NoAttempt, !.status = "SUCCEEDED",
                         !.output = document]
  ELSE IF r \in Machine
       THEN [caller[r] EXCEPT !.attempt = NoAttempt, !.status = "FAILED"]
       ELSE Again(caller[r])

\* execute() returns; a caller that gave up does not hear it.
Reply(a, outcome, document) ==
  LET r == attempt[a].row
  IN  /\ caller' = IF caller[r].attempt = a
                   THEN [caller EXCEPT ![r] = Answered(r, outcome, document)]
                   ELSE caller
      /\ attempt' = [attempt EXCEPT ![a] = Idle]

Redrive(a) == Reply(a, "REDRIVE_REQUIRED", NoDocument)

Goto(a, pc) == attempt' = [attempt EXCEPT ![a].pc = pc] /\ UNCHANGED caller

At(a, pc) == attempt[a].pc = pc

Fault == faults < MaxFaults /\ faults' = faults + 1

\* The caller's time limit passes, or the answer gets lost (States.Timeout, a
\* missed heartbeat, the visibility timeout).  The invocation goes on.
GiveUp(r) ==
  /\ caller[r].attempt # NoAttempt
  /\ Fault
  /\ caller' = [caller EXCEPT ![r] = Again(@)]
  /\ UNCHANGED <<stored, attempt>>

\* The invocation dies, or raises an error that is no AwsRetryableError and
\* no AwsConflictError: the state machine catches it, the others retry.
Die(a) ==
  /\ attempt[a] # Idle
  /\ Fault
  /\ LET r == attempt[a].row
     IN  caller' = IF caller[r].attempt # a THEN caller
                   ELSE [caller EXCEPT ![r] =
                           IF r \in Machine
                           THEN [@ EXCEPT !.attempt = NoAttempt, !.status = "FAILED"]
                           ELSE Again(@)]
  /\ attempt' = [attempt EXCEPT ![a] = Idle]
  /\ UNCHANGED stored

\* A call of AWS answers AwsRetryableError.
Throttled(a) ==
  /\ attempt[a].pc \in {"claim", "execute", "put", "start", "record", "acknowledge"}
  /\ Fault
  /\ Redrive(a)
  /\ UNCHANGED stored
-----------------------------------------------------------------------------
(* execute().                                                              *)

\* The condition of claim_stage.
Claimable(row) ==
  \/ row.status = "ABSENT"
  \/ row.status = "RUNNING" /\ row.expired

ClaimStage(a) ==
  LET r == attempt[a].row
      epoch == ledger[r].epoch + 1
  IN  /\ At(a, "claim")
      /\ Claimable(ledger[r])
      /\ ledger' = [ledger EXCEPT ![r] =
                      [status |-> "RUNNING", owner |-> OwnerOf[a], epoch |-> epoch,
                       expired |-> FALSE, output |-> NoDocument]]
      /\ attempt' = [attempt EXCEPT ![a].pc = "execute", ![a].epoch = epoch]
      /\ claims' = [claims EXCEPT ![r] = @ + 1]
      /\ UNCHANGED <<run, artifacts, world, caller, faults>>

\* claim_stage meets another invocation's row: a completed one is returned,
\* and the record of the stream is acknowledged again.
ClaimRefused(a) ==
  LET row == ledger[attempt[a].row]
  IN  /\ At(a, "claim")
      /\ ~Claimable(row)
      /\ IF row.status # "COMPLETED" THEN Redrive(a)
         ELSE /\ attempt' = [attempt EXCEPT ![a].pc = "acknowledge",
                                            ![a].document = row.output]
              /\ UNCHANGED caller
      /\ UNCHANGED <<stored, faults>>

\* Nothing renews a lease.  A Lambda function is stopped within the 300 s of
\* its lease; an analysis worker is not.
LeaseExpires(r) ==
  /\ ledger[r].status = "RUNNING"
  /\ ~ledger[r].expired
  /\ r \notin Outlasting =>
        \A a \in Attempts : attempt[a].row = r => attempt[a].epoch # ledger[r].epoch
  /\ ledger' = [ledger EXCEPT ![r].expired = TRUE]
  /\ UNCHANGED <<run, artifacts, world, caller, attempt, faults, claims>>

\* The use case of the stage.  The proposal of an earlier invocation is kept
\* when it is identical; a reviewer who decided it meanwhile makes put_proposal
\* conflict.
Execute(a) ==
  LET r == attempt[a].row
  IN  /\ At(a, "execute")
      /\ IF r = Proposing /\ proposal = "APPROVED"
         THEN Goto(a, "lookup") /\ UNCHANGED proposal
         ELSE /\ attempt' = [attempt EXCEPT ![a].pc = "put", ![a].document =
                                             IF r = Pin THEN pointer ELSE r]
              /\ proposal' = IF r = Proposing THEN "IN_REVIEW" ELSE proposal
              /\ UNCHANGED caller
      /\ UNCHANGED <<ledger, run, artifacts, pointer, outbox, started, faults, claims>>

\* S3ArtifactStore.put: the key is written once; the same document again is
\* accepted.
PutAccepted(r, document) == artifacts[r] \in {NoDocument, document}

PutArtifact(a) ==
  LET r == attempt[a].row
  IN  /\ At(a, "put")
      /\ IF PutAccepted(r, attempt[a].document)
         THEN /\ artifacts' = [artifacts EXCEPT ![r] = attempt[a].document]
              /\ Goto(a, IF r = Intake THEN "start" ELSE "record")
         ELSE Goto(a, "lookup") /\ UNCHANGED artifacts
      /\ UNCHANGED <<ledger, run, world, faults, claims>>

\* The intake stage starts the state machine under a name made of the
\* command: an execution that exists is kept.
StartWorkflow(a) ==
  /\ At(a, "start")
  /\ started' = TRUE
  /\ Goto(a, "record")
  /\ UNCHANGED <<ledger, run, artifacts, proposal, pointer, outbox, faults, claims>>

\* Mistake: the lease is found by its owner alone.
HoldsRowByOwner(a, row) ==
  \/ row.status = "RUNNING" /\ row.owner = OwnerOf[a]
  \/ row.status = "COMPLETED" /\ row.output = attempt[a].document

\* The condition of record_stage on the row.  It does not look at the time.
HoldsRow(a, row) ==
  \/ row.status = "RUNNING" /\ row.owner = OwnerOf[a] /\ row.epoch = attempt[a].epoch
  \/ row.status = "COMPLETED" /\ row.output = attempt[a].document

\* The condition of record_stage on the summary.
SummaryMoves(r) == Ordinal[r] = 0 \/ run.ordinal <= Ordinal[r]

\* The summary of the run after the stage; a row without an ordinal leaves it.
Summary(a) ==
  LET r == attempt[a].row
  IN IF Ordinal[r] = 0 THEN run ELSE [ordinal |-> Ordinal[r], output |-> attempt[a].document]

\* The row and the summary are written in one transaction.
RecordStage(a) ==
  LET r == attempt[a].row
  IN  /\ At(a, "record")
      /\ IF HoldsRow(a, ledger[r]) /\ SummaryMoves(r)
         THEN /\ ledger' = [ledger EXCEPT ![r] =
                              [status |-> "COMPLETED", owner |-> NoOwner,
                               epoch |-> attempt[a].epoch, expired |-> FALSE,
                               output |-> attempt[a].document]]
              /\ run' = Summary(a)
              /\ Goto(a, "acknowledge")
         ELSE Goto(a, "lookup") /\ UNCHANGED <<ledger, run>>
      /\ UNCHANGED <<artifacts, world, faults, claims>>

\* After a conflict: a row that is completed by now answers SKIPPED.
LookUp(a) ==
  LET row == ledger[attempt[a].row]
  IN  /\ At(a, "lookup")
      /\ IF row.status = "COMPLETED" THEN Reply(a, "SKIPPED", row.output) ELSE Redrive(a)
      /\ UNCHANGED <<stored, faults>>

\* Mark the record of the stream delivered, then answer.
Acknowledge(a) ==
  /\ At(a, "acknowledge")
  /\ outbox' = IF attempt[a].row = Approval THEN "DELIVERED" ELSE outbox
  /\ Reply(a, "SUCCEEDED", attempt[a].document)
  /\ UNCHANGED <<ledger, run, artifacts, proposal, pointer, started, faults, claims>>

\* A reviewer approves the proposal as soon as it exists, whether or not its
\* stage has been recorded.
Approve ==
  /\ proposal = "IN_REVIEW"
  /\ proposal' = "APPROVED"
  /\ outbox' = "PENDING"
  /\ UNCHANGED <<ledger, run, artifacts, pointer, started, caller, attempt, faults, claims>>

\* Another command publishes.
PointerMoves ==
  /\ pointer' \in Versions \ {pointer}
  /\ UNCHANGED <<ledger, run, artifacts, proposal, outbox, started, caller, attempt, faults, claims>>
-----------------------------------------------------------------------------
Step(a) ==
  \/ ClaimStage(a) \/ ClaimRefused(a) \/ Execute(a) \/ PutArtifact(a)
  \/ StartWorkflow(a) \/ RecordStage(a) \/ LookUp(a) \/ Acknowledge(a)

Next ==
  \/ \E r \in Rows, a \in Attempts : Invoke(r, a)
  \/ \E r \in Rows : GiveUp(r) \/ LeaseExpires(r)
  \/ \E a \in Attempts : Step(a) \/ Die(a) \/ Throttled(a)
  \/ Approve \/ PointerMoves

\* Lambda runs what it was asked to run, Step Functions, SQS and the stream
\* invoke what is due.  Nobody has to approve, and a lease may be kept until
\* its invocation ends.
Fairness ==
  /\ \A a \in Attempts : WF_vars(Step(a))
  /\ \A r \in Rows : SF_vars(\E a \in Attempts : Invoke(r, a))

Spec == Init /\ [][Next]_vars /\ Fairness
-----------------------------------------------------------------------------
(* Properties.                                                             *)

LedgerRow == [status : {"ABSENT", "RUNNING", "COMPLETED"},
              owner : {NoOwner} \cup {OwnerOf[a] : a \in Attempts},
              epoch : Nat, expired : BOOLEAN, output : {NoDocument} \cup Documents]
Call == [status : {"READY", "WAITING", "SUCCEEDED", "FAILED"},
         attempt : {NoAttempt} \cup Attempts, tries : Nat, output : {NoDocument} \cup Documents]
Invocation == [pc : {"idle", "claim", "execute", "put", "start", "record", "lookup", "acknowledge"},
               row : Rows, epoch : Nat, document : {NoDocument} \cup Documents]

TypeOK ==
  /\ ledger \in [Rows -> LedgerRow]
  /\ run \in [ordinal : Nat, output : {NoDocument} \cup Documents]
  /\ artifacts \in [Rows -> {NoDocument} \cup Documents]
  /\ proposal \in {"NONE", "IN_REVIEW", "APPROVED"}
  /\ pointer \in Versions
  /\ outbox \in {"NONE", "PENDING", "DELIVERED"}
  /\ started \in BOOLEAN
  /\ caller \in [Rows -> Call]
  /\ attempt \in [Attempts -> Invocation]
  /\ faults \in Nat
  /\ claims \in [Rows -> Nat]

\* A caller goes on only with the reference that the ledger recorded and the
\* store holds, whichever of the invocations answered it.
HandedOnIsRecorded ==
  \A r \in Rows : Succeeded(r) =>
    /\ ledger[r].status = "COMPLETED"
    /\ caller[r].output = ledger[r].output
    /\ caller[r].output = artifacts[r]

\* The summary of the run is the one of a completed stage, and no completed
\* stage is further in the workflow than the summary says.
SummaryIsTheFurthestStage ==
  LET done == {r \in Rows : ledger[r].status = "COMPLETED" /\ Ordinal[r] # 0}
  IN  /\ \A r \in done : Ordinal[r] <= run.ordinal
      /\ done # {} => \E r \in done : Ordinal[r] = run.ordinal
                                      /\ ledger[r].output = run.output

\* What the callers and the summary of the run say is what the ledger holds.
LedgerIsFollowed == HandedOnIsRecorded /\ SummaryIsTheFurthestStage

\* A stage is completed once, by the invocation that claimed its row last: one
\* whose lease ran out and was taken over does not complete it any more, even
\* when both run under one log stream.
LastClaimCompletes ==
  [][\A r \in Rows :
       ledger[r].status # "COMPLETED" /\ ledger'[r].status = "COMPLETED" =>
         \E a \in Attempts :
           /\ At(a, "record") /\ attempt[a].row = r /\ attempt[a].epoch = claims[r]
           /\ ledger'[r].output = attempt[a].document]_vars

\* An approved proposal is published, or its record ends in the dead letter
\* queue: no invocation swallows it.
ApprovalIsPublished ==
  outbox = "PENDING" ~>
    (ledger[Approval].status = "COMPLETED" \/ caller[Approval].status = "FAILED")

\* A state machine that was started comes to its end: a stage that can not be
\* completed, because its lease, its artifact or its summary conflicts, fails.
WorkflowEnds ==
  started ~> \/ \A r \in Machine : Succeeded(r)
             \/ \E r \in Machine : caller[r].status = "FAILED"

\* Neither a machine nor an approval is left hanging by functions that stop, calls
\* that are throttled and leases that outlive their holder.
WorkSettles == ApprovalIsPublished /\ WorkflowEnds
-----------------------------------------------------------------------------
(* The ledger keeps the promise that the store of the local deployment      *)
(* keeps: one epoch at a time, and an output that is written once by the    *)
(* holder of the open epoch.                                                *)

Fenced == INSTANCE FencedExecution WITH
  Commands <- Rows, Workers <- Attempts, Outputs <- Documents,
  Keys <- Rows, KeysOf <- [r \in Rows |-> {r}],
  NoOutput <- NoDocument, NoGrant <- NoAttempt,
  issued <- claims,
  open <- [r \in Rows |-> ledger[r].status = "RUNNING"],
  held <- [a \in Attempts |-> IF attempt[a].epoch = 0 THEN NoAttempt
                              ELSE <<attempt[a].row, attempt[a].epoch>>],
  ledger <- [r \in Rows |-> ledger[r].output]

\* The stage ledger implements the fenced execution: one epoch of a stage is open at a
\* time, and its holder alone writes the output, once.
ImplementsFencedExecution == Fenced!Spec
=============================================================================
