---------------------------- MODULE CommandStore ----------------------------
(***************************************************************************)
(* SQLiteCommandStore: durable commands, the leases under which workers    *)
(* execute them, the ledger of attempts and the immutable stage results.   *)
(*                                                                         *)
(* Every operation is one BEGIN IMMEDIATE transaction, hence one action.   *)
(* The operation reads the clock before it asks for the write lock, so the *)
(* reading t it decides with may be up to LockWait older than `now', the   *)
(* time at which the transaction runs.  Operations that raise without      *)
(* writing are not actions; where a caller reacts to the error the module  *)
(* names its condition instead (ClaimLeaseUnavailable, ...).               *)
(***************************************************************************)
EXTENDS Integers

CONSTANTS
    Commands,           \* command identifiers
    Workers,            \* threads that execute commands
    Owners,             \* lease owner names
    OwnerOf,            \* the owner name a worker claims under
    Identities,         \* (workflow kind, scope, artifact, determinant) digests
    IdentityOf,         \* the immutable identity of a command
    CheckpointStages,   \* stages recorded by record_stage
    Outputs,            \* output checksums
    MaxAttempts,        \* Command.max_attempts
    LeaseTicks,         \* lease_seconds of claim and renew
    DeadlineTicks,      \* deadline_at - created_at
    LockWait,           \* longest wait for the write lock
    MaxTime,            \* bound of the model: the clock stops here
    NoOwner, NoOutput, NoResult, NoLease

ASSUME ParameterAssumption ==
    /\ OwnerOf \in [Workers -> Owners]
    /\ IdentityOf \in [Commands -> Identities]
    /\ MaxAttempts \in Nat \ {0}
    /\ LeaseTicks \in Nat \ {0}
    /\ DeadlineTicks \in Nat
    /\ LockWait \in Nat
    /\ MaxTime \in Nat

ASSUME NullAssumption ==
    /\ NoOwner \notin Owners
    /\ NoOutput \notin Outputs

NoTime == -1

(* The stage key complete() records the command's own result under. *)
WorkflowStage == "WORKFLOW"
StageNames == CheckpointStages \union {WorkflowStage}
StageKeys == Identities \X StageNames

CommandStatus == {"ABSENT", "QUEUED", "RUNNING", "RETRY_WAIT", "COMPLETED",
                  "FAILED_REDRIVABLE", "FAILED_TERMINAL"}
Claimable == {"QUEUED", "RETRY_WAIT", "FAILED_REDRIVABLE"}
AttemptStatus == {"NONE", "RUNNING", "COMPLETED", "FAILED", "LEASE_EXPIRED"}
AttemptNumbers == 1..MaxAttempts

CommandRow == [status   : CommandStatus,
               attempt  : 0..MaxAttempts,
               owner    : Owners \union {NoOwner},
               epoch    : Nat,
               expires  : Nat \union {NoTime},
               deadline : Nat,
               output   : Outputs \union {NoOutput}]
AttemptRow == [status : AttemptStatus, epoch : Nat]
StageResult == [command : Commands, checksum : Outputs, epoch : Nat]
Lease == [command : Commands, owner : Owners, epoch : Nat]

ASSUME RecordNullAssumption ==
    /\ NoResult \notin StageResult
    /\ NoLease \notin Lease
    /\ NoLease \notin Commands \X Nat

VARIABLES
    commands,   \* table commands
    attempts,   \* table command_attempts, by command and attempt number
    results,    \* table stage_results, by stage idempotency key
    leases,     \* the lease each worker holds in memory
    now         \* the clock

vars == <<commands, attempts, results, leases, now>>

----------------------------------------------------------------------------
(* Clock readings an operation running now may decide with. *)
Readings == {t \in 0..now : now - t =< LockWait}

KeyOf(c, stage) == <<IdentityOf[c], stage>>

(* Mutant of ActiveLease: the epoch is not compared. *)
ActiveLeaseByOwner(l, t) ==
    LET row == commands[l.command]
    IN  row.status = "RUNNING" /\ row.owner = l.owner /\ t < row.expires

(* _assert_active_lease, evaluated with clock reading t. *)
ActiveLease(l, t) ==
    LET row == commands[l.command]
    IN  /\ row.status = "RUNNING"
        /\ row.owner = l.owner
        /\ row.epoch = l.epoch
        /\ row.expires # NoTime
        /\ t < row.expires

(* Mutant of FinishAttempt: the ledger is not touched. *)
FinishAttemptLost(ledger, attempt, epoch, status) == ledger

(* _finish_attempt: the UPDATE finds the row by attempt and lease epoch. *)
FinishAttempt(ledger, attempt, epoch, status) ==
    [k \in AttemptNumbers |->
        IF k = attempt /\ ledger[k].epoch = epoch
        THEN [ledger[k] EXCEPT !.status = status]
        ELSE ledger[k]]

(* The columns every transition out of RUNNING clears. *)
Settle(row, status) ==
    [row EXCEPT !.status = status, !.owner = NoOwner, !.expires = NoTime]

----------------------------------------------------------------------------
Init ==
    /\ commands = [c \in Commands |->
                      [status |-> "ABSENT", attempt |-> 0, owner |-> NoOwner,
                       epoch |-> 0, expires |-> NoTime, deadline |-> 0,
                       output |-> NoOutput]]
    /\ attempts = [c \in Commands |->
                      [k \in AttemptNumbers |-> [status |-> "NONE", epoch |-> 0]]]
    /\ results = [key \in StageKeys |-> NoResult]
    /\ leases = [w \in Workers |-> NoLease]
    /\ now = 0

(* submit: a command already stored under the idempotency key is returned. *)
Submit(c, t) ==
    /\ commands[c].status = "ABSENT"
    /\ commands' = [commands EXCEPT ![c].status = "QUEUED",
                                    ![c].deadline = t + DeadlineTicks]
    /\ UNCHANGED <<attempts, results, leases, now>>

(* The attempt budget of claim and of fail. *)
AttemptsLeft(c) == commands[c].attempt < MaxAttempts

(* claim, first check: the attempts are used up, whatever the status. *)
ClaimExhausted(c) ==
    /\ commands[c].status # "ABSENT"
    /\ ~AttemptsLeft(c)
    /\ commands[c].status # "FAILED_TERMINAL"
    /\ commands' = [commands EXCEPT ![c] = Settle(@, "FAILED_TERMINAL")]
    /\ UNCHANGED <<attempts, results, leases, now>>

(* claim, second check: the deadline has passed, whatever the status. *)
ClaimPastDeadline(c, t) ==
    /\ commands[c].status # "ABSENT"
    /\ AttemptsLeft(c)
    /\ t >= commands[c].deadline
    /\ commands' = [commands EXCEPT ![c] = Settle(@, "FAILED_TERMINAL")]
    /\ UNCHANGED <<attempts, results, leases, now>>

(* The statuses and leases a claim may take over once both checks passed. *)
Takeable(c, t) ==
    \/ commands[c].status \in Claimable
    \/ commands[c].status = "RUNNING" /\ t >= commands[c].expires

(* claim, granted: an expired attempt is closed and a new one opened under *)
(* the next lease epoch.                                                   *)
ClaimGranted(w, c, t) ==
    LET row == commands[c]
        ledger == IF row.status = "RUNNING"
                  THEN FinishAttempt(attempts[c], row.attempt, row.epoch, "LEASE_EXPIRED")
                  ELSE attempts[c]
    IN  /\ leases[w] = NoLease
        /\ AttemptsLeft(c)
        /\ t < row.deadline
        /\ Takeable(c, t)
        /\ commands' = [commands EXCEPT
               ![c].status = "RUNNING",
               ![c].attempt = row.attempt + 1,
               ![c].owner = OwnerOf[w],
               ![c].epoch = row.epoch + 1,
               ![c].expires = t + LeaseTicks]
        /\ attempts' = [attempts EXCEPT
               ![c] = [ledger EXCEPT ![row.attempt + 1] =
                          [status |-> "RUNNING", epoch |-> row.epoch + 1]]]
        /\ leases' = [leases EXCEPT
               ![w] = [command |-> c, owner |-> OwnerOf[w], epoch |-> row.epoch + 1]]
        /\ UNCHANGED <<results, now>>

(* claim raises and writes nothing: the command is leased to another, or   *)
(* its status admits no claim.                                             *)
ClaimRefused(c, t) ==
    IF AttemptsLeft(c)
    THEN t < commands[c].deadline /\ ~Takeable(c, t)
    ELSE commands[c].status = "FAILED_TERMINAL"

(* renew: the expiry moves, the epoch stays. *)
Renew(w, t) ==
    /\ leases[w] # NoLease
    /\ ActiveLease(leases[w], t)
    /\ commands' = [commands EXCEPT ![leases[w].command].expires = t + LeaseTicks]
    /\ UNCHANGED <<attempts, results, leases, now>>

(* Insert a stage result unless one is stored under the key. *)
StoreResult(key, l, o) ==
    IF results[key] = NoResult
    THEN [results EXCEPT ![key] =
             [command |-> l.command, checksum |-> o, epoch |-> l.epoch]]
    ELSE results

(* complete compares its output with the one stored under the key. *)
OutputAccepted(key, o) == results[key] # NoResult => results[key].checksum = o

(* complete: refused when the workflow result of the same identity has a   *)
(* different checksum; a replay on a COMPLETED command changes nothing.    *)
Complete(w, o, t) ==
    LET l == leases[w]
        c == l.command
        key == KeyOf(c, WorkflowStage)
    IN  /\ l # NoLease
        /\ OutputAccepted(key, o)
        /\ ActiveLease(l, t)
        /\ results' = StoreResult(key, l, o)
        /\ commands' = [commands EXCEPT ![c] = [Settle(@, "COMPLETED") EXCEPT !.output = o]]
        /\ attempts' = [attempts EXCEPT
               ![c] = FinishAttempt(@, commands[c].attempt, l.epoch, "COMPLETED")]
        /\ UNCHANGED <<leases, now>>

(* complete returns the stored command of a replay. *)
CompleteReplayed(w, o) ==
    LET c == leases[w].command
        stored == results[KeyOf(c, WorkflowStage)]
    IN  /\ stored # NoResult
        /\ stored.checksum = o
        /\ commands[c].status = "COMPLETED"

(* complete raises: another checksum is stored, or the lease is stale. *)
CompleteRefused(w, o, t) ==
    /\ ~CompleteReplayed(w, o)
    /\ \/ ~OutputAccepted(KeyOf(leases[w].command, WorkflowStage), o)
       \/ ~ActiveLease(leases[w], t)

(* fail: back to FAILED_REDRIVABLE while attempts and time are left. *)
Fail(w, retryable, t) ==
    LET l == leases[w]
        c == l.command
        canRetry == /\ retryable
                    /\ AttemptsLeft(c)
                    /\ t < commands[c].deadline
    IN  /\ l # NoLease
        /\ ActiveLease(l, t)
        /\ commands' = [commands EXCEPT
               ![c] = Settle(@, IF canRetry THEN "FAILED_REDRIVABLE" ELSE "FAILED_TERMINAL")]
        /\ attempts' = [attempts EXCEPT
               ![c] = FinishAttempt(@, commands[c].attempt, l.epoch, "FAILED")]
        /\ UNCHANGED <<results, leases, now>>

(* record_stage: a result stored under the key is returned or refused      *)
(* before the lease is looked at, so only the insert needs the lease.      *)
RecordStage(w, stage, o, t) ==
    LET l == leases[w]
        key == KeyOf(l.command, stage)
    IN  /\ l # NoLease
        /\ results[key] = NoResult
        /\ ActiveLease(l, t)
        /\ results' = StoreResult(key, l, o)
        /\ UNCHANGED <<commands, attempts, leases, now>>

(* The worker returns from the handler, or its process dies. *)
Release(w) ==
    /\ leases[w] # NoLease
    /\ leases' = [leases EXCEPT ![w] = NoLease]
    /\ UNCHANGED <<commands, attempts, results, now>>

Tick ==
    /\ now < MaxTime
    /\ now' = now + 1
    /\ UNCHANGED <<commands, attempts, results, leases>>

Claim(w, c, t) ==
    \/ ClaimExhausted(c)
    \/ ClaimPastDeadline(c, t)
    \/ ClaimGranted(w, c, t)

WorkerStep(w, t) ==
    \/ \E c \in Commands : Claim(w, c, t)
    \/ Renew(w, t)
    \/ \E o \in Outputs : Complete(w, o, t)
    \/ \E retryable \in BOOLEAN : Fail(w, retryable, t)
    \/ \E stage \in CheckpointStages, o \in Outputs : RecordStage(w, stage, o, t)

Next ==
    \/ \E c \in Commands, t \in Readings : Submit(c, t)
    \/ \E w \in Workers, t \in Readings : WorkerStep(w, t)
    \/ \E w \in Workers : Release(w)
    \/ Tick

Spec == Init /\ [][Next]_vars

----------------------------------------------------------------------------
(* The rows and leases have the shapes of their tables. *)
TypeOK ==
    /\ commands \in [Commands -> CommandRow]
    /\ attempts \in [Commands -> [AttemptNumbers -> AttemptRow]]
    /\ results \in [StageKeys -> StageResult \union {NoResult}]
    /\ leases \in [Workers -> Lease \union {NoLease}]
    /\ now \in Nat

(* Mutual exclusion by fencing: of the workers that still hold a lease on  *)
(* a command in memory, at most one passes _assert_active_lease, even when *)
(* all of them claim under the same owner name and decide with old clock   *)
(* readings.                                                               *)
OneActiveLease ==
    \A w1, w2 \in Workers :
        /\ leases[w1] # NoLease
        /\ leases[w2] # NoLease
        /\ leases[w1].command = leases[w2].command
        /\ \E t \in Readings : ActiveLease(leases[w1], t)
        /\ \E t \in Readings : ActiveLease(leases[w2], t)
        => w1 = w2

(* The attempt ledger tells the story of the command: numbers are used in  *)
(* order, an attempt is open exactly for the epoch that runs, and a        *)
(* COMPLETED or FAILED_REDRIVABLE command was left so by its last attempt. *)
(* (A claim that fails a running command terminally leaves its attempt     *)
(* RUNNING: only the last attempt may be open.)                            *)
AttemptLedger ==
    \A c \in Commands :
        LET row == commands[c]
            last == attempts[c][row.attempt]
        IN  /\ \A k \in AttemptNumbers :
                  /\ k > row.attempt <=> attempts[c][k].status = "NONE"
                  /\ attempts[c][k].status = "RUNNING" => k = row.attempt
            /\ row.status = "RUNNING" =>
                  row.attempt > 0 /\ last = [status |-> "RUNNING", epoch |-> row.epoch]
            /\ row.status = "COMPLETED" => row.attempt > 0 /\ last.status = "COMPLETED"
            /\ row.status = "FAILED_REDRIVABLE" => row.attempt > 0 /\ last.status = "FAILED"

(* A completed command reports the one workflow output recorded for its    *)
(* identity, also when another command of that identity recorded it.       *)
CompletedOutputIsRecorded ==
    \A c \in Commands :
        commands[c].status = "COMPLETED" =>
            LET stored == results[KeyOf(c, WorkflowStage)]
            IN  stored # NoResult /\ stored.checksum = commands[c].output

(* The tables agree: the lease that is honoured, the attempt that is open   *)
(* and the output that is reported are those of one and the same claim.     *)
LedgersAgree == OneActiveLease /\ AttemptLedger /\ CompletedOutputIsRecorded

(* One logical output per determinant set: a stage result never changes,   *)
(* and a new one is written by the current epoch of a running command of   *)
(* that identity.                                                          *)
StageResultsFenced ==
    [][\A key \in StageKeys :
          results'[key] # results[key] =>
              /\ results[key] = NoResult
              /\ LET r == results'[key]
                 IN  /\ key[1] = IdentityOf[r.command]
                     /\ commands[r.command].status = "RUNNING"
                     /\ commands[r.command].epoch = r.epoch]_vars

(* A worker takes a running command over only after the lease it was       *)
(* granted has run out in real time: stale clock readings and renewals     *)
(* never let a second attempt start early.                                 *)
NoEarlyTakeover ==
    [][\A c \in Commands :
          commands'[c].epoch # commands[c].epoch =>
              /\ commands'[c].epoch = commands[c].epoch + 1
              /\ commands[c].status = "RUNNING" => now >= commands[c].expires]_vars

----------------------------------------------------------------------------
(* The promise of the port, seen in the tables. *)
GrantOf(lease) == IF lease = NoLease THEN NoLease ELSE <<lease.command, lease.epoch>>

Execution == INSTANCE FencedExecution WITH
    Keys <- StageKeys,
    KeysOf <- [c \in Commands |-> {KeyOf(c, stage) : stage \in StageNames}],
    NoGrant <- NoLease,
    issued <- [c \in Commands |-> commands[c].epoch],
    open <- [c \in Commands |-> commands[c].status = "RUNNING"],
    held <- [w \in Workers |-> GrantOf(leases[w])],
    ledger <- [key \in StageKeys |->
                  IF results[key] = NoResult THEN NoOutput ELSE results[key].checksum]

(* Implementation: every transaction of the store is a step of fenced      *)
(* execution or leaves its state as it is.                                 *)
ImplementsFencedExecution == Execution!Spec
=============================================================================
