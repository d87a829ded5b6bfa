------------------------- MODULE LocalWorker_proofs -------------------------
(***************************************************************************)
(* Theorems about the local execution path.  First the command store on    *)
(* its own, with every operation free to happen: types, fencing, the       *)
(* attempts, the immutable results, and that it implements the promise of  *)
(* its port.  Then the worker loop: it runs the store and the queue by     *)
(* their own rules, it continues only with recorded outputs, it stores an  *)
(* artifact before its ledger entry, and it forgets no command.            *)
(***************************************************************************)
EXTENDS LocalWorker, FiniteSetTheorems, TLAPS

(* A clock reading is a time that has passed. *)
LEMMA ReadingsAreTimes ==
    ASSUME now \in Nat, NEW t \in Readings
    PROVE  t \in Nat /\ t =< now
BY DEF Readings

(* Settling a row keeps its shape and everything but status and lease. *)
LEMMA SettleRow ==
    ASSUME NEW row \in CommandRow, NEW status \in CommandStatus
    PROVE  /\ Settle(row, status) \in CommandRow
           /\ Settle(row, status).status = status
           /\ Settle(row, status).attempt = row.attempt
           /\ Settle(row, status).epoch = row.epoch
           /\ Settle(row, status).output = row.output
BY DEF Settle, CommandRow

(* Finishing an attempt changes at most the status of that attempt. *)
LEMMA FinishAttemptRows ==
    ASSUME NEW ledger \in [AttemptNumbers -> AttemptRow], NEW attempt, NEW epoch,
           NEW status \in AttemptStatus
    PROVE  LET after == FinishAttempt(ledger, attempt, epoch, status)
           IN  /\ after \in [AttemptNumbers -> AttemptRow]
               /\ \A k \in AttemptNumbers : after[k].epoch = ledger[k].epoch
               /\ \A k \in AttemptNumbers :
                      k # attempt \/ ledger[k].epoch # epoch => after[k] = ledger[k]
               /\ \A k \in AttemptNumbers :
                      k = attempt /\ ledger[k].epoch = epoch => after[k].status = status
BY DEF FinishAttempt, AttemptRow

(* A worker's lease, when it holds one, is a lease. *)
LEMMA LeaseType ==
    ASSUME TypeOK, NEW w \in Workers, leases[w] # NoLease
    PROVE  /\ leases[w] \in Lease
           /\ leases[w].command \in Commands
           /\ leases[w].epoch \in Nat
BY DEF TypeOK, Lease

(* StoreResult stores, under a key of the table, a row of the table. *)
LEMMA StoreResultType ==
    ASSUME results \in [StageKeys -> StageResult \union {NoResult}],
           NEW key \in StageKeys, NEW l \in Lease, NEW o \in Outputs
    PROVE  /\ StoreResult(key, l, o) \in [StageKeys -> StageResult \union {NoResult}]
           /\ \A k \in StageKeys : k # key => StoreResult(key, l, o)[k] = results[k]
           /\ results[key] # NoResult => StoreResult(key, l, o)[key] = results[key]
           /\ results[key] = NoResult =>
                  StoreResult(key, l, o)[key] =
                      [command |-> l.command, checksum |-> o, epoch |-> l.epoch]
<1>1. [command |-> l.command, checksum |-> o, epoch |-> l.epoch] \in StageResult
  BY DEF Lease, StageResult
<1> QED
  BY <1>1 DEF StoreResult

(* The stage keys of a command are keys of the table. *)
LEMMA KeyType ==
    ASSUME NEW c \in Commands, NEW name \in StageNames
    PROVE  KeyOf(c, name) \in StageKeys /\ KeyOf(c, name)[1] = IdentityOf[c]
BY ParameterAssumption, NullAssumption DEF KeyOf, StageKeys

----------------------------------------------------------------------------
(* Every transaction leaves rows and leases of their types. *)
LEMMA TypeStep ==
    ASSUME TypeOK, [Next]_vars
    PROVE  TypeOK'
  <2>1. ASSUME NEW c \in Commands, NEW t \in Readings, Submit(c, t)
        PROVE TypeOK'
    <3>1. t \in Nat
      BY ReadingsAreTimes DEF TypeOK
    <3>2. t + DeadlineTicks \in Nat
      BY <3>1, ParameterAssumption, NullAssumption
    <3>3. commands[c] \in CommandRow
      BY DEF TypeOK
    <3>4. [commands[c] EXCEPT !.status = "QUEUED", !.deadline = t + DeadlineTicks] \in CommandRow
      BY <3>2, <3>3 DEF CommandRow, CommandStatus
    <3>5. commands' = [commands EXCEPT ![c] =
              [commands[c] EXCEPT !.status = "QUEUED", !.deadline = t + DeadlineTicks]]
      BY <2>1 DEF Submit
    <3> QED
      BY <2>1, <3>4, <3>5 DEF Submit, TypeOK
  <2>2. ASSUME NEW c \in Commands, ClaimExhausted(c) PROVE TypeOK'
    BY <2>2, SettleRow DEF TypeOK, ClaimExhausted, CommandStatus
  <2>3. ASSUME NEW c \in Commands, NEW t \in Readings, ClaimPastDeadline(c, t)
        PROVE TypeOK'
    BY <2>3, SettleRow DEF TypeOK, ClaimPastDeadline, CommandStatus
  <2>4. ASSUME NEW w \in Workers, NEW c \in Commands, NEW t \in Readings,
               ClaimGranted(w, c, t)
        PROVE  TypeOK'
    <3>1. t \in Nat
      BY ReadingsAreTimes DEF TypeOK
    <3> DEFINE row == commands[c]
               ledger == IF row.status = "RUNNING"
                         THEN FinishAttempt(attempts[c], row.attempt, row.epoch, "LEASE_EXPIRED")
                         ELSE attempts[c]
    <3>2. row \in CommandRow /\ row.epoch \in Nat /\ row.attempt \in 0..MaxAttempts
      BY DEF TypeOK, CommandRow
    <3>3. row.attempt + 1 \in 0..MaxAttempts
      BY <2>4, <3>2, ParameterAssumption, NullAssumption DEF ClaimGranted, AttemptsLeft
    <3>4. ledger \in [AttemptNumbers -> AttemptRow]
      BY FinishAttemptRows DEF TypeOK, AttemptStatus
    <3>5. OwnerOf[w] \in Owners
      BY ParameterAssumption, NullAssumption
    <3>6. commands' \in [Commands -> CommandRow]
      BY <2>4, <3>1, <3>2, <3>3, <3>5, ParameterAssumption, NullAssumption
         DEF ClaimGranted, TypeOK, CommandRow, CommandStatus
    <3>7. attempts' = [attempts EXCEPT ![c] =
              [ledger EXCEPT ![row.attempt + 1] = [status |-> "RUNNING", epoch |-> row.epoch + 1]]]
      BY <2>4 DEF ClaimGranted
    <3>8. [status |-> "RUNNING", epoch |-> row.epoch + 1] \in AttemptRow
      BY <3>2 DEF AttemptRow, AttemptStatus
    <3>9. attempts' \in [Commands -> [AttemptNumbers -> AttemptRow]]
      BY <3>4, <3>7, <3>8 DEF TypeOK
    <3>10. leases' \in [Workers -> Lease \union {NoLease}]
      BY <2>4, <3>2, <3>5 DEF ClaimGranted, TypeOK, Lease
    <3> QED
      BY <2>4, <3>6, <3>9, <3>10 DEF ClaimGranted, TypeOK
  <2>5. ASSUME NEW w \in Workers, NEW t \in Readings, Renew(w, t)
        PROVE TypeOK'
    <3>1. t \in Nat
      BY ReadingsAreTimes DEF TypeOK
    <3> DEFINE c == leases[w].command
    <3>2. c \in Commands
      BY <2>5, LeaseType DEF Renew
    <3>3. t + LeaseTicks \in Nat
      BY <3>1, ParameterAssumption, NullAssumption
    <3>4. commands[c] \in CommandRow
      BY <3>2 DEF TypeOK
    <3>5. [commands[c] EXCEPT !.expires = t + LeaseTicks] \in CommandRow
      BY <3>3, <3>4 DEF CommandRow
    <3>6. commands' = [commands EXCEPT ![c] = [commands[c] EXCEPT !.expires = t + LeaseTicks]]
      BY <2>5 DEF Renew
    <3> QED
      BY <2>5, <3>5, <3>6 DEF Renew, TypeOK
  <2>6. ASSUME NEW w \in Workers, NEW o \in Outputs, NEW t \in Readings,
               Complete(w, o, t)
        PROVE  TypeOK'
    <3> DEFINE c == leases[w].command
    <3>1. leases[w] \in Lease /\ c \in Commands
      BY <2>6, LeaseType DEF Complete
    <3>a. Settle(commands[c], "COMPLETED") \in CommandRow
      BY <3>1, SettleRow DEF TypeOK, CommandStatus
    <3>b. [Settle(commands[c], "COMPLETED") EXCEPT !.output = o] \in CommandRow
      BY <3>a DEF CommandRow
    <3>2. commands' \in [Commands -> CommandRow]
      BY <2>6, <3>b DEF Complete, TypeOK
    <3>3. attempts' \in [Commands -> [AttemptNumbers -> AttemptRow]]
      <4> DEFINE row == FinishAttempt(attempts[c], commands[c].attempt, leases[w].epoch, "COMPLETED")
      <4>1. attempts[c] \in [AttemptNumbers -> AttemptRow]
        BY <3>1 DEF TypeOK
      <4>2. row \in [AttemptNumbers -> AttemptRow]
        BY <4>1, FinishAttemptRows DEF AttemptStatus
      <4>3. attempts' = [attempts EXCEPT ![c] = row]
        BY <2>6 DEF Complete
      <4> QED
        BY <4>2, <4>3 DEF TypeOK
    <3>4. results' \in [StageKeys -> StageResult \union {NoResult}]
      BY <2>6, <3>1, KeyType, StoreResultType DEF Complete, TypeOK, StageNames
    <3> QED
      BY <2>6, <3>2, <3>3, <3>4 DEF Complete, TypeOK
  <2>7. ASSUME NEW w \in Workers, NEW retryable \in BOOLEAN, NEW t \in Readings,
               Fail(w, retryable, t)
        PROVE  TypeOK'
    <3> DEFINE c == leases[w].command
    <3>1. c \in Commands
      BY <2>7, LeaseType DEF Fail
    <3>2. commands' \in [Commands -> CommandRow]
      <4>1. PICK status \in CommandStatus :
                commands' = [commands EXCEPT ![c] = Settle(commands[c], status)]
        BY <2>7 DEF Fail, CommandStatus
      <4> QED
        BY <3>1, <4>1, SettleRow DEF TypeOK
    <3>3. attempts' \in [Commands -> [AttemptNumbers -> AttemptRow]]
      <4> DEFINE row == FinishAttempt(attempts[c], commands[c].attempt, leases[w].epoch, "FAILED")
      <4>1. attempts[c] \in [AttemptNumbers -> AttemptRow]
        BY <3>1 DEF TypeOK
      <4>2. row \in [AttemptNumbers -> AttemptRow]
        BY <4>1, FinishAttemptRows DEF AttemptStatus
      <4>3. attempts' = [attempts EXCEPT ![c] = row]
        BY <2>7 DEF Fail
      <4> QED
        BY <4>2, <4>3 DEF TypeOK
    <3> QED
      BY <2>7, <3>2, <3>3 DEF Fail, TypeOK
  <2>8. ASSUME NEW w \in Workers, NEW name \in CheckpointStages, NEW o \in Outputs,
               NEW t \in Readings, RecordStage(w, name, o, t)
        PROVE  TypeOK'
    <3>1. leases[w] \in Lease /\ leases[w].command \in Commands
      BY <2>8, LeaseType DEF RecordStage
    <3>2. results' \in [StageKeys -> StageResult \union {NoResult}]
      BY <2>8, <3>1, KeyType, StoreResultType DEF RecordStage, TypeOK,
         StageNames
    <3> QED
      BY <2>8, <3>2 DEF RecordStage, TypeOK
  <2>9. ASSUME NEW w \in Workers, Release(w) PROVE TypeOK'
    BY <2>9 DEF Release, TypeOK
  <2>10. CASE Tick
    BY <2>10 DEF Tick, TypeOK
  <2>11. CASE UNCHANGED vars
    BY <2>11 DEF vars, TypeOK
  <2> QED
    BY <2>1, <2>2, <2>3, <2>4, <2>5, <2>6, <2>7, <2>8, <2>9, <2>10, <2>11
       DEF Next, WorkerStep, Claim

(* The tables and the leases always have the shapes of their columns: in   *)
(* particular no command is ever charged more attempts than it has.        *)
THEOREM TypeCorrect == Spec => []TypeOK
<1>1. Init => TypeOK
  BY ParameterAssumption, NullAssumption
     DEF Init, TypeOK, CommandRow, CommandStatus, AttemptRow,
         AttemptStatus
<1>2. ASSUME TypeOK, [Next]_vars PROVE TypeOK'
  BY <1>2, TypeStep
<1> QED
  BY <1>1, <1>2, PTL DEF Spec
----------------------------------------------------------------------------
(* Only a granted claim advances an epoch or hands out a lease. *)
LEMMA EpochSteps ==
    ASSUME TypeOK, [Next]_vars
    PROVE  \/ \E w \in Workers, c \in Commands, t \in Readings : ClaimGranted(w, c, t)
           \/ /\ \A c \in Commands : commands'[c].epoch = commands[c].epoch
              /\ \A w \in Workers : leases'[w] \in {leases[w], NoLease}
<1> DEFINE Kept == /\ \A c \in Commands : commands'[c].epoch = commands[c].epoch
                   /\ \A w \in Workers : leases'[w] \in {leases[w], NoLease}
<1> USE DEF TypeOK
<1>1. ASSUME NEW c \in Commands, NEW t \in Readings, Submit(c, t) PROVE Kept
  BY <1>1 DEF Submit, CommandRow
<1>2. ASSUME NEW c \in Commands, ClaimExhausted(c) PROVE Kept
  BY <1>2, SettleRow DEF ClaimExhausted, CommandStatus
<1>3. ASSUME NEW c \in Commands, NEW t \in Readings, ClaimPastDeadline(c, t)
      PROVE Kept
  BY <1>3, SettleRow DEF ClaimPastDeadline, CommandStatus
<1>4. ASSUME NEW w \in Workers, NEW t \in Readings, Renew(w, t) PROVE Kept
  BY <1>4, LeaseType DEF Renew, CommandRow
<1>5. ASSUME NEW w \in Workers, NEW o \in Outputs, NEW t \in Readings,
             Complete(w, o, t)
      PROVE  Kept
  <2> DEFINE c == leases[w].command
             row == Settle(commands[c], "COMPLETED")
  <2>1. c \in Commands
    BY <1>5, LeaseType DEF Complete
  <2>2. row \in CommandRow /\ row.epoch = commands[c].epoch
    BY <2>1, SettleRow DEF CommandStatus
  <2>3. [row EXCEPT !.output = o].epoch = commands[c].epoch
    BY <2>2 DEF CommandRow
  <2> QED
    BY <1>5, <2>1, <2>3 DEF Complete
<1>6. ASSUME NEW w \in Workers, NEW retryable \in BOOLEAN, NEW t \in Readings,
             Fail(w, retryable, t)
      PROVE  Kept
  <2>1. PICK status \in CommandStatus :
            commands' = [commands EXCEPT ![leases[w].command] = Settle(@, status)]
    BY <1>6 DEF Fail, CommandStatus
  <2> QED
    BY <1>6, <2>1, LeaseType, SettleRow DEF Fail
<1>7. ASSUME NEW w \in Workers, NEW name \in CheckpointStages, NEW o \in Outputs,
             NEW t \in Readings, RecordStage(w, name, o, t)
      PROVE  Kept
  BY <1>7 DEF RecordStage
<1>8. ASSUME NEW w \in Workers, Release(w) PROVE Kept
  BY <1>8 DEF Release
<1>9. CASE Tick
  BY <1>9 DEF Tick
<1>10. CASE UNCHANGED vars
  BY <1>10 DEF vars
<1> QED
  BY <1>1, <1>2, <1>3, <1>4, <1>5, <1>6, <1>7, <1>8, <1>9, <1>10
     DEF Next, WorkerStep, Claim

(* The inductive part of fencing: no lease in memory is ahead of its row,  *)
(* and no two workers hold the same epoch of a command.                    *)
EpochsFence ==
    /\ \A w \in Workers :
          leases[w] # NoLease => leases[w].epoch =< commands[leases[w].command].epoch
    /\ \A w1, w2 \in Workers :
          /\ leases[w1] # NoLease
          /\ leases[w2] # NoLease
          /\ leases[w1].command = leases[w2].command
          /\ leases[w1].epoch = leases[w2].epoch
          => w1 = w2

(* Epochs fence: every claim leaves the leases handed out before it behind. *)
LEMMA EpochsFenced == Spec => []EpochsFence
<1>1. Init => EpochsFence
  BY DEF Init, EpochsFence
<1>2. ASSUME TypeOK, TypeOK', EpochsFence, [Next]_vars
      PROVE EpochsFence'
  <2>1. CASE /\ \A c \in Commands : commands'[c].epoch = commands[c].epoch
             /\ \A w \in Workers : leases'[w] \in {leases[w], NoLease}
    BY <1>2, <2>1, LeaseType DEF EpochsFence
  <2>2. ASSUME NEW w \in Workers, NEW c \in Commands, NEW t \in Readings,
               ClaimGranted(w, c, t)
        PROVE  EpochsFence'
    <3>1. commands[c] \in CommandRow /\ commands[c].epoch \in Nat
      BY <1>2 DEF TypeOK, CommandRow
    <3>2. /\ commands'[c].epoch = commands[c].epoch + 1
          /\ \A d \in Commands \ {c} : commands'[d] = commands[d]
      BY <1>2, <2>2, <3>1 DEF ClaimGranted, TypeOK, CommandRow
    <3>3. /\ leases'[w].command = c
          /\ leases'[w].epoch = commands[c].epoch + 1
          /\ \A v \in Workers \ {w} : leases'[v] = leases[v]
      BY <1>2, <2>2 DEF ClaimGranted, TypeOK
    <3>4. \A v \in Workers \ {w} :
              leases[v] # NoLease /\ leases[v].command = c => leases[v].epoch < leases'[w].epoch
      BY <1>2, <3>1, <3>3, LeaseType DEF EpochsFence
    <3>5. \A v \in Workers : leases'[v] # NoLease =>
              leases'[v].epoch =< commands'[leases'[v].command].epoch
      <4> SUFFICES ASSUME NEW v \in Workers, leases'[v] # NoLease
                   PROVE  leases'[v].epoch =< commands'[leases'[v].command].epoch
        OBVIOUS
      <4>1. CASE v = w
        BY <3>1, <3>2, <3>3, <4>1
      <4>2. CASE v # w
        BY <1>2, <3>1, <3>2, <3>3, <3>4, <4>2, LeaseType DEF EpochsFence
      <4> QED
        BY <4>1, <4>2
    <3> QED
      BY <1>2, <3>1, <3>3, <3>4, <3>5, LeaseType DEF EpochsFence
  <2> QED
    BY <1>2, <2>1, <2>2, EpochSteps
<1> QED
  BY <1>1, <1>2, TypeCorrect, PTL DEF Spec

(* Mutual exclusion: two workers whose leases on a command both pass       *)
(* _assert_active_lease are the same worker.                               *)
THEOREM LeasesExclude == Spec => []OneActiveLease
<1>1. EpochsFence => OneActiveLease
  BY DEF EpochsFence, OneActiveLease, ActiveLease
<1> QED
  BY <1>1, EpochsFenced, PTL

----------------------------------------------------------------------------
(* No early takeover: an epoch advances by one, and for a running command  *)
(* only once its expiry has passed.                                        *)
THEOREM TakeoverAfterExpiry == Spec => NoEarlyTakeover
<1>1. ASSUME TypeOK, [Next]_vars, NEW c \in Commands,
             commands'[c].epoch # commands[c].epoch
      PROVE  /\ commands'[c].epoch = commands[c].epoch + 1
             /\ commands[c].status = "RUNNING" => now >= commands[c].expires
  <2>1. PICK w \in Workers, d \in Commands, t \in Readings : ClaimGranted(w, d, t)
    BY <1>1, EpochSteps
  <2>2. d = c
    BY <1>1, <2>1 DEF ClaimGranted, TypeOK
  <2>3. commands'[c].epoch = commands[c].epoch + 1
    BY <1>1, <2>1, <2>2 DEF ClaimGranted, TypeOK, CommandRow
  <2>4. t \in Nat /\ t =< now /\ now \in Nat
    BY <1>1, ReadingsAreTimes DEF TypeOK
  <2>5. commands[c].expires \in Int
    BY <1>1 DEF TypeOK, CommandRow, NoTime
  <2>6. commands[c].status = "RUNNING" => t >= commands[c].expires
    BY <2>1, <2>2 DEF ClaimGranted, Takeable, Claimable
  <2> QED
    BY <2>3, <2>4, <2>5, <2>6
<1>2. TypeOK /\ [Next]_vars =>
        [\A c \in Commands :
          commands'[c].epoch # commands[c].epoch =>
              /\ commands'[c].epoch = commands[c].epoch + 1
              /\ commands[c].status = "RUNNING" => now >= commands[c].expires]_vars
  BY <1>1
<1> QED
  BY <1>2, TypeCorrect, PTL DEF Spec, NoEarlyTakeover
----------------------------------------------------------------------------
(* Only complete and record_stage write a result: at most one, under a key *)
(* of the command, where none was stored, and with an active lease.        *)
LEMMA ResultSteps ==
    ASSUME TypeOK, [Next]_vars, NEW key \in StageKeys,
           results'[key] # results[key]
    PROVE  \E w \in Workers, o \in Outputs, t \in Readings, name \in StageNames :
              /\ leases[w] # NoLease
              /\ ActiveLease(leases[w], t)
              /\ key = KeyOf(leases[w].command, name)
              /\ results[key] = NoResult
              /\ results'[key] = [command |-> leases[w].command, checksum |-> o,
                                  epoch |-> leases[w].epoch]
<1>1. UNCHANGED results => FALSE
  OBVIOUS
<1>2. ASSUME NEW w \in Workers, NEW o \in Outputs, NEW t \in Readings,
             NEW name \in StageNames,
             leases[w] # NoLease, ActiveLease(leases[w], t),
             results' = StoreResult(KeyOf(leases[w].command, name), leases[w], o)
      PROVE  /\ key = KeyOf(leases[w].command, name)
             /\ results[key] = NoResult
             /\ results'[key] = [command |-> leases[w].command, checksum |-> o,
                                 epoch |-> leases[w].epoch]
  <2>1. leases[w] \in Lease /\ KeyOf(leases[w].command, name) \in StageKeys
    BY <1>2, LeaseType, KeyType
  <2> QED
    BY <1>2, <2>1, StoreResultType DEF TypeOK
<1>3. ASSUME NEW w \in Workers, NEW o \in Outputs, NEW t \in Readings,
             Complete(w, o, t)
      PROVE  /\ leases[w] # NoLease
             /\ ActiveLease(leases[w], t)
             /\ WorkflowStage \in StageNames
             /\ results' = StoreResult(KeyOf(leases[w].command, WorkflowStage), leases[w], o)
  BY <1>3 DEF Complete, StageNames
<1>4. ASSUME NEW w \in Workers, NEW name \in CheckpointStages, NEW o \in Outputs,
             NEW t \in Readings, RecordStage(w, name, o, t)
      PROVE  /\ leases[w] # NoLease
             /\ ActiveLease(leases[w], t)
             /\ name \in StageNames
             /\ results' = StoreResult(KeyOf(leases[w].command, name), leases[w], o)
  BY <1>4 DEF RecordStage, StageNames
<1>5. \/ \E w \in Workers, o \in Outputs, t \in Readings : Complete(w, o, t)
      \/ \E w \in Workers, name \in CheckpointStages, o \in Outputs, t \in Readings :
            RecordStage(w, name, o, t)
  <2>1. ASSUME NEW c \in Commands, NEW t \in Readings, Submit(c, t)
        PROVE UNCHANGED results
    BY <2>1 DEF Submit
  <2>2. ASSUME NEW w \in Workers, NEW c \in Commands, NEW t \in Readings,
               Claim(w, c, t)
        PROVE  UNCHANGED results
    BY <2>2 DEF Claim, ClaimExhausted, ClaimPastDeadline, ClaimGranted
  <2>3. ASSUME NEW w \in Workers, NEW t \in Readings, Renew(w, t)
        PROVE UNCHANGED results
    BY <2>3 DEF Renew
  <2>4. ASSUME NEW w \in Workers, NEW retryable \in BOOLEAN, NEW t \in Readings,
               Fail(w, retryable, t)
        PROVE  UNCHANGED results
    BY <2>4 DEF Fail
  <2>5. ASSUME NEW w \in Workers, Release(w) PROVE UNCHANGED results
    BY <2>5 DEF Release
  <2> QED
    BY <1>1, <2>1, <2>2, <2>3, <2>4, <2>5 DEF Next, WorkerStep, Tick,
       vars
<1>6. CASE \E w \in Workers, o \in Outputs, t \in Readings : Complete(w, o, t)
  <2>1. PICK w \in Workers, o \in Outputs, t \in Readings : Complete(w, o, t)
    BY <1>6
  <2> QED
    BY <2>1, <1>2, <1>3
<1>7. CASE \E w \in Workers, name \in CheckpointStages, o \in Outputs, t \in Readings :
              RecordStage(w, name, o, t)
  <2>1. PICK w \in Workers, name \in CheckpointStages, o \in Outputs, t \in Readings :
            RecordStage(w, name, o, t)
    BY <1>7
  <2> QED
    BY <2>1, <1>2, <1>4
<1> QED
  BY <1>5, <1>6, <1>7

(* One logical output: a stage result is written once, by the current      *)
(* epoch of a running command of its identity, and never changes.          *)
THEOREM ResultsAreFenced == Spec => StageResultsFenced
<1>1. ASSUME TypeOK, [Next]_vars, NEW key \in StageKeys,
             results'[key] # results[key]
      PROVE  /\ results[key] = NoResult
             /\ LET r == results'[key]
                IN  /\ key[1] = IdentityOf[r.command]
                    /\ commands[r.command].status = "RUNNING"
                    /\ commands[r.command].epoch = r.epoch
  <2>1. PICK w \in Workers, o \in Outputs, t \in Readings, name \in StageNames :
              /\ leases[w] # NoLease
              /\ ActiveLease(leases[w], t)
              /\ key = KeyOf(leases[w].command, name)
              /\ results[key] = NoResult
              /\ results'[key] = [command |-> leases[w].command, checksum |-> o,
                                  epoch |-> leases[w].epoch]
    BY <1>1, ResultSteps
  <2> QED
    BY <2>1 DEF ActiveLease, KeyOf
<1>2. TypeOK /\ [Next]_vars =>
        [\A key \in StageKeys :
          results'[key] # results[key] =>
              /\ results[key] = NoResult
              /\ LET r == results'[key]
                 IN  /\ key[1] = IdentityOf[r.command]
                     /\ commands[r.command].status = "RUNNING"
                     /\ commands[r.command].epoch = r.epoch]_vars
  BY <1>1
<1> QED
  BY <1>2, TypeCorrect, PTL DEF Spec, StageResultsFenced

----------------------------------------------------------------------------
(* Only complete makes a command COMPLETED or changes its output.          *)
LEMMA CompletionSteps ==
    ASSUME TypeOK, [Next]_vars, NEW c \in Commands,
           commands'[c].status = "COMPLETED"
    PROVE  \/ /\ commands[c].status = "COMPLETED"
              /\ commands'[c].output = commands[c].output
           \/ \E w \in Workers, o \in Outputs, t \in Readings :
                 Complete(w, o, t) /\ leases[w].command = c /\ commands'[c].output = o
<1> DEFINE Goal ==
             \/ /\ commands[c].status = "COMPLETED"
                /\ commands'[c].output = commands[c].output
             \/ \E w \in Workers, o \in Outputs, t \in Readings :
                   Complete(w, o, t) /\ leases[w].command = c /\ commands'[c].output = o
<1> USE DEF TypeOK
<1>1. ASSUME NEW d \in Commands, NEW t \in Readings, Submit(d, t) PROVE Goal
  BY <1>1 DEF Submit, CommandRow
<1>2. ASSUME NEW d \in Commands, ClaimExhausted(d) PROVE Goal
  BY <1>2, SettleRow DEF ClaimExhausted, CommandStatus
<1>3. ASSUME NEW d \in Commands, NEW t \in Readings, ClaimPastDeadline(d, t)
      PROVE Goal
  BY <1>3, SettleRow DEF ClaimPastDeadline, CommandStatus
<1>4. ASSUME NEW w \in Workers, NEW d \in Commands, NEW t \in Readings,
             ClaimGranted(w, d, t)
      PROVE  Goal
  BY <1>4 DEF ClaimGranted, CommandRow
<1>5. ASSUME NEW w \in Workers, NEW t \in Readings, Renew(w, t) PROVE Goal
  BY <1>5, LeaseType DEF Renew, CommandRow
<1>6. ASSUME NEW w \in Workers, NEW o \in Outputs, NEW t \in Readings,
             Complete(w, o, t)
      PROVE  Goal
  <2> DEFINE d == leases[w].command
             row == Settle(commands[d], "COMPLETED")
  <2>1. d \in Commands
    BY <1>6, LeaseType DEF Complete
  <2>2. row \in CommandRow
    BY <2>1, SettleRow DEF CommandStatus
  <2>3. [row EXCEPT !.output = o].output = o
    BY <2>2 DEF CommandRow
  <2>4. commands' = [commands EXCEPT ![d] = [row EXCEPT !.output = o]]
    BY <1>6 DEF Complete
  <2>5. CASE d = c
    BY <1>6, <2>1, <2>3, <2>4, <2>5
  <2>6. CASE d # c
    BY <2>4, <2>6
  <2> QED
    BY <2>5, <2>6
<1>7. ASSUME NEW w \in Workers, NEW retryable \in BOOLEAN, NEW t \in Readings,
             Fail(w, retryable, t)
      PROVE  Goal
  <2>1. PICK status \in {"FAILED_REDRIVABLE", "FAILED_TERMINAL"} :
            commands' = [commands EXCEPT ![leases[w].command] = Settle(@, status)]
    BY <1>7 DEF Fail
  <2> QED
    BY <1>7, <2>1, LeaseType, SettleRow DEF Fail, CommandStatus
<1>8. ASSUME UNCHANGED commands PROVE Goal
  BY <1>8
<1> QED
  BY <1>1, <1>2, <1>3, <1>4, <1>5, <1>6, <1>7, <1>8
     DEF Next, WorkerStep, Claim, RecordStage, Release,
         Tick, vars

(* A completed command goes on reporting what is stored. *)
LEMMA CompletedStep ==
    ASSUME TypeOK, CompletedOutputIsRecorded, [Next]_vars
    PROVE  CompletedOutputIsRecorded'
  <2> SUFFICES ASSUME NEW c \in Commands, commands'[c].status = "COMPLETED"
               PROVE  /\ results'[KeyOf(c, WorkflowStage)] # NoResult
                      /\ results'[KeyOf(c, WorkflowStage)].checksum = commands'[c].output
    BY DEF CompletedOutputIsRecorded, KeyOf
  <2> DEFINE key == KeyOf(c, WorkflowStage)
  <2>1. key \in StageKeys
    BY KeyType DEF StageNames
  <2>2. CASE /\ commands[c].status = "COMPLETED"
             /\ commands'[c].output = commands[c].output
    <3>1. results[key] # NoResult /\ results[key].checksum = commands[c].output
      BY <2>2 DEF CompletedOutputIsRecorded
    <3>2. results'[key] = results[key]
      BY <2>1, <3>1, ResultSteps
    <3> QED
      BY <2>2, <3>1, <3>2
  <2>3. ASSUME NEW w \in Workers, NEW o \in Outputs, NEW t \in Readings,
               Complete(w, o, t),
               leases[w].command = c, commands'[c].output = o
        PROVE  results'[key] # NoResult /\ results'[key].checksum = o
    <3>1. leases[w] \in Lease
      BY <2>3, LeaseType DEF Complete
    <3>2. results' = StoreResult(key, leases[w], o) /\ OutputAccepted(key, o)
      BY <2>3 DEF Complete
    <3>3. [command |-> leases[w].command, checksum |-> o, epoch |-> leases[w].epoch] # NoResult
      BY <3>1, RecordNullAssumption, WorkerAssumption, DeliveryAssumption DEF Lease, StageResult
    <3>4. CASE results[key] = NoResult
      <4>1. results'[key] = [command |-> leases[w].command, checksum |-> o,
                             epoch |-> leases[w].epoch]
        BY <2>1, <3>1, <3>2, <3>4, StoreResultType DEF TypeOK
      <4> QED
        BY <3>3, <4>1
    <3>5. CASE results[key] # NoResult
      <4>1. results'[key] = results[key]
        BY <2>1, <3>1, <3>2, <3>5, StoreResultType DEF TypeOK
      <4> QED
        BY <3>2, <3>5, <4>1 DEF OutputAccepted
    <3> QED
      BY <3>4, <3>5
  <2> QED
    BY <2>2, <2>3, CompletionSteps

(* What a completed command reports is what the ledger of its identity     *)
(* holds, also when another command of the identity recorded it.           *)
THEOREM CompletedOutputs == Spec => []CompletedOutputIsRecorded
<1>1. Init => CompletedOutputIsRecorded
  BY DEF Init, CompletedOutputIsRecorded
<1>2. ASSUME TypeOK, CompletedOutputIsRecorded, [Next]_vars
      PROVE CompletedOutputIsRecorded'
  BY <1>2, CompletedStep
<1> QED
  BY <1>1, <1>2, TypeCorrect, PTL DEF Spec

----------------------------------------------------------------------------
(* What AttemptLedger says of one command, and what makes it inductive: a   *)
(* command has no attempt before its first claim.                           *)
RowLedger(row, ledger) ==
    /\ \A k \in AttemptNumbers :
          /\ k > row.attempt <=> ledger[k].status = "NONE"
          /\ ledger[k].status = "RUNNING" => k = row.attempt
    /\ row.status = "RUNNING" =>
          row.attempt > 0 /\ ledger[row.attempt] = [status |-> "RUNNING", epoch |-> row.epoch]
    /\ row.status = "COMPLETED" => row.attempt > 0 /\ ledger[row.attempt].status = "COMPLETED"
    /\ row.status = "FAILED_REDRIVABLE" => row.attempt > 0 /\ ledger[row.attempt].status = "FAILED"
    /\ row.status \in {"ABSENT", "QUEUED"} => row.attempt = 0
    /\ row.status # "RETRY_WAIT"

EachRowLedger == \A c \in Commands : RowLedger(commands[c], attempts[c])

(* Whatever a claim fails for good keeps its attempts as they are. *)
LEMMA RowFailedForGood ==
    ASSUME NEW row \in CommandRow, NEW ledger, RowLedger(row, ledger)
    PROVE  RowLedger(Settle(row, "FAILED_TERMINAL"), ledger)
BY SettleRow DEF RowLedger, CommandStatus

(* A running attempt that is finished as its command is. *)
LEMMA RowFinished ==
    ASSUME NEW row \in CommandRow,
           NEW ledger \in [AttemptNumbers -> AttemptRow],
           RowLedger(row, ledger), row.status = "RUNNING",
           NEW s \in {"COMPLETED", "FAILED"}, NEW after \in CommandRow,
           after.attempt = row.attempt,
           \/ s = "COMPLETED" /\ after.status = "COMPLETED"
           \/ s = "FAILED" /\ after.status \in {"FAILED_REDRIVABLE", "FAILED_TERMINAL"}
    PROVE  RowLedger(after, FinishAttempt(ledger, row.attempt, row.epoch, s))
<1> DEFINE done == FinishAttempt(ledger, row.attempt, row.epoch, s)
<1>1. row.attempt \in AttemptNumbers /\ ledger[row.attempt].epoch = row.epoch
  BY DEF RowLedger, CommandRow, AttemptNumbers
<1>2. /\ done[row.attempt].status = s
      /\ \A k \in AttemptNumbers : k # row.attempt => done[k] = ledger[k]
  BY <1>1, FinishAttemptRows DEF AttemptStatus
<1> HIDE DEF done
<1>3. \A k \in AttemptNumbers :
         (k > row.attempt <=> done[k].status = "NONE") /\ done[k].status # "RUNNING"
  BY <1>1, <1>2 DEF RowLedger, AttemptNumbers
<1>4. row.attempt > 0
  BY <1>1 DEF AttemptNumbers
<1>5. RowLedger(after, done)
  BY <1>2, <1>3, <1>4 DEF RowLedger
<1> QED
  BY <1>5 DEF done

(* The claim that is granted opens the next attempt, and closes the one that ran. *)
LEMMA RowGranted ==
    ASSUME NEW row \in CommandRow,
           NEW ledger \in [AttemptNumbers -> AttemptRow],
           RowLedger(row, ledger), row.status \in Claimable \union {"RUNNING"},
           row.attempt < MaxAttempts, NEW after \in CommandRow,
           after.status = "RUNNING", after.attempt = row.attempt + 1, after.epoch = row.epoch + 1
    PROVE  RowLedger(after,
             [IF row.status = "RUNNING"
              THEN FinishAttempt(ledger, row.attempt, row.epoch, "LEASE_EXPIRED")
              ELSE ledger EXCEPT ![row.attempt + 1] = [status |-> "RUNNING", epoch |-> row.epoch + 1]])
<1> DEFINE closed == IF row.status = "RUNNING"
                     THEN FinishAttempt(ledger, row.attempt, row.epoch, "LEASE_EXPIRED")
                     ELSE ledger
           open == [closed EXCEPT ![row.attempt + 1] = [status |-> "RUNNING", epoch |-> row.epoch + 1]]
<1>1. row.attempt \in Nat /\ row.attempt + 1 \in AttemptNumbers
  BY ParameterAssumption, NullAssumption DEF CommandRow, AttemptNumbers
<1>2. closed \in [AttemptNumbers -> AttemptRow]
  BY FinishAttemptRows DEF AttemptStatus
<1>3. \A k \in AttemptNumbers :
         /\ closed[k].status # "RUNNING"
         /\ k # row.attempt => closed[k] = ledger[k]
         /\ k = row.attempt => closed[k].status # "NONE"
  <2>1. CASE row.status = "RUNNING"
    <3>1. row.attempt \in AttemptNumbers /\ ledger[row.attempt].epoch = row.epoch
      BY <2>1 DEF RowLedger, CommandRow, AttemptNumbers
    <3> QED
      BY <2>1, <3>1, FinishAttemptRows DEF AttemptStatus, RowLedger
  <2>2. CASE row.status # "RUNNING"
    BY <1>1, <2>2 DEF RowLedger, Claimable, AttemptNumbers
  <2> QED
    BY <2>1, <2>2
<1>4. /\ open[row.attempt + 1] = [status |-> "RUNNING", epoch |-> row.epoch + 1]
      /\ \A k \in AttemptNumbers : k # row.attempt + 1 => open[k] = closed[k]
  BY <1>1, <1>2
<1> HIDE DEF closed, open
<1>5. \A k \in AttemptNumbers : k > row.attempt + 1 <=> open[k].status = "NONE"
  BY <1>1, <1>3, <1>4 DEF RowLedger, AttemptNumbers
<1>6. \A k \in AttemptNumbers : open[k].status = "RUNNING" => k = row.attempt + 1
  BY <1>1, <1>3, <1>4 DEF AttemptNumbers
<1>7. RowLedger(after, open)
  BY <1>1, <1>4, <1>5, <1>6 DEF RowLedger
<1> QED
  BY <1>7 DEF open, closed

(* The attempts of a command tell what became of each of its claims, however *)
(* leases ran out, workers were fenced and claims failed it for good.        *)
THEOREM AttemptsAreTold == Spec => []AttemptLedger
<1>1. Init => EachRowLedger
  <2> SUFFICES ASSUME Init, NEW c \in Commands PROVE RowLedger(commands[c], attempts[c])
    BY DEF EachRowLedger
  <2>1. commands[c].status = "ABSENT" /\ commands[c].attempt = 0
    BY DEF Init
  <2>2. \A k \in AttemptNumbers : attempts[c][k].status = "NONE" /\ k > 0
    BY DEF Init, AttemptNumbers
  <2> QED
    BY <2>1, <2>2 DEF RowLedger
<1>2. ASSUME TypeOK, TypeOK', EachRowLedger, [Next]_vars
      PROVE EachRowLedger'
  <2> SUFFICES ASSUME NEW c \in Commands PROVE RowLedger(commands'[c], attempts'[c])
    BY DEF EachRowLedger
  <2>0. /\ RowLedger(commands[c], attempts[c])
        /\ commands[c] \in CommandRow /\ attempts[c] \in [AttemptNumbers -> AttemptRow]
    BY <1>2 DEF EachRowLedger, TypeOK
  <2>c. commands'[c] \in CommandRow
    BY <1>2 DEF TypeOK
  <2> DEFINE Goal == RowLedger(commands'[c], attempts'[c])
  <2>1. ASSUME NEW d \in Commands, NEW t \in Readings, Submit(d, t) PROVE Goal
    BY <1>2, <2>0, <2>1 DEF Submit, RowLedger, TypeOK, CommandRow
  <2>2. ASSUME NEW d \in Commands,
               commands' = [commands EXCEPT ![d] = Settle(@, "FAILED_TERMINAL")],
               attempts' = attempts
        PROVE  Goal
    <3>1. c = d => commands'[c] = Settle(commands[c], "FAILED_TERMINAL")
      BY <1>2, <2>2 DEF TypeOK
    <3>2. c # d => commands'[c] = commands[c]
      BY <1>2, <2>2 DEF TypeOK
    <3> QED
      BY <2>0, <2>2, <3>1, <3>2, RowFailedForGood
  <2>3. ASSUME NEW w \in Workers, NEW d \in Commands, NEW t \in Readings,
               ClaimGranted(w, d, t)
        PROVE  Goal
    <3>1. CASE c = d
      <4>1. /\ commands[c].attempt < MaxAttempts
            /\ commands[c].status \in Claimable \union {"RUNNING"}
        BY <2>3, <3>1 DEF ClaimGranted, AttemptsLeft, Takeable
      <4>2. /\ commands'[c].status = "RUNNING"
            /\ commands'[c].attempt = commands[c].attempt + 1
            /\ commands'[c].epoch = commands[c].epoch + 1
        BY <1>2, <2>3, <3>1 DEF ClaimGranted, TypeOK, CommandRow
      <4>3. attempts'[c] =
              [IF commands[c].status = "RUNNING"
               THEN FinishAttempt(attempts[c], commands[c].attempt, commands[c].epoch, "LEASE_EXPIRED")
               ELSE attempts[c] EXCEPT ![commands[c].attempt + 1] =
                 [status |-> "RUNNING", epoch |-> commands[c].epoch + 1]]
        BY <1>2, <2>3, <3>1 DEF ClaimGranted, TypeOK
      <4> QED
        BY <2>0, <2>c, <4>1, <4>2, <4>3, RowGranted
    <3>2. CASE c # d
      BY <1>2, <2>0, <2>3, <3>2 DEF ClaimGranted, TypeOK
    <3> QED
      BY <3>1, <3>2
  <2>4. ASSUME NEW w \in Workers, NEW t \in Readings, Renew(w, t) PROVE Goal
    <3>1. /\ commands'[c].status = commands[c].status
          /\ commands'[c].attempt = commands[c].attempt
          /\ commands'[c].epoch = commands[c].epoch
      BY <1>2, <2>4, LeaseType DEF Renew, TypeOK, CommandRow
    <3>2. attempts' = attempts
      BY <2>4 DEF Renew
    <3> QED
      BY <2>0, <3>1, <3>2 DEF RowLedger
  <2>5. ASSUME NEW d \in Commands, NEW l \in Lease, NEW s \in {"COMPLETED", "FAILED"},
               d = l.command,
               \E t \in Readings : ActiveLease(l, t),
               attempts' = [attempts EXCEPT ![d] = FinishAttempt(@, commands[d].attempt, l.epoch, s)],
               \A e \in Commands : e # d => commands'[e] = commands[e],
               commands'[d].attempt = commands[d].attempt,
               \/ s = "COMPLETED" /\ commands'[d].status = "COMPLETED"
               \/ s = "FAILED" /\ commands'[d].status \in {"FAILED_REDRIVABLE", "FAILED_TERMINAL"}
        PROVE  Goal
    <3>1. CASE c = d
      <4>1. commands[c].status = "RUNNING" /\ commands[c].epoch = l.epoch
        BY <2>5, <3>1 DEF ActiveLease
      <4>2. attempts'[c] = FinishAttempt(attempts[c], commands[c].attempt, commands[c].epoch, s)
        BY <1>2, <2>5, <3>1, <4>1 DEF TypeOK
      <4> QED
        BY <2>0, <2>c, <2>5, <3>1, <4>1, <4>2, RowFinished
    <3>2. CASE c # d
      BY <1>2, <2>0, <2>5, <3>2 DEF TypeOK
    <3> QED
      BY <3>1, <3>2
  <2>6. ASSUME NEW w \in Workers, NEW o \in Outputs, NEW t \in Readings,
               Complete(w, o, t)
        PROVE  Goal
    <3> DEFINE d == leases[w].command
               row == Settle(commands[d], "COMPLETED")
    <3>1. leases[w] \in Lease /\ d \in Commands
      BY <1>2, <2>6, LeaseType DEF Complete
    <3>2. row \in CommandRow /\ row.status = "COMPLETED" /\ row.attempt = commands[d].attempt
      BY <1>2, <3>1, SettleRow DEF TypeOK, CommandStatus
    <3>3. [row EXCEPT !.output = o].status = "COMPLETED" /\ [row EXCEPT !.output = o].attempt = row.attempt
      BY <3>2 DEF CommandRow
    <3>4. commands' = [commands EXCEPT ![d] = [row EXCEPT !.output = o]]
      BY <2>6 DEF Complete
    <3>5. /\ commands'[d].status = "COMPLETED" /\ commands'[d].attempt = commands[d].attempt
          /\ \A e \in Commands : e # d => commands'[e] = commands[e]
      BY <1>2, <3>1, <3>2, <3>3, <3>4 DEF TypeOK
    <3>6. /\ ActiveLease(leases[w], t)
          /\ attempts' = [attempts EXCEPT ![d] =
               FinishAttempt(@, commands[d].attempt, leases[w].epoch, "COMPLETED")]
      BY <2>6 DEF Complete
    <3> QED
      BY <2>5, <3>1, <3>5, <3>6
  <2>7. ASSUME NEW w \in Workers, NEW retryable \in BOOLEAN, NEW t \in Readings,
               Fail(w, retryable, t)
        PROVE  Goal
    <3> DEFINE d == leases[w].command
    <3>1. leases[w] \in Lease /\ d \in Commands
      BY <1>2, <2>7, LeaseType DEF Fail
    <3>2. PICK s \in {"FAILED_REDRIVABLE", "FAILED_TERMINAL"} :
            commands' = [commands EXCEPT ![d] = Settle(commands[d], s)]
      BY <2>7 DEF Fail
    <3>3. /\ commands'[d].status = s /\ commands'[d].attempt = commands[d].attempt
          /\ \A e \in Commands : e # d => commands'[e] = commands[e]
      BY <1>2, <3>1, <3>2, SettleRow DEF TypeOK, CommandStatus
    <3>4. /\ ActiveLease(leases[w], t)
          /\ attempts' = [attempts EXCEPT ![d] =
               FinishAttempt(@, commands[d].attempt, leases[w].epoch, "FAILED")]
      BY <2>7 DEF Fail
    <3> QED
      BY <2>5, <3>1, <3>3, <3>4
  <2>8. ASSUME UNCHANGED <<commands, attempts>> PROVE Goal
    BY <2>0, <2>8
  <2> QED
    BY <1>2, <2>1, <2>2, <2>3, <2>4, <2>6, <2>7, <2>8
       DEF Next, WorkerStep, Claim, ClaimExhausted,
           ClaimPastDeadline, RecordStage, Release, Tick, vars
<1>3. EachRowLedger => AttemptLedger
  BY DEF EachRowLedger, RowLedger, AttemptLedger
<1> QED
  BY <1>1, <1>2, <1>3, TypeCorrect, PTL DEF Spec

(* The lease that is honoured, the attempt that is open and the output that is *)
(* reported always belong to one claim.                                         *)
THEOREM TablesAgree == Spec => []LedgersAgree
BY LeasesExclude, AttemptsAreTold, CompletedOutputs, PTL DEF LedgersAgree

-----------------------------------------------------------------------------
(***************************************************************************)
(* The command store implements the promise of its port: every behaviour   *)
(* of CommandStore is one of FencedExecution, for every value of the       *)
(* constants.                                                              *)
(***************************************************************************)

(* The abstract state, spelled out. *)
Issued == [c \in Commands |-> commands[c].epoch]
Open == [c \in Commands |-> commands[c].status = "RUNNING"]
Held == [w \in Workers |-> GrantOf(leases[w])]
Ledger == [key \in StageKeys |->
              IF results[key] = NoResult THEN NoOutput ELSE results[key].checksum]

(* A lease in memory is a grant, and none is no grant. *)
LEMMA GrantType ==
    ASSUME TypeOK, NEW w \in Workers
    PROVE  leases[w] # NoLease => GrantOf(leases[w]) # NoLease
BY LeaseType, RecordNullAssumption, WorkerAssumption, DeliveryAssumption DEF GrantOf

(* An active lease is the open grant of its command. *)
LEMMA ActiveHolds ==
    ASSUME TypeOK, NEW w \in Workers, NEW t, leases[w] # NoLease,
           ActiveLease(leases[w], t)
    PROVE  /\ Open[leases[w].command]
           /\ Held[w] = <<leases[w].command, Issued[leases[w].command]>>
<1>1. leases[w].command \in Commands
  BY LeaseType
<1>2. /\ commands[leases[w].command].status = "RUNNING"
      /\ commands[leases[w].command].epoch = leases[w].epoch
  BY DEF ActiveLease
<1> QED
  BY <1>1, <1>2 DEF Open, Held, Issued, GrantOf

(* A step that settles the row of one command, in a status that does not   *)
(* run, ends its grant if one is open.                                     *)
LEMMA SettledStep ==
    ASSUME TypeOK, NEW c \in Commands, NEW status \in CommandStatus \ {"RUNNING"},
           commands' = [commands EXCEPT ![c] = Settle(@, status)],
           UNCHANGED <<results, leases>>
    PROVE  /\ Issued' = Issued
           /\ Open' = [Open EXCEPT ![c] = FALSE]
           /\ Held' = Held
           /\ Ledger' = Ledger
<1>1. commands[c] \in CommandRow /\ status \in CommandStatus
  BY DEF TypeOK
<1>2. commands'[c].status = status /\ commands'[c].epoch = commands[c].epoch
  BY <1>1, SettleRow DEF TypeOK
<1>3. \A d \in Commands \ {c} : commands'[d] = commands[d]
  BY DEF TypeOK
<1>4. Issued' = Issued
  BY <1>2, <1>3 DEF Issued
<1>5. Open' = [Open EXCEPT ![c] = FALSE]
  BY <1>2, <1>3 DEF Open
<1>6. Held' = Held /\ Ledger' = Ledger
  BY DEF Held, GrantOf, Ledger
<1> QED
  BY <1>4, <1>5, <1>6

(* Storing a result writes an empty entry of the ledger, or nothing. *)
LEMMA StoredStep ==
    ASSUME TypeOK, NEW key \in StageKeys, NEW l \in Lease, NEW o \in Outputs,
           results' = StoreResult(key, l, o)
    PROVE  /\ results[key] = NoResult =>
                  Ledger[key] = NoOutput /\ Ledger' = [Ledger EXCEPT ![key] = o]
           /\ results[key] # NoResult =>
                  Ledger[key] = results[key].checksum /\ Ledger' = Ledger
<1>1. [command |-> l.command, checksum |-> o, epoch |-> l.epoch] # NoResult
  BY RecordNullAssumption, WorkerAssumption, DeliveryAssumption DEF Lease, StageResult
<1>2. /\ \A k \in StageKeys : k # key => results'[k] = results[k]
      /\ results[key] # NoResult => results'[key] = results[key]
      /\ results[key] = NoResult =>
             results'[key] = [command |-> l.command, checksum |-> o, epoch |-> l.epoch]
  <2>1. results \in [StageKeys -> StageResult \union {NoResult}]
    BY DEF TypeOK
  <2> QED
    BY <2>1, StoreResultType
<1>3. CASE results[key] = NoResult
  <2>1. results'[key] = [command |-> l.command, checksum |-> o, epoch |-> l.epoch]
    BY <1>3, <1>2
  <2>2. \A k \in StageKeys \ {key} : results'[k] = results[k]
    BY <1>2
  <2>3. results'[key] # NoResult /\ results'[key].checksum = o
    BY <1>1, <2>1
  <2>4. Ledger[key] = NoOutput
    BY <1>3 DEF Ledger
  <2>5. Ledger'[key] = o
    BY <2>3 DEF Ledger
  <2>6. \A k \in StageKeys \ {key} : Ledger'[k] = Ledger[k]
    BY <2>2 DEF Ledger
  <2>7. Ledger' = [Ledger EXCEPT ![key] = o]
    BY <2>5, <2>6 DEF Ledger
  <2> QED
    BY <1>3, <2>4, <2>7
<1>4. CASE results[key] # NoResult
  <2>1. \A k \in StageKeys : results'[k] = results[k]
    BY <1>4, <1>2
  <2>2. Ledger[key] = results[key].checksum
    BY <1>4 DEF Ledger
  <2>3. Ledger' = Ledger
    BY <2>1 DEF Ledger
  <2> QED
    BY <1>4, <2>2, <2>3
<1> QED
  BY <1>3, <1>4

----------------------------------------------------------------------------
(* Every step of the store is a step of fenced execution, or stutters. *)
LEMMA StepRefines ==
    ASSUME TypeOK, [Next]_vars
    PROVE  [Execution!Next]_(Execution!vars)
<1> USE DEF Issued, Open, Held, Ledger
<1>1. ASSUME NEW c \in Commands, NEW t \in Readings, Submit(c, t)
      PROVE  UNCHANGED <<Issued, Open, Held, Ledger>>
  <2>1. /\ commands'[c].status # "RUNNING"
        /\ commands[c].status # "RUNNING"
        /\ commands'[c].epoch = commands[c].epoch
        /\ \A d \in Commands \ {c} : commands'[d] = commands[d]
    BY <1>1 DEF Submit, TypeOK, CommandRow
  <2>2. UNCHANGED <<results, leases>>
    BY <1>1 DEF Submit
  <2> QED
    BY <2>1, <2>2 DEF GrantOf
<1>2. ASSUME NEW c \in Commands, NEW t \in Readings,
             ClaimExhausted(c) \/ ClaimPastDeadline(c, t)
      PROVE  Execution!Abandon(c) \/ UNCHANGED <<Issued, Open, Held, Ledger>>
  <2>1. /\ commands' = [commands EXCEPT ![c] = Settle(@, "FAILED_TERMINAL")]
        /\ UNCHANGED <<results, leases>>
    BY <1>2 DEF ClaimExhausted, ClaimPastDeadline
  <2>2. /\ Issued' = Issued
        /\ Open' = [Open EXCEPT ![c] = FALSE]
        /\ Held' = Held
        /\ Ledger' = Ledger
    BY <2>1, SettledStep DEF CommandStatus
  <2>3. CASE Open[c]
    BY <2>2, <2>3 DEF Execution!Abandon
  <2>4. CASE ~Open[c]
    BY <2>2, <2>4
  <2> QED
    BY <2>3, <2>4
<1>3. ASSUME NEW w \in Workers, NEW c \in Commands, NEW t \in Readings,
             ClaimGranted(w, c, t)
      PROVE  Execution!Grant(w, c)
  <2>1. /\ leases[w] = NoLease
        /\ commands'[c].status = "RUNNING"
        /\ commands'[c].epoch = commands[c].epoch + 1
        /\ \A d \in Commands \ {c} : commands'[d] = commands[d]
        /\ results' = results
    BY <1>3 DEF ClaimGranted, TypeOK, CommandRow
  <2>2. leases' = [leases EXCEPT
            ![w] = [command |-> c, owner |-> OwnerOf[w], epoch |-> commands[c].epoch + 1]]
    BY <1>3 DEF ClaimGranted
  <2>3. [command |-> c, owner |-> OwnerOf[w], epoch |-> commands[c].epoch + 1] # NoLease
    <3>1. OwnerOf[w] \in Owners /\ commands[c].epoch + 1 \in Nat
      BY ParameterAssumption, NullAssumption DEF TypeOK, CommandRow
    <3> QED
      BY <3>1, RecordNullAssumption, WorkerAssumption, DeliveryAssumption DEF Lease
  <2>4. Held' = [Held EXCEPT ![w] = <<c, Issued[c] + 1>>]
    BY <2>2, <2>3 DEF GrantOf, TypeOK
  <2>5. Issued' = [Issued EXCEPT ![c] = @ + 1]
    BY <2>1
  <2>6. Open' = [Open EXCEPT ![c] = TRUE]
    BY <2>1
  <2>7. Held[w] = NoLease
    BY <2>1 DEF GrantOf
  <2> QED
    BY <2>1, <2>4, <2>5, <2>6, <2>7 DEF Execution!Grant
<1>4. ASSUME NEW w \in Workers, NEW t \in Readings, Renew(w, t)
      PROVE  UNCHANGED <<Issued, Open, Held, Ledger>>
  <2>1. \A d \in Commands : /\ commands'[d].status = commands[d].status
                            /\ commands'[d].epoch = commands[d].epoch
    BY <1>4, LeaseType DEF Renew, TypeOK, CommandRow
  <2>2. UNCHANGED <<results, leases>>
    BY <1>4 DEF Renew
  <2> QED
    BY <2>1, <2>2 DEF GrantOf
<1>5. ASSUME NEW w \in Workers, NEW o \in Outputs, NEW t \in Readings,
             Complete(w, o, t)
      PROVE  Execution!Next
  <2>0. PICK c \in Commands : c = leases[w].command
    BY <1>5, LeaseType DEF Complete
  <2> DEFINE key == KeyOf(c, WorkflowStage)
             row == [Settle(commands[c], "COMPLETED") EXCEPT !.output = o]
  <2>1. leases[w] \in Lease /\ key \in StageKeys
    BY <1>5, LeaseType, KeyType DEF Complete, StageNames
  <2>2. Execution!Holds(w, c)
    BY <1>5, <2>0, ActiveHolds DEF Complete, Execution!Holds
  <2>3. row.status = "COMPLETED" /\ row.epoch = commands[c].epoch
    BY <2>1, SettleRow DEF TypeOK, CommandStatus, CommandRow
  <2>4. commands' = [commands EXCEPT ![c] = row]
    BY <1>5, <2>0 DEF Complete
  <2>5. commands'[c] = row /\ \A d \in Commands \ {c} : commands'[d] = commands[d]
    BY <2>1, <2>4 DEF TypeOK
  <2>6. Issued' = Issued
    BY <2>3, <2>5
  <2>7. Open' = [Open EXCEPT ![c] = FALSE]
    BY <2>3, <2>5
  <2>8. Held' = Held
    BY <1>5 DEF Complete, GrantOf
  <2>9. \/ Ledger[key] = NoOutput /\ Ledger' = [Ledger EXCEPT ![key] = o]
        \/ Ledger[key] = o /\ Ledger' = Ledger
    <3>1. results' = StoreResult(key, leases[w], o) /\ OutputAccepted(key, o)
      BY <1>5, <2>0 DEF Complete
    <3> HIDE DEF key, Ledger
    <3> QED
      BY <2>1, <3>1, StoredStep DEF OutputAccepted
  <2>10. key \in [d \in Commands |-> {KeyOf(d, name) : name \in StageNames}][c]
    BY <2>1 DEF StageNames
  <2>11. Execution!Write(key, o) \/ (Ledger[key] = o /\ Ledger' = Ledger)
    BY <2>9 DEF Execution!Write
  <2>12. Execution!Finish(w, c, key, o)
    BY <2>2, <2>6, <2>7, <2>8, <2>10, <2>11 DEF Execution!Finish
  <2> QED
    BY <2>1, <2>12 DEF Execution!Next
<1>6. ASSUME NEW w \in Workers, NEW retryable \in BOOLEAN, NEW t \in Readings,
             Fail(w, retryable, t)
      PROVE  Execution!Next
  <2>1. PICK c \in Commands : c = leases[w].command
    BY <1>6, LeaseType DEF Fail
  <2>2. PICK status \in {"FAILED_REDRIVABLE", "FAILED_TERMINAL"} :
            commands' = [commands EXCEPT ![c] = Settle(@, status)]
    BY <1>6, <2>1 DEF Fail
  <2>3. Open[c]
    BY <1>6, <2>1, ActiveHolds DEF Fail
  <2>4. UNCHANGED <<results, leases>>
    BY <1>6 DEF Fail
  <2>5. /\ Issued' = Issued
        /\ Open' = [Open EXCEPT ![c] = FALSE]
        /\ Held' = Held
        /\ Ledger' = Ledger
    BY <2>2, <2>4, SettledStep DEF CommandStatus
  <2>6. Execution!Abandon(c)
    BY <2>3, <2>5 DEF Execution!Abandon
  <2> QED
    BY <2>6 DEF Execution!Next
<1>7. ASSUME NEW w \in Workers, NEW name \in CheckpointStages, NEW o \in Outputs,
             NEW t \in Readings, RecordStage(w, name, o, t)
      PROVE  Execution!Next
  <2>0. PICK c \in Commands : c = leases[w].command
    BY <1>7, LeaseType DEF RecordStage
  <2> DEFINE key == KeyOf(c, name)
  <2>1. leases[w] \in Lease /\ key \in StageKeys
    BY <1>7, LeaseType, KeyType DEF RecordStage, StageNames
  <2>2. Execution!Holds(w, c)
    BY <1>7, <2>0, ActiveHolds DEF RecordStage, Execution!Holds
  <2>3. Ledger[key] = NoOutput /\ Ledger' = [Ledger EXCEPT ![key] = o]
    <3>1. results' = StoreResult(key, leases[w], o) /\ results[key] = NoResult
      BY <1>7, <2>0 DEF RecordStage
    <3> HIDE DEF key, Ledger
    <3> QED
      BY <2>1, <3>1, StoredStep
  <2>4. key \in [d \in Commands |-> {KeyOf(d, s) : s \in StageNames}][c]
    BY <2>1 DEF StageNames
  <2>5. UNCHANGED <<Issued, Open, Held>>
    BY <1>7 DEF RecordStage, GrantOf
  <2>6. Execution!Write(key, o)
    BY <2>3 DEF Execution!Write
  <2>7. Execution!Record(w, c, key, o)
    BY <2>2, <2>4, <2>5, <2>6 DEF Execution!Record
  <2> QED
    BY <2>1, <2>7 DEF Execution!Next
<1>8. ASSUME NEW w \in Workers, Release(w) PROVE Execution!Forget(w)
  <2>1. leases[w] # NoLease /\ leases' = [leases EXCEPT ![w] = NoLease]
    BY <1>8 DEF Release
  <2>2. Held' = [Held EXCEPT ![w] = NoLease]
    BY <2>1 DEF GrantOf, TypeOK
  <2>3. Held[w] # NoLease
    BY <2>1, GrantType
  <2> QED
    BY <1>8, <2>2, <2>3 DEF Release, Execution!Forget
<1>9. ASSUME Tick \/ UNCHANGED vars PROVE UNCHANGED <<Issued, Open, Held, Ledger>>
  BY <1>9 DEF Tick, vars, GrantOf
<1>10. ASSUME NEW w \in Workers, NEW c \in Commands, NEW t \in Readings,
              Claim(w, c, t)
       PROVE  Execution!Next \/ UNCHANGED <<Issued, Open, Held, Ledger>>
  <2>1. CASE ClaimGranted(w, c, t)
    <3>1. Execution!Grant(w, c)
      BY <1>3, <2>1
    <3> QED
      BY <3>1 DEF Execution!Next
  <2>2. CASE ClaimExhausted(c) \/ ClaimPastDeadline(c, t)
    <3>1. Execution!Abandon(c) \/ UNCHANGED <<Issued, Open, Held, Ledger>>
      BY <1>2, <2>2
    <3> QED
      BY <3>1 DEF Execution!Next
  <2> QED
    BY <1>10, <2>1, <2>2 DEF Claim
<1>11. ASSUME NEW w \in Workers, Release(w) PROVE Execution!Next
  <2>1. Execution!Forget(w)
    BY <1>8, <1>11
  <2> QED
    BY <2>1 DEF Execution!Next
<1> HIDE DEF Issued, Open, Held, Ledger
<1>12. Execution!Next \/ UNCHANGED <<Issued, Open, Held, Ledger>>
  BY <1>1, <1>4, <1>5, <1>6, <1>7, <1>9, <1>10, <1>11 DEF Next, WorkerStep
<1> QED
  BY <1>12 DEF Execution!vars, Issued, Open, Held, Ledger

(* Implementation: what the workers are promised, fenced grants and a      *)
(* ledger written once by the holder of the open grant, is what the tables *)
(* of the store give them.                                                 *)
THEOREM StoreImplementsPort == Spec => ImplementsFencedExecution
<1>1. Init => Execution!Init
  <2> SUFFICES ASSUME Init PROVE Execution!Init
    OBVIOUS
  <2>1. Issued = [c \in Commands |-> 0]
    BY DEF Init, Issued
  <2>2. Open = [c \in Commands |-> FALSE]
    BY DEF Init, Open
  <2>3. Held = [w \in Workers |-> NoLease]
    BY DEF Init, Held, GrantOf
  <2>4. Ledger = [key \in StageKeys |-> NoOutput]
    BY DEF Init, Ledger
  <2> QED
    BY <2>1, <2>2, <2>3, <2>4 DEF Execution!Init, Issued, Open, Held, Ledger
<1>2. TypeOK /\ [Next]_vars => [Execution!Next]_(Execution!vars)
  BY StepRefines
<1> QED
  BY <1>1, <1>2, TypeCorrect, PTL DEF Spec, ImplementsFencedExecution,
     Execution!Spec

-----------------------------------------------------------------------------
(***************************************************************************)
(* The worker loop over the store.  Every step of a worker is a            *)
(* transaction of the store or leaves its tables alone, so what is proved  *)
(* of Spec holds of the composition; what the loop adds is an        *)
(* invariant of its own, LoopInv, over the places of worker_once.          *)
(***************************************************************************)

(* A command at its end, with the result of its workflow recorded. *)
Ended(c) == Settled(c) /\ results[KeyOf(c, WorkflowStage)] # NoResult

(* The rows, the threads and the objects have their types; the counters of *)
(* a message are natural numbers.                                          *)
QueueRow == [status : Broker!MessageStatus, sequence : Nat, available : Nat,
             attempts : Nat, epoch : Nat, owner : Owners \union {NoOwner},
             expires : Nat \union {Broker!NoTime}]
ThreadsTyped ==
    /\ messages \in [Commands -> QueueRow]
    /\ deliveries \in [Workers -> Broker!Delivery \union {NoDelivery}]
    /\ outbox \in [Commands -> [status : {"ABSENT", "PENDING", "DELIVERED"}, available : Nat]]
    /\ pc \in [Workers -> PC]
    /\ batch \in [Workers -> Seq(Commands)]
    /\ poll \in [Workers -> DOMAIN LanePriority]
    /\ stage \in [Workers -> DOMAIN StageOrder]
    /\ body \in [Workers -> Outputs \union {NoOutput}]
    /\ carried \in [Workers -> [CheckpointStages -> Outputs \union {NoOutput}]]
    /\ artifacts \in [Commands -> [CheckpointStages -> Outputs \union {NoOutput}]]

(* A command has an event, a delivered event a message, and a message that *)
(* was acknowledged a command at its end, with its result.                 *)
EventsOK ==
    \A c \in Commands :
        /\ commands[c].status # "ABSENT" => outbox[c].status # "ABSENT"
        /\ outbox[c].status = "DELIVERED" => messages[c].status # "ABSENT"
        /\ messages[c].status # "SUPERSEDED"
        /\ messages[c].status = "ACKED" => Ended(c)

(* What a worker knows at each place of worker_once. *)
Dispatching == {"dispatching", "publishing"}
Executing == {"checkpoint", "operating", "storing", "recording", "completing"}
BeforeDelivery == {"idle", "polling"} \union Dispatching
BeforeClaim == BeforeDelivery \union {"received", "claiming"}

WorkerOK(w) ==
    /\ pc[w] \in Dispatching => batch[w] # <<>>
    /\ pc[w] = "publishing" => messages[Head(batch[w])].status # "ABSENT"
    /\ pc[w] \notin BeforeDelivery \union {"returning"} => deliveries[w] # NoDelivery
    /\ pc[w] \in BeforeClaim => carried[w] = NothingCarried
    /\ carried[w] # NothingCarried => deliveries[w] # NoDelivery
    /\ pc[w] \in Executing => leases[w] # NoLease /\ leases[w].command = CommandOf(w)
    /\ pc[w] \in {"storing", "recording"} => body[w] \in Outputs
    /\ pc[w] = "recording" => artifacts[CommandOf(w)][StageOf(w)] = body[w]
    /\ pc[w] = "completing" => carried[w][LastStage] \in Outputs
    /\ pc[w] = "acking" => Ended(CommandOf(w))
WorkersOK == \A w \in Workers : WorkerOK(w)

LoopInv ==
    /\ TypeOK /\ CompletedOutputIsRecorded
    /\ ThreadsTyped /\ EventsOK /\ WorkersOK
    /\ CarriedIsRecorded /\ ResultHasArtifact

----------------------------------------------------------------------------
(* The clock readings are those of the queue. *)
LEMMA SameReadings == Readings = Broker!Readings
BY DEF Readings, Broker!Readings

LEMMA StageIsCheckpoint ==
    ASSUME ThreadsTyped, NEW w \in Workers
    PROVE  /\ StageOf(w) \in CheckpointStages
           /\ StageOf(w) \in StageNames
           /\ StageOf(w) # LastStage => stage[w] + 1 \in DOMAIN StageOrder
           /\ 1 \in DOMAIN StageOrder
           /\ LastStage \in CheckpointStages
<1>1. StageOrder \in Seq(STRING) /\ StageOrder # <<>>
  BY WorkerAssumption
<1>2. Len(StageOrder) \in Nat \ {0} /\ DOMAIN StageOrder = 1..Len(StageOrder)
  BY <1>1
<1>3. stage[w] \in 1..Len(StageOrder)
  BY <1>2 DEF ThreadsTyped
<1>4. \A i \in DOMAIN StageOrder : StageOrder[i] \in CheckpointStages
  BY WorkerAssumption
<1> QED
  BY <1>2, <1>3, <1>4 DEF StageOf, LastStage, StageNames

(* The command of a delivery. *)
LEMMA DeliveryType ==
    ASSUME ThreadsTyped, NEW w \in Workers, deliveries[w] # NoDelivery
    PROVE  /\ deliveries[w] \in Broker!Delivery
           /\ CommandOf(w) \in Commands
BY DEF ThreadsTyped, CommandOf, Broker!Delivery

(* The output stored under a key. *)
LEMMA StoredType ==
    ASSUME TypeOK, NEW key \in StageKeys, results[key] # NoResult
    PROVE  /\ results[key] \in StageResult
           /\ results[key].checksum \in Outputs
           /\ results[key].command \in Commands
BY DEF TypeOK, StageResult

(* pending lists events of commands, at least one if there is one. *)
LEMMA PendingListed ==
    ASSUME NEW events \in SetToSeqs(Pending)
    PROVE  events \in Seq(Commands) /\ (Pending # {} => events # <<>>)
<1>1. IsFiniteSet(Pending)
  BY WorkerAssumption, FS_Subset DEF Pending
<1>2. Cardinality(Pending) \in Nat /\ (Cardinality(Pending) = 0 <=> Pending = {})
  BY <1>1, FS_CardinalityType, FS_EmptySet
<1>3. events \in [1..Cardinality(Pending) -> Pending]
  BY DEF SetToSeqs
<1>4. Pending \subseteq Commands
  BY DEF Pending
<1>5. events \in Seq(Commands)
  BY <1>2, <1>3, <1>4
<1>6. Len(events) = Cardinality(Pending)
  BY <1>2, <1>3, <1>5
<1> QED
  BY <1>2, <1>5, <1>6

(* The checkpoint goes on with an output. *)
LEMMA NextStageType ==
    ASSUME ThreadsTyped, NEW w \in Workers, NEW o \in Outputs, NextStage(w, o)
    PROVE  /\ carried' \in [Workers -> [CheckpointStages -> Outputs \union {NoOutput}]]
           /\ carried'[w][StageOf(w)] = o
           /\ \A s \in CheckpointStages : s # StageOf(w) => carried'[w][s] = carried[w][s]
           /\ stage' \in [Workers -> DOMAIN StageOrder]
           /\ body' \in [Workers -> Outputs \union {NoOutput}]
           /\ pc' \in [Workers -> PC]
           /\ pc'[w] = "checkpoint" \/ (pc'[w] = "completing" /\ StageOf(w) = LastStage)
<1>1. carried[w] \in [CheckpointStages -> Outputs \union {NoOutput}]
  BY DEF ThreadsTyped
<1>2. carried' = [carried EXCEPT ![w] = [carried[w] EXCEPT ![StageOf(w)] = o]]
  BY DEF NextStage
<1>3. carried'[w] = [carried[w] EXCEPT ![StageOf(w)] = o]
  BY <1>2 DEF ThreadsTyped
<1>4. [carried[w] EXCEPT ![StageOf(w)] = o] \in [CheckpointStages -> Outputs \union {NoOutput}]
  BY <1>1, StageIsCheckpoint
<1>5. carried' \in [Workers -> [CheckpointStages -> Outputs \union {NoOutput}]]
  BY <1>2, <1>4 DEF ThreadsTyped
<1>6. /\ carried'[w][StageOf(w)] = o
      /\ \A s \in CheckpointStages : s # StageOf(w) => carried'[w][s] = carried[w][s]
  BY <1>1, <1>3, StageIsCheckpoint
<1>7. stage' \in [Workers -> DOMAIN StageOrder]
  BY StageIsCheckpoint DEF ThreadsTyped, NextStage
<1>8. body' \in [Workers -> Outputs \union {NoOutput}]
  BY DEF ThreadsTyped, NextStage
<1>9. /\ pc' \in [Workers -> PC]
      /\ pc'[w] = "checkpoint" \/ (pc'[w] = "completing" /\ StageOf(w) = LastStage)
  BY DEF ThreadsTyped, NextStage, Goto, PC
<1> QED
  BY <1>5, <1>6, <1>7, <1>8, <1>9

----------------------------------------------------------------------------
(* Every step of the loop is a transaction of the store or leaves its      *)
(* tables alone: what a worker passes to record_stage and to complete is   *)
(* an output of a checkpoint, and it passes the lease it was granted.      *)
LEMMA WorkerTransactions ==
    ASSUME TypeOK, ThreadsTyped, WorkersOK, NEW w \in Workers, LoopStep(w) \/ Crash(w)
    PROVE  \/ \E t \in Readings : WorkerStep(w, t)
           \/ Release(w)
           \/ UNCHANGED vars
<1> USE SameReadings
<1>0. ASSUME UNCHANGED storeVars, UNCHANGED now PROVE UNCHANGED vars
  BY <1>0 DEF storeVars, vars
<1>1. CASE ReadPending(w) \/ PublishEvent(w) \/ MarkDelivered(w) \/ PollLane(w)
  <2>1. UNCHANGED storeVars /\ UNCHANGED now
    BY <1>1 DEF ReadPending, PublishEvent, MarkDelivered, PollLane, Broker!Publish,
          Broker!Claim, Broker!ClaimNothing
  <2> QED
    BY <1>0, <2>1
<1>2. CASE \/ ReadCommand(w) \/ LookUpStage(w) \/ Operate(w) \/ PutArtifact(w)
           \/ ReadAfterFailure(w) \/ RequeueMessage(w) \/ AcknowledgeMessage(w)
  <2>1. UNCHANGED storeVars /\ UNCHANGED now
    BY <1>2 DEF ReadCommand, LookUpStage, Operate, PutArtifact, ReadAfterFailure,
          RequeueMessage, AcknowledgeMessage, Broker!Retry, Broker!Acknowledge
  <2> QED
    BY <1>0, <2>1
<1>3. CASE ClaimCommand(w)
  <2>1. deliveries[w] # NoDelivery
    BY <1>3 DEF ClaimCommand, At, WorkersOK, WorkerOK, BeforeDelivery, Dispatching
  <2>2. CommandOf(w) \in Commands
    BY <2>1, DeliveryType
  <2>3. PICK t \in Readings :
           \/ ClaimGranted(w, CommandOf(w), t)
           \/ ClaimExhausted(CommandOf(w)) \/ ClaimPastDeadline(CommandOf(w), t)
           \/ UNCHANGED <<storeVars, now>>
    BY <1>3 DEF ClaimCommand
  <2>4. CASE UNCHANGED <<storeVars, now>>
    BY <1>0, <2>4
  <2>5. CASE Claim(w, CommandOf(w), t)
    <3>1. WorkerStep(w, t)
      BY <2>2, <2>5 DEF WorkerStep
    <3> QED
      BY <3>1
  <2> QED
    BY <2>3, <2>4, <2>5 DEF Claim
<1>4. CASE RecordCheckpoint(w)
  <2>1. body[w] \in Outputs
    BY <1>4 DEF RecordCheckpoint, At, WorkersOK, WorkerOK
  <2>2. PICK t \in Readings :
           \/ RecordStage(w, StageOf(w), body[w], t)
           \/ UNCHANGED <<storeVars, now>>
    BY <1>4 DEF RecordCheckpoint
  <2>3. CASE UNCHANGED <<storeVars, now>>
    BY <1>0, <2>3
  <2>4. CASE RecordStage(w, StageOf(w), body[w], t)
    <3>1. WorkerStep(w, t)
      BY <2>1, <2>4, StageIsCheckpoint DEF WorkerStep
    <3> QED
      BY <3>1
  <2> QED
    BY <2>2, <2>3, <2>4
<1>5. CASE CompleteCommand(w)
  <2>1. carried[w][LastStage] \in Outputs
    BY <1>5 DEF CompleteCommand, At, WorkersOK, WorkerOK
  <2>2. PICK t \in Readings :
           \/ Complete(w, carried[w][LastStage], t)
           \/ UNCHANGED <<storeVars, now>>
    BY <1>5 DEF CompleteCommand
  <2>3. CASE UNCHANGED <<storeVars, now>>
    BY <1>0, <2>3
  <2>4. CASE Complete(w, carried[w][LastStage], t)
    <3>1. WorkerStep(w, t)
      BY <2>1, <2>4 DEF WorkerStep
    <3> QED
      BY <3>1
  <2> QED
    BY <2>2, <2>3, <2>4
<1>6. CASE FailCommand(w)
  <2>1. PICK t \in Readings : Fail(w, TRUE, t) \/ UNCHANGED <<storeVars, now>>
    BY <1>6 DEF FailCommand
  <2>2. CASE UNCHANGED <<storeVars, now>>
    BY <1>0, <2>2
  <2>3. CASE Fail(w, TRUE, t)
    <3>1. WorkerStep(w, t)
      BY <2>3 DEF WorkerStep
    <3> QED
      BY <3>1
  <2> QED
    BY <2>1, <2>2, <2>3
<1>7. CASE Return(w) \/ Crash(w)
  <2>1. /\ leases' = [leases EXCEPT ![w] = NoLease]
        /\ UNCHANGED <<commands, attempts, results, now>>
    BY <1>7 DEF Return, Crash, Forget
  <2>2. CASE leases[w] = NoLease
    <3>1. leases' = leases
      BY <2>1, <2>2 DEF TypeOK
    <3> QED
      BY <2>1, <3>1 DEF vars
  <2>3. CASE leases[w] # NoLease
    BY <2>1, <2>3 DEF Release, Next
  <2> QED
    BY <2>2, <2>3
<1> QED
  BY <1>1, <1>2, <1>3, <1>4, <1>5, <1>6, <1>7 DEF LoopStep

LEMMA StoreSteps ==
    ASSUME TypeOK, ThreadsTyped, WorkersOK, [LoopNext]_loopVars
    PROVE  [Next]_vars
<1>1. ASSUME NEW c \in Commands, Accept(c) PROVE Next
  BY <1>1, SameReadings DEF Accept, Next
<1>2. ASSUME NEW w \in Workers, LoopStep(w) \/ Crash(w) PROVE [Next]_vars
  <2>1. CASE \E t \in Readings : WorkerStep(w, t)
    BY <2>1 DEF Next
  <2>2. CASE Release(w)
    BY <2>2 DEF Next
  <2> QED
    BY <1>2, <2>1, <2>2, WorkerTransactions
<1>3. CASE LoopTick
  BY <1>3 DEF LoopTick, Next, Tick, storeVars
<1>4. CASE UNCHANGED loopVars
  BY <1>4 DEF loopVars, storeVars, vars
<1> QED
  BY <1>1, <1>2, <1>3, <1>4 DEF LoopNext

(* A command comes into being only by its acceptance. *)
LEMMA AbsentStays ==
    ASSUME TypeOK, ThreadsTyped, WorkersOK, [LoopNext]_loopVars, NEW c \in Commands,
           ~\E d \in Commands : Accept(d), commands[c].status = "ABSENT"
    PROVE  commands'[c].status = "ABSENT"
<1>1. ASSUME NEW w \in Workers, leases[w] # NoLease, NEW t, ActiveLease(leases[w], t)
      PROVE  leases[w].command \in Commands /\ leases[w].command # c
  BY <1>1, LeaseType DEF ActiveLease
<1>2. ASSUME NEW w \in Workers, NEW t \in Readings, WorkerStep(w, t)
      PROVE  commands'[c] = commands[c]
  <2>1. ASSUME NEW d \in Commands, Claim(w, d, t) PROVE commands'[c] = commands[c]
    <3>1. d # c
      BY <2>1 DEF Claim, ClaimExhausted, ClaimPastDeadline,
         ClaimGranted,
            Takeable, Claimable
    <3> QED
      BY <2>1, <3>1 DEF Claim, ClaimExhausted, ClaimPastDeadline,
            ClaimGranted, TypeOK
  <2>2. CASE Renew(w, t)
    BY <1>1, <2>2 DEF Renew, TypeOK
  <2>3. ASSUME NEW o \in Outputs, Complete(w, o, t) PROVE commands'[c] = commands[c]
    BY <1>1, <2>3 DEF Complete, TypeOK
  <2>4. ASSUME NEW retryable \in BOOLEAN, Fail(w, retryable, t)
        PROVE  commands'[c] = commands[c]
    BY <1>1, <2>4 DEF Fail, TypeOK
  <2> QED
    BY <1>2, <2>1, <2>2, <2>3, <2>4 DEF WorkerStep, RecordStage
<1>3. ASSUME NEW w \in Workers, LoopStep(w) \/ Crash(w) PROVE commands'[c] = commands[c]
  BY <1>2, <1>3, WorkerTransactions DEF Release, vars
<1>4. CASE LoopTick \/ UNCHANGED loopVars
  BY <1>4 DEF LoopTick, loopVars, storeVars
<1> QED
  BY <1>3, <1>4 DEF LoopNext


----------------------------------------------------------------------------
(* What is recorded stays, and so does the end of a command. *)
LEMMA RecordedStays ==
    ASSUME TypeOK, [Next]_vars, NEW key \in StageKeys,
           results[key] # NoResult
    PROVE  results'[key] = results[key]
BY ResultSteps

LEMMA SettledStays ==
    ASSUME TypeOK, [Next]_vars, NEW c \in Commands, Settled(c)
    PROVE  Settled(c)'
<1> USE DEF TypeOK
<1>0. commands[c] \in CommandRow /\ commands[c].status \in {"COMPLETED", "FAILED_TERMINAL"}
  BY DEF Settled
<1>1. ASSUME NEW d \in Commands, NEW status \in CommandStatus,
             commands' = [commands EXCEPT ![d] = Settle(@, status)],
             d = c => status = "FAILED_TERMINAL"
      PROVE  Settled(c)'
  <2>1. CASE d = c
    <3>1. commands'[c] = Settle(commands[c], "FAILED_TERMINAL")
      BY <1>1, <2>1
    <3> QED
      BY <1>0, <3>1, SettleRow DEF Settled, CommandStatus
  <2>2. CASE d # c
    BY <1>0, <1>1, <2>2 DEF Settled
  <2> QED
    BY <2>1, <2>2
<1>2. ASSUME UNCHANGED commands PROVE Settled(c)'
  BY <1>0, <1>2 DEF Settled
<1>3. ASSUME NEW d \in Commands, NEW t \in Readings, Submit(d, t) PROVE Settled(c)'
  BY <1>0, <1>3 DEF Submit, Settled
<1>4. ASSUME NEW w \in Workers, NEW t \in Readings, NEW d \in Commands,
             Claim(w, d, t)
      PROVE  Settled(c)'
  <2>1. CASE ClaimExhausted(d)
    BY <1>1, <2>1 DEF ClaimExhausted, CommandStatus
  <2>2. CASE ClaimPastDeadline(d, t)
    BY <1>1, <2>2 DEF ClaimPastDeadline, CommandStatus
  <2>3. CASE ClaimGranted(w, d, t)
    <3>1. d # c
      BY <1>0, <2>3 DEF ClaimGranted, Takeable, Claimable
    <3>2. commands'[c] = commands[c]
      BY <2>3, <3>1 DEF ClaimGranted
    <3> QED
      BY <1>0, <3>2 DEF Settled
  <2> QED
    BY <1>4, <2>1, <2>2, <2>3 DEF Claim
<1>5. ASSUME NEW w \in Workers, leases[w] # NoLease, NEW t, ActiveLease(leases[w], t)
      PROVE  leases[w].command \in Commands /\ leases[w].command # c
  BY <1>0, <1>5, LeaseType DEF ActiveLease
<1>6. ASSUME NEW w \in Workers, NEW t \in Readings, Renew(w, t) PROVE Settled(c)'
  BY <1>0, <1>5, <1>6 DEF Renew, Settled
<1>7. ASSUME NEW w \in Workers, NEW t \in Readings, NEW o \in Outputs,
             Complete(w, o, t)
      PROVE  Settled(c)'
  <2>1. commands'[c] = commands[c]
    BY <1>5, <1>7 DEF Complete
  <2> QED
    BY <1>0, <2>1 DEF Settled
<1>8. ASSUME NEW w \in Workers, NEW t \in Readings, NEW retryable \in BOOLEAN,
             Fail(w, retryable, t)
      PROVE  Settled(c)'
  <2>1. commands'[c] = commands[c]
    BY <1>5, <1>8 DEF Fail
  <2> QED
    BY <1>0, <2>1 DEF Settled
<1> QED
  BY <1>2, <1>3, <1>4, <1>6, <1>7, <1>8
     DEF Next, WorkerStep, RecordStage, Release, Tick, vars

LEMMA EndedStays ==
    ASSUME TypeOK, [Next]_vars, NEW c \in Commands, Ended(c)
    PROVE  Ended(c)'
<1> DEFINE key == KeyOf(c, WorkflowStage)
<1>1. key \in StageKeys
  BY KeyType DEF StageNames
<1>2. results'[key] = results[key]
  BY <1>1, RecordedStays DEF Ended
<1>3. Settled(c)'
  BY SettledStays DEF Ended
<1> QED
  BY <1>2, <1>3 DEF Ended, KeyOf

(* A completed command is at its end with its result. *)
LEMMA CompletedEnded ==
    ASSUME CompletedOutputIsRecorded, NEW c \in Commands, commands[c].status = "COMPLETED"
    PROVE  Ended(c)
BY DEF CompletedOutputIsRecorded, Ended, Settled, KeyOf

----------------------------------------------------------------------------
(* The rows of the queue. *)
LEMMA QueueSettle ==
    ASSUME NEW row \in QueueRow, NEW status \in Broker!MessageStatus
    PROVE  /\ Broker!Settle(row, status) \in QueueRow
           /\ Broker!Settle(row, status).status = status
BY DEF QueueRow, Broker!Settle, Broker!NoTime

LEMMA QueueRequeue ==
    ASSUME NEW row \in QueueRow, NEW available \in Nat
    PROVE  /\ Broker!Requeue(row, available) \in QueueRow
           /\ Broker!Requeue(row, available).status \in {"AVAILABLE", "DEAD"}
<1> DEFINE status == IF Broker!Exhausted(row) THEN "DEAD" ELSE "AVAILABLE"
           settled == Broker!Settle(row, status)
<1>1. status \in {"AVAILABLE", "DEAD"}
  OBVIOUS
<1>2. settled \in QueueRow /\ settled.status = status
  BY <1>1, QueueSettle DEF Broker!MessageStatus
<1>3. Broker!Requeue(row, available) = [settled EXCEPT !.available = available]
  BY DEF Broker!Requeue
<1> HIDE DEF settled, status
<1>4. [settled EXCEPT !.available = available] \in QueueRow
  BY <1>2 DEF QueueRow
<1>5. [settled EXCEPT !.available = available].status = settled.status
  BY <1>2 DEF QueueRow
<1> QED
  BY <1>1, <1>2, <1>3, <1>4, <1>5

(* The sweep of a lane puts expired deliveries back, or gives them up. *)
LEMMA QueueRecovered ==
    ASSUME ThreadsTyped, NEW lane, NEW t \in Nat
    PROVE  /\ Broker!Recovered(lane, t) \in [Commands -> QueueRow]
           /\ \A c \in Commands :
                 \/ Broker!Recovered(lane, t)[c] = messages[c]
                 \/ /\ messages[c].status = "IN_FLIGHT"
                    /\ Broker!Recovered(lane, t)[c].status \in {"AVAILABLE", "DEAD"}
BY QueueRequeue DEF Broker!Recovered, Broker!Expired, ThreadsTyped

(* What a transaction of the queue may do to the status of a message. *)
QueueMoves(acked) ==
    /\ messages' \in [Commands -> QueueRow]
    /\ \A c \in Commands :
          \/ messages'[c].status = messages[c].status
          \/ messages'[c].status \in {"AVAILABLE", "IN_FLIGHT", "DEAD"}
          \/ messages'[c].status = "ACKED" /\ c \in acked

(* The queue after a publication, a claim, a sweep, a retry and an         *)
(* acknowledgement.                                                        *)
LEMMA PublishMoves ==
    ASSUME ThreadsTyped, NEW c \in Commands, NEW t \in Nat, Broker!Publish(c, t)
    PROVE  /\ QueueMoves({})
           /\ messages'[c].status = "AVAILABLE"
           /\ deliveries' = deliveries
<1>1. ASSUME NEW n \in Commands PROVE ~Broker!Supersedes(c, n)
  BY DEF Broker!Supersedes
<1>2. messages' = [n \in Commands |-> IF n = c THEN Broker!Stored(c, t) ELSE messages[n]]
  BY <1>1 DEF Broker!Publish
<1>3. Broker!Cardinality(Broker!Published) \in Nat
  <2>1. Cardinality(Broker!Published) \in Nat
    BY WorkerAssumption, FS_Subset, FS_CardinalityType DEF Broker!Published
  <2>2. Cardinality(Broker!Published) = Broker!Cardinality(Broker!Published)
    BY DEF Cardinality, Broker!Cardinality
  <2> QED
    BY <2>1, <2>2
<1>4. messages[c] \in QueueRow
  BY DEF ThreadsTyped
<1>5. Broker!Stored(c, t) \in QueueRow /\ Broker!Stored(c, t).status = "AVAILABLE"
  <2> DEFINE next == Broker!Cardinality(Broker!Published) + 1
  <2>1. next \in Nat
    BY <1>3
  <2>2. PICK row \in QueueRow : row = messages[c]
    BY <1>4
  <2>3. Broker!Stored(c, t) =
           [row EXCEPT !.status = "AVAILABLE", !.sequence = next, !.available = t]
    BY <2>2 DEF Broker!Stored
  <2> HIDE DEF next
  <2> QED
    BY <2>1, <2>3 DEF QueueRow, Broker!MessageStatus
<1>6. deliveries' = deliveries
  BY DEF Broker!Publish
<1> QED
  BY <1>2, <1>5, <1>6 DEF QueueMoves, ThreadsTyped

LEMMA SweepMoves ==
    ASSUME ThreadsTyped, NEW lane, NEW t \in Nat, messages' = Broker!Recovered(lane, t)
    PROVE  QueueMoves({})
BY QueueRecovered DEF QueueMoves

LEMMA ClaimMoves ==
    ASSUME ThreadsTyped, NEW w \in Workers, NEW lane, NEW t \in Nat, Broker!Claim(w, lane, t)
    PROVE  /\ QueueMoves({})
           /\ deliveries[w] = NoDelivery
           /\ deliveries' \in [Workers -> Broker!Delivery \union {NoDelivery}]
           /\ deliveries'[w] \in Broker!Delivery
           /\ \A v \in Workers : v # w => deliveries'[v] = deliveries[v]
<1> DEFINE rows == Broker!Recovered(lane, t)
<1>1. rows \in [Commands -> QueueRow]
  BY QueueRecovered
<1>2. \A c \in Commands : rows[c].status = messages[c].status
                          \/ rows[c].status \in {"AVAILABLE", "DEAD"}
  BY QueueRecovered
<1>3. PICK m \in Commands :
         /\ messages' = [rows EXCEPT
                ![m].status = "IN_FLIGHT", ![m].attempts = rows[m].attempts + 1,
                ![m].epoch = rows[m].epoch + 1, ![m].owner = OwnerOf[w],
                ![m].expires = t + VisibilityTicks]
         /\ deliveries' = [deliveries EXCEPT
                ![w] = [message |-> m, owner |-> OwnerOf[w], epoch |-> rows[m].epoch + 1]]
  BY DEF Broker!Claim, Broker!Deliverable
<1> HIDE DEF rows
<1>4. rows[m] \in QueueRow
  BY <1>1
<1>5. OwnerOf[w] \in Owners /\ t + VisibilityTicks \in Nat
  BY ParameterAssumption, NullAssumption, QueueAssumption
<1>6. messages'[m] \in QueueRow /\ messages'[m].status = "IN_FLIGHT"
  BY <1>1, <1>3, <1>4, <1>5 DEF QueueRow, Broker!MessageStatus
<1>7. \A c \in Commands : c # m => messages'[c] = rows[c]
  BY <1>1, <1>3
<1>8. messages' \in [Commands -> QueueRow]
  <2>1. DOMAIN messages' = Commands /\ messages' = [c \in Commands |-> messages'[c]]
    BY <1>1, <1>3
  <2>2. \A c \in Commands : messages'[c] \in QueueRow
    BY <1>1, <1>6, <1>7
  <2> QED
    BY <2>1, <2>2
<1>9. QueueMoves({})
  BY <1>2, <1>6, <1>7, <1>8 DEF QueueMoves
<1>10. [message |-> m, owner |-> OwnerOf[w], epoch |-> rows[m].epoch + 1] \in Broker!Delivery
  BY <1>4, <1>5 DEF QueueRow, Broker!Delivery
<1>11. deliveries[w] = NoDelivery
  BY DEF Broker!Claim
<1>12. /\ deliveries' \in [Workers -> Broker!Delivery \union {NoDelivery}]
       /\ deliveries'[w] \in Broker!Delivery
       /\ \A v \in Workers : v # w => deliveries'[v] = deliveries[v]
  BY <1>3, <1>10 DEF ThreadsTyped
<1> QED
  BY <1>9, <1>11, <1>12

LEMMA RetryMoves ==
    ASSUME ThreadsTyped, NEW w \in Workers, NEW t \in Nat, Broker!Retry(w, t, t)
    PROVE  QueueMoves({}) /\ deliveries' = deliveries
<1>1. deliveries[w] # NoDelivery /\ CommandOf(w) \in Commands
  BY DeliveryType DEF Broker!Retry
<1>2. messages' = [messages EXCEPT ![CommandOf(w)] = Broker!Requeue(messages[CommandOf(w)], t)]
  BY DEF Broker!Retry, CommandOf
<1>3. messages[CommandOf(w)] \in QueueRow
  BY <1>1 DEF ThreadsTyped
<1> DEFINE row == Broker!Requeue(messages[CommandOf(w)], t)
<1>4. row \in QueueRow /\ row.status \in {"AVAILABLE", "DEAD"}
  BY <1>3, QueueRequeue
<1> HIDE DEF row
<1> QED
  BY <1>1, <1>2, <1>4 DEF QueueMoves, ThreadsTyped, Broker!Retry, row

LEMMA AcknowledgeMoves ==
    ASSUME ThreadsTyped, NEW w \in Workers, NEW t \in Nat, Broker!Acknowledge(w, t)
    PROVE  QueueMoves({CommandOf(w)}) /\ deliveries' = deliveries
<1>1. deliveries[w] # NoDelivery /\ CommandOf(w) \in Commands
  BY DeliveryType DEF Broker!Acknowledge
<1>2. messages' = [messages EXCEPT ![CommandOf(w)] = Broker!Settle(messages[CommandOf(w)], "ACKED")]
  BY DEF Broker!Acknowledge, CommandOf
<1>3. messages[CommandOf(w)] \in QueueRow
  BY <1>1 DEF ThreadsTyped
<1> DEFINE row == Broker!Settle(messages[CommandOf(w)], "ACKED")
<1>4. row \in QueueRow /\ row.status = "ACKED"
  BY <1>3, QueueSettle DEF Broker!MessageStatus
<1>5. messages' = [messages EXCEPT ![CommandOf(w)] = row]
  BY <1>2
<1> HIDE DEF row
<1>6. messages' \in [Commands -> QueueRow]
  BY <1>4, <1>5 DEF ThreadsTyped
<1>7. \A c \in Commands :
         \/ messages'[c] = messages[c]
         \/ messages'[c].status = "ACKED" /\ c = CommandOf(w)
  BY <1>1, <1>4, <1>5 DEF ThreadsTyped
<1>8. deliveries' = deliveries
  BY DEF Broker!Acknowledge
<1> QED
  BY <1>6, <1>7, <1>8 DEF QueueMoves

----------------------------------------------------------------------------
(* What a step does to the messages, the events and the objects.  A        *)
(* message is acknowledged only at "acking", an event of a message that is *)
(* not there is not marked, and a stored object stays.                     *)
LEMMA QueueSteps ==
    ASSUME LoopInv, [LoopNext]_loopVars
    PROVE  \/ QueueMoves({})
           \/ \E w \in Workers : pc[w] = "acking" /\ QueueMoves({CommandOf(w)})
<1> USE SameReadings DEF LoopInv
<1>1. ASSUME UNCHANGED messages PROVE QueueMoves({})
  BY <1>1 DEF QueueMoves, ThreadsTyped
<1>2. \A t \in Readings : t \in Nat
  BY ReadingsAreTimes DEF TypeOK
<1>3. ASSUME NEW w \in Workers, LoopStep(w) \/ Crash(w)
      PROVE  \/ QueueMoves({})
             \/ pc[w] = "acking" /\ QueueMoves({CommandOf(w)})
  <2>1. CASE PublishEvent(w)
    <3>1. Head(batch[w]) \in Commands
      BY <2>1 DEF PublishEvent, At, ThreadsTyped, WorkersOK, WorkerOK, Dispatching
    <3>2. CASE \E t \in Readings : Broker!Publish(Head(batch[w]), t)
      BY <1>2, <3>1, <3>2, PublishMoves
    <3>3. CASE UNCHANGED messages
      BY <1>1, <3>3
    <3> QED
      BY <2>1, <3>2, <3>3 DEF PublishEvent, brokerVars
  <2>2. CASE PollLane(w)
    <3>1. PICK t \in Readings :
             \/ Broker!Claim(w, LanePriority[poll[w]], t)
             \/ messages' = Broker!Recovered(LanePriority[poll[w]], t)
      BY <2>2 DEF PollLane, Broker!ClaimNothing
    <3>2. PICK lane : lane = LanePriority[poll[w]]
      OBVIOUS
    <3> QED
      BY <1>2, <3>1, ClaimMoves, SweepMoves
  <2>3. CASE RequeueMessage(w)
    <3>1. CASE \E t \in Readings : Broker!Retry(w, t, t)
      BY <1>2, <3>1, RetryMoves
    <3>2. CASE UNCHANGED messages
      BY <1>1, <3>2
    <3> QED
      BY <2>3, <3>1, <3>2 DEF RequeueMessage, brokerVars
  <2>4. CASE AcknowledgeMessage(w)
    <3>1. CASE \E t \in Readings : Broker!Acknowledge(w, t)
      BY <1>2, <2>4, <3>1, AcknowledgeMoves DEF AcknowledgeMessage, At
    <3>2. CASE UNCHANGED messages
      BY <1>1, <3>2
    <3> QED
      BY <2>4, <3>1, <3>2 DEF AcknowledgeMessage, brokerVars
  <2>5. CASE \/ ReadPending(w) \/ MarkDelivered(w) \/ ReadCommand(w) \/ ClaimCommand(w)
             \/ LookUpStage(w) \/ Operate(w) \/ PutArtifact(w) \/ RecordCheckpoint(w)
             \/ CompleteCommand(w) \/ ReadAfterFailure(w) \/ FailCommand(w)
             \/ Return(w) \/ Crash(w)
    <3>1. UNCHANGED messages
      BY <2>5 DEF ReadPending, MarkDelivered, ReadCommand, ClaimCommand, LookUpStage, Operate,
            PutArtifact, RecordCheckpoint, CompleteCommand, ReadAfterFailure, FailCommand,
            Return, Crash, Forget, brokerVars
    <3> QED
      BY <1>1, <3>1
  <2> QED
    BY <1>3, <2>1, <2>2, <2>3, <2>4, <2>5 DEF LoopStep
<1>4. CASE (\E c \in Commands : Accept(c)) \/ LoopTick \/ UNCHANGED loopVars
  BY <1>1, <1>4 DEF Accept, LoopTick, loopVars, brokerVars
<1> QED
  BY <1>3, <1>4 DEF LoopNext

LEMMA MessageStays ==
    ASSUME LoopInv, [LoopNext]_loopVars, NEW c \in Commands, messages[c].status # "ABSENT"
    PROVE  messages'[c].status # "ABSENT"
BY QueueSteps DEF QueueMoves

LEMMA ArtifactStays ==
    ASSUME LoopInv, [LoopNext]_loopVars, NEW c \in Commands, NEW s \in CheckpointStages,
           artifacts[c][s] # NoOutput
    PROVE  artifacts'[c][s] = artifacts[c][s]
<1>1. CASE UNCHANGED artifacts
  BY <1>1
<1>2. ASSUME NEW w \in Workers, PutArtifact(w) PROVE artifacts'[c][s] = artifacts[c][s]
  <2>1. CommandOf(w) \in Commands /\ StageOf(w) \in CheckpointStages
    BY <1>2, DeliveryType, StageIsCheckpoint
       DEF LoopInv, PutArtifact, At, WorkersOK, WorkerOK, BeforeDelivery, Dispatching
  <2>2. CASE UNCHANGED artifacts
    BY <2>2
  <2>3. CASE /\ artifacts[CommandOf(w)][StageOf(w)] \in {NoOutput, body[w]}
             /\ artifacts' = [artifacts EXCEPT ![CommandOf(w)][StageOf(w)] = body[w]]
    BY <2>1, <2>3 DEF LoopInv, ThreadsTyped
  <2> QED
    BY <1>2, <2>2, <2>3 DEF PutArtifact
<1>3. ASSUME NEW w \in Workers, LoopStep(w) \/ Crash(w), ~PutArtifact(w)
      PROVE  UNCHANGED artifacts
  BY <1>3 DEF LoopStep, ReadPending, PublishEvent, MarkDelivered, PollLane, ReadCommand,
       ClaimCommand, LookUpStage, Operate, RecordCheckpoint, CompleteCommand, ReadAfterFailure,
       FailCommand, RequeueMessage, AcknowledgeMessage, Return, Crash, Forget
<1>4. CASE (\E d \in Commands : Accept(d)) \/ LoopTick \/ UNCHANGED loopVars
  BY <1>1, <1>4 DEF Accept, LoopTick, loopVars
<1> QED
  BY <1>1, <1>2, <1>3, <1>4 DEF LoopNext

----------------------------------------------------------------------------
(* The types of the threads. *)
LEMMA ThreadsStep ==
    ASSUME LoopInv, [LoopNext]_loopVars
    PROVE  ThreadsTyped'
<1> USE SameReadings DEF LoopInv
<1>0. messages' \in [Commands -> QueueRow]
  BY QueueSteps DEF QueueMoves
<1>1. \A t \in Readings : t \in Nat
  BY ReadingsAreTimes DEF TypeOK
<1>2. ASSUME NEW c \in Commands, Accept(c) PROVE ThreadsTyped'
  BY <1>0, <1>1, <1>2 DEF Accept, ThreadsTyped, brokerVars, threadVars
<1>3. ASSUME NEW w \in Workers, ReadPending(w) PROVE ThreadsTyped'
  <2>1. PICK events \in SetToSeqs(Pending) : batch' = [batch EXCEPT ![w] = events]
    BY <1>3 DEF ReadPending
  <2>2. events \in Seq(Commands)
    BY PendingListed
  <2>3. batch' \in [Workers -> Seq(Commands)]
    BY <2>1, <2>2 DEF ThreadsTyped
  <2>4. 1 \in DOMAIN LanePriority
    BY WorkerAssumption
  <2> QED
    BY <1>0, <1>3, <2>3, <2>4 DEF ReadPending, Goto, PC, ThreadsTyped, brokerVars
<1>4. ASSUME NEW w \in Workers, PublishEvent(w) PROVE ThreadsTyped'
  <2>1. UNCHANGED deliveries
    BY <1>4 DEF PublishEvent, Broker!Publish, brokerVars
  <2> QED
    BY <1>0, <1>4, <2>1 DEF PublishEvent, Goto, PC, ThreadsTyped, threadVars
<1>5. ASSUME NEW w \in Workers, MarkDelivered(w) PROVE ThreadsTyped'
  <2>1. batch[w] \in Seq(Commands) /\ batch[w] # <<>>
    BY <1>5 DEF MarkDelivered, At, ThreadsTyped, WorkersOK, WorkerOK, Dispatching
  <2>2. Head(batch[w]) \in Commands /\ Tail(batch[w]) \in Seq(Commands)
    BY <2>1
  <2>3. batch' \in [Workers -> Seq(Commands)]
    BY <1>5, <2>2 DEF MarkDelivered, ThreadsTyped
  <2>4. outbox' \in [Commands -> [status : {"ABSENT", "PENDING", "DELIVERED"}, available : Nat]]
    BY <1>5, <2>2, ZenonT(30) DEF MarkDelivered, ThreadsTyped
  <2> QED
    BY <1>0, <1>5, <2>3, <2>4 DEF MarkDelivered, Goto, PC, ThreadsTyped, brokerVars
<1>6. ASSUME NEW w \in Workers, PollLane(w) PROVE ThreadsTyped'
  <2>1. PICK t \in Readings :
           \/ /\ Broker!Claim(w, LanePriority[poll[w]], t)
              /\ Goto(w, "received")
              /\ poll' = poll
           \/ /\ Broker!ClaimNothing(LanePriority[poll[w]], t)
              /\ Goto(w, IF poll[w] = Len(LanePriority) THEN "returning" ELSE "polling")
              /\ poll' = [poll EXCEPT ![w] = IF poll[w] = Len(LanePriority) THEN 1 ELSE @ + 1]
    BY <1>6 DEF PollLane
  <2>2. deliveries' \in [Workers -> Broker!Delivery \union {NoDelivery}]
    BY <1>1, <2>1, ClaimMoves DEF Broker!ClaimNothing, ThreadsTyped
  <2>3. poll' \in [Workers -> DOMAIN LanePriority]
    <3>1. Len(LanePriority) \in Nat \ {0} /\ DOMAIN LanePriority = 1..Len(LanePriority)
      BY WorkerAssumption
    <3>2. poll[w] \in 1..Len(LanePriority)
      BY <3>1 DEF ThreadsTyped
    <3>3. 1 \in DOMAIN LanePriority
          /\ (poll[w] # Len(LanePriority) => poll[w] + 1 \in DOMAIN LanePriority)
      BY <3>1, <3>2
    <3> QED
      BY <2>1, <3>3 DEF ThreadsTyped
  <2>4. pc' \in [Workers -> PC]
    BY <2>1 DEF Goto, PC, ThreadsTyped
  <2> QED
    BY <1>0, <1>6, <2>2, <2>3, <2>4 DEF PollLane, ThreadsTyped
<1>7. ASSUME NEW w \in Workers, ReadCommand(w) \/ ReadAfterFailure(w) \/ CompleteCommand(w)
             \/ FailCommand(w)
      PROVE  ThreadsTyped'
  BY <1>0, <1>7 DEF ReadCommand, ReadAfterFailure, CompleteCommand, FailCommand, Goto, PC,
       ThreadsTyped, brokerVars, threadVars
<1>8. ASSUME NEW w \in Workers, ClaimCommand(w) PROVE ThreadsTyped'
  <2>1. NothingCarried \in [CheckpointStages -> Outputs \union {NoOutput}]
    BY DEF NothingCarried
  <2> QED
    BY <1>0, <1>8, <2>1, StageIsCheckpoint DEF ClaimCommand, Goto, PC, ThreadsTyped, brokerVars
<1>9. ASSUME NEW w \in Workers, LookUpStage(w) PROVE ThreadsTyped'
  <2> DEFINE stored == results[KeyOf(CommandOf(w), StageOf(w))]
  <2>1. CASE stored = NoResult
    BY <1>0, <1>9, <2>1 DEF LookUpStage, Goto, PC, ThreadsTyped, brokerVars
  <2>2. CASE stored # NoResult
    <3>1. CommandOf(w) \in Commands
      BY <1>9, DeliveryType DEF LookUpStage, At, WorkersOK, WorkerOK, BeforeDelivery,
         Dispatching
    <3>2. stored.checksum \in Outputs
      BY <2>2, <3>1, KeyType, StageIsCheckpoint, StoredType
    <3>3. NextStage(w, stored.checksum)
      BY <1>9, <2>2 DEF LookUpStage
    <3> QED
      BY <1>0, <1>9, <3>2, <3>3, NextStageType DEF LookUpStage, ThreadsTyped, brokerVars
  <2> QED
    BY <2>1, <2>2
<1>10. ASSUME NEW w \in Workers, Operate(w) PROVE ThreadsTyped'
  <2>1. body' \in [Workers -> Outputs \union {NoOutput}]
    BY <1>10 DEF Operate, ThreadsTyped
  <2>2. pc' \in [Workers -> PC]
    BY <1>10 DEF Operate, Goto, PC, ThreadsTyped
  <2> QED
    BY <1>0, <1>10, <2>1, <2>2 DEF Operate, ThreadsTyped, brokerVars
<1>11. ASSUME NEW w \in Workers, PutArtifact(w) PROVE ThreadsTyped'
  <2>1. CommandOf(w) \in Commands /\ StageOf(w) \in CheckpointStages
    BY <1>11, DeliveryType, StageIsCheckpoint
       DEF PutArtifact, At, WorkersOK, WorkerOK, BeforeDelivery, Dispatching
  <2>2. \/ UNCHANGED artifacts
        \/ artifacts' = [artifacts EXCEPT ![CommandOf(w)][StageOf(w)] = body[w]]
    BY <1>11 DEF PutArtifact
  <2>3. artifacts' \in [Commands -> [CheckpointStages -> Outputs \union {NoOutput}]]
    <3>1. body[w] \in Outputs \union {NoOutput}
          /\ artifacts[CommandOf(w)] \in [CheckpointStages -> Outputs \union {NoOutput}]
      BY <2>1 DEF ThreadsTyped
    <3>2. [artifacts[CommandOf(w)] EXCEPT ![StageOf(w)] = body[w]]
             \in [CheckpointStages -> Outputs \union {NoOutput}]
      BY <3>1
    <3>3. \/ UNCHANGED artifacts
          \/ artifacts' = [artifacts EXCEPT ![CommandOf(w)] =
                              [artifacts[CommandOf(w)] EXCEPT ![StageOf(w)] = body[w]]]
      BY <2>2
    <3> QED
      BY <3>2, <3>3 DEF ThreadsTyped
  <2> QED
    BY <1>0, <1>11, <2>3 DEF PutArtifact, Goto, PC, ThreadsTyped, brokerVars, threadVars
<1>12. ASSUME NEW w \in Workers, RecordCheckpoint(w) PROVE ThreadsTyped'
  <2>1. body[w] \in Outputs
    BY <1>12 DEF RecordCheckpoint, At, WorkersOK, WorkerOK
  <2>2. CASE NextStage(w, body[w])
    BY <1>0, <1>12, <2>1, <2>2, NextStageType DEF RecordCheckpoint, ThreadsTyped, brokerVars
  <2>3. CASE Goto(w, "failing") /\ UNCHANGED <<stage, body, carried>>
    BY <1>0, <1>12, <2>3 DEF RecordCheckpoint, Goto, PC, ThreadsTyped, brokerVars
  <2> QED
    BY <1>12, <2>2, <2>3 DEF RecordCheckpoint
<1>13. ASSUME NEW w \in Workers, RequeueMessage(w) \/ AcknowledgeMessage(w) PROVE ThreadsTyped'
  <2>1. UNCHANGED deliveries
    BY <1>13 DEF RequeueMessage, AcknowledgeMessage, Broker!Retry, Broker!Acknowledge,
       brokerVars
  <2> QED
    BY <1>0, <1>13, <2>1 DEF RequeueMessage, AcknowledgeMessage, Goto, PC, ThreadsTyped,
       threadVars
<1>14. ASSUME NEW w \in Workers, Return(w) \/ Crash(w) PROVE ThreadsTyped'
  <2>1. /\ NothingCarried \in [CheckpointStages -> Outputs \union {NoOutput}]
        /\ 1 \in DOMAIN StageOrder /\ 1 \in DOMAIN LanePriority
        /\ <<>> \in Seq(Commands)
    BY StageIsCheckpoint, WorkerAssumption DEF NothingCarried
  <2>2. Forget(w)
    BY <1>14 DEF Return, Crash
  <2> QED
    BY <1>0, <2>1, <2>2 DEF Forget, Goto, PC, ThreadsTyped
<1>15. CASE LoopTick \/ UNCHANGED loopVars
  BY <1>0, <1>15 DEF LoopTick, ThreadsTyped, loopVars, brokerVars, threadVars
<1> QED
  BY <1>2, <1>3, <1>4, <1>5, <1>6, <1>7, <1>8, <1>9, <1>10, <1>11, <1>12, <1>13, <1>14, <1>15
     DEF LoopNext, LoopStep

----------------------------------------------------------------------------
(* The events of the commands. *)
LEMMA EventsStep ==
    ASSUME LoopInv, [LoopNext]_loopVars
    PROVE  EventsOK'
<1> SUFFICES ASSUME NEW c \in Commands
             PROVE  /\ commands'[c].status # "ABSENT" => outbox'[c].status # "ABSENT"
                    /\ outbox'[c].status = "DELIVERED" => messages'[c].status # "ABSENT"
                    /\ messages'[c].status # "SUPERSEDED"
                    /\ messages'[c].status = "ACKED" => Ended(c)'
  BY DEF EventsOK, Ended, Settled, KeyOf
<1>0. [Next]_vars
  BY StoreSteps DEF LoopInv
<1>1. messages'[c].status # "SUPERSEDED"
  BY QueueSteps DEF LoopInv, EventsOK, QueueMoves
<1>2. messages'[c].status = "ACKED" => Ended(c)'
  <2> SUFFICES ASSUME messages'[c].status = "ACKED" PROVE Ended(c)'
    OBVIOUS
  <2>1. \/ messages[c].status = "ACKED"
        \/ \E w \in Workers : pc[w] = "acking" /\ c = CommandOf(w)
    BY QueueSteps DEF QueueMoves
  <2>2. Ended(c)
    BY <2>1 DEF LoopInv, EventsOK, WorkersOK, WorkerOK
  <2> QED
    BY <1>0, <2>2, EndedStays DEF LoopInv
<1>3. messages[c].status # "ABSENT" => messages'[c].status # "ABSENT"
  BY MessageStays
<1>4. ASSUME commands'[c].status = "ABSENT" \/ commands[c].status # "ABSENT"
      PROVE  commands'[c].status # "ABSENT" => outbox[c].status # "ABSENT"
  BY <1>4 DEF LoopInv, EventsOK
<1>5. CASE UNCHANGED outbox /\ ~\E d \in Commands : Accept(d)
  <2>1. commands[c].status = "ABSENT" => commands'[c].status = "ABSENT"
    BY <1>5, AbsentStays DEF LoopInv
  <2>2. outbox'[c].status = "DELIVERED" => messages'[c].status # "ABSENT"
    BY <1>3, <1>5 DEF LoopInv, EventsOK
  <2> QED
    BY <1>1, <1>2, <1>4, <1>5, <2>1, <2>2
<1>6. ASSUME NEW d \in Commands, Accept(d)
      PROVE  /\ commands'[c].status # "ABSENT" => outbox'[c].status # "ABSENT"
             /\ outbox'[c].status = "DELIVERED" => messages'[c].status # "ABSENT"
  <2>1. c # d => commands'[c] = commands[c] /\ outbox'[c] = outbox[c]
    BY <1>6 DEF LoopInv, Accept, Submit, TypeOK, ThreadsTyped
  <2>2. c = d => outbox'[c].status = "PENDING"
    BY <1>6 DEF LoopInv, Accept, ThreadsTyped
  <2> QED
    BY <1>3, <2>1, <2>2 DEF LoopInv, EventsOK
<1>7. ASSUME NEW w \in Workers, MarkDelivered(w), ~\E d \in Commands : Accept(d)
      PROVE  /\ commands'[c].status # "ABSENT" => outbox'[c].status # "ABSENT"
             /\ outbox'[c].status = "DELIVERED" => messages'[c].status # "ABSENT"
  <2>1. /\ batch[w] \in Seq(Commands) /\ batch[w] # <<>>
        /\ messages[Head(batch[w])].status # "ABSENT"
    BY <1>7 DEF LoopInv, MarkDelivered, At, ThreadsTyped, WorkersOK, WorkerOK, Dispatching
  <2>2. /\ c # Head(batch[w]) => outbox'[c] = outbox[c]
        /\ c = Head(batch[w]) => outbox'[c].status = "DELIVERED"
    BY <1>7 DEF LoopInv, MarkDelivered, ThreadsTyped
  <2>3. commands[c].status = "ABSENT" => commands'[c].status = "ABSENT"
    BY <1>7, AbsentStays DEF LoopInv
  <2> QED
    BY <1>3, <1>4, <2>1, <2>2, <2>3 DEF LoopInv, EventsOK
<1>8. ASSUME NEW w \in Workers, LoopStep(w) \/ Crash(w), ~MarkDelivered(w)
      PROVE  UNCHANGED outbox
  BY <1>8 DEF LoopStep, ReadPending, PublishEvent, PollLane, ReadCommand, ClaimCommand,
       LookUpStage, Operate, PutArtifact, RecordCheckpoint, CompleteCommand, ReadAfterFailure,
       FailCommand, RequeueMessage, AcknowledgeMessage, Return, Crash, Forget
<1>9. CASE LoopTick \/ UNCHANGED loopVars
  <2>1. UNCHANGED outbox
    BY <1>9 DEF LoopTick, loopVars
  <2> QED
    BY <1>1, <1>2, <1>5, <1>6, <2>1
<1> QED
  BY <1>1, <1>2, <1>5, <1>6, <1>7, <1>8, <1>9 DEF LoopNext

----------------------------------------------------------------------------
(* A step of one worker leaves the locals of the others alone, and what    *)
(* they know stays true.                                                   *)
SameLocals(w) ==
    /\ pc'[w] = pc[w] /\ batch'[w] = batch[w] /\ deliveries'[w] = deliveries[w]
    /\ leases'[w] = leases[w] /\ stage'[w] = stage[w] /\ body'[w] = body[w]
    /\ carried'[w] = carried[w]

LEMMA OthersKept ==
    ASSUME LoopInv, NEW w \in Workers, LoopStep(w) \/ Crash(w), NEW v \in Workers, v # w
    PROVE  SameLocals(v)
<1>1. deliveries'[v] = deliveries[v]
  <2>1. CASE PollLane(w)
    <3>1. CASE UNCHANGED deliveries
      BY <3>1
    <3>2. ASSUME NEW t \in Readings, Broker!Claim(w, LanePriority[poll[w]], t)
          PROVE  deliveries'[v] = deliveries[v]
      BY <3>2 DEF Broker!Claim, LoopInv, ThreadsTyped
    <3> QED
      BY <2>1, <3>1, <3>2 DEF PollLane, Broker!ClaimNothing
  <2>2. CASE Return(w) \/ Crash(w)
    BY <2>2 DEF Return, Crash, Forget, LoopInv, ThreadsTyped
  <2>3. CASE LoopStep(w) /\ ~PollLane(w) /\ ~Return(w)
    <3>1. UNCHANGED deliveries
      BY <2>3 DEF LoopStep, ReadPending, PublishEvent, MarkDelivered, ReadCommand,
         ClaimCommand,
           LookUpStage, Operate, PutArtifact, RecordCheckpoint, CompleteCommand,
           ReadAfterFailure, FailCommand, RequeueMessage, AcknowledgeMessage, Broker!Publish,
           Broker!Retry, Broker!Acknowledge, brokerVars
    <3> QED
      BY <3>1
  <2> QED
    BY <2>1, <2>2, <2>3
<1>2. leases'[v] = leases[v]
  <2>1. CASE ClaimCommand(w)
    BY <2>1 DEF ClaimCommand, ClaimGranted, ClaimExhausted, ClaimPastDeadline,
         storeVars, LoopInv, TypeOK
  <2>2. CASE Return(w) \/ Crash(w)
    BY <2>2 DEF Return, Crash, Forget, LoopInv, TypeOK
  <2>3. CASE LoopStep(w) /\ ~ClaimCommand(w) /\ ~Return(w)
    <3>1. UNCHANGED leases
      BY <2>3 DEF LoopStep, ReadPending, PublishEvent, MarkDelivered, PollLane, ReadCommand,
           LookUpStage, Operate, PutArtifact, RecordCheckpoint, CompleteCommand,
           ReadAfterFailure, FailCommand, RequeueMessage, AcknowledgeMessage,
           RecordStage, Complete, Fail, storeVars
    <3> QED
      BY <3>1
  <2> QED
    BY <2>1, <2>2, <2>3
<1>3. pc'[v] = pc[v]
  <2>1. \E label : pc' = [pc EXCEPT ![w] = label]
    BY DEF LoopStep, ReadPending, PublishEvent, MarkDelivered, PollLane, ReadCommand,
         ClaimCommand, LookUpStage, Operate, PutArtifact, RecordCheckpoint, CompleteCommand,
         ReadAfterFailure, FailCommand, RequeueMessage, AcknowledgeMessage, Return, Crash,
         Forget, Goto, NextStage
  <2> QED
    BY <2>1 DEF LoopInv, ThreadsTyped
<1>4. /\ batch'[v] = batch[v] /\ stage'[v] = stage[v] /\ body'[v] = body[v]
  BY DEF LoopStep, ReadPending, PublishEvent, MarkDelivered, PollLane, ReadCommand,
       ClaimCommand, LookUpStage, Operate, PutArtifact, RecordCheckpoint, CompleteCommand,
       ReadAfterFailure, FailCommand, RequeueMessage, AcknowledgeMessage, Return, Crash,
       Forget, NextStage, threadVars, LoopInv, ThreadsTyped
<1>5. carried'[v] = carried[v]
  BY ZenonT(30) DEF LoopStep, ReadPending, PublishEvent, MarkDelivered, PollLane, ReadCommand,
       ClaimCommand, LookUpStage, Operate, PutArtifact, RecordCheckpoint, CompleteCommand,
       ReadAfterFailure, FailCommand, RequeueMessage, AcknowledgeMessage, Return, Crash,
       Forget, NextStage, threadVars, LoopInv, ThreadsTyped
<1> QED
  BY <1>1, <1>2, <1>3, <1>4, <1>5 DEF SameLocals

LEMMA KnowledgeStays ==
    ASSUME LoopInv, [LoopNext]_loopVars, NEW v \in Workers, SameLocals(v)
    PROVE  WorkerOK(v)'
<1>1. WorkerOK(v)
  BY DEF LoopInv, WorkersOK
<1>2. [Next]_vars
  BY StoreSteps DEF LoopInv
<1>3. pc[v] \in Dispatching => Head(batch[v]) \in Commands
  BY <1>1 DEF LoopInv, ThreadsTyped, WorkerOK
<1>4. pc'[v] = "publishing" => messages'[Head(batch'[v])].status # "ABSENT"
  BY <1>1, <1>3, MessageStays DEF SameLocals, WorkerOK, Dispatching
<1>5. pc[v] \in {"recording", "acking"} => CommandOf(v) \in Commands
  BY <1>1, DeliveryType DEF LoopInv, WorkerOK, BeforeDelivery, Dispatching
<1>6. CommandOf(v)' = CommandOf(v) /\ StageOf(v)' = StageOf(v)
  BY DEF SameLocals, CommandOf, StageOf
<1>7. pc'[v] = "recording" => artifacts'[CommandOf(v)'][StageOf(v)'] = body'[v]
  <2> SUFFICES ASSUME pc[v] = "recording"
               PROVE  artifacts'[CommandOf(v)][StageOf(v)] = body[v]
    BY <1>6 DEF SameLocals
  <2>1. /\ artifacts[CommandOf(v)][StageOf(v)] = body[v] /\ body[v] # NoOutput
        /\ CommandOf(v) \in Commands /\ StageOf(v) \in CheckpointStages
    BY <1>1, <1>5, StageIsCheckpoint, ParameterAssumption, NullAssumption DEF LoopInv, WorkerOK
  <2> QED
    BY <2>1, ArtifactStays
<1>8. pc'[v] = "acking" => Ended(CommandOf(v))'
  <2> SUFFICES ASSUME pc[v] = "acking"
               PROVE  Ended(CommandOf(v))'
    BY DEF SameLocals
  <2>1. PICK c \in Commands : c = CommandOf(v)
    BY <1>5
  <2>2. Ended(c)'
    BY <1>1, <1>2, <2>1, EndedStays DEF LoopInv, WorkerOK
  <2>3. CommandOf(v)' = c
    BY <1>6, <2>1
  <2> QED
    BY <2>2, <2>3 DEF Ended, Settled, KeyOf
<1>9. pc'[v] \in Dispatching => batch'[v] # <<>>
  BY <1>1 DEF SameLocals, WorkerOK
<1>10. pc'[v] \notin BeforeDelivery \union {"returning"} => deliveries'[v] # NoDelivery
  BY <1>1 DEF SameLocals, WorkerOK
<1>11. pc'[v] \in BeforeClaim => carried'[v] = NothingCarried
  BY <1>1 DEF SameLocals, WorkerOK
<1>12. carried'[v] # NothingCarried => deliveries'[v] # NoDelivery
  BY <1>1 DEF SameLocals, WorkerOK
<1>13. pc'[v] \in Executing => leases'[v] # NoLease /\ leases'[v].command = CommandOf(v)'
  BY <1>1, <1>6 DEF SameLocals, WorkerOK
<1>14. pc'[v] \in {"storing", "recording"} => body'[v] \in Outputs
  BY <1>1 DEF SameLocals, WorkerOK
<1>15. pc'[v] = "completing" => carried'[v][LastStage] \in Outputs
  BY <1>1 DEF SameLocals, WorkerOK
<1> QED
  BY <1>4, <1>7, <1>8, <1>9, <1>10, <1>11, <1>12, <1>13, <1>14, <1>15
     DEF WorkerOK, NothingCarried, LastStage, BeforeDelivery, BeforeClaim, Dispatching,
         Executing

----------------------------------------------------------------------------
(* What a worker knows after a step of its own, before it has a lease. *)
LEMMA DispatchStep ==
    ASSUME LoopInv, [LoopNext]_loopVars, NEW w \in Workers,
           ReadPending(w) \/ PublishEvent(w) \/ MarkDelivered(w)
    PROVE  WorkerOK(w)'
<1> USE DEF LoopInv
<1>1. CASE ReadPending(w)
  <2>1. PICK events \in SetToSeqs(Pending) : batch' = [batch EXCEPT ![w] = events]
    BY <1>1 DEF ReadPending
  <2>2. Pending # {} => batch'[w] # <<>>
    BY <2>1, PendingListed DEF ThreadsTyped
  <2>3. /\ pc'[w] = "polling" \/ pc'[w] = "dispatching"
        /\ pc'[w] = "dispatching" => Pending # {}
    BY <1>1 DEF ReadPending, Goto, ThreadsTyped
  <2>4. carried'[w] = NothingCarried
    BY <1>1 DEF ReadPending, At, WorkersOK, WorkerOK, BeforeClaim, BeforeDelivery
  <2> QED
    BY <2>2, <2>3, <2>4 DEF WorkerOK, NothingCarried, BeforeDelivery, BeforeClaim, Dispatching,
         Executing
<1>2. CASE PublishEvent(w)
  <2>1. /\ batch[w] # <<>> /\ Head(batch[w]) \in Commands /\ batch' = batch
        /\ carried[w] = NothingCarried /\ carried' = carried
        /\ pc'[w] = "publishing"
    BY <1>2 DEF PublishEvent, At, Goto, threadVars, ThreadsTyped, WorkersOK, WorkerOK,
         Dispatching, BeforeDelivery, BeforeClaim
  <2>2. messages'[Head(batch[w])].status # "ABSENT"
    <3>1. CASE messages[Head(batch[w])].status = "ABSENT"
      <4>1. PICK t \in Readings : Broker!Publish(Head(batch[w]), t)
        BY <1>2, <3>1 DEF PublishEvent
      <4>2. t \in Nat
        BY SameReadings, ReadingsAreTimes DEF TypeOK
      <4> QED
        BY <2>1, <4>1, <4>2, PublishMoves
    <3>2. CASE messages[Head(batch[w])].status # "ABSENT"
      BY <2>1, <3>2, MessageStays
    <3> QED
      BY <3>1, <3>2
  <2> QED
    BY <2>1, <2>2 DEF WorkerOK, NothingCarried, BeforeDelivery, BeforeClaim, Dispatching,
         Executing
<1>3. CASE MarkDelivered(w)
  <2>1. /\ batch[w] # <<>> /\ batch[w] \in Seq(Commands)
        /\ batch'[w] = Tail(batch[w])
        /\ carried[w] = NothingCarried /\ carried' = carried
        /\ pc'[w] = IF Len(batch[w]) = 1 THEN "polling" ELSE "dispatching"
    BY <1>3 DEF MarkDelivered, At, Goto, ThreadsTyped, WorkersOK, WorkerOK,
         Dispatching, BeforeDelivery, BeforeClaim
  <2>2. Len(batch[w]) # 1 => batch'[w] # <<>>
    <3>1. PICK events \in Seq(Commands) : events = batch[w] /\ events # <<>>
      BY <2>1
    <3>2. Len(events) \in Nat /\ Len(events) # 0
      BY <3>1
    <3>3. Tail(events) \in Seq(Commands) /\ Len(Tail(events)) = Len(events) - 1
      BY <3>1
    <3>4. Len(events) # 1 => Len(Tail(events)) # 0
      BY <3>2, <3>3
    <3>5. PICK rest \in Seq(Commands) : rest = Tail(events) /\ rest = batch'[w]
      BY <2>1, <3>1, <3>3
    <3>6. Len(rest) # 0 => rest # <<>>
      OBVIOUS
    <3> QED
      BY <3>1, <3>4, <3>5, <3>6
  <2> QED
    BY <2>1, <2>2 DEF WorkerOK, NothingCarried, BeforeDelivery, BeforeClaim, Dispatching,
         Executing
<1> QED
  BY <1>1, <1>2, <1>3

LEMMA DeliveryStep ==
    ASSUME LoopInv, [LoopNext]_loopVars, NEW w \in Workers,
           PollLane(w) \/ ReadCommand(w) \/ ClaimCommand(w) \/ Return(w) \/ Crash(w)
    PROVE  WorkerOK(w)'
<1> USE DEF LoopInv
<1>0. [Next]_vars
  BY StoreSteps
<1>1. CASE PollLane(w)
  <2>1. carried'[w] = NothingCarried
    BY <1>1 DEF PollLane, At, WorkersOK, WorkerOK, BeforeDelivery, BeforeClaim
  <2>2. \/ /\ deliveries'[w] # NoDelivery
           /\ pc'[w] = "received"
        \/ pc'[w] \in {"returning", "polling"}
    <3>1. PICK t \in Readings :
             \/ Broker!Claim(w, LanePriority[poll[w]], t) /\ Goto(w, "received")
             \/ Goto(w, "returning") \/ Goto(w, "polling")
      BY <1>1 DEF PollLane
    <3>2. t \in Nat
      BY SameReadings, ReadingsAreTimes DEF TypeOK
    <3>3. PICK lane : lane = LanePriority[poll[w]]
      OBVIOUS
    <3>4. Broker!Claim(w, lane, t) => deliveries'[w] # NoDelivery
      BY <3>2, ClaimMoves, RecordNullAssumption, WorkerAssumption, DeliveryAssumption
    <3> QED
      BY <3>1, <3>3, <3>4 DEF Goto, ThreadsTyped
  <2> QED
    BY <2>1, <2>2 DEF WorkerOK, NothingCarried, BeforeDelivery, BeforeClaim, Dispatching,
         Executing
<1>2. CASE ReadCommand(w)
  <2>1. /\ deliveries[w] # NoDelivery /\ deliveries' = deliveries
        /\ carried[w] = NothingCarried /\ carried' = carried
    BY <1>2 DEF ReadCommand, At, WorkersOK, WorkerOK, brokerVars, threadVars, BeforeDelivery,
         BeforeClaim, Dispatching
  <2>2. PICK c \in Commands : c = CommandOf(w)
    BY <2>1, DeliveryType
  <2>3. CommandOf(w)' = c
    BY <2>1, <2>2 DEF CommandOf
  <2>4. \/ pc'[w] = "claiming"
        \/ pc'[w] = "acking" /\ commands[c].status = "COMPLETED"
    BY <1>2, <2>2 DEF ReadCommand, Goto, ThreadsTyped
  <2>5. pc'[w] = "acking" => Ended(c)'
    BY <1>0, <2>4, CompletedEnded, EndedStays
  <2> QED
    BY <2>1, <2>3, <2>4, <2>5
       DEF WorkerOK, Ended, Settled, KeyOf, NothingCarried, BeforeDelivery, BeforeClaim,
           Dispatching, Executing
<1>3. CASE ClaimCommand(w)
  <2>1. deliveries[w] # NoDelivery /\ deliveries' = deliveries /\ CommandOf(w) \in Commands
    BY <1>3, DeliveryType DEF ClaimCommand, At, WorkersOK, WorkerOK, brokerVars, BeforeDelivery,
         Dispatching
  <2>2. carried'[w] = NothingCarried
    BY <1>3 DEF ClaimCommand, ThreadsTyped
  <2>3. CommandOf(w)' = CommandOf(w)
    BY <2>1 DEF CommandOf
  <2>4. \/ pc'[w] = "returning"
        \/ /\ pc'[w] = "checkpoint"
           /\ leases'[w] # NoLease /\ leases'[w].command = CommandOf(w)
    <3>1. PICK t \in Readings :
             \/ ClaimGranted(w, CommandOf(w), t) /\ Goto(w, "checkpoint")
             \/ Goto(w, "returning")
      BY <1>3 DEF ClaimCommand
    <3>2. CASE ClaimGranted(w, CommandOf(w), t) /\ Goto(w, "checkpoint")
      <4>1. leases'[w] = [command |-> CommandOf(w), owner |-> OwnerOf[w],
                          epoch |-> commands[CommandOf(w)].epoch + 1]
        BY <3>2 DEF ClaimGranted, TypeOK
      <4>2. commands[CommandOf(w)].epoch \in Nat /\ OwnerOf[w] \in Owners
        BY <2>1, ParameterAssumption, NullAssumption DEF TypeOK, CommandRow
      <4>3. leases'[w] \in Lease
        BY <2>1, <4>1, <4>2 DEF Lease
      <4> QED
        BY <3>2, <4>1, <4>3, RecordNullAssumption, WorkerAssumption, DeliveryAssumption DEF Goto, ThreadsTyped
    <3> QED
      BY <3>1, <3>2 DEF Goto, ThreadsTyped
  <2> QED
    BY <2>1, <2>2, <2>3, <2>4 DEF WorkerOK, NothingCarried, BeforeDelivery, BeforeClaim,
         Dispatching, Executing
<1>4. CASE Return(w) \/ Crash(w)
  <2>1. pc'[w] = "idle" /\ carried'[w] = NothingCarried
    BY <1>4 DEF Return, Crash, Forget, Goto, ThreadsTyped
  <2> QED
    BY <2>1 DEF WorkerOK, NothingCarried, BeforeDelivery, BeforeClaim, Dispatching, Executing
<1> QED
  BY <1>1, <1>2, <1>3, <1>4

(* What it knows while it executes the checkpoints and afterwards. *)
LEMMA ExecutionStep ==
    ASSUME LoopInv, [LoopNext]_loopVars, NEW w \in Workers,
           \/ LookUpStage(w) \/ Operate(w) \/ PutArtifact(w) \/ RecordCheckpoint(w)
           \/ CompleteCommand(w) \/ ReadAfterFailure(w) \/ FailCommand(w)
           \/ RequeueMessage(w) \/ AcknowledgeMessage(w)
    PROVE  WorkerOK(w)'
<1> USE DEF LoopInv
<1>0. [Next]_vars
  BY StoreSteps
<1>1. WorkerOK(w)
  BY DEF WorkersOK
<1>2. pc[w] \in PC /\ pc[w] \notin BeforeDelivery \union {"returning"}
  BY DEF LookUpStage, Operate, PutArtifact, RecordCheckpoint, CompleteCommand, ReadAfterFailure,
       FailCommand, RequeueMessage, AcknowledgeMessage, At, PC, BeforeDelivery, Dispatching
<1>3. deliveries[w] # NoDelivery /\ CommandOf(w) \in Commands
  BY <1>1, <1>2, DeliveryType DEF WorkerOK
<1>4. UNCHANGED <<deliveries, batch>>
  BY DEF LookUpStage, Operate, PutArtifact, RecordCheckpoint, CompleteCommand, ReadAfterFailure,
       FailCommand, RequeueMessage, AcknowledgeMessage, Broker!Retry, Broker!Acknowledge,
       brokerVars, threadVars
<1>5. PICK c \in Commands : c = CommandOf(w) /\ c = CommandOf(w)'
  BY <1>3, <1>4 DEF CommandOf
<1>6. ASSUME pc[w] \in Executing, UNCHANGED leases
      PROVE  leases'[w] # NoLease /\ leases'[w].command = c
  BY <1>1, <1>5, <1>6 DEF WorkerOK
<1>7. ASSUME pc'[w] \in {"checkpoint", "operating"}, leases'[w] # NoLease,
             leases'[w].command = c
      PROVE  WorkerOK(w)'
  BY <1>3, <1>4, <1>5, <1>7 DEF WorkerOK, BeforeDelivery, BeforeClaim, Dispatching, Executing
<1>8. ASSUME pc'[w] \in {"failing", "retrying", "requeueing", "returning"}
      PROVE  WorkerOK(w)'
  BY <1>3, <1>4, <1>8 DEF WorkerOK, BeforeDelivery, BeforeClaim, Dispatching, Executing
<1>9. ASSUME pc'[w] = "acking", Ended(c)' PROVE WorkerOK(w)'
  BY <1>3, <1>4, <1>5, <1>9
     DEF WorkerOK, Ended, Settled, KeyOf, BeforeDelivery, BeforeClaim, Dispatching, Executing
<1>10. ASSUME NEW o \in Outputs, NextStage(w, o), leases'[w] # NoLease, leases'[w].command = c
       PROVE  WorkerOK(w)'
  <2>1. CASE pc'[w] = "checkpoint"
    BY <1>7, <1>10, <2>1
  <2>2. CASE pc'[w] = "completing" /\ StageOf(w) = LastStage
    <3>1. carried'[w][LastStage] \in Outputs
      BY <1>10, <2>2, NextStageType
    <3> QED
      BY <1>3, <1>4, <1>5, <1>10, <2>2, <3>1
         DEF WorkerOK, LastStage, BeforeDelivery, BeforeClaim, Dispatching, Executing
  <2> QED
    BY <1>10, <2>1, <2>2, NextStageType
<1>11. CASE LookUpStage(w)
  <2> DEFINE stored == results[KeyOf(CommandOf(w), StageOf(w))]
  <2>1. leases'[w] # NoLease /\ leases'[w].command = c
    BY <1>6, <1>11 DEF LookUpStage, At, Executing, storeVars
  <2>2. CASE stored = NoResult
    <3>1. pc'[w] = "operating"
      BY <1>11, <2>2 DEF LookUpStage, Goto, ThreadsTyped
    <3> QED
      BY <1>7, <2>1, <3>1
  <2>3. CASE stored # NoResult
    <3>1. stored.checksum \in Outputs
      BY <1>3, <2>3, KeyType, StageIsCheckpoint, StoredType
    <3>2. NextStage(w, stored.checksum)
      BY <1>11, <2>3 DEF LookUpStage
    <3> QED
      BY <1>10, <2>1, <3>1, <3>2
  <2> QED
    BY <2>2, <2>3
<1>12. CASE Operate(w)
  <2>1. leases'[w] # NoLease /\ leases'[w].command = c
    BY <1>6, <1>12 DEF Operate, At, Executing, storeVars
  <2>2. \/ pc'[w] = "storing" /\ body'[w] \in Outputs
        \/ pc'[w] = "failing"
    BY <1>12 DEF Operate, Goto, ThreadsTyped
  <2>3. CASE pc'[w] = "storing" /\ body'[w] \in Outputs
    BY <1>3, <1>4, <1>5, <2>1, <2>3
       DEF WorkerOK, BeforeDelivery, BeforeClaim, Dispatching, Executing
  <2>4. CASE pc'[w] = "failing"
    BY <1>8, <2>4
  <2> QED
    BY <2>2, <2>3, <2>4
<1>13. CASE PutArtifact(w)
  <2>1. leases'[w] # NoLease /\ leases'[w].command = c
    BY <1>6, <1>13 DEF PutArtifact, At, Executing, storeVars
  <2>2. body[w] \in Outputs /\ UNCHANGED <<body, stage>>
    BY <1>1, <1>13 DEF PutArtifact, At, WorkerOK, threadVars
  <2>3. StageOf(w) \in CheckpointStages /\ StageOf(w)' = StageOf(w)
    BY <2>2, StageIsCheckpoint DEF StageOf
  <2>4. \/ /\ pc'[w] = "recording"
           /\ artifacts' = [artifacts EXCEPT ![c][StageOf(w)] = body[w]]
        \/ pc'[w] = "failing"
    BY <1>5, <1>13 DEF PutArtifact, Goto, ThreadsTyped
  <2>5. CASE /\ pc'[w] = "recording"
             /\ artifacts' = [artifacts EXCEPT ![c][StageOf(w)] = body[w]]
    <3>1. artifacts'[c][StageOf(w)] = body[w]
      BY <2>3, <2>5 DEF ThreadsTyped
    <3> QED
      BY <1>3, <1>4, <1>5, <2>1, <2>2, <2>3, <2>5, <3>1
         DEF WorkerOK, BeforeDelivery, BeforeClaim, Dispatching, Executing
  <2>6. CASE pc'[w] = "failing"
    BY <1>8, <2>6
  <2> QED
    BY <2>4, <2>5, <2>6
<1>14. CASE RecordCheckpoint(w)
  <2>1. leases'[w] # NoLease /\ leases'[w].command = c
    BY <1>6, <1>14 DEF RecordCheckpoint, At, Executing, RecordStage, storeVars
  <2>2. body[w] \in Outputs
    BY <1>1, <1>14 DEF RecordCheckpoint, At, WorkerOK
  <2>3. NextStage(w, body[w]) \/ Goto(w, "failing")
    BY <1>14 DEF RecordCheckpoint
  <2> QED
    BY <1>8, <1>10, <2>1, <2>2, <2>3 DEF Goto, ThreadsTyped
<1>15. CASE CompleteCommand(w)
  <2>1. PICK t \in Readings :
           \/ Complete(w, carried[w][LastStage], t) /\ Goto(w, "acking")
           \/ /\ CompleteReplayed(w, carried[w][LastStage]) /\ Goto(w, "acking")
              /\ UNCHANGED storeVars
           \/ Goto(w, "failing")
    BY <1>15 DEF CompleteCommand
  <2>2. leases[w].command = c /\ leases[w] # NoLease
    BY <1>1, <1>5, <1>15 DEF CompleteCommand, At, WorkerOK, Executing
  <2>3. CASE Complete(w, carried[w][LastStage], t) /\ Goto(w, "acking")
    <3>1. commands'[c].status = "COMPLETED"
      <4>1. PICK row \in CommandRow : row = Settle(commands[c], "COMPLETED")
        BY SettleRow DEF TypeOK, CommandStatus
      <4>2. row.status = "COMPLETED"
        BY <4>1, SettleRow DEF TypeOK, CommandStatus
      <4>3. commands'[c] = [row EXCEPT !.output = carried[w][LastStage]]
        BY <2>2, <2>3, <4>1 DEF Complete, TypeOK
      <4> QED
        BY <4>2, <4>3 DEF CommandRow
    <3>2. CompletedOutputIsRecorded'
      BY <1>0, CompletedStep
    <3>3. Ended(c)'
      BY <3>1, <3>2 DEF CompletedOutputIsRecorded, Ended, Settled, KeyOf
    <3> QED
      BY <1>9, <2>3, <3>3 DEF Goto, ThreadsTyped
  <2>4. CASE CompleteReplayed(w, carried[w][LastStage]) /\ Goto(w, "acking")
    <3>1. commands[c].status = "COMPLETED"
      BY <2>2, <2>4 DEF CompleteReplayed
    <3>2. Ended(c)'
      BY <1>0, <3>1, CompletedEnded, EndedStays
    <3> QED
      BY <1>9, <2>4, <3>2 DEF Goto, ThreadsTyped
  <2>5. CASE Goto(w, "failing")
    BY <1>8, <2>5 DEF Goto, ThreadsTyped
  <2> QED
    BY <2>1, <2>3, <2>4, <2>5
<1>16. CASE \/ ReadAfterFailure(w) \/ FailCommand(w) \/ RequeueMessage(w)
            \/ AcknowledgeMessage(w)
  <2>1. pc'[w] \in {"retrying", "requeueing", "returning"}
    BY <1>16 DEF ReadAfterFailure, FailCommand, RequeueMessage, AcknowledgeMessage, Goto,
         ThreadsTyped
  <2> QED
    BY <1>8, <2>1
<1> QED
  BY <1>11, <1>12, <1>13, <1>14, <1>15, <1>16

LEMMA WorkersStep ==
    ASSUME LoopInv, [LoopNext]_loopVars
    PROVE  WorkersOK'
<1> SUFFICES ASSUME NEW v \in Workers PROVE WorkerOK(v)'
  BY DEF WorkersOK
<1>1. ASSUME NEW w \in Workers, LoopStep(w) \/ Crash(w) PROVE WorkerOK(v)'
  <2>1. CASE v = w
    BY <1>1, <2>1, DispatchStep, DeliveryStep, ExecutionStep DEF LoopStep
  <2>2. CASE v # w
    BY <1>1, <2>2, OthersKept, KnowledgeStays
  <2> QED
    BY <2>1, <2>2
<1>2. CASE (\E c \in Commands : Accept(c)) \/ LoopTick \/ UNCHANGED loopVars
  <2>1. SameLocals(v)
    BY <1>2 DEF Accept, Submit, LoopTick, loopVars, storeVars, brokerVars, threadVars, SameLocals
  <2> QED
    BY <2>1, KnowledgeStays
<1> QED
  BY <1>1, <1>2 DEF LoopNext

----------------------------------------------------------------------------
(* record_stage of the lease a worker holds stores its output under the    *)
(* key of its command and stage, and nothing else.                         *)
LEMMA RecordedNow ==
    ASSUME TypeOK, ThreadsTyped, NEW w \in Workers, body[w] \in Outputs,
           leases[w].command = CommandOf(w), CommandOf(w) \in Commands,
           NEW t \in Readings, RecordStage(w, StageOf(w), body[w], t)
    PROVE  LET key == KeyOf(CommandOf(w), StageOf(w))
           IN  /\ results'[key] # NoResult
               /\ results'[key].command = CommandOf(w)
               /\ results'[key].checksum = body[w]
               /\ \A k \in StageKeys : k # key => results'[k] = results[k]
<1> DEFINE key == KeyOf(CommandOf(w), StageOf(w))
           row == [command |-> CommandOf(w), checksum |-> body[w], epoch |-> leases[w].epoch]
<1>1. leases[w] \in Lease
  BY LeaseType DEF RecordStage
<1>2. row \in StageResult
  BY <1>1 DEF Lease, StageResult
<1>3. key \in StageKeys /\ KeyOf(leases[w].command, StageOf(w)) = key
  BY KeyType, StageIsCheckpoint
<1>4. results[key] = NoResult /\ results' = StoreResult(key, leases[w], body[w])
  BY <1>3 DEF RecordStage
<1>5. results' = [results EXCEPT ![key] = row]
  BY <1>4 DEF StoreResult
<1> HIDE DEF key
<1>6. results'[key] = row /\ \A k \in StageKeys : k # key => results'[k] = results[k]
  BY <1>3, <1>5 DEF TypeOK
<1> QED
  BY <1>2, <1>6, RecordNullAssumption, WorkerAssumption, DeliveryAssumption DEF key

----------------------------------------------------------------------------
(* The outputs a worker carries are recorded: a stored output stays, and   *)
(* what NextStage adds has just been found or recorded.                    *)
CarriedOK(w) ==
    \A s \in CheckpointStages :
        carried[w][s] # NoOutput =>
            LET stored == results[KeyOf(CommandOf(w), s)]
            IN  stored # NoResult /\ stored.checksum = carried[w][s]

LEMMA CarriedStays ==
    ASSUME LoopInv, [LoopNext]_loopVars, NEW w \in Workers, NEW s \in CheckpointStages,
           carried[w][s] # NoOutput
    PROVE  /\ CommandOf(w) \in Commands
           /\ results'[KeyOf(CommandOf(w), s)] = results[KeyOf(CommandOf(w), s)]
           /\ results[KeyOf(CommandOf(w), s)] # NoResult
           /\ results[KeyOf(CommandOf(w), s)].checksum = carried[w][s]
<1>1. carried[w] # NothingCarried
  BY DEF NothingCarried
<1>2. CommandOf(w) \in Commands
  BY <1>1, DeliveryType DEF LoopInv, WorkersOK, WorkerOK
<1>3. KeyOf(CommandOf(w), s) \in StageKeys
  BY <1>2, KeyType DEF StageNames
<1>4. /\ results[KeyOf(CommandOf(w), s)] # NoResult
      /\ results[KeyOf(CommandOf(w), s)].checksum = carried[w][s]
  BY DEF LoopInv, CarriedIsRecorded
<1> QED
  BY <1>2, <1>3, <1>4, StoreSteps, RecordedStays DEF LoopInv

LEMMA CarriedKept ==
    ASSUME LoopInv, [LoopNext]_loopVars, NEW w \in Workers,
           carried'[w] = carried[w], deliveries'[w] = deliveries[w]
    PROVE  CarriedOK(w)'
<1> SUFFICES ASSUME NEW s \in CheckpointStages, carried[w][s] # NoOutput
             PROVE  /\ results'[KeyOf(CommandOf(w), s)] # NoResult
                    /\ results'[KeyOf(CommandOf(w), s)].checksum = carried[w][s]
  BY DEF CarriedOK, CommandOf, KeyOf
<1> QED
  BY CarriedStays

LEMMA CarriedNext ==
    ASSUME LoopInv, [LoopNext]_loopVars, NEW w \in Workers, NEW o \in Outputs, NextStage(w, o),
           deliveries'[w] = deliveries[w],
           results'[KeyOf(CommandOf(w), StageOf(w))] # NoResult,
           results'[KeyOf(CommandOf(w), StageOf(w))].checksum = o
    PROVE  CarriedOK(w)'
<1> SUFFICES ASSUME NEW s \in CheckpointStages, carried'[w][s] # NoOutput
             PROVE  /\ results'[KeyOf(CommandOf(w), s)] # NoResult
                    /\ results'[KeyOf(CommandOf(w), s)].checksum = carried'[w][s]
  BY DEF CarriedOK, CommandOf, KeyOf
<1>1. CASE s = StageOf(w)
  BY <1>1, NextStageType DEF LoopInv
<1>2. CASE s # StageOf(w)
  <2>1. carried'[w][s] = carried[w][s]
    BY <1>2, NextStageType DEF LoopInv
  <2> QED
    BY <2>1, CarriedStays
<1> QED
  BY <1>1, <1>2

LEMMA CarriedStep ==
    ASSUME LoopInv, [LoopNext]_loopVars
    PROVE  CarriedIsRecorded'
<1> SUFFICES ASSUME NEW v \in Workers PROVE CarriedOK(v)'
  BY DEF CarriedIsRecorded, CarriedOK, CommandOf, KeyOf
<1>0. [Next]_vars
  BY StoreSteps DEF LoopInv
<1>1. ASSUME carried'[v] = NothingCarried PROVE CarriedOK(v)'
  BY <1>1 DEF CarriedOK, NothingCarried
<1>2. ASSUME NEW w \in Workers, v # w, LoopStep(w) \/ Crash(w) PROVE CarriedOK(v)'
  <2>1. carried'[v] = carried[v] /\ deliveries'[v] = deliveries[v]
    BY <1>2, OthersKept DEF SameLocals
  <2> QED
    BY <2>1, CarriedKept
<1>3. CASE (\E c \in Commands : Accept(c)) \/ LoopTick \/ UNCHANGED loopVars
  <2>1. UNCHANGED <<carried, deliveries>>
    BY <1>3 DEF Accept, LoopTick, loopVars, brokerVars, threadVars
  <2> QED
    BY <2>1, CarriedKept
<1>4. CASE ReadPending(v) \/ PublishEvent(v) \/ MarkDelivered(v) \/ PollLane(v)
  <2>1. carried[v] = NothingCarried /\ carried' = carried
    BY <1>4 DEF ReadPending, PublishEvent, MarkDelivered, PollLane, At, threadVars, LoopInv,
         WorkersOK, WorkerOK, BeforeClaim, BeforeDelivery, Dispatching
  <2> QED
    BY <1>1, <2>1
<1>5. CASE ClaimCommand(v) \/ Return(v) \/ Crash(v)
  <2>1. carried'[v] = NothingCarried
    BY <1>5 DEF ClaimCommand, Return, Crash, Forget, LoopInv, ThreadsTyped
  <2> QED
    BY <1>1, <2>1
<1>6. CASE \/ ReadCommand(v) \/ Operate(v) \/ PutArtifact(v) \/ CompleteCommand(v)
           \/ ReadAfterFailure(v) \/ FailCommand(v) \/ RequeueMessage(v) \/ AcknowledgeMessage(v)
  <2>1. UNCHANGED <<carried, deliveries>>
    BY <1>6 DEF ReadCommand, Operate, PutArtifact, CompleteCommand, ReadAfterFailure,
       FailCommand,
         RequeueMessage, AcknowledgeMessage, Broker!Retry, Broker!Acknowledge, brokerVars, threadVars
  <2> QED
    BY <2>1, CarriedKept
<1>7. ASSUME pc[v] \in Executing
      PROVE  /\ deliveries[v] # NoDelivery /\ CommandOf(v) \in Commands
             /\ KeyOf(CommandOf(v), StageOf(v)) \in StageKeys
             /\ leases[v] # NoLease /\ leases[v].command = CommandOf(v)
  <2>1. /\ deliveries[v] # NoDelivery
        /\ leases[v] # NoLease /\ leases[v].command = CommandOf(v)
    BY <1>7 DEF LoopInv, WorkersOK, WorkerOK, Executing, BeforeDelivery, Dispatching
  <2> QED
    BY <2>1, DeliveryType, KeyType, StageIsCheckpoint DEF LoopInv
<1>8. CASE LookUpStage(v)
  <2> DEFINE key == KeyOf(CommandOf(v), StageOf(v))
             stored == results[key]
  <2>1. key \in StageKeys
    BY <1>7, <1>8 DEF LookUpStage, At, Executing
  <2>2. UNCHANGED deliveries
    BY <1>8 DEF LookUpStage, brokerVars
  <2>3. CASE stored = NoResult
    <3>1. UNCHANGED carried
      BY <1>8, <2>3 DEF LookUpStage
    <3> QED
      BY <2>2, <3>1, CarriedKept
  <2>4. CASE stored # NoResult
    <3>1. stored.checksum \in Outputs
      BY <2>1, <2>4, StoredType DEF LoopInv
    <3>2. NextStage(v, stored.checksum)
      BY <1>8, <2>4 DEF LookUpStage
    <3>3. results'[key] = stored
      BY <1>0, <2>1, <2>4, RecordedStays DEF LoopInv
    <3> QED
      BY <2>2, <2>4, <3>1, <3>2, <3>3, CarriedNext
  <2> QED
    BY <2>3, <2>4
<1>9. CASE RecordCheckpoint(v)
  <2> DEFINE key == KeyOf(CommandOf(v), StageOf(v))
  <2>1. /\ key \in StageKeys /\ CommandOf(v) \in Commands
        /\ leases[v] # NoLease /\ leases[v].command = CommandOf(v)
    BY <1>7, <1>9 DEF RecordCheckpoint, At, Executing
  <2>2. UNCHANGED deliveries
    BY <1>9 DEF RecordCheckpoint, brokerVars
  <2>3. body[v] \in Outputs
    BY <1>9 DEF RecordCheckpoint, At, LoopInv, WorkersOK, WorkerOK
  <2>4. PICK t \in Readings :
           \/ RecordStage(v, StageOf(v), body[v], t) /\ NextStage(v, body[v])
           \/ SameResult(results[key], body[v]) /\ NextStage(v, body[v])
           \/ UNCHANGED carried
    BY <1>9 DEF RecordCheckpoint
  <2>5. CASE UNCHANGED carried
    BY <2>2, <2>5, CarriedKept
  <2>6. CASE SameResult(results[key], body[v]) /\ NextStage(v, body[v])
    <3>1. results'[key] = results[key]
      BY <1>0, <2>1, <2>6, RecordedStays DEF LoopInv, SameResult
    <3> QED
      BY <2>2, <2>3, <2>6, <3>1, CarriedNext DEF SameResult
  <2>7. CASE RecordStage(v, StageOf(v), body[v], t) /\ NextStage(v, body[v])
    <3>1. results'[key] # NoResult /\ results'[key].checksum = body[v]
      BY <2>1, <2>3, <2>7, RecordedNow DEF LoopInv
    <3> QED
      BY <2>2, <2>3, <2>7, <3>1, CarriedNext
  <2> QED
    BY <2>4, <2>5, <2>6, <2>7
<1> QED
  BY <1>2, <1>3, <1>4, <1>5, <1>6, <1>8, <1>9 DEF LoopNext, LoopStep

----------------------------------------------------------------------------
(* The artifacts of the recorded checkpoints. *)
LEMMA ArtifactStep ==
    ASSUME LoopInv, [LoopNext]_loopVars
    PROVE  ResultHasArtifact'
<1> SUFFICES ASSUME NEW c \in Commands, NEW s \in CheckpointStages,
                    results'[KeyOf(c, s)] # NoResult
             PROVE  artifacts'[results'[KeyOf(c, s)].command][s] = results'[KeyOf(c, s)].checksum
  BY DEF ResultHasArtifact, KeyOf
<1> DEFINE key == KeyOf(c, s)
<1>0. [Next]_vars
  BY StoreSteps DEF LoopInv
<1>1. key \in StageKeys /\ key[2] = s
  BY KeyType DEF StageNames, KeyOf
<1>2. CASE results[key] # NoResult
  <2>1. results'[key] = results[key]
    BY <1>0, <1>1, <1>2, RecordedStays DEF LoopInv
  <2>2. results[key].command \in Commands /\ results[key].checksum \in Outputs
    BY <1>1, <1>2, StoredType DEF LoopInv
  <2>3. artifacts[results[key].command][s] = results[key].checksum
    BY <1>2 DEF LoopInv, ResultHasArtifact
  <2>4. artifacts'[results[key].command][s] = artifacts[results[key].command][s]
    BY <2>2, <2>3, ArtifactStays, ParameterAssumption, NullAssumption
  <2> QED
    BY <2>1, <2>3, <2>4
<1>3. CASE results[key] = NoResult
  <2>1. results'[key] # results[key]
    BY <1>3
  <2>2. ASSUME UNCHANGED results PROVE FALSE
    BY <2>1, <2>2
  <2>3. ASSUME NEW w \in Workers, RecordCheckpoint(w)
        PROVE  artifacts'[results'[key].command][s] = results'[key].checksum
    <3>1. /\ body[w] \in Outputs /\ deliveries[w] # NoDelivery
          /\ leases[w].command = CommandOf(w)
          /\ artifacts[CommandOf(w)][StageOf(w)] = body[w]
      BY <2>3 DEF RecordCheckpoint, At, LoopInv, WorkersOK, WorkerOK, Executing, BeforeDelivery,
           Dispatching
    <3>2. PICK t \in Readings : RecordStage(w, StageOf(w), body[w], t)
      BY <2>2, <2>3 DEF RecordCheckpoint, storeVars
    <3>3. CommandOf(w) \in Commands
      BY <3>1, DeliveryType DEF LoopInv
    <3>4. /\ results'[KeyOf(CommandOf(w), StageOf(w))].command = CommandOf(w)
          /\ results'[KeyOf(CommandOf(w), StageOf(w))].checksum = body[w]
          /\ key = KeyOf(CommandOf(w), StageOf(w))
      BY <1>1, <2>1, <3>1, <3>2, <3>3, RecordedNow DEF LoopInv
    <3>5. s = StageOf(w)
      BY <1>1, <3>4 DEF KeyOf
    <3>6. UNCHANGED artifacts
      BY <2>3 DEF RecordCheckpoint
    <3> QED
      BY <3>1, <3>4, <3>5, <3>6
  <2>4. ASSUME NEW w \in Workers, CompleteCommand(w) PROVE FALSE
    <3>1. PICK t \in Readings : Complete(w, carried[w][LastStage], t)
      BY <2>2, <2>4 DEF CompleteCommand, storeVars
    <3>2. carried[w][LastStage] \in Outputs
      BY <2>4 DEF CompleteCommand, At, LoopInv, WorkersOK, WorkerOK
    <3>3. leases[w] \in Lease
      BY <3>1, LeaseType DEF LoopInv, Complete
    <3>4. PICK other \in StageKeys :
             /\ other = KeyOf(leases[w].command, WorkflowStage)
             /\ results' = StoreResult(other, leases[w], carried[w][LastStage])
      BY <3>1, <3>3, KeyType DEF Complete, Lease, StageNames
    <3>5. key # other
      BY <1>1, <3>4, RecordNullAssumption, WorkerAssumption, DeliveryAssumption DEF KeyOf
    <3>6. PICK l \in Lease, o \in Outputs : results' = StoreResult(other, l, o)
      BY <3>2, <3>3, <3>4
    <3>7. results \in [StageKeys -> StageResult \union {NoResult}]
      BY DEF LoopInv, TypeOK
    <3> HIDE DEF key
    <3>8. results' = results \/ \E row : results' = [results EXCEPT ![other] = row]
      BY <3>6 DEF StoreResult
    <3>9. results'[key] = results[key]
      BY <1>1, <3>5, <3>7, <3>8
    <3> QED
      BY <2>1, <3>9
  <2>5. ASSUME NEW w \in Workers, LoopStep(w) \/ Crash(w), ~RecordCheckpoint(w),
               ~CompleteCommand(w)
        PROVE  UNCHANGED results
    BY <2>5 DEF LoopStep, ReadPending, PublishEvent, MarkDelivered, PollLane, ReadCommand,
         ClaimCommand, LookUpStage, Operate, PutArtifact, ReadAfterFailure, FailCommand,
         RequeueMessage, AcknowledgeMessage, Return, Crash, Forget, ClaimGranted,
         ClaimExhausted, ClaimPastDeadline, Fail, storeVars
  <2>6. CASE (\E d \in Commands : Accept(d)) \/ LoopTick \/ UNCHANGED loopVars
    BY <2>2, <2>6 DEF Accept, Submit, LoopTick, loopVars, storeVars
  <2> QED
    BY <2>2, <2>3, <2>4, <2>5, <2>6 DEF LoopNext
<1> QED
  BY <1>2, <1>3

----------------------------------------------------------------------------
LEMMA LoopStarts == LoopInit => LoopInv
<1> SUFFICES ASSUME LoopInit PROVE LoopInv
  OBVIOUS
<1>1. Init /\ Broker!Init
  BY DEF LoopInit
<1>2. TypeOK /\ CompletedOutputIsRecorded
  BY <1>1, ParameterAssumption, NullAssumption
     DEF Init, TypeOK, CompletedOutputIsRecorded, CommandRow,
         CommandStatus, AttemptRow, AttemptStatus
<1>3. /\ NothingCarried \in [CheckpointStages -> Outputs \union {NoOutput}]
      /\ 1 \in DOMAIN StageOrder /\ 1 \in DOMAIN LanePriority
      /\ <<>> \in Seq(Commands)
  <2>1. NothingCarried \in [CheckpointStages -> Outputs \union {NoOutput}]
    BY DEF NothingCarried
  <2>2. /\ StageOrder \in Seq(STRING) /\ StageOrder # <<>>
        /\ LanePriority \in Seq(Lanes) /\ LanePriority # <<>>
    BY WorkerAssumption
  <2>3. Len(StageOrder) >= 1 /\ DOMAIN StageOrder = 1..Len(StageOrder)
    BY <2>2
  <2>4. Len(LanePriority) >= 1 /\ DOMAIN LanePriority = 1..Len(LanePriority)
    BY <2>2
  <2>5. <<>> \in Seq(Commands)
    OBVIOUS
  <2>6. 1 \in DOMAIN StageOrder
    BY <2>3
  <2>7. 1 \in DOMAIN LanePriority
    BY <2>4
  <2> QED
    BY <2>1, <2>5, <2>6, <2>7
<1>4. messages \in [Commands -> QueueRow] /\ \A c \in Commands : messages[c].status = "ABSENT"
  BY <1>1 DEF Broker!Init, QueueRow, Broker!MessageStatus, Broker!NoTime
<1>5. ThreadsTyped
  BY <1>1, <1>3, <1>4 DEF LoopInit, Broker!Init, ThreadsTyped, PC
<1>6. EventsOK
  <2>1. \A c \in Commands : commands[c].status = "ABSENT" /\ outbox[c].status = "ABSENT"
    <3>1. \A c \in Commands : commands[c].status = "ABSENT"
      BY <1>1 DEF Init
    <3>2. \A c \in Commands : outbox[c].status = "ABSENT"
      <4>1. outbox = [c \in Commands |-> [status |-> "ABSENT", available |-> 0]]
        BY DEF LoopInit
      <4> QED
        BY <4>1
    <3> QED
      BY <3>1, <3>2
  <2> QED
    BY <1>4, <2>1 DEF EventsOK
<1>7. WorkersOK
  BY DEF LoopInit, WorkersOK, WorkerOK, BeforeDelivery, BeforeClaim, Dispatching, Executing
<1>8. CarriedIsRecorded
  BY DEF LoopInit, CarriedIsRecorded, NothingCarried
<1>9. ResultHasArtifact
  <2>1. ASSUME NEW c \in Commands, NEW s \in CheckpointStages
        PROVE results[KeyOf(c, s)] = NoResult
    BY <1>1, KeyType DEF Init, StageNames
  <2> QED
    BY <2>1 DEF ResultHasArtifact
<1> QED
  BY <1>2, <1>5, <1>6, <1>7, <1>8, <1>9 DEF LoopInv

LEMMA LoopGoesOn ==
    ASSUME LoopInv, [LoopNext]_loopVars
    PROVE  LoopInv'
<1>1. TypeOK' /\ CompletedOutputIsRecorded'
  BY StoreSteps, TypeStep, CompletedStep DEF LoopInv
<1> QED
  BY <1>1, ThreadsStep, EventsStep, WorkersStep, CarriedStep, ArtifactStep DEF LoopInv

LEMMA LoopHolds == LoopSpec => []LoopInv
BY LoopStarts, LoopGoesOn, PTL DEF LoopSpec

(* The composition runs the store by its own rules: through every          *)
(* interleaving, failure and crash of the worker loop, the tables of the   *)
(* store take only steps of CommandStore.                                  *)
THEOREM LoopRunsStore == LoopSpec => Spec
<1>1. LoopInit => Init
  BY DEF LoopInit
<1>2. ASSUME LoopInv, [LoopNext]_loopVars PROVE [Next]_vars
  BY <1>2, StoreSteps DEF LoopInv
<1> QED
  BY <1>1, <1>2, LoopHolds, PTL DEF LoopSpec, Spec

(* ... so the fencing the store promises holds inside the worker loop: one *)
(* active lease of a command, the attempts told, the one output reported.  *)
THEOREM LoopTablesAgree == LoopSpec => []LedgersAgree
BY LoopRunsStore, TablesAgree, PTL

(* The composition runs the queue by its own rules too: publication,       *)
(* claims, sweeps, retries, acknowledgements and what a crash drops are    *)
(* steps of LaneBroker, without supersession and redrives.                 *)
THEOREM LoopRunsQueue == LoopSpec => Broker!Spec
<1> USE SameReadings
<1>1. LoopInit => Broker!Init
  BY DEF LoopInit
<1>2. ASSUME LoopInv, [LoopNext]_loopVars PROVE [Broker!Next]_(Broker!vars)
  <2> USE <1>2 DEF LoopInv
  <2>1. ASSUME UNCHANGED brokerVars, UNCHANGED now PROVE UNCHANGED Broker!vars
    BY <2>1 DEF brokerVars, Broker!vars
  <2>2. ASSUME NEW w \in Workers, PublishEvent(w) PROVE [Broker!Next]_(Broker!vars)
    <3>1. PICK c \in Commands : c = Head(batch[w])
      BY <2>2 DEF PublishEvent, At, ThreadsTyped, WorkersOK, WorkerOK, Dispatching
    <3>2. CASE \E t \in Readings : Broker!Publish(c, t)
      BY <3>2 DEF Broker!Next
    <3> QED
      BY <2>1, <2>2, <3>1, <3>2 DEF PublishEvent
  <2>3. ASSUME NEW w \in Workers, PollLane(w) PROVE Broker!Next
    <3>1. PICK lane \in Lanes : lane = LanePriority[poll[w]]
      BY WorkerAssumption DEF ThreadsTyped
    <3>2. PICK t \in Readings : Broker!Claim(w, lane, t) \/ Broker!ClaimNothing(lane, t)
      BY <2>3, <3>1 DEF PollLane
    <3>3. CASE Broker!Claim(w, lane, t)
      <4>1. Broker!ReceiverStep(w, t)
        BY <3>3 DEF Broker!ReceiverStep
      <4> QED
        BY <4>1 DEF Broker!Next
    <3>4. CASE Broker!ClaimNothing(lane, t)
      BY <3>4 DEF Broker!Next
    <3> QED
      BY <3>2, <3>3, <3>4
  <2>4. ASSUME NEW w \in Workers, RequeueMessage(w) \/ AcknowledgeMessage(w)
        PROVE  [Broker!Next]_(Broker!vars)
    <3>1. PICK t \in Readings :
             \/ Broker!Retry(w, t, t) \/ Broker!Acknowledge(w, t)
             \/ UNCHANGED <<brokerVars, now>>
      BY <2>4 DEF RequeueMessage, AcknowledgeMessage
    <3>2. CASE Broker!Retry(w, t, t) \/ Broker!Acknowledge(w, t)
      <4>1. Broker!ReceiverStep(w, t)
        BY <3>2 DEF Broker!ReceiverStep
      <4> QED
        BY <4>1 DEF Broker!Next
    <3> QED
      BY <2>1, <3>1, <3>2
  <2>5. ASSUME NEW w \in Workers, Return(w) \/ Crash(w) PROVE [Broker!Next]_(Broker!vars)
    <3>1. /\ deliveries' = [deliveries EXCEPT ![w] = NoDelivery]
          /\ UNCHANGED <<messages, claimOrder, redrives, now>>
      BY <2>5 DEF Return, Crash, Forget
    <3>2. CASE deliveries[w] = NoDelivery
      <4>1. deliveries' = deliveries
        BY <3>1, <3>2 DEF ThreadsTyped
      <4> QED
        BY <3>1, <4>1 DEF Broker!vars
    <3>3. CASE deliveries[w] # NoDelivery
      BY <3>1, <3>3 DEF Broker!Drop, Broker!Next
    <3> QED
      BY <3>2, <3>3
  <2>6. ASSUME NEW w \in Workers,
               \/ ReadPending(w) \/ MarkDelivered(w) \/ ReadCommand(w) \/ ClaimCommand(w)
               \/ LookUpStage(w) \/ Operate(w) \/ PutArtifact(w) \/ RecordCheckpoint(w)
               \/ CompleteCommand(w) \/ ReadAfterFailure(w) \/ FailCommand(w)
        PROVE  UNCHANGED Broker!vars
    <3>1. UNCHANGED brokerVars /\ UNCHANGED now
      BY <2>6 DEF ReadPending, MarkDelivered, ReadCommand, ClaimCommand, LookUpStage, Operate,
           PutArtifact, RecordCheckpoint, CompleteCommand, ReadAfterFailure, FailCommand,
           ClaimGranted, ClaimExhausted, ClaimPastDeadline,
           RecordStage, Complete, Fail
    <3> QED
      BY <2>1, <3>1
  <2>7. CASE LoopTick
    BY <2>7 DEF LoopTick, Broker!Next, Broker!Tick, brokerVars
  <2>8. CASE (\E c \in Commands : Accept(c)) \/ UNCHANGED loopVars
    BY <2>1, <2>8 DEF Accept, Submit, loopVars
  <2> QED
    BY <2>2, <2>3, <2>4, <2>5, <2>6, <2>7, <2>8 DEF LoopNext, LoopStep
<1> QED
  BY <1>1, <1>2, LoopHolds, PTL DEF LoopSpec, Broker!Spec

(* A workflow continues only with recorded outputs, after every retry,     *)
(* takeover and crash, also when commands share their identity.            *)
THEOREM ContinuesWithRecorded == LoopSpec => []CarriedIsRecorded
BY LoopHolds, PTL DEF LoopInv

(* artifacts.put comes before record_stage: a recorded checkpoint has the  *)
(* artifact it names, whoever is overtaken between the two.                *)
THEOREM ArtifactFirst == LoopSpec => []ResultHasArtifact
BY LoopHolds, PTL DEF LoopInv

(* At-least-once delivery: until a command ends, a pending event or a      *)
(* message announces it; its message is acknowledged only once it ended    *)
(* with its result, and its event is marked only once the message exists.  *)
THEOREM AnnouncedUntilDone == LoopSpec => []NothingIsForgotten
<1>1. LoopInv => NothingIsForgotten
  <2> SUFFICES ASSUME LoopInv, NEW c \in Commands
               PROVE  /\ messages[c].status = "ACKED" => Ended(c)
                      /\ ~Settled(c) /\ commands[c].status # "ABSENT" =>
                            \/ outbox[c].status = "PENDING"
                            \/ messages[c].status \in {"AVAILABLE", "IN_FLIGHT", "DEAD"}
                      /\ outbox[c].status = "DELIVERED" => messages[c].status # "ABSENT"
    BY DEF NothingIsForgotten, AckedMeansDone, CommandIsAnnounced, Ended
  <2>1. messages[c].status \in Broker!MessageStatus
    BY DEF LoopInv, ThreadsTyped, QueueRow
  <2>2. outbox[c].status \in {"ABSENT", "PENDING", "DELIVERED"}
    BY DEF LoopInv, ThreadsTyped
  <2> QED
    BY <2>1, <2>2 DEF LoopInv, EventsOK, Ended, Broker!MessageStatus
<1> QED
  BY <1>1, LoopHolds, PTL
=============================================================================
