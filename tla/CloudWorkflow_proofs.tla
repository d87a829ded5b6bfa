------------------------ MODULE CloudWorkflow_proofs ------------------------
(***************************************************************************)
(* Theorems about the two parts of a workflow of the AWS deployment.  The  *)
(* first half is about StageLedger, for every workflow, any number of      *)
(* invocations and owner names, and any bound on tries and faults; the     *)
(* second about StagePipeline, for every source, any number of pushes and  *)
(* of workflows that run side by side; the last theorems bring them        *)
(* together for CloudWorkflow.                                             *)
(***************************************************************************)
EXTENDS CloudWorkflow, TLAPS

\* The rows: epochs count the claims while a row is open, and a completed row
\* names the document that the store holds.
RowsOK ==
  \A r \in Rows :
    /\ ledger[r].status = "ABSENT" => ledger[r].epoch = 0 /\ claims[r] = 0
    /\ ledger[r].status = "RUNNING" => ledger[r].epoch = claims[r]
    /\ ledger[r].status # "COMPLETED" => ledger[r].output = NoDocument
    /\ ledger[r].status = "COMPLETED" => ledger[r].output # NoDocument /\ ledger[r].output = artifacts[r]

\* The invocations: which of them hold an epoch, and what their document is.
HasGrant(i) ==
  /\ i.pc \in {"idle", "claim"} => i.epoch = 0
  /\ i.pc \in {"execute", "put", "start", "record"} => i.epoch > 0

HasDocument(i) ==
  /\ i.pc = "put" => i.document # NoDocument
  /\ i.pc \in {"start", "record"} => i.document # NoDocument /\ i.document = artifacts[i.row]
  /\ i.pc = "acknowledge" => ledger[i.row].status = "COMPLETED" /\ ledger[i.row].output = i.document

InvocationsOK == \A a \in Attempts : HasGrant(attempt[a]) /\ HasDocument(attempt[a])

\* The callers: one that goes on has what the ledger recorded.
CallersOK ==
  \A r \in Rows : Succeeded(r) => ledger[r].status = "COMPLETED" /\ caller[r].output = ledger[r].output

IInv == TypeOK /\ RowsOK /\ InvocationsOK /\ CallersOK

-----------------------------------------------------------------------------
\* An idle invocation holds nothing and has no document to answer for.
LEMMA IdleType == Idle \in Invocation /\ HasGrant(Idle) /\ HasDocument(Idle)
BY RowsAssumption DEF Idle, Invocation, HasGrant, HasDocument

\* The caller's row after an invocation that did not answer well.
LEMMA AgainType ==
  ASSUME NEW call \in Call
  PROVE  Again(call) \in Call /\ Again(call).status # "SUCCEEDED"
BY DEF Again, Call

\* The caller's row while an invocation works for it.
LEMMA WaitingType ==
  ASSUME NEW call \in Call, NEW a \in Attempts
  PROVE  LET waiting == [call EXCEPT !.status = "WAITING", !.attempt = a, !.tries = @ + 1]
         IN  waiting \in Call /\ waiting.status # "SUCCEEDED"
<1>1. call.tries + 1 \in Nat
  BY DEF Call
<1> QED
  BY <1>1 DEF Call

\* The caller's row after an answer goes on only with a good one.
LEMMA AnsweredType ==
  ASSUME NEW r \in Rows, caller[r] \in Call, NEW outcome, NEW written \in {NoDocument} \cup Documents
  PROVE  /\ Answered(r, outcome, written) \in Call
         /\ Answered(r, outcome, written).status = "SUCCEEDED" =>
              outcome # "REDRIVE_REQUIRED" /\ Answered(r, outcome, written).output = written
<1>1. CASE outcome # "REDRIVE_REQUIRED"
  BY <1>1 DEF Answered, Call
<1>2. CASE outcome = "REDRIVE_REQUIRED" /\ r \in Machine
  BY <1>2 DEF Answered, Call
<1>3. CASE outcome = "REDRIVE_REQUIRED" /\ r \notin Machine
  BY <1>3, AgainType DEF Answered
<1> QED
  BY <1>1, <1>2, <1>3

\* An answer ends its invocation and moves its caller only.
LEMMA ReplyKeeps ==
  ASSUME TypeOK, NEW a \in Attempts, NEW outcome, NEW written \in {NoDocument} \cup Documents,
         Reply(a, outcome, written)
  PROVE  /\ attempt' = [attempt EXCEPT ![a] = Idle]
         /\ caller' \in [Rows -> Call]
         /\ \A r \in Rows : caller'[r].status = "SUCCEEDED" =>
              \/ caller[r].status = "SUCCEEDED" /\ caller'[r].output = caller[r].output
              \/ /\ r = attempt[a].row /\ outcome # "REDRIVE_REQUIRED"
                 /\ caller'[r].output = written
<1>1. attempt[a].row \in Rows /\ caller \in [Rows -> Call]
  BY DEF TypeOK, Invocation
<1>2. attempt' = [attempt EXCEPT ![a] = Idle]
  BY DEF Reply
<1>3. CASE caller[attempt[a].row].attempt = a
  <2>1. caller' = [caller EXCEPT ![attempt[a].row] = Answered(attempt[a].row, outcome, written)]
    BY <1>3 DEF Reply
  <2> QED
    BY <1>1, <1>2, <2>1, AnsweredType
<1>4. CASE caller[attempt[a].row].attempt # a
  <2>1. caller' = caller
    BY <1>4 DEF Reply
  <2> QED
    BY <1>1, <1>2, <2>1
<1> QED
  BY <1>3, <1>4

\* A step that leaves the stored rows alone, that ends or moves invocations without
\* breaking what they promise, and lets callers go on with recorded outputs only.
LEMMA StoredKept ==
  ASSUME IInv, UNCHANGED <<ledger, artifacts, claims>>,
         attempt' \in [Attempts -> Invocation],
         \A b \in Attempts : attempt'[b] = attempt[b] \/ (HasGrant(attempt'[b]) /\ HasDocument(attempt'[b])),
         caller' \in [Rows -> Call],
         \A r \in Rows : caller'[r].status = "SUCCEEDED" =>
            ledger[r].status = "COMPLETED" /\ caller'[r].output = ledger[r].output,
         run' \in [ordinal : Nat, output : {NoDocument} \cup Documents],
         proposal' \in {"NONE", "IN_REVIEW", "APPROVED"}, pointer' \in Versions,
         outbox' \in {"NONE", "PENDING", "DELIVERED"}, started' \in BOOLEAN, faults' \in Nat
  PROVE  IInv'
<1>1. TypeOK'
  BY DEF IInv, TypeOK
<1>2. RowsOK'
  BY DEF IInv, RowsOK
<1>3. InvocationsOK'
  BY DEF IInv, InvocationsOK, HasGrant, HasDocument
<1>4. CallersOK'
  BY DEF IInv, CallersOK, Succeeded
<1> QED
  BY <1>1, <1>2, <1>3, <1>4 DEF IInv

\* The same for a step that is an answer.
LEMMA ReplyPreserves ==
  ASSUME IInv, NEW a \in Attempts, NEW outcome, NEW written \in {NoDocument} \cup Documents,
         Reply(a, outcome, written), UNCHANGED <<ledger, run, artifacts, claims, proposal, pointer, started>>,
         outcome # "REDRIVE_REQUIRED" =>
            ledger[attempt[a].row].status = "COMPLETED" /\ ledger[attempt[a].row].output = written,
         outbox' \in {"NONE", "PENDING", "DELIVERED"}, faults' \in Nat
  PROVE  IInv'
<1>1. TypeOK
  BY DEF IInv
<1>2. attempt' = [attempt EXCEPT ![a] = Idle] /\ attempt \in [Attempts -> Invocation]
  BY <1>1, ReplyKeeps DEF TypeOK
<1>3. /\ attempt' \in [Attempts -> Invocation]
      /\ \A b \in Attempts : attempt'[b] = attempt[b] \/ (HasGrant(attempt'[b]) /\ HasDocument(attempt'[b]))
  BY <1>2, IdleType
<1>4. caller' \in [Rows -> Call]
  BY <1>1, ReplyKeeps
<1>5. ASSUME NEW r \in Rows, caller'[r].status = "SUCCEEDED"
      PROVE  ledger[r].status = "COMPLETED" /\ caller'[r].output = ledger[r].output
  <2>1. CASE caller[r].status = "SUCCEEDED" /\ caller'[r].output = caller[r].output
    BY <2>1 DEF IInv, CallersOK, Succeeded
  <2>2. CASE r = attempt[a].row /\ outcome # "REDRIVE_REQUIRED" /\ caller'[r].output = written
    BY <2>2
  <2> QED
    BY <1>1, <1>5, <2>1, <2>2, ReplyKeeps
<1>6. /\ run \in [ordinal : Nat, output : {NoDocument} \cup Documents]
      /\ proposal \in {"NONE", "IN_REVIEW", "APPROVED"} /\ pointer \in Versions /\ started \in BOOLEAN
  BY <1>1 DEF TypeOK
<1> QED
  BY <1>3, <1>4, <1>5, <1>6, StoredKept
-----------------------------------------------------------------------------
\* Initially no stage was claimed, and nobody was answered.
LEMMA InitOK == Init => IInv
<1> SUFFICES ASSUME Init PROVE IInv
  OBVIOUS
<1>1. /\ \A r \in Rows : ledger[r] = NoRow /\ caller[r] = NotCalled
                         /\ artifacts[r] = NoDocument /\ claims[r] = 0
      /\ \A a \in Attempts : attempt[a] = Idle
  BY DEF Init
<1>2. NoRow \in LedgerRow /\ NotCalled \in Call
  BY DEF NoRow, LedgerRow, NotCalled, Call
<1>3. TypeOK
  BY <1>1, <1>2, IdleType DEF Init, TypeOK
<1>4. RowsOK
  <2>1. NoRow.status = "ABSENT" /\ NoRow.epoch = 0 /\ NoRow.output = NoDocument
    BY DEF NoRow
  <2> QED
    BY <1>1, <2>1 DEF RowsOK
<1>5. InvocationsOK
  BY <1>1, IdleType DEF InvocationsOK
<1>6. CallersOK
  BY <1>1 DEF CallersOK, Succeeded, NotCalled
<1> QED
  BY <1>3, <1>4, <1>5, <1>6 DEF IInv

\* The parts of the state that a step of the callers and of the world leaves typed.
LEMMA Typed ==
  ASSUME IInv
  PROVE  /\ ledger \in [Rows -> LedgerRow] /\ caller \in [Rows -> Call]
         /\ attempt \in [Attempts -> Invocation]
         /\ artifacts \in [Rows -> {NoDocument} \cup Documents]
         /\ claims \in [Rows -> Nat]
         /\ run \in [ordinal : Nat, output : {NoDocument} \cup Documents]
         /\ proposal \in {"NONE", "IN_REVIEW", "APPROVED"} /\ pointer \in Versions
         /\ outbox \in {"NONE", "PENDING", "DELIVERED"} /\ started \in BOOLEAN /\ faults \in Nat
         /\ \A r \in Rows : caller[r].status = "SUCCEEDED" =>
              ledger[r].status = "COMPLETED" /\ caller[r].output = ledger[r].output
         /\ \A a \in Attempts : /\ attempt[a].row \in Rows
                                /\ HasGrant(attempt[a]) /\ HasDocument(attempt[a])
BY DEF IInv, TypeOK, CallersOK, InvocationsOK, Succeeded, Invocation

\* What a caller does keeps the invariant: an invocation starts with nothing,
\* and giving up is no success.
LEMMA CallerPreserves ==
  ASSUME IInv, NEW r \in Rows
  PROVE  /\ \A a \in Attempts : Invoke(r, a) => IInv'
         /\ GiveUp(r) => IInv'
<1>1. ASSUME NEW a \in Attempts, Invoke(r, a) PROVE IInv'
  <2> DEFINE i == [Idle EXCEPT !.pc = "claim", !.row = r]
             call == [caller[r] EXCEPT !.status = "WAITING", !.attempt = a, !.tries = @ + 1]
  <2>1. i \in Invocation /\ HasGrant(i) /\ HasDocument(i)
    BY RowsAssumption DEF Idle, Invocation, HasGrant, HasDocument
  <2>0. caller[r] \in Call
    BY Typed
  <2>2. call \in Call /\ call.status # "SUCCEEDED"
    BY <2>0, WaitingType
  <2>3. caller' = [caller EXCEPT ![r] = call] /\ attempt' = [attempt EXCEPT ![a] = i]
    BY <1>1, Typed DEF Invoke
  <2>4. UNCHANGED <<stored, faults>>
    BY <1>1 DEF Invoke
  <2> HIDE DEF i, call
  <2> QED
    BY <2>1, <2>2, <2>3, <2>4, Typed, StoredKept DEF stored, world
<1>2. ASSUME GiveUp(r) PROVE IInv'
  <2>1. Again(caller[r]) \in Call /\ Again(caller[r]).status # "SUCCEEDED"
    BY Typed, AgainType
  <2>2. /\ caller' = [caller EXCEPT ![r] = Again(caller[r])] /\ attempt' = attempt
        /\ faults' = faults + 1 /\ UNCHANGED stored
    BY <1>2 DEF GiveUp, Fault
  <2> QED
    BY <2>1, <2>2, Typed, StoredKept DEF stored, world
<1> QED
  BY <1>1, <1>2

\* A crash keeps the invariant: what was stored stays, and its caller fails or tries again.
LEMMA DiePreserves ==
  ASSUME IInv, NEW a \in Attempts, Die(a)
  PROVE  IInv'
<1> DEFINE r == attempt[a].row
           call == IF r \in Machine THEN [caller[r] EXCEPT !.attempt = NoAttempt, !.status = "FAILED"]
                   ELSE Again(caller[r])
<1>1. r \in Rows /\ caller[r] \in Call
  BY Typed
<1>2. call \in Call /\ call.status # "SUCCEEDED"
  <2>1. Again(caller[r]) \in Call /\ Again(caller[r]).status # "SUCCEEDED"
    BY <1>1, AgainType
  <2>2. LET failed == [caller[r] EXCEPT !.attempt = NoAttempt, !.status = "FAILED"]
        IN  failed \in Call /\ failed.status # "SUCCEEDED"
    BY <1>1 DEF Call
  <2> QED
    BY <2>1, <2>2
<1>3. caller' = caller \/ caller' = [caller EXCEPT ![r] = call]
  BY DEF Die
<1>4. attempt' = [attempt EXCEPT ![a] = Idle] /\ faults' = faults + 1 /\ UNCHANGED stored
  BY DEF Die, Fault
<1>5. /\ attempt' \in [Attempts -> Invocation]
      /\ \A b \in Attempts : attempt'[b] = attempt[b] \/ (HasGrant(attempt'[b]) /\ HasDocument(attempt'[b]))
  BY <1>4, IdleType, Typed
<1> HIDE DEF r, call
<1>6. /\ caller' \in [Rows -> Call]
      /\ \A q \in Rows : caller'[q].status = "SUCCEEDED" => caller'[q] = caller[q]
  BY <1>1, <1>2, <1>3, Typed
<1> QED
  BY <1>4, <1>5, <1>6, Typed, StoredKept DEF stored, world
-----------------------------------------------------------------------------
\* An invocation moves on without touching what is stored: what it is in and what
\* its document is must fit.
LEMMA Moves ==
  ASSUME IInv, NEW a \in Attempts, NEW i \in Invocation, HasGrant(i), HasDocument(i),
         attempt' = [attempt EXCEPT ![a] = i], UNCHANGED <<ledger, artifacts, claims, run, caller, pointer>>,
         proposal' \in {"NONE", "IN_REVIEW", "APPROVED"}, outbox' \in {"NONE", "PENDING", "DELIVERED"},
         started' \in BOOLEAN, faults' \in Nat
  PROVE  IInv'
<1>1. /\ attempt' \in [Attempts -> Invocation]
      /\ \A b \in Attempts : attempt'[b] = attempt[b] \/ (HasGrant(attempt'[b]) /\ HasDocument(attempt'[b]))
  BY Typed
<1> QED
  BY <1>1, Typed, StoredKept

\* The same invocation at another place.
LEMMA GotoType ==
  ASSUME NEW i \in Invocation, NEW pc \in {"claim", "execute", "put", "start", "record", "lookup", "acknowledge"}
  PROVE  LET moved == [i EXCEPT !.pc = pc]
         IN  /\ moved \in Invocation /\ moved.pc = pc
             /\ moved.row = i.row /\ moved.epoch = i.epoch /\ moved.document = i.document
BY DEF Invocation

\* A claim keeps the invariant: the row it takes was not completed.
LEMMA ClaimPreserves ==
  ASSUME IInv, NEW a \in Attempts, ClaimStage(a)
  PROVE  IInv'
<1> DEFINE r == attempt[a].row
           epoch == ledger[r].epoch + 1
           row == [status |-> "RUNNING", owner |-> OwnerOf[a], epoch |-> epoch,
                   expired |-> FALSE, output |-> NoDocument]
           i == [attempt[a] EXCEPT !.pc = "execute", !.epoch = epoch]
<1>1. r \in Rows /\ ledger[r] \in LedgerRow /\ attempt[a] \in Invocation /\ epoch \in Nat /\ epoch > 0
  BY Typed DEF LedgerRow
<1>2. row \in LedgerRow
  BY <1>1 DEF LedgerRow
<1>3. i \in Invocation /\ HasGrant(i) /\ i.pc = "execute" /\ i.epoch = epoch
  BY <1>1 DEF Invocation, HasGrant
<1>4. ledger[r].status # "COMPLETED"
  BY DEF ClaimStage, Claimable
<1>5. epoch = claims[r] + 1
  BY <1>1, <1>4 DEF IInv, RowsOK, LedgerRow
<1>6. /\ ledger' = [ledger EXCEPT ![r] = row] /\ claims' = [claims EXCEPT ![r] = @ + 1]
      /\ attempt' = [attempt EXCEPT ![a] = i]
      /\ UNCHANGED <<run, artifacts, world, caller, faults>>
  <2>1. attempt' = [attempt EXCEPT ![a].pc = "execute", ![a].epoch = epoch]
    BY DEF ClaimStage
  <2>2. [attempt EXCEPT ![a].pc = "execute", ![a].epoch = epoch] = [attempt EXCEPT ![a] = i]
    BY Typed
  <2> QED
    BY <2>1, <2>2 DEF ClaimStage
<1>7. ledger'[r] = row /\ claims'[r] = claims[r] + 1 /\ attempt'[a] = i
  BY <1>1, <1>6, Typed
<1>8. /\ \A q \in Rows \ {r} : ledger'[q] = ledger[q] /\ claims'[q] = claims[q]
      /\ \A b \in Attempts \ {a} : attempt'[b] = attempt[b]
  BY <1>6, Typed
<1>9. row.status = "RUNNING" /\ row.epoch = epoch /\ row.output = NoDocument
  OBVIOUS
<1> HIDE DEF r, epoch, row, i
<1>10. TypeOK'
  BY <1>1, <1>2, <1>3, <1>6, Typed DEF TypeOK, world
<1>11. RowsOK'
  BY <1>5, <1>6, <1>7, <1>8, <1>9 DEF IInv, RowsOK
<1>12. InvocationsOK'
  <2> SUFFICES ASSUME NEW b \in Attempts PROVE HasGrant(attempt'[b]) /\ HasDocument(attempt[b])'
    BY DEF InvocationsOK, HasGrant
  <2>1. CASE b = a
    BY <1>3, <1>7, <2>1 DEF HasDocument
  <2>2. CASE b # a
    <3>1. attempt'[b] = attempt[b] /\ artifacts' = artifacts
      BY <1>6, <1>8, <2>2
    <3>2. attempt[b].row # r => ledger'[attempt[b].row] = ledger[attempt[b].row]
      BY <1>8, Typed
    <3> QED
      BY <1>4, <3>1, <3>2, Typed DEF HasDocument
  <2> QED
    BY <2>1, <2>2
<1>13. CallersOK'
  BY <1>4, <1>6, <1>8 DEF IInv, CallersOK, Succeeded
<1> QED
  BY <1>10, <1>11, <1>12, <1>13 DEF IInv

\* An answer, good or bad, keeps the invariant when it tells what the ledger has.
LEMMA AnswersPreserve ==
  ASSUME IInv, NEW a \in Attempts
  PROVE  /\ ClaimRefused(a) => IInv'
         /\ LookUp(a) => IInv'
         /\ Acknowledge(a) => IInv'
         /\ Throttled(a) => IInv'
<1> DEFINE row == ledger[attempt[a].row]
<1>1. /\ row \in LedgerRow /\ attempt[a] \in Invocation /\ attempt[a].row \in Rows
      /\ row.output \in {NoDocument} \cup Documents
  BY Typed DEF LedgerRow
<1>2. ASSUME Redrive(a), UNCHANGED stored, faults' \in Nat PROVE IInv'
  BY <1>2, Typed, ReplyPreserves DEF Redrive, stored, world
<1>3. ASSUME ClaimRefused(a) PROVE IInv'
  <2>1. CASE row.status # "COMPLETED"
    BY <1>2, <1>3, <2>1, Typed DEF ClaimRefused
  <2>2. CASE row.status = "COMPLETED"
    <3> DEFINE i == [attempt[a] EXCEPT !.pc = "acknowledge", !.document = row.output]
    <3>1. i \in Invocation /\ i.pc = "acknowledge" /\ i.document = row.output /\ i.row = attempt[a].row
      BY <1>1 DEF Invocation
    <3>2. HasGrant(i) /\ HasDocument(i)
      BY <2>2, <3>1 DEF HasGrant, HasDocument
    <3>3. attempt' = [attempt EXCEPT ![a] = i]
      <4>1. attempt' = [attempt EXCEPT ![a].pc = "acknowledge", ![a].document = row.output]
        BY <1>3, <2>2 DEF ClaimRefused
      <4> QED
        BY <4>1, Typed
    <3>4. UNCHANGED <<stored, caller, faults>>
      BY <1>3, <2>2 DEF ClaimRefused
    <3> HIDE DEF i
    <3> QED
      BY <3>1, <3>2, <3>3, <3>4, Typed, Moves DEF stored, world
  <2> QED
    BY <2>1, <2>2
<1>4. ASSUME LookUp(a) PROVE IInv'
  <2>1. CASE row.status # "COMPLETED"
    BY <1>2, <1>4, <2>1, Typed DEF LookUp
  <2>2. CASE row.status = "COMPLETED"
    <3>1. Reply(a, "SKIPPED", row.output) /\ UNCHANGED <<stored, faults>>
      BY <1>4, <2>2 DEF LookUp
    <3> QED
      BY <1>1, <2>2, <3>1, Typed, ReplyPreserves DEF stored, world
  <2> QED
    BY <2>1, <2>2
<1>5. ASSUME Acknowledge(a) PROVE IInv'
  <2>1. /\ Reply(a, "SUCCEEDED", attempt[a].document)
        /\ UNCHANGED <<ledger, run, artifacts, proposal, pointer, started, faults, claims>>
        /\ outbox' \in {"NONE", "PENDING", "DELIVERED"}
    BY <1>5, Typed DEF Acknowledge
  <2>2. /\ row.status = "COMPLETED" /\ row.output = attempt[a].document
        /\ attempt[a].document \in {NoDocument} \cup Documents
    BY <1>1, <1>5, Typed DEF Acknowledge, At, HasDocument
  <2> QED
    BY <2>1, <2>2, Typed, ReplyPreserves
<1>6. ASSUME Throttled(a) PROVE IInv'
  <2>1. Redrive(a) /\ UNCHANGED stored /\ faults' = faults + 1
    BY <1>6 DEF Throttled, Fault
  <2> QED
    BY <1>2, <2>1, Typed
<1> QED
  BY <1>3, <1>4, <1>5, <1>6

\* The use case of a stage and the start of the machine keep the invariant: the
\* document is one, and it is only recorded after it was put.
LEMMA WorkPreserves ==
  ASSUME IInv, NEW a \in Attempts
  PROVE  /\ Execute(a) => IInv'
         /\ StartWorkflow(a) => IInv'
<1>1. attempt[a] \in Invocation /\ attempt[a].row \in Rows
  BY Typed
<1>2. ASSUME NEW pc \in {"record", "lookup"}, Goto(a, pc), UNCHANGED <<ledger, artifacts, claims, run, pointer>>,
             proposal' \in {"NONE", "IN_REVIEW", "APPROVED"}, UNCHANGED <<outbox, faults>>, started' \in BOOLEAN,
             pc = "record" => attempt[a].epoch > 0 /\ attempt[a].document # NoDocument
                              /\ attempt[a].document = artifacts[attempt[a].row]
      PROVE  IInv'
  <2> DEFINE i == [attempt[a] EXCEPT !.pc = pc]
  <2>1. /\ i \in Invocation /\ i.pc = pc
        /\ i.row = attempt[a].row /\ i.epoch = attempt[a].epoch /\ i.document = attempt[a].document
    <3>1. pc \in {"claim", "execute", "put", "start", "record", "lookup", "acknowledge"}
      BY <1>2
    <3> QED
      BY <1>1, <3>1, GotoType
  <2>2. HasGrant(i) /\ HasDocument(i)
    BY <1>2, <2>1 DEF HasGrant, HasDocument
  <2>3. attempt' = [attempt EXCEPT ![a] = i] /\ UNCHANGED caller
    BY <1>2, Typed DEF Goto
  <2> HIDE DEF i
  <2> QED
    BY <1>2, <2>1, <2>2, <2>3, Typed, Moves
<1>3. ASSUME Execute(a) PROVE IInv'
  <2> DEFINE written == IF attempt[a].row = Pin THEN pointer ELSE attempt[a].row
             i == [attempt[a] EXCEPT !.pc = "put", !.document = written]
  <2>1. CASE attempt[a].row = Proposing /\ proposal = "APPROVED"
    BY <1>2, <1>3, <2>1, Typed DEF Execute
  <2>2. CASE ~(attempt[a].row = Proposing /\ proposal = "APPROVED")
    <3>1. written \in Documents /\ written # NoDocument
      BY <1>1, Typed, NullAssumption DEF Documents
    <3>2. attempt[a].epoch > 0
      BY <1>3, Typed DEF Execute, At, HasGrant
    <3> HIDE DEF written
    <3>3. i \in Invocation /\ i.pc = "put" /\ i.document = written /\ i.epoch = attempt[a].epoch
      BY <1>1, <3>1 DEF Invocation
    <3>4. HasGrant(i) /\ HasDocument(i)
      BY <3>1, <3>2, <3>3 DEF HasGrant, HasDocument
    <3>5. attempt' = [attempt EXCEPT ![a] = i]
      <4>1. attempt' = [attempt EXCEPT ![a].pc = "put", ![a].document = written]
        BY <1>3, <2>2 DEF Execute, written
      <4> QED
        BY <4>1, Typed
    <3>6. /\ UNCHANGED <<ledger, run, artifacts, pointer, outbox, started, faults, claims, caller>>
          /\ proposal' \in {"NONE", "IN_REVIEW", "APPROVED"}
      BY <1>3, <2>2, Typed DEF Execute
    <3> HIDE DEF i
    <3> QED
      BY <3>3, <3>4, <3>5, <3>6, Typed, Moves
  <2> QED
    BY <2>1, <2>2
<1>4. ASSUME StartWorkflow(a) PROVE IInv'
  <2>1. /\ attempt[a].epoch > 0 /\ attempt[a].document # NoDocument
        /\ attempt[a].document = artifacts[attempt[a].row]
    BY <1>4, Typed DEF StartWorkflow, At, HasGrant, HasDocument
  <2> QED
    BY <1>2, <1>4, <2>1, Typed DEF StartWorkflow
<1> QED
  BY <1>3, <1>4

\* A document that is put is the one of its key from then on.
LEMMA PutPreserves ==
  ASSUME IInv, NEW a \in Attempts, PutArtifact(a)
  PROVE  IInv'
<1> DEFINE r == attempt[a].row
           written == attempt[a].document
           pc == IF PutAccepted(r, written) THEN IF r = Intake THEN "start" ELSE "record"
                 ELSE "lookup"
           i == [attempt[a] EXCEPT !.pc = pc]
<1>1. /\ attempt[a] \in Invocation /\ r \in Rows /\ written \in {NoDocument} \cup Documents
      /\ written # NoDocument /\ attempt[a].epoch > 0
  BY Typed DEF PutArtifact, At, HasDocument, HasGrant, Invocation
<1>2. attempt' = [attempt EXCEPT ![a] = i]
  BY Typed DEF PutArtifact, Goto
<1>3. /\ i \in Invocation /\ i.pc = pc /\ i.row = r /\ i.document = written
      /\ i.epoch = attempt[a].epoch
  <2>1. pc \in {"claim", "execute", "put", "start", "record", "lookup", "acknowledge"}
    OBVIOUS
  <2> HIDE DEF pc
  <2> QED
    BY <1>1, <2>1 DEF Invocation
<1>4. pc \in {"start", "record", "lookup"}
  OBVIOUS
<1>5. /\ artifacts' \in [Rows -> {NoDocument} \cup Documents]
      /\ \A q \in Rows : artifacts[q] # NoDocument => artifacts'[q] = artifacts[q]
      /\ pc # "lookup" => artifacts'[r] = written
  <2>1. CASE PutAccepted(r, written)
    BY <1>1, <2>1, Typed DEF PutArtifact, PutAccepted
  <2>2. CASE ~PutAccepted(r, written)
    BY <2>2, Typed DEF PutArtifact
  <2> QED
    BY <2>1, <2>2
<1>6. UNCHANGED <<ledger, run, world, faults, claims, caller>>
  BY DEF PutArtifact, Goto
<1> HIDE DEF r, written, pc, i
<1>7. TypeOK'
  BY <1>2, <1>3, <1>5, <1>6, Typed DEF TypeOK, world
<1>8. RowsOK'
  BY <1>5, <1>6 DEF IInv, RowsOK
<1>9. InvocationsOK'
  <2> SUFFICES ASSUME NEW b \in Attempts PROVE HasGrant(attempt'[b]) /\ HasDocument(attempt[b])'
    BY DEF InvocationsOK, HasGrant
  <2>1. CASE b = a
    <3>1. attempt'[b] = i
      BY <1>2, <2>1, Typed
    <3> QED
      BY <1>1, <1>3, <1>4, <1>5, <3>1 DEF HasGrant, HasDocument
  <2>2. CASE b # a
    <3>1. attempt'[b] = attempt[b]
      BY <1>2, <2>2, Typed
    <3> QED
      BY <1>5, <1>6, <3>1, Typed DEF HasDocument
  <2> QED
    BY <2>1, <2>2
<1>10. CallersOK'
  BY <1>6 DEF IInv, CallersOK, Succeeded
<1> QED
  BY <1>7, <1>8, <1>9, <1>10 DEF IInv

\* A record keeps the invariant: it completes the row with the document of its key,
\* or repeats what the row says.
LEMMA RecordPreserves ==
  ASSUME IInv, NEW a \in Attempts, RecordStage(a)
  PROVE  IInv'
<1> DEFINE r == attempt[a].row
           written == attempt[a].document
           holds == HoldsRow(a, ledger[r]) /\ SummaryMoves(r)
           pc == IF holds THEN "acknowledge" ELSE "lookup"
           row == [status |-> "COMPLETED", owner |-> NoOwner, epoch |-> attempt[a].epoch,
                   expired |-> FALSE, output |-> written]
           i == [attempt[a] EXCEPT !.pc = pc]
<1>1. /\ attempt[a] \in Invocation /\ r \in Rows /\ written \in {NoDocument} \cup Documents
      /\ attempt[a].epoch \in Nat
  BY Typed DEF Invocation
<1>2. written # NoDocument /\ written = artifacts[r]
  BY Typed DEF RecordStage, Summary, At, HasDocument
<1>3. attempt' = [attempt EXCEPT ![a] = i]
  BY Typed DEF RecordStage, Summary, Goto
<1>4. /\ i \in Invocation /\ i.pc = pc /\ i.row = r /\ i.document = written
  <2>1. pc \in {"claim", "execute", "put", "start", "record", "lookup", "acknowledge"}
    OBVIOUS
  <2> HIDE DEF pc
  <2> QED
    BY <1>1, <2>1 DEF Invocation
<1>5. row \in LedgerRow /\ row.status = "COMPLETED" /\ row.output = written
  BY <1>1 DEF LedgerRow
<1>6. IF holds THEN ledger' = [ledger EXCEPT ![r] = row] ELSE ledger' = ledger
  BY DEF RecordStage, Summary
<1>7. holds => (ledger[r].status = "COMPLETED" => ledger[r].output = written)
  BY DEF HoldsRow
<1>8. run' \in [ordinal : Nat, output : {NoDocument} \cup Documents]
  <2>1. Ordinal[r] \in Nat
    BY <1>1, RowsAssumption
  <2>2. run' = run \/ run' = [ordinal |-> Ordinal[r], output |-> written]
    BY DEF RecordStage, Summary
  <2> QED
    BY <1>1, <2>1, <2>2, Typed
<1>9. UNCHANGED <<artifacts, world, faults, claims, caller>>
  BY DEF RecordStage, Summary, Goto
<1>10. pc = IF holds THEN "acknowledge" ELSE "lookup"
  OBVIOUS
<1> HIDE DEF r, written, holds, pc, row, i
<1>11. /\ \A q \in Rows : ledger[q].status = "COMPLETED" =>
              ledger'[q].status = "COMPLETED" /\ ledger'[q].output = ledger[q].output
       /\ \A q \in Rows \ {r} : ledger'[q] = ledger[q]
       /\ IF holds THEN ledger'[r] = row ELSE ledger' = ledger
       /\ ledger' \in [Rows -> LedgerRow]
  BY <1>1, <1>5, <1>6, <1>7, Typed
<1>12. TypeOK'
  BY <1>3, <1>4, <1>8, <1>9, <1>11, Typed DEF TypeOK, world
<1>13. RowsOK'
  <2> SUFFICES ASSUME NEW q \in Rows PROVE RowsOK!(q)'
    BY DEF RowsOK
  <2>1. CASE q = r /\ holds
    BY <1>2, <1>5, <1>9, <1>11, <2>1
  <2>2. CASE ~(q = r /\ holds)
    <3>1. ledger'[q] = ledger[q]
      BY <1>11, <2>2
    <3> QED
      BY <1>9, <3>1 DEF IInv, RowsOK
  <2> QED
    BY <2>1, <2>2
<1>14. InvocationsOK'
  <2> SUFFICES ASSUME NEW b \in Attempts PROVE HasGrant(attempt'[b]) /\ HasDocument(attempt[b])'
    BY DEF InvocationsOK, HasGrant
  <2>1. CASE b = a
    <3>1. attempt'[b] = i
      BY <1>3, <2>1, Typed
    <3> QED
      BY <1>4, <1>5, <1>10, <1>11, <3>1 DEF HasGrant, HasDocument
  <2>2. CASE b # a
    <3>1. attempt'[b] = attempt[b] /\ attempt[b].row \in Rows
      BY <1>3, <2>2, Typed
    <3> QED
      BY <1>9, <1>11, <3>1, Typed DEF HasDocument
  <2> QED
    BY <2>1, <2>2
<1>15. CallersOK'
  BY <1>9, <1>11 DEF IInv, CallersOK, Succeeded
<1> QED
  BY <1>12, <1>13, <1>14, <1>15 DEF IInv

\* What the rest of the world does keeps the invariant: a lease that runs out is
\* still the one of its row, a reviewer and other commands touch nothing of it.
LEMMA WorldPreserves ==
  ASSUME IInv
  PROVE  /\ \A r \in Rows : LeaseExpires(r) => IInv'
         /\ Approve => IInv'
         /\ PointerMoves => IInv'
<1>1. ASSUME NEW r \in Rows, LeaseExpires(r) PROVE IInv'
  <2> DEFINE row == [ledger[r] EXCEPT !.expired = TRUE]
  <2>1. /\ row \in LedgerRow /\ row.status = ledger[r].status
        /\ row.epoch = ledger[r].epoch /\ row.output = ledger[r].output
    <3>1. ledger[r] \in LedgerRow
      BY Typed
    <3> QED
      BY <3>1 DEF LedgerRow
  <2>2. /\ ledger' = [ledger EXCEPT ![r] = row]
        /\ UNCHANGED <<run, artifacts, world, caller, attempt, faults, claims>>
    BY <1>1 DEF LeaseExpires
  <2> HIDE DEF row
  <2>3. \A q \in Rows : /\ ledger'[q].status = ledger[q].status
                        /\ ledger'[q].epoch = ledger[q].epoch
                        /\ ledger'[q].output = ledger[q].output
    BY <2>1, <2>2, Typed
  <2>4. TypeOK'
    BY <2>1, <2>2, Typed DEF TypeOK, world
  <2>5. RowsOK'
    BY <2>2, <2>3 DEF IInv, RowsOK
  <2>6. InvocationsOK'
    <3> SUFFICES ASSUME NEW b \in Attempts PROVE HasGrant(attempt'[b]) /\ HasDocument(attempt[b])'
      BY DEF InvocationsOK, HasGrant
    <3> QED
      BY <2>2, <2>3, Typed DEF HasDocument
  <2>7. CallersOK'
    BY <2>2, <2>3 DEF IInv, CallersOK, Succeeded
  <2> QED
    BY <2>4, <2>5, <2>6, <2>7 DEF IInv
<1>2. ASSUME Approve \/ PointerMoves PROVE IInv'
  <2>1. /\ UNCHANGED <<ledger, run, artifacts, started, caller, attempt, faults, claims>>
        /\ proposal' \in {"NONE", "IN_REVIEW", "APPROVED"} /\ pointer' \in Versions
        /\ outbox' \in {"NONE", "PENDING", "DELIVERED"}
    BY <1>2, Typed DEF Approve, PointerMoves
  <2> QED
    BY <2>1, Typed, StoredKept
<1> QED
  BY <1>1, <1>2

\* Every step keeps the invariant.
LEMMA Inductive == IInv /\ [Next]_vars => IInv'
<1> SUFFICES ASSUME IInv, [Next]_vars PROVE IInv'
  OBVIOUS
<1>1. ASSUME NEW r \in Rows, NEW a \in Attempts, Invoke(r, a) PROVE IInv'
  BY <1>1, CallerPreserves
<1>2. ASSUME NEW r \in Rows, GiveUp(r) \/ LeaseExpires(r) PROVE IInv'
  BY <1>2, CallerPreserves, WorldPreserves
<1>3. ASSUME NEW a \in Attempts, Step(a) PROVE IInv'
  BY <1>3, ClaimPreserves, AnswersPreserve, WorkPreserves, PutPreserves, RecordPreserves DEF Step
<1>4. ASSUME NEW a \in Attempts, Die(a) \/ Throttled(a) PROVE IInv'
  BY <1>4, DiePreserves, AnswersPreserve
<1>5. ASSUME Approve \/ PointerMoves PROVE IInv'
  BY <1>5, WorldPreserves
<1>6. ASSUME UNCHANGED vars PROVE IInv'
  BY <1>6, Typed, StoredKept DEF vars, stored, world
<1> QED
  BY <1>1, <1>2, <1>3, <1>4, <1>5, <1>6 DEF Next

\* What the proofs below rest on holds in every reachable state.
LEMMA Invariant == Spec => []IInv
BY InitOK, Inductive, PTL DEF Spec

\* The stored rows, the callers and the invocations keep their types, whatever the
\* number of stages, of callers and of invocations that overlap.
THEOREM TypeCorrect == Spec => []TypeOK
<1>1. IInv => TypeOK
  BY DEF IInv
<1> QED
  BY <1>1, Invariant, PTL

\* What a stage hands to the next one is what its ledger row names and what the
\* store holds, whichever of the overlapping invocations answered the caller.
THEOREM HandedOn == Spec => []HandedOnIsRecorded
<1>1. IInv => HandedOnIsRecorded
  BY DEF IInv, RowsOK, CallersOK, HandedOnIsRecorded
<1> QED
  BY <1>1, Invariant, PTL

\* An invocation that completes a stage which was not completed claimed it last.
LEMMA Completes ==
  ASSUME IInv, NEW a \in Attempts, RecordStage(a), NEW r \in Rows,
         ledger[r].status # "COMPLETED", ledger'[r].status = "COMPLETED"
  PROVE  /\ At(a, "record") /\ attempt[a].row = r /\ attempt[a].epoch = claims[r]
         /\ ledger'[r].output = attempt[a].document
         /\ ledger[r].status = "RUNNING" /\ ledger[r].output = NoDocument
<1> DEFINE row == [status |-> "COMPLETED", owner |-> NoOwner, epoch |-> attempt[a].epoch,
                   expired |-> FALSE, output |-> attempt[a].document]
<1>1. HoldsRow(a, ledger[attempt[a].row]) /\ ledger' = [ledger EXCEPT ![attempt[a].row] = row]
  BY DEF RecordStage, Summary
<1>2. attempt[a].row = r
  BY <1>1, Typed
<1>3. ledger[r].status = "RUNNING" /\ ledger[r].epoch = attempt[a].epoch
  BY <1>1, <1>2 DEF HoldsRow
<1>4. ledger'[r] = row
  BY <1>1, <1>2, Typed
<1>5. ledger[r].epoch = claims[r] /\ ledger[r].output = NoDocument
  BY <1>3 DEF IInv, RowsOK
<1> QED
  BY <1>2, <1>3, <1>4, <1>5 DEF RecordStage, Summary

\* A step that records nothing completes nothing.
LEMMA OnlyRecordCompletes ==
  ASSUME IInv, [Next]_vars, NEW r \in Rows,
         ledger[r].status # "COMPLETED", ledger'[r].status = "COMPLETED"
  PROVE  \E a \in Attempts : RecordStage(a)
<1>1. ASSUME NEW a \in Attempts, ClaimStage(a) PROVE FALSE
  <2>1. attempt[a].row = r \/ ledger'[r] = ledger[r]
    BY <1>1, Typed DEF ClaimStage
  <2>2. attempt[a].row = r => ledger'[r].status = "RUNNING"
    BY <1>1, Typed DEF ClaimStage
  <2> QED
    BY <2>1, <2>2
<1>2. ASSUME NEW q \in Rows, LeaseExpires(q) PROVE FALSE
  <2>1. ledger'[r].status = ledger[r].status
    BY <1>2, Typed DEF LeaseExpires, LedgerRow
  <2> QED
    BY <2>1
<1>3. ASSUME NEW a \in Attempts, Step(a), ~ClaimStage(a), ~RecordStage(a) PROVE FALSE
  <2>1. UNCHANGED ledger
    BY <1>3 DEF Step, ClaimRefused, Execute, PutArtifact, StartWorkflow, LookUp, Acknowledge, stored
  <2> QED
    BY <2>1
<1>4. ASSUME NEW a \in Attempts, NEW q \in Rows, Invoke(q, a) PROVE FALSE
  BY <1>4 DEF Invoke, stored
<1>5. ASSUME NEW a \in Attempts, Die(a) \/ Throttled(a) PROVE FALSE
  BY <1>5 DEF Die, Throttled, stored
<1>6. ASSUME NEW q \in Rows, GiveUp(q) PROVE FALSE
  BY <1>6 DEF GiveUp, stored
<1>7. ASSUME Approve \/ PointerMoves \/ UNCHANGED vars PROVE FALSE
  BY <1>7 DEF Approve, PointerMoves, vars, stored
<1> QED
  BY <1>1, <1>2, <1>3, <1>4, <1>5, <1>6, <1>7 DEF Next

\* A step that is no record leaves the summary and the outputs of completed rows
\* alone, and completes nothing.
LEMMA OthersKeepSummary ==
  ASSUME IInv, [Next]_vars, \A a \in Attempts : ~RecordStage(a)
  PROVE  /\ run' = run
         /\ \A r \in Rows : /\ ledger'[r].status = "COMPLETED" <=> ledger[r].status = "COMPLETED"
                            /\ ledger[r].status = "COMPLETED" => ledger'[r].output = ledger[r].output
<1>1. ASSUME NEW a \in Attempts, ClaimStage(a)
      PROVE  /\ run' = run
             /\ \A r \in Rows : /\ ledger'[r].status = "COMPLETED" <=> ledger[r].status = "COMPLETED"
                                /\ ledger[r].status = "COMPLETED" => ledger'[r].output = ledger[r].output
  <2>1. /\ ledger[attempt[a].row].status # "COMPLETED" /\ run' = run
        /\ ledger'[attempt[a].row].status = "RUNNING"
        /\ \A r \in Rows : r # attempt[a].row => ledger'[r] = ledger[r]
    BY <1>1, Typed DEF ClaimStage, Claimable
  <2> QED
    BY <2>1
<1>2. ASSUME NEW q \in Rows, LeaseExpires(q)
      PROVE  /\ run' = run
             /\ \A r \in Rows : ledger'[r].status = ledger[r].status /\ ledger'[r].output = ledger[r].output
  BY <1>2, Typed DEF LeaseExpires, LedgerRow
<1>3. ASSUME NEW a \in Attempts, Step(a), ~ClaimStage(a) PROVE UNCHANGED <<ledger, run>>
  BY <1>3 DEF Step, ClaimRefused, Execute, PutArtifact, StartWorkflow, LookUp, Acknowledge, stored
<1>4. ASSUME NEW a \in Attempts, Die(a) \/ Throttled(a) PROVE UNCHANGED <<ledger, run>>
  BY <1>4 DEF Die, Throttled, stored
<1>5. ASSUME NEW q \in Rows, NEW a \in Attempts, Invoke(q, a) PROVE UNCHANGED <<ledger, run>>
  BY <1>5 DEF Invoke, stored
<1>6. ASSUME NEW q \in Rows, GiveUp(q) PROVE UNCHANGED <<ledger, run>>
  BY <1>6 DEF GiveUp, stored
<1>7. ASSUME Approve \/ PointerMoves \/ UNCHANGED vars PROVE UNCHANGED <<ledger, run>>
  BY <1>7 DEF Approve, PointerMoves, vars, stored
<1> QED
  BY <1>1, <1>2, <1>3, <1>4, <1>5, <1>6, <1>7 DEF Next

\* A record moves the summary forward together with its row, or leaves both alone.
LEMMA RecordMovesSummary ==
  ASSUME IInv, SummaryIsTheFurthestStage, NEW a \in Attempts, RecordStage(a)
  PROVE  SummaryIsTheFurthestStage'
<1>0. PICK r \in Rows : r = attempt[a].row
  BY Typed
<1> DEFINE row == [status |-> "COMPLETED", owner |-> NoOwner, epoch |-> attempt[a].epoch,
                   expired |-> FALSE, output |-> attempt[a].document]
<1>1. CASE UNCHANGED <<ledger, run>>
  BY <1>1 DEF SummaryIsTheFurthestStage
<1>2. CASE /\ HoldsRow(a, ledger[r]) /\ SummaryMoves(r)
           /\ ledger' = [ledger EXCEPT ![r] = row]
           /\ run' = IF Ordinal[r] = 0 THEN run
                     ELSE [ordinal |-> Ordinal[r], output |-> attempt[a].document]
  <2>1. /\ ledger'[r].status = "COMPLETED" /\ ledger'[r].output = attempt[a].document
        /\ \A q \in Rows \ {r} : ledger'[q] = ledger[q]
        /\ ledger[r].status = "COMPLETED" => ledger[r].output = attempt[a].document
    BY <1>2, Typed DEF HoldsRow
  <2>2. \A q \in Rows : Ordinal[q] \in Nat
    BY RowsAssumption
  <2>3. run.ordinal \in Nat
    BY Typed
  <2>4. CASE Ordinal[r] = 0
    <3>1. run' = run /\ \A q \in Rows : Ordinal[q] # 0 => ledger'[q] = ledger[q]
      BY <1>2, <2>1, <2>4
    <3> QED
      BY <3>1 DEF SummaryIsTheFurthestStage
  <2>5. CASE Ordinal[r] # 0
    <3>1. run'.ordinal = Ordinal[r] /\ run'.output = attempt[a].document /\ run.ordinal <= Ordinal[r]
      BY <1>2, <2>5 DEF SummaryMoves
    <3>2. \A q \in Rows : ledger'[q].status = "COMPLETED" /\ Ordinal[q] # 0 => Ordinal[q] <= run'.ordinal
      <4> SUFFICES ASSUME NEW q \in Rows, q # r, ledger'[q].status = "COMPLETED", Ordinal[q] # 0
                   PROVE  Ordinal[q] <= Ordinal[r]
        BY <2>2, <3>1
      <4>1. Ordinal[q] <= run.ordinal
        BY <2>1 DEF SummaryIsTheFurthestStage
      <4> QED
        BY <2>2, <2>3, <3>1, <4>1
    <3> QED
      BY <2>1, <2>5, <3>1, <3>2 DEF SummaryIsTheFurthestStage
  <2> QED
    BY <2>4, <2>5
<1>3. \/ UNCHANGED <<ledger, run>>
      \/ /\ HoldsRow(a, ledger[r]) /\ SummaryMoves(r)
         /\ ledger' = [ledger EXCEPT ![r] = row]
         /\ run' = IF Ordinal[r] = 0 THEN run
                   ELSE [ordinal |-> Ordinal[r], output |-> attempt[a].document]
  BY <1>0 DEF RecordStage, Summary
<1> QED
  BY <1>1, <1>2, <1>3

LEMMA SummaryInit == Init => SummaryIsTheFurthestStage
<1> SUFFICES ASSUME Init PROVE SummaryIsTheFurthestStage
  OBVIOUS
<1>1. \A r \in Rows : ledger[r].status # "COMPLETED"
  BY DEF Init, NoRow
<1> QED
  BY <1>1 DEF SummaryIsTheFurthestStage

LEMMA SummaryNext == IInv /\ SummaryIsTheFurthestStage /\ [Next]_vars => SummaryIsTheFurthestStage'
<1> SUFFICES ASSUME IInv, SummaryIsTheFurthestStage, [Next]_vars PROVE SummaryIsTheFurthestStage'
  OBVIOUS
<1>1. CASE \E a \in Attempts : RecordStage(a)
  BY <1>1, RecordMovesSummary
<1>2. CASE \A a \in Attempts : ~RecordStage(a)
  <2>1. /\ run' = run
        /\ \A r \in Rows : /\ ledger'[r].status = "COMPLETED" <=> ledger[r].status = "COMPLETED"
                           /\ ledger[r].status = "COMPLETED" => ledger'[r].output = ledger[r].output
    BY <1>2, OthersKeepSummary
  <2> QED
    BY <2>1 DEF SummaryIsTheFurthestStage
<1> QED
  BY <1>1, <1>2

\* The summary of a run is that of its furthest completed stage, in whatever order
\* overlapping invocations record their stages.
THEOREM SummaryFollows == Spec => []SummaryIsTheFurthestStage
BY SummaryInit, SummaryNext, Invariant, PTL DEF Spec

\* What the callers were handed and what the run reports is what the ledger holds.
THEOREM LedgerFollowed == Spec => []LedgerIsFollowed
BY HandedOn, SummaryFollows, PTL DEF LedgerIsFollowed

\* A step that completes a stage is one of the invocation that claimed it last.
ClaimedLast ==
  \A r \in Rows :
    ledger[r].status # "COMPLETED" /\ ledger'[r].status = "COMPLETED" =>
      \E a \in Attempts :
        /\ At(a, "record") /\ attempt[a].row = r /\ attempt[a].epoch = claims[r]
        /\ ledger'[r].output = attempt[a].document

LEMMA CompletesLast == IInv /\ [Next]_vars => ClaimedLast
<1> SUFFICES ASSUME IInv, [Next]_vars, NEW r \in Rows,
                    ledger[r].status # "COMPLETED", ledger'[r].status = "COMPLETED"
             PROVE  \E a \in Attempts :
                      /\ At(a, "record") /\ attempt[a].row = r /\ attempt[a].epoch = claims[r]
                      /\ ledger'[r].output = attempt[a].document
  BY DEF ClaimedLast
<1>1. PICK a \in Attempts : RecordStage(a)
  BY OnlyRecordCompletes
<1> QED
  BY <1>1, Completes

\* Once a lease was taken over, the invocation that lost it does not complete the
\* stage any more: the one that completes it made the last claim.
THEOREM LastClaim == Spec => LastClaimCompletes
<1>1. IInv /\ [Next]_vars => [ClaimedLast]_vars
  BY CompletesLast
<1> QED
  BY <1>1, Invariant, PTL DEF Spec, LastClaimCompletes, ClaimedLast
-----------------------------------------------------------------------------
(* The refinement: the abstract state, spelled out.                        *)
Open == [r \in Rows |-> ledger[r].status = "RUNNING"]
GrantOf(i) == IF i.epoch = 0 THEN NoAttempt ELSE <<i.row, i.epoch>>
Held == [a \in Attempts |-> GrantOf(attempt[a])]
Stored == [r \in Rows |-> ledger[r].output]

\* An invocation ends or goes on: what it held it keeps, or forgets.
LEMMA ForgetStep ==
  ASSUME IInv, UNCHANGED <<ledger, claims>>, NEW a \in Attempts, NEW i \in Invocation,
         attempt' = [attempt EXCEPT ![a] = i], i.epoch = 0 \/ GrantOf(i) = GrantOf(attempt[a])
  PROVE  Fenced!Next \/ UNCHANGED <<claims, Open, Held, Stored>>
<1>1. UNCHANGED <<claims, Open, Stored>>
  BY DEF Open, Stored
<1>2. Held' = [Held EXCEPT ![a] = GrantOf(i)]
  BY Typed DEF Held
<1>3. Held[a] = GrantOf(attempt[a])
  BY DEF Held
<1>4. CASE GrantOf(i) = GrantOf(attempt[a])
  <2>1. Held' = Held
    BY <1>2, <1>3, <1>4 DEF Held
  <2> QED
    BY <1>1, <2>1
<1>5. CASE GrantOf(i) # GrantOf(attempt[a])
  <2>1. GrantOf(i) = NoAttempt
    BY <1>5 DEF GrantOf
  <2>2. Held[a] # NoAttempt /\ Held' = [Held EXCEPT ![a] = NoAttempt]
    BY <1>2, <1>3, <1>5, <2>1
  <2>3. Fenced!Forget(a)
    BY <1>1, <2>2 DEF Fenced!Forget, Open, Held, Stored, GrantOf
  <2> QED
    BY <2>3 DEF Fenced!Next
<1> QED
  BY <1>4, <1>5

\* A claim grants the next epoch.
LEMMA ClaimGrants ==
  ASSUME IInv, NEW a \in Attempts, ClaimStage(a)
  PROVE  Fenced!Next
<1>0. PICK r \in Rows : r = attempt[a].row
  BY Typed
<1> DEFINE epoch == ledger[r].epoch + 1
           row == [status |-> "RUNNING", owner |-> OwnerOf[a], epoch |-> epoch,
                   expired |-> FALSE, output |-> NoDocument]
           i == [attempt[a] EXCEPT !.pc = "execute", !.epoch = epoch]
<1>1. /\ r \in Rows /\ ledger[r] \in LedgerRow /\ attempt[a] \in Invocation
      /\ ledger[r].epoch \in Nat /\ claims[r] \in Nat
  BY <1>0, Typed DEF LedgerRow
<1>2. ledger[r].status # "COMPLETED" /\ ledger[r].output = NoDocument /\ epoch = claims[r] + 1
  BY <1>0, <1>1 DEF ClaimStage, Claimable, IInv, RowsOK, LedgerRow
<1>3. i.row = r /\ i.epoch = epoch
  BY <1>0, <1>1 DEF Invocation
<1>4. attempt' = [attempt EXCEPT ![a] = i]
  <2>1. attempt' = [attempt EXCEPT ![a].pc = "execute", ![a].epoch = epoch]
    BY <1>0 DEF ClaimStage
  <2> QED
    BY <2>1, Typed
<1>5. ledger' = [ledger EXCEPT ![r] = row] /\ claims' = [claims EXCEPT ![r] = @ + 1]
  BY <1>0 DEF ClaimStage
<1>6. row.status = "RUNNING" /\ row.output = NoDocument
  OBVIOUS
<1>7. attempt[a].epoch = 0
  BY Typed DEF ClaimStage, At, HasGrant
<1>8. epoch # 0
  BY <1>1, <1>2
<1> HIDE DEF epoch, row, i
<1>9. Held[a] = NoAttempt
  BY <1>7 DEF Held, GrantOf
<1>10. Held' = [Held EXCEPT ![a] = <<r, claims[r] + 1>>]
  <2>1. GrantOf(i) = <<r, claims[r] + 1>>
    BY <1>2, <1>3, <1>8 DEF GrantOf
  <2>2. Held' = [Held EXCEPT ![a] = GrantOf(i)]
    BY <1>4, Typed DEF Held
  <2> QED
    BY <2>1, <2>2
<1>11. Open' = [Open EXCEPT ![r] = TRUE]
  BY <1>1, <1>5, <1>6, Typed DEF Open
<1>12. Stored' = Stored
  BY <1>1, <1>2, <1>5, <1>6, Typed DEF Stored
<1>13. Fenced!Grant(a, r)
  BY <1>5, <1>9, <1>10, <1>11, <1>12 DEF Fenced!Grant, Open, Held, Stored, GrantOf
<1>14. \E w \in Attempts, c \in Rows : Fenced!Grant(w, c)
  BY <1>1, <1>13
<1> QED
  BY <1>14 DEF Fenced!Next

\* A record finishes the open epoch, or repeats what is stored.
LEMMA RecordFinishes ==
  ASSUME IInv, NEW a \in Attempts, RecordStage(a)
  PROVE  Fenced!Next \/ UNCHANGED <<claims, Open, Held, Stored>>
<1>0. PICK r \in Rows, written \in Documents : r = attempt[a].row /\ written = attempt[a].document
  BY Typed DEF RecordStage, Summary, At, HasDocument, Invocation
<1> DEFINE row == [status |-> "COMPLETED", owner |-> NoOwner, epoch |-> attempt[a].epoch,
                   expired |-> FALSE, output |-> written]
<1>1. /\ r \in Rows /\ written \in Documents /\ attempt[a].epoch > 0
      /\ attempt[a].epoch \in Nat
  BY <1>0, Typed DEF RecordStage, Summary, At, HasDocument, HasGrant, Invocation
<1>2. UNCHANGED claims
  BY DEF RecordStage, Summary
<1>3. UNCHANGED Held
  <2>1. \A b \in Attempts : attempt'[b].epoch = attempt[b].epoch /\ attempt'[b].row = attempt[b].row
    BY Typed DEF RecordStage, Summary, Goto, Invocation
  <2> QED
    BY <2>1 DEF Held, GrantOf
<1>4. row.status = "COMPLETED" /\ row.output = written
  OBVIOUS
<1>5. CASE UNCHANGED ledger
  BY <1>2, <1>3, <1>5 DEF Open, Stored
<1>6. CASE ledger[r].status = "COMPLETED" /\ ledger[r].output = written /\ ledger' = [ledger EXCEPT ![r] = row]
  <2>1. \A q \in Rows : ledger'[q].status = ledger[q].status /\ ledger'[q].output = ledger[q].output
    BY <1>1, <1>4, <1>6, Typed
  <2> QED
    BY <1>2, <1>3, <2>1 DEF Open, Stored
<1>7. CASE ledger[r].status # "COMPLETED" /\ ledger' = [ledger EXCEPT ![r] = row]
  <2>1. ledger'[r] = row
    BY <1>1, <1>7, Typed
  <2>2. /\ attempt[a].epoch = claims[r] /\ ledger[r].status = "RUNNING"
        /\ ledger[r].output = NoDocument
    BY <1>0, <1>1, <1>4, <1>7, <2>1, Completes
  <2>3. Open[r] /\ Held[a] = <<r, claims[r]>>
    <3>1. attempt[a].epoch # 0 /\ Held[a] = GrantOf(attempt[a])
      BY <1>1 DEF Held
    <3>2. GrantOf(attempt[a]) = <<r, attempt[a].epoch>>
      BY <1>0, <3>1 DEF GrantOf
    <3> QED
      BY <1>1, <2>2, <3>1, <3>2 DEF Open
  <2> HIDE DEF row
  <2>4. Stored[r] = NoDocument /\ Stored' = [Stored EXCEPT ![r] = written]
    BY <1>1, <1>4, <1>7, <2>2, Typed DEF Stored
  <2>5. Open' = [Open EXCEPT ![r] = FALSE]
    BY <1>1, <1>4, <1>7, Typed DEF Open
  <2>6. r \in [q \in Rows |-> {q}][r]
    BY <1>1
  <2>7. Fenced!Holds(a, r)
    BY <2>3 DEF Fenced!Holds, Open, Held, GrantOf
  <2>8. Fenced!Write(r, written)
    BY <2>4 DEF Fenced!Write, Stored
  <2>9. Fenced!Finish(a, r, r, written)
    BY <1>2, <1>3, <2>5, <2>6, <2>7, <2>8 DEF Fenced!Finish, Open, Held, GrantOf
  <2> QED
    <3>1. \E w \in Attempts, c \in Rows, key \in Rows, o \in Documents : Fenced!Finish(w, c, key, o)
      BY <1>1, <2>9
    <3> QED
      BY <3>1 DEF Fenced!Next
<1>8. \/ UNCHANGED ledger
      \/ HoldsRow(a, ledger[r]) /\ ledger' = [ledger EXCEPT ![r] = row]
  BY <1>0 DEF RecordStage, Summary
<1> QED
  BY <1>0, <1>5, <1>6, <1>7, <1>8 DEF HoldsRow

\* Any other step of an invocation keeps what it holds, or forgets it.
LEMMA OtherSteps ==
  ASSUME IInv, NEW a \in Attempts,
         ClaimRefused(a) \/ Execute(a) \/ PutArtifact(a) \/ StartWorkflow(a) \/ LookUp(a)
           \/ Acknowledge(a) \/ Die(a) \/ Throttled(a)
  PROVE  Fenced!Next \/ UNCHANGED <<claims, Open, Held, Stored>>
<1>1. UNCHANGED <<ledger, claims>>
  BY DEF ClaimRefused, Execute, PutArtifact, StartWorkflow, LookUp, Acknowledge, Die, Throttled, stored
<1>2. attempt[a] \in Invocation
  BY Typed
<1>3. CASE attempt' = [attempt EXCEPT ![a] = Idle]
  BY <1>1, <1>3, IdleType, ForgetStep DEF Idle
<1>4. CASE UNCHANGED Held
  BY <1>1, <1>4 DEF Open, Stored
<1>5. ASSUME NEW pc, Goto(a, pc) PROVE UNCHANGED Held
  <2>1. \A b \in Attempts : attempt'[b].epoch = attempt[b].epoch /\ attempt'[b].row = attempt[b].row
    BY <1>2, <1>5, Typed DEF Goto, Invocation
  <2> QED
    BY <2>1 DEF Held, GrantOf
<1>6. ASSUME NEW outcome, NEW written, Reply(a, outcome, written)
      PROVE  attempt' = [attempt EXCEPT ![a] = Idle]
  BY <1>6 DEF Reply
<1>7. ASSUME NEW pc, NEW written, attempt' = [attempt EXCEPT ![a].pc = pc, ![a].document = written]
      PROVE  UNCHANGED Held
  <2>1. \A b \in Attempts : attempt'[b].epoch = attempt[b].epoch /\ attempt'[b].row = attempt[b].row
    BY <1>2, <1>7, Typed DEF Invocation
  <2> QED
    BY <2>1 DEF Held, GrantOf
<1>8. CASE LookUp(a) \/ Acknowledge(a) \/ Die(a) \/ Throttled(a)
  <2>1. attempt' = [attempt EXCEPT ![a] = Idle]
    BY <1>8 DEF LookUp, Acknowledge, Die, Throttled, Redrive, Reply
  <2> QED
    BY <1>3, <2>1
<1>9. CASE ClaimRefused(a)
  <2>1. \/ attempt' = [attempt EXCEPT ![a] = Idle]
        \/ attempt' = [attempt EXCEPT ![a].pc = "acknowledge",
                                      ![a].document = ledger[attempt[a].row].output]
    BY <1>9 DEF ClaimRefused, Redrive, Reply
  <2>2. PICK written : written = ledger[attempt[a].row].output
    OBVIOUS
  <2> QED
    BY <1>3, <1>4, <1>7, <2>1, <2>2
<1>10. CASE Execute(a)
  <2>1. PICK written : written = IF attempt[a].row = Pin THEN pointer ELSE attempt[a].row
    OBVIOUS
  <2>2. \/ Goto(a, "lookup")
        \/ attempt' = [attempt EXCEPT ![a].pc = "put", ![a].document = written]
    BY <1>10, <2>1 DEF Execute
  <2> QED
    BY <1>4, <1>5, <1>7, <2>2
<1>11. CASE PutArtifact(a)
  <2>1. Goto(a, "start") \/ Goto(a, "record") \/ Goto(a, "lookup")
    BY <1>11 DEF PutArtifact
  <2> QED
    BY <1>4, <1>5, <2>1
<1>12. CASE StartWorkflow(a)
  <2>1. Goto(a, "record")
    BY <1>12 DEF StartWorkflow
  <2> QED
    BY <1>4, <1>5, <2>1
<1> QED
  BY <1>8, <1>9, <1>10, <1>11, <1>12

\* A step of a caller or of the world grants, writes and forgets nothing.
LEMMA OutsideSteps ==
  ASSUME IInv
  PROVE  /\ \A r \in Rows, a \in Attempts : Invoke(r, a) => UNCHANGED <<claims, Open, Held, Stored>>
         /\ \A r \in Rows : GiveUp(r) \/ LeaseExpires(r) => UNCHANGED <<claims, Open, Held, Stored>>
         /\ Approve \/ PointerMoves \/ UNCHANGED vars => UNCHANGED <<claims, Open, Held, Stored>>
<1>1. ASSUME NEW r \in Rows, NEW a \in Attempts, Invoke(r, a)
      PROVE  UNCHANGED <<claims, Open, Held, Stored>>
  <2> DEFINE i == [Idle EXCEPT !.pc = "claim", !.row = r]
  <2>1. /\ attempt[a].epoch = 0 /\ attempt' = [attempt EXCEPT ![a] = i]
        /\ UNCHANGED <<ledger, claims>>
    BY <1>1 DEF Invoke, Idle, stored
  <2>2. i.epoch = 0
    BY DEF Idle
  <2> HIDE DEF i
  <2>3. UNCHANGED Held
    BY <2>1, <2>2, Typed DEF Held, GrantOf
  <2> QED
    BY <2>1, <2>3 DEF Open, Stored
<1>2. ASSUME NEW r \in Rows, LeaseExpires(r)
      PROVE  UNCHANGED <<claims, Open, Held, Stored>>
  <2>1. \A q \in Rows : ledger'[q].status = ledger[q].status /\ ledger'[q].output = ledger[q].output
    BY <1>2, Typed DEF LeaseExpires, LedgerRow
  <2>2. UNCHANGED <<claims, attempt>>
    BY <1>2 DEF LeaseExpires
  <2> QED
    BY <2>1, <2>2 DEF Open, Held, Stored
<1>3. ASSUME UNCHANGED <<ledger, claims, attempt>>
      PROVE  UNCHANGED <<claims, Open, Held, Stored>>
  BY <1>3 DEF Open, Held, Stored
<1>4. ASSUME NEW r \in Rows, GiveUp(r) PROVE UNCHANGED <<ledger, claims, attempt>>
  BY <1>4 DEF GiveUp, stored
<1>5. ASSUME Approve \/ PointerMoves \/ UNCHANGED vars PROVE UNCHANGED <<ledger, claims, attempt>>
  BY <1>5 DEF Approve, PointerMoves, vars, stored
<1> QED
  BY <1>1, <1>2, <1>3, <1>4, <1>5

\* Every step of the stage ledger is a step of the fenced execution, or stutters.
LEMMA StepRefines == IInv /\ [Next]_vars => [Fenced!Next]_(Fenced!vars)
<1> SUFFICES ASSUME IInv, [Next]_vars PROVE Fenced!Next \/ UNCHANGED <<claims, Open, Held, Stored>>
  BY DEF Fenced!vars, Open, Held, Stored, GrantOf
<1>1. ASSUME NEW a \in Attempts, Step(a)
      PROVE  Fenced!Next \/ UNCHANGED <<claims, Open, Held, Stored>>
  BY <1>1, ClaimGrants, RecordFinishes, OtherSteps DEF Step
<1>2. ASSUME NEW a \in Attempts, Die(a) \/ Throttled(a)
      PROVE  Fenced!Next \/ UNCHANGED <<claims, Open, Held, Stored>>
  BY <1>2, OtherSteps
<1> QED
  BY <1>1, <1>2, OutsideSteps DEF Next

\* What the AWS deployment writes through conditional updates is what the command
\* store of the local one promises: a stage has one open epoch, and only its holder
\* writes the output, once.
THEOREM LedgerImplementsFencing == Spec => ImplementsFencedExecution
<1>1. Init => Fenced!Init
  <2> SUFFICES ASSUME Init PROVE Fenced!Init
    OBVIOUS
  <2>1. Open = [r \in Rows |-> FALSE] /\ Stored = [r \in Rows |-> NoDocument]
    BY DEF Init, NoRow, Open, Stored
  <2>2. Held = [a \in Attempts |-> NoAttempt]
    BY DEF Init, Idle, Held, GrantOf
  <2>3. claims = [r \in Rows |-> 0]
    BY DEF Init
  <2> QED
    BY <2>1, <2>2, <2>3 DEF Fenced!Init, Open, Held, Stored, GrantOf
<1> QED
  BY <1>1, StepRefines, Invariant, PTL DEF Spec, ImplementsFencedExecution, Fenced!Spec

-----------------------------------------------------------------------------
(* The stages.                                                             *)

\* The stages, by what a document that waits for them has been through.
BaselineStages == {"B1", "B2", "B3", "B4", "B5", "B6", "B7", "B8", "B9"}
IncrementalStages == {"I1", "I2", "I3", "I4", "I5", "I6", "I7", "I8", "I9"}
Endings == {"AWAITING_APPROVAL", "PUBLISHED", "REJECTED", "NO_LINEAGE", "QUARANTINED",
            "FAILED_REDRIVABLE"}
Planned == {"B5", "B6", "B7", "B8", "B9", "I4", "I5", "I6", "I7", "I8", "I9",
            "AWAITING_APPROVAL", "PUBLISHED"}
Unanalysed == {"B1", "B2", "B3", "B4", "B5", "I1", "I2", "I3", "I4", "I5"}
Unconsolidated == {"NONE", "B1", "B2", "B3", "B4", "B5", "B6", "B7", "B8",
                   "I1", "I2", "I3", "I4", "I5", "I6", "I7"}
Consolidated == {"B9", "I8", "I9"}

Sources == {i.source : i \in Intents}
Graphs == Stages!Commands \cup {Stages!NoGraph}
Document ==
  [stage : {"NONE"} \cup BaselineStages \cup IncrementalStages \cup Endings,
   pins : {{}} \cup {i.pins : i \in Intents}, evidence : {{}} \cup {i.evidence : i \in Intents},
   manifests : {{}} \cup {i.manifests : i \in Intents}, base : Graphs, fence : Nat,
   changed : SUBSET Files, removed : SUBSET Files, closure : SUBSET Files,
   status : {"NONE", "EVALUATED", "REVIEW_REQUIRED"},
   expected : SUBSET Files, recomputed : SUBSET Files, skipped : SUBSET Files,
   unsupported : SUBSET Files, completed : SUBSET Files, edges : SUBSET Edges,
   runtime : {"NONE", "QUARANTINED", "INCOMPLETE", "NOT_PROVIDED", "VALIDATED"},
   coverage : {"NONE", "COMPLETE", "INCOMPLETE"}]
WorkUnit == [state : {"PENDING", "SUCCEEDED", "FAILED"}, tries : 0 .. MaxTries, edges : SUBSET Edges]

StagesTyped ==
  /\ content \in Seq(Sources) /\ Len(content) \in Revisions \cup {0}
  /\ document \in [Stages!Commands -> Document]
  /\ worker \in [Stages!Commands -> [Files -> WorkUnit]]
  /\ active \in [version : Graphs, fence : Nat]
  /\ rows \in [Graphs -> SUBSET Edges]
  /\ stops \in Nat

Pushed(c) == Stages!Revision(c) \in 1 .. Len(content)

\* What is found in a file of the pinned source.
Found(c, f, edges) ==
  f \in DOMAIN Stages!SourceOf(c) /\ Stages!SourceOf(c)[f] # Unparsable /\ edges = Stages!SourceOf(c)[f]

KindOK(c, d) ==
  /\ d.stage \in BaselineStages => c[1] = "BASELINE"
  /\ d.stage \in IncrementalStages => c[1] = "INCREMENTAL"

ScopeOK(c, d) ==
  /\ d.removed \cap DOMAIN Stages!SourceOf(c) = {}
  /\ IF c[1] = "BASELINE" THEN d.skipped \subseteq Skippable ELSE d.skipped \subseteq d.removed

PlanOK(c, d) ==
  d.stage \in Planned =>
    /\ c[1] = "BASELINE" => d.expected = DOMAIN Stages!SourceOf(c)
    /\ c[1] = "INCREMENTAL" => d.expected = d.changed \cup d.removed /\ d.recomputed \subseteq d.changed

AnalysisOK(c, d) ==
  /\ d.stage \in Unanalysed => d.completed = {}
  /\ d.stage \in Planned => d.recomputed \subseteq Python
  /\ d.stage \in Planned \ Unanalysed => d.completed \subseteq d.recomputed
  /\ d.completed \subseteq Python
  /\ Stages!Readable(c, d.completed)
  /\ d.edges = Stages!EdgesOf(c, d.completed)

CoverageOK(d) ==
  /\ d.stage \in Unconsolidated => d.coverage = "NONE"
  /\ d.stage \in Consolidated => d.coverage # "NONE"
  /\ d.stage \in {"AWAITING_APPROVAL", "PUBLISHED"} => d.coverage = "COMPLETE"
  /\ d.coverage = "COMPLETE" => Stages!Complete(d)

DocumentOK(c, d) ==
  /\ KindOK(c, d) /\ CoverageOK(d)
  /\ d.stage # "NONE" => Pushed(c) /\ ScopeOK(c, d) /\ PlanOK(c, d) /\ AnalysisOK(c, d)

WorkerOK(c, f, w) ==
  /\ w.state = "PENDING" => w.tries < MaxTries
  /\ w.state = "SUCCEEDED" => Pushed(c) /\ Stages!Readable(c, {f}) /\ w.edges = Stages!SourceOf(c)[f]

DocumentsOK == \A c \in Stages!Commands : DocumentOK(c, document[c])
WorkersOK == \A c \in Stages!Commands, f \in Files : WorkerOK(c, f, worker[c][f])
StagesInv == StagesTyped /\ DocumentsOK /\ WorkersOK /\ Stages!PublishedIsKept

\* A stage handed on a document that is in order, and did nothing else.
Handed(c, new) ==
  /\ new \in Document /\ DocumentOK(c, new) /\ new.stage # "PUBLISHED"
  /\ Stages!HandOn(c, new)
  /\ UNCHANGED <<content, worker, active, rows, stops>>

-----------------------------------------------------------------------------
LEMMA CommandParts ==
  ASSUME NEW c \in Stages!Commands
  PROVE  c[1] \in {"BASELINE", "INCREMENTAL"} /\ Stages!Revision(c) \in Revisions
BY DEF Stages!Commands, Stages!Revision

\* What the invariant says of one document.
LEMMA OfDocument ==
  ASSUME StagesInv, NEW c \in Stages!Commands
  PROVE  document[c] \in Document /\ DocumentOK(c, document[c])
BY DEF StagesInv, StagesTyped, DocumentsOK

\* A document that was handed on leaves the invariant as it was.
LEMMA HandedKeeps ==
  ASSUME StagesInv, NEW c \in Stages!Commands, NEW new, Handed(c, new)
  PROVE  StagesInv'
<1> USE DEF StagesInv, Handed, Stages!HandOn
<1>1. document' = [document EXCEPT ![c] = new] /\ document \in [Stages!Commands -> Document]
  BY DEF StagesTyped
<1>2. StagesTyped'
  BY <1>1 DEF StagesTyped
<1>3. DocumentsOK'
  <2> SUFFICES ASSUME NEW b \in Stages!Commands PROVE DocumentOK(b, document[b])'
    BY DEF DocumentsOK
  <2>1. DocumentOK(b, document'[b])
    BY <1>1 DEF DocumentsOK
  <2> QED
    BY <2>1 DEF DocumentOK, KindOK, CoverageOK, Pushed, ScopeOK, PlanOK, AnalysisOK,
       Stages!SourceOf, Stages!Readable, Stages!EdgesOf, Stages!Complete, Stages!ExactlyAccounted
<1>4. WorkersOK'
  BY DEF WorkersOK, WorkerOK, Pushed, Stages!Readable, Stages!SourceOf
<1>5. Stages!PublishedIsKept'
  BY <1>1 DEF Stages!PublishedIsKept
<1> QED
  BY <1>2, <1>3, <1>4, <1>5

\* A stage that raises keeps all that is known of its document.
LEMMA RaiseKeeps ==
  ASSUME StagesInv, NEW c \in Stages!Commands, Stages!Raise(c), document[c].stage # "NONE",
         UNCHANGED <<content, worker, active, rows, stops>>
  PROVE  StagesInv'
<1> DEFINE d == document[c]
<1>1. d \in Document /\ DocumentOK(c, d)
  BY OfDocument
<1>2. PICK new : new = [d EXCEPT !.stage = "FAILED_REDRIVABLE"]
  OBVIOUS
<1>3. /\ new \in Document /\ new.stage = "FAILED_REDRIVABLE"
      /\ new.removed = d.removed /\ new.skipped = d.skipped /\ new.completed = d.completed
      /\ new.edges = d.edges /\ new.coverage = d.coverage /\ new.expected = d.expected
      /\ new.unsupported = d.unsupported
  BY <1>1, <1>2 DEF Document, Endings
<1>4. DocumentOK(c, new)
  BY <1>1, <1>3 DEF DocumentOK, KindOK, CoverageOK, ScopeOK, PlanOK, AnalysisOK, BaselineStages,
     IncrementalStages, Planned, Unanalysed, Unconsolidated, Consolidated, Stages!Complete, Stages!ExactlyAccounted
<1>5. document' = [document EXCEPT ![c] = new]
  BY <1>2 DEF Stages!Raise
<1>6. Handed(c, new)
  BY <1>3, <1>4, <1>5 DEF Handed, Stages!HandOn
<1> QED
  BY <1>6, HandedKeeps

\* A document of which only the stage changed, and what the new stage asks of it.
LEMMA StageKeeps ==
  ASSUME NEW c \in Stages!Commands, NEW d \in Document, DocumentOK(c, d), d.stage # "NONE",
         NEW s \in BaselineStages \cup IncrementalStages \cup Endings, NEW new,
         new = [d EXCEPT !.stage = s],
         s \in BaselineStages => c[1] = "BASELINE", s \in IncrementalStages => c[1] = "INCREMENTAL",
         s \in Planned => d.stage \in Planned,
         s \in Unanalysed => d.stage \in Unanalysed,
         s \in Planned \ Unanalysed => d.stage \in Planned \ Unanalysed,
         s \in Unconsolidated => d.coverage = "NONE", s \in Consolidated => d.coverage # "NONE",
         s \in {"AWAITING_APPROVAL", "PUBLISHED"} => d.coverage = "COMPLETE"
  PROVE  new \in Document /\ DocumentOK(c, new) /\ new.stage = s
<1>1. new \in Document /\ new.stage = s
  BY DEF Document
<1>2. /\ new.removed = d.removed /\ new.skipped = d.skipped /\ new.completed = d.completed
      /\ new.edges = d.edges /\ new.coverage = d.coverage /\ new.expected = d.expected
      /\ new.unsupported = d.unsupported /\ new.changed = d.changed /\ new.recomputed = d.recomputed
  BY DEF Document
<1>3. CoverageOK(new)
  BY <1>1, <1>2 DEF DocumentOK, CoverageOK, Stages!Complete, Stages!ExactlyAccounted
<1>4. KindOK(c, new)
  BY <1>1 DEF KindOK
<1>5. Pushed(c) /\ ScopeOK(c, new) /\ PlanOK(c, new)
  BY <1>1, <1>2 DEF DocumentOK, ScopeOK, PlanOK
<1>6. AnalysisOK(c, new)
  BY <1>1, <1>2 DEF DocumentOK, AnalysisOK
<1> QED
  BY <1>1, <1>3, <1>4, <1>5, <1>6 DEF DocumentOK

-----------------------------------------------------------------------------
LEMMA PinIntentKeeps ==
  ASSUME StagesInv, NEW c \in Stages!Commands, Stages!PinIntent(c)
  PROVE  StagesInv'
<1> DEFINE d == document[c]
           s == IF d.stage = "B1" THEN "B2" ELSE "I2"
<1>1. d \in Document /\ DocumentOK(c, d)
  BY OfDocument
<1>2. d.stage \in {"B1", "I1"} /\ s \in {"B2", "I2"}
  BY DEF Stages!PinIntent
<1>a. s = "B2" <=> d.stage = "B1"
  OBVIOUS
<1>7. Stages!HandOn(c, [d EXCEPT !.stage = s, !.base = active.version, !.fence = active.fence])
  BY DEF Stages!PinIntent
<1> HIDE DEF s
<1>3. PICK new : new = [d EXCEPT !.stage = s, !.base = active.version, !.fence = active.fence]
  OBVIOUS
<1>4. active.version \in Graphs /\ active.fence \in Nat
  BY DEF StagesInv, StagesTyped
<1>5. /\ new \in Document /\ new.stage = s
      /\ new.removed = d.removed /\ new.skipped = d.skipped /\ new.completed = d.completed
      /\ new.edges = d.edges /\ new.coverage = d.coverage /\ new.expected = d.expected
      /\ new.unsupported = d.unsupported
  BY <1>1, <1>2, <1>3, <1>4 DEF Document, BaselineStages, IncrementalStages
<1>6. DocumentOK(c, new)
  BY <1>1, <1>2, <1>a, <1>5 DEF DocumentOK, KindOK, CoverageOK, ScopeOK, PlanOK, AnalysisOK, BaselineStages,
     IncrementalStages, Planned, Unanalysed, Unconsolidated, Consolidated, Stages!Complete, Stages!ExactlyAccounted
<1>8. Handed(c, new)
  BY <1>2, <1>3, <1>5, <1>6, <1>7 DEF Handed, Stages!PinIntent
<1> QED
  BY <1>8, HandedKeeps

LEMMA BaselinePinsKeeps ==
  ASSUME StagesInv, NEW c \in Stages!Commands, Stages!BaselinePins(c)
  PROVE  StagesInv'
<1> DEFINE d == document[c]
<1>1. d \in Document /\ DocumentOK(c, d)
  BY OfDocument
<1>2. d.stage = "B2" /\ UNCHANGED <<content, worker, active, rows, stops>>
  BY DEF Stages!BaselinePins, Stages!At
<1>3. CASE Stages!Raise(c)
  BY <1>2, <1>3, RaiseKeeps
<1>4. CASE Stages!HandOn(c, [d EXCEPT !.stage = "B3"])
  <2>1. PICK new : new = [d EXCEPT !.stage = "B3"]
    OBVIOUS
  <2>2. c[1] = "BASELINE" /\ d.coverage = "NONE"
    BY <1>1, <1>2 DEF DocumentOK, KindOK, CoverageOK, BaselineStages, Unconsolidated
  <2>3. new \in Document /\ DocumentOK(c, new) /\ new.stage = "B3"
    BY <1>1, <1>2, <2>1, <2>2, StageKeeps DEF BaselineStages, IncrementalStages, Planned, Unanalysed,
       Consolidated
  <2>4. Handed(c, new)
    BY <1>2, <1>4, <2>1, <2>3 DEF Handed
  <2> QED
    BY <2>4, HandedKeeps
<1> QED
  BY <1>3, <1>4 DEF Stages!BaselinePins

LEMMA ClassifyKeeps ==
  ASSUME StagesInv, NEW c \in Stages!Commands, Stages!Classify(c)
  PROVE  StagesInv'
<1> DEFINE d == document[c]
           status == IF Stages!Decided(d.evidence) THEN "EVALUATED" ELSE "REVIEW_REQUIRED"
<1>1. d \in Document /\ DocumentOK(c, d)
  BY OfDocument
<1>2. /\ d.stage = "B3" /\ UNCHANGED <<content, worker, active, rows, stops>>
      /\ Stages!HandOn(c, [d EXCEPT !.stage = "B4", !.status = status])
  BY DEF Stages!Classify, Stages!At
<1>3. status \in {"EVALUATED", "REVIEW_REQUIRED"}
  OBVIOUS
<1> HIDE DEF status
<1>4. PICK new : new = [d EXCEPT !.stage = "B4", !.status = status]
  OBVIOUS
<1>5. /\ new \in Document /\ new.stage = "B4"
      /\ new.removed = d.removed /\ new.skipped = d.skipped /\ new.completed = d.completed
      /\ new.edges = d.edges /\ new.coverage = d.coverage /\ new.expected = d.expected
      /\ new.unsupported = d.unsupported
  BY <1>1, <1>3, <1>4 DEF Document, BaselineStages
<1>6. DocumentOK(c, new)
  BY <1>1, <1>2, <1>5 DEF DocumentOK, KindOK, CoverageOK, ScopeOK, PlanOK, AnalysisOK, BaselineStages,
     IncrementalStages, Planned, Unanalysed, Unconsolidated, Consolidated, Stages!Complete, Stages!ExactlyAccounted
<1>7. Handed(c, new)
  BY <1>2, <1>4, <1>5, <1>6 DEF Handed
<1> QED
  BY <1>7, HandedKeeps

\* The files of a source are paths, and its edges are edges.
LEMMA SourceType ==
  ASSUME StagesInv, NEW c \in Stages!Commands, Pushed(c)
  PROVE  /\ DOMAIN Stages!SourceOf(c) \subseteq Files
         /\ \A f \in DOMAIN Stages!SourceOf(c) : Stages!SourceOf(c)[f] # Unparsable => Stages!SourceOf(c)[f] \subseteq Edges
<1>1. Stages!SourceOf(c) \in Sources
  BY DEF StagesInv, StagesTyped, Pushed, Stages!SourceOf
<1>2. PICK i \in Intents : Stages!SourceOf(c) = i.source
  BY <1>1 DEF Sources
<1> QED
  BY <1>2, StagesAssumption DEF Stages!SourceParameters

LEMMA PlanBaselineKeeps ==
  ASSUME StagesInv, NEW c \in Stages!Commands, Stages!PlanBaseline(c)
  PROVE  StagesInv'
<1> DEFINE d == document[c]
           inventory == DOMAIN Stages!SourceOf(c)
           unsupported == inventory \ (Python \cup Stages!Skipped(inventory))
<1>1. d \in Document /\ DocumentOK(c, d)
  BY OfDocument
<1>2. d.stage = "B4" /\ UNCHANGED <<content, worker, active, rows, stops>>
  BY DEF Stages!PlanBaseline, Stages!At
<1>3. CASE Stages!Raise(c)
  BY <1>2, <1>3, RaiseKeeps
<1>4. CASE Stages!HandOn(c, [d EXCEPT !.stage = "B5", !.expected = inventory,
                        !.recomputed = inventory \cap Python, !.skipped = Stages!Skipped(inventory),
                        !.unsupported = unsupported])
  <2>1. PICK new : new = [d EXCEPT !.stage = "B5", !.expected = inventory,
                            !.recomputed = inventory \cap Python, !.skipped = Stages!Skipped(inventory),
                            !.unsupported = unsupported]
    OBVIOUS
  <2>2. c[1] = "BASELINE" /\ d.coverage = "NONE" /\ d.completed = {} /\ Pushed(c)
    BY <1>1, <1>2 DEF DocumentOK, KindOK, CoverageOK, AnalysisOK, BaselineStages, Unconsolidated, Unanalysed
  <2>3. inventory \in SUBSET Files
    BY <2>2, SourceType
  <2>4. /\ inventory \cap Python \in SUBSET Files /\ Stages!Skipped(inventory) \in SUBSET Files
        /\ unsupported \in SUBSET Files /\ Stages!Skipped(inventory) \subseteq Skippable
    BY <2>3 DEF Stages!Skipped
  <2> HIDE DEF inventory, unsupported
  <2>5. /\ new \in Document /\ new.stage = "B5" /\ new.expected = inventory
        /\ new.recomputed = inventory \cap Python /\ new.skipped = Stages!Skipped(inventory)
        /\ new.removed = d.removed /\ new.completed = d.completed
        /\ new.edges = d.edges /\ new.coverage = d.coverage
    BY <1>1, <2>1, <2>3, <2>4 DEF Document, BaselineStages
  <2>6. DocumentOK(c, new)
    <3>1. ScopeOK(c, new)
      BY <1>1, <1>2, <2>2, <2>4, <2>5 DEF DocumentOK, ScopeOK
    <3>2. PlanOK(c, new)
      BY <2>2, <2>5 DEF PlanOK, inventory
    <3>3. AnalysisOK(c, new)
      BY <1>1, <1>2, <2>2, <2>5 DEF DocumentOK, AnalysisOK, Planned, Unanalysed
    <3>4. KindOK(c, new) /\ CoverageOK(new)
      BY <2>2, <2>5 DEF KindOK, CoverageOK, IncrementalStages, Consolidated
    <3> QED
      BY <2>2, <3>1, <3>2, <3>3, <3>4 DEF DocumentOK
  <2>7. Handed(c, new)
    BY <1>2, <1>4, <2>1, <2>5, <2>6 DEF Handed
  <2> QED
    BY <2>7, HandedKeeps
<1> QED
  BY <1>3, <1>4 DEF Stages!PlanBaseline, Stages!SourceOf

LEMMA ChangedScopeKeeps ==
  ASSUME StagesInv, NEW c \in Stages!Commands, Stages!ChangedScope(c)
  PROVE  StagesInv'
<1> DEFINE d == document[c]
           changed == (d.changed \cup d.closure) \ d.removed
<1>1. d \in Document /\ DocumentOK(c, d)
  BY OfDocument
<1>2. /\ d.stage = "I2" /\ UNCHANGED <<content, worker, active, rows, stops>>
      /\ Stages!HandOn(c, [d EXCEPT !.stage = "I3", !.changed = changed])
  BY DEF Stages!ChangedScope, Stages!At
<1>3. changed \in SUBSET Files
  BY <1>1 DEF Document
<1> HIDE DEF changed
<1>4. PICK new : new = [d EXCEPT !.stage = "I3", !.changed = changed]
  OBVIOUS
<1>5. /\ new \in Document /\ new.stage = "I3"
      /\ new.removed = d.removed /\ new.skipped = d.skipped /\ new.completed = d.completed
      /\ new.edges = d.edges /\ new.coverage = d.coverage /\ new.expected = d.expected
      /\ new.unsupported = d.unsupported
  BY <1>1, <1>3, <1>4 DEF Document, IncrementalStages
<1>6. DocumentOK(c, new)
  BY <1>1, <1>2, <1>5 DEF DocumentOK, KindOK, CoverageOK, ScopeOK, PlanOK, AnalysisOK, BaselineStages,
     IncrementalStages, Planned, Unanalysed, Unconsolidated, Consolidated, Stages!Complete, Stages!ExactlyAccounted
<1>7. Handed(c, new)
  BY <1>2, <1>4, <1>5, <1>6 DEF Handed
<1> QED
  BY <1>7, HandedKeeps

LEMMA PlanDeltaKeeps ==
  ASSUME StagesInv, NEW c \in Stages!Commands, Stages!PlanDelta(c)
  PROVE  StagesInv'
<1> DEFINE d == document[c]
<1>1. d \in Document /\ DocumentOK(c, d)
  BY OfDocument
<1>2. /\ d.stage = "I3" /\ UNCHANGED <<content, worker, active, rows, stops>>
      /\ Stages!HandOn(c, [d EXCEPT !.stage = "I4", !.expected = d.changed \cup d.removed,
                             !.recomputed = d.changed \cap Python,
                             !.unsupported = d.changed \ Python, !.skipped = d.removed])
  BY DEF Stages!PlanDelta, Stages!At
<1>3. PICK new : new = [d EXCEPT !.stage = "I4", !.expected = d.changed \cup d.removed,
                             !.recomputed = d.changed \cap Python,
                             !.unsupported = d.changed \ Python, !.skipped = d.removed]
  OBVIOUS
<1>4. /\ d.changed \cup d.removed \in SUBSET Files /\ d.changed \cap Python \in SUBSET Files
      /\ d.changed \ Python \in SUBSET Files /\ d.removed \in SUBSET Files
  BY <1>1 DEF Document
<1>5. /\ new \in Document /\ new.stage = "I4" /\ new.expected = d.changed \cup d.removed
      /\ new.recomputed = d.changed \cap Python /\ new.skipped = d.removed
      /\ new.changed = d.changed /\ new.removed = d.removed /\ new.completed = d.completed
      /\ new.edges = d.edges /\ new.coverage = d.coverage
  BY <1>1, <1>3, <1>4 DEF Document, IncrementalStages
<1>6. c[1] = "INCREMENTAL" /\ d.coverage = "NONE" /\ d.completed = {} /\ Pushed(c)
  BY <1>1, <1>2 DEF DocumentOK, KindOK, CoverageOK, AnalysisOK, IncrementalStages, Unconsolidated, Unanalysed
<1>7. DocumentOK(c, new)
  <2>1. ScopeOK(c, new) /\ PlanOK(c, new)
    BY <1>1, <1>2, <1>5, <1>6 DEF DocumentOK, ScopeOK, PlanOK
  <2>2. AnalysisOK(c, new)
    BY <1>1, <1>2, <1>5, <1>6 DEF DocumentOK, AnalysisOK, Unanalysed
  <2>3. KindOK(c, new) /\ CoverageOK(new)
    BY <1>5, <1>6 DEF KindOK, CoverageOK, BaselineStages, Consolidated
  <2> QED
    BY <1>6, <2>1, <2>2, <2>3 DEF DocumentOK
<1>8. Handed(c, new)
  BY <1>2, <1>3, <1>5, <1>7 DEF Handed
<1> QED
  BY <1>8, HandedKeeps

LEMMA ImmutableInputsKeeps ==
  ASSUME StagesInv, NEW c \in Stages!Commands, Stages!ImmutableInputs(c)
  PROVE  StagesInv'
<1> DEFINE d == document[c]
<1>1. d \in Document /\ DocumentOK(c, d)
  BY OfDocument
<1>2. d.stage = "I4" /\ UNCHANGED <<content, worker, active, rows, stops>>
  BY DEF Stages!ImmutableInputs, Stages!At
<1>3. CASE Stages!Raise(c)
  BY <1>2, <1>3, RaiseKeeps
<1>4. CASE Stages!HandOn(c, [d EXCEPT !.stage = "I5"])
  <2>1. PICK new : new = [d EXCEPT !.stage = "I5"]
    OBVIOUS
  <2>2. c[1] = "INCREMENTAL" /\ d.coverage = "NONE"
    BY <1>1, <1>2 DEF DocumentOK, KindOK, CoverageOK, IncrementalStages, Unconsolidated
  <2>3. new \in Document /\ DocumentOK(c, new) /\ new.stage = "I5"
    BY <1>1, <1>2, <2>1, <2>2, StageKeeps DEF BaselineStages, IncrementalStages, Planned, Unanalysed,
       Consolidated
  <2>4. Handed(c, new)
    BY <1>2, <1>4, <2>1, <2>3 DEF Handed
  <2> QED
    BY <2>4, HandedKeeps
<1> QED
  BY <1>3, <1>4 DEF Stages!ImmutableInputs

-----------------------------------------------------------------------------
\* What an analysis finds in readable paths are edges.
LEMMA EdgesType ==
  ASSUME StagesInv, NEW c \in Stages!Commands, Pushed(c), NEW paths, Stages!Readable(c, paths)
  PROVE  Stages!EdgesOf(c, paths) \in SUBSET Edges
BY SourceType DEF Stages!Readable, Stages!EdgesOf

\* The document after an analysis that completed these files and found these edges.
Analysed(d, stage, done, edges) == [d EXCEPT !.stage = stage, !.completed = done, !.edges = edges]

LEMMA AnalysedOK ==
  ASSUME StagesInv, NEW c \in Stages!Commands, NEW d \in Document, DocumentOK(c, d), NEW new, NEW s,
         (d.stage = "B5" /\ s = "B6") \/ (d.stage = "I5" /\ s = "I6"),
         NEW done, done \in SUBSET d.recomputed, Stages!Readable(c, done), NEW edges, edges = Stages!EdgesOf(c, done),
         new = Analysed(d, s, done, edges)
  PROVE  new \in Document /\ DocumentOK(c, new) /\ new.stage = s
<1>1. d \in Document /\ DocumentOK(c, d)
  OBVIOUS
<1>2. d.stage \in Planned /\ d.stage \in Unconsolidated /\ d.stage # "NONE"
  BY DEF Planned, Unconsolidated
<1>3. Pushed(c) /\ d.coverage = "NONE" /\ done \subseteq Python
  BY <1>1, <1>2 DEF DocumentOK, CoverageOK, AnalysisOK
<1>4. edges \in SUBSET Edges /\ done \in SUBSET Files
  BY <1>1, <1>3, EdgesType DEF Document
<1>5. /\ new \in Document /\ new.stage = s /\ new.completed = done /\ new.edges = edges
      /\ new.expected = d.expected /\ new.recomputed = d.recomputed /\ new.skipped = d.skipped
      /\ new.changed = d.changed /\ new.removed = d.removed /\ new.coverage = d.coverage
  <2>1. s \in BaselineStages \cup IncrementalStages
    BY DEF BaselineStages, IncrementalStages
  <2>2. new \in Document
    BY <1>1, <1>4, <2>1, ZenonT(30) DEF Document, Analysed
  <2>3. new.stage = s /\ new.completed = done /\ new.edges = edges
    BY <1>1 DEF Document, Analysed
  <2> QED
    BY <1>1, <2>2, <2>3 DEF Document, Analysed
<1>6. ScopeOK(c, new) /\ PlanOK(c, new)
  BY <1>1, <1>2, <1>5 DEF DocumentOK, ScopeOK, PlanOK
<1>7. AnalysisOK(c, new)
  <2>1. s \notin Unanalysed /\ new.recomputed \subseteq Python
    BY <1>1, <1>2, <1>5 DEF DocumentOK, AnalysisOK, Unanalysed
  <2> QED
    BY <1>3, <1>5, <2>1 DEF AnalysisOK
<1>8. KindOK(c, new) /\ CoverageOK(new)
  BY <1>1, <1>3, <1>5 DEF DocumentOK, KindOK, CoverageOK, BaselineStages, IncrementalStages, Consolidated
<1> QED
  BY <1>3, <1>5, <1>6, <1>7, <1>8 DEF DocumentOK

LEMMA AnalyseDeltaKeeps ==
  ASSUME StagesInv, NEW c \in Stages!Commands, Stages!AnalyseDelta(c)
  PROVE  StagesInv'
<1> DEFINE d == document[c]
           edges == Stages!EdgesOf(c, d.recomputed)
<1>0. d \in Document /\ DocumentOK(c, d)
  BY OfDocument
<1>1. d.stage = "I5" /\ UNCHANGED <<content, worker, active, rows, stops>>
  BY DEF Stages!AnalyseDelta, Stages!At
<1>2. CASE Stages!Raise(c)
  BY <1>1, <1>2, RaiseKeeps
<1>3. CASE Stages!Readable(c, d.recomputed)
           /\ Stages!HandOn(c, [d EXCEPT !.stage = "I6", !.completed = d.recomputed, !.edges = edges])
  <2>1. PICK new : new = [d EXCEPT !.stage = "I6", !.completed = d.recomputed, !.edges = edges]
    OBVIOUS
  <2>a. PICK planned, found : planned = d.recomputed /\ found = edges
    OBVIOUS
  <2>b. /\ planned \in SUBSET d.recomputed /\ Stages!Readable(c, planned) /\ found = Stages!EdgesOf(c, planned)
        /\ new = Analysed(d, "I6", planned, found)
    BY <1>3, <2>1, <2>a DEF Analysed
  <2> HIDE DEF d, edges
  <2>2. new \in Document /\ DocumentOK(c, new) /\ new.stage = "I6"
    BY <1>0, <1>1, <2>b, AnalysedOK
  <2>3. Handed(c, new)
    BY <1>1, <1>3, <2>1, <2>2 DEF Handed
  <2> QED
    BY <2>3, HandedKeeps
<1> QED
  BY <1>2, <1>3 DEF Stages!AnalyseDelta

\* A worker whose new state is in order leaves the invariant as it was.
LEMMA WorkerKeeps ==
  ASSUME StagesInv, NEW c \in Stages!Commands, NEW f \in Files, NEW w \in WorkUnit, WorkerOK(c, f, w),
         Stages!SetWorker(c, f, w), stops' \in Nat, UNCHANGED <<content, document, active, rows>>
  PROVE  StagesInv'
<1>1. /\ worker \in [Stages!Commands -> [Files -> WorkUnit]]
      /\ worker' = [worker EXCEPT ![c][f] = w]
  BY DEF StagesInv, StagesTyped, Stages!SetWorker
<1>2. StagesTyped'
  BY <1>1 DEF StagesInv, StagesTyped
<1>3. DocumentsOK'
  BY DEF StagesInv, DocumentsOK, DocumentOK, KindOK, CoverageOK, Pushed, ScopeOK, PlanOK, AnalysisOK,
     Stages!SourceOf, Stages!Readable, Stages!EdgesOf, Stages!Complete, Stages!ExactlyAccounted
<1>4. WorkersOK'
  <2> SUFFICES ASSUME NEW b \in Stages!Commands, NEW g \in Files PROVE WorkerOK(b, g, worker[b][g])'
    BY DEF WorkersOK
  <2>1. WorkerOK(b, g, worker'[b][g])
    BY <1>1 DEF StagesInv, WorkersOK
  <2> QED
    BY <2>1 DEF WorkerOK, Pushed, Stages!Readable, Stages!SourceOf
<1>5. Stages!PublishedIsKept'
  BY DEF StagesInv, Stages!PublishedIsKept
<1> QED
  BY <1>2, <1>3, <1>4, <1>5 DEF StagesInv

LEMMA AnalyseUnitKeeps ==
  ASSUME StagesInv, NEW c \in Stages!Commands, NEW f \in Files, Stages!AnalyseUnit(c, f)
  PROVE  StagesInv'
<1> DEFINE w == worker[c][f]
           edges == Stages!EdgesOf(c, {f})
<1>1. /\ w \in WorkUnit /\ w.state = "PENDING" /\ stops \in Nat
      /\ UNCHANGED <<content, document, active, rows, stops>>
  BY DEF StagesInv, StagesTyped, Stages!AnalyseUnit
<1>2. Pushed(c)
  BY OfDocument DEF Stages!AnalyseUnit, Stages!At, DocumentOK
<1>3. CASE Stages!Readable(c, {f})
  <2>1. PICK new : new = [w EXCEPT !.state = "SUCCEEDED", !.edges = edges]
    OBVIOUS
  <2>2. edges \in SUBSET Edges
    BY <1>2, <1>3, EdgesType
  <2>3. new \in WorkUnit /\ new.state = "SUCCEEDED" /\ new.edges = edges
    BY <1>1, <2>1, <2>2 DEF WorkUnit
  <2>4. edges = Stages!SourceOf(c)[f]
    BY DEF Stages!EdgesOf
  <2>5. WorkerOK(c, f, new)
    BY <1>2, <1>3, <2>3, <2>4 DEF WorkerOK
  <2>6. Stages!SetWorker(c, f, new)
    BY <1>3, <2>1 DEF Stages!AnalyseUnit
  <2> QED
    BY <1>1, <2>3, <2>5, <2>6, WorkerKeeps
<1>4. CASE ~Stages!Readable(c, {f})
  <2>1. PICK new : new = [w EXCEPT !.state = "FAILED"]
    OBVIOUS
  <2>2. new \in WorkUnit /\ new.state = "FAILED"
    BY <1>1, <2>1 DEF WorkUnit
  <2>3. WorkerOK(c, f, new)
    BY <2>2 DEF WorkerOK
  <2>4. Stages!SetWorker(c, f, new)
    BY <1>4, <2>1 DEF Stages!AnalyseUnit
  <2> QED
    BY <1>1, <2>2, <2>3, <2>4, WorkerKeeps
<1> QED
  BY <1>3, <1>4

LEMMA WorkerStopsKeeps ==
  ASSUME StagesInv, NEW c \in Stages!Commands, NEW f \in Files, Stages!WorkerStops(c, f)
  PROVE  StagesInv'
<1> DEFINE w == worker[c][f]
           state == IF w.tries + 1 = MaxTries THEN "FAILED" ELSE w.state
<1>1. /\ w \in WorkUnit /\ w.state = "PENDING" /\ stops \in Nat /\ stops' = stops + 1
      /\ UNCHANGED <<content, document, active, rows>>
  BY DEF StagesInv, StagesTyped, Stages!WorkerStops
<1>2. Stages!SetWorker(c, f, [w EXCEPT !.tries = w.tries + 1, !.state = state])
  BY DEF Stages!WorkerStops
<1>3. w.tries \in 0 .. MaxTries /\ w.tries < MaxTries /\ MaxTries \in Nat
  BY <1>1, StagesAssumption DEF StagesInv, WorkersOK, WorkerOK, WorkUnit, Stages!SourceParameters
<1>4. PICK n : n = w.tries + 1
  OBVIOUS
<1>5. n \in 0 .. MaxTries /\ state \in {"PENDING", "FAILED"} /\ (state = "PENDING" => n < MaxTries)
  BY <1>1, <1>3, <1>4
<1> HIDE DEF state
<1>6. PICK new : new = [w EXCEPT !.tries = n, !.state = state]
  OBVIOUS
<1>7. new \in WorkUnit /\ new.state = state /\ new.tries = n
  BY <1>1, <1>5, <1>6 DEF WorkUnit
<1>8. WorkerOK(c, f, new)
  BY <1>5, <1>7 DEF WorkerOK
<1>9. Stages!SetWorker(c, f, new) /\ stops' \in Nat
  BY <1>1, <1>2, <1>4, <1>6
<1> QED
  BY <1>1, <1>7, <1>8, <1>9, WorkerKeeps

LEMMA AggregateKeeps ==
  ASSUME StagesInv, NEW c \in Stages!Commands, Stages!Aggregate(c)
  PROVE  StagesInv'
<1> DEFINE d == document[c]
           done == Stages!Ended(c, "SUCCEEDED")
           edges == UNION {worker[c][f].edges : f \in done}
<1>0. d \in Document /\ DocumentOK(c, d)
  BY OfDocument
<1>1. d.stage = "B5" /\ UNCHANGED <<content, worker, active, rows, stops>>
  BY DEF Stages!Aggregate, Stages!At
<1>2. CASE Stages!Raise(c)
  BY <1>1, <1>2, RaiseKeeps
<1>3. CASE Stages!HandOn(c, [d EXCEPT !.stage = "B6", !.completed = done, !.edges = edges])
  <2>1. done \in SUBSET d.recomputed
    BY DEF Stages!Ended
  <2>2. done \subseteq Files
    BY <2>1, OfDocument DEF Document
  <2>3. \A f \in done : Stages!Readable(c, {f}) /\ worker[c][f].edges = Stages!SourceOf(c)[f]
    BY <2>2 DEF StagesInv, WorkersOK, WorkerOK, Stages!Ended
  <2>4. Stages!Readable(c, done)
    BY <2>3 DEF Stages!Readable
  <2>5. edges = Stages!EdgesOf(c, done)
    BY <2>3 DEF Stages!EdgesOf
  <2> HIDE DEF done, edges
  <2>6. PICK new : new = [d EXCEPT !.stage = "B6", !.completed = done, !.edges = edges]
    OBVIOUS
  <2>c. new = Analysed(d, "B6", done, edges)
    BY <2>6 DEF Analysed
  <2> HIDE DEF d
  <2>7. new \in Document /\ DocumentOK(c, new) /\ new.stage = "B6"
    BY <1>0, <1>1, <2>1, <2>4, <2>5, <2>c, AnalysedOK
  <2>8. Handed(c, new)
    BY <1>1, <1>3, <2>6, <2>7 DEF Handed
  <2> QED
    BY <2>8, HandedKeeps
<1> QED
  BY <1>2, <1>3 DEF Stages!Aggregate

-----------------------------------------------------------------------------
LEMMA ValidateRuntimeKeeps ==
  ASSUME StagesInv, NEW c \in Stages!Commands, Stages!ValidateRuntime(c)
  PROVE  StagesInv'
<1> DEFINE d == document[c]
           m == d.manifests
           s == IF d.stage = "B6" THEN "B7" ELSE "I7"
           runtime == CASE "INVALID" \in m -> "QUARANTINED"
                        [] "INVALID" \notin m /\ "INCOMPLETE" \in m -> "INCOMPLETE"
                        [] m = {} -> "NOT_PROVIDED"
                        [] OTHER -> "VALIDATED"
<1>1. d \in Document /\ DocumentOK(c, d)
  BY OfDocument
<1>2. /\ d.stage \in {"B6", "I6"} /\ UNCHANGED <<content, worker, active, rows, stops>>
      /\ Stages!HandOn(c, [d EXCEPT !.stage = s, !.runtime = runtime])
  BY DEF Stages!ValidateRuntime
<1>3. (d.stage = "B6" /\ s = "B7") \/ (d.stage = "I6" /\ s = "I7")
  BY <1>2
<1>4. runtime \in {"NONE", "QUARANTINED", "INCOMPLETE", "NOT_PROVIDED", "VALIDATED"}
  BY Zenon
<1> HIDE DEF s, runtime
<1>5. PICK new : new = [d EXCEPT !.stage = s, !.runtime = runtime]
  OBVIOUS
<1>6. new \in Document
  BY <1>1, <1>3, <1>4, <1>5, ZenonT(30) DEF Document, BaselineStages, IncrementalStages
<1>7. /\ new.stage = s /\ new.removed = d.removed /\ new.skipped = d.skipped
      /\ new.completed = d.completed /\ new.edges = d.edges /\ new.coverage = d.coverage
      /\ new.expected = d.expected /\ new.unsupported = d.unsupported
      /\ new.changed = d.changed /\ new.recomputed = d.recomputed
  BY <1>1, <1>5 DEF Document
<1>8. DocumentOK(c, new)
  BY <1>1, <1>3, <1>7 DEF DocumentOK, KindOK, CoverageOK, ScopeOK, PlanOK, AnalysisOK, BaselineStages,
     IncrementalStages, Planned, Unanalysed, Unconsolidated, Consolidated, Stages!Complete, Stages!ExactlyAccounted
<1>9. Handed(c, new)
  BY <1>2, <1>3, <1>5, <1>6, <1>7, <1>8 DEF Handed
<1> QED
  BY <1>9, HandedKeeps

LEMMA SkipResidueKeeps ==
  ASSUME StagesInv, NEW c \in Stages!Commands, Stages!SkipResidue(c)
  PROVE  StagesInv'
<1> DEFINE d == document[c]
<1>1. d \in Document /\ DocumentOK(c, d)
  BY OfDocument
<1>2. /\ d.stage = "B7" /\ UNCHANGED <<content, worker, active, rows, stops>>
      /\ Stages!HandOn(c, [d EXCEPT !.stage = "B8"])
  BY DEF Stages!SkipResidue, Stages!At
<1>3. PICK new : new = [d EXCEPT !.stage = "B8"]
  OBVIOUS
<1>4. c[1] = "BASELINE" /\ d.coverage = "NONE"
  BY <1>1, <1>2 DEF DocumentOK, KindOK, CoverageOK, BaselineStages, Unconsolidated
<1>5. new \in Document /\ DocumentOK(c, new) /\ new.stage = "B8"
  BY <1>1, <1>2, <1>3, <1>4, StageKeeps DEF BaselineStages, IncrementalStages, Planned, Unanalysed,
     Consolidated
<1>6. Handed(c, new)
  BY <1>2, <1>3, <1>5 DEF Handed
<1> QED
  BY <1>6, HandedKeeps

LEMMA ConsolidateKeeps ==
  ASSUME StagesInv, NEW c \in Stages!Commands, Stages!Consolidate(c)
  PROVE  StagesInv'
<1> DEFINE d == document[c]
           s == IF d.stage = "B8" THEN "B9" ELSE "I8"
           coverage == IF Stages!Complete(d) THEN "COMPLETE" ELSE "INCOMPLETE"
<1>1. d \in Document /\ DocumentOK(c, d)
  BY OfDocument
<1>2. /\ d.stage \in {"B8", "I7"} /\ UNCHANGED <<content, worker, active, rows, stops>>
      /\ Stages!HandOn(c, [d EXCEPT !.stage = s, !.coverage = coverage])
  BY DEF Stages!Consolidate
<1>3. (d.stage = "B8" /\ s = "B9") \/ (d.stage = "I7" /\ s = "I8")
  BY <1>2
<1>4. coverage \in {"COMPLETE", "INCOMPLETE"} /\ (coverage = "COMPLETE" => Stages!Complete(d))
  OBVIOUS
<1> HIDE DEF s, coverage
<1>5. PICK new : new = [d EXCEPT !.stage = s, !.coverage = coverage]
  OBVIOUS
<1>6. new \in Document
  BY <1>1, <1>3, <1>4, <1>5, ZenonT(30) DEF Document, BaselineStages, IncrementalStages
<1>7. /\ new.stage = s /\ new.removed = d.removed /\ new.skipped = d.skipped
      /\ new.completed = d.completed /\ new.edges = d.edges /\ new.coverage = coverage
      /\ new.expected = d.expected /\ new.unsupported = d.unsupported
      /\ new.changed = d.changed /\ new.recomputed = d.recomputed
  BY <1>1, <1>5 DEF Document
<1>8. DocumentOK(c, new)
  <2>1. CoverageOK(new)
    BY <1>3, <1>4, <1>7 DEF CoverageOK, Unconsolidated, Stages!Complete, Stages!ExactlyAccounted
  <2> QED
    BY <1>1, <1>3, <1>7, <2>1 DEF DocumentOK, KindOK, ScopeOK, PlanOK, AnalysisOK, BaselineStages,
       IncrementalStages, Planned, Unanalysed
<1>9. Handed(c, new)
  BY <1>2, <1>3, <1>5, <1>6, <1>7, <1>8 DEF Handed
<1> QED
  BY <1>9, HandedKeeps

LEMMA RecheckKeeps ==
  ASSUME StagesInv, NEW c \in Stages!Commands, Stages!Recheck(c)
  PROVE  StagesInv'
<1> DEFINE d == document[c]
<1>1. d \in Document /\ DocumentOK(c, d)
  BY OfDocument
<1>2. d.stage = "I8" /\ UNCHANGED <<content, worker, active, rows, stops>>
  BY DEF Stages!Recheck, Stages!At
<1>3. CASE Stages!Raise(c)
  BY <1>2, <1>3, RaiseKeeps
<1>4. CASE Stages!HandOn(c, [d EXCEPT !.stage = "I9"])
  <2>1. PICK new : new = [d EXCEPT !.stage = "I9"]
    OBVIOUS
  <2>2. c[1] = "INCREMENTAL" /\ d.coverage # "NONE"
    BY <1>1, <1>2 DEF DocumentOK, KindOK, CoverageOK, IncrementalStages, Consolidated
  <2>3. new \in Document /\ DocumentOK(c, new) /\ new.stage = "I9"
    BY <1>1, <1>2, <2>1, <2>2, StageKeeps DEF BaselineStages, IncrementalStages, Planned, Unanalysed,
       Unconsolidated
  <2>4. Handed(c, new)
    BY <1>2, <1>4, <2>1, <2>3 DEF Handed
  <2> QED
    BY <2>4, HandedKeeps
<1> QED
  BY <1>3, <1>4 DEF Stages!Recheck

LEMMA ProposeKeeps ==
  ASSUME StagesInv, NEW c \in Stages!Commands, Stages!Propose(c)
  PROVE  StagesInv'
<1> DEFINE d == document[c]
           s == IF d.coverage = "INCOMPLETE" THEN "QUARANTINED"
                ELSE IF d.edges = {} THEN "NO_LINEAGE" ELSE "AWAITING_APPROVAL"
<1>1. d \in Document /\ DocumentOK(c, d)
  BY OfDocument
<1>2. /\ d.stage \in {"B9", "I9"} /\ UNCHANGED <<content, worker, active, rows, stops>>
      /\ Stages!HandOn(c, [d EXCEPT !.stage = s])
  BY DEF Stages!Propose
<1>3. d.coverage \in {"COMPLETE", "INCOMPLETE"}
  BY <1>1, <1>2 DEF DocumentOK, CoverageOK, Consolidated, Document
<1>4. /\ s \in {"QUARANTINED", "NO_LINEAGE", "AWAITING_APPROVAL"}
      /\ s = "AWAITING_APPROVAL" => d.coverage = "COMPLETE"
  BY <1>3
<1> HIDE DEF s
<1>5. PICK new : new = [d EXCEPT !.stage = s]
  OBVIOUS
<1>6. new \in Document /\ DocumentOK(c, new) /\ new.stage = s
  <2>1. s \in Endings /\ s \notin BaselineStages /\ s \notin IncrementalStages
    BY <1>4 DEF Endings, BaselineStages, IncrementalStages
  <2>2. s \notin Unanalysed /\ s \notin Unconsolidated /\ s \notin Consolidated
    BY <1>4 DEF Unanalysed, Unconsolidated, Consolidated
  <2>3. d.stage \in Planned \ Unanalysed /\ d.stage # "NONE"
    BY <1>2 DEF Planned, Unanalysed
  <2>4. s \in {"AWAITING_APPROVAL", "PUBLISHED"} => d.coverage = "COMPLETE"
    BY <1>4
  <2> QED
    BY <1>1, <1>5, <2>1, <2>2, <2>3, <2>4, StageKeeps
<1>7. Handed(c, new)
  BY <1>2, <1>4, <1>5, <1>6 DEF Handed
<1> QED
  BY <1>7, HandedKeeps

LEMMA RejectKeeps ==
  ASSUME StagesInv, NEW c \in Stages!Commands, Stages!Reject(c)
  PROVE  StagesInv'
<1> DEFINE d == document[c]
<1>1. d \in Document /\ DocumentOK(c, d)
  BY OfDocument
<1>2. /\ d.stage = "AWAITING_APPROVAL" /\ UNCHANGED <<content, worker, active, rows, stops>>
      /\ Stages!HandOn(c, [d EXCEPT !.stage = "REJECTED"])
  BY DEF Stages!Reject, Stages!At
<1>3. PICK new : new = [d EXCEPT !.stage = "REJECTED"]
  OBVIOUS
<1>4. new \in Document /\ DocumentOK(c, new) /\ new.stage = "REJECTED"
  BY <1>1, <1>2, <1>3, StageKeeps DEF Endings, BaselineStages, IncrementalStages, Planned, Unanalysed,
     Unconsolidated, Consolidated
<1>5. Handed(c, new)
  BY <1>2, <1>3, <1>4 DEF Handed
<1> QED
  BY <1>5, HandedKeeps

\* An approval publishes on the graph that is active, so the new graph has all the
\* edges of the one before.
LEMMA ApproveKeeps ==
  ASSUME StagesInv, NEW c \in Stages!Commands, Stages!Approve(c)
  PROVE  StagesInv'
<1> DEFINE d == document[c]
<1>1. d \in Document /\ DocumentOK(c, d)
  BY OfDocument
<1>2. /\ d.stage = "AWAITING_APPROVAL" /\ UNCHANGED <<content, worker, stops>>
      /\ active.version = d.base
      /\ active' = [version |-> c, fence |-> active.fence + 1]
      /\ rows' = [rows EXCEPT ![c] = rows[d.base] \cup d.edges]
      /\ Stages!HandOn(c, [d EXCEPT !.stage = "PUBLISHED"])
  BY DEF Stages!Approve, Stages!At, Stages!OnItsBase
<1>3. PICK new : new = [d EXCEPT !.stage = "PUBLISHED"]
  OBVIOUS
<1>4. new \in Document /\ DocumentOK(c, new) /\ new.stage = "PUBLISHED" /\ new.edges = d.edges
  <2>1. d.coverage = "COMPLETE"
    BY <1>1, <1>2 DEF DocumentOK, CoverageOK
  <2>2. new \in Document /\ DocumentOK(c, new) /\ new.stage = "PUBLISHED"
    BY <1>1, <1>2, <1>3, <2>1, StageKeeps DEF Endings, BaselineStages, IncrementalStages, Planned,
       Unanalysed, Unconsolidated, Consolidated
  <2> QED
    BY <1>1, <1>3, <2>2 DEF Document
<1>5. document' = [document EXCEPT ![c] = new] /\ document \in [Stages!Commands -> Document]
  BY <1>2, <1>3 DEF Stages!HandOn, StagesInv, StagesTyped
<1>6. d.base \in Graphs /\ d.edges \in SUBSET Edges /\ c \in Graphs /\ rows \in [Graphs -> SUBSET Edges]
      /\ active.fence + 1 \in Nat
  BY <1>1 DEF Document, Graphs, StagesInv, StagesTyped
<1>7. StagesTyped'
  <2>1. rows' \in [Graphs -> SUBSET Edges]
    BY <1>2, <1>6
  <2>2. active' \in [version : Graphs, fence : Nat]
    BY <1>2, <1>6
  <2>3. document' \in [Stages!Commands -> Document]
    BY <1>4, <1>5
  <2> QED
    BY <1>2, <2>1, <2>2, <2>3 DEF StagesInv, StagesTyped
<1>8. DocumentsOK'
  <2> SUFFICES ASSUME NEW b \in Stages!Commands PROVE DocumentOK(b, document[b])'
    BY DEF DocumentsOK
  <2>1. DocumentOK(b, document'[b])
    BY <1>4, <1>5 DEF StagesInv, DocumentsOK
  <2> QED
    BY <1>2, <2>1 DEF DocumentOK, KindOK, CoverageOK, Pushed, ScopeOK, PlanOK, AnalysisOK,
       Stages!SourceOf, Stages!Readable, Stages!EdgesOf, Stages!Complete, Stages!ExactlyAccounted
<1>9. WorkersOK'
  BY <1>2 DEF StagesInv, WorkersOK, WorkerOK, Pushed, Stages!Readable, Stages!SourceOf
<1>10. Stages!PublishedIsKept'
  <2>1. rows'[active'.version] = rows[active.version] \cup d.edges
    BY <1>2, <1>6
  <2> QED
    BY <1>4, <1>5, <2>1 DEF StagesInv, Stages!PublishedIsKept
<1> QED
  BY <1>7, <1>8, <1>9, <1>10 DEF StagesInv

\* A push appends the source of its revision, which no workflow has read yet.
LEMMA AcceptKeeps ==
  ASSUME StagesInv, NEW r \in Revisions, NEW kind \in {"BASELINE", "INCREMENTAL"}, NEW i \in Intents,
         Stages!Accept(r, kind, i)
  PROVE  StagesInv'
<1> DEFINE c == <<kind, r>>
           before == IF r = 1 THEN << >> ELSE content[r - 1]
           now == i.source
           changed == {f \in DOMAIN now : f \in DOMAIN before => now[f] # before[f]}
           removed == DOMAIN before \ DOMAIN now
           closure == UNION {Dependents[f] : f \in changed}
           s == IF kind = "BASELINE" THEN "B1" ELSE "I1"
<1>1. /\ r = Len(content) + 1 /\ content' = Append(content, now)
      /\ UNCHANGED <<worker, active, rows, stops>>
      /\ Stages!HandOn(c, [Stages!NotStarted EXCEPT
              !.stage = s, !.pins = i.pins, !.evidence = i.evidence, !.manifests = i.manifests,
              !.changed = changed, !.removed = removed, !.closure = closure])
  BY DEF Stages!Accept
<1>2. content \in Seq(Sources) /\ c \in Stages!Commands /\ now \in Sources /\ r \in Nat
  BY <1>1 DEF StagesInv, StagesTyped, Sources, Stages!Commands
<1>3. content' \in Seq(Sources) /\ Len(content') = r /\ content'[r] = now
      /\ \A k \in 1 .. Len(content) : content'[k] = content[k] /\ k # r
  BY <1>1, <1>2
<1>4. DOMAIN now \subseteq Files /\ Dependents \in [Files -> SUBSET Files]
  BY StagesAssumption DEF Stages!SourceParameters
<1>5. DOMAIN before \subseteq Files
  <2>1. CASE r = 1
    BY <2>1
  <2>2. CASE r # 1
    <3>1. content[r - 1] \in Sources
      BY <1>1, <1>2, <2>2
    <3>2. PICK j \in Intents : content[r - 1] = j.source
      BY <3>1 DEF Sources
    <3> QED
      BY <2>2, <3>2, StagesAssumption DEF Stages!SourceParameters
  <2> QED
    BY <2>1, <2>2
<1>6. changed \in SUBSET Files /\ removed \in SUBSET Files /\ closure \in SUBSET Files
  BY <1>4, <1>5
<1>7. removed \cap DOMAIN now = {}
  OBVIOUS
<1>8. (kind = "BASELINE" /\ s = "B1") \/ (kind = "INCREMENTAL" /\ s = "I1")
  OBVIOUS
<1> HIDE DEF changed, removed, closure, s
<1>9. PICK new : new = [Stages!NotStarted EXCEPT
              !.stage = s, !.pins = i.pins, !.evidence = i.evidence, !.manifests = i.manifests,
              !.changed = changed, !.removed = removed, !.closure = closure]
  OBVIOUS
<1>10. /\ new.stage = s /\ new.skipped = {} /\ new.completed = {} /\ new.edges = {}
       /\ new.coverage = "NONE" /\ new.removed = removed
  BY <1>9 DEF Stages!NotStarted
<1>11. new \in Document
  BY <1>6, <1>8, <1>9, ZenonT(30) DEF Document, Stages!NotStarted, Graphs, BaselineStages, IncrementalStages
<1>12. document' = [document EXCEPT ![c] = new] /\ document \in [Stages!Commands -> Document]
  BY <1>1, <1>9 DEF Stages!HandOn, StagesInv, StagesTyped
<1>13. StagesTyped'
  BY <1>1, <1>2, <1>3, <1>11, <1>12 DEF StagesInv, StagesTyped
<1>14. \A b \in Stages!Commands : Pushed(b) => Pushed(b)' /\ Stages!SourceOf(b)' = Stages!SourceOf(b) /\ b # c
  BY <1>1, <1>2, <1>3 DEF Pushed, Stages!SourceOf, Stages!Revision
<1>15. Pushed(c)' /\ Stages!SourceOf(c)' = now
  BY <1>1, <1>2, <1>3 DEF Pushed, Stages!SourceOf, Stages!Revision
<1>16. DocumentsOK'
  <2> SUFFICES ASSUME NEW b \in Stages!Commands PROVE DocumentOK(b, document[b])'
    BY DEF DocumentsOK
  <2>1. CASE b # c
    <3>1. document'[b] = document[b] /\ DocumentOK(b, document[b])
      BY <1>12, <2>1 DEF StagesInv, DocumentsOK
    <3> QED
      BY <1>14, <3>1 DEF DocumentOK, KindOK, CoverageOK, ScopeOK, PlanOK, AnalysisOK,
         Stages!Readable, Stages!EdgesOf, Stages!Complete, Stages!ExactlyAccounted
  <2>2. CASE b = c
    <3>1. document'[b] = new /\ b[1] = kind
      BY <1>2, <1>12, <2>2
    <3>2. KindOK(b, document[b])' /\ CoverageOK(document[b])'
      BY <1>8, <1>10, <3>1 DEF KindOK, CoverageOK, BaselineStages, IncrementalStages, Consolidated
    <3>3. ScopeOK(b, document[b])' /\ PlanOK(b, document[b])'
      BY <1>7, <1>8, <1>10, <1>15, <2>2, <3>1 DEF ScopeOK, PlanOK, Planned
    <3>4. AnalysisOK(b, document[b])'
      BY <1>8, <1>10, <3>1 DEF AnalysisOK, Stages!Readable, Stages!EdgesOf, Planned, Unanalysed
    <3> QED
      BY <1>15, <2>2, <3>2, <3>3, <3>4 DEF DocumentOK
  <2> QED
    BY <2>1, <2>2
<1>17. WorkersOK'
  BY <1>1, <1>14 DEF StagesInv, WorkersOK, WorkerOK, Stages!Readable
<1>18. Stages!PublishedIsKept'
  <2>1. s # "PUBLISHED"
    BY <1>8
  <2> QED
    BY <1>1, <1>10, <1>12, <2>1 DEF StagesInv, Stages!PublishedIsKept
<1> QED
  BY <1>13, <1>16, <1>17, <1>18 DEF StagesInv

-----------------------------------------------------------------------------
LEMMA StagesInit == Stages!Init => StagesInv
<1> SUFFICES ASSUME Stages!Init PROVE StagesInv
  OBVIOUS
<1> USE DEF Stages!Init
<1>1. Stages!NotStarted \in Document
  BY DEF Stages!NotStarted, Document, Graphs
<1>2. 0 \in 0 .. MaxTries /\ 0 < MaxTries
  BY StagesAssumption DEF Stages!SourceParameters
<1>3. StagesTyped
  <2>1. content \in Seq(Sources) /\ Len(content) = 0
    OBVIOUS
  <2>2. Stages!NotRun \in WorkUnit
    BY <1>2 DEF Stages!NotRun, WorkUnit
  <2> QED
    BY <1>1, <2>1, <2>2 DEF StagesTyped, Graphs
<1>4. DocumentsOK
  BY DEF DocumentsOK, DocumentOK, KindOK, CoverageOK, Stages!NotStarted, BaselineStages, IncrementalStages,
     Unconsolidated, Consolidated
<1>5. WorkersOK
  BY <1>2 DEF WorkersOK, WorkerOK, Stages!NotRun
<1>6. Stages!PublishedIsKept
  BY DEF Stages!PublishedIsKept, Stages!NotStarted
<1> QED
  BY <1>3, <1>4, <1>5, <1>6 DEF StagesInv

LEMMA StageStepKeeps ==
  ASSUME StagesInv, NEW c \in Stages!Commands, Stages!Stage(c)
  PROVE  StagesInv'
<1>1. CASE Stages!PinIntent(c) \/ Stages!BaselinePins(c) \/ Stages!Classify(c) \/ Stages!PlanBaseline(c)
  BY <1>1, PinIntentKeeps, BaselinePinsKeeps, ClassifyKeeps, PlanBaselineKeeps
<1>2. CASE Stages!ChangedScope(c) \/ Stages!PlanDelta(c) \/ Stages!ImmutableInputs(c) \/ Stages!AnalyseDelta(c)
  BY <1>2, ChangedScopeKeeps, PlanDeltaKeeps, ImmutableInputsKeeps, AnalyseDeltaKeeps
<1>3. CASE \E f \in Files : Stages!AnalyseUnit(c, f)
  BY <1>3, AnalyseUnitKeeps
<1>4. CASE Stages!Aggregate(c) \/ Stages!ValidateRuntime(c) \/ Stages!SkipResidue(c)
  BY <1>4, AggregateKeeps, ValidateRuntimeKeeps, SkipResidueKeeps
<1>5. CASE Stages!Consolidate(c) \/ Stages!Recheck(c) \/ Stages!Propose(c)
  BY <1>5, ConsolidateKeeps, RecheckKeeps, ProposeKeeps
<1> QED
  BY <1>1, <1>2, <1>3, <1>4, <1>5 DEF Stages!Stage

LEMMA StagesNext ==
  ASSUME StagesInv, Stages!Next \/ UNCHANGED stageVars
  PROVE  StagesInv'
<1>1. CASE \E r \in Revisions, kind \in {"BASELINE", "INCREMENTAL"}, i \in Intents : Stages!Accept(r, kind, i)
  BY <1>1, AcceptKeeps
<1>2. CASE \E c \in Stages!Commands : Stages!Stage(c) \/ Stages!Approve(c) \/ Stages!Reject(c)
  BY <1>2, StageStepKeeps, ApproveKeeps, RejectKeeps
<1>3. CASE \E c \in Stages!Commands, f \in Files : Stages!WorkerStops(c, f)
  BY <1>3, WorkerStopsKeeps
<1>4. CASE UNCHANGED stageVars
  <2> USE <1>4 DEF stageVars, StagesInv
  <2>1. StagesTyped' /\ Stages!PublishedIsKept'
    BY DEF StagesTyped, Stages!PublishedIsKept
  <2>2. DocumentsOK'
    BY DEF DocumentsOK, DocumentOK, KindOK, CoverageOK, Pushed, ScopeOK, PlanOK, AnalysisOK,
       Stages!SourceOf, Stages!Readable, Stages!EdgesOf, Stages!Complete, Stages!ExactlyAccounted
  <2>3. WorkersOK'
    BY DEF WorkersOK, WorkerOK, Pushed, Stages!Readable, Stages!SourceOf
  <2> QED
    BY <2>1, <2>2, <2>3
<1> QED
  BY <1>1, <1>2, <1>3, <1>4 DEF Stages!Next

LEMMA StagesAnalyse ==
  ASSUME StagesInv
  PROVE  Stages!CompleteMeansAnalysed
<1> SUFFICES ASSUME NEW c \in Stages!Commands, document[c].coverage = "COMPLETE",
                    NEW f \in document[c].expected \cap DOMAIN content[Stages!Revision(c)]
             PROVE  f \in Skippable \/ (f \in Python /\ content[Stages!Revision(c)][f] \subseteq document[c].edges)
  BY DEF Stages!CompleteMeansAnalysed
<1> DEFINE d == document[c]
<1>1. d \in Document /\ DocumentOK(c, d)
  BY OfDocument
<1>2. d.stage # "NONE" /\ Stages!Complete(d)
  BY <1>1 DEF DocumentOK, CoverageOK, Unconsolidated
<1>3. ScopeOK(c, d) /\ AnalysisOK(c, d)
  BY <1>1, <1>2 DEF DocumentOK
<1>4. f \in d.completed \/ f \in d.skipped
  BY <1>2 DEF Stages!Complete, Stages!ExactlyAccounted
<1>5. CASE f \in d.completed
  BY <1>3, <1>5 DEF AnalysisOK, Stages!EdgesOf, Stages!SourceOf
<1>6. CASE f \in d.skipped
  BY <1>3, <1>6 DEF ScopeOK, Stages!SourceOf
<1> QED
  BY <1>4, <1>5, <1>6

LEMMA StagesPropose ==
  ASSUME StagesInv
  PROVE  Stages!ProposedIsThePinnedSource
<1> SUFFICES ASSUME NEW c \in Stages!Commands, document[c].stage \in {"AWAITING_APPROVAL", "PUBLISHED"}
             PROVE  LET source == Stages!SourceOf(c)
                        scope == {f \in DOMAIN source \cap Python :
                                    c[1] = "BASELINE" \/ f \in document[c].changed}
                    IN  /\ \A f \in scope : source[f] # Unparsable
                        /\ document[c].edges = UNION {source[f] : f \in scope}
  BY DEF Stages!ProposedIsThePinnedSource, Stages!SourceOf
<1> DEFINE d == document[c]
           source == Stages!SourceOf(c)
           scope == {f \in DOMAIN source \cap Python : c[1] = "BASELINE" \/ f \in d.changed}
<1>1. d \in Document /\ DocumentOK(c, d)
  BY OfDocument
<1>2. d.stage \in Planned \ Unanalysed /\ d.stage # "NONE"
  BY DEF Planned, Unanalysed
<1>3. Stages!Complete(d) /\ ScopeOK(c, d) /\ PlanOK(c, d) /\ AnalysisOK(c, d)
  BY <1>1, <1>2 DEF DocumentOK, CoverageOK
<1>4. d.expected = d.completed \cup d.skipped
  BY <1>3 DEF Stages!Complete, Stages!ExactlyAccounted
<1>5. d.completed \subseteq Python /\ d.completed \subseteq DOMAIN source
      /\ \A f \in d.completed : source[f] # Unparsable
  BY <1>3 DEF AnalysisOK, Stages!Readable
<1>6. d.completed = scope
  <2>1. CASE c[1] = "BASELINE"
    <3>1. d.expected = DOMAIN source /\ d.skipped \cap Python = {}
      BY <1>2, <1>3, <2>1, StagesAssumption DEF PlanOK, ScopeOK, Stages!SourceParameters
    <3> QED
      BY <1>4, <1>5, <2>1, <3>1
  <2>2. CASE c[1] = "INCREMENTAL"
    <3>1. d.expected = d.changed \cup d.removed /\ d.completed \subseteq d.changed
      BY <1>2, <1>3, <2>2 DEF PlanOK, AnalysisOK
    <3>2. d.skipped \cap DOMAIN source = {}
      BY <1>3, <2>2 DEF ScopeOK
    <3> QED
      BY <1>4, <1>5, <2>2, <3>1, <3>2
  <2> QED
    BY <2>1, <2>2, CommandParts
<1>7. d.edges = UNION {source[f] : f \in scope}
  BY <1>3, <1>6 DEF AnalysisOK, Stages!EdgesOf
<1> QED
  BY <1>5, <1>6, <1>7

LEMMA StagesTypes == StagesInv => Stages!TypeOK
<1> SUFFICES ASSUME StagesInv PROVE Stages!TypeOK
  OBVIOUS
<1>1. \A c \in Stages!Commands : document[c] \in Document
  BY OfDocument
<1> QED
  BY <1>1 DEF StagesInv, StagesTyped, Stages!TypeOK, Document, Graphs, WorkUnit

-----------------------------------------------------------------------------
(* The workflow.                                                           *)

LEMMA StageOfWorkflow ==
  ASSUME [WorkflowNext]_workflowVars
  PROVE  Stages!Next \/ UNCHANGED stageVars
BY DEF WorkflowNext, workflowVars

LEMMA StepOfWorkflow ==
  ASSUME [WorkflowNext]_workflowVars
  PROVE  [Next]_vars
BY DEF WorkflowNext, workflowVars

\* A workflow as a whole keeps the ledger's promises: what the callers were handed and
\* what the run reports is what the ledger holds.
THEOREM WorkflowFollowsLedger == WorkflowSpec => []LedgerIsFollowed
<1>1. WorkflowInit => IInv /\ SummaryIsTheFurthestStage
  <2>1. WorkflowInit => Init
    BY DEF WorkflowInit
  <2> QED
    BY <2>1, InitOK, SummaryInit
<1>2. IInv /\ SummaryIsTheFurthestStage /\ [WorkflowNext]_workflowVars
        => (IInv /\ SummaryIsTheFurthestStage)'
  BY StepOfWorkflow, Inductive, SummaryNext
<1>3. IInv /\ SummaryIsTheFurthestStage => LedgerIsFollowed
  BY DEF IInv, RowsOK, CallersOK, HandedOnIsRecorded, LedgerIsFollowed
<1> QED
  BY <1>1, <1>2, <1>3, PTL DEF WorkflowSpec

\* In a workflow too, only the invocation that made the last claim of a stage
\* completes it.
THEOREM WorkflowFences == WorkflowSpec => LastClaimCompletes
<1>1. WorkflowInit => IInv
  BY InitOK DEF WorkflowInit
<1>2. IInv /\ [WorkflowNext]_workflowVars => IInv' /\ [ClaimedLast]_vars
  BY StepOfWorkflow, Inductive, CompletesLast
<1> QED
  BY <1>1, <1>2, PTL DEF WorkflowSpec, LastClaimCompletes, ClaimedLast

LEMMA WorkflowInvariant == WorkflowSpec => []StagesInv
<1>1. WorkflowInit => StagesInv
  BY StagesInit DEF WorkflowInit
<1>2. StagesInv /\ [WorkflowNext]_workflowVars => StagesInv'
  BY StagesNext, StageOfWorkflow
<1> QED
  BY <1>1, <1>2, PTL DEF WorkflowSpec

\* The sources, documents, workers and graphs of a workflow keep their types.
THEOREM StagesTypeCorrect == WorkflowSpec => []Stages!TypeOK
BY WorkflowInvariant, StagesTypes, PTL

\* A workflow that calls its coverage complete has analysed every file of its scope
\* that can yield lineage, whatever the scope, the source and the other workflows.
THEOREM CompleteIsAnalysed == WorkflowSpec => []CompleteMeansAnalysed
<1>1. StagesInv => CompleteMeansAnalysed
  BY StagesAnalyse DEF CompleteMeansAnalysed
<1> QED
  BY <1>1, WorkflowInvariant, PTL

\* What is proposed are the edges of the pinned source, and the active graph keeps
\* those of every published workflow, though pushes and workflows overlap.
THEOREM ChangesAreKept == WorkflowSpec => []NoChangeIsLost
<1>1. StagesInv => NoChangeIsLost
  BY StagesPropose DEF StagesInv, NoChangeIsLost, ProposedIsThePinnedSource, PublishedIsKept
<1> QED
  BY <1>1, WorkflowInvariant, PTL
=============================================================================
