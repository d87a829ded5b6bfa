-------------------------- MODULE LaneBroker_proofs --------------------------
(***************************************************************************)
(* Theorems about LaneBroker, for any messages, receivers, owner names,    *)
(* lanes and groups, any resolution of the clock and any wait for the      *)
(* write lock: expiry may be decided in the wrong order of instants, and   *)
(* two receivers may have one name.                                        *)
(***************************************************************************)
EXTENDS LaneBroker, FiniteSetTheorems, TLAPS

\* The columns and the receipts.  (claimOrder only chooses among groups.)
Typed ==
    /\ messages \in [Messages -> MessageRow]
    /\ deliveries \in [Receivers -> Delivery \union {NoDelivery}]
    /\ redrives \in [Messages -> Nat]
    /\ now \in Nat

\* A message that waits has a delivery left.
Budgeted ==
    \A m \in Messages :
        messages[m].status \in {"ABSENT", "AVAILABLE"} => messages[m].attempts < MaxDeliveries

\* Sequence numbers count the publications, so the next one is above all.
Numbered ==
    /\ IsFiniteSet(Published)
    /\ \A m \in Messages : messages[m].sequence =< Cardinality(Published)

\* A receipt is of an epoch of its message, and no two are of the same one.
Receipts ==
    /\ \A r \in Receivers :
           deliveries[r] # NoDelivery => deliveries[r].epoch =< messages[deliveries[r].message].epoch
    /\ \A r1, r2 \in Receivers :
           /\ deliveries[r1] # NoDelivery
           /\ deliveries[r2] # NoDelivery
           /\ deliveries[r1].message = deliveries[r2].message
           /\ deliveries[r1].epoch = deliveries[r2].epoch
           => r1 = r2

IInv == Typed /\ Budgeted /\ Numbered /\ Receipts /\ GroupsAreFifo /\ NewestHeadSurvives

-----------------------------------------------------------------------------
(* What the helpers do to a row.                                           *)

\* A row that leaves the queue keeps its number, its epoch and its attempts.
LEMMA SettleRow ==
  ASSUME NEW row \in MessageRow, NEW status \in MessageStatus
  PROVE  /\ Settle(row, status) \in MessageRow
         /\ Settle(row, status).status = status
         /\ Settle(row, status).sequence = row.sequence
         /\ Settle(row, status).epoch = row.epoch
         /\ Settle(row, status).attempts = row.attempts
BY DEF Settle, MessageRow

\* A row that goes back waits if it has a delivery left, and is dead if not.
LEMMA RequeueRow ==
  ASSUME NEW row \in MessageRow, NEW available \in Nat
  PROVE  /\ Requeue(row, available) \in MessageRow
         /\ Requeue(row, available).status = IF row.attempts >= MaxDeliveries THEN "DEAD" ELSE "AVAILABLE"
         /\ Requeue(row, available).sequence = row.sequence
         /\ Requeue(row, available).epoch = row.epoch
         /\ Requeue(row, available).attempts = row.attempts
<1> DEFINE status == IF Exhausted(row) THEN "DEAD" ELSE "AVAILABLE"
<1>1. status \in MessageStatus
  BY DEF MessageStatus
<1>2. /\ Settle(row, status) \in MessageRow
      /\ Settle(row, status).status = status
      /\ Settle(row, status).sequence = row.sequence
      /\ Settle(row, status).epoch = row.epoch
      /\ Settle(row, status).attempts = row.attempts
  BY <1>1, SettleRow
<1>3. Requeue(row, available) = [Settle(row, status) EXCEPT !.available = available]
  BY DEF Requeue
<1> HIDE DEF status
<1>4. /\ Requeue(row, available) \in MessageRow
      /\ Requeue(row, available).status = status
      /\ Requeue(row, available).sequence = row.sequence
      /\ Requeue(row, available).epoch = row.epoch
      /\ Requeue(row, available).attempts = row.attempts
  BY <1>2, <1>3 DEF MessageRow
<1> QED
  BY <1>4 DEF status, Exhausted

\* The sweep changes deliveries that look expired, and only by requeueing them.
LEMMA RecoveredRows ==
  ASSUME Typed, NEW lane \in Lanes, NEW t \in Nat
  PROVE  /\ Recovered(lane, t) \in [Messages -> MessageRow]
         /\ \A m \in Messages :
              LET row == Recovered(lane, t)[m]
              IN  /\ row.sequence = messages[m].sequence
                  /\ row.epoch = messages[m].epoch
                  /\ row.attempts = messages[m].attempts
                  /\ \/ row = messages[m]
                     \/ /\ messages[m].status = "IN_FLIGHT"
                        /\ row.status = IF messages[m].attempts >= MaxDeliveries THEN "DEAD" ELSE "AVAILABLE"
<1>1. ASSUME NEW m \in Messages
      PROVE  /\ messages[m] \in MessageRow
             /\ Requeue(messages[m], t) \in MessageRow
             /\ Requeue(messages[m], t).status = IF messages[m].attempts >= MaxDeliveries THEN "DEAD" ELSE "AVAILABLE"
             /\ Requeue(messages[m], t).sequence = messages[m].sequence
             /\ Requeue(messages[m], t).epoch = messages[m].epoch
             /\ Requeue(messages[m], t).attempts = messages[m].attempts
  <2>1. messages[m] \in MessageRow
    BY DEF Typed
  <2> QED
    BY <2>1, RequeueRow
<1>2. ASSUME NEW m \in Messages
      PROVE  Recovered(lane, t)[m] = IF LaneOf[m] = lane /\ Expired(messages[m], t)
                                     THEN Requeue(messages[m], t) ELSE messages[m]
  BY DEF Recovered
<1>3. Recovered(lane, t) \in [Messages -> MessageRow]
  BY <1>1 DEF Recovered
<1> QED
  BY <1>1, <1>2, <1>3 DEF Expired

\* A row that is handed to a receiver.
LEMMA ClaimedRow ==
  ASSUME NEW row \in MessageRow, row.attempts < MaxDeliveries, NEW owner \in Owners, NEW expires \in Nat
  PROVE  LET claimed == [row EXCEPT !.status = "IN_FLIGHT", !.attempts = row.attempts + 1,
                                    !.epoch = row.epoch + 1, !.owner = owner, !.expires = expires]
         IN  /\ claimed \in MessageRow
             /\ claimed.status = "IN_FLIGHT"
             /\ claimed.sequence = row.sequence
             /\ claimed.epoch = row.epoch + 1
<1>1. row.attempts + 1 \in 0..MaxDeliveries /\ row.epoch + 1 \in Nat
  BY ParameterAssumption DEF MessageRow
<1>2. "IN_FLIGHT" \in MessageStatus
  BY DEF MessageStatus
<1> QED
  BY <1>1, <1>2 DEF MessageRow

\* A row that is published, and one that an operator puts back.
LEMMA StoredRow ==
  ASSUME Typed, NEW m \in Messages, NEW t \in Nat, Cardinality(Published) \in Nat
  PROVE  /\ Stored(m, t) \in MessageRow
         /\ Stored(m, t).status = "AVAILABLE"
         /\ Stored(m, t).sequence = Cardinality(Published) + 1
         /\ Stored(m, t).epoch = messages[m].epoch
         /\ Stored(m, t).attempts = messages[m].attempts
<1>1. messages[m] \in MessageRow /\ Cardinality(Published) + 1 \in Nat
  BY DEF Typed
<1>2. "AVAILABLE" \in MessageStatus
  BY DEF MessageStatus
<1> QED
  BY <1>1, <1>2 DEF Stored, MessageRow

LEMMA RedrivenRow ==
  ASSUME NEW row \in MessageRow, NEW available \in Nat
  PROVE  LET redriven == [Settle(row, "AVAILABLE") EXCEPT !.attempts = 0, !.available = available]
         IN  /\ redriven \in MessageRow
             /\ redriven.status = "AVAILABLE"
             /\ redriven.sequence = row.sequence
             /\ redriven.epoch = row.epoch
             /\ redriven.attempts = 0
<1>1. "AVAILABLE" \in MessageStatus
  BY DEF MessageStatus
<1>2. /\ Settle(row, "AVAILABLE") \in MessageRow
      /\ Settle(row, "AVAILABLE").status = "AVAILABLE"
      /\ Settle(row, "AVAILABLE").sequence = row.sequence
      /\ Settle(row, "AVAILABLE").epoch = row.epoch
  BY <1>1, SettleRow
<1>3. 0 \in 0..MaxDeliveries
  BY ParameterAssumption
<1> QED
  BY <1>2, <1>3 DEF MessageRow

LEMMA ReadingsAreTimes ==
  ASSUME Typed, NEW t \in Readings
  PROVE  t \in Nat /\ t =< now /\ now - t =< LockWait
BY DEF Readings, Typed

-----------------------------------------------------------------------------
(* What most steps leave alone.                                            *)

Numbers == \A m \in Messages : messages'[m].sequence = messages[m].sequence
Epochs == \A m \in Messages : messages'[m].epoch = messages[m].epoch
Same(status) == \A m \in Messages : messages'[m].status = status <=> messages[m].status = status

\* Without a publication, nothing is numbered and no head is superseded.
LEMMA NotPublished ==
  ASSUME Numbered, NewestHeadSurvives, Numbers, Same("ABSENT"), Same("SUPERSEDED")
  PROVE  Numbered' /\ NewestHeadSurvives'
<1>1. Published' = Published
  BY DEF Published, Same
<1>2. Numbered'
  BY <1>1 DEF Numbered, Numbers
<1>3. NewestHeadSurvives'
  <2> SUFFICES ASSUME NEW m \in Messages, messages'[m].status = "SUPERSEDED"
               PROVE  \E n \in Messages :
                        /\ LaneOf[n] = LaneOf[m]
                        /\ SupersessionKeyOf[n] = SupersessionKeyOf[m]
                        /\ messages'[n].sequence > messages'[m].sequence
                        /\ messages'[n].status # "SUPERSEDED"
    BY DEF NewestHeadSurvives
  <2>1. messages[m].status = "SUPERSEDED"
    BY DEF Same
  <2> QED
    BY <2>1 DEF NewestHeadSurvives, Same, Numbers
<1> QED
  BY <1>2, <1>3

\* Without a claim, receipts are of the epochs they were of.
LEMMA NotClaimed ==
  ASSUME Typed, Receipts, Epochs, deliveries' = deliveries
  PROVE  Receipts'
<1>1. \A r \in Receivers : deliveries[r] # NoDelivery => deliveries[r].message \in Messages
  BY DEF Typed, Delivery
<1> QED
  BY <1>1 DEF Receipts, Epochs

\* Where nothing goes in flight, and only a redrive brings something back to life, the
\* groups stay in order.
LEMMA NotInFlight ==
  ASSUME GroupsAreFifo, Numbers,
         \A m \in Messages :
           /\ messages'[m].status = "IN_FLIGHT" => messages[m].status = "IN_FLIGHT"
           /\ messages'[m].status \in Live /\ redrives'[m] = 0 =>
                messages[m].status \in Live /\ redrives[m] = 0
  PROVE  GroupsAreFifo'
BY DEF GroupsAreFifo, Numbers

-----------------------------------------------------------------------------
(* The invariant holds initially and every operation keeps it.             *)

LEMMA InitInvariant == Init => IInv
<1> SUFFICES ASSUME Init
             PROVE  IInv
  OBVIOUS
<1>1. Typed /\ Budgeted
  BY ParameterAssumption DEF Init, Typed, Budgeted, MessageRow, MessageStatus
<1>2. Published = {}
  BY DEF Init, Published
<1>3. Numbered
  BY <1>2, FS_EmptySet DEF Init, Numbered
<1>4. Receipts
  BY DEF Init, Receipts
<1>5. GroupsAreFifo /\ NewestHeadSurvives
  BY DEF Init, GroupsAreFifo, NewestHeadSurvives
<1> QED
  BY <1>1, <1>3, <1>4, <1>5 DEF IInv

\* A publication numbers a message above all others, so it has nothing older to wait
\* for behind it, and is the head that survives of those it supersedes.
LEMMA PublishKeeps ==
  ASSUME IInv, NEW p \in Messages, NEW t \in Readings, Publish(p, t)
  PROVE  IInv'
<1> USE DEF IInv
<1> DEFINE top == Cardinality(Published)
<1>1. t \in Nat
  BY ReadingsAreTimes
<1>2. top \in Nat
  BY FS_CardinalityType DEF Numbered
<1>3. /\ messages[p].status = "ABSENT"
      /\ p \notin Published
  BY DEF Publish, Published
<1>4. /\ Stored(p, t) \in MessageRow
      /\ Stored(p, t).status = "AVAILABLE"
      /\ Stored(p, t).sequence = top + 1
      /\ Stored(p, t).epoch = messages[p].epoch
      /\ Stored(p, t).attempts = messages[p].attempts
  BY <1>1, <1>2, StoredRow
<1>5. ASSUME NEW n \in Messages
      PROVE  /\ Settle(messages[n], "SUPERSEDED") \in MessageRow
             /\ Settle(messages[n], "SUPERSEDED").status = "SUPERSEDED"
             /\ Settle(messages[n], "SUPERSEDED").sequence = messages[n].sequence
             /\ Settle(messages[n], "SUPERSEDED").epoch = messages[n].epoch
             /\ Settle(messages[n], "SUPERSEDED").attempts = messages[n].attempts
  <2>1. "SUPERSEDED" \in MessageStatus
    BY DEF MessageStatus
  <2>2. messages[n] \in MessageRow
    BY DEF Typed
  <2> QED
    BY <2>1, <2>2, SettleRow
<1>6. /\ messages' = [n \in Messages |->
           IF n = p THEN Stored(p, t)
           ELSE IF Supersedes(p, n) THEN Settle(messages[n], "SUPERSEDED")
           ELSE messages[n]]
      /\ deliveries' = deliveries /\ redrives' = redrives /\ now' = now
  BY DEF Publish
<1>7. /\ messages'[p] = Stored(p, t)
      /\ \A n \in Messages : n # p /\ Supersedes(p, n) => messages'[n] = Settle(messages[n], "SUPERSEDED")
      /\ \A n \in Messages : n # p /\ ~Supersedes(p, n) => messages'[n] = messages[n]
  BY <1>6
<1>8. Typed'
  <2>1. \A n \in Messages : messages'[n] \in MessageRow
    BY <1>4, <1>5, <1>7 DEF Typed
  <2> QED
    BY <1>6, <2>1 DEF Typed
<1>9. \A n \in Messages :
        /\ messages'[n].epoch = messages[n].epoch
        /\ messages'[n].attempts = messages[n].attempts
        /\ n # p => messages'[n].sequence = messages[n].sequence
        /\ n # p => messages'[n].status \in {"SUPERSEDED", messages[n].status}
  BY <1>4, <1>5, <1>7
<1>10. Budgeted'
  <2> SUFFICES ASSUME NEW n \in Messages, messages'[n].status \in {"ABSENT", "AVAILABLE"}
               PROVE  messages'[n].attempts < MaxDeliveries
    BY DEF Budgeted
  <2>1. messages[n].status \in {"ABSENT", "AVAILABLE"}
    BY <1>3, <1>9
  <2> QED
    BY <1>9, <2>1 DEF Budgeted
<1>11. Numbered'
  <2>1. Published' = Published \union {p}
    <3>1. \A n \in Messages : n # p => (messages'[n].status # "ABSENT" <=> messages[n].status # "ABSENT")
      BY <1>5, <1>7 DEF Supersedes, Live
    <3>2. messages'[p].status # "ABSENT"
      BY <1>4, <1>7
    <3> QED
      BY <3>1, <3>2 DEF Published
  <2>2. IsFiniteSet(Published') /\ Cardinality(Published') = top + 1
    BY <1>3, <2>1, FS_AddElement DEF Numbered
  <2>3. \A n \in Messages : messages'[n].sequence =< top + 1
    <3>1. \A n \in Messages : messages[n].sequence \in Nat
      BY DEF Typed, MessageRow
    <3> QED
      BY <1>2, <1>4, <1>7, <1>9, <3>1 DEF Numbered
  <2> QED
    BY <2>2, <2>3 DEF Numbered
<1>12. Receipts'
  BY <1>6, <1>9, NotClaimed DEF Epochs
<1>13. GroupsAreFifo'
  <2> SUFFICES ASSUME NEW m \in Messages, NEW n \in Messages, SameQueue(m, n),
                      messages'[m].status = "IN_FLIGHT", messages'[n].status \in Live, redrives'[n] = 0
               PROVE  messages'[m].sequence =< messages'[n].sequence
    BY DEF GroupsAreFifo
  <2>1. m # p /\ messages[m].status = "IN_FLIGHT" /\ messages'[m].sequence = messages[m].sequence
    BY <1>4, <1>7, <1>9
  <2>2. messages[m].sequence \in Nat /\ messages[m].sequence =< top
    BY DEF Typed, MessageRow, Numbered
  <2>3. CASE n = p
    BY <1>2, <1>4, <1>7, <2>1, <2>2, <2>3
  <2>4. CASE n # p
    <3>1. messages[n].status \in Live /\ messages'[n].sequence = messages[n].sequence
      BY <1>9, <2>4 DEF Live
    <3> QED
      BY <1>6, <2>1, <3>1 DEF GroupsAreFifo
  <2> QED
    BY <2>3, <2>4
<1>14. NewestHeadSurvives'
  <2> SUFFICES ASSUME NEW m \in Messages, messages'[m].status = "SUPERSEDED"
               PROVE  \E n \in Messages :
                        /\ LaneOf[n] = LaneOf[m]
                        /\ SupersessionKeyOf[n] = SupersessionKeyOf[m]
                        /\ messages'[n].sequence > messages'[m].sequence
                        /\ messages'[n].status # "SUPERSEDED"
    BY DEF NewestHeadSurvives
  <2>1. m # p /\ messages'[m].sequence = messages[m].sequence
    BY <1>4, <1>7, <1>9
  <2>2. messages[m].sequence \in Nat /\ messages[m].sequence =< top
    BY DEF Typed, MessageRow, Numbered
  <2>3. messages'[p].sequence > messages'[m].sequence /\ messages'[p].status # "SUPERSEDED"
    BY <1>2, <1>4, <1>7, <2>1, <2>2
  <2>4. CASE Supersedes(p, m)
    BY <2>3, <2>4 DEF Supersedes
  <2>5. CASE ~Supersedes(p, m)
    <3>1. messages[m].status = "SUPERSEDED"
      BY <1>7, <2>1, <2>5
    <3>2. PICK n \in Messages :
            /\ LaneOf[n] = LaneOf[m]
            /\ SupersessionKeyOf[n] = SupersessionKeyOf[m]
            /\ messages[n].sequence > messages[m].sequence
            /\ messages[n].status # "SUPERSEDED"
      BY <3>1 DEF NewestHeadSurvives
    <3>3. CASE n = p \/ Supersedes(p, n)
      BY <2>3, <3>2, <3>3 DEF Supersedes
    <3>4. CASE n # p /\ ~Supersedes(p, n)
      BY <1>7, <2>1, <3>2, <3>4
    <3> QED
      BY <3>3, <3>4
  <2> QED
    BY <2>4, <2>5
<1> QED
  BY <1>8, <1>10, <1>11, <1>12, <1>13, <1>14

\* A claim sweeps, and hands out a message that no live message of its queue precedes,
\* under an epoch that no receipt has.
LEMMA ClaimKeeps ==
  ASSUME IInv, NEW r \in Receivers, NEW lane \in Lanes, NEW t \in Readings, Claim(r, lane, t)
  PROVE  IInv'
<1> USE DEF IInv
<1> DEFINE rows == Recovered(lane, t)
<1>1. t \in Nat
  BY ReadingsAreTimes
<1>2. /\ rows \in [Messages -> MessageRow]
      /\ \A m \in Messages :
           /\ rows[m].sequence = messages[m].sequence
           /\ rows[m].epoch = messages[m].epoch
           /\ rows[m].attempts = messages[m].attempts
           /\ \/ rows[m] = messages[m]
              \/ /\ messages[m].status = "IN_FLIGHT"
                 /\ rows[m].status = IF messages[m].attempts >= MaxDeliveries THEN "DEAD" ELSE "AVAILABLE"
  BY <1>1, RecoveredRows
<1>3. PICK c \in Deliverable(rows, lane, t) :
           /\ messages' = [rows EXCEPT
                  ![c].status = "IN_FLIGHT",
                  ![c].attempts = rows[c].attempts + 1,
                  ![c].epoch = rows[c].epoch + 1,
                  ![c].owner = OwnerOf[r],
                  ![c].expires = t + VisibilityTicks]
           /\ deliveries' = [deliveries EXCEPT
                  ![r] = [message |-> c, owner |-> OwnerOf[r], epoch |-> rows[c].epoch + 1]]
  BY DEF Claim
<1>4. /\ deliveries[r] = NoDelivery
      /\ redrives' = redrives /\ now' = now
  BY DEF Claim
<1>5. /\ c \in Messages
      /\ rows[c].status = "AVAILABLE"
      /\ ~HasOlder(rows, c)
  BY DEF Deliverable
<1> HIDE DEF rows
<1>6. /\ rows[c] \in MessageRow
      /\ rows[c].attempts < MaxDeliveries
  <2>1. messages[c] \in MessageRow /\ messages[c].attempts \in Nat /\ MaxDeliveries \in Nat
    BY <1>5, ParameterAssumption DEF Typed, MessageRow
  <2>2. CASE rows[c] = messages[c]
    BY <1>2, <1>5, <2>2 DEF Budgeted
  <2>3. CASE rows[c] # messages[c]
    BY <1>2, <1>5, <2>1, <2>3
  <2> QED
    BY <1>2, <1>5, <2>2, <2>3
<1> DEFINE claimed == [rows[c] EXCEPT !.status = "IN_FLIGHT", !.attempts = rows[c].attempts + 1,
                                      !.epoch = rows[c].epoch + 1, !.owner = OwnerOf[r],
                                      !.expires = t + VisibilityTicks]
<1>7. /\ claimed \in MessageRow
      /\ claimed.status = "IN_FLIGHT"
      /\ claimed.sequence = rows[c].sequence
      /\ claimed.epoch = rows[c].epoch + 1
  <2>1. OwnerOf[r] \in Owners /\ t + VisibilityTicks \in Nat
    BY <1>1, ParameterAssumption
  <2> QED
    BY <1>6, <2>1, ClaimedRow, ZenonT(30)
<1>8. /\ messages'[c] = claimed
      /\ \A m \in Messages : m # c => messages'[m] = rows[m]
      /\ messages' \in [Messages -> MessageRow]
  BY <1>2, <1>3, <1>5, <1>7
<1> HIDE DEF claimed
<1>9. rows[c].epoch + 1 \in Nat /\ messages[c].epoch \in Nat
  BY <1>2, <1>5, <1>6 DEF MessageRow
<1>10. Typed'
  <2>1. [message |-> c, owner |-> OwnerOf[r], epoch |-> rows[c].epoch + 1] \in Delivery
    BY <1>5, <1>9, ParameterAssumption DEF Delivery
  <2> QED
    BY <1>3, <1>4, <1>8, <2>1 DEF Typed
<1>11. Budgeted'
  <2> SUFFICES ASSUME NEW m \in Messages, messages'[m].status \in {"ABSENT", "AVAILABLE"}
               PROVE  messages'[m].attempts < MaxDeliveries
    BY DEF Budgeted
  <2>1. m # c /\ messages'[m] = rows[m]
    BY <1>7, <1>8
  <2>2. messages[m].attempts \in Nat /\ MaxDeliveries \in Nat
    BY ParameterAssumption DEF Typed, MessageRow
  <2> QED
    BY <1>2, <2>1, <2>2 DEF Budgeted
<1>12. Numbers /\ Same("ABSENT") /\ Same("SUPERSEDED")
  <2>1. ASSUME NEW m \in Messages
        PROVE  /\ messages'[m].sequence = messages[m].sequence
               /\ messages'[m].status = "ABSENT" <=> messages[m].status = "ABSENT"
               /\ messages'[m].status = "SUPERSEDED" <=> messages[m].status = "SUPERSEDED"
    <3>1. CASE m = c
      BY <1>2, <1>5, <1>7, <1>8, <3>1
    <3>2. CASE m # c
      BY <1>2, <1>8, <3>2
    <3> QED
      BY <3>1, <3>2
  <2> QED
    BY <2>1 DEF Numbers, Same
<1>13. Numbered' /\ NewestHeadSurvives'
  BY <1>12, NotPublished
<1>14. Receipts'
  <2>1. \A s \in Receivers : deliveries[s] # NoDelivery =>
           /\ deliveries[s].message \in Messages
           /\ deliveries[s].epoch \in Nat
           /\ deliveries[s].epoch =< messages[deliveries[s].message].epoch
    BY DEF Receipts, Typed, Delivery
  <2>2. /\ deliveries'[r].message = c
        /\ deliveries'[r].epoch = messages[c].epoch + 1
        /\ \A s \in Receivers : s # r => deliveries'[s] = deliveries[s]
    BY <1>2, <1>3, <1>5 DEF Typed
  <2>3. /\ messages'[c].epoch = messages[c].epoch + 1
        /\ \A m \in Messages : m # c => messages'[m].epoch = messages[m].epoch
    BY <1>2, <1>5, <1>7, <1>8
  <2>4. ASSUME NEW s \in Receivers, deliveries'[s] # NoDelivery
        PROVE  deliveries'[s].epoch =< messages'[deliveries'[s].message].epoch
    <3>1. CASE s = r
      BY <1>9, <2>2, <2>3, <3>1
    <3>2. CASE s # r
      <4>1. /\ deliveries[s].message \in Messages
            /\ deliveries[s].epoch \in Nat
            /\ deliveries[s].epoch =< messages[deliveries[s].message].epoch
            /\ deliveries'[s] = deliveries[s]
        BY <2>1, <2>2, <2>4, <3>2
      <4>2. CASE deliveries[s].message = c
        BY <1>9, <2>3, <4>1, <4>2
      <4>3. CASE deliveries[s].message # c
        BY <2>3, <4>1, <4>3
      <4> QED
        BY <4>2, <4>3
    <3> QED
      BY <3>1, <3>2
  <2>5. ASSUME NEW s \in Receivers, deliveries[s] # NoDelivery, s # r, deliveries[s].message = c
        PROVE  deliveries[s].epoch < messages[c].epoch + 1
    BY <1>9, <2>1, <2>5
  <2>6. ASSUME NEW s1 \in Receivers, NEW s2 \in Receivers,
               deliveries'[s1] # NoDelivery, deliveries'[s2] # NoDelivery,
               deliveries'[s1].message = deliveries'[s2].message,
               deliveries'[s1].epoch = deliveries'[s2].epoch
        PROVE  s1 = s2
    <3>1. CASE s1 # r /\ s2 # r
      BY <2>2, <2>6, <3>1 DEF Receipts
    <3>2. CASE s1 = r /\ s2 # r
      BY <1>9, <2>1, <2>2, <2>5, <2>6, <3>2
    <3>3. CASE s1 # r /\ s2 = r
      BY <1>9, <2>1, <2>2, <2>5, <2>6, <3>3
    <3> QED
      BY <3>1, <3>2, <3>3
  <2> QED
    BY <2>4, <2>6 DEF Receipts
<1>15. GroupsAreFifo'
  <2> SUFFICES ASSUME NEW m \in Messages, NEW n \in Messages, SameQueue(m, n),
                      messages'[m].status = "IN_FLIGHT", messages'[n].status \in Live, redrives'[n] = 0
               PROVE  messages'[m].sequence =< messages'[n].sequence
    BY DEF GroupsAreFifo
  <2>1. /\ messages'[m].sequence = messages[m].sequence
        /\ messages'[n].sequence = messages[n].sequence
        /\ messages[m].sequence \in Nat /\ messages[n].sequence \in Nat
    BY <1>12 DEF Numbers, Typed, MessageRow
  <2>2. rows[n].status \in Live /\ messages[n].status \in Live
    <3>1. CASE n = c
      BY <1>2, <1>5, <3>1 DEF Live
    <3>2. CASE n # c
      BY <1>2, <1>8, <3>2 DEF Live
    <3> QED
      BY <3>1, <3>2
  <2>3. CASE m = c
    BY <1>2, <1>5, <2>1, <2>2, <2>3 DEF HasOlder
  <2>4. CASE m # c
    <3>1. messages[m].status = "IN_FLIGHT"
      BY <1>2, <1>8, <2>4
    <3> QED
      BY <1>4, <2>1, <2>2, <3>1 DEF GroupsAreFifo
  <2> QED
    BY <2>3, <2>4
<1> QED
  BY <1>10, <1>11, <1>13, <1>14, <1>15

\* What is left is a row that settles, goes back or is put back; no receipt changes.
LEMMA SweepKeeps ==
  ASSUME IInv, NEW lane \in Lanes, NEW t \in Readings, ClaimNothing(lane, t)
  PROVE  IInv'
<1> USE DEF IInv
<1> DEFINE rows == Recovered(lane, t)
<1>1. t \in Nat
  BY ReadingsAreTimes
<1>2. /\ rows \in [Messages -> MessageRow]
      /\ \A m \in Messages :
           /\ rows[m].sequence = messages[m].sequence
           /\ rows[m].epoch = messages[m].epoch
           /\ rows[m].attempts = messages[m].attempts
           /\ \/ rows[m] = messages[m]
              \/ /\ messages[m].status = "IN_FLIGHT"
                 /\ rows[m].status = IF messages[m].attempts >= MaxDeliveries THEN "DEAD" ELSE "AVAILABLE"
  BY <1>1, RecoveredRows
<1>3. messages' = rows /\ deliveries' = deliveries /\ redrives' = redrives /\ now' = now
  BY DEF ClaimNothing
<1> HIDE DEF rows
<1>4. Typed'
  BY <1>2, <1>3 DEF Typed
<1>5. Budgeted'
  <2> SUFFICES ASSUME NEW m \in Messages, rows[m].status \in {"ABSENT", "AVAILABLE"}
               PROVE  rows[m].attempts < MaxDeliveries
    BY <1>3 DEF Budgeted
  <2>1. messages[m].attempts \in Nat /\ MaxDeliveries \in Nat
    BY ParameterAssumption DEF Typed, MessageRow
  <2> QED
    BY <1>2, <2>1 DEF Budgeted
<1>6. Numbers /\ Epochs /\ Same("ABSENT") /\ Same("SUPERSEDED")
  BY <1>2, <1>3 DEF Numbers, Epochs, Same
<1>7. GroupsAreFifo'
  BY <1>2, <1>3, <1>6, NotInFlight DEF Live
<1> QED
  BY <1>3, <1>4, <1>5, <1>6, <1>7, NotPublished, NotClaimed

LEMMA AcknowledgeKeeps ==
  ASSUME IInv, NEW r \in Receivers, NEW t \in Readings, Acknowledge(r, t)
  PROVE  IInv'
<1> USE DEF IInv
<1> DEFINE d == deliveries[r].message
<1>1. d \in Messages /\ messages[d] \in MessageRow /\ messages[d].status = "IN_FLIGHT"
  BY DEF Acknowledge, ActiveDelivery, Typed, Delivery
<1>2. "ACKED" \in MessageStatus
  BY DEF MessageStatus
<1>3. /\ messages' = [messages EXCEPT ![d] = Settle(messages[d], "ACKED")]
      /\ deliveries' = deliveries /\ redrives' = redrives /\ now' = now
  BY DEF Acknowledge
<1> HIDE DEF d
<1>4. /\ messages' \in [Messages -> MessageRow]
      /\ messages'[d].status = "ACKED"
      /\ messages'[d].sequence = messages[d].sequence
      /\ messages'[d].epoch = messages[d].epoch
      /\ \A m \in Messages : m # d => messages'[m] = messages[m]
  BY <1>1, <1>2, <1>3, SettleRow DEF Typed
<1>5. Typed'
  BY <1>3, <1>4 DEF Typed
<1>6. Budgeted'
  BY <1>4 DEF Budgeted
<1>7. Numbers /\ Epochs /\ Same("ABSENT") /\ Same("SUPERSEDED")
  BY <1>1, <1>4 DEF Numbers, Epochs, Same
<1>8. GroupsAreFifo'
  BY <1>3, <1>4, <1>7, NotInFlight DEF Live
<1> QED
  BY <1>3, <1>5, <1>6, <1>7, <1>8, NotPublished, NotClaimed

LEMMA RetryKeeps ==
  ASSUME IInv, NEW r \in Receivers, NEW available \in Readings, NEW t \in Readings, Retry(r, available, t)
  PROVE  IInv'
<1> USE DEF IInv
<1> DEFINE d == deliveries[r].message
<1>1. d \in Messages /\ messages[d] \in MessageRow /\ messages[d].status = "IN_FLIGHT"
  BY DEF Retry, ActiveDelivery, Typed, Delivery
<1>2. available \in Nat
  BY ReadingsAreTimes
<1>3. /\ messages' = [messages EXCEPT ![d] = Requeue(messages[d], available)]
      /\ deliveries' = deliveries /\ redrives' = redrives /\ now' = now
  BY DEF Retry
<1> HIDE DEF d
<1>4. /\ messages' \in [Messages -> MessageRow]
      /\ messages'[d].status = IF messages[d].attempts >= MaxDeliveries THEN "DEAD" ELSE "AVAILABLE"
      /\ messages'[d].sequence = messages[d].sequence
      /\ messages'[d].epoch = messages[d].epoch
      /\ messages'[d].attempts = messages[d].attempts
      /\ \A m \in Messages : m # d => messages'[m] = messages[m]
  BY <1>1, <1>2, <1>3, RequeueRow DEF Typed
<1>5. Typed'
  BY <1>3, <1>4 DEF Typed
<1>6. Budgeted'
  <2>1. messages[d].attempts \in Nat /\ MaxDeliveries \in Nat
    BY <1>1, ParameterAssumption DEF MessageRow
  <2> QED
    BY <1>1, <1>4, <2>1 DEF Budgeted
<1>7. Numbers /\ Epochs /\ Same("ABSENT") /\ Same("SUPERSEDED")
  BY <1>1, <1>4 DEF Numbers, Epochs, Same
<1>8. GroupsAreFifo'
  BY <1>1, <1>3, <1>4, <1>7, NotInFlight DEF Live
<1> QED
  BY <1>3, <1>5, <1>6, <1>7, <1>8, NotPublished, NotClaimed

LEMMA RedriveKeeps ==
  ASSUME IInv, NEW d \in Messages, Redrive(d, now)
  PROVE  IInv'
<1> USE DEF IInv
<1>1. messages[d] \in MessageRow /\ messages[d].status = "DEAD" /\ now \in Nat
  BY DEF Redrive, Typed
<1>2. /\ messages' = [messages EXCEPT
           ![d] = [Settle(messages[d], "AVAILABLE") EXCEPT !.attempts = 0, !.available = now]]
      /\ redrives' = [redrives EXCEPT ![d] = redrives[d] + 1]
      /\ deliveries' = deliveries /\ now' = now
  BY DEF Redrive
<1>3. /\ messages' \in [Messages -> MessageRow]
      /\ messages'[d].status = "AVAILABLE"
      /\ messages'[d].sequence = messages[d].sequence
      /\ messages'[d].epoch = messages[d].epoch
      /\ messages'[d].attempts = 0
      /\ \A m \in Messages : m # d => messages'[m] = messages[m]
  BY <1>1, <1>2, RedrivenRow DEF Typed
<1>4. /\ redrives' \in [Messages -> Nat]
      /\ redrives'[d] # 0
      /\ \A m \in Messages : m # d => redrives'[m] = redrives[m]
  BY <1>2 DEF Typed
<1>5. Typed'
  BY <1>2, <1>3, <1>4 DEF Typed
<1>6. Budgeted'
  BY <1>3, ParameterAssumption DEF Budgeted
<1>7. Numbers /\ Epochs /\ Same("ABSENT") /\ Same("SUPERSEDED")
  BY <1>1, <1>3 DEF Numbers, Epochs, Same
<1>8. GroupsAreFifo'
  BY <1>3, <1>4, <1>7, NotInFlight
<1> QED
  BY <1>2, <1>5, <1>6, <1>7, <1>8, NotPublished, NotClaimed

LEMMA DropKeeps ==
  ASSUME IInv, NEW r \in Receivers, Drop(r)
  PROVE  IInv'
<1> USE DEF IInv
<1>1. /\ deliveries' = [deliveries EXCEPT ![r] = NoDelivery]
      /\ messages' = messages /\ redrives' = redrives /\ now' = now
  BY DEF Drop
<1>2. \A s \in Receivers : deliveries'[s] # NoDelivery => s # r /\ deliveries'[s] = deliveries[s]
  BY <1>1 DEF Typed
<1>3. Typed'
  BY <1>1 DEF Typed
<1>4. Receipts'
  BY <1>1, <1>2 DEF Receipts
<1> QED
  BY <1>1, <1>3, <1>4 DEF Budgeted, Numbered, Published, GroupsAreFifo, NewestHeadSurvives

LEMMA RestKeeps ==
  ASSUME IInv, messages' = messages, deliveries' = deliveries, redrives' = redrives, now' \in Nat
  PROVE  IInv'
BY DEF IInv, Typed, Budgeted, Numbered, Published, Receipts, GroupsAreFifo, NewestHeadSurvives

LEMMA StepInvariant == IInv /\ [Next]_vars => IInv'
<1> SUFFICES ASSUME IInv, [Next]_vars
             PROVE  IInv'
  OBVIOUS
<1>1. CASE \E m \in Messages, t \in Readings : Publish(m, t)
  BY <1>1, PublishKeeps
<1>2. ASSUME NEW r \in Receivers, NEW t \in Readings, ReceiverStep(r, t)
      PROVE  IInv'
  BY <1>2, ClaimKeeps, AcknowledgeKeeps, RetryKeeps DEF ReceiverStep
<1>3. CASE \E lane \in Lanes, t \in Readings : ClaimNothing(lane, t)
  BY <1>3, SweepKeeps
<1>4. CASE \E m \in Messages : Redrive(m, now)
  BY <1>4, RedriveKeeps
<1>5. CASE \E r \in Receivers : Drop(r)
  BY <1>5, DropKeeps
<1>6. CASE Tick
  BY <1>6, RestKeeps DEF Tick, IInv, Typed
<1>7. CASE UNCHANGED vars
  BY <1>7, RestKeeps DEF vars, IInv, Typed
<1> QED
  BY <1>1, <1>2, <1>3, <1>4, <1>5, <1>6, <1>7 DEF Next

THEOREM Invariant == Spec => []IInv
BY InitInvariant, StepInvariant, PTL DEF Spec

-----------------------------------------------------------------------------
(* What follows.                                                           *)

\* One receiver of a message can settle it, and a group is worked on in the order of
\* its publications.
THEOREM DeliveryInTurn == Spec => []DeliveredInTurn
<1>1. IInv => DeliveredInTurn
  <2> SUFFICES ASSUME IInv
               PROVE  OneActiveDelivery
    BY DEF DeliveredInTurn, IInv
  <2> SUFFICES ASSUME NEW r1 \in Receivers, NEW r2 \in Receivers,
                      deliveries[r1] # NoDelivery, deliveries[r2] # NoDelivery,
                      deliveries[r1].message = deliveries[r2].message,
                      \E t \in Readings : ActiveDelivery(deliveries[r1], t),
                      \E t \in Readings : ActiveDelivery(deliveries[r2], t)
               PROVE  r1 = r2
    BY DEF OneActiveDelivery
  <2>1. deliveries[r1].epoch = deliveries[r2].epoch
    BY DEF ActiveDelivery
  <2> QED
    BY <2>1 DEF IInv, Receipts
<1> QED
  BY <1>1, Invariant, PTL

\* Supersession leaves the newest head of a pull request.
THEOREM HeadSurvives == Spec => []NewestHeadSurvives
<1>1. IInv => NewestHeadSurvives
  BY DEF IInv
<1> QED
  BY <1>1, Invariant, PTL

\* A message leaves the queue only acknowledged by the receiver of its current delivery,
\* superseded, or dead with no delivery left.
THEOREM MessagesAreKept == Spec => NoMessageLost
<1>1. ASSUME IInv, [Next]_vars
      PROVE  MessagesKept
  <2> SUFFICES ASSUME NEW m \in Messages, messages[m].status \in Live, messages'[m].status \notin Live
               PROVE  AckedByHolder(m) \/ Replaced(m) \/ UsedUp(m)
    BY DEF MessagesKept
  <2> USE <1>1 DEF IInv
  <2>1. /\ messages[m] \in MessageRow
        /\ messages[m].attempts >= MaxDeliveries => messages[m].attempts = MaxDeliveries
    <3>1. messages[m] \in MessageRow
      BY DEF Typed
    <3>2. messages[m].attempts \in 0..MaxDeliveries /\ MaxDeliveries \in Nat
      BY <3>1, ParameterAssumption DEF MessageRow
    <3> QED
      BY <3>1, <3>2
  <2>2. ASSUME NEW p \in Messages, NEW t \in Readings, Publish(p, t)
        PROVE  Replaced(m)
    <3>1. m # p /\ messages[p].status = "ABSENT"
      BY <2>2 DEF Publish, Live
    <3>2. messages'[m].status = "SUPERSEDED"
      BY <2>2, <3>1 DEF Publish, Settle, Typed, MessageRow
    <3>3. messages'[p].status = "AVAILABLE"
      BY <2>2 DEF Publish, Stored, Typed, MessageRow
    <3> QED
      BY <3>1, <3>2, <3>3 DEF Replaced
  <2>3. ASSUME NEW lane \in Lanes, NEW t \in Readings,
               messages'[m] = Recovered(lane, t)[m]
        PROVE  UsedUp(m)
    <3>1. t \in Nat
      BY ReadingsAreTimes
    <3>2. \/ Recovered(lane, t)[m] = messages[m]
          \/ Recovered(lane, t)[m].status = IF messages[m].attempts >= MaxDeliveries THEN "DEAD" ELSE "AVAILABLE"
      BY <3>1, RecoveredRows
    <3> QED
      BY <2>1, <2>3, <3>2 DEF Live, UsedUp
  <2>4. ASSUME NEW r \in Receivers, NEW lane \in Lanes, NEW t \in Readings, Claim(r, lane, t)
        PROVE  UsedUp(m)
    <3>1. t \in Nat
      BY ReadingsAreTimes
    <3>2. Recovered(lane, t) \in [Messages -> MessageRow]
      BY <3>1, RecoveredRows
    <3>3. PICK c \in Messages :
             messages' = [Recovered(lane, t) EXCEPT
                  ![c].status = "IN_FLIGHT",
                  ![c].attempts = Recovered(lane, t)[c].attempts + 1,
                  ![c].epoch = Recovered(lane, t)[c].epoch + 1,
                  ![c].owner = OwnerOf[r],
                  ![c].expires = t + VisibilityTicks]
      BY <2>4 DEF Claim, Deliverable
    <3>4. messages'[c].status = "IN_FLIGHT"
      BY <3>2, <3>3 DEF MessageRow
    <3>5. m # c
      BY <3>4 DEF Live
    <3> QED
      BY <2>3, <3>2, <3>3, <3>5
  <2>5. ASSUME NEW r \in Receivers, NEW t \in Readings, Acknowledge(r, t)
        PROVE  AckedByHolder(m)
    <3>1. /\ t \in Nat /\ now - t =< LockWait
          /\ now \in Nat /\ LockWait \in Nat
      BY ReadingsAreTimes, ParameterAssumption DEF Typed
    <3>2. /\ deliveries[r] # NoDelivery
          /\ deliveries[r].message = m
      BY <2>5 DEF Acknowledge, Typed
    <3>3. /\ deliveries[r].epoch = messages[m].epoch
          /\ t < messages[m].expires
          /\ messages[m].expires \in Int
      BY <2>1, <2>5, <3>2 DEF Acknowledge, ActiveDelivery, MessageRow, NoTime
    <3>4. messages'[m].status = "ACKED"
      BY <2>1, <2>5, <3>2 DEF Acknowledge, Settle, Typed, MessageRow
    <3>5. now - LockWait < messages[m].expires
      BY <3>1, <3>3
    <3> QED
      BY <3>2, <3>3, <3>4, <3>5 DEF AckedByHolder
  <2>6. ASSUME NEW r \in Receivers, NEW available \in Readings, NEW t \in Readings, Retry(r, available, t)
        PROVE  UsedUp(m)
    <3>1. deliveries[r].message = m /\ messages' = [messages EXCEPT ![m] = Requeue(messages[m], available)]
      BY <2>6 DEF Retry, Typed
    <3>2. messages'[m].status = IF messages[m].attempts >= MaxDeliveries THEN "DEAD" ELSE "AVAILABLE"
      BY <2>1, <3>1, ReadingsAreTimes, RequeueRow DEF Typed
    <3> QED
      BY <2>1, <3>2 DEF Live, UsedUp
  <2>7. ASSUME NEW d \in Messages, Redrive(d, now)
        PROVE  FALSE
    <3>1. messages' = [messages EXCEPT ![d] = [Settle(messages[d], "AVAILABLE") EXCEPT !.attempts = 0, !.available = now]]
      BY <2>7 DEF Redrive
    <3>2. m = d
      BY <3>1 DEF Typed
    <3> QED
      BY <2>7, <3>2 DEF Redrive, Live
  <2>8. CASE messages' = messages
    BY <2>8
  <2>9. ASSUME NEW lane \in Lanes, NEW t \in Readings, ClaimNothing(lane, t)
        PROVE  UsedUp(m)
    BY <2>3, <2>9 DEF ClaimNothing
  <2>10. ASSUME NEW r \in Receivers, NEW t \in Readings, ReceiverStep(r, t)
         PROVE  AckedByHolder(m) \/ Replaced(m) \/ UsedUp(m)
    BY <2>4, <2>5, <2>6, <2>10 DEF ReceiverStep
  <2> QED
    BY <2>2, <2>7, <2>8, <2>9, <2>10 DEF Next, vars, Drop, Tick
<1> QED
  BY <1>1, Invariant, PTL DEF Spec, NoMessageLost
=============================================================================
