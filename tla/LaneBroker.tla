----------------------------- MODULE LaneBroker -----------------------------
(***************************************************************************)
(* LocalLaneBroker: a persistent queue with lanes, FIFO groups inside a    *)
(* lane, round-robin fairness between groups, deliveries fenced by an      *)
(* epoch and a visibility timeout, supersession of older PR heads, and a   *)
(* dead-letter status.                                                     *)
(*                                                                         *)
(* Every operation is one BEGIN IMMEDIATE transaction.  It reads the clock *)
(* before the transaction starts, so it decides with a reading t that may  *)
(* be up to LockWait older than `now'.                                     *)
(*                                                                         *)
(* Time stamps are stored as ISO texts and compared as texts by SQL        *)
(* (claim, _recover_expired), as instants by _assert_active_delivery.  The *)
(* text of a whole second has no fraction and sorts after every fraction   *)
(* of that second, because "Z" sorts after ".": TextAtMost is that order.  *)
(***************************************************************************)
EXTENDS Integers, Sequences, FiniteSets

CONSTANTS
    Messages,           \* message ids
    Receivers,          \* threads that claim deliveries
    Owners,             \* owner names
    OwnerOf,            \* the owner name a receiver claims under
    Lanes, Groups,
    LaneOf, GroupOf,    \* lane and group_key of a message
    SupersessionKeys,
    SupersessionKeyOf,  \* supersession_key of a message, or NoKey
    MaxDeliveries,      \* max_attempts of publish
    VisibilityTicks,    \* visibility_timeout_seconds, in ticks
    TicksPerSecond,     \* resolution of the clock: 1 = whole seconds only
    LockWait,           \* longest wait for the write lock
    MaxTime,            \* bound of the model: the clock stops here
    MaxRedrives,        \* bound of the model: redrives of each message
    NoKey, NoOwner, NoDelivery

ASSUME ParameterAssumption ==
    /\ OwnerOf \in [Receivers -> Owners]
    /\ LaneOf \in [Messages -> Lanes]
    /\ GroupOf \in [Messages -> Groups]
    /\ SupersessionKeyOf \in [Messages -> SupersessionKeys \union {NoKey}]
    /\ MaxDeliveries \in Nat \ {0}
    /\ VisibilityTicks \in Nat \ {0}
    /\ TicksPerSecond \in Nat \ {0}
    /\ LockWait \in Nat
    /\ MaxTime \in Nat
    /\ MaxRedrives \in [Messages -> Nat]

ASSUME NullAssumption ==
    /\ NoKey \notin SupersessionKeys
    /\ NoOwner \notin Owners

NoTime == -1

MessageStatus == {"ABSENT", "AVAILABLE", "IN_FLIGHT", "ACKED", "SUPERSEDED", "DEAD"}
Live == {"AVAILABLE", "IN_FLIGHT"}

MessageRow == [status    : MessageStatus,
               sequence  : Nat,
               available : Nat,
               attempts  : 0..MaxDeliveries,
               epoch     : Nat,
               owner     : Owners \union {NoOwner},
               expires   : Nat \union {NoTime}]
Delivery == [message : Messages, owner : Owners, epoch : Nat]

ASSUME RecordNullAssumption == NoDelivery \notin Delivery

VARIABLES
    messages,    \* table lane_messages
    claimOrder,  \* table lane_group_state: its groups by last_claim_order
    deliveries,  \* the LaneMessage each receiver holds in memory
    redrives,    \* redrives so far of a message (bound of the model)
    now          \* the clock

vars == <<messages, claimOrder, deliveries, redrives, now>>

----------------------------------------------------------------------------
Readings == {t \in 0..now : now - t =< LockWait}

(* Position of a time stamp's text in the order SQL compares with. *)
TextRank(t) == IF t % TicksPerSecond = 0 THEN t + TicksPerSecond ELSE t
TextAtMost(a, b) == TextRank(a) =< TextRank(b)

(* _assert_active_delivery, evaluated with clock reading t. *)
ActiveDelivery(d, t) ==
    LET row == messages[d.message]
    IN  /\ row.status = "IN_FLIGHT"
        /\ row.owner = d.owner
        /\ row.epoch = d.epoch
        /\ row.expires # NoTime
        /\ t < row.expires

(* Mutant of Exhausted: one delivery early. *)
ExhaustedEarly(row) == row.attempts + 1 >= MaxDeliveries

Exhausted(row) == row.attempts >= MaxDeliveries

(* The columns every transition out of IN_FLIGHT clears. *)
Settle(row, status) ==
    [row EXCEPT !.status = status, !.owner = NoOwner, !.expires = NoTime]

(* Back to the queue, or to the dead letters once the attempts are used. *)
Requeue(row, available) ==
    [Settle(row, IF Exhausted(row) THEN "DEAD" ELSE "AVAILABLE")
        EXCEPT !.available = available]

(* The deliveries _recover_expired selects. *)
Expired(row, t) == row.status = "IN_FLIGHT" /\ TextAtMost(row.expires, t)

(* _recover_expired: the rows of the lane after the sweep. *)
Recovered(lane, t) ==
    [m \in Messages |->
        IF LaneOf[m] = lane /\ Expired(messages[m], t)
        THEN Requeue(messages[m], t)
        ELSE messages[m]]

SameQueue(m, n) == LaneOf[m] = LaneOf[n] /\ GroupOf[m] = GroupOf[n]

(* Mutant of HasOlder: an older message in flight does not block. *)
HasOlderWaiting(rows, m) ==
    \E n \in Messages :
        /\ SameQueue(m, n)
        /\ rows[n].sequence < rows[m].sequence
        /\ rows[n].status = "AVAILABLE"

(* An older message of the group that is still live blocks the group. *)
HasOlder(rows, m) ==
    \E n \in Messages :
        /\ SameQueue(m, n)
        /\ rows[n].sequence < rows[m].sequence
        /\ rows[n].status \in Live

Deliverable(rows, lane, t) ==
    {m \in Messages :
        /\ LaneOf[m] = lane
        /\ rows[m].status = "AVAILABLE"
        /\ TextAtMost(rows[m].available, t)
        /\ ~HasOlder(rows, m)}

(* Position of the message's group in the order of last claims; 0 (NULL    *)
(* there) for a group that was never claimed.                              *)
OrderOf(m) ==
    LET places == {i \in DOMAIN claimOrder : claimOrder[i] = <<LaneOf[m], GroupOf[m]>>}
    IN  IF places = {} THEN 0 ELSE CHOOSE i \in places : TRUE

(* ORDER BY: groups never claimed first, then the group claimed longest    *)
(* ago, then the older message.                                            *)
Precedes(rows, m, n) ==
    \/ OrderOf(m) < OrderOf(n)
    \/ OrderOf(m) = OrderOf(n) /\ rows[m].sequence =< rows[n].sequence

(* last_claim_order = MAX(last_claim_order) + 1: the group moves to the end. *)
ClaimedLast(m) ==
    LET group == <<LaneOf[m], GroupOf[m]>>
        NotThis(other) == other # group
    IN  Append(SelectSeq(claimOrder, NotThis), group)

Published == {m \in Messages : messages[m].status # "ABSENT"}

----------------------------------------------------------------------------
Init ==
    /\ messages = [m \in Messages |->
                      [status |-> "ABSENT", sequence |-> 0, available |-> 0,
                       attempts |-> 0, epoch |-> 0, owner |-> NoOwner,
                       expires |-> NoTime]]
    /\ claimOrder = <<>>
    /\ deliveries = [r \in Receivers |-> NoDelivery]
    /\ redrives = [m \in Messages |-> 0]
    /\ now = 0

(* The live messages a publication of m replaces. *)
Supersedes(m, n) ==
    /\ SupersessionKeyOf[m] # NoKey
    /\ LaneOf[n] = LaneOf[m]
    /\ SupersessionKeyOf[n] = SupersessionKeyOf[m]
    /\ messages[n].status \in Live

(* The row of a message that is published now. *)
Stored(m, t) ==
    [messages[m] EXCEPT !.status = "AVAILABLE",
                        !.sequence = Cardinality(Published) + 1,
                        !.available = t]

(* Mutant of Publish: the older heads are superseded before a duplicate is *)
(* recognised.                                                             *)
SupersedeThenPublish(m, t) ==
    /\ messages' = [n \in Messages |->
           IF n # m /\ Supersedes(m, n) THEN Settle(messages[n], "SUPERSEDED")
           ELSE IF n = m /\ messages[m].status = "ABSENT" THEN Stored(m, t)
           ELSE messages[n]]
    /\ UNCHANGED <<claimOrder, deliveries, redrives, now>>

(* publish: a message id already stored is returned unchanged. *)
Publish(m, t) ==
    /\ messages[m].status = "ABSENT"
    /\ messages' = [n \in Messages |->
           IF n = m THEN Stored(m, t)
           ELSE IF Supersedes(m, n) THEN Settle(messages[n], "SUPERSEDED")
           ELSE messages[n]]
    /\ UNCHANGED <<claimOrder, deliveries, redrives, now>>

(* claim: expired deliveries of the lane are recovered, then the head of   *)
(* the group whose turn it is goes in flight under the next epoch.         *)
Claim(r, lane, t) ==
    LET rows == Recovered(lane, t)
        ready == Deliverable(rows, lane, t)
    IN  /\ deliveries[r] = NoDelivery
        /\ \E m \in ready :
               /\ \A n \in ready : Precedes(rows, m, n)
               /\ messages' = [rows EXCEPT
                      ![m].status = "IN_FLIGHT",
                      ![m].attempts = rows[m].attempts + 1,
                      ![m].epoch = rows[m].epoch + 1,
                      ![m].owner = OwnerOf[r],
                      ![m].expires = t + VisibilityTicks]
               /\ claimOrder' = ClaimedLast(m)
               /\ deliveries' = [deliveries EXCEPT
                      ![r] = [message |-> m, owner |-> OwnerOf[r],
                              epoch |-> rows[m].epoch + 1]]
        /\ UNCHANGED <<redrives, now>>

(* claim returns None: the recovery sweep is committed all the same. *)
ClaimNothing(lane, t) ==
    /\ Deliverable(Recovered(lane, t), lane, t) = {}
    /\ messages' = Recovered(lane, t)
    /\ UNCHANGED <<claimOrder, deliveries, redrives, now>>

Acknowledge(r, t) ==
    /\ deliveries[r] # NoDelivery
    /\ ActiveDelivery(deliveries[r], t)
    /\ messages' = [messages EXCEPT ![deliveries[r].message] = Settle(@, "ACKED")]
    /\ UNCHANGED <<claimOrder, deliveries, redrives, now>>

(* retry: every caller makes the message available at a clock reading it   *)
(* took just before the call.                                              *)
Retry(r, available, t) ==
    /\ available =< t
    /\ deliveries[r] # NoDelivery
    /\ ActiveDelivery(deliveries[r], t)
    /\ messages' = [messages EXCEPT ![deliveries[r].message] = Requeue(@, available)]
    /\ UNCHANGED <<claimOrder, deliveries, redrives, now>>

(* redrive: an operator puts a dead letter back; its epoch is kept. *)
Redrive(m, available) ==
    /\ messages[m].status = "DEAD"
    /\ redrives[m] < MaxRedrives[m]
    /\ messages' = [messages EXCEPT
           ![m] = [Settle(@, "AVAILABLE") EXCEPT !.attempts = 0, !.available = available]]
    /\ redrives' = [redrives EXCEPT ![m] = @ + 1]
    /\ UNCHANGED <<claimOrder, deliveries, now>>

(* The receiver is done with the delivery, or its process dies. *)
Drop(r) ==
    /\ deliveries[r] # NoDelivery
    /\ deliveries' = [deliveries EXCEPT ![r] = NoDelivery]
    /\ UNCHANGED <<messages, claimOrder, redrives, now>>

Tick ==
    /\ now < MaxTime
    /\ now' = now + 1
    /\ UNCHANGED <<messages, claimOrder, deliveries, redrives>>

ReceiverStep(r, t) ==
    \/ \E lane \in Lanes : Claim(r, lane, t)
    \/ Acknowledge(r, t)
    \/ \E available \in Readings : Retry(r, available, t)

Next ==
    \/ \E m \in Messages, t \in Readings : Publish(m, t)
    \/ \E r \in Receivers, t \in Readings : ReceiverStep(r, t)
    \/ \E lane \in Lanes, t \in Readings : ClaimNothing(lane, t)
    \/ \E m \in Messages : Redrive(m, now)
    \/ \E r \in Receivers : Drop(r)
    \/ Tick

Spec == Init /\ [][Next]_vars

----------------------------------------------------------------------------
(* The rows and deliveries have the shapes of their tables. *)
TypeOK ==
    /\ messages \in [Messages -> MessageRow]
    /\ claimOrder \in Seq(Lanes \X Groups)
    /\ deliveries \in [Receivers -> Delivery \union {NoDelivery}]
    /\ redrives \in [Messages -> Nat]
    /\ now \in Nat

(* Receipts are fenced: of the receivers that still hold a delivery of a   *)
(* message in memory, at most one can acknowledge or retry it, also after  *)
(* a redrive, which starts the attempts again but not the epoch.           *)
OneActiveDelivery ==
    \A r1, r2 \in Receivers :
        /\ deliveries[r1] # NoDelivery
        /\ deliveries[r2] # NoDelivery
        /\ deliveries[r1].message = deliveries[r2].message
        /\ \E t \in Readings : ActiveDelivery(deliveries[r1], t)
        /\ \E t \in Readings : ActiveDelivery(deliveries[r2], t)
        => r1 = r2

(* A group works on one message at a time, and in publication order: a     *)
(* message in flight has no older live message in its group, but for one   *)
(* that died, was passed by, and was redriven by an operator.              *)
GroupsAreFifo ==
    \A m, n \in Messages :
        /\ SameQueue(m, n)
        /\ messages[m].status = "IN_FLIGHT"
        /\ messages[n].status \in Live
        /\ redrives[n] = 0
        => messages[m].sequence =< messages[n].sequence

(* A group is worked on by one receiver at a time, in order: whoever is     *)
(* late, by a stale clock or after a redrive, can not settle the delivery   *)
(* of another, and no message overtakes an older one of its group.          *)
DeliveredInTurn == OneActiveDelivery /\ GroupsAreFifo

(* Supersession never loses the newest head: a superseded message has a    *)
(* newer one of its lane and key, and the newest was not superseded.       *)
NewestHeadSurvives ==
    \A m \in Messages :
        messages[m].status = "SUPERSEDED" =>
            \E n \in Messages :
                /\ LaneOf[n] = LaneOf[m]
                /\ SupersessionKeyOf[n] = SupersessionKeyOf[m]
                /\ messages[n].sequence > messages[m].sequence
                /\ messages[n].status # "SUPERSEDED"

(* How a live message may leave the queue in a step.                        *)
AckedByHolder(m) ==
    /\ messages'[m].status = "ACKED"
    /\ \E r \in Receivers :
           /\ deliveries[r] # NoDelivery
           /\ deliveries[r].message = m
           /\ deliveries[r].epoch = messages[m].epoch
    /\ now - LockWait < messages[m].expires
Replaced(m) ==
    /\ messages'[m].status = "SUPERSEDED"
    /\ \E n \in Messages :
           messages[n].status = "ABSENT" /\ messages'[n].status = "AVAILABLE"
UsedUp(m) ==
    /\ messages'[m].status = "DEAD"
    /\ messages[m].attempts = MaxDeliveries
MessagesKept ==
    \A m \in Messages :
        messages[m].status \in Live /\ messages'[m].status \notin Live =>
            AckedByHolder(m) \/ Replaced(m) \/ UsedUp(m)

(* A message leaves the queue for good only by the acknowledgement of its  *)
(* current delivery, by supersession, or after all its deliveries: no      *)
(* sweep, retry or stale receipt loses it.                                 *)
NoMessageLost == [][MessagesKept]_vars

=============================================================================
