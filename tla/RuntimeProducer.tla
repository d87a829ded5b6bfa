---------------------------- MODULE RuntimeProducer ----------------------------
(***************************************************************************)
(* The producer inside an instrumented process (runtime/producer.py): the  *)
(* threads of the application put records into a bounded queue, a flusher  *)
(* sends them in batches to a transport, and a window closes as COMPLETE   *)
(* only if nothing was lost.  The lease it works under is a copy that a    *)
(* control-plane client updates from outside.  The process may stop; the   *)
(* next one starts from the last snapshot that the host took, if any.      *)
(***************************************************************************)
EXTENDS Integers, FiniteSets, Sequences

CONSTANTS
  Threads,      \* threads of the application
  MaxRecords,   \* limits.max_records
  BatchSize,    \* limits.batch_size
  MaxRetries,   \* limits.max_retries
  Ends,         \* how the cached lease may end
  MaxEnqueues, MaxRestarts  \* bounds: payloads, restarts of the process

ASSUME ProducerAssumption ==
  /\ {MaxRecords, BatchSize} \subseteq Nat \ {0}
  /\ {MaxRetries, MaxEnqueues, MaxRestarts} \subseteq Nat
  /\ Ends \subseteq {"DISABLED", "REVOKED", "EXPIRED", "ANOTHER"}

VARIABLES
  cached,     \* the lease of the window, as the control-plane client knows it
  buffer,     \* the queue: records with their retries
  count,      \* the counters of the producer
  deferred,   \* counts that wait for the next holder of the lock
  thread,     \* what each thread of the application is doing
  batch,      \* the records that the flusher is sending
  handed,     \* how many payloads the application has handed over
  returned,   \* those whose enqueue has returned
  received,   \* those that intake has
  closed,     \* what the last window closed with, and the payloads of a complete one
  saved,      \* the last snapshot that the host took, and the payloads there were
  forgotten,  \* the payloads that a restart knew nothing of
  restarts

producerVars == <<cached, buffer, count, deferred, thread, batch, handed, returned, received, closed, saved, forgotten,
                  restarts>>

Counters == {"accepted", "rejected", "dropped", "drained", "lease_noops", "internal_errors", "lost_on_restart"}
Zero == [c \in Counters |-> 0]
NotClosed == [outcome |-> "NONE", payloads |-> {}]
NoSnapshot == [count |-> Zero, buffered |-> 0, payloads |-> {}]

ProducerInit ==
  /\ cached = "ACTIVE"
  /\ buffer = << >>
  /\ count = Zero
  /\ deferred = Zero
  /\ thread = [t \in Threads |-> 0]
  /\ batch = << >>
  /\ handed = 0
  /\ returned = {}
  /\ received = {}
  /\ closed = NotClosed
  /\ saved = NoSnapshot
  /\ forgotten = {}
  /\ restarts = 0

Plus(counts, more) == [c \in Counters |-> counts[c] + more[c]]
Once(some) == [c \in Counters |-> IF c \in some THEN 1 ELSE 0]
Times(c, n) == [Zero EXCEPT ![c] = n]
\* Whoever gets the lock adds what was deferred.
Count(more) == count' = Plus(Plus(count, deferred), more) /\ deferred' = Zero
Defer(some) == deferred' = Plus(deferred, Once(some)) /\ UNCHANGED count

\* CachedLeaseProvider.update: another lease, or the state that this one has now.
UpdateLease(state) ==
  /\ cached = "ACTIVE"
  /\ cached' = state
  /\ UNCHANGED <<buffer, count, deferred, thread, batch, handed, returned, received, closed, saved, forgotten, restarts>>

\* enqueue: without a lock, a payload that is not permitted is counted and refused, and
\* nothing is taken under a lease that is over or another one.
Enqueue(t) ==
  /\ thread[t] = 0 /\ handed < MaxEnqueues
  /\ handed' = handed + 1
  /\ \/ /\ cached = "ACTIVE"
        /\ thread' = [thread EXCEPT ![t] = handed']
        /\ UNCHANGED <<count, deferred, returned>>
     \/ /\ \/ cached = "ACTIVE" /\ Defer({"rejected"})
           \/ cached # "ACTIVE" /\ Defer({"lease_noops"})
        /\ returned' = returned \cup {handed'}
        /\ UNCHANGED thread
  /\ UNCHANGED <<cached, buffer, batch, received, closed, saved, forgotten, restarts>>

EnqueueReturns(t) ==
  /\ thread[t] # 0
  /\ thread' = [thread EXCEPT ![t] = 0]
  /\ returned' = returned \cup {thread[t]}
  /\ UNCHANGED <<cached, batch, handed, received, closed, saved, forgotten, restarts>>

\* The thread gets the lock: the record is appended if there is room and time.
AppendRecord(t) ==
  /\ EnqueueReturns(t)
  /\ \/ /\ Len(buffer) < MaxRecords
        /\ buffer' = Append(buffer, [payload |-> thread[t], retries |-> 0])
        /\ Count(Once({"accepted"}))
     \/ Count(Once({"accepted", "dropped"})) /\ UNCHANGED buffer

\* It does not get the lock in time.
QueueBusy(t) ==
  /\ EnqueueReturns(t)
  /\ Defer({"accepted", "dropped"})
  /\ UNCHANGED buffer

\* flush: one at a time, a prefix of the queue, which stays in the queue meanwhile.
\* What is buffered under a lease that is over is dropped.
Prefix(n) == SubSeq(buffer, 1, IF Len(buffer) < n THEN Len(buffer) ELSE n)
Flush ==
  /\ batch = << >> /\ buffer # << >>
  /\ IF cached = "ACTIVE"
     THEN batch' = Prefix(BatchSize) /\ UNCHANGED <<buffer, count, deferred>>
     ELSE /\ buffer' = << >>
          /\ Count(Plus(Times("dropped", Len(buffer)), Once({"lease_noops"})))
          /\ UNCHANGED batch
  /\ UNCHANGED <<cached, thread, handed, returned, received, closed, saved, forgotten, restarts>>

\* _apply_delivery: the transport has acknowledged, refused or failed for each record,
\* and what failed may have arrived; an answer about other records than those that were
\* sent is a failure for all of them.
Rest == SubSeq(buffer, Len(batch) + 1, Len(buffer))
Exhausted(item) == item.retries >= MaxRetries
Indices(answer, what) == {i \in DOMAIN batch : answer[i] = what}
Kept(answer) == {i \in Indices(answer, "RETRYABLE") : ~Exhausted(batch[i])}
Rank(set, i) == Cardinality({j \in set : j =< i})
Nth(set, n) == CHOOSE i \in set : Rank(set, i) = n
Retained(answer) ==
  [n \in 1..Cardinality(Kept(answer)) |-> [batch[Nth(Kept(answer), n)] EXCEPT !.retries = @ + 1]]
Lost(answer) == Indices(answer, "REJECTED") \cup {i \in Indices(answer, "RETRYABLE") : Exhausted(batch[i])}

ApplyDelivery ==
  /\ batch # << >>
  /\ \E answer \in [DOMAIN batch -> {"ACKNOWLEDGED", "REJECTED", "RETRYABLE"}], unknown \in BOOLEAN :
       /\ unknown => Indices(answer, "RETRYABLE") = DOMAIN batch
       /\ \E arrived \in SUBSET Indices(answer, "RETRYABLE") :
            received' = received \cup {batch[i].payload : i \in arrived \cup Indices(answer, "ACKNOWLEDGED")}
       /\ buffer' = Retained(answer) \o Rest
       /\ Count([Zero EXCEPT !["drained"] = Cardinality(Indices(answer, "ACKNOWLEDGED")),
                             !["dropped"] = Cardinality(Lost(answer)),
                             !["internal_errors"] = IF unknown THEN 1 ELSE 0])
  /\ batch' = << >>
  /\ UNCHANGED <<cached, thread, handed, returned, closed, saved, forgotten, restarts>>

\* snapshot: the counters with what was deferred, and how much is in the queue.  It is
\* taken for a restart (bound: one that may follow).
TakeSnapshot ==
  /\ restarts < MaxRestarts
  /\ Count(Zero)
  /\ saved' = [count |-> count', buffered |-> Len(buffer), payloads |-> returned]
  /\ UNCHANGED <<cached, buffer, thread, batch, handed, returned, received, closed, forgotten, restarts>>

\* __init__ with prior_snapshot: the process is over, and the next one of the window starts
\* from the last snapshot, however old.  The answer to the batch that is being sent is
\* lost, and so are the threads, the buffer and the counts since that snapshot.
\* Mistake: what was in the buffer is forgotten.
ForgottenOnRestart == 0
LostOnRestart == saved.buffered
Restart ==
  /\ restarts < MaxRestarts
  /\ restarts' = restarts + 1
  /\ count' = Plus(saved.count, [Zero EXCEPT !["dropped"] = LostOnRestart, !["lost_on_restart"] = LostOnRestart])
  /\ deferred' = Zero
  /\ buffer' = << >> /\ batch' = << >>
  /\ \E arrived \in SUBSET {batch[i].payload : i \in DOMAIN batch} : received' = received \cup arrived
  /\ thread' = [t \in Threads |-> 0]
  /\ forgotten' = forgotten \cup (returned \ saved.payloads)
  /\ UNCHANGED <<cached, handed, returned, closed, saved>>

\* close_window: by a snapshot of the counters.
\* Mistake: nothing was lost so far.
NoneLost(snapshot) == \A c \in Counters \ {"accepted", "drained"} : snapshot[c] = 0
Whole(snapshot) ==
  /\ snapshot.accepted = snapshot.drained /\ buffer = << >>
  /\ \A c \in Counters \ {"accepted", "drained"} : snapshot[c] = 0
EndedAs(state) == IF state = "ANOTHER" THEN "REVOKED" ELSE state
CloseWindow ==
  /\ Count(Zero)
  /\ closed' = IF cached = "ACTIVE" /\ Whole(count') THEN [outcome |-> "COMPLETE", payloads |-> returned]
               ELSE [NotClosed EXCEPT !.outcome = IF cached = "ACTIVE" THEN "INCOMPLETE" ELSE EndedAs(cached)]
  /\ UNCHANGED <<cached, buffer, thread, batch, handed, returned, received, saved, forgotten, restarts>>

ProducerNext ==
  \/ \E state \in Ends : UpdateLease(state)
  \/ \E t \in Threads : Enqueue(t) \/ AppendRecord(t) \/ QueueBusy(t)
  \/ Flush \/ ApplyDelivery \/ TakeSnapshot \/ Restart \/ CloseWindow
-----------------------------------------------------------------------------
(* Properties.                                                             *)

\* A window that closes COMPLETE has lost nothing that its producer knows of: whatever the
\* application had handed over by then has arrived, through a bounded buffer, a busy lock,
\* failures of the transport and restarts, except what a restart forgot.
CompleteMeansDelivered == closed.outcome = "COMPLETE" => closed.payloads \subseteq received \cup forgotten

\* What is accepted is drained, dropped or in the queue; and each payload is accepted,
\* rejected or refused for the lease, of which a flush counts some more.
Balances(counts, queued) == counts.accepted = counts.drained + counts.dropped + queued
Tallies(counts, payloads) ==
  /\ counts.accepted + counts.rejected =< Cardinality(payloads)
  /\ Cardinality(payloads) =< counts.accepted + counts.rejected + counts.lease_noops

\* Each accepted record is drained, dropped or in the buffer, and counted as exactly one
\* of them, though the counts of threads without the lock are added later; and the
\* payloads that the counts know of are all but those that a restart forgot.
EachRecordIsCounted ==
  LET total == Plus(count, deferred)
  IN Balances(total, Len(buffer)) /\ Tallies(total, returned \ forgotten)

\* A window that closes COMPLETE has lost nothing.  The code breaks it (README, section 5);
\* docs/plans/2026-08-07-runtime-lineage-instrumentation.md:130 has "in-process
\* crash/restart reports lost volatile records rather than claiming complete".
WindowForgetsNothing == closed.outcome = "COMPLETE" => closed.payloads \subseteq received
=============================================================================
