---------------------------- MODULE RuntimeSession ----------------------------
(***************************************************************************)
(* Sessions that observe one artifact at run time (services/runtime.py):   *)
(* GRANT, READY, OBSERVING, DRAIN, CLOSED.  Requests of the agent that has *)
(* the token and of operators are served side by side, and each of them    *)
(* reads the row of the session in one transaction and writes in others.   *)
(***************************************************************************)
EXTENDS Integers, FiniteSets

CONSTANTS
  Sessions,
  Calls,          \* requests that are served at the same time
  Observations,   \* each with its id, sequence, datasets, fields and mechanism
  Scope,          \* the datasets that a session is granted for
  Payloads,       \* what one request brings: sets of observations
  MaxCalls        \* bound: requests

ASSUME SessionAssumption ==
  /\ MaxCalls \in Nat
  /\ Payloads \subseteq SUBSET Observations /\ \A p \in Payloads : IsFiniteSet(p)
  /\ \A o \in Observations : o.sequence \in Nat

VARIABLES
  session,   \* the rows of the sessions
  stored,    \* stored[s]: its observations
  overdue,   \* the sessions whose time is over
  call,      \* the requests: the row each has read, and what it does next
  known,     \* known[s]: the observations whose agent was told that they are stored
  reopened,  \* the sessions that a late request took back to READY or to DRAIN
  calls

sessionVars == <<session, stored, overdue, call, known, reopened, calls>>

\* The row of a session; observations is what its manifest has the checksum of, and
\* expected what the agent that closed it had been told is stored.
NoSession ==
  [state |-> "NONE", outcome |-> "NONE", accepted |-> 0, rejected |-> 0, observations |-> {}, expected |-> {}]
NoCall ==
  [op |-> "NONE", at |-> "IDLE", session |-> CHOOSE s \in Sessions : TRUE, row |-> NoSession,
   payload |-> {}, expected |-> {}]

SessionInit ==
  /\ session = [s \in Sessions |-> NoSession]
  /\ stored = [s \in Sessions |-> {}]
  /\ overdue = {}
  /\ call = [k \in Calls |-> NoCall]
  /\ known = [s \in Sessions |-> {}]
  /\ reopened = {}
  /\ calls = 0

Closed(s) == session[s].state = "CLOSED"
At(k, op, at) == call[k].op = op /\ call[k].at = at
SessionOf(k) == call[k].session
Return(k) == call' = [call EXCEPT ![k] = NoCall]
GoOn(k, at) == call' = [call EXCEPT ![k].at = at]
SetSession(s, row) == session' = [session EXCEPT ![s] = row]

Lifecycle == {"mark_ready", "begin_drain"}

\* grant_session.
GrantSession(s) ==
  /\ session[s].state = "NONE"
  /\ SetSession(s, [NoSession EXCEPT !.state = "GRANT"])
  /\ UNCHANGED <<stored, overdue, call, known, reopened, calls>>

SessionDue(s) ==
  /\ session[s].state \notin {"NONE", "CLOSED"}
  /\ s \notin overdue
  /\ overdue' = overdue \cup {s}
  /\ UNCHANGED <<session, stored, call, known, reopened, calls>>

\* _persist_manifest: only of a session that is not closed.
Persist(s, outcome, expected) ==
  SetSession(s, IF Closed(s) THEN session[s]
                ELSE [session[s] EXCEPT !.state = "CLOSED", !.outcome = outcome,
                                        !.observations = stored[s], !.expected = expected])

AllowedStates(op) ==
  CASE op = "mark_ready" -> {"GRANT", "READY"}
    [] op = "observe" -> {"READY", "OBSERVING"}
    [] op = "begin_drain" -> {"READY", "OBSERVING", "DRAIN"}
    [] op = "close" -> {"DRAIN"}

\* _active_session: a request reads the row; one that comes too late closes it.
ActiveSession(k, s, op, payload) ==
  /\ call[k] = NoCall /\ session[s].state # "NONE" /\ calls < MaxCalls
  /\ calls' = calls + 1
  /\ IF ~Closed(s) /\ s \in overdue
     THEN Persist(s, "EXPIRED", {}) /\ UNCHANGED call
     ELSE /\ UNCHANGED session
          /\ call' = IF session[s].state \notin AllowedStates(op) THEN call
                     ELSE [call EXCEPT ![k] =
                             [op |-> op, at |-> "READ", session |-> s, row |-> session[s],
                              payload |-> payload, expected |-> known[s]]]
  /\ UNCHANGED <<stored, overdue, known, reopened>>

\* The UPDATE of mark_ready and begin_drain does not ask what the state is by then, so
\* one that is late takes a session back that was drained or closed meanwhile.
SetState(k, state, later) ==
  LET s == SessionOf(k) IN
  /\ SetSession(s, [session[s] EXCEPT !.state = state])
  /\ reopened' = IF session[s].state \in later THEN reopened \cup {s} ELSE reopened

\* mark_ready: the state is set to READY if it was read as GRANT.
WriteReady(k) ==
  /\ At(k, "mark_ready", "READ")
  /\ IF call[k].row.state = "GRANT" THEN SetState(k, "READY", {"DRAIN", "CLOSED"})
                                    ELSE UNCHANGED <<session, reopened>>
  /\ Return(k)
  /\ UNCHANGED <<stored, overdue, known, calls>>

\* begin_drain: the state is set to DRAIN if it was read as another one.
WriteDrain(k) ==
  /\ At(k, "begin_drain", "READ")
  /\ IF call[k].row.state # "DRAIN" THEN SetState(k, "DRAIN", {"CLOSED"})
                                    ELSE UNCHANGED <<session, reopened>>
  /\ Return(k)
  /\ UNCHANGED <<stored, overdue, known, calls>>

\* _assert_metadata_only: names and hashes, never values, queries or credentials.
MetadataOnly(o) == o.fields = "METADATA"
\* One parser for each mechanism; each asks for the fields of its own format.
Parsed(o) == o.mechanism \in {"OPENLINEAGE", "SDK", "OTEL"}
InScope(o) == o.datasets \subseteq Scope
\* _parse_observation: a payload with anything else is refused as a whole.
Parse(k) ==
  /\ At(k, "observe", "READ")
  /\ GoOn(k, IF \A o \in call[k].payload : MetadataOnly(o) /\ Parsed(o) /\ InScope(o)
             THEN "STORE" ELSE "REJECT")
  /\ UNCHANGED <<session, stored, overdue, known, reopened, calls>>

\* An error that is none of the domain (a field that is missing or no number, a write
\* that fails) leaves observe without a trace: it is not counted as refused.
Escape(k) ==
  /\ At(k, "observe", "READ") \/ At(k, "observe", "STORE")
  /\ Return(k)
  /\ UNCHANGED <<session, stored, overdue, known, reopened, calls>>

SameId(o, p) == o.id = p.id
Pending(k) == {o \in call[k].payload : o \notin stored[SessionOf(k)]}
\* An id that is there has the same content, and the sequence of each dataset grows.
InOrder(k) ==
  \A o \in Pending(k) : \A p \in stored[SessionOf(k)] :
    ~SameId(o, p) /\ (o.datasets \cap p.datasets # {} => o.sequence > p.sequence)
\* Mistake: a session that accepted observations when the request began still does.
AcceptingAsRead(k) == TRUE
Accepting(k) == Pending(k) # {} => session[SessionOf(k)].state \in {"READY", "OBSERVING"}

\* _store_observations: all observations of a request in one transaction, or none.
StoreObservations(k) ==
  LET s == SessionOf(k) IN
  /\ At(k, "observe", "STORE")
  /\ IF InOrder(k) /\ Accepting(k)
     THEN /\ stored' = [stored EXCEPT ![s] = @ \cup Pending(k)]
          /\ SetSession(s, [session[s] EXCEPT
               !.state = IF Pending(k) # {} THEN "OBSERVING" ELSE @,
               !.accepted = @ + Cardinality(Pending(k))])
          /\ GoOn(k, "ANSWER")
     ELSE GoOn(k, "REJECT") /\ UNCHANGED <<session, stored>>
  /\ UNCHANGED <<overdue, known, reopened, calls>>

\* observe counts what was refused, also in a session that is closed by now.
Reject(k) ==
  /\ At(k, "observe", "REJECT")
  /\ SetSession(SessionOf(k), [session[SessionOf(k)] EXCEPT !.rejected = @ + 1])
  /\ Return(k)
  /\ UNCHANGED <<stored, overdue, known, reopened, calls>>

\* The agent learns that its observations are stored, or the answer is lost.
Answer(k) ==
  /\ At(k, "observe", "ANSWER")
  /\ \/ known' = [known EXCEPT ![SessionOf(k)] = @ \cup call[k].payload]
     \/ UNCHANGED known
  /\ Return(k)
  /\ UNCHANGED <<session, stored, overdue, reopened, calls>>

\* close: complete if the counts agree with what the agent expects.
Complete(k) ==
  call[k].row.accepted = Cardinality(call[k].expected) /\ call[k].row.rejected = 0
WriteClose(k) ==
  /\ At(k, "close", "READ")
  /\ \E drained \in BOOLEAN :
       Persist(SessionOf(k), IF Complete(k) /\ drained THEN "COMPLETE" ELSE "INCOMPLETE", call[k].expected)
  /\ Return(k)
  /\ UNCHANGED <<stored, overdue, known, reopened, calls>>

\* revoke: by an operator, or by a collection whose own session failed.
Revoke(k, s) ==
  /\ call[k] = NoCall /\ session[s].state \notin {"NONE", "CLOSED"} /\ calls < MaxCalls
  /\ calls' = calls + 1
  /\ call' = [call EXCEPT ![k] = [NoCall EXCEPT !.op = "revoke", !.at = "READ", !.session = s]]
  /\ UNCHANGED <<session, stored, overdue, known, reopened>>
WriteRevoke(k) ==
  /\ At(k, "revoke", "READ")
  /\ Persist(SessionOf(k), "REVOKED", {})
  /\ Return(k)
  /\ UNCHANGED <<stored, overdue, known, reopened, calls>>

SessionNext ==
  \/ \E s \in Sessions : GrantSession(s) \/ SessionDue(s)
  \/ \E k \in Calls, s \in Sessions :
       \/ \E op \in Lifecycle \cup {"close"} : ActiveSession(k, s, op, {})
       \/ \E payload \in Payloads : ActiveSession(k, s, "observe", payload)
       \/ Revoke(k, s)
  \/ \E k \in Calls :
       \/ WriteReady(k) \/ WriteDrain(k) \/ Parse(k) \/ Escape(k) \/ StoreObservations(k) \/ Reject(k)
       \/ Answer(k) \/ WriteClose(k) \/ WriteRevoke(k)
-----------------------------------------------------------------------------
(* Properties.                                                             *)

\* A session that closes COMPLETE holds every observation that its agent was told is
\* stored, though requests overlap, repeat, fail or lose their answer, and it holds
\* nothing else unless a late request had opened it again: no loss and nothing
\* unexpected corroborates lineage.
CompleteIsWhole ==
  \A s \in Sessions : session[s].outcome = "COMPLETE" =>
    /\ session[s].expected \subseteq session[s].observations
    /\ s \notin reopened => session[s].observations = session[s].expected

\* A session that has ended, by its agent, an operator or time, accepts nothing more and
\* keeps its outcome, also for a request that began before, unless a mark_ready or
\* begin_drain that had read it before takes it back.
EndedAcceptsNothing ==
  [][\A s \in Sessions : session[s].outcome # "NONE" /\ s \notin reopened' =>
       stored'[s] = stored[s] /\ session'[s].outcome = session[s].outcome]_sessionVars

\* The same for every session, which the code breaks (README, section 5):
\* docs/component-prds/06 forbids "Accepting an observation whose session is expired,
\* revoked, or unsigned" and "Backfilling observations after session close".
NothingAfterTheEnd ==
  [][\A s \in Sessions : session[s].outcome # "NONE" => stored'[s] = stored[s]]_sessionVars
=============================================================================
