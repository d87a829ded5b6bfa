-------------------------- MODULE ControlRoom_proofs --------------------------
(***************************************************************************)
(* Theorems about what the Control Room shows, for any revisions, checkouts*)
(* and edits, any evaluations, gates and nightly runs, any movements of the*)
(* environment they read, any graphs and questions about them, and any     *)
(* evidence about an edge.                                                 *)
(***************************************************************************)
EXTENDS ControlRoom, FiniteSetTheorems, FunctionTheorems, SequenceTheorems,
  WellFoundedInduction, TLAPS

-----------------------------------------------------------------------------
(* The snapshot of a checkout.                                             *)

Reading(t) ==
  [at |-> t.at, revision |-> t.revision, paths |-> t.paths, entries |-> t.entries,
   content |-> t.content, outcome |-> t.outcome]

\* How far a submission has come with its revision.  Only until the index has been
\* compared with the tree of the revision does a reading depend on the checkout: from then
\* on what is read is compared with, or named by, what was read before.
Sound(t) ==
  /\ t = Reading(t)
  /\ t.at # "IDLE" => t.revision \in Revisions
  /\ t.at \in {"STATE", "PATHS", "ENTRIES", "COMMITTED"} => t.content = << >>
  /\ t.at = "BLOBS" =>
       /\ t.entries = Tree[t.revision] /\ t.paths = DOMAIN t.entries
       /\ DOMAIN t.content \subseteq t.paths
       /\ t.content = [p \in DOMAIN t.content |-> t.entries[p]]
  /\ t.at \in {"STATE_AGAIN", "PUSH"} => t.content = Tree[t.revision]

SourceInv ==
  /\ taken = [s \in Submissions |-> taken[s]]
  /\ \A s \in Submissions : Sound(taken[s])

LEMMA NothingIsSound == Sound(NothingTaken)
BY DEF Sound, Reading, NothingTaken

LEMMA NoContent ==
  ASSUME NEW f
  PROVE  DOMAIN << >> = {} /\ << >> = [p \in DOMAIN << >> |-> f[p]]
<1>1. << >> \in [1 .. 0 -> {}] /\ DOMAIN << >> = {}
  OBVIOUS
<1> QED
  BY <1>1

\* A reading goes on to the next place as it is.
LEMMA GoesOnAsItIs ==
  ASSUME NEW u, u = Reading(u), NEW place, NEW t, t = [u EXCEPT !.at = place]
  PROVE  /\ t = Reading(t) /\ t.at = place /\ t.revision = u.revision /\ t.paths = u.paths
         /\ t.entries = u.entries /\ t.content = u.content
<1>1. PICK a, r, p, e, c, o :
        u = [at |-> a, revision |-> r, paths |-> p, entries |-> e, content |-> c, outcome |-> o]
  BY DEF Reading
<1>2. t = [at |-> place, revision |-> r, paths |-> p, entries |-> e, content |-> c, outcome |-> o]
  BY <1>1
<1> QED
  BY <1>1, <1>2 DEF Reading

LEMMA OneReading ==
  ASSUME SourceInv, NEW s \in Submissions, NEW t, Sound(t), taken' = [taken EXCEPT ![s] = t]
  PROVE  SourceInv'
<1>1. /\ taken' = [x \in Submissions |-> taken'[x]]
      /\ taken'[s] = t /\ \A x \in Submissions \ {s} : taken'[x] = taken[x]
  BY DEF SourceInv
<1>2. \A x \in Submissions : Sound(taken'[x])
  BY <1>1 DEF SourceInv
<1> QED
  BY <1>1, <1>2 DEF SourceInv, Sound, Reading

\* Each step of a submission, of its snapshot and of its collection.
LEMMA SourceMoves ==
  ASSUME SourceInv, SourceNext
  PROVE  SourceInv'
<1>1. \A s \in Submissions : taken[s] = Reading(taken[s]) /\ Sound(taken[s])
  BY DEF SourceInv, Sound
<1>2. ASSUME UNCHANGED taken
      PROVE  SourceInv'
  BY <1>2 DEF SourceInv, Sound, Reading
<1>3. ASSUME NEW s \in Submissions, NEW r \in Revisions, Submit(s, r) \/ Clone(s, r)
      PROVE  SourceInv'
  <2>1. PICK t : /\ taken' = [taken EXCEPT ![s] = t]
                 /\ \/ t = [NothingTaken EXCEPT !.at = "STATE", !.revision = r]
                    \/ t = [NothingTaken EXCEPT !.at = "PUSH", !.revision = r, !.content = Tree[r]]
    BY <1>3 DEF Submit, Clone, Set
  <2>2. Sound(t)
    BY <2>1 DEF Sound, Reading, NothingTaken
  <2> QED
    BY <2>1, <2>2, OneReading
<1>4. ASSUME NEW s \in Submissions, NEW from, NEW to, NEW check, Step(s, from, to, check),
             check => \A t : t = [taken[s] EXCEPT !.at = to] => Sound(t)
      PROVE  SourceInv'
  <2>1. PICK t : /\ taken' = [taken EXCEPT ![s] = t]
                 /\ t = IF check THEN [taken[s] EXCEPT !.at = to] ELSE NothingTaken
    BY <1>4 DEF Step, Set
  <2>2. Sound(t)
    BY <1>4, <2>1, NothingIsSound
  <2> QED
    BY <2>1, <2>2, OneReading
<1>5. ASSUME NEW s \in Submissions, GitState(s)
      PROVE  SourceInv'
  <2>1. ASSUME NEW t, t = [taken[s] EXCEPT !.at = "PATHS"]
        PROVE  Sound(t)
    <3>1. /\ t = Reading(t) /\ t.at = "PATHS" /\ t.revision = taken[s].revision /\ t.paths = taken[s].paths
          /\ t.entries = taken[s].entries /\ t.content = taken[s].content
      BY <1>1, <2>1, GoesOnAsItIs
    <3> QED
      BY <1>1, <1>5, <3>1 DEF GitState, Step, IsAt, Sound
  <2> QED
    BY <1>4, <1>5, <2>1 DEF GitState
<1>6. ASSUME NEW s \in Submissions, TrackedPaths(s) \/ TrackedEntries(s)
      PROVE  SourceInv'
  <2>1. PICK t : /\ taken' = [taken EXCEPT ![s] = t]
                 /\ \/ /\ taken[s].at = "PATHS"
                       /\ t = [taken[s] EXCEPT !.at = "ENTRIES", !.paths = DOMAIN checkout.index]
                    \/ /\ taken[s].at = "ENTRIES"
                       /\ t = [taken[s] EXCEPT !.at = "COMMITTED", !.entries = checkout.index]
    BY <1>6 DEF TrackedPaths, TrackedEntries, Set, IsAt
  <2>2. Sound(t)
    BY <1>1, <2>1 DEF Sound, Reading
  <2> QED
    BY <2>1, <2>2, OneReading
<1>7. ASSUME NEW s \in Submissions, CommittedIndex(s)
      PROVE  SourceInv'
  <2>1. ASSUME Committed(s), NEW t, t = [taken[s] EXCEPT !.at = "BLOBS"]
        PROVE  Sound(t)
    <3>1. taken[s].content = << >> /\ taken[s].at = "COMMITTED"
      BY <1>1, <1>7 DEF CommittedIndex, Step, IsAt, Sound
    <3>2. /\ t = Reading(t) /\ t.at = "BLOBS" /\ t.revision = taken[s].revision /\ t.paths = taken[s].paths
          /\ t.entries = taken[s].entries /\ t.content = taken[s].content
      BY <1>1, <2>1, GoesOnAsItIs
    <3>3. /\ t = Reading(t) /\ t.at = "BLOBS" /\ t.entries = Tree[t.revision]
          /\ t.paths = DOMAIN t.entries /\ t.content = << >> /\ t.revision \in Revisions
      BY <1>1, <2>1, <3>1, <3>2 DEF Committed, Sound
    <3>4. DOMAIN t.content = {} /\ t.content = [x \in DOMAIN t.content |-> t.entries[x]]
      BY <3>3, NoContent
    <3> QED
      BY <3>3, <3>4 DEF Sound
  <2> QED
    BY <1>4, <1>7, <2>1 DEF CommittedIndex
<1>8. ASSUME NEW s \in Submissions, ReadBlob(s)
      PROVE  SourceInv'
  <2>1. PICK path, t, f :
          /\ path \in Missing(s) /\ taken[s].at = "BLOBS" /\ taken' = [taken EXCEPT ![s] = t]
          /\ t = IF path \in checkout.regular THEN [taken[s] EXCEPT !.content = f] ELSE NothingTaken
          /\ f = [p \in DOMAIN taken[s].content \cup {path} |-> taken[s].entries[p]]
    BY <1>8 DEF ReadBlob, Set, IsAt
  <2>2. path \in taken[s].paths
    BY <2>1 DEF Missing
  <2>3. CASE path \in checkout.regular
    <3>1. PICK a, r, p, e, c, o :
            taken[s] = [at |-> a, revision |-> r, paths |-> p, entries |-> e, content |-> c, outcome |-> o]
      BY <1>1 DEF Reading
    <3>2. t = [at |-> a, revision |-> r, paths |-> p, entries |-> e, content |-> f, outcome |-> o]
      BY <2>1, <2>3, <3>1
    <3>3. /\ a = "BLOBS" /\ r \in Revisions /\ e = Tree[r] /\ p = DOMAIN e /\ DOMAIN c \subseteq p /\ path \in p
          /\ taken[s].content = c /\ taken[s].entries = e
      <4>1. /\ taken[s].at = a /\ taken[s].revision = r /\ taken[s].paths = p
            /\ taken[s].content = c /\ taken[s].entries = e
        BY <3>1
      <4>2. /\ taken[s].at = "BLOBS" /\ taken[s].revision \in Revisions
            /\ taken[s].entries = Tree[taken[s].revision] /\ taken[s].paths = DOMAIN taken[s].entries
            /\ DOMAIN taken[s].content \subseteq taken[s].paths
        BY <1>1, <2>1 DEF Sound
      <4> QED
        BY <2>2, <4>1, <4>2
    <3>4. /\ t = Reading(t) /\ t.at = "BLOBS" /\ t.revision = r /\ t.paths = p /\ t.entries = e
          /\ t.content = f
      BY <3>2, <3>3 DEF Reading
    <3>5. DOMAIN f \subseteq p /\ f = [x \in DOMAIN f |-> e[x]]
      <4>1. f = [x \in DOMAIN c \cup {path} |-> e[x]]
        BY <2>1, <3>3
      <4> QED
        BY <3>3, <4>1
    <3>6. Sound(t)
      BY <3>3, <3>4, <3>5 DEF Sound
    <3> QED
      BY <2>1, <3>6, OneReading
  <2>4. CASE path \notin checkout.regular
    BY <2>1, <2>4, NothingIsSound, OneReading
  <2> QED
    BY <2>3, <2>4
<1>9. ASSUME NEW s \in Submissions, SameEntries(s)
      PROVE  SourceInv'
  <2>1. taken[s].at = "BLOBS" /\ taken[s].paths = DOMAIN taken[s].content
    BY <1>1, <1>9 DEF SameEntries, Step, IsAt, Sound, Missing
  <2>2. /\ taken[s].content = [p \in DOMAIN taken[s].entries |-> taken[s].entries[p]]
        /\ taken[s].entries = Tree[taken[s].revision] /\ taken[s].revision \in Revisions
    BY <1>1, <2>1 DEF Sound
  <2>3. taken[s].content = Tree[taken[s].revision]
    BY <2>2, SourceAssumption
  <2>4. ASSUME NEW t, t = [taken[s] EXCEPT !.at = "STATE_AGAIN"]
        PROVE  Sound(t)
    <3>1. /\ t = Reading(t) /\ t.at = "STATE_AGAIN" /\ t.revision = taken[s].revision /\ t.paths = taken[s].paths
          /\ t.entries = taken[s].entries /\ t.content = taken[s].content
      BY <1>1, <2>4, GoesOnAsItIs
    <3> QED
      BY <2>2, <2>3, <3>1 DEF Sound
  <2> QED
    BY <1>4, <1>9, <2>4 DEF SameEntries
<1>10. ASSUME NEW s \in Submissions, GitStateAgain(s)
       PROVE  SourceInv'
  <2>1. ASSUME NEW t, t = [taken[s] EXCEPT !.at = "PUSH"]
        PROVE  Sound(t)
    <3>1. /\ t = Reading(t) /\ t.at = "PUSH" /\ t.revision = taken[s].revision /\ t.paths = taken[s].paths
          /\ t.entries = taken[s].entries /\ t.content = taken[s].content
      BY <1>1, <2>1, GoesOnAsItIs
    <3> QED
      BY <1>1, <1>10, <3>1 DEF GitStateAgain, Step, IsAt, Sound
  <2> QED
    BY <1>4, <1>10, <2>1 DEF GitStateAgain
<1>11. ASSUME NEW s \in Submissions, Collect(s) \/ Stored(s) \/ Record(s)
       PROVE  SourceInv'
  <2>1. PICK t, end, stored, record :
          /\ taken' = [taken EXCEPT ![s] = t] /\ taken[s].at # "IDLE"
          /\ stored = [taken[s] EXCEPT !.at = "STORED", !.outcome = end]
          /\ record = [taken[s] EXCEPT !.at = "RECORD"]
          /\ t = stored \/ t = record \/ t = NothingTaken
    BY <1>11 DEF Collect, Stored, Record, Set, IsAt
  <2>2. taken[s].at # "IDLE" /\ Sound(taken[s]) /\ taken[s] = Reading(taken[s])
    BY <1>1, <2>1
  <2>3. Sound(stored)
    <3>1. PICK u, place : u = taken[s] /\ place = "STORED"
      OBVIOUS
    <3>2. stored = [u EXCEPT !.at = place, !.outcome = end]
      BY <2>1, <3>1
    <3>3. u = Reading(u) /\ Sound(u) /\ u.at # "IDLE"
      BY <2>2, <3>1
    <3>4. PICK a, r, p, e, c, o :
            u = [at |-> a, revision |-> r, paths |-> p, entries |-> e, content |-> c, outcome |-> o]
      BY <3>3 DEF Reading
    <3>5. stored = [at |-> place, revision |-> r, paths |-> p, entries |-> e, content |-> c, outcome |-> end]
      BY <3>2, <3>4
    <3>6. /\ stored = Reading(stored) /\ stored.at = place /\ stored.revision = u.revision
          /\ stored.paths = u.paths /\ stored.entries = u.entries /\ stored.content = u.content
      BY <3>4, <3>5 DEF Reading
    <3> QED
      BY <3>1, <3>3, <3>6 DEF Sound
  <2>4. Sound(record)
    <3>1. /\ record = Reading(record) /\ record.at = "RECORD" /\ record.revision = taken[s].revision
          /\ record.paths = taken[s].paths /\ record.entries = taken[s].entries /\ record.content = taken[s].content
      BY <2>1, <2>2, GoesOnAsItIs
    <3> QED
      BY <2>2, <3>1 DEF Sound
  <2>5. t = stored \/ t = record \/ t = NothingTaken
    BY <2>1
  <2>6. Sound(t)
    BY <2>3, <2>4, <2>5, NothingIsSound
  <2> QED
    BY <2>1, <2>6, OneReading
<1> QED
  BY <1>2, <1>3, <1>5, <1>6, <1>7, <1>8, <1>9, <1>10, <1>11
  DEF SourceNext, Snapshot, Edit, CheckOut, Stage, Spoil

LEMMA SourceStarts == SourceInit => SourceInv
BY NothingIsSound DEF SourceInit, SourceInv

LEMMA SourceStays ==
  ASSUME SourceInv, UNCHANGED sourceVars
  PROVE  SourceInv'
BY DEF SourceInv, Sound, Reading, sourceVars

LEMMA SourceShows == SourceInv => SnapshotIsTheRevision
BY DEF SourceInv, Sound, SnapshotIsTheRevision

-----------------------------------------------------------------------------
(* The gate of the local product.                                          *)

Remarks ==
  {"INCOMPLETE_COVERAGE", "MISSING_ENVIRONMENT", "IMPACT_TRUNCATED", "IMPACT_WARNING",
   "LLM_ONLY_BLOCK_EVIDENCE", "DEADLINE_EXCEEDED", "ENVIRONMENT_CHANGED"}
LocalPins == [version : LocalVersions \cup {"NONE"}, token : Nat]
EvaluationRow ==
  [at : {"ASKED", "CHANGES", "CHECK", "DONE"}, pin : LocalPins, next : Nat \ {0},
   reasons : SUBSET Remarks, block : BOOLEAN, moved : BOOLEAN]

NothingFound(e, v, i) == ChangesOf[e][i].found[v] = {}

\* What an evaluation that has found nothing so far knows.  The token tells a pointer that
\* moved and came back from one that stayed.
Honest(e, row, token) ==
  /\ row.at = "ASKED" => row.reasons = {} /\ ~row.block /\ ~row.moved /\ row.next = 1
  /\ row.at = "CHANGES" /\ e \in Targeted =>
       /\ row.pin.version \in LocalVersions /\ row.pin.token =< token
       /\ row.moved => row.pin.token < token
  /\ row.at # "ASKED" /\ row.reasons = {} =>
       /\ e \in Targeted /\ e \in FullyCovered
       /\ ~row.block => \A i \in DOMAIN ChangesOf[e] : i < row.next => NothingFound(e, row.pin.version, i)
  /\ row.at \in {"CHECK", "DONE"} /\ row.reasons = {} => row.next > Len(ChangesOf[e]) /\ ~row.moved

GateTyped ==
  /\ served \in [version : LocalVersions, token : Nat]
  /\ evaluation \in [Evaluations -> EvaluationRow]
  /\ headCheck = [c \in DOMAIN headCheck |-> headCheck[c]]

GateInv ==
  /\ GateTyped
  /\ \A e \in Evaluations : Honest(e, evaluation[e], served.token)
  /\ \A c \in DOMAIN headCheck : headCheck[c].verdict = "PASS" =>
       /\ headCheck[c].by \in Evaluations /\ evaluation[headCheck[c].by].at = "DONE"
       /\ evaluation[headCheck[c].by].reasons = {} /\ ~evaluation[headCheck[c].by].block

LEMMA GateShows == GateInv => LocalPassWasTrue
<1> SUFFICES ASSUME GateInv, NEW c \in DOMAIN headCheck, headCheck[c].verdict = "PASS",
                    NEW e, e = headCheck[c].by
             PROVE  /\ e \in Targeted /\ e \in FullyCovered /\ ~evaluation[e].moved
                    /\ \A i \in DOMAIN ChangesOf[e] : ChangesOf[e][i].found[evaluation[e].pin.version] = {}
  BY DEF LocalPassWasTrue
<1>1. /\ e \in Evaluations /\ evaluation[e].at = "DONE" /\ evaluation[e].reasons = {}
      /\ ~evaluation[e].block /\ Honest(e, evaluation[e], served.token)
  BY DEF GateInv
<1>2. \A i \in DOMAIN ChangesOf[e] : i < evaluation[e].next
  <2>1. Len(ChangesOf[e]) \in Nat /\ evaluation[e].next \in Nat /\ evaluation[e].next > Len(ChangesOf[e])
    BY <1>1, LocalGateAssumption DEF Honest, GateInv, GateTyped, EvaluationRow
  <2>2. DOMAIN ChangesOf[e] = 1 .. Len(ChangesOf[e])
    BY <1>1, LocalGateAssumption
  <2> QED
    BY <2>1, <2>2
<1> QED
  BY <1>1, <1>2 DEF Honest, NothingFound

\* One evaluation goes on, and the pointer and the checks stay.
LEMMA OneEvaluation ==
  ASSUME GateInv, NEW e \in Evaluations, NEW row \in EvaluationRow, Honest(e, row, served.token),
         evaluation[e].at # "DONE", evaluation' = [evaluation EXCEPT ![e] = row],
         UNCHANGED <<served, headCheck>>
  PROVE  GateInv'
<1>1. GateTyped'
  BY DEF GateInv, GateTyped
<1>2. evaluation'[e] = row /\ \A x \in Evaluations \ {e} : evaluation'[x] = evaluation[x]
  BY DEF GateInv, GateTyped
<1>3. \A x \in Evaluations : Honest(x, evaluation'[x], served.token)
  BY <1>2 DEF GateInv
<1>4. (\A x \in Evaluations : Honest(x, evaluation[x], served.token))'
  BY <1>3 DEF Honest, NothingFound
<1>5. \A c \in DOMAIN headCheck : headCheck[c].verdict = "PASS" =>
        headCheck[c].by \in Evaluations /\ evaluation'[headCheck[c].by] = evaluation[headCheck[c].by]
  BY <1>2 DEF GateInv
<1> QED
  BY <1>1, <1>4, <1>5 DEF GateInv

LEMMA PointerMoves ==
  ASSUME GateInv, NEW v \in LocalVersions, MovePointerTo(v)
  PROVE  GateInv'
<1>1. /\ served \in [version : LocalVersions, token : Nat] /\ served.token \in Nat
      /\ served' \in [version : LocalVersions, token : Nat] /\ served'.token = served.token + 1
      /\ headCheck' = headCheck
  BY DEF GateInv, GateTyped, MovePointerTo
<1>2. /\ evaluation' \in [Evaluations -> EvaluationRow]
      /\ \A e \in Evaluations :
           /\ evaluation[e] \in EvaluationRow /\ evaluation'[e] \in EvaluationRow
           /\ evaluation'[e] = [evaluation[e] EXCEPT !.moved = @ \/ evaluation[e].at = "CHANGES"]
  <2>1. /\ \A e \in Evaluations : evaluation[e] \in EvaluationRow
        /\ evaluation' = [e \in Evaluations |-> [evaluation[e] EXCEPT !.moved = @ \/ evaluation[e].at = "CHANGES"]]
    BY DEF GateInv, GateTyped, MovePointerTo
  <2>2. ASSUME NEW e \in Evaluations
        PROVE  [evaluation[e] EXCEPT !.moved = @ \/ evaluation[e].at = "CHANGES"] \in EvaluationRow
    <3>1. PICK row, moved : row = evaluation[e] /\ row \in EvaluationRow /\ moved = (row.moved \/ row.at = "CHANGES")
      BY <2>1
    <3>2. moved \in BOOLEAN
      BY <3>1
    <3>3. [row EXCEPT !.moved = moved] \in EvaluationRow
      BY <3>1, <3>2 DEF EvaluationRow
    <3> QED
      BY <3>1, <3>3
  <2>3. evaluation' \in [Evaluations -> EvaluationRow]
    BY <2>1, <2>2
  <2> QED
    BY <2>1, <2>3
<1>3. \A e \in Evaluations :
        /\ evaluation'[e].at = evaluation[e].at /\ evaluation'[e].pin = evaluation[e].pin
        /\ evaluation'[e].next = evaluation[e].next /\ evaluation'[e].reasons = evaluation[e].reasons
        /\ evaluation'[e].block = evaluation[e].block
        /\ evaluation'[e].moved = (evaluation[e].moved \/ evaluation[e].at = "CHANGES")
        /\ evaluation[e].pin.token \in Nat
  <2> SUFFICES ASSUME NEW e \in Evaluations
               PROVE  /\ evaluation'[e].at = evaluation[e].at /\ evaluation'[e].pin = evaluation[e].pin
                      /\ evaluation'[e].next = evaluation[e].next /\ evaluation'[e].reasons = evaluation[e].reasons
                      /\ evaluation'[e].block = evaluation[e].block
                      /\ evaluation'[e].moved = (evaluation[e].moved \/ evaluation[e].at = "CHANGES")
                      /\ evaluation[e].pin.token \in Nat
    OBVIOUS
  <2>1. PICK row, moved : /\ row = evaluation[e] /\ row \in EvaluationRow
                          /\ moved = (evaluation[e].moved \/ evaluation[e].at = "CHANGES")
    BY <1>2
  <2>2. evaluation'[e] = [row EXCEPT !.moved = moved]
    BY <1>2, <2>1
  <2>3. /\ evaluation'[e].at = row.at /\ evaluation'[e].pin = row.pin /\ evaluation'[e].next = row.next
        /\ evaluation'[e].reasons = row.reasons /\ evaluation'[e].block = row.block
        /\ evaluation'[e].moved = moved /\ row.pin.token \in Nat
    BY <2>1, <2>2 DEF EvaluationRow, LocalPins
  <2> QED
    BY <2>1, <2>3
<1>4. ASSUME NEW e \in Evaluations
      PROVE  Honest(e, evaluation'[e], served'.token)
  <2>1. PICK row, new, token, token1 :
          /\ row = evaluation[e] /\ new = evaluation'[e] /\ token = served.token /\ token1 = served'.token
    OBVIOUS
  <2>2. /\ new.at = row.at /\ new.pin = row.pin /\ new.next = row.next /\ new.reasons = row.reasons
        /\ new.block = row.block /\ (new.moved <=> (row.moved \/ row.at = "CHANGES"))
        /\ row.pin.token \in Nat /\ token \in Nat /\ token1 = token + 1
    BY <1>1, <1>3, <2>1
  <2>3. Honest(e, row, token)
    BY <2>1 DEF GateInv
  <2>4. Honest(e, new, token1)
    BY <2>2, <2>3 DEF Honest
  <2> QED
    BY <2>1, <2>4
<1>5. (\A e \in Evaluations : Honest(e, evaluation[e], served.token))'
  BY <1>4 DEF Honest, NothingFound
<1>6. GateTyped'
  BY <1>1, <1>2 DEF GateInv, GateTyped
<1> QED
  BY <1>1, <1>3, <1>5, <1>6 DEF GateInv

LEMMA EvaluationMoves ==
  ASSUME GateInv, NEW e \in Evaluations,
         BeginEvaluation(e) \/ EvaluateChange(e) \/ ReadEnvironmentAgain(e) \/ UpsertHeadCheck(e)
  PROVE  GateInv'
<1>1. /\ served \in [version : LocalVersions, token : Nat] /\ evaluation[e] \in EvaluationRow
      /\ Honest(e, evaluation[e], served.token) /\ served \in LocalPins
      /\ evaluation[e].next \in Nat \ {0} /\ evaluation[e].pin \in LocalPins /\ evaluation[e].reasons \subseteq Remarks
      /\ evaluation[e].block \in BOOLEAN /\ evaluation[e].moved \in BOOLEAN
  <2>1. /\ served \in [version : LocalVersions, token : Nat] /\ evaluation[e] \in EvaluationRow
        /\ Honest(e, evaluation[e], served.token)
    BY DEF GateInv, GateTyped
  <2> QED
    BY <2>1 DEF EvaluationRow, LocalPins
<1>2. /\ ChangesOf[e] \in Seq([found : [LocalVersions -> SUBSET Found], llmOnly : BOOLEAN])
      /\ Len(ChangesOf[e]) \in Nat /\ DOMAIN ChangesOf[e] = 1 .. Len(ChangesOf[e])
      /\ \A i \in DOMAIN ChangesOf[e] :
           /\ ChangesOf[e][i].found \in [LocalVersions -> SUBSET Found] /\ ChangesOf[e][i].llmOnly \in BOOLEAN
  <2>1. PICK C : /\ C = [found : [LocalVersions -> SUBSET Found], llmOnly : BOOLEAN]
                 /\ ChangesOf[e] \in Seq(C)
    BY LocalGateAssumption
  <2>2. /\ Len(ChangesOf[e]) \in Nat /\ DOMAIN ChangesOf[e] = 1 .. Len(ChangesOf[e])
        /\ \A i \in DOMAIN ChangesOf[e] : ChangesOf[e][i] \in C
    BY <2>1, LenProperties, ElementOfSeq
  <2> QED
    BY <2>1, <2>2
<1>3. CASE BeginEvaluation(e)
  <2>1. PICK row, reasons, pin :
          /\ row = [evaluation[e] EXCEPT !.at = "CHANGES", !.pin = pin, !.reasons = reasons]
          /\ pin = PinOf(e)
          /\ reasons = Reason(e \notin FullyCovered, "INCOMPLETE_COVERAGE")
                         \cup Reason(e \notin Targeted, "MISSING_ENVIRONMENT")
          /\ evaluation' = [evaluation EXCEPT ![e] = row] /\ evaluation[e].at = "ASKED"
          /\ UNCHANGED <<served, headCheck>>
    BY <1>3 DEF BeginEvaluation
  <2>2. reasons \subseteq Remarks /\ (reasons = {} => e \in FullyCovered /\ e \in Targeted)
    BY <2>1 DEF Reason, Remarks
  <2>3. pin \in LocalPins /\ (e \in Targeted => pin = served)
    BY <1>1, <2>1 DEF PinOf, NoPin, LocalPins
  <2>4. /\ row \in EvaluationRow /\ row.at = "CHANGES" /\ row.pin = pin /\ row.reasons = reasons
        /\ row.next = evaluation[e].next /\ row.moved = evaluation[e].moved /\ row.block = evaluation[e].block
    BY <1>1, <2>1, <2>2, <2>3 DEF EvaluationRow
  <2>5. evaluation[e].next = 1 /\ ~evaluation[e].moved /\ \A i \in DOMAIN ChangesOf[e] : ~(i < 1)
    BY <1>1, <1>2, <2>1 DEF Honest
  <2>6. Honest(e, row, served.token)
    BY <1>1, <2>2, <2>3, <2>4, <2>5 DEF Honest
  <2> QED
    BY <2>1, <2>4, <2>6, OneEvaluation
<1>4. CASE EvaluateChange(e)
  <2>1. PICK i, change, found :
          /\ i = evaluation[e].next /\ i \in DOMAIN ChangesOf[e] /\ change = ChangesOf[e][i]
          /\ found = IF e \in Targeted THEN change.found[evaluation[e].pin.version] ELSE {}
          /\ evaluation' = [evaluation EXCEPT ![e] = Weighed(evaluation[e], change, found)]
          /\ evaluation[e].at = "CHANGES" /\ UNCHANGED <<served, headCheck>>
    <3>1. PICK i : i = evaluation[e].next
      OBVIOUS
    <3>2. PICK change : change = ChangesOf[e][i]
      OBVIOUS
    <3>3. PICK found : found = IF e \in Targeted THEN change.found[evaluation[e].pin.version] ELSE {}
      OBVIOUS
    <3>4. /\ evaluation' = [evaluation EXCEPT ![e] = Weighed(evaluation[e], change, found)]
          /\ evaluation[e].at = "CHANGES" /\ i <= Len(ChangesOf[e]) /\ UNCHANGED <<served, headCheck>>
      BY <1>4, <3>1, <3>2, <3>3, Zenon DEF EvaluateChange
    <3>5. i \in DOMAIN ChangesOf[e]
      BY <1>1, <1>2, <3>1, <3>4
    <3> QED
      BY <3>1, <3>2, <3>3, <3>4, <3>5
  <2>2. PICK block : block = (evaluation[e].block \/ Blocks(change, found))
    BY Zenon
  <2>3. block \in BOOLEAN /\ (block <=> (evaluation[e].block \/ Blocks(change, found)))
    BY <2>2, Zenon
  <2>4. PICK reasons : reasons = evaluation[e].reasons \cup ImpactReasons(change, found)
    OBVIOUS
  <2>5. PICK row : /\ row = [evaluation[e] EXCEPT !.next = i + 1, !.reasons = reasons, !.block = block]
                   /\ evaluation' = [evaluation EXCEPT ![e] = row]
    <3>1. Weighed(evaluation[e], change, found)
            = [evaluation[e] EXCEPT !.next = i + 1, !.reasons = reasons, !.block = block]
      BY <2>1, <2>2, <2>4, Zenon DEF Weighed
    <3> QED
      BY <2>1, <3>1, Zenon
  <2>6. /\ row \in EvaluationRow /\ row.at = "CHANGES" /\ row.pin = evaluation[e].pin
        /\ row.reasons = reasons /\ row.next = i + 1 /\ row.moved = evaluation[e].moved /\ row.block = block
    <3>1. ImpactReasons(change, found) \subseteq Remarks
      BY DEF ImpactReasons, Reason, Remarks
    <3>2. i \in Nat \ {0} /\ evaluation[e].reasons \subseteq Remarks
      BY <1>1, <2>1
    <3>3. i + 1 \in Nat \ {0} /\ reasons \subseteq Remarks
      BY <2>4, <3>1, <3>2
    <3> QED
      BY <1>1, <2>1, <2>3, <2>5, <3>3 DEF EvaluationRow
  <2>7. /\ i \in Nat \ {0} /\ (e \in Targeted => change.found[evaluation[e].pin.version] \subseteq Found)
        /\ change.llmOnly \in BOOLEAN
    <3>1. /\ change.found \in [LocalVersions -> SUBSET Found] /\ change.llmOnly \in BOOLEAN
          /\ i \in Nat \ {0}
      BY <1>1, <1>2, <2>1
    <3>2. e \in Targeted => evaluation[e].pin.version \in LocalVersions
      BY <1>1, <2>1 DEF Honest
    <3> QED
      BY <3>1, <3>2
  <2>8. reasons = {} /\ ~block /\ e \in Targeted => NothingFound(e, evaluation[e].pin.version, i)
    <3>1. reasons = {} => /\ "TRUNCATED" \notin found /\ "WARN" \notin found
                          /\ ~("BLOCK" \in found /\ change.llmOnly)
      BY <2>4 DEF ImpactReasons, Reason
    <3>2. ~block => ~("BLOCK" \in found /\ ~change.llmOnly)
      BY <2>3 DEF Blocks
    <3> QED
      BY <2>1, <2>7, <3>1, <3>2 DEF Found, NothingFound
  <2>9. reasons = {} => evaluation[e].reasons = {} /\ (~block => ~evaluation[e].block)
    BY <2>3, <2>4
  <2>10. ASSUME reasons = {}, ~block, NEW k \in DOMAIN ChangesOf[e], k < i + 1
         PROVE  NothingFound(e, evaluation[e].pin.version, k)
    <3>1. e \in Targeted /\ (k < i => NothingFound(e, evaluation[e].pin.version, k))
      BY <1>1, <2>1, <2>9, <2>10 DEF Honest
    <3>2. k < i \/ k = i
      BY <1>2, <2>7, <2>10
    <3> QED
      BY <2>8, <2>10, <3>1, <3>2
  <2>11. Honest(e, row, served.token)
    BY <1>1, <2>1, <2>6, <2>9, <2>10 DEF Honest
  <2> QED
    BY <2>1, <2>5, <2>6, <2>11, OneEvaluation
<1>5. CASE ReadEnvironmentAgain(e)
  <2>1. PICK late, row :
          /\ late \in BOOLEAN /\ (~late => evaluation[e].next > Len(ChangesOf[e]))
          /\ row = Concluded(evaluation[e], late, SamePin(e))
          /\ evaluation' = [evaluation EXCEPT ![e] = row]
          /\ evaluation[e].at = "CHANGES" /\ UNCHANGED <<served, headCheck>>
    BY <1>5 DEF ReadEnvironmentAgain
  <2>2. PICK reasons \in SUBSET Remarks :
          reasons = evaluation[e].reasons \cup Reason(late, "DEADLINE_EXCEEDED")
                      \cup Reason(~SamePin(e), "ENVIRONMENT_CHANGED")
    BY <1>1 DEF Reason, Remarks
  <2>3. /\ row \in EvaluationRow /\ row.at = "CHECK" /\ row.pin = evaluation[e].pin
        /\ row.reasons = reasons /\ row.next = evaluation[e].next /\ row.moved = evaluation[e].moved
        /\ row.block = evaluation[e].block
    BY <1>1, <2>1, <2>2 DEF Concluded, EvaluationRow
  <2>4. reasons = {} => ~late /\ SamePin(e) /\ evaluation[e].reasons = {}
    BY <2>2 DEF Reason
  <2>5. reasons = {} => ~evaluation[e].moved
    BY <1>1, <2>1, <2>4 DEF Honest, SamePin, PinOf
  <2>6. Honest(e, row, served.token)
    BY <1>1, <2>1, <2>3, <2>4, <2>5 DEF Honest
  <2> QED
    BY <2>1, <2>3, <2>6, OneEvaluation
<1>6. CASE UpsertHeadCheck(e)
  <2>1. PICK row : /\ row = [evaluation[e] EXCEPT !.at = "DONE"] /\ evaluation[e].at = "CHECK"
                   /\ evaluation' = [evaluation EXCEPT ![e] = row] /\ served' = served
                   /\ headCheck' = [headCheck EXCEPT ![CheckOfHead[e]] = [verdict |-> VerdictOf(e), by |-> e]]
    BY <1>6 DEF UpsertHeadCheck
  <2>2. /\ row \in EvaluationRow /\ row.at = "DONE" /\ row.pin = evaluation[e].pin
        /\ row.reasons = evaluation[e].reasons /\ row.next = evaluation[e].next
        /\ row.moved = evaluation[e].moved /\ row.block = evaluation[e].block
    BY <1>1, <2>1 DEF EvaluationRow
  <2>3. Honest(e, row, served.token)
    BY <1>1, <2>1, <2>2 DEF Honest
  <2>4. /\ GateTyped' /\ evaluation'[e] = row
        /\ \A x \in Evaluations \ {e} : evaluation'[x] = evaluation[x]
    BY <2>1, <2>2 DEF GateInv, GateTyped
  <2>5. \A x \in Evaluations : Honest(x, evaluation'[x], served.token)
    BY <2>3, <2>4 DEF GateInv
  <2>6. (\A x \in Evaluations : Honest(x, evaluation[x], served.token))'
    BY <2>1, <2>5 DEF Honest, NothingFound
  <2>7. ASSUME NEW c \in DOMAIN headCheck', headCheck'[c].verdict = "PASS"
        PROVE  /\ headCheck'[c].by \in Evaluations /\ evaluation'[headCheck'[c].by].at = "DONE"
               /\ evaluation'[headCheck'[c].by].reasons = {} /\ ~evaluation'[headCheck'[c].by].block
    <3>1. CASE headCheck'[c] = headCheck[c]
      BY <2>1, <2>2, <2>4, <2>7, <3>1 DEF GateInv
    <3>2. CASE headCheck'[c] = [verdict |-> VerdictOf(e), by |-> e]
      <4>1. VerdictOf(e) = "PASS" /\ headCheck'[c].by = e
        BY <2>7, <3>2
      <4>2. ~evaluation[e].block /\ evaluation[e].reasons = {}
        BY <4>1 DEF VerdictOf
      <4> QED
        BY <2>2, <2>4, <4>1, <4>2
    <3> QED
      BY <2>1, <3>1, <3>2 DEF GateInv, GateTyped
  <2> QED
    BY <2>4, <2>6, <2>7 DEF GateInv
<1> QED
  BY <1>3, <1>4, <1>5, <1>6

LEMMA GateMoves ==
  ASSUME GateInv, LocalGateNext
  PROVE  GateInv'
BY PointerMoves, EvaluationMoves DEF LocalGateNext

LEMMA GateStarts == LocalGateInit => GateInv
<1> SUFFICES ASSUME LocalGateInit
             PROVE  GateInv
  OBVIOUS
<1>1. served \in [version : LocalVersions, token : Nat] /\ headCheck = [c \in DOMAIN headCheck |-> headCheck[c]]
  BY LocalGateAssumption DEF LocalGateInit
<1>2. NotEvaluated \in EvaluationRow
  BY DEF NotEvaluated, NoPin, EvaluationRow, LocalPins, Remarks
<1>3. \A e \in Evaluations : Honest(e, NotEvaluated, served.token)
  BY DEF Honest, NotEvaluated
<1>4. \A c \in DOMAIN headCheck : headCheck[c].verdict = "NONE"
  BY DEF LocalGateInit, NoHeadCheck
<1> QED
  BY <1>1, <1>2, <1>3, <1>4 DEF GateInv, GateTyped, LocalGateInit

LEMMA GateStays ==
  ASSUME GateInv, UNCHANGED gateVars
  PROVE  GateInv'
BY DEF GateInv, GateTyped, Honest, NothingFound, gateVars

-----------------------------------------------------------------------------
(* The runs that pin the active graph.                                     *)

Pins == [version : GraphVersions \cup {None}, fence : Nat]
Reasons ==
  {"PR_HEAD_SUPERSEDED", "MISSING_ENVIRONMENT", "LINEAGE_OUT_OF_SYNC", "INCOMPLETE_COVERAGE", "IMPACT_WARNING",
   "IMPACT_TRUNCATED", "ENVIRONMENT_CHANGED", "ARCHIVE_RECONCILIATION_DRIFT", "PROJECTION_CHECKSUM_DRIFT", "PUBLISHED_SAMPLE_DRIFT",
   "CACHE_DRAIN_INCOMPLETE", "AUTOPUBLISH_AUDIT_DRIFT"}
Documents ==
  [reasons : SUBSET Reasons, pin : Pins, impact : SUBSET Effects,
   verdict : {"NONE", "PASS", "WARN", "BLOCK"}, missing : SUBSET Clean, unexpected : SUBSET Sample,
   results : Seq({"INVALIDATED", "SUPERSEDED"})]
RunRow ==
  [stage : {"P1", "P3", "P4", "P7", "P8", "N1", "N3", "N4", "N5", "N6", "END"}, doc : Documents,
   at : {"IDLE", "DEPLOYMENT", "POINTER", "DRAIN"}, computed : Documents, stored : Documents]
CacheKeys == UNION {StaleKeys[n] : n \in Nights}

PinnedTyped ==
  /\ pointer \in Pins
  /\ promoting \in GraphVersions \cup {None}
  /\ work \in [Runs -> RunRow]
  /\ cache \in [CacheKeys -> [determinant : Nat \ {0}, by : Nights \cup {None, "ANOTHER"}]]
  /\ checks = [h \in {HeadOf[g] : g \in Gates} |-> checks[h]]
  /\ reports = [n \in Nights |-> reports[n]]
  /\ \A c \in announced : c.gate \in Gates

\* The pointer never comes back to a fence that it left: two moments with its present
\* fence have the pointer itself.
MomentsAgree ==
  /\ Moment \in moments
  /\ \A m \in moments :
       /\ m.pointer \in Pins /\ m.pointer.fence =< pointer.fence
       /\ m.pointer.fence = pointer.fence => m.pointer = pointer

\* What a stage saw at a moment since the pin, whatever the pointer was then.  If the
\* pointer has the pin at the end, it had it at that moment.
WasPinned(pin) == pin \in Pins /\ pin.fence =< pointer.fence
WasInSync(pin) == \E m \in moments : pin.fence =< m.pointer.fence /\ (m.pointer = pin => m.synced)
WasNewest(g, pin) == \E m \in moments : m.head = HeadOf[g] /\ pin.fence =< m.pointer.fence
WasIntact(pin) ==
  \E m \in moments :
    /\ pin.fence =< m.pointer.fence
    /\ m.pointer = pin => m.rows = Rows[pin.version] /\ m.rows \cap Sample = Clean

\* What the result of a gate, and of a nightly run, says.
PassIsTrue(g, pin) ==
  /\ Covered[g] /\ ImpactOf[g][pin.version] = {}
  /\ \E m \in moments : m.head = HeadOf[g] /\ m.pointer = pin
  /\ \E m \in moments : m.synced /\ m.pointer = pin
GraphWasTrue(pin) ==
  \E m \in moments : m.pointer = pin /\ m.rows = Rows[m.pointer.version] /\ m.rows \cap Sample = Clean
Drained(k) == cache[k].determinant = 1 => cache[k].by # None

\* How far a gate has come with that.
GateSound(g, w) ==
  /\ w.stage = "P3" /\ w.at = "DEPLOYMENT" =>
       WasPinned(w.computed.pin) /\ (w.computed.pin.version = None => w.computed.reasons # {})
  /\ w.stage \in {"P4", "P7"} =>
       /\ WasPinned(w.doc.pin) /\ (w.doc.pin.version = None => w.doc.reasons # {})
       /\ w.doc.reasons = {} => WasInSync(w.doc.pin)
  /\ w.stage = "P7" /\ w.doc.verdict = "PASS" =>
       w.doc.reasons = {} /\ Covered[g] /\ ImpactOf[g][w.doc.pin.version] = {}
  /\ w.stage = "P7" /\ w.at = "POINTER" =>
       /\ w.computed.pin = w.doc.pin
       /\ w.computed.verdict = "PASS" => w.doc.verdict = "PASS" /\ WasNewest(g, w.doc.pin)
  /\ w.stage = "P8" /\ w.doc.verdict = "PASS" => PassIsTrue(g, w.doc.pin)

\* How far a nightly run has come.
NightSound(n, w) ==
  /\ w.stage \in {"N1", "N3", "N4"} => w.doc.results = << >>
  /\ w.stage = "N3" => WasPinned(w.doc.pin) /\ w.doc.pin.version # None
  /\ w.stage = "N3" /\ w.at = "POINTER" =>
       /\ w.computed.pin = w.doc.pin /\ w.computed.results = << >>
       /\ w.computed.reasons = {} => WasIntact(w.doc.pin)
  /\ w.stage \in {"N4", "N5", "N6"} /\ w.doc.reasons = {} => GraphWasTrue(w.doc.pin)
  /\ w.stage = "N4" /\ w.at = "DRAIN" =>
       /\ w.computed.pin = w.doc.pin /\ w.computed.reasons = w.doc.reasons
       /\ \A i \in DOMAIN w.computed.results :
            i \in Entries(n) /\ (w.computed.results[i] = "INVALIDATED" => Drained(i))
  /\ w.stage \in {"N5", "N6"} /\ w.doc.reasons = {} => \A k \in StaleKeys[n] : Drained(k)

PinnedInv ==
  /\ PinnedTyped /\ MomentsAgree
  /\ \A g \in Gates : GateSound(g, work[g])
  /\ \A n \in Nights : NightSound(n, work[n])
  /\ PassWasTrue /\ QuietReportIsTrue

LEMMA NoDocumentTyped == NoDocument \in Documents
<1>1. << >> \in Seq({"INVALIDATED", "SUPERSEDED"})
  OBVIOUS
<1> QED
  BY <1>1 DEF NoDocument, Documents, Pins

LEMMA PinnedStarts == PinnedInit => PinnedInv
<1> SUFFICES ASSUME PinnedInit
             PROVE  PinnedInv
  OBVIOUS
<1>1. pointer \in Pins /\ promoting \in GraphVersions \cup {None} /\ Moment.pointer = pointer
  BY DEF PinnedInit, Pins, Moment
<1>2. \A r \in Runs : /\ work[r] \in RunRow /\ work[r].at = "IDLE" /\ work[r].doc = NoDocument
                      /\ (r \in Gates => work[r].stage = "P1") /\ (r \in Nights => work[r].stage = "N1")
  BY NoDocumentTyped, PinnedAssumption DEF PinnedInit, RunRow, Runs
<1>3. PinnedTyped
  BY <1>1, <1>2 DEF PinnedInit, PinnedTyped, CacheKeys
<1>4. MomentsAgree
  BY <1>1 DEF PinnedInit, MomentsAgree, Pins
<1>5. (\A g \in Gates : GateSound(g, work[g])) /\ \A n \in Nights : NightSound(n, work[n])
  BY <1>2 DEF GateSound, NightSound, Runs, NoDocument
<1>6. PassWasTrue /\ QuietReportIsTrue
  BY DEF PinnedInit, PassWasTrue, QuietReportIsTrue
<1> QED
  BY <1>3, <1>4, <1>5, <1>6 DEF PinnedInv

\* What time does not undo: moments are kept, fences grow, and an entry stays drained.
Grows ==
  /\ moments \subseteq moments' /\ pointer \in Pins /\ pointer' \in Pins
  /\ pointer.fence =< pointer'.fence
  /\ \A k \in CacheKeys : Drained(k) => Drained(k)'

LEMMA GateSoundStays ==
  ASSUME Grows, NEW g \in Gates, NEW w \in RunRow, GateSound(g, w)
  PROVE  GateSound(g, w)'
<1>1. ASSUME NEW pin \in Pins
      PROVE  /\ WasPinned(pin) => WasPinned(pin)'
             /\ WasInSync(pin) => WasInSync(pin)'
             /\ WasNewest(g, pin) => WasNewest(g, pin)'
             /\ PassIsTrue(g, pin) => PassIsTrue(g, pin)'
  <2>1. pin.fence \in Nat /\ pointer.fence \in Nat /\ pointer'.fence \in Nat
    BY DEF Grows, Pins
  <2>2. WasPinned(pin) => WasPinned(pin)'
    BY <2>1 DEF WasPinned, Grows
  <2>3. (WasInSync(pin) => WasInSync(pin)') /\ (WasNewest(g, pin) => WasNewest(g, pin)')
    BY DEF WasInSync, WasNewest, Grows
  <2>4. PassIsTrue(g, pin) => PassIsTrue(g, pin)'
    BY DEF PassIsTrue, Grows
  <2> QED
    BY <2>2, <2>3, <2>4
<1>2. w.doc.pin \in Pins /\ w.computed.pin \in Pins
  BY DEF RunRow, Documents
<1> QED
  BY <1>1, <1>2 DEF GateSound

LEMMA NightSoundStays ==
  ASSUME Grows, NEW n \in Nights, NEW w \in RunRow, NightSound(n, w)
  PROVE  NightSound(n, w)'
<1>1. ASSUME NEW pin \in Pins
      PROVE  /\ WasPinned(pin) => WasPinned(pin)'
             /\ WasIntact(pin) => WasIntact(pin)'
             /\ GraphWasTrue(pin) => GraphWasTrue(pin)'
  <2>1. pin.fence \in Nat /\ pointer.fence \in Nat /\ pointer'.fence \in Nat
    BY DEF Grows, Pins
  <2>2. WasPinned(pin) => WasPinned(pin)'
    BY <2>1 DEF WasPinned, Grows
  <2>3. (WasIntact(pin) => WasIntact(pin)') /\ (GraphWasTrue(pin) => GraphWasTrue(pin)')
    BY DEF WasIntact, GraphWasTrue, Grows
  <2> QED
    BY <2>2, <2>3
<1>2. w.doc.pin \in Pins /\ w.computed.pin \in Pins
  BY DEF RunRow, Documents
<1>3. \A k \in StaleKeys[n] : k \in CacheKeys /\ (Drained(k) => Drained(k)')
  BY DEF CacheKeys, Grows
<1>4. \A i \in Entries(n) : i \in StaleKeys[n]
  BY DEF Entries
<1> QED
  BY <1>1, <1>2, <1>3, <1>4 DEF NightSound, Entries

\* What was shown stays true.
LEMMA ShownStays ==
  ASSUME PinnedTyped, Grows
  PROVE  /\ PassWasTrue /\ UNCHANGED announced => PassWasTrue'
         /\ QuietReportIsTrue /\ UNCHANGED reports => QuietReportIsTrue'
<1>1. PassWasTrue /\ UNCHANGED announced => PassWasTrue'
  BY DEF PassWasTrue, Grows
<1>2. ASSUME QuietReportIsTrue, UNCHANGED reports, NEW n \in Nights,
             reports'[n] # NoDocument, reports'[n].reasons = {}
      PROVE  /\ \E m \in moments' :
                  m.pointer = reports'[n].pin /\ m.rows = Rows[m.pointer.version] /\ m.rows \cap Sample = Clean
             /\ \A k \in StaleKeys[n] : cache'[k].determinant = 1 => cache'[k].by # None
  <2>1. \A k \in StaleKeys[n] : Drained(k) => Drained(k)'
    BY DEF CacheKeys, Grows
  <2>2. \A k \in StaleKeys[n] : Drained(k)
    BY <1>2 DEF QuietReportIsTrue, Drained
  <2>3. \E m \in moments :
          m.pointer = reports'[n].pin /\ m.rows = Rows[m.pointer.version] /\ m.rows \cap Sample = Clean
    BY <1>2 DEF QuietReportIsTrue
  <2> QED
    BY <2>1, <2>2, <2>3 DEF Drained, Grows
<1>3. QuietReportIsTrue /\ UNCHANGED reports => QuietReportIsTrue'
  BY <1>2 DEF QuietReportIsTrue
<1> QED
  BY <1>1, <1>3

\* The pointer moves to the next fence or stays, and the cache changes by an entry.
LEMMA PinnedGrows ==
  ASSUME PinnedTyped, MomentsAgree, NEW runs \in SUBSET Runs, PinnedNext(runs)
  PROVE  Grows /\ MomentsAgree' /\ cache' \in [CacheKeys -> [determinant : Nat \ {0}, by : Nights \cup {None, "ANOTHER"}]]
<1>1. /\ \/ pointer' = pointer
         \/ \E v \in GraphVersions : PointTo(v)
      /\ \/ cache' = cache
         \/ \E k \in CacheKeys : \/ cache' = [cache EXCEPT ![k].by = "ANOTHER"]
                                 \/ cache' = [cache EXCEPT ![k] = [determinant |-> @.determinant + 1, by |-> None]]
                                 \/ \E n \in Nights : cache' = [cache EXCEPT ![k].by = n]
  <2>1. ASSUME NEW v \in GraphVersions, Publish(v) \/ Promote(v)
        PROVE  PointTo(v) /\ cache' = cache
    BY <2>1 DEF Publish, Promote
  <2>2. ASSUME CompletePromotion \/ FailDeployment
        PROVE  pointer' = pointer /\ cache' = cache
    BY <2>2 DEF CompletePromotion, FailDeployment
  <2>3. ASSUME NEW g \in Gates, PinHead(g) \/ Gate(g)
        PROVE  pointer' = pointer /\ cache' = cache
    BY <2>3 DEF PinHead, Gate, ReadEnvironment, ReadDeployment, Evaluate, ReadHead, Freshness, UpsertCheck,
                envVars
  <2>4. ASSUME NEW n \in Nights, Nightly(n), ~InvalidateEntry(n)
        PROVE  pointer' = pointer /\ cache' = cache
    BY <2>4 DEF Nightly, PinGraph, ReadRows, VerifyProjection, Audit, CompleteNightly, Decide, BeginDrain,
                EndDrain, envVars
  <2>5. ASSUME NEW n \in Nights, InvalidateEntry(n)
        PROVE  /\ pointer' = pointer
               /\ cache' = cache \/ \E k \in CacheKeys : cache' = [cache EXCEPT ![k].by = n]
    BY <2>5 DEF InvalidateEntry, envVars, Entries, CacheKeys
  <2>6. ASSUME NEW r \in runs, StageStops(r)
        PROVE  pointer' = pointer /\ cache' = cache
    BY <2>6 DEF StageStops, envVars
  <2>7. ASSUME NEW v \in GraphVersions, NEW row \in Sample, Rewrite(v, row)
        PROVE  pointer' = pointer /\ cache' = cache
    BY <2>7 DEF Rewrite
  <2>8. ASSUME NEW k \in DOMAIN cache, Refresh(k) \/ DrainedByAnother(k)
        PROVE  /\ pointer' = pointer /\ k \in CacheKeys
               /\ \/ cache' = [cache EXCEPT ![k].by = "ANOTHER"]
                  \/ cache' = [cache EXCEPT ![k] = [determinant |-> @.determinant + 1, by |-> None]]
    BY <2>8 DEF Refresh, DrainedByAnother, envVars, PinnedTyped
  <2> QED
    BY <2>1, <2>2, <2>3, <2>4, <2>5, <2>6, <2>7, <2>8 DEF PinnedNext, Environment
<1>2. /\ pointer \in Pins /\ pointer' \in Pins /\ pointer.fence \in Nat /\ pointer'.fence \in Nat
      /\ pointer' = pointer \/ pointer'.fence = pointer.fence + 1
  BY <1>1 DEF PinnedTyped, Pins, PointTo
<1>3. moments' = moments \cup {Moment'} /\ Moment'.pointer = pointer'
  BY DEF PinnedNext, Moment
<1>4. MomentsAgree'
  <2>1. \A m \in moments' : /\ m.pointer \in Pins /\ m.pointer.fence =< pointer'.fence
                            /\ m.pointer.fence = pointer'.fence => m.pointer = pointer'
    <3>1. \A m \in moments : m.pointer.fence \in Nat
      BY DEF MomentsAgree, Pins
    <3> QED
      BY <1>2, <1>3, <3>1 DEF MomentsAgree
  <2> QED
    BY <1>3, <2>1 DEF MomentsAgree
<1>5. /\ cache' \in [CacheKeys -> [determinant : Nat \ {0}, by : Nights \cup {None, "ANOTHER"}]]
      /\ \A k \in CacheKeys : Drained(k) => Drained(k)'
  <2>1. cache \in [CacheKeys -> [determinant : Nat \ {0}, by : Nights \cup {None, "ANOTHER"}]]
    BY DEF PinnedTyped
  <2>2. CASE cache' = cache
    BY <2>1, <2>2 DEF Drained
  <2>3. ASSUME NEW k \in CacheKeys, NEW by \in Nights \cup {"ANOTHER"}, cache' = [cache EXCEPT ![k].by = by]
        PROVE  /\ cache' \in [CacheKeys -> [determinant : Nat \ {0}, by : Nights \cup {None, "ANOTHER"}]]
               /\ \A x \in CacheKeys : Drained(x) => Drained(x)'
    <3>1. by # None /\ by \in Nights \cup {None, "ANOTHER"}
      BY PinnedAssumption DEF None
    <3>2. /\ cache'[k] = [cache[k] EXCEPT !.by = by]
          /\ \A x \in CacheKeys \ {k} : cache'[x] = cache[x]
      BY <2>1, <2>3
    <3>3. cache' \in [CacheKeys -> [determinant : Nat \ {0}, by : Nights \cup {None, "ANOTHER"}]]
      BY <2>1, <2>3, <3>1
    <3>4. cache'[k].by = by
      BY <2>1, <3>2
    <3> QED
      BY <3>1, <3>2, <3>3, <3>4 DEF Drained
  <2>4. ASSUME NEW k \in CacheKeys, cache' = [cache EXCEPT ![k] = [determinant |-> @.determinant + 1, by |-> None]]
        PROVE  /\ cache' \in [CacheKeys -> [determinant : Nat \ {0}, by : Nights \cup {None, "ANOTHER"}]]
               /\ \A x \in CacheKeys : Drained(x) => Drained(x)'
    <3>1. /\ cache'[k] = [determinant |-> cache[k].determinant + 1, by |-> None]
          /\ \A x \in CacheKeys \ {k} : cache'[x] = cache[x]
          /\ cache[k].determinant \in Nat \ {0}
      BY <2>1, <2>4
    <3>2. cache'[k].determinant # 1 /\ cache'[k].determinant \in Nat \ {0}
      BY <3>1
    <3>3. cache' \in [CacheKeys -> [determinant : Nat \ {0}, by : Nights \cup {None, "ANOTHER"}]]
      BY <2>1, <2>4, <3>1
    <3> QED
      BY <3>1, <3>2, <3>3 DEF Drained
  <2> QED
    BY <1>1, <2>2, <2>3, <2>4
<1>6. moments \subseteq moments' /\ pointer.fence =< pointer'.fence
  BY <1>2, <1>3
<1> QED
  BY <1>2, <1>4, <1>5, <1>6 DEF Grows

\* The runs of a state are sound.
RunsSound == /\ work \in [Runs -> RunRow]
             /\ \A g \in Gates : GateSound(g, work[g])
             /\ \A n \in Nights : NightSound(n, work[n])

LEMMA OneRun ==
  ASSUME RunsSound, Grows, NEW r \in Runs, NEW w \in RunRow, work' = [work EXCEPT ![r] = w],
         r \in Gates => GateSound(r, w)', r \in Nights => NightSound(r, w)'
  PROVE  RunsSound'
<1>1. /\ work' \in [Runs -> RunRow] /\ work'[r] = w
      /\ \A x \in Runs \ {r} : work'[x] = work[x] /\ work[x] \in RunRow
  BY DEF RunsSound
<1>2. ASSUME NEW g \in Gates
      PROVE  GateSound(g, work[g])'
  <2>1. PICK x : x = work'[g]
    OBVIOUS
  <2>2. GateSound(g, x)'
    <3>1. CASE g = r
      BY <1>1, <2>1, <3>1
    <3>2. CASE g # r
      <4>1. g \in Runs /\ x = work[g] /\ x \in RunRow /\ GateSound(g, x)
        BY <1>1, <2>1, <3>2 DEF Runs, RunsSound
      <4> QED
        BY <4>1, GateSoundStays
    <3> QED
      BY <3>1, <3>2
  <2> QED
    BY <2>1, <2>2 DEF GateSound, WasPinned, WasInSync, WasNewest, PassIsTrue
<1>3. ASSUME NEW n \in Nights
      PROVE  NightSound(n, work[n])'
  <2>1. PICK x : x = work'[n]
    OBVIOUS
  <2>2. NightSound(n, x)'
    <3>1. CASE n = r
      BY <1>1, <2>1, <3>1
    <3>2. CASE n # r
      <4>1. n \in Runs /\ x = work[n] /\ x \in RunRow /\ NightSound(n, x)
        BY <1>1, <2>1, <3>2 DEF Runs, RunsSound
      <4> QED
        BY <4>1, NightSoundStays
    <3> QED
      BY <3>1, <3>2
  <2> QED
    BY <2>1, <2>2 DEF NightSound, WasPinned, WasIntact, GraphWasTrue, Drained, Entries
<1> QED
  BY <1>1, <1>2, <1>3 DEF RunsSound

LEMMA NoRun ==
  ASSUME RunsSound, Grows, UNCHANGED work
  PROVE  RunsSound'
<1>1. ASSUME NEW g \in Gates
      PROVE  GateSound(g, work[g])'
  <2>1. PICK x : x = work[g] /\ x \in RunRow /\ GateSound(g, x)
    BY DEF RunsSound, Runs
  <2>2. GateSound(g, x)'
    BY <2>1, GateSoundStays
  <2> QED
    BY <2>1, <2>2 DEF GateSound, WasPinned, WasInSync, WasNewest, PassIsTrue
<1>2. ASSUME NEW n \in Nights
      PROVE  NightSound(n, work[n])'
  <2>1. PICK x : x = work[n] /\ x \in RunRow /\ NightSound(n, x)
    BY DEF RunsSound, Runs
  <2>2. NightSound(n, x)'
    BY <2>1, NightSoundStays
  <2> QED
    BY <2>1, <2>2 DEF NightSound, WasPinned, WasIntact, GraphWasTrue, Drained, Entries
<1> QED
  BY <1>1, <1>2 DEF RunsSound

\* What a stage computes, and how it ends or stops.
Proceeds(u, w, place, document) ==
  w.stage = u.stage /\ w.doc = u.doc /\ w.at = place /\ w.computed = document
Ended(u, w, document) == w.stage = NextStage[u.stage] /\ w.doc = document /\ w.at = "IDLE"
Rests(u, w) == w.stage = u.stage /\ w.doc = u.doc /\ w.at = "IDLE"

LEMMA ComputingRow ==
  ASSUME RunsSound, NEW r \in Runs, NEW place \in {"IDLE", "DEPLOYMENT", "POINTER", "DRAIN"},
         NEW document \in Documents, Computing(r, place, document)
  PROVE  \E w \in RunRow : work' = [work EXCEPT ![r] = w] /\ Proceeds(work[r], w, place, document)
<1>1. PICK u, w : /\ u = work[r] /\ u \in RunRow
                  /\ w = [u EXCEPT !.at = place, !.computed = document]
  BY DEF RunsSound
<1>2. w \in RunRow /\ Proceeds(u, w, place, document)
  BY <1>1 DEF RunRow, Proceeds
<1>3. work' = [work EXCEPT ![r] = w]
  BY <1>1 DEF Computing, RunsSound
<1> QED
  BY <1>1, <1>2, <1>3

LEMMA RecordedRow ==
  ASSUME RunsSound, NEW r \in Runs, work[r].stage # "END", NEW document \in Documents, Recorded(r, document)
  PROVE  \E w \in RunRow : work' = [work EXCEPT ![r] = w] /\ Ended(work[r], w, document)
<1>1. PICK u, w : /\ u = work[r] /\ u \in RunRow /\ u.stage # "END"
                  /\ w = [stage |-> NextStage[u.stage], doc |-> document, at |-> "IDLE",
                          computed |-> NoDocument, stored |-> NoDocument]
                  /\ work' = [work EXCEPT ![r] = w]
  BY DEF RunsSound, Recorded
<1>2. NextStage[u.stage] \in {"P1", "P3", "P4", "P7", "P8", "N1", "N3", "N4", "N5", "N6", "END"}
  BY <1>1 DEF RunRow, NextStage
<1>3. w \in RunRow /\ Ended(u, w, document)
  BY <1>1, <1>2, NoDocumentTyped DEF RunRow, Ended
<1> QED
  BY <1>1, <1>3

LEMMA EndsRow ==
  ASSUME RunsSound, NEW r \in Runs, work[r].stage # "END", NEW document \in Documents, Ends(r, document)
  PROVE  \E w \in RunRow : /\ work' = [work EXCEPT ![r] = w]
                           /\ Ended(work[r], w, document) \/ Rests(work[r], w)
<1>1. CASE Recorded(r, document)
  BY <1>1, RecordedRow
<1>2. CASE Again(r)
  <2>1. PICK w \in RunRow : work' = [work EXCEPT ![r] = w] /\ Proceeds(work[r], w, "IDLE", NoDocument)
    BY <1>2, ComputingRow, NoDocumentTyped DEF Again
  <2> QED
    BY <2>1 DEF Proceeds, Rests
<1>3. ASSUME NEW stored \in {work[r].stored, document},
             work' = [work EXCEPT ![r].at = "IDLE", ![r].computed = NoDocument, ![r].stored = stored]
      PROVE  \E w \in RunRow : work' = [work EXCEPT ![r] = w] /\ Rests(work[r], w)
  <2>1. PICK u, w : /\ u = work[r] /\ u \in RunRow /\ stored \in {u.stored, document}
                    /\ w = [u EXCEPT !.at = "IDLE", !.computed = NoDocument, !.stored = stored]
    BY <1>3 DEF RunsSound
  <2>2. w \in RunRow /\ Rests(u, w)
    BY <2>1, NoDocumentTyped DEF RunRow, Rests
  <2>3. work' = [work EXCEPT ![r] = w]
    BY <1>3, <2>1 DEF RunsSound
  <2> QED
    BY <2>1, <2>2, <2>3
<1> QED
  BY <1>1, <1>2, <1>3 DEF Ends

LEMMA RestsStays ==
  ASSUME RunsSound, Grows, NEW r \in Runs, NEW w \in RunRow, Rests(work[r], w)
  PROVE  (r \in Gates => GateSound(r, w)') /\ (r \in Nights => NightSound(r, w)')
<1>1. r \in Gates => GateSound(r, w)
  BY DEF RunsSound, GateSound, Rests
<1>2. r \in Nights => NightSound(r, w)
  BY DEF RunsSound, NightSound, Rests
<1> QED
  BY <1>1, <1>2, GateSoundStays, NightSoundStays

LEMMA Adding ==
  ASSUME NEW d \in Documents, NEW r \in SUBSET Reasons
  PROVE  /\ Add(d, r) \in Documents /\ Add(d, r).reasons = d.reasons \cup r
         /\ Add(d, r).pin = d.pin /\ Add(d, r).impact = d.impact /\ Add(d, r).verdict = d.verdict
         /\ Add(d, r).missing = d.missing /\ Add(d, r).unexpected = d.unexpected /\ Add(d, r).results = d.results
BY DEF Add, Documents

\* The steps of a gate before its check is stored.
LEMMA GateEvaluates ==
  ASSUME RunsSound, MomentsAgree, pointer \in Pins, Grows, NEW g \in Gates,
         \/ PinHead(g) \/ ReadEnvironment(g) \/ ReadDeployment(g) \/ Evaluate(g) \/ ReadHead(g) \/ Freshness(g)
  PROVE  RunsSound'
<1>1. PICK u : /\ u = work[g] /\ u \in RunRow /\ GateSound(g, u) /\ g \in Runs /\ g \notin Nights
               /\ u.doc \in Documents /\ u.computed \in Documents
  BY PinnedAssumption DEF RunsSound, Runs, RunRow
<1>2. ASSUME NEW w \in RunRow, work' = [work EXCEPT ![g] = w], GateSound(g, w) \/ Rests(u, w)
      PROVE  RunsSound'
  <2>1. GateSound(g, w)'
    BY <1>1, <1>2, GateSoundStays, RestsStays
  <2> QED
    BY <1>1, <1>2, <2>1, OneRun
<1>3. CASE PinHead(g)
  <2>1. PICK d : d = Add(u.doc, If(~NewestHead(g), "PR_HEAD_SUPERSEDED")) /\ Ends(g, d) /\ u.stage = "P1"
    BY <1>1, <1>3 DEF PinHead, Begins
  <2>2. d \in Documents
    BY <1>1, <2>1, Adding DEF If, Reasons
  <2>3. PICK w \in RunRow : work' = [work EXCEPT ![g] = w] /\ (Ended(u, w, d) \/ Rests(u, w))
    BY <1>1, <2>1, <2>2, EndsRow
  <2>4. Ended(u, w, d) => GateSound(g, w)
    BY <2>1 DEF Ended, NextStage, GateSound
  <2> QED
    BY <1>2, <2>3, <2>4
<1>4. CASE ReadEnvironment(g)
  <2>1. PICK a, d : /\ a = Add(u.doc, If(pointer.version = None, "MISSING_ENVIRONMENT"))
                    /\ d = [a EXCEPT !.pin = pointer]
                    /\ Computing(g, "DEPLOYMENT", d) /\ u.stage = "P3"
    BY <1>1, <1>4 DEF ReadEnvironment, Begins
  <2>2. /\ a \in Documents /\ (pointer.version = None => a.reasons # {})
    BY <1>1, <2>1, Adding DEF If, Reasons
  <2>3. d \in Documents /\ d.pin = pointer /\ d.reasons = a.reasons
    BY <2>1, <2>2 DEF Documents
  <2>4. PICK w \in RunRow : work' = [work EXCEPT ![g] = w] /\ Proceeds(u, w, "DEPLOYMENT", d)
    BY <1>1, <2>1, <2>3, ComputingRow
  <2>5. WasPinned(pointer)
    BY DEF WasPinned, Pins
  <2>6. GateSound(g, w)
    BY <2>1, <2>2, <2>3, <2>4, <2>5 DEF Proceeds, GateSound
  <2> QED
    BY <1>2, <2>4, <2>6
<1>5. CASE ReadDeployment(g)
  <2>1. PICK d : /\ d = Add(u.computed, If(~InSync(u.computed.pin), "LINEAGE_OUT_OF_SYNC"))
                 /\ Ends(g, d) /\ u.stage = "P3" /\ u.at = "DEPLOYMENT"
    BY <1>1, <1>5 DEF ReadDeployment, GoesOn
  <2>2. /\ d \in Documents /\ d.pin = u.computed.pin
        /\ d.reasons = u.computed.reasons \cup If(~InSync(u.computed.pin), "LINEAGE_OUT_OF_SYNC")
    BY <1>1, <2>1, Adding DEF If, Reasons
  <2>3. ASSUME d.reasons = {}
        PROVE  InSync(d.pin)
    <3>1. If(~InSync(u.computed.pin), "LINEAGE_OUT_OF_SYNC") = {}
      BY <2>2, <2>3
    <3>2. InSync(u.computed.pin)
      BY <3>1 DEF If
    <3> QED
      BY <2>2, <3>2
  <2>4. WasPinned(d.pin) /\ (d.pin.version = None => d.reasons # {})
    BY <1>1, <2>1, <2>2 DEF GateSound
  <2>5. InSync(d.pin) => WasInSync(d.pin)
    <3>1. /\ Moment \in moments /\ Moment.pointer = pointer
          /\ Moment.synced <=> (deployment.outcome \in Succeeded /\ deployment.version = pointer.version)
      BY DEF MomentsAgree, Moment, InSync
    <3> QED
      BY <2>4, <3>1 DEF InSync, WasInSync, WasPinned
  <2>6. PICK w \in RunRow : work' = [work EXCEPT ![g] = w] /\ (Ended(u, w, d) \/ Rests(u, w))
    BY <1>1, <2>1, <2>2, EndsRow
  <2>7. Ended(u, w, d) => GateSound(g, w)
    BY <2>1, <2>3, <2>4, <2>5 DEF Ended, NextStage, GateSound
  <2> QED
    BY <1>2, <2>6, <2>7
<1>6. CASE Evaluate(g)
  <2>1. Recorded(g, Policy(Impact(g, Analysis(g, u.doc)))) /\ u.stage = "P4"
    BY <1>1, <1>6 DEF Evaluate, Begins
  <2>2. PICK a : a = Analysis(g, u.doc)
    OBVIOUS
  <2>3. a \in Documents /\ a.pin = u.doc.pin /\ a.reasons = u.doc.reasons \cup If(~Covered[g], "INCOMPLETE_COVERAGE")
    <3>1. a = Add(u.doc, If(~Covered[g], "INCOMPLETE_COVERAGE"))
      BY <2>2 DEF Analysis, Candidate
    <3>2. If(~Covered[g], "INCOMPLETE_COVERAGE") \in SUBSET Reasons
      BY DEF If, Reasons
    <3> QED
      BY <1>1, <3>1, <3>2, Adding
  <2>4. PICK effects : effects = IF a.pin.version = None THEN {} ELSE ImpactOf[g][a.pin.version]
    OBVIOUS
  <2>5. effects \in SUBSET Effects
    <3>1. a.pin \in Pins /\ ImpactOf[g] \in [GraphVersions -> SUBSET Effects]
      BY <2>3, PinnedAssumption DEF Documents
    <3>2. a.pin.version \in GraphVersions \cup {None}
      BY <3>1 DEF Pins
    <3> QED
      BY <2>4, <3>1, <3>2
  <2>18. PICK remarks : remarks = If("TRUNCATED" \in effects, "IMPACT_TRUNCATED") \cup If("WARN" \in effects, "IMPACT_WARNING")
    OBVIOUS
  <2>6. PICK b : b = Add(a, remarks)
    OBVIOUS
  <2>7. b \in Documents /\ b.pin = a.pin /\ b.reasons = a.reasons \cup remarks
    <3>1. remarks \in SUBSET Reasons
      BY <2>18 DEF If, Reasons
    <3> QED
      BY <2>3, <2>6, <3>1, Adding
  <2>8. PICK c : c = [b EXCEPT !.impact = effects]
    OBVIOUS
  <2>9. c \in Documents /\ c.pin = b.pin /\ c.reasons = b.reasons /\ c.impact = effects
    BY <2>5, <2>7, <2>8 DEF Documents
  <2>10. PICK d : d = Policy(c)
    OBVIOUS
  <2>11. Recorded(g, d)
    BY <2>1, <2>2, <2>4, <2>18, <2>6, <2>8, <2>10 DEF Impact, Candidate
  <2>12. /\ d \in Documents /\ d.pin = c.pin /\ d.reasons = c.reasons
         /\ d.verdict = "PASS" => c.reasons = {} /\ "BLOCK" \notin effects
    <3>1. PICK verdict : verdict = IF "BLOCK" \in c.impact THEN "BLOCK" ELSE IF c.reasons # {} THEN "WARN" ELSE "PASS"
      OBVIOUS
    <3>2. d = [c EXCEPT !.verdict = verdict]
      BY <2>10, <3>1 DEF Policy
    <3>3. verdict \in {"PASS", "WARN", "BLOCK"} /\ (verdict = "PASS" => c.reasons = {} /\ "BLOCK" \notin c.impact)
      BY <3>1
    <3> QED
      BY <2>9, <3>2, <3>3 DEF Documents
  <2>13. ASSUME d.reasons = {}
         PROVE  u.doc.reasons = {} /\ Covered[g] /\ effects \cap {"WARN", "TRUNCATED"} = {}
    <3>1. u.doc.reasons = {} /\ If(~Covered[g], "INCOMPLETE_COVERAGE") = {} /\ remarks = {}
      BY <2>3, <2>7, <2>9, <2>12, <2>13
    <3>2. "WARN" \notin effects /\ "TRUNCATED" \notin effects
      BY <2>18, <3>1 DEF If
    <3> QED
      BY <3>1, <3>2 DEF If
  <2>14. /\ WasPinned(d.pin) /\ (d.pin.version = None => u.doc.reasons # {})
         /\ u.doc.reasons = {} => WasInSync(d.pin)
    <3>1. d.pin = u.doc.pin
      BY <2>3, <2>7, <2>9, <2>12
    <3> QED
      BY <1>1, <2>1, <3>1 DEF GateSound
  <2>15. ASSUME d.verdict = "PASS"
         PROVE  d.reasons = {} /\ Covered[g] /\ ImpactOf[g][d.pin.version] = {}
    <3>1. d.reasons = {} /\ "BLOCK" \notin effects /\ Covered[g] /\ u.doc.reasons = {}
      BY <2>9, <2>12, <2>13, <2>15
    <3>2. effects = {}
      BY <2>5, <2>12, <2>13, <2>15, <3>1 DEF Effects
    <3>3. a.pin.version # None /\ a.pin = d.pin
      BY <2>3, <2>7, <2>9, <2>12, <2>14, <3>1
    <3> QED
      BY <2>4, <3>1, <3>2, <3>3
  <2>16. PICK w \in RunRow : work' = [work EXCEPT ![g] = w] /\ Ended(u, w, d)
    BY <1>1, <2>1, <2>11, <2>12, RecordedRow
  <2>17. GateSound(g, w)
    BY <2>1, <2>13, <2>14, <2>15, <2>16 DEF Ended, NextStage, GateSound
  <2> QED
    BY <1>2, <2>16, <2>17
<1>7. CASE ReadHead(g)
  <2>1. PICK a, d : /\ a = Add(u.doc, If(head.head # HeadOf[g], "PR_HEAD_SUPERSEDED"))
                    /\ d = [a EXCEPT !.verdict = IF head.head # HeadOf[g] THEN "WARN" ELSE @]
                    /\ Computing(g, "POINTER", d) /\ u.stage = "P7"
    BY <1>1, <1>7 DEF ReadHead, Begins, Warned
  <2>7. a \in Documents /\ a.pin = u.doc.pin /\ a.verdict = u.doc.verdict
    BY <1>1, <2>1, Adding DEF If, Reasons
  <2>2. d \in Documents /\ d.pin = u.doc.pin
    BY <2>1, <2>7 DEF Documents
  <2>3. d.verdict = "PASS" => u.doc.verdict = "PASS" /\ head.head = HeadOf[g]
    BY <2>1, <2>7 DEF Documents
  <2>4. head.head = HeadOf[g] => WasNewest(g, u.doc.pin)
    <3>1. Moment \in moments /\ Moment.pointer = pointer /\ Moment.head = head.head
      BY DEF MomentsAgree, Moment
    <3>2. u.doc.pin.fence =< pointer.fence
      BY <1>1, <2>1 DEF GateSound, WasPinned
    <3> QED
      BY <3>1, <3>2 DEF WasNewest
  <2>5. PICK w \in RunRow : work' = [work EXCEPT ![g] = w] /\ Proceeds(u, w, "POINTER", d)
    BY <1>1, <2>1, <2>2, ComputingRow
  <2>6. GateSound(g, w)
    BY <1>1, <2>1, <2>2, <2>3, <2>4, <2>5 DEF Proceeds, GateSound
  <2> QED
    BY <1>2, <2>5, <2>6
<1>8. CASE Freshness(g)
  <2>1. PICK a : a = Add(u.computed, If(~Unmoved(u.computed.pin), "ENVIRONMENT_CHANGED"))
    OBVIOUS
  <2>2. a \in Documents /\ a.pin = u.computed.pin /\ a.verdict = u.computed.verdict
    <3>1. If(~Unmoved(u.computed.pin), "ENVIRONMENT_CHANGED") \in SUBSET Reasons
      BY DEF If, Reasons
    <3> QED
      BY <1>1, <2>1, <3>1, Adding
  <2>3. PICK d : /\ d = [a EXCEPT !.verdict = IF ~Unmoved(u.computed.pin) THEN "WARN" ELSE @]
                 /\ Ends(g, d) /\ u.stage = "P7" /\ u.at = "POINTER"
    BY <1>1, <1>8, <2>1 DEF Freshness, GoesOn, Warned
  <2>9. /\ d \in Documents /\ d.pin = a.pin
        /\ d.verdict = "PASS" => Unmoved(u.computed.pin) /\ a.verdict = "PASS"
    <3>1. CASE ~Unmoved(u.computed.pin)
      BY <2>2, <2>3, <3>1 DEF Documents
    <3>2. CASE Unmoved(u.computed.pin)
      BY <2>2, <2>3, <3>2 DEF Documents
    <3> QED
      BY <3>1, <3>2
  <2>4. ASSUME d.verdict = "PASS"
        PROVE  PassIsTrue(g, d.pin)
    <3>1. /\ u.doc.verdict = "PASS" /\ u.computed.pin = u.doc.pin /\ d.pin = u.doc.pin /\ pointer = u.doc.pin
          /\ WasNewest(g, u.doc.pin)
      BY <1>1, <2>2, <2>3, <2>4, <2>9 DEF GateSound, Unmoved
    <3>2. /\ u.doc.reasons = {} /\ Covered[g] /\ ImpactOf[g][d.pin.version] = {}
          /\ WasNewest(g, pointer) /\ WasInSync(pointer)
      BY <1>1, <2>3, <3>1 DEF GateSound
    <3>3. \A m \in moments : pointer.fence =< m.pointer.fence => m.pointer = pointer
      <4>1. \A m \in moments : m.pointer.fence \in Nat /\ pointer.fence \in Nat
        BY DEF MomentsAgree, Pins
      <4> QED
        BY <4>1 DEF MomentsAgree
    <3> QED
      BY <3>1, <3>2, <3>3 DEF WasNewest, WasInSync, PassIsTrue
  <2>5. PICK w \in RunRow : work' = [work EXCEPT ![g] = w] /\ (Ended(u, w, d) \/ Rests(u, w))
    BY <1>1, <2>3, <2>9, EndsRow
  <2>6. Ended(u, w, d) => GateSound(g, w)
    BY <2>3, <2>4 DEF Ended, NextStage, GateSound
  <2> QED
    BY <1>2, <2>5, <2>6
<1> QED
  BY <1>3, <1>4, <1>5, <1>6, <1>7, <1>8

\* The check is stored.
LEMMA GateStores ==
  ASSUME PinnedTyped, RunsSound, PassWasTrue, Grows, NEW g \in Gates, UpsertCheck(g)
  PROVE  /\ RunsSound' /\ PassWasTrue' /\ checks' = [h \in {HeadOf[x] : x \in Gates} |-> checks'[h]]
         /\ \A c \in announced' : c.gate \in Gates
<1>1. PICK u : /\ u = work[g] /\ u \in RunRow /\ GateSound(g, u) /\ g \in Runs /\ g \notin Nights
               /\ u.doc \in Documents /\ u.stage = "P8"
  BY PinnedAssumption DEF RunsSound, Runs, RunRow, UpsertCheck, Begins
<1>2. RunsSound'
  <2>1. PICK w \in RunRow : work' = [work EXCEPT ![g] = w] /\ (Ended(u, w, u.doc) \/ Rests(u, w))
    <3>1. CASE Ends(g, u.doc)
      BY <1>1, <3>1, EndsRow
    <3>2. CASE Again(g)
      BY <1>1, <3>2, ComputingRow, NoDocumentTyped DEF Again, Proceeds, Rests
    <3> QED
      BY <1>1, <3>1, <3>2 DEF UpsertCheck
  <2>2. Ended(u, w, u.doc) => GateSound(g, w)
    BY <1>1 DEF Ended, NextStage, GateSound
  <2>3. GateSound(g, w)'
    BY <1>1, <2>1, <2>2, GateSoundStays, RestsStays
  <2> QED
    BY <1>1, <2>1, <2>3, OneRun
<1>3. PassWasTrue'
  <2>1. PICK c : c = CheckOf(g)
    OBVIOUS
  <2>2. announced' \subseteq announced \cup {c}
    BY <2>1 DEF UpsertCheck
  <2>3. c.gate = g /\ c.pin = u.doc.pin /\ c.verdict = u.doc.verdict
    BY <1>1, <2>1 DEF CheckOf
  <2>4. c.verdict = "PASS" => PassIsTrue(g, c.pin)
    BY <1>1, <2>3 DEF GateSound
  <2> QED
    BY <2>2, <2>3, <2>4 DEF PassWasTrue, PassIsTrue, Grows
<1>4. checks' = [h \in {HeadOf[x] : x \in Gates} |-> checks'[h]]
  BY DEF UpsertCheck, PinnedTyped
<1>5. \A c \in announced' : c.gate \in Gates
  BY DEF UpsertCheck, PinnedTyped, CheckOf
<1> QED
  BY <1>2, <1>3, <1>4, <1>5
\* A nightly run pins the graph, reads its rows, and audits.
LEMMA NightReads ==
  ASSUME RunsSound, MomentsAgree, pointer \in Pins, Grows, NEW n \in Nights,
         PinGraph(n) \/ ReadRows(n) \/ VerifyProjection(n) \/ Audit(n)
  PROVE  RunsSound'
<1>1. PICK u : /\ u = work[n] /\ u \in RunRow /\ NightSound(n, u) /\ n \in Runs /\ n \notin Gates
               /\ u.doc \in Documents /\ u.computed \in Documents
  BY PinnedAssumption DEF RunsSound, Runs, RunRow
<1>2. ASSUME NEW w \in RunRow, work' = [work EXCEPT ![n] = w], NightSound(n, w) \/ Rests(u, w)
      PROVE  RunsSound'
  <2>1. NightSound(n, w)'
    BY <1>1, <1>2, NightSoundStays, RestsStays
  <2> QED
    BY <1>1, <1>2, <2>1, OneRun
<1>3. CASE PinGraph(n)
  <2>1. PICK a : a = Add(u.doc, If(~Archived[n], "ARCHIVE_RECONCILIATION_DRIFT"))
    OBVIOUS
  <2>2. a \in Documents /\ a.results = u.doc.results
    <3>1. If(~Archived[n], "ARCHIVE_RECONCILIATION_DRIFT") \in SUBSET Reasons
      BY DEF If, Reasons
    <3> QED
      BY <1>1, <2>1, <3>1, Adding
  <2>3. PICK d : d = [a EXCEPT !.pin = pointer] /\ Ends(n, d) /\ u.stage = "N1" /\ pointer.version # None
    BY <1>1, <1>3, <2>1 DEF PinGraph, Begins
  <2>4. d \in Documents /\ d.pin = pointer /\ d.results = << >>
    BY <1>1, <2>2, <2>3 DEF Documents, NightSound
  <2>5. WasPinned(pointer)
    BY DEF WasPinned, Pins
  <2>6. PICK w \in RunRow : work' = [work EXCEPT ![n] = w] /\ (Ended(u, w, d) \/ Rests(u, w))
    BY <1>1, <2>3, <2>4, EndsRow
  <2>7. Ended(u, w, d) => NightSound(n, w)
    BY <2>3, <2>4, <2>5 DEF Ended, NextStage, NightSound
  <2> QED
    BY <1>2, <2>6, <2>7
<1>4. CASE ReadRows(n)
  <2>1. PICK actual, found : /\ actual = rows[u.doc.pin.version]
                             /\ found = If(actual # Rows[u.doc.pin.version], "PROJECTION_CHECKSUM_DRIFT")
                                          \cup If(actual \cap Sample # Clean, "PUBLISHED_SAMPLE_DRIFT")
    OBVIOUS
  <2>2. /\ found \in SUBSET Reasons
        /\ found = {} => actual = Rows[u.doc.pin.version] /\ actual \cap Sample = Clean
    BY <2>1 DEF If, Reasons
  <2>3. PICK a : a = Add(u.doc, found)
    OBVIOUS
  <2>4. a \in Documents /\ a.pin = u.doc.pin /\ a.results = u.doc.results /\ a.reasons = u.doc.reasons \cup found
    BY <1>1, <2>2, <2>3, Adding
  <2>5. PICK d : /\ d = [a EXCEPT !.missing = Clean \ actual, !.unexpected = (actual \cap Sample) \ Clean]
                 /\ Computing(n, "POINTER", d) /\ u.stage = "N3"
    BY <1>1, <1>4, <2>1, <2>3 DEF ReadRows, Begins
  <2>6. d \in Documents /\ d.pin = u.doc.pin /\ d.results = << >> /\ d.reasons = u.doc.reasons \cup found
    <3>1. PICK missing, unexpected : missing = Clean \ actual /\ unexpected = (actual \cap Sample) \ Clean
      OBVIOUS
    <3>4. missing \in SUBSET Clean /\ unexpected \in SUBSET Sample
      BY <3>1
    <3>2. d = [a EXCEPT !.missing = missing, !.unexpected = unexpected]
      BY <2>5, <3>1
    <3>3. u.doc.results = << >>
      BY <1>1, <2>5 DEF NightSound
    <3> QED
      BY <2>4, <3>2, <3>3, <3>4 DEF Documents
  <2>7. ASSUME d.reasons = {}
        PROVE  WasIntact(u.doc.pin)
    <3>1. actual = Rows[u.doc.pin.version] /\ actual \cap Sample = Clean
      BY <2>2, <2>6, <2>7
    <3>2. WasPinned(u.doc.pin) /\ u.doc.pin.version # None
      BY <1>1, <2>5 DEF NightSound
    <3>3. /\ Moment \in moments /\ Moment.pointer = pointer
          /\ pointer.version # None => Moment.rows = rows[pointer.version]
      BY DEF MomentsAgree, Moment
    <3> QED
      BY <2>1, <3>1, <3>2, <3>3 DEF WasPinned, WasIntact
  <2>8. PICK w \in RunRow : work' = [work EXCEPT ![n] = w] /\ Proceeds(u, w, "POINTER", d)
    BY <1>1, <2>5, <2>6, ComputingRow
  <2>9. NightSound(n, w)
    BY <1>1, <2>5, <2>6, <2>7, <2>8 DEF Proceeds, NightSound
  <2> QED
    BY <1>2, <2>8, <2>9
<1>5. CASE VerifyProjection(n)
  <2>1. PICK found : /\ found = If(~Unmoved(u.computed.pin), "ENVIRONMENT_CHANGED") /\ found \in SUBSET Reasons
                     /\ found = {} => Unmoved(u.computed.pin)
    BY DEF If, Reasons
  <2>2. PICK d : d = Add(u.computed, found) /\ Ends(n, d) /\ u.stage = "N3" /\ u.at = "POINTER"
    BY <1>1, <1>5, <2>1 DEF VerifyProjection, GoesOn
  <2>3. d \in Documents /\ d.pin = u.doc.pin /\ d.results = << >> /\ d.reasons = u.computed.reasons \cup found
    BY <1>1, <2>1, <2>2, Adding DEF NightSound
  <2>4. ASSUME d.reasons = {}
        PROVE  GraphWasTrue(d.pin)
    <3>1. pointer = d.pin /\ WasIntact(d.pin)
      BY <1>1, <2>1, <2>2, <2>3, <2>4 DEF NightSound, Unmoved
    <3>2. PICK m \in moments : /\ pointer.fence =< m.pointer.fence
                               /\ m.pointer = pointer => m.rows = Rows[pointer.version] /\ m.rows \cap Sample = Clean
      BY <3>1 DEF WasIntact
    <3>3. m.pointer = pointer
      BY <3>2 DEF MomentsAgree, Pins
    <3> QED
      BY <3>1, <3>2, <3>3 DEF GraphWasTrue
  <2>5. PICK w \in RunRow : work' = [work EXCEPT ![n] = w] /\ (Ended(u, w, d) \/ Rests(u, w))
    BY <1>1, <2>2, <2>3, EndsRow
  <2>6. Ended(u, w, d) => NightSound(n, w)
    BY <2>2, <2>3, <2>4 DEF Ended, NextStage, NightSound
  <2> QED
    BY <1>2, <2>5, <2>6
<1>6. CASE Audit(n)
  <2>1. PICK found : found = If(~Audited[n], "AUTOPUBLISH_AUDIT_DRIFT") /\ found \in SUBSET Reasons
    BY DEF If, Reasons
  <2>2. PICK d : d = Add(u.doc, found) /\ Recorded(n, d) /\ u.stage = "N5"
    BY <1>1, <1>6, <2>1 DEF Audit, Begins
  <2>3. d \in Documents /\ d.pin = u.doc.pin /\ (d.reasons = {} => u.doc.reasons = {})
    BY <1>1, <2>1, <2>2, Adding
  <2>4. PICK w \in RunRow : work' = [work EXCEPT ![n] = w] /\ Ended(u, w, d)
    BY <1>1, <2>2, <2>3, RecordedRow
  <2>5. NightSound(n, w)
    BY <1>1, <2>2, <2>3, <2>4 DEF Ended, NextStage, NightSound
  <2> QED
    BY <1>2, <2>4, <2>5
<1> QED
  BY <1>3, <1>4, <1>5, <1>6

\* A nightly run drains the entries of its manifest.
LEMMA NightDrains ==
  ASSUME RunsSound, Grows, NEW n \in Nights,
         cache \in [CacheKeys -> [determinant : Nat \ {0}, by : Nights \cup {None, "ANOTHER"}]],
         BeginDrain(n) \/ InvalidateEntry(n) \/ EndDrain(n)
  PROVE  RunsSound'
<1>1. PICK u : /\ u = work[n] /\ u \in RunRow /\ NightSound(n, u) /\ n \in Runs /\ n \notin Gates
               /\ u.doc \in Documents /\ u.computed \in Documents
  BY PinnedAssumption DEF RunsSound, Runs, RunRow
<1>2. ASSUME NEW w \in RunRow, work' = [work EXCEPT ![n] = w], NightSound(n, w) \/ Rests(u, w)
      PROVE  RunsSound'
  <2>1. NightSound(n, w)'
    BY <1>1, <1>2, NightSoundStays, RestsStays
  <2> QED
    BY <1>1, <1>2, <2>1, OneRun
<1>3. CASE BeginDrain(n)
  <2>1. u.stage = "N4" /\ Computing(n, "DRAIN", u.doc) /\ u.doc.results = << >>
    BY <1>1, <1>3 DEF BeginDrain, Begins, NightSound
  <2>2. PICK w \in RunRow : work' = [work EXCEPT ![n] = w] /\ Proceeds(u, w, "DRAIN", u.doc)
    BY <1>1, <2>1, ComputingRow
  <2>3. NightSound(n, w)
    BY <1>1, <2>1, <2>2 DEF Proceeds, NightSound
  <2> QED
    BY <1>2, <2>2, <2>3
<1>4. CASE InvalidateEntry(n)
  <2>1. PICK results, k, answer :
          /\ results = u.computed.results /\ results \in Seq({"INVALIDATED", "SUPERSEDED"})
          /\ k = Len(results) + 1 /\ k \in Entries(n) /\ u.stage = "N4" /\ u.at = "DRAIN"
          /\ answer = IF Drainable(n, k) THEN "INVALIDATED" ELSE "SUPERSEDED"
    BY <1>1, <1>4 DEF InvalidateEntry, Processed, GoesOn, Documents
  <2>2. CASE Again(n)
    <3>1. PICK w \in RunRow : work' = [work EXCEPT ![n] = w] /\ Proceeds(u, w, "IDLE", NoDocument)
      BY <1>1, <2>2, ComputingRow, NoDocumentTyped DEF Again
    <3> QED
      BY <1>2, <3>1 DEF Proceeds, Rests
  <2>3. ASSUME Computing(n, "DRAIN", [u.computed EXCEPT !.results = Append(@, answer)])
        PROVE  RunsSound'
    <3>1. PICK more : /\ more = Append(results, answer) /\ more \in Seq({"INVALIDATED", "SUPERSEDED"})
                      /\ DOMAIN more = DOMAIN results \cup {k} /\ more[k] = answer
                      /\ \A i \in DOMAIN results : more[i] = results[i]
      <4>1. answer \in {"INVALIDATED", "SUPERSEDED"}
        BY <2>1
      <4>2. PICK more : more = Append(results, answer)
        OBVIOUS
      <4>3. /\ more \in Seq({"INVALIDATED", "SUPERSEDED"}) /\ Len(more) = k /\ more[k] = answer
            /\ \A i \in 1 .. Len(results) : more[i] = results[i]
        BY <2>1, <4>1, <4>2, AppendProperties
      <4>4. DOMAIN results = 1 .. Len(results) /\ DOMAIN more = 1 .. k /\ Len(results) \in Nat
        BY <2>1, <4>3, LenProperties
      <4>5. DOMAIN more = DOMAIN results \cup {k}
        BY <2>1, <4>4
      <4> QED
        BY <4>2, <4>3, <4>4, <4>5
    <3>2. PICK d : d = [u.computed EXCEPT !.results = more] /\ Computing(n, "DRAIN", d)
      BY <2>1, <2>3, <3>1
    <3>3. d \in Documents /\ d.pin = u.computed.pin /\ d.reasons = u.computed.reasons /\ d.results = more
      BY <1>1, <3>1, <3>2 DEF Documents
    <3>4. answer = "INVALIDATED" => Drained(k)'
      <4>1. ASSUME Drainable(n, k)
            PROVE  cache'[k].by = n /\ n # None
        <5>1. cache' = [cache EXCEPT ![k].by = n]
          BY <1>1, <1>4, <2>1, <4>1 DEF InvalidateEntry, Processed
        <5>2. k \in CacheKeys
          BY <1>1, <2>1 DEF Entries, CacheKeys
        <5> QED
          BY <5>1, <5>2, PinnedAssumption
      <4> QED
        BY <2>1, <4>1 DEF Drained
    <3>5. \A i \in Entries(n) : Drained(i) => Drained(i)'
      BY DEF Entries, CacheKeys, Grows
    <3>6. PICK w \in RunRow : work' = [work EXCEPT ![n] = w] /\ Proceeds(u, w, "DRAIN", d)
      BY <1>1, <3>2, <3>3, ComputingRow
    <3>7. /\ d.pin = u.doc.pin /\ d.reasons = u.doc.reasons
          /\ \A i \in DOMAIN results : i \in Entries(n) /\ (results[i] = "INVALIDATED" => Drained(i))
      BY <1>1, <2>1, <3>3 DEF NightSound
    <3>8. \A i \in DOMAIN more : i \in Entries(n) /\ (more[i] = "INVALIDATED" => Drained(i)')
      BY <2>1, <3>1, <3>4, <3>5, <3>7
    <3>9. NightSound(n, u)'
      BY <1>1, NightSoundStays
    <3>10. NightSound(n, w)'
      BY <2>1, <3>3, <3>6, <3>7, <3>8, <3>9 DEF Proceeds, NightSound, Entries
    <3> QED
      BY <1>1, <3>6, <3>10, OneRun
  <2> QED
    BY <1>1, <1>4, <2>1, <2>2, <2>3 DEF InvalidateEntry, Processed
<1>5. CASE EndDrain(n)
  <2>1. PICK results, found :
          /\ results = u.computed.results /\ results \in Seq({"INVALIDATED", "SUPERSEDED"})
          /\ found = If(Truncated(n) \/ \E i \in DOMAIN results : results[i] # "INVALIDATED", "CACHE_DRAIN_INCOMPLETE")
          /\ Len(results) = Cardinality(Entries(n)) /\ u.stage = "N4" /\ u.at = "DRAIN"
    BY <1>1, <1>5 DEF EndDrain, Processed, GoesOn, Documents
  <2>2. /\ found \in SUBSET Reasons
        /\ found = {} => Entries(n) = StaleKeys[n] /\ \A i \in DOMAIN results : results[i] = "INVALIDATED"
    BY <2>1 DEF If, Reasons, Truncated
  <2>3. PICK d : d = Add(u.computed, found) /\ Ends(n, d)
    BY <1>1, <1>5, <2>1 DEF EndDrain
  <2>4. d \in Documents /\ d.pin = u.doc.pin /\ d.reasons = u.doc.reasons \cup found
    <3>1. u.computed.pin = u.doc.pin /\ u.computed.reasons = u.doc.reasons
      BY <1>1, <2>1 DEF NightSound
    <3>2. d = Add(u.computed, found) /\ found \in SUBSET Reasons
      BY <2>2, <2>3
    <3> QED
      BY <1>1, <3>1, <3>2, Adding
  <2>5. ASSUME d.reasons = {}, NEW k \in StaleKeys[n]
        PROVE  Drained(k)
    <3>1. /\ Entries(n) = StaleKeys[n] /\ StaleKeys[n] = 1 .. Len(results)
          /\ \A i \in DOMAIN results : results[i] = "INVALIDATED"
      <4>1. Entries(n) = StaleKeys[n] /\ \A i \in DOMAIN results : results[i] = "INVALIDATED"
        BY <2>2, <2>4, <2>5
      <4>2. StaleKeys[n] = 1 .. Cardinality(StaleKeys[n])
        BY PinnedAssumption
      <4> QED
        BY <2>1, <4>1, <4>2
    <3>2. k \in DOMAIN results
      BY <2>1, <3>1
    <3> QED
      BY <1>1, <2>1, <3>1, <3>2 DEF NightSound
  <2>6. PICK w \in RunRow : work' = [work EXCEPT ![n] = w] /\ (Ended(u, w, d) \/ Rests(u, w))
    BY <1>1, <2>1, <2>3, <2>4, EndsRow
  <2>7. Ended(u, w, d) => NightSound(n, w)
    BY <1>1, <2>1, <2>4, <2>5 DEF Ended, NextStage, NightSound
  <2> QED
    BY <1>2, <2>6, <2>7
<1> QED
  BY <1>3, <1>4, <1>5

\* The report is stored.
LEMMA NightCompletes ==
  ASSUME PinnedTyped, RunsSound, QuietReportIsTrue, Grows, NEW n \in Nights, CompleteNightly(n)
  PROVE  RunsSound' /\ QuietReportIsTrue' /\ reports' = [x \in Nights |-> reports'[x]]
<1>1. PICK u : /\ u = work[n] /\ u \in RunRow /\ NightSound(n, u) /\ n \in Runs /\ n \notin Gates
               /\ u.doc \in Documents /\ u.stage = "N6"
  BY PinnedAssumption DEF RunsSound, Runs, RunRow, CompleteNightly, Begins
<1>2. RunsSound'
  <2>1. PICK w \in RunRow : work' = [work EXCEPT ![n] = w] /\ (Ended(u, w, u.doc) \/ Rests(u, w))
    <3>1. CASE Ends(n, u.doc)
      BY <1>1, <3>1, EndsRow
    <3>2. CASE Again(n)
      BY <1>1, <3>2, ComputingRow, NoDocumentTyped DEF Again, Proceeds, Rests
    <3> QED
      BY <1>1, <3>1, <3>2 DEF CompleteNightly
  <2>2. Ended(u, w, u.doc) => NightSound(n, w)
    BY <1>1 DEF Ended, NextStage, NightSound
  <2>3. NightSound(n, w)'
    BY <1>1, <2>1, <2>2, NightSoundStays, RestsStays
  <2> QED
    BY <1>1, <2>1, <2>3, OneRun
<1>3. QuietReportIsTrue'
  <2>1. CASE UNCHANGED reports
    BY <2>1, ShownStays
  <2>2. ASSUME reports' = [reports EXCEPT ![n] = u.doc]
        PROVE  QuietReportIsTrue'
    <3>1. reports'[n] = u.doc /\ \A x \in Nights \ {n} : reports'[x] = reports[x]
      BY <2>2 DEF PinnedTyped
    <3>2. u.doc.reasons = {} => GraphWasTrue(u.doc.pin) /\ \A k \in StaleKeys[n] : Drained(k)
      BY <1>1 DEF NightSound
    <3>3. ASSUME NEW x \in Nights, reports'[x] # NoDocument, reports'[x].reasons = {}
          PROVE  /\ \E m \in moments :
                      m.pointer = reports'[x].pin /\ m.rows = Rows[m.pointer.version] /\ m.rows \cap Sample = Clean
                 /\ \A k \in StaleKeys[x] : Drained(k)
      <4>1. CASE x = n
        BY <3>1, <3>2, <3>3, <4>1 DEF GraphWasTrue
      <4>2. CASE x # n
        BY <3>1, <3>3, <4>2 DEF QuietReportIsTrue, Drained
      <4> QED
        BY <4>1, <4>2
    <3>4. \A x \in Nights : \A k \in StaleKeys[x] : Drained(k) => Drained(k)'
      BY DEF CacheKeys, Grows
    <3> QED
      BY <3>3, <3>4 DEF QuietReportIsTrue, Grows, Drained
  <2> QED
    BY <1>1, <2>1, <2>2 DEF CompleteNightly
<1>4. reports' = [x \in Nights |-> reports'[x]]
  BY DEF CompleteNightly, PinnedTyped
<1> QED
  BY <1>2, <1>3, <1>4
\* What moves the environment, and a stage that stops, show nothing.
LEMMA OthersShowNothing ==
  ASSUME PinnedInv, RunsSound, Grows, NEW runs \in SUBSET Runs,
         \/ Environment
         \/ \E r \in runs : StageStops(r)
         \/ \E v \in GraphVersions, row \in Sample : Rewrite(v, row)
         \/ \E k \in DOMAIN cache : Refresh(k) \/ DrainedByAnother(k)
  PROVE  RunsSound' /\ promoting' \in GraphVersions \cup {None} /\ UNCHANGED <<checks, announced, reports>>
<1>1. CASE \/ Environment
           \/ \E v \in GraphVersions, row \in Sample : Rewrite(v, row)
           \/ \E k \in DOMAIN cache : Refresh(k) \/ DrainedByAnother(k)
  <2>1. /\ UNCHANGED <<work, checks, announced, reports>>
        /\ promoting' = promoting \/ promoting' \in GraphVersions \cup {None}
    BY <1>1 DEF Environment, Publish, Promote, CompletePromotion, FailDeployment, Rewrite, Refresh,
                DrainedByAnother, Move, envVars, resultVars
  <2> QED
    BY <2>1, NoRun DEF PinnedInv, PinnedTyped
<1>2. ASSUME NEW r \in runs, StageStops(r)
      PROVE  RunsSound' /\ promoting' \in GraphVersions \cup {None} /\ UNCHANGED <<checks, announced, reports>>
  <2>1. r \in Runs /\ UNCHANGED <<promoting, checks, announced, reports>>
    BY <1>2 DEF StageStops, envVars, resultVars
  <2>2. PICK w \in RunRow : work' = [work EXCEPT ![r] = w] /\ Proceeds(work[r], w, "IDLE", NoDocument)
    BY <1>2, <2>1, ComputingRow, NoDocumentTyped DEF StageStops, Again
  <2>3. (r \in Gates => GateSound(r, w)') /\ (r \in Nights => NightSound(r, w)')
    BY <2>1, <2>2, RestsStays DEF Proceeds, Rests
  <2>4. RunsSound'
    BY <2>1, <2>2, <2>3, OneRun
  <2> QED
    BY <2>1, <2>4 DEF PinnedInv, PinnedTyped
<1> QED
  BY <1>1, <1>2

LEMMA PinnedMoves ==
  ASSUME PinnedInv, NEW runs \in SUBSET Runs, PinnedNext(runs)
  PROVE  PinnedInv'
<1>1. RunsSound /\ PinnedTyped /\ MomentsAgree /\ pointer \in Pins /\ PassWasTrue /\ QuietReportIsTrue
  BY DEF PinnedInv, RunsSound, PinnedTyped
<1>2. /\ Grows /\ MomentsAgree'
      /\ cache' \in [CacheKeys -> [determinant : Nat \ {0}, by : Nights \cup {None, "ANOTHER"}]]
  BY <1>1, PinnedGrows
<1> DEFINE Shows == /\ RunsSound' /\ PassWasTrue' /\ QuietReportIsTrue' /\ promoting' \in GraphVersions \cup {None}
                    /\ checks' = [h \in {HeadOf[g] : g \in Gates} |-> checks'[h]]
                    /\ reports' = [n \in Nights |-> reports'[n]]
                    /\ \A c \in announced' : c.gate \in Gates
<1>3. ASSUME RunsSound', UNCHANGED <<checks, announced, reports>>, promoting' \in GraphVersions \cup {None}
      PROVE  Shows
  BY <1>1, <1>2, <1>3, ShownStays DEF PinnedTyped
<1>4. promoting \in GraphVersions \cup {None}
  BY <1>1 DEF PinnedTyped
<1>5. ASSUME NEW g \in Gates, Gate(g) \/ PinHead(g)
      PROVE  Shows
  <2>1. CASE UpsertCheck(g)
    <3>1. /\ RunsSound' /\ PassWasTrue' /\ checks' = [h \in {HeadOf[x] : x \in Gates} |-> checks'[h]]
          /\ \A c \in announced' : c.gate \in Gates
      BY <1>1, <1>2, <2>1, GateStores
    <3>2. UNCHANGED <<reports, promoting>>
      BY <2>1 DEF UpsertCheck, envVars
    <3>3. QuietReportIsTrue' /\ reports' = [n \in Nights |-> reports'[n]]
      BY <1>1, <1>2, <3>2, ShownStays DEF PinnedTyped
    <3> QED
      BY <1>4, <3>1, <3>2, <3>3
  <2>2. CASE \/ PinHead(g) \/ ReadEnvironment(g) \/ ReadDeployment(g) \/ Evaluate(g) \/ ReadHead(g) \/ Freshness(g)
    <3>1. RunsSound'
      BY <1>1, <1>2, <2>2, GateEvaluates
    <3>2. UNCHANGED <<checks, announced, reports, promoting>>
      BY <2>2 DEF PinHead, ReadEnvironment, ReadDeployment, Evaluate, ReadHead, Freshness, envVars, resultVars
    <3> QED
      BY <1>3, <1>4, <3>1, <3>2
  <2> QED
    BY <1>5, <2>1, <2>2 DEF Gate
<1>6. ASSUME NEW n \in Nights, Nightly(n)
      PROVE  Shows
  <2>1. CASE PinGraph(n) \/ ReadRows(n) \/ VerifyProjection(n) \/ Audit(n)
    <3>1. RunsSound'
      BY <1>1, <1>2, <2>1, NightReads
    <3>2. UNCHANGED <<checks, announced, reports, promoting>>
      BY <2>1 DEF PinGraph, ReadRows, VerifyProjection, Audit, envVars, resultVars
    <3> QED
      BY <1>3, <1>4, <3>1, <3>2
  <2>2. CASE BeginDrain(n) \/ InvalidateEntry(n) \/ EndDrain(n)
    <3>1. RunsSound'
      BY <1>1, <1>2, <2>2, NightDrains DEF PinnedTyped
    <3>2. UNCHANGED <<checks, announced, reports, promoting>>
      BY <2>2 DEF BeginDrain, InvalidateEntry, EndDrain, envVars, resultVars
    <3> QED
      BY <1>3, <1>4, <3>1, <3>2
  <2>3. CASE CompleteNightly(n)
    <3>1. RunsSound' /\ QuietReportIsTrue' /\ reports' = [x \in Nights |-> reports'[x]]
      BY <1>1, <1>2, <2>3, NightCompletes
    <3>2. UNCHANGED <<checks, announced, promoting>>
      BY <2>3 DEF CompleteNightly, envVars
    <3>3. PassWasTrue'
      BY <1>1, <1>2, <3>2, ShownStays
    <3> QED
      BY <1>1, <3>1, <3>2, <3>3 DEF PinnedTyped
  <2>4. CASE Decide(n)
    <3>1. UNCHANGED <<work, checks, announced, reports, promoting>>
      BY <2>4 DEF Decide, envVars
    <3> QED
      BY <1>1, <1>2, <1>3, <1>4, <3>1, NoRun
  <2> QED
    BY <1>6, <2>1, <2>2, <2>3, <2>4 DEF Nightly
<1>7. Shows
  <2>1. CASE \/ Environment
             \/ \E r \in runs : StageStops(r)
             \/ \E v \in GraphVersions, row \in Sample : Rewrite(v, row)
             \/ \E k \in DOMAIN cache : Refresh(k) \/ DrainedByAnother(k)
    BY <1>1, <1>2, <1>3, <2>1, OthersShowNothing
  <2> HIDE DEF Shows
  <2>2. \/ (\E g \in Gates : Gate(g) \/ PinHead(g)) \/ (\E n \in Nights : Nightly(n))
        \/ Environment
        \/ \E r \in runs : StageStops(r)
        \/ \E v \in GraphVersions, row \in Sample : Rewrite(v, row)
        \/ \E k \in DOMAIN cache : Refresh(k) \/ DrainedByAnother(k)
    BY DEF PinnedNext
  <2> QED
    BY <1>5, <1>6, <2>1, <2>2
<1>8. pointer' \in Pins
  BY <1>2 DEF Grows
<1> QED
  BY <1>2, <1>7, <1>8 DEF PinnedInv, PinnedTyped, RunsSound

LEMMA PinnedStays ==
  ASSUME PinnedInv, UNCHANGED pinnedVars
  PROVE  PinnedInv'
<1>1. UNCHANGED <<pointer, deployment, promoting, rows, head, cache, work, checks, announced, reports, moments>>
  BY DEF pinnedVars, envVars, resultVars
<1>2. PinnedTyped' /\ MomentsAgree' /\ PassWasTrue' /\ QuietReportIsTrue'
  BY <1>1 DEF PinnedInv, PinnedTyped, MomentsAgree, Moment, InSync, PassWasTrue, QuietReportIsTrue
<1>3. Grows /\ RunsSound
  BY <1>1 DEF PinnedInv, PinnedTyped, RunsSound, Grows, Drained, Pins
<1>4. RunsSound'
  BY <1>1, <1>3, NoRun
<1> QED
  BY <1>2, <1>4 DEF PinnedInv, RunsSound

\* A check that was announced is not stored again.
LEMMA ChecksStayReplaced ==
  ASSUME PinnedInv, NEW runs \in SUBSET Runs, PinnedNext(runs), NEW c \in announced, checks[HeadOf[c.gate]] # c
  PROVE  checks'[HeadOf[c.gate]] # c
<1>1. CASE UNCHANGED checks
  BY <1>1
<1>2. ASSUME NEW g \in Gates, UpsertCheck(g), ~UNCHANGED checks
      PROVE  checks'[HeadOf[c.gate]] # c
  <2>1. /\ CheckOf(g) \notin announced
        /\ checks' = [checks EXCEPT ![HeadOf[g]] = CheckOf(g)]
    BY <1>2 DEF UpsertCheck, Unannounced
  <2>2. checks = [h \in {HeadOf[x] : x \in Gates} |-> checks[h]] /\ HeadOf[c.gate] \in {HeadOf[x] : x \in Gates}
    BY DEF PinnedInv, PinnedTyped
  <2>3. checks'[HeadOf[c.gate]] \in {checks[HeadOf[c.gate]], CheckOf(g)}
    BY <2>1, <2>2
  <2> QED
    BY <2>1, <2>3
<1>3. ASSUME NEW g \in Gates, Gate(g) \/ PinHead(g), ~UpsertCheck(g)
      PROVE  UNCHANGED checks
  BY <1>3 DEF Gate, PinHead, ReadEnvironment, ReadDeployment, Evaluate, ReadHead, Freshness, resultVars
<1>4. ASSUME NEW n \in Nights, Nightly(n)
      PROVE  UNCHANGED checks
  BY <1>4 DEF Nightly, PinGraph, ReadRows, VerifyProjection, Audit, CompleteNightly, Decide, BeginDrain,
              InvalidateEntry, EndDrain, resultVars
<1>5. ASSUME \/ Environment
             \/ \E r \in runs : StageStops(r)
             \/ \E v \in GraphVersions, row \in Sample : Rewrite(v, row)
             \/ \E k \in DOMAIN cache : Refresh(k) \/ DrainedByAnother(k)
      PROVE  UNCHANGED checks
  BY <1>5 DEF Environment, Publish, Promote, CompletePromotion, FailDeployment, Rewrite, Refresh, StageStops,
              DrainedByAnother, Move, resultVars
<1>6. \/ (\E g \in Gates : Gate(g) \/ PinHead(g)) \/ (\E n \in Nights : Nightly(n))
      \/ Environment
      \/ \E r \in runs : StageStops(r)
      \/ \E v \in GraphVersions, row \in Sample : Rewrite(v, row)
      \/ \E k \in DOMAIN cache : Refresh(k) \/ DrainedByAnother(k)
  BY DEF PinnedNext
<1> QED
  BY <1>1, <1>2, <1>3, <1>4, <1>5, <1>6
-----------------------------------------------------------------------------
(* The collections and deployments of the cell.                            *)

Jobs == ({"COLLECTION"} \X Commands) \cup ({"DEPLOYMENT"} \X Submitted)
AnyEdges == (UNION {EdgesOf(r, ScopeOf(r)) : r \in Submitted}) \cup {Nothing}
JobRow ==
  [command : Commands \cup {Nothing}, at : {"IDLE", "PLAN", "PIN", "PROPOSE", "TERMINAL", "HEAD"},
   kind : {"NONE", "BASELINE", "INCREMENTAL"}, base : Nat, scope : SUBSET Lineage]
ProposalRow ==
  [state : {"NONE", "IN_REVIEW", "APPROVED", "REJECTED", "PUBLISHED", "STALE"}, base : Nat, edges : SUBSET AnyEdges]

RunnerTyped ==
  /\ key \in [Submitted -> Nat]
  /\ queue \in Seq(Jobs)
  /\ worker \in JobRow
  /\ reviews \in [Commands -> ProposalRow]
  /\ active \in [version : Nat, of : Submitted \cup {Nothing}, edges : SUBSET AnyEdges]
  /\ packages \in [Submitted -> SUBSET AnyEdges]

\* Whatever its scope was, what is proposed, published or about to be deployed for a
\* revision has all its edges: an analysis is of the whole scope or proposes nothing.
Whole(r, edges) == EdgesOf(r, ScopeOf(r)) \subseteq edges
Scoped(job) == job.command \in Commands /\ job.scope \in {{}, ScopeOf(job.command[1])}

RunnerInv ==
  /\ RunnerTyped
  /\ worker.at # "IDLE" => Scoped(worker)
  /\ \A i \in DOMAIN queue : queue[i][1] = "DEPLOYMENT" => Whole(queue[i][2], packages[queue[i][2]])
  /\ \A r \in Submitted : packages[r] # NoPackage => Whole(r, packages[r])
  /\ \A c \in Commands : reviews[c].state # "NONE" => Whole(c[1], reviews[c].edges)
  /\ GraphHasItsRevision

LEMMA CommandOf == \A c \in Commands : c[1] \in Submitted
BY DEF Commands

LEMMA NoJobTyped == NoJob \in JobRow /\ NoJob.at = "IDLE"
BY DEF NoJob, JobRow

LEMMA ScopesTyped ==
  ASSUME NEW r, NEW h
  PROVE  ScopeOf(r) \in SUBSET Lineage /\ Closure(r, h) \in {{}, ScopeOf(r)}
<1>1. ScopeOf(r) \in SUBSET Lineage
  BY DEF ScopeOf
<1>2. PICK same \in BOOLEAN : same <=> Differing(r, h) \cap ScopeOf(r) = {}
  OBVIOUS
<1>3. Closure(r, h) = IF same THEN {} ELSE ScopeOf(r)
  BY <1>2 DEF Closure
<1> QED
  BY <1>1, <1>3

LEMMA EdgesTyped == \A r \in Submitted : EdgesOf(r, ScopeOf(r)) \in SUBSET AnyEdges
BY DEF AnyEdges

LEMMA RunnerStarts == RunnerInit => RunnerInv
<1> SUFFICES ASSUME RunnerInit
             PROVE  RunnerInv
  OBVIOUS
<1>1. queue \in Seq(Jobs) /\ DOMAIN queue = {}
  BY DEF RunnerInit
<1>2. reviews \in [Commands -> ProposalRow] /\ \A c \in Commands : reviews[c].state = "NONE"
  BY DEF RunnerInit, NoProposal, ProposalRow
<1>3. /\ active \in [version : Nat, of : Submitted \cup {Nothing}, edges : SUBSET AnyEdges]
      /\ active.of = Nothing
  BY DEF RunnerInit
<1>4. packages \in [Submitted -> SUBSET AnyEdges] /\ \A r \in Submitted : packages[r] = NoPackage
  <2>1. Nothing \in AnyEdges
    BY DEF AnyEdges
  <2>2. NoPackage \in SUBSET AnyEdges
    BY <2>1 DEF NoPackage
  <2> QED
    BY <2>2 DEF RunnerInit
<1>6. key \in [Submitted -> Nat]
  BY DEF RunnerInit
<1>5. worker \in JobRow /\ worker.at = "IDLE"
  BY NoJobTyped DEF RunnerInit
<1> QED
  BY <1>1, <1>2, <1>3, <1>4, <1>5, <1>6 DEF RunnerInv, RunnerTyped, GraphHasItsRevision

LEMMA RunnerStays ==
  ASSUME RunnerInv, UNCHANGED <<key, queue, worker, reviews, active, packages>>
  PROVE  RunnerInv'
BY DEF RunnerInv, RunnerTyped, GraphHasItsRevision, Scoped

\* The jobs in memory.
LEMMA JobsMove ==
  ASSUME RunnerInv,
         \/ \E r \in Submitted : SubmitCollection(r) \/ SubmitDeployment(r)
         \/ TakeCollection \/ RunDeployment \/ Restart
  PROVE  RunnerInv'
<1>1. /\ RunnerTyped /\ queue \in Seq(Jobs) /\ UNCHANGED <<reviews, packages>>
      /\ key' \in [Submitted -> Nat]
  <2>1. \/ UNCHANGED key
        \/ \E r \in Submitted : key' = [key EXCEPT ![r] = key[r] + 1]
    BY DEF SubmitCollection, SubmitDeployment, TakeCollection, RunDeployment, Restart
  <2>2. UNCHANGED <<reviews, packages>>
    BY DEF SubmitCollection, SubmitDeployment, TakeCollection, RunDeployment, Restart
  <2>3. RunnerTyped /\ queue \in Seq(Jobs) /\ key \in [Submitted -> Nat]
    BY DEF RunnerInv, RunnerTyped
  <2>4. key' \in [Submitted -> Nat]
    BY <2>1, <2>3
  <2> QED
    BY <2>2, <2>3, <2>4
<1>2. ASSUME NEW job \in Jobs, queue' = Append(queue, job), UNCHANGED <<worker, active>>,
             job[1] = "DEPLOYMENT" => Whole(job[2], packages[job[2]])
      PROVE  RunnerInv'
  <2>1. /\ queue' \in Seq(Jobs) /\ Len(queue') = Len(queue) + 1 /\ queue'[Len(queue) + 1] = job
        /\ \A i \in 1 .. Len(queue) : queue'[i] = queue[i]
    BY <1>1, <1>2, AppendProperties
  <2>2. DOMAIN queue = 1 .. Len(queue) /\ DOMAIN queue' = 1 .. Len(queue') /\ Len(queue) \in Nat
    BY <1>1, <2>1, LenProperties
  <2>3. \A i \in DOMAIN queue' : queue'[i][1] = "DEPLOYMENT" => Whole(queue'[i][2], packages[queue'[i][2]])
    <3>1. \A i \in DOMAIN queue' : i \in DOMAIN queue \/ i = Len(queue) + 1
      BY <2>1, <2>2
    <3> QED
      BY <1>2, <2>1, <2>2, <3>1 DEF RunnerInv
  <2> QED
    BY <1>1, <1>2, <2>1, <2>3 DEF RunnerInv, RunnerTyped, GraphHasItsRevision, Scoped
<1>3. ASSUME queue # << >>
      PROVE  /\ Tail(queue) \in Seq(Jobs) /\ Head(queue) \in Jobs
             /\ \A i \in DOMAIN Tail(queue) : i + 1 \in DOMAIN queue /\ Tail(queue)[i] = queue[i + 1]
             /\ 1 \in DOMAIN queue /\ Head(queue) = queue[1]
  <2>1. /\ Head(queue) \in Jobs /\ Tail(queue) \in Seq(Jobs) /\ Len(Tail(queue)) = Len(queue) - 1
        /\ \A i \in 1 .. Len(Tail(queue)) : Tail(queue)[i] = queue[i + 1]
    BY <1>1, <1>3, HeadTailProperties
  <2>2. /\ DOMAIN queue = 1 .. Len(queue) /\ DOMAIN Tail(queue) = 1 .. Len(Tail(queue))
        /\ Len(queue) \in Nat /\ Len(queue) # 0
    BY <1>1, <1>3, <2>1, LenProperties, EmptySeq
  <2>3. Head(queue) = queue[1]
    BY <1>1, <1>3
  <2> QED
    BY <2>1, <2>2, <2>3
<1>4. ASSUME NEW r \in Submitted, SubmitCollection(r)
      PROVE  RunnerInv'
  <2>1. PICK job : /\ job = <<"COLLECTION", <<r, key[r] + 1>>>> /\ queue' = Append(queue, job)
                   /\ key[r] + 1 \in 1 .. MaxAttempts
    <3>1. key[r] \in Nat /\ key[r] + 1 =< MaxAttempts /\ MaxAttempts \in Nat
      BY <1>1, <1>4, RunnerAssumption DEF RunnerTyped, SubmitCollection
    <3> QED
      BY <1>4, <3>1 DEF SubmitCollection
  <2>2. job \in Jobs /\ job[1] = "COLLECTION"
    BY <2>1 DEF Jobs, Commands
  <2> QED
    BY <1>2, <1>4, <2>1, <2>2 DEF SubmitCollection
<1>5. ASSUME NEW r \in Submitted, SubmitDeployment(r)
      PROVE  RunnerInv'
  <2>1. PICK job : job = <<"DEPLOYMENT", r>> /\ queue' = Append(queue, job)
    BY <1>5 DEF SubmitDeployment
  <2>2. job \in Jobs /\ job[2] = r
    BY <2>1 DEF Jobs
  <2>3. Whole(r, packages[r])
    BY <1>5 DEF SubmitDeployment, RunnerInv
  <2> QED
    BY <1>2, <1>5, <2>1, <2>2, <2>3 DEF SubmitDeployment
<1>6. CASE TakeCollection
  <2>1. /\ queue # << >> /\ Head(queue)[1] = "COLLECTION" /\ queue' = Tail(queue) /\ UNCHANGED active
        /\ worker' = [NoJob EXCEPT !.command = Head(queue)[2], !.at = "PLAN"]
    BY <1>6 DEF TakeCollection
  <2>2. Head(queue)[2] \in Commands
    BY <1>3, <2>1 DEF Jobs
  <2>3. worker' \in JobRow /\ Scoped(worker')
    BY <2>1, <2>2 DEF JobRow, NoJob, Scoped
  <2>4. queue' \in Seq(Jobs) /\ \A i \in DOMAIN queue' : i + 1 \in DOMAIN queue /\ queue'[i] = queue[i + 1]
    BY <1>3, <2>1
  <2>5. \A i \in DOMAIN queue' : queue'[i][1] = "DEPLOYMENT" => Whole(queue'[i][2], packages[queue'[i][2]])
    BY <2>4 DEF RunnerInv
  <2> QED
    BY <1>1, <2>1, <2>3, <2>4, <2>5 DEF RunnerInv, RunnerTyped, GraphHasItsRevision, Scoped
<1>7. CASE RunDeployment
  <2>1. PICK r : r = Head(queue)[2]
    OBVIOUS
  <2>2. /\ queue # << >> /\ Head(queue)[1] = "DEPLOYMENT" /\ queue' = Tail(queue) /\ UNCHANGED worker
        /\ active' = active \/ active' = [version |-> active.version + 1, of |-> r, edges |-> packages[r]]
    BY <1>7, <2>1 DEF RunDeployment
  <2>3. r \in Submitted /\ Whole(r, packages[r])
    BY <1>3, <2>1, <2>2 DEF Jobs, RunnerInv
  <2>4. queue' \in Seq(Jobs) /\ \A i \in DOMAIN queue' : i + 1 \in DOMAIN queue /\ queue'[i] = queue[i + 1]
    BY <1>3, <2>2
  <2>5. \A i \in DOMAIN queue' : queue'[i][1] = "DEPLOYMENT" => Whole(queue'[i][2], packages[queue'[i][2]])
    BY <2>4 DEF RunnerInv
  <2>6. active' \in [version : Nat, of : Submitted \cup {Nothing}, edges : SUBSET AnyEdges]
    BY <1>1, <2>2, <2>3 DEF RunnerTyped
  <2>7. GraphHasItsRevision'
    <3>1. CASE active' = active
      BY <3>1 DEF RunnerInv, GraphHasItsRevision
    <3>2. CASE active' = [version |-> active.version + 1, of |-> r, edges |-> packages[r]]
      BY <2>3, <3>2 DEF GraphHasItsRevision, Whole
    <3> QED
      BY <2>2, <3>1, <3>2
  <2> QED
    BY <1>1, <2>2, <2>4, <2>5, <2>6, <2>7 DEF RunnerInv, RunnerTyped, Scoped
<1>8. CASE Restart
  <2>1. queue' = << >> /\ worker' = NoJob /\ UNCHANGED active
    BY <1>8 DEF Restart
  <2>2. queue' \in Seq(Jobs) /\ DOMAIN queue' = {}
    BY <2>1
  <2> QED
    BY <1>1, <2>1, <2>2, NoJobTyped DEF RunnerInv, RunnerTyped, GraphHasItsRevision
<1> QED
  BY <1>4, <1>5, <1>6, <1>7, <1>8

\* The worker.
LEMMA WorkerMoves ==
  ASSUME RunnerInv, Plan \/ Pin \/ Propose \/ Complete \/ PutHead \/ Fail
  PROVE  RunnerInv'
<1>1. RunnerTyped /\ worker \in JobRow /\ UNCHANGED <<key, queue, active, packages>>
  BY DEF RunnerInv, RunnerTyped, Plan, Pin, Propose, Complete, PutHead, Fail, OnlyWorker
<1>2. worker' \in JobRow /\ (worker'.at # "IDLE" => Scoped(worker'))
  <2>1. CASE worker' = NoJob
    BY <2>1, NoJobTyped
  <2>2. ASSUME NEW kind \in {"BASELINE", "INCREMENTAL"}, NEW scope \in {{}, ScopeOf(Running)},
               worker.at = "PLAN",
               worker' = [worker EXCEPT !.at = "PIN", !.kind = kind, !.scope = scope]
        PROVE  worker' \in JobRow /\ Scoped(worker')
    <3>1. Scoped(worker) /\ Running \in Submitted
      BY <2>2, CommandOf DEF RunnerInv, Scoped, Running
    <3>2. scope \in SUBSET Lineage
      BY <3>1, ScopesTyped
    <3>3. worker' \in JobRow /\ worker'.command = worker.command /\ worker'.scope = scope
      BY <1>1, <2>2, <3>2 DEF JobRow
    <3> QED
      BY <3>1, <3>3 DEF Scoped, Running
  <2>3. CASE Plan
    <3>1. Closure(Running, repository) \in {{}, ScopeOf(Running)}
      BY ScopesTyped
    <3>2. \/ worker' = NoJob
          \/ \E kind \in {"BASELINE", "INCREMENTAL"}, scope \in {{}, ScopeOf(Running)} :
               worker' = [worker EXCEPT !.at = "PIN", !.kind = kind, !.scope = scope]
      BY <2>3, <3>1 DEF Plan, Settles
    <3> QED
      BY <2>1, <2>2, <2>3, <3>2 DEF Plan
  <2>4. CASE Pin
    <3>1. worker' = [worker EXCEPT !.at = "PROPOSE", !.base = active.version] /\ worker.at = "PIN"
      BY <2>4 DEF Pin
    <3>2. active.version \in Nat /\ Scoped(worker)
      BY <1>1, <3>1 DEF RunnerTyped, RunnerInv
    <3>3. worker' \in JobRow /\ worker'.command = worker.command /\ worker'.scope = worker.scope
      BY <1>1, <3>1, <3>2 DEF JobRow
    <3> QED
      BY <3>2, <3>3 DEF Scoped
  <2>5. CASE Propose \/ Complete
    <3>1. worker' = NoJob \/ \E at \in {"TERMINAL", "HEAD"} : worker' = [worker EXCEPT !.at = at]
      BY <2>5 DEF Propose, Complete, Settles, Goes
    <3>2. worker.at # "IDLE" /\ Scoped(worker)
      BY <2>5 DEF Propose, Complete, RunnerInv
    <3>3. ASSUME NEW at \in {"TERMINAL", "HEAD"}, worker' = [worker EXCEPT !.at = at]
          PROVE  worker' \in JobRow /\ worker'.command = worker.command /\ worker'.scope = worker.scope
      BY <1>1, <3>3 DEF JobRow
    <3> QED
      BY <2>1, <3>1, <3>2, <3>3 DEF Scoped
  <2>6. CASE PutHead \/ Fail
    BY <2>1, <2>6 DEF PutHead, Fail, Settles
  <2> QED
    BY <2>3, <2>4, <2>5, <2>6
<1>3. /\ reviews' \in [Commands -> ProposalRow]
      /\ \A c \in Commands : reviews'[c].state # "NONE" => Whole(c[1], reviews'[c].edges)
  <2>1. CASE UNCHANGED reviews
    BY <1>1, <2>1 DEF RunnerInv, RunnerTyped
  <2>2. ASSUME Propose, ~UNCHANGED reviews
        PROVE  /\ reviews' \in [Commands -> ProposalRow]
               /\ \A c \in Commands : reviews'[c].state # "NONE" => Whole(c[1], reviews'[c].edges)
    <3>1. PICK d, edges, row :
            /\ d = worker.command /\ edges = EdgesOf(d[1], worker.scope)
            /\ row = [state |-> "IN_REVIEW", base |-> worker.base, edges |-> edges]
      OBVIOUS
    <3>2. edges # {} /\ reviews' = [reviews EXCEPT ![d] = row] /\ worker.at = "PROPOSE"
      BY <2>2, <3>1 DEF Propose, Running
    <3>3. d \in Commands /\ d[1] \in Submitted
      BY <3>1, <3>2, CommandOf DEF RunnerInv, Scoped
    <3>4. worker.scope = ScopeOf(d[1])
      <4>1. worker.scope \in {{}, ScopeOf(d[1])}
        BY <3>1, <3>2 DEF RunnerInv, Scoped
      <4>2. EdgesOf(d[1], {}) = {}
        BY DEF EdgesOf
      <4> QED
        BY <3>1, <3>2, <4>1, <4>2
    <3>5. edges \in SUBSET AnyEdges /\ Whole(d[1], edges)
      BY <3>1, <3>3, <3>4, EdgesTyped DEF Whole
    <3>6. row \in ProposalRow /\ row.edges = edges
      BY <1>1, <3>1, <3>5 DEF ProposalRow, JobRow
    <3> QED
      BY <1>1, <3>2, <3>3, <3>5, <3>6 DEF RunnerInv, RunnerTyped
  <2> QED
    BY <2>1, <2>2 DEF Plan, Pin, Complete, PutHead, Fail, OnlyWorker
<1> QED
  BY <1>1, <1>2, <1>3 DEF RunnerInv, RunnerTyped, GraphHasItsRevision

\* Reviews, and what the drain publishes.
LEMMA ReviewsMove ==
  ASSUME RunnerInv,
         \/ \E c \in Commands : Review(c, "APPROVED") \/ Review(c, "REJECTED") \/ PublishApproved(c) \/ MarkStale(c)
         \/ PublishForeign
  PROVE  RunnerInv'
<1>1. RunnerTyped /\ UNCHANGED <<key, queue, worker>>
  BY DEF RunnerInv, Review, PublishApproved, MarkStale, PublishForeign, OnlyReviews
<1>2. ASSUME NEW c \in Commands, NEW state \in {"APPROVED", "REJECTED", "PUBLISHED", "STALE"},
             reviews' = [reviews EXCEPT ![c].state = state], reviews[c].state # "NONE"
      PROVE  /\ reviews' \in [Commands -> ProposalRow]
             /\ \A d \in Commands : reviews'[d].state # "NONE" => Whole(d[1], reviews'[d].edges)
  <2>1. PICK row, new : row = reviews[c] /\ row \in ProposalRow /\ new = [row EXCEPT !.state = state]
    BY <1>1 DEF RunnerTyped
  <2>2. new \in ProposalRow /\ new.edges = row.edges
    BY <2>1 DEF ProposalRow
  <2>3. reviews' = [reviews EXCEPT ![c] = new]
    BY <1>1, <1>2, <2>1 DEF RunnerTyped
  <2>4. Whole(c[1], new.edges)
    BY <1>2, <2>1, <2>2 DEF RunnerInv
  <2> QED
    BY <1>1, <2>2, <2>3, <2>4 DEF RunnerInv, RunnerTyped
<1>3. ASSUME NEW c \in Commands, Review(c, "APPROVED") \/ Review(c, "REJECTED") \/ MarkStale(c)
      PROVE  RunnerInv'
  <2>1. UNCHANGED <<active, packages>>
    BY <1>3 DEF Review, MarkStale
  <2>2. /\ reviews' \in [Commands -> ProposalRow]
        /\ \A d \in Commands : reviews'[d].state # "NONE" => Whole(d[1], reviews'[d].edges)
    BY <1>2, <1>3 DEF Review, MarkStale
  <2> QED
    BY <1>1, <2>1, <2>2 DEF RunnerInv, RunnerTyped, GraphHasItsRevision
<1>4. ASSUME NEW c \in Commands, PublishApproved(c)
      PROVE  RunnerInv'
  <2>1. PICK r, edges :
          /\ r = c[1] /\ edges = active.edges \cup reviews[c].edges
          /\ active' = [version |-> active.version + 1, of |-> r, edges |-> edges]
          /\ packages' = [packages EXCEPT ![r] = edges]
          /\ reviews[c].state = "APPROVED"
          /\ reviews' = [reviews EXCEPT ![c].state = "PUBLISHED"]
    BY <1>4 DEF PublishApproved, Overlay
  <2>2. /\ r \in Submitted /\ Whole(r, edges) /\ edges \in SUBSET AnyEdges /\ active.version \in Nat
    BY <1>1, <2>1, CommandOf DEF RunnerInv, RunnerTyped, Whole, ProposalRow
  <2>3. /\ reviews' \in [Commands -> ProposalRow]
        /\ \A d \in Commands : reviews'[d].state # "NONE" => Whole(d[1], reviews'[d].edges)
    BY <1>2, <2>1
  <2>4. /\ packages' \in [Submitted -> SUBSET AnyEdges] /\ packages'[r] = edges
        /\ \A x \in Submitted \ {r} : packages'[x] = packages[x]
    BY <1>1, <2>1, <2>2 DEF RunnerTyped
  <2>5. active' \in [version : Nat, of : Submitted \cup {Nothing}, edges : SUBSET AnyEdges] /\ GraphHasItsRevision'
    BY <2>1, <2>2 DEF GraphHasItsRevision, Whole
  <2>6. \A x \in Submitted : Whole(x, packages[x]) => Whole(x, packages'[x])
    BY <2>2, <2>4
  <2>7. ASSUME NEW i \in DOMAIN queue, queue[i][1] = "DEPLOYMENT"
        PROVE  Whole(queue[i][2], packages'[queue[i][2]])
    <3>1. queue[i] \in Jobs
      BY <1>1, <2>7, ElementOfSeq, LenProperties DEF RunnerTyped
    <3>2. queue[i][2] \in Submitted
      BY <2>7, <3>1 DEF Jobs
    <3> QED
      BY <2>6, <2>7, <3>2 DEF RunnerInv
  <2>8. \A x \in Submitted : packages'[x] # NoPackage => Whole(x, packages'[x])
    BY <2>2, <2>4 DEF RunnerInv
  <2> QED
    BY <1>1, <2>3, <2>4, <2>5, <2>7, <2>8 DEF RunnerInv, RunnerTyped
<1>5. CASE PublishForeign
  <2>1. active' = [active EXCEPT !.version = @ + 1] /\ UNCHANGED <<reviews, packages>>
    BY <1>5 DEF PublishForeign
  <2>2. /\ active' \in [version : Nat, of : Submitted \cup {Nothing}, edges : SUBSET AnyEdges]
        /\ active'.of = active.of /\ active'.edges = active.edges
    <3>1. active \in [version : Nat, of : Submitted \cup {Nothing}, edges : SUBSET AnyEdges]
      BY <1>1 DEF RunnerTyped
    <3> QED
      BY <2>1, <3>1
  <2> QED
    BY <1>1, <2>1, <2>2 DEF RunnerInv, RunnerTyped, GraphHasItsRevision
<1> QED
  BY <1>3, <1>4, <1>5

LEMMA RunnerMoves ==
  ASSUME RunnerInv, RunnerNext
  PROVE  RunnerInv'
<1>1. CASE OutboxDrained
  BY <1>1, RunnerStays DEF OutboxDrained
<1> QED
  BY <1>1, JobsMove, WorkerMoves, ReviewsMove DEF RunnerNext

-----------------------------------------------------------------------------
(* The versions of one edge.                                               *)

Ids == DOMAIN Evidence
InOrder(p) == p \in Seq(Ids) /\ \A i, j \in 1 .. Len(p) : i < j => p[i] < p[j]

\* The newest version is what its provenance gives, which is in the order of the ids.
Newest(p) == InOrder(p) /\ Mechanisms(p) # {} /\ Last(edgeVersions) = Derivation(p)
EdgeInv ==
  /\ edgeVersions \in Seq({Derivation(p) : p \in Seq(Ids)})
  /\ edgeVersions # <<>> => \E p : Newest(p)

\* A set of numbers has a least one: the intervals below its members are finite sets, and
\* strict inclusion among those is well founded.
LEMMA LeastNumber ==
  ASSUME NEW T \in SUBSET Nat, T # {}
  PROVE  \E v \in T : \A u \in T : v <= u
<1> DEFINE below == {0 .. v : v \in T}
           R == StrictSubsetOrdering(Nat)
<1>1. below \subseteq FiniteSubsetsOf(Nat)
  <2>1. ASSUME NEW v \in T
        PROVE  0 .. v \in FiniteSubsetsOf(Nat)
    BY FS_Interval DEF FiniteSubsetsOf
  <2> QED
    BY <2>1
<1>2. below # {}
  OBVIOUS
<1>3. PICK bottom \in below : \A y \in below : <<y, bottom>> \notin R
  <2> HIDE DEF below, R
  <2>1. IsWellFoundedOn(R, FiniteSubsetsOf(Nat))
    BY FS_StrictSubsetOrderingWellFounded DEF R
  <2> QED
    BY <1>1, <1>2, <2>1, WFMin
<1>4. PICK v \in T : bottom = 0 .. v
  OBVIOUS
<1>5. ASSUME NEW u \in T, u < v
      PROVE  FALSE
  <2>1. (0 .. u) \subseteq (0 .. v) /\ v \in 0 .. v /\ v \notin 0 .. u
    BY <1>5
  <2>2. <<0 .. u, bottom>> \in R
    BY <1>1, <1>4, <2>1 DEF StrictSubsetOrdering
  <2> QED
    BY <1>3, <2>2
<1> QED
  BY <1>5

\* A sequence in order has a place for a new id behind all the smaller ones.
LEMMA PlaceFor ==
  ASSUME NEW p, InOrder(p), NEW a \in Ids
  PROVE  \E n \in 0 .. Len(p) : \A i \in DOMAIN p : p[i] < a <=> i <= n
<1>1. PICK N \in Nat : N = Len(p) /\ DOMAIN p = 1 .. N /\ a \in Nat /\ \A i \in 1 .. N : p[i] \in Nat
  BY EvidenceAssumption DEF InOrder, Ids
<1> DEFINE T == {m \in 0 .. N : \A i \in 1 .. N : i > m => ~(p[i] < a)}
<1>2. N \in T /\ T \in SUBSET Nat
  OBVIOUS
<1>3. PICK m \in T : \A k \in T : m <= k
  <2> HIDE DEF T
  <2> QED
    BY <1>2, LeastNumber
<1>4. m = 0 \/ p[m] < a
  <2> SUFFICES ASSUME m # 0, ~(p[m] < a)
               PROVE  FALSE
    OBVIOUS
  <2>1. m - 1 \in 0 .. N /\ \A i \in 1 .. N : i > m - 1 => i = m \/ i > m
    OBVIOUS
  <2>2. m - 1 \in T
    BY <2>1
  <2> QED
    BY <1>3, <2>2
<1>5. ASSUME NEW i \in 1 .. N
      PROVE  p[i] < a <=> i <= m
  <2>1. i <= m => p[i] < a
    <3> SUFFICES ASSUME i <= m
                 PROVE  p[i] < a
      OBVIOUS
    <3>1. m \in 1 .. N /\ p[m] < a
      BY <1>4
    <3>2. i = m \/ p[i] < p[m]
      BY <1>1, <3>1 DEF InOrder
    <3>3. p[i] \in Nat /\ p[m] \in Nat /\ a \in Nat
      BY <1>1, <3>1
    <3> QED
      BY <3>1, <3>2, <3>3
  <2> QED
    BY <2>1
<1> QED
  BY <1>1, <1>5

\* Sorting in a new id keeps the order and adds just this one.
LEMMA SortedIn ==
  ASSUME NEW p, InOrder(p), NEW a \in Ids, a \notin Range(p), NEW q, q = InOrderOfIds(p, a)
  PROVE  InOrder(q) /\ Range(q) = Range(p) \cup {a}
<1>1. PICK N \in Nat : N = Len(p) /\ DOMAIN p = 1 .. N /\ a \in Nat /\ \A i \in 1 .. N : p[i] \in Nat
  BY EvidenceAssumption DEF InOrder, Ids
<1> DEFINE Place(n) == \A i \in DOMAIN p : p[i] < a <=> i <= n
           place == CHOOSE n \in 0 .. Len(p) : Place(n)
<1>2. PICK n \in 0 .. N : n = place /\ \A i \in 1 .. N : p[i] < a <=> i <= n
  <2>1. \E n \in 0 .. Len(p) : Place(n)
    BY PlaceFor
  <2>2. place \in 0 .. Len(p) /\ Place(place)
    <3> HIDE DEF Place
    <3> QED
      BY <2>1
  <2> HIDE DEF place
  <2> QED
    BY <1>1, <2>2
<1>3. q = InsertAt(p, 1 + n, a)
  BY <1>2 DEF InOrderOfIds
<1> HIDE DEF place, Place
<1>4. /\ q \in Seq(Ids) /\ Len(q) = N + 1
      /\ \A i \in 1 .. N + 1 : q[i] = IF i <= n THEN p[i] ELSE IF i = 1 + n THEN a ELSE p[i - 1]
  <2>1. /\ \A i \in 1 .. n : p[i] \in Ids
        /\ \A i \in 1 + n .. N : p[i] \in Ids
        /\ n \in Int /\ 1 \in Int /\ 1 + n \in Int /\ N \in Int
    BY <1>1 DEF InOrder
  <2>2. PICK front, back, one, upper :
          front = SubSeq(p, 1, n) /\ back = SubSeq(p, 1 + n, N) /\ one = <<a>> /\ upper = front \o one
    OBVIOUS
  <2>3. front \in Seq(Ids) /\ Len(front) = n /\ \A i \in 1 .. n : front[i] = p[i]
    <3>1. /\ front \in Seq(Ids) /\ Len(front) = IF 1 <= n THEN n - 1 + 1 ELSE 0
          /\ \A i \in 1 .. n - 1 + 1 : front[i] = p[1 + i - 1]
      BY <2>1, <2>2, SubSeqProperties
    <3>2. \A i \in 1 .. n : 1 + i - 1 = i
      OBVIOUS
    <3> QED
      BY <3>1, <3>2
  <2>4. back \in Seq(Ids) /\ Len(back) = N - n /\ \A i \in 1 .. N - n : back[i] = p[n + i]
    <3>1. /\ back \in Seq(Ids) /\ Len(back) = IF 1 + n <= N THEN N - (1 + n) + 1 ELSE 0
          /\ \A i \in 1 .. N - (1 + n) + 1 : back[i] = p[(1 + n) + i - 1]
      BY <2>1, <2>2, SubSeqProperties
    <3>2. (\A i \in 1 .. N - n : (1 + n) + i - 1 = n + i) /\ N - (1 + n) + 1 = N - n
      OBVIOUS
    <3> QED
      BY <3>1, <3>2
  <2>5. /\ one \in Seq(Ids) /\ Len(one) = 1 /\ one[1] = a
        /\ upper \in Seq(Ids) /\ Len(upper) = n + 1
        /\ \A i \in 1 .. n + 1 : upper[i] = IF i <= n THEN front[i] ELSE one[i - n]
    <3>1. one \in Seq(Ids) /\ Len(one) = 1 /\ one[1] = a
      BY <2>2
    <3>2. /\ upper \in Seq(Ids) /\ Len(upper) = Len(front) + Len(one)
          /\ \A i \in 1 .. Len(front) + Len(one) : upper[i] = IF i <= Len(front) THEN front[i] ELSE one[i - Len(front)]
      BY <2>2, <2>3, <3>1, ConcatProperties
    <3> QED
      BY <2>3, <3>1, <3>2
  <2>6. /\ upper \o back \in Seq(Ids) /\ Len(upper \o back) = N + 1
        /\ \A i \in 1 .. N + 1 : (upper \o back)[i] = IF i <= n + 1 THEN upper[i] ELSE back[i - (n + 1)]
    <3>1. /\ upper \o back \in Seq(Ids) /\ Len(upper \o back) = Len(upper) + Len(back)
          /\ \A i \in 1 .. Len(upper) + Len(back) : (upper \o back)[i] = IF i <= Len(upper) THEN upper[i] ELSE back[i - Len(upper)]
      BY <2>4, <2>5, ConcatProperties
    <3>2. Len(upper) = n + 1 /\ Len(back) = N - n /\ (n + 1) + (N - n) = N + 1
      BY <2>4, <2>5
    <3> QED
      BY <3>1, <3>2
  <2>7. q = upper \o back
    <3>1. (1 + n) - 1 = n
      OBVIOUS
    <3> QED
      BY <1>1, <1>3, <2>2, <3>1 DEF InsertAt
  <2>8. ASSUME NEW i \in 1 .. N + 1
        PROVE  q[i] = IF i <= n THEN p[i] ELSE IF i = 1 + n THEN a ELSE p[i - 1]
    <3>1. CASE i <= n
      BY <2>3, <2>5, <2>6, <2>7, <3>1
    <3>2. CASE i = 1 + n
      <4>1. q[i] = one[i - n]
        BY <2>5, <2>6, <2>7, <3>2
      <4> QED
        BY <2>5, <3>2, <4>1
    <3>3. CASE i > 1 + n
      <4>1. q[i] = back[i - (n + 1)] /\ i - (n + 1) \in 1 .. N - n
        BY <2>6, <2>7, <3>3
      <4>2. n + (i - (n + 1)) = i - 1
        OBVIOUS
      <4> QED
        BY <2>4, <3>3, <4>1, <4>2
    <3> QED
      BY <3>1, <3>2, <3>3
  <2> QED
    BY <2>6, <2>7, <2>8
<1>5. \A i \in 1 .. N : p[i] # a
  BY <1>1 DEF Range
<1>6. ASSUME NEW i \in 1 .. N + 1, NEW j \in 1 .. N + 1, i < j
      PROVE  q[i] < q[j]
  <2>1. \A k, l \in 1 .. N : k < l => p[k] < p[l]
    BY <1>1 DEF InOrder
  <2>2. \A k \in 1 .. N : k > n => a < p[k]
    BY <1>1, <1>2, <1>5
  <2>3. CASE j <= n
    BY <1>4, <1>6, <2>1, <2>3
  <2>4. CASE j = 1 + n
    BY <1>2, <1>4, <1>6, <2>4
  <2>5. CASE j > 1 + n
    <3>1. q[j] = p[j - 1] /\ j - 1 \in 1 .. N /\ j - 1 > n
      BY <1>4, <2>5
    <3>2. CASE i <= n
      BY <1>4, <2>1, <3>1, <3>2
    <3>3. CASE i = 1 + n
      BY <1>4, <2>2, <3>1, <3>3
    <3>4. CASE i > 1 + n
      <4>1. q[i] = p[i - 1] /\ i - 1 \in 1 .. N /\ i - 1 < j - 1
        BY <1>4, <1>6, <3>4
      <4> QED
        BY <2>1, <3>1, <4>1
    <3> QED
      BY <3>2, <3>3, <3>4
  <2> QED
    BY <2>3, <2>4, <2>5
<1>7. Range(q) = Range(p) \cup {a}
  <2>1. DOMAIN q = 1 .. N + 1
    BY <1>4
  <2>2. ASSUME NEW i \in 1 .. N + 1
        PROVE  q[i] \in Range(p) \cup {a}
    <3>1. CASE i = 1 + n
      BY <1>4, <3>1
    <3>2. CASE i <= n
      <4>1. q[i] = p[i] /\ i \in 1 .. N
        BY <1>4, <3>2
      <4> QED
        BY <1>1, <4>1 DEF Range
    <3>3. CASE i > 1 + n
      <4>1. q[i] = p[i - 1] /\ i - 1 \in 1 .. N
        BY <1>4, <3>3
      <4> QED
        BY <1>1, <4>1 DEF Range
    <3> QED
      BY <3>1, <3>2, <3>3
  <2>3. ASSUME NEW i \in 1 .. N
        PROVE  p[i] \in Range(q)
    <3>1. CASE i <= n
      <4>1. i \in 1 .. N + 1 /\ q[i] = p[i]
        BY <1>4, <3>1
      <4> QED
        BY <2>1, <4>1 DEF Range
    <3>2. CASE i > n
      <4>1. i + 1 \in 1 .. N + 1 /\ (i + 1) - 1 = i
        OBVIOUS
      <4>2. q[i + 1] = p[i]
        BY <1>4, <3>2, <4>1
      <4> QED
        BY <2>1, <4>1, <4>2 DEF Range
    <3> QED
      BY <3>1, <3>2
  <2>4. a \in Range(q)
    <3>1. 1 + n \in 1 .. N + 1 /\ q[1 + n] = a
      BY <1>4
    <3> QED
      BY <2>1, <3>1 DEF Range
  <2> QED
    BY <1>1, <2>1, <2>2, <2>3, <2>4 DEF Range
<1> QED
  BY <1>4, <1>6, <1>7 DEF InOrder

\* The newest version is what the merged provenance gives.
LEMMA NewestVersion ==
  ASSUME EdgeInv, edgeVersions # <<>>
  PROVE  Newest(Merged)
<1>1. PICK p : Newest(p)
  BY DEF EdgeInv
<1>2. Last(edgeVersions).provenance = p
  BY <1>1 DEF Newest, Derivation
<1> QED
  BY <1>1, <1>2 DEF Merged

\* A merge adds one id to what was merged, in its place.
LEMMA Merging ==
  ASSUME EdgeInv, NEW a \in Ids, MergeAssertion(a)
  PROVE  /\ EdgeInv'
         /\ \E p, q : /\ p = Merged /\ InOrder(p) /\ InOrder(q) /\ Range(q) = Range(p) \cup {a}
                      /\ Last(edgeVersions') = Derivation(q) /\ Mechanisms(q) # {}
<1>1. PICK p, q : p = Merged /\ q = InOrderOfIds(p, a)
  OBVIOUS
<1>2. /\ a \notin Range(p) /\ Mechanisms(q) # {}
      /\ edgeVersions' = Append(edgeVersions, Derivation(q))
  BY <1>1 DEF MergeAssertion
<1>3. InOrder(p)
  <2>1. CASE edgeVersions = <<>>
    BY <1>1, <2>1 DEF Merged, InOrder
  <2>2. CASE edgeVersions # <<>>
    BY <1>1, <2>2, NewestVersion DEF Newest
  <2> QED
    BY <2>1, <2>2
<1>4. InOrder(q) /\ Range(q) = Range(p) \cup {a}
  BY <1>1, <1>2, <1>3, SortedIn
<1>5. PICK D, d : D = {Derivation(r) : r \in Seq(Ids)} /\ d = Derivation(q)
  OBVIOUS
<1>6. d \in D
  BY <1>4, <1>5 DEF InOrder
<1>7. edgeVersions \in Seq(D) /\ edgeVersions' = Append(edgeVersions, d)
  BY <1>2, <1>5 DEF EdgeInv
<1>8. edgeVersions' \in Seq(D) /\ edgeVersions' # <<>> /\ Last(edgeVersions') = d
  BY <1>6, <1>7 DEF Last
<1>9. Newest(q)'
  BY <1>2, <1>4, <1>5, <1>8 DEF Newest, InOrder, Mechanisms, Derivation, Band, Corroboration, Disagree, Candidates,
     Selected, ExactStatic, Transforming, Ids
<1>10. EdgeInv'
  BY <1>5, <1>8, <1>9 DEF EdgeInv, Ids
<1> QED
  BY <1>1, <1>2, <1>3, <1>4, <1>5, <1>8, <1>10

LEMMA EdgeStarts == EdgeInit => EdgeInv
  BY DEF EdgeInit, EdgeInv

LEMMA EdgeStays ==
  ASSUME EdgeInv, UNCHANGED edgeVersions
  PROVE  EdgeInv'
<1>1. PICK D : D = {Derivation(p) : p \in Seq(Ids)}
  OBVIOUS
<1>2. edgeVersions' \in Seq(D)
  BY <1>1 DEF EdgeInv
<1>3. ASSUME edgeVersions # <<>>
      PROVE  \E p : Newest(p)'
  <2>1. PICK p : Newest(p)
    BY <1>3 DEF EdgeInv
  <2>2. Newest(p)'
    BY <2>1 DEF Newest
  <2> QED
    BY <2>2
<1> QED
  BY <1>1, <1>2, <1>3 DEF EdgeInv

\* Of positions in a provenance in order, the least one holds the least of their ids.
LEMMA LeastFirst ==
  ASSUME NEW p, InOrder(p), NEW C \in SUBSET DOMAIN p, C # {}, NEW known, known = {p[i] : i \in C},
         NEW place, place = CHOOSE i \in C : \A j \in C : i <= j
  PROVE  p[place] = CHOOSE a \in known : \A b \in known : a <= b
<1>1. PICK N \in Nat : N = Len(p) /\ DOMAIN p = 1 .. N /\ \A i \in 1 .. N : p[i] \in Nat
  BY EvidenceAssumption DEF InOrder, Ids
<1>2. C \in SUBSET Nat
  BY <1>1
<1>3. PICK i \in C : \A j \in C : i <= j
  BY <1>2, LeastNumber
<1>4. i = CHOOSE k \in C : \A j \in C : k <= j
  <2>1. \A k \in C : (\A j \in C : k <= j) => k = i
    BY <1>2, <1>3
  <2> QED
    BY <1>3, <2>1
<1>5. ASSUME NEW j \in C
      PROVE  p[i] <= p[j]
  <2>1. i = j \/ p[i] < p[j]
    BY <1>1, <1>3 DEF InOrder
  <2>2. p[i] \in Nat /\ p[j] \in Nat
    BY <1>1, <1>3
  <2> QED
    BY <2>1, <2>2
<1>6. known \in SUBSET Nat /\ p[i] \in known /\ \A b \in known : p[i] <= b
  BY <1>1, <1>3, <1>5
<1>7. ASSUME NEW a \in known, \A b \in known : a <= b
      PROVE  a = p[i]
  <2>1. a <= p[i] /\ p[i] <= a /\ a \in Nat /\ p[i] \in Nat
    BY <1>6, <1>7
  <2> QED
    BY <2>1
<1> DEFINE least == CHOOSE a \in known : \A b \in known : a <= b
<1>8. p[i] = least
  <2>1. least \in known /\ \A b \in known : least <= b
    BY <1>6
  <2> HIDE DEF least
  <2> QED
    BY <1>7, <2>1
<1> QED
  BY <1>4, <1>8

LEMMA Forgotten == EdgeInv => OrderIsForgotten
<1> SUFFICES ASSUME EdgeInv, edgeVersions # <<>>
             PROVE  OrderIsForgotten
  BY DEF OrderIsForgotten
<1>1. PICK p : p = Merged /\ Newest(p)
  BY NewestVersion
<1>2. PICK known, exact, texts :
        /\ known = Range(p) /\ exact = {a \in known : ExactStatic(a)}
        /\ texts = IF exact # {} THEN exact ELSE {a \in known : Transforming(a)}
  OBVIOUS
<1>3. PICK C \in SUBSET DOMAIN p : C = Candidates(p)
  BY DEF Candidates
<1>4. \A a : a \in known <=> \E i \in DOMAIN p : a = p[i]
  BY <1>2 DEF Range
<1>5. texts = {p[i] : i \in C}
  <2>1. exact # {} <=> {i \in DOMAIN p : ExactStatic(p[i])} # {}
    BY <1>2, <1>4
  <2>2. CASE exact # {}
    <3>1. C = {i \in DOMAIN p : ExactStatic(p[i])}
      BY <1>3, <2>1, <2>2 DEF Candidates
    <3> QED
      BY <1>2, <1>4, <2>2, <3>1
  <2>3. CASE exact = {}
    <3>1. C = {i \in DOMAIN p : Transforming(p[i])}
      BY <1>3, <2>1, <2>3 DEF Candidates
    <3> QED
      BY <1>2, <1>4, <2>3, <3>1
  <2> QED
    BY <2>2, <2>3
<1>6. C = {} <=> texts = {}
  BY <1>5
<1>7. C # {} => Selected(p) = CHOOSE a \in texts : \A b \in texts : a <= b
  <2> SUFFICES ASSUME C # {}
               PROVE  Selected(p) = CHOOSE a \in texts : \A b \in texts : a <= b
    OBVIOUS
  <2>1. InOrder(p)
    BY <1>1 DEF Newest
  <2>2. PICK place : place = CHOOSE i \in C : \A j \in C : i <= j
    OBVIOUS
  <2>3. Selected(p) = p[place]
    BY <1>3, <2>2 DEF Selected
  <2>4. p[place] = CHOOSE a \in texts : \A b \in texts : a <= b
    BY <1>5, <2>1, <2>2, LeastFirst
  <2> QED
    BY <2>3, <2>4
<1>8. /\ Last(edgeVersions).status = IF Disagree(p) THEN "CONFLICTING" ELSE "PROPOSED"
      /\ Last(edgeVersions).transform = IF Disagree(p) \/ Candidates(p) = {} THEN NoText ELSE Evidence[Selected(p)].text
  <2>1. PICK d : d = Last(edgeVersions) /\ d = Derivation(p)
    BY <1>1 DEF Newest
  <2>2. d.status = IF Disagree(p) THEN "CONFLICTING" ELSE "PROPOSED"
    BY <2>1 DEF Derivation
  <2>3. d.transform = IF Disagree(p) \/ Candidates(p) = {} THEN NoText ELSE Evidence[Selected(p)].text
    BY <2>1 DEF Derivation
  <2> QED
    BY <2>1, <2>2, <2>3
<1>9. Last(edgeVersions).transform =
        IF texts = {} \/ Last(edgeVersions).status = "CONFLICTING" THEN NoText
        ELSE Evidence[CHOOSE a \in texts : \A b \in texts : a <= b].text
  BY <1>3, <1>6, <1>7, <1>8
<1> QED
  BY <1>1, <1>2, <1>9 DEF OrderIsForgotten

\* What each set of mechanisms is worth.
LEMMA BandOf ==
  ASSUME NEW m \in SUBSET {"SCA", "LLM", "RUNTIME"}, m # {}
  PROVE  /\ m = {"LLM"} => Band(m) = "LOWEST"
         /\ m \in {{"SCA"}, {"RUNTIME"}} => Band(m) = "SINGLE"
         /\ m \in {{"SCA", "LLM"}, {"LLM", "RUNTIME"}} => Band(m) = "MEDIUM"
         /\ m = {"SCA", "RUNTIME"} => Band(m) = "HIGH"
         /\ m = {"SCA", "LLM", "RUNTIME"} => Band(m) = "HIGHEST"
<1>1. \A x : IsFiniteSet({x}) /\ Cardinality({x}) = 1
  BY FS_Singleton
<1>2. \A x, y : x # y => IsFiniteSet({x, y}) /\ Cardinality({x, y}) = 2
  <2> SUFFICES ASSUME NEW x, NEW y, x # y
               PROVE  IsFiniteSet({x, y}) /\ Cardinality({x, y}) = 2
    OBVIOUS
  <2>1. PICK one : one = {x}
    OBVIOUS
  <2>2. IsFiniteSet(one) /\ Cardinality(one) = 1 /\ y \notin one
    BY <1>1, <2>1
  <2>3. IsFiniteSet(one \cup {y}) /\ Cardinality(one \cup {y}) = 1 + 1
    BY <2>2, FS_AddElement
  <2>4. {x, y} = one \cup {y}
    BY <2>1
  <2> QED
    BY <2>3, <2>4
<1>3. Cardinality({"SCA", "LLM", "RUNTIME"}) = 3
  <2>1. {"SCA", "LLM", "RUNTIME"} = {"SCA", "LLM"} \cup {"RUNTIME"} /\ "RUNTIME" \notin {"SCA", "LLM"}
    OBVIOUS
  <2>2. PICK two, last : two = {"SCA", "LLM"} /\ last = "RUNTIME"
    OBVIOUS
  <2>3. IsFiniteSet(two) /\ Cardinality(two) = 2 /\ last \notin two
    BY <1>2, <2>2
  <2>4. Cardinality(two \cup {last}) = 3
    BY <2>3, FS_AddElement
  <2> QED
    BY <2>1, <2>2, <2>4
<1>4. m = {"LLM"} => Band(m) = "LOWEST"
  <2>1. ASSUME m = {"LLM"}
        PROVE  m # {"SCA", "RUNTIME"} /\ Cardinality(m) = 1
    BY <1>1, <2>1
  <2> QED
    BY <2>1 DEF Band
<1>5. m \in {{"SCA"}, {"RUNTIME"}} => Band(m) = "SINGLE"
  <2>1. ASSUME m \in {{"SCA"}, {"RUNTIME"}}
        PROVE  m # {"LLM"} /\ Cardinality(m) = 1
    BY <1>1, <2>1
  <2> QED
    BY <2>1 DEF Band
<1>6. m \in {{"SCA", "LLM"}, {"LLM", "RUNTIME"}} => Band(m) = "MEDIUM"
  <2>1. ASSUME m \in {{"SCA", "LLM"}, {"LLM", "RUNTIME"}}
        PROVE  m # {"LLM"} /\ m # {"SCA", "RUNTIME"} /\ Cardinality(m) = 2
    BY <1>2, <2>1
  <2> QED
    BY <2>1 DEF Band
<1>7. m = {"SCA", "RUNTIME"} => Band(m) = "HIGH"
  <2>1. ASSUME m = {"SCA", "RUNTIME"}
        PROVE  m # {"LLM"} /\ Cardinality(m) = 2
    BY <1>2, <2>1
  <2> QED
    BY <2>1 DEF Band
<1>8. m = {"SCA", "LLM", "RUNTIME"} => Band(m) = "HIGHEST"
  <2>1. ASSUME m = {"SCA", "LLM", "RUNTIME"}
        PROVE  m # {"LLM"} /\ m # {"SCA", "RUNTIME"} /\ Cardinality(m) = 3
    BY <1>3, <2>1
  <2> QED
    BY <2>1 DEF Band
<1> QED
  BY <1>4, <1>5, <1>6, <1>7, <1>8

LEMMA SetsOfMechanisms ==
  ASSUME NEW m \in SUBSET {"SCA", "LLM", "RUNTIME"}, m # {}
  PROVE  m \in {{"LLM"}, {"SCA"}, {"RUNTIME"}, {"SCA", "LLM"}, {"LLM", "RUNTIME"}, {"SCA", "RUNTIME"},
                {"SCA", "LLM", "RUNTIME"}}
<1>1. CASE "SCA" \in m /\ "LLM" \in m /\ "RUNTIME" \in m
  BY <1>1
<1>2. CASE "SCA" \in m /\ "LLM" \in m /\ "RUNTIME" \notin m
  BY <1>2
<1>3. CASE "SCA" \in m /\ "LLM" \notin m /\ "RUNTIME" \in m
  BY <1>3
<1>4. CASE "SCA" \in m /\ "LLM" \notin m /\ "RUNTIME" \notin m
  BY <1>4
<1>5. CASE "SCA" \notin m /\ "LLM" \in m /\ "RUNTIME" \in m
  BY <1>5
<1>6. CASE "SCA" \notin m /\ "LLM" \in m /\ "RUNTIME" \notin m
  BY <1>6
<1>7. CASE "SCA" \notin m /\ "LLM" \notin m
  BY <1>7
<1> QED
  BY <1>1, <1>2, <1>3, <1>4, <1>5, <1>6, <1>7

\* More mechanisms are never worth less.
LEMMA BandGrows ==
  ASSUME NEW m \in SUBSET {"SCA", "LLM", "RUNTIME"}, m # {},
         NEW k \in SUBSET {"SCA", "LLM", "RUNTIME"}, m \subseteq k
  PROVE  Rank[Band(k)] >= Rank[Band(m)]
<1>1. PICK r : r = Rank /\ r["LOWEST"] = 0 /\ r["SINGLE"] = 1 /\ r["MEDIUM"] = 2 /\ r["HIGH"] = 3 /\ r["HIGHEST"] = 4
  <2>1. PICK r : r = Rank
    OBVIOUS
  <2>2. r["LOWEST"] = 0 /\ r["SINGLE"] = 1 /\ r["MEDIUM"] = 2 /\ r["HIGH"] = 3 /\ r["HIGHEST"] = 4
    BY <2>1 DEF Rank
  <2> QED
    BY <2>1, <2>2
<1>2. Band(k) \in {"LOWEST", "SINGLE", "MEDIUM", "HIGH", "HIGHEST"} /\ r[Band(k)] \in 0 .. 4
  <2>1. k # {}
    OBVIOUS
  <2>2. Band(k) \in {"LOWEST", "SINGLE", "MEDIUM", "HIGH", "HIGHEST"}
    <3>1. CASE k = {"LLM"}
      BY <3>1, BandOf
    <3>2. CASE k \in {{"SCA"}, {"RUNTIME"}}
      BY <2>1, <3>2, BandOf
    <3>3. CASE k \in {{"SCA", "LLM"}, {"LLM", "RUNTIME"}}
      BY <2>1, <3>3, BandOf
    <3>4. CASE k = {"SCA", "RUNTIME"}
      BY <2>1, <3>4, BandOf
    <3>5. CASE k = {"SCA", "LLM", "RUNTIME"}
      BY <2>1, <3>5, BandOf
    <3>6. k \in {{"LLM"}, {"SCA"}, {"RUNTIME"}, {"SCA", "LLM"}, {"LLM", "RUNTIME"}, {"SCA", "RUNTIME"},
                 {"SCA", "LLM", "RUNTIME"}}
      BY <2>1, SetsOfMechanisms
    <3> QED
      BY <3>1, <3>2, <3>3, <3>4, <3>5, <3>6
  <2> QED
    BY <1>1, <2>2
<1>3. CASE m = {"LLM"}
  BY <1>1, <1>2, <1>3, BandOf
<1>4. CASE m \in {{"SCA"}, {"RUNTIME"}}
  <2>1. Band(m) = "SINGLE"
    BY <1>4, BandOf
  <2>2. k # {"LLM"} /\ k # {}
    BY <1>4
  <2>3. Band(k) # "LOWEST"
    BY <2>2, BandOf, SetsOfMechanisms
  <2> QED
    BY <1>1, <1>2, <2>1, <2>3
<1>5. CASE m \in {{"SCA", "LLM"}, {"LLM", "RUNTIME"}}
  <2>1. Band(m) = "MEDIUM"
    BY <1>5, BandOf
  <2>2. k \in {{"SCA", "LLM"}, {"LLM", "RUNTIME"}, {"SCA", "LLM", "RUNTIME"}}
    <3>1. k # {}
      OBVIOUS
    <3>2. "LLM" \in k /\ ("SCA" \in k \/ "RUNTIME" \in k)
      BY <1>5
    <3>3. CASE "SCA" \in k /\ "RUNTIME" \in k
      BY <3>2, <3>3
    <3>4. CASE "SCA" \in k /\ "RUNTIME" \notin k
      BY <3>2, <3>4
    <3>5. CASE "SCA" \notin k /\ "RUNTIME" \in k
      BY <3>2, <3>5
    <3> QED
      BY <3>2, <3>3, <3>4, <3>5
  <2>3. Band(k) \in {"MEDIUM", "HIGHEST"}
    BY <2>2, BandOf
  <2> QED
    BY <1>1, <2>1, <2>3
<1>6. CASE m = {"SCA", "RUNTIME"}
  <2>1. Band(m) = "HIGH"
    BY <1>6, BandOf
  <2>2. k \in {{"SCA", "RUNTIME"}, {"SCA", "LLM", "RUNTIME"}}
    BY <1>6
  <2>3. Band(k) \in {"HIGH", "HIGHEST"}
    BY <2>2, BandOf
  <2> QED
    BY <1>1, <2>1, <2>3
<1>7. CASE m = {"SCA", "LLM", "RUNTIME"}
  <2>1. k = m
    BY <1>7
  <2>2. r[Band(m)] = 4
    BY <1>1, <1>7, BandOf
  <2> QED
    BY <1>1, <2>1, <2>2
<1> QED
  BY <1>3, <1>4, <1>5, <1>6, <1>7, SetsOfMechanisms

\* Two texts that disagree go on disagreeing.
LEMMA DisagreementStays ==
  ASSUME NEW p, NEW q, InOrder(q), Range(p) \subseteq Range(q), Disagree(p)
  PROVE  Disagree(q)
<1> DEFINE Texts(s) == {Normal[Evidence[a].text] : a \in {b \in Range(s) : Transforming(b)}}
<1>1. Texts(p) \subseteq Texts(q)
  OBVIOUS
<1>2. IsFiniteSet(Texts(q))
  <2> DEFINE S == {i \in 1 .. Len(q) : Transforming(q[i])}
             f == [i \in S |-> Normal[Evidence[q[i]].text]]
  <2>1. IsFiniteSet(S)
    <3>1. Len(q) \in Int /\ S \in SUBSET (1 .. Len(q))
      BY DEF InOrder
    <3>2. IsFiniteSet(1 .. Len(q))
      BY <3>1, FS_Interval
    <3> QED
      BY <3>1, <3>2, FS_Subset
  <2>2. DOMAIN q = 1 .. Len(q)
    BY DEF InOrder
  <2>3. f \in [S -> Texts(q)]
    BY <2>2 DEF Range
  <2>4. \A t \in Texts(q) : \E i \in S : f[i] = t
    BY <2>2 DEF Range
  <2>5. f \in Surjection(S, Texts(q))
    <3> HIDE DEF f, S, Texts
    <3> QED
      BY <2>3, <2>4, Fun_IsSurj
  <2> HIDE DEF f, S, Texts
  <2> QED
    BY <2>1, <2>5, FS_Surjection
<1>3. /\ Cardinality(Texts(p)) <= Cardinality(Texts(q))
      /\ Cardinality(Texts(p)) \in Nat /\ Cardinality(Texts(q)) \in Nat
  <2> HIDE DEF Texts
  <2>1. IsFiniteSet(Texts(p)) /\ Cardinality(Texts(p)) <= Cardinality(Texts(q))
    BY <1>1, <1>2, FS_Subset
  <2> QED
    BY <1>2, <2>1, FS_CardinalityType
<1>4. Cardinality(Texts(p)) > 1
  BY DEF Disagree
<1>5. Cardinality(Texts(q)) > 1
  <2> HIDE DEF Texts
  <2> QED
    BY <1>3, <1>4
<1> QED
  BY <1>5 DEF Disagree

\* More evidence never lowers what is derived.
LEMMA MergesGrow ==
  ASSUME EdgeInv, edgeVersions # <<>>, EdgeNext
  PROVE  /\ Rank[Last(edgeVersions').band] >= Rank[Last(edgeVersions).band]
         /\ Last(edgeVersions).corroboration = "ELEMENT" => Last(edgeVersions').corroboration = "ELEMENT"
         /\ Last(edgeVersions).status = "CONFLICTING" => Last(edgeVersions').status = "CONFLICTING"
<1>1. PICK a \in Ids : MergeAssertion(a)
  BY DEF EdgeNext, Ids
<1>2. PICK p, q : /\ p = Merged /\ InOrder(p) /\ InOrder(q) /\ Range(q) = Range(p) \cup {a}
                  /\ Last(edgeVersions') = Derivation(q) /\ Mechanisms(q) # {}
  BY <1>1, Merging
<1>3. Mechanisms(p) # {} /\ Last(edgeVersions) = Derivation(p)
  BY <1>2, NewestVersion DEF Newest
<1>4. Range(p) \subseteq Range(q) /\ Range(q) \subseteq Ids
  <2>1. DOMAIN q = 1 .. Len(q) /\ \A i \in 1 .. Len(q) : q[i] \in Ids
    BY <1>2 DEF InOrder
  <2> QED
    BY <1>2, <2>1 DEF Range
<1>5. PICK d, e : d = Last(edgeVersions) /\ e = Last(edgeVersions') /\ d = Derivation(p) /\ e = Derivation(q)
  BY <1>2, <1>3
<1>6. Rank[e.band] >= Rank[d.band]
  <2>1. PICK m, k : m = Mechanisms(p) /\ k = Mechanisms(q)
    OBVIOUS
  <2>2. m \subseteq k /\ k \subseteq {"SCA", "LLM", "RUNTIME"} /\ m # {}
    BY <1>3, <1>4, <2>1, EvidenceAssumption DEF Mechanisms, Ids
  <2>3. d.band = Band(m) /\ e.band = Band(k)
    BY <1>5, <2>1 DEF Derivation
  <2> QED
    BY <2>2, <2>3, BandGrows
<1>7. d.corroboration = "ELEMENT" => e.corroboration = "ELEMENT"
  <2>1. d.corroboration = Corroboration(p) /\ e.corroboration = Corroboration(q)
    BY <1>5 DEF Derivation
  <2>2. Corroboration(p) = "ELEMENT" => Corroboration(q) = "ELEMENT"
    BY <1>4 DEF Corroboration
  <2> QED
    BY <2>1, <2>2
<1>8. d.status = "CONFLICTING" => e.status = "CONFLICTING"
  <2>1. (d.status = IF Disagree(p) THEN "CONFLICTING" ELSE "PROPOSED") /\ (e.status = IF Disagree(q) THEN "CONFLICTING" ELSE "PROPOSED")
    BY <1>5 DEF Derivation
  <2> QED
    BY <1>2, <1>4, <2>1, DisagreementStays
<1> QED
  BY <1>5, <1>6, <1>7, <1>8

LEMMA EdgeMoves ==
  ASSUME EdgeInv, EdgeNext
  PROVE  EdgeInv'
<1>1. PICK a \in Ids : MergeAssertion(a)
  BY DEF EdgeNext, Ids
<1> QED
  BY <1>1, Merging

\* A set of numbers that has M, and the next of each number below N, has all from M to N.
LEMMA FromTo ==
  ASSUME NEW N \in Nat, NEW M \in 0 .. N, NEW P, M \in P, \A n \in M + 1 .. N : n - 1 \in P => n \in P
  PROVE  \A n \in M .. N : n \in P
<1> DEFINE T == {n \in M .. N : n \notin P}
<1> SUFFICES ASSUME T # {}
             PROVE  FALSE
  OBVIOUS
<1>1. PICK v \in T : \A u \in T : v <= u
  <2>1. T \in SUBSET Nat
    OBVIOUS
  <2> HIDE DEF T
  <2> QED
    BY <2>1, LeastNumber
<1>2. v \in M + 1 .. N /\ v - 1 \in M .. N
  OBVIOUS
<1>3. v - 1 \in P
  BY <1>1, <1>2
<1> QED
  BY <1>2, <1>3

\* Rounds begins with s and does F[n] in round n.
Rounds(h, s, F, M, N) == h[M] = s /\ \A n \in M + 1 .. N : h[n] = F[n][h[n - 1]]

\* There is a function of the rounds.
LEMMA RoundsExist ==
  ASSUME NEW S, NEW s \in S, NEW N \in Nat, NEW M \in 0 .. N, NEW F \in [M + 1 .. N -> [S -> S]]
  PROVE  \E h \in [M .. N -> S] : Rounds(h, s, F, M, N)
<1> DEFINE P == {n \in M .. N : \E h \in [M .. n -> S] : Rounds(h, s, F, M, n)}
<1>1. M \in P
  <2> DEFINE h == [i \in M .. M |-> s]
  <2>1. h \in [M .. M -> S] /\ h[M] = s
    OBVIOUS
  <2> HIDE DEF h
  <2>2. Rounds(h, s, F, M, M)
    BY <2>1 DEF Rounds
  <2>3. M \in M .. N
    OBVIOUS
  <2> QED
    BY <2>1, <2>2, <2>3
<1>2. ASSUME NEW n \in M + 1 .. N, n - 1 \in P
      PROVE  n \in P
  <2>1. PICK g \in [M .. n - 1 -> S] : Rounds(g, s, F, M, n - 1)
    BY <1>2
  <2>2. PICK f \in [S -> S] : f = F[n]
    OBVIOUS
  <2> DEFINE h == [i \in M .. n |-> IF i = n THEN f[g[n - 1]] ELSE g[i]]
  <2>3. h \in [M .. n -> S]
    BY <2>1
  <2>4. \A i \in M .. n - 1 : h[i] = g[i]
    OBVIOUS
  <2>5. h[n] = f[g[n - 1]]
    OBVIOUS
  <2>6. Rounds(h, s, F, M, n)
    <3> HIDE DEF h
    <3>1. h[M] = s
      BY <2>1, <2>4 DEF Rounds
    <3>2. ASSUME NEW i \in M + 1 .. n
          PROVE  h[i] = F[i][h[i - 1]]
      <4>1. CASE i = n
        BY <2>2, <2>4, <2>5, <4>1
      <4>2. CASE i # n
        <5>1. i \in M + 1 .. n - 1 /\ i - 1 \in M .. n - 1 /\ i \in M .. n - 1
          BY <4>2
        <5> QED
          BY <2>1, <2>4, <5>1 DEF Rounds
      <4> QED
        BY <4>1, <4>2
    <3> QED
      BY <3>1, <3>2 DEF Rounds
  <2> QED
    BY <2>3, <2>6
<1>3. \A n \in M .. N : n \in P
  <2> HIDE DEF P
  <2> QED
    BY <1>1, <1>2, FromTo
<1> QED
  BY <1>3

\* What every round keeps holds after each of them.
LEMMA RoundsTyped ==
  ASSUME NEW S, NEW N \in Nat, NEW h, h[0] \in S, \A n \in 1 .. N : h[n - 1] \in S => h[n] \in S
  PROVE  \A n \in 0 .. N : h[n] \in S
<1> DEFINE T == {n \in 0 .. N : h[n] \notin S}
<1> SUFFICES ASSUME T # {}
             PROVE  FALSE
  OBVIOUS
<1>1. PICK v \in T : \A u \in T : v <= u
  <2>1. T \in SUBSET Nat
    OBVIOUS
  <2> HIDE DEF T
  <2> QED
    BY <2>1, LeastNumber
<1>2. v \in 1 .. N /\ v - 1 \in 0 .. N /\ h[v] \notin S
  OBVIOUS
<1>3. v - 1 \notin T
  BY <1>1, <1>2
<1> QED
  BY <1>2, <1>3

\* Rounds that only add members of a finite set have nothing to add after as many rounds
\* as it has members.
LEMMA GrowingEnds ==
  ASSUME NEW pool, IsFiniteSet(pool), NEW F \in [SUBSET pool -> SUBSET pool],
         \A S \in SUBSET pool : S \subseteq F[S],
         NEW h, \A n \in 1 .. Cardinality(pool) : h[n] = F[h[n - 1]],
         \A n \in 0 .. Cardinality(pool) : h[n] \in SUBSET pool
  PROVE  F[h[Cardinality(pool)]] = h[Cardinality(pool)] /\ h[0] \subseteq h[Cardinality(pool)]
<1>1. PICK N \in Nat : N = Cardinality(pool)
  BY FS_CardinalityType
<1>2. \A S \in SUBSET pool : IsFiniteSet(S) /\ Cardinality(S) \in Nat
  BY FS_Subset, FS_CardinalityType
<1> DEFINE P == {n \in 0 .. N : h[0] \subseteq h[n] /\ (F[h[n]] = h[n] \/ Cardinality(h[n]) >= n)}
<1>3. 0 \in P
  BY <1>1, <1>2
<1>4. ASSUME NEW n \in 1 .. N, n - 1 \in P
      PROVE  n \in P
  <2>1. PICK A \in SUBSET pool : A = h[n - 1]
    BY <1>1
  <2>2. PICK B \in SUBSET pool : B = h[n]
    BY <1>1
  <2>3. B = F[A] /\ A \subseteq B
    BY <1>1, <2>1, <2>2
  <2>. n \in 0 .. N /\ h[0] \subseteq B
    BY <1>4, <2>1, <2>3
  <2>4. CASE F[A] = A
    <3>1. h[0] \subseteq h[n] /\ F[h[n]] = h[n]
      BY <2>2, <2>3, <2>4
    <3> QED
      BY <3>1
  <2>5. CASE F[A] # A
    <3>1. Cardinality(A) >= n - 1
      BY <1>4, <2>1, <2>5
    <3>2. Cardinality(A) < Cardinality(B)
      BY <1>2, <2>3, <2>5, FS_Subset
    <3>3. Cardinality(A) \in Nat /\ Cardinality(B) \in Nat
      BY <1>2
    <3>4. Cardinality(B) >= n
      BY <3>1, <3>2, <3>3
    <3>5. h[0] \subseteq h[n] /\ Cardinality(h[n]) >= n
      BY <2>2, <3>4
    <3> QED
      BY <3>5
  <2> QED
    BY <2>4, <2>5
<1>5. N \in P
  <2> HIDE DEF P
  <2>1. 0 \in 0 .. N /\ \A n \in 0 + 1 .. N : n \in 1 .. N
    OBVIOUS
  <2> QED
    BY <1>3, <1>4, <2>1, FromTo
<1>6. CASE F[h[N]] = h[N]
  BY <1>1, <1>5, <1>6
<1>7. CASE F[h[N]] # h[N]
  <2>1. PICK A \in SUBSET pool : A = h[N]
    BY <1>1
  <2>2. Cardinality(A) >= N /\ Cardinality(A) \in Nat
    BY <1>2, <1>5, <1>7, <2>1
  <2>3. A = pool
    <3>1. Cardinality(A) <= Cardinality(pool)
      BY FS_Subset
    <3>2. Cardinality(A) = Cardinality(pool)
      BY <1>1, <2>2, <3>1
    <3> QED
      BY <3>2, FS_Subset
  <2> QED
    BY <1>7, <2>1, <2>3
<1> QED
  BY <1>6, <1>7

-----------------------------------------------------------------------------
(* Impact: what a search has found.                                        *)

Distances == [node : Urns, length : Nat]
Searches == [queue : Seq(Distances), best : SUBSET Distances, affected : SUBSET Distances, truncated : BOOLEAN]
IsQuestion(q) == q.graph \in Graphs /\ q.subject \in Subjects /\ q.depth \in Depths
Start(q) == [node |-> q.subject, length |-> 0]
Across(q, k, x, y) == x \in q.graph[k].from /\ q.graph[k].to = y

\* It is as near in best as in e; it comes along an edge from one that is nearer.
AsNear(best, e) == \E c \in best : c.node = e.node /\ c.length <= e.length
Comes(q, best, b) == \E c \in best : c.length < b.length /\ \E k \in DOMAIN q.graph : Across(q, k, c.node, b.node)

\* What holds between the edges of a visit too.
SearchHolds(q, s) ==
  /\ s \in Searches /\ Start(q) \in s.best /\ s.affected = s.best \ {Start(q)}
  /\ \A b, c \in s.best : b.node = c.node => b = c
  /\ \A b \in s.best : b.length <= q.depth /\ (b = Start(q) \/ Comes(q, s.best, b))
  /\ \A i \in DOMAIN s.queue : s.queue[i].length <= q.depth /\ AsNear(s.best, s.queue[i])

\* All that is known waits in the queue, was cut, or has been passed on along its edges.
Passed(q, best, b, k) ==
  b.node \in q.graph[k].from => \E c \in best : c.node = q.graph[k].to /\ c.length <= b.length + 1
Settled(q, s, b) ==
  \/ b \in Range(s.queue)
  \/ b.length >= q.depth /\ (s.truncated \/ \A k \in DOMAIN q.graph : b.node \notin q.graph[k].from)
  \/ b.length < q.depth /\ \A k \in DOMAIN q.graph : Passed(q, s.best, b, k)
SearchInv(q, s) == SearchHolds(q, s) /\ \A b \in s.best : Settled(q, s, b)

LEMMA GraphFacts ==
  ASSUME NEW q, IsQuestion(q)
  PROVE  /\ q.subject \in Urns /\ q.depth \in 1 .. 5
         /\ q.graph \in Seq([from : SUBSET Urns, to : Urns]) /\ DOMAIN q.graph = 1 .. Len(q.graph) /\ Len(q.graph) \in Nat
         /\ \A k \in DOMAIN q.graph : q.graph[k].from \in SUBSET Urns /\ q.graph[k].to \in Urns
<1>1. q.subject \in Urns /\ q.depth \in 1 .. 5 /\ q.graph \in Seq([from : SUBSET Urns, to : Urns])
  BY TraversalAssumption DEF IsQuestion
<1>2. PICK EdgeRecords : EdgeRecords = [from : SUBSET Urns, to : Urns]
  OBVIOUS
<1>3. q.graph \in Seq(EdgeRecords)
  BY <1>1, <1>2
<1>4. DOMAIN q.graph = 1 .. Len(q.graph) /\ Len(q.graph) \in Nat /\ \A k \in DOMAIN q.graph : q.graph[k] \in EdgeRecords
  BY <1>3
<1>5. \A e \in EdgeRecords : e.from \in SUBSET Urns /\ e.to \in Urns
  BY <1>2
<1> QED
  BY <1>1, <1>4, <1>5

\* What following edge k adds to f.
Adds(q, at, k, f, g) ==
  /\ Range(f.queue) \subseteq Range(g.queue) /\ g.truncated = f.truncated
  /\ \A b \in f.best : AsNear(g.best, b)
  /\ \A b \in g.best : b \in f.best \/ b \in Range(g.queue)
  /\ Passed(q, g.best, at, k)

\* An edge that is followed leads to what is known as near, or adds its target.
LEMMA ReachKeeps ==
  ASSUME NEW q, q = question, IsQuestion(q), NEW at, at = Head(search.queue), at \in Distances, at.length < q.depth,
         NEW k \in DOMAIN q.graph, NEW f, SearchHolds(q, f), AsNear(f.best, at), NEW g, g = ReachTarget(f, k)
  PROVE  SearchHolds(q, g) /\ AsNear(g.best, at) /\ Adds(q, at, k, f, g)
<1>1. PICK new : new = [node |-> q.graph[k].to, length |-> at.length + 1]
  OBVIOUS
<1>2. new \in Distances /\ new.node = q.graph[k].to /\ new.length = at.length + 1 /\ at.length \in Nat
  BY <1>1, GraphFacts DEF Distances
<1>3. g = IF at.node \notin q.graph[k].from \/ (\E b \in f.best : b.node = new.node /\ b.length <= at.length + 1) THEN f
          ELSE [f EXCEPT !.best = {b \in @ : b.node # new.node} \cup {new},
                         !.affected = {a \in @ : a.node # new.node} \cup {new},
                         !.queue = Append(@, new)]
  BY <1>1, <1>2 DEF ReachTarget, Known, Graph
<1>4. /\ f.best \in SUBSET Distances /\ f.queue \in Seq(Distances) /\ f.affected \in SUBSET Distances
      /\ \A b \in f.best : b.length \in Nat /\ b.node \in Urns
  BY DEF SearchHolds, Searches, Distances
<1>5. CASE at.node \notin q.graph[k].from \/ (\E b \in f.best : b.node = new.node /\ b.length <= at.length + 1)
  <2>1. g = f
    BY <1>3, <1>5
  <2>2. \A b \in f.best : AsNear(f.best, b)
    BY <1>4 DEF AsNear
  <2>3. Passed(q, f.best, at, k)
    BY <1>2, <1>5 DEF Passed
  <2> QED
    BY <2>1, <2>2, <2>3 DEF Adds
<1>6. CASE at.node \in q.graph[k].from /\ \A b \in f.best : b.node = new.node => ~(b.length <= at.length + 1)
  <2>1. g = [f EXCEPT !.best = {b \in @ : b.node # new.node} \cup {new},
                      !.affected = {a \in @ : a.node # new.node} \cup {new},
                      !.queue = Append(@, new)]
    BY <1>3, <1>6
  <2>2. /\ g.best = {b \in f.best : b.node # new.node} \cup {new}
        /\ g.affected = {b \in f.affected : b.node # new.node} \cup {new}
        /\ g.queue = Append(f.queue, new) /\ g.truncated = f.truncated
        /\ g = [queue |-> g.queue, best |-> g.best, affected |-> g.affected, truncated |-> g.truncated]
    BY <2>1 DEF SearchHolds, Searches
  <2>3. \A b \in f.best : b.node = new.node => b.length > new.length
    BY <1>2, <1>4, <1>6
  <2>4. g.queue \in Seq(Distances) /\ Len(g.queue) = Len(f.queue) + 1
        /\ (\A i \in 1 .. Len(f.queue) : g.queue[i] = f.queue[i]) /\ g.queue[Len(f.queue) + 1] = new
    BY <1>2, <1>4, <2>2, AppendProperties
  <2>5. DOMAIN f.queue = 1 .. Len(f.queue) /\ DOMAIN g.queue = 1 .. Len(f.queue) + 1 /\ Len(f.queue) \in Nat
    BY <1>4, <2>4
  <2>6. Range(g.queue) = Range(f.queue) \cup {new}
    <3>1. \A x : x \in Range(g.queue) <=> \E i \in 1 .. Len(f.queue) + 1 : x = g.queue[i]
      BY <2>5 DEF Range
    <3>2. \A x : x \in Range(f.queue) <=> \E i \in 1 .. Len(f.queue) : x = f.queue[i]
      BY <2>5 DEF Range
    <3>3. \A i \in 1 .. Len(f.queue) + 1 : i \in 1 .. Len(f.queue) \/ i = Len(f.queue) + 1
      BY <2>5
    <3>4. \A i \in 1 .. Len(f.queue) : i \in 1 .. Len(f.queue) + 1
      BY <2>5
    <3>5. Len(f.queue) + 1 \in 1 .. Len(f.queue) + 1
      BY <2>5
    <3> QED
      BY <2>4, <3>1, <3>2, <3>3, <3>4, <3>5
  <2>7. \A b \in f.best : AsNear(g.best, b)
    <3> SUFFICES ASSUME NEW b \in f.best
                 PROVE  AsNear(g.best, b)
      OBVIOUS
    <3>1. CASE b.node = new.node
      <4>1. new \in g.best /\ new.length <= b.length
        BY <1>2, <1>4, <2>2, <2>3, <3>1
      <4> QED
        BY <3>1, <4>1 DEF AsNear
    <3>2. CASE b.node # new.node
      BY <1>4, <2>2, <3>2 DEF AsNear
    <3> QED
      BY <3>1, <3>2
  <2>8. \A e : e.length \in Nat /\ AsNear(f.best, e) => AsNear(g.best, e)
    <3> SUFFICES ASSUME NEW e, e.length \in Nat, AsNear(f.best, e)
                 PROVE  AsNear(g.best, e)
      OBVIOUS
    <3>1. PICK b \in f.best : b.node = e.node /\ b.length <= e.length
      BY DEF AsNear
    <3>2. PICK c \in g.best : c.node = b.node /\ c.length <= b.length
      BY <2>7 DEF AsNear
    <3>3. c.length \in Nat /\ b.length \in Nat
      BY <1>2, <1>4, <2>2
    <3> QED
      BY <3>1, <3>2, <3>3 DEF AsNear
  <2>9. Start(q) \in g.best /\ new # Start(q)
    <3>1. Start(q) \in f.best /\ Start(q).length = 0
      BY DEF SearchHolds, Start
    <3>2. new.length > 0
      BY <1>2
    <3>3. Start(q).node # new.node
      BY <1>2, <2>3, <3>1
    <3> QED
      BY <2>2, <3>1, <3>2, <3>3
  <2>10. g.affected = g.best \ {Start(q)}
    <3>1. f.affected = f.best \ {Start(q)}
      BY DEF SearchHolds
    <3> QED
      BY <2>2, <2>9, <3>1
  <2>11. \A b, c \in g.best : b.node = c.node => b = c
    <3>1. \A b, c \in f.best : b.node = c.node => b = c
      BY DEF SearchHolds
    <3> QED
      BY <2>2, <3>1
  <2>12. Comes(q, g.best, new)
    <3>1. PICK c \in f.best : c.node = at.node /\ c.length <= at.length
      BY DEF AsNear
    <3>2. c.length < new.length /\ c.length <= at.length + 1
      BY <1>2, <1>4, <3>1
    <3>3. c \in g.best
      BY <1>6, <2>2, <3>2
    <3>4. Across(q, k, c.node, new.node)
      BY <1>2, <1>6, <3>1 DEF Across
    <3> QED
      BY <3>2, <3>3, <3>4 DEF Comes
  <2>13. ASSUME NEW b \in g.best
         PROVE  b.length <= q.depth /\ (b = Start(q) \/ Comes(q, g.best, b))
    <3>1. CASE b = new
      <4>1. b.length <= q.depth
        BY <1>2, <3>1, GraphFacts
      <4> QED
        BY <2>12, <3>1, <4>1
    <3>2. CASE b # new
      <4>1. b \in f.best
        BY <2>2, <3>2
      <4>2. b.length <= q.depth /\ (b = Start(q) \/ Comes(q, f.best, b))
        BY <4>1 DEF SearchHolds
      <4>3. ASSUME Comes(q, f.best, b)
            PROVE  Comes(q, g.best, b)
        <5>1. PICK c \in f.best, j \in DOMAIN q.graph : c.length < b.length /\ Across(q, j, c.node, b.node)
          BY <4>3 DEF Comes
        <5>2. PICK d \in g.best : d.node = c.node /\ d.length <= c.length
          BY <2>7 DEF AsNear
        <5>3. c.length \in Nat /\ b.length \in Nat /\ d.length \in Nat
          BY <1>2, <1>4, <2>2, <4>1
        <5>4. d.length < b.length /\ Across(q, j, d.node, b.node)
          BY <5>1, <5>2, <5>3
        <5> QED
          BY <5>4 DEF Comes
      <4> QED
        BY <4>2, <4>3
    <3> QED
      BY <3>1, <3>2
  <2>14. ASSUME NEW i \in DOMAIN g.queue
         PROVE  g.queue[i].length <= q.depth /\ AsNear(g.best, g.queue[i])
    <3>1. CASE i \in 1 .. Len(f.queue)
      <4>1. PICK e \in Distances : e = f.queue[i] /\ g.queue[i] = e
        BY <1>4, <2>4, <3>1
      <4>2. e.length <= q.depth /\ AsNear(f.best, e)
        BY <2>5, <3>1, <4>1 DEF SearchHolds
      <4>3. e.length \in Nat
        BY DEF Distances
      <4> QED
        BY <2>8, <4>1, <4>2, <4>3
    <3>2. CASE i = Len(f.queue) + 1
      <4>1. new \in g.best /\ new.length <= q.depth /\ new.length \in Nat
        <5>1. q.depth \in Nat
          BY GraphFacts
        <5> QED
          BY <1>2, <2>2, <5>1
      <4> QED
        BY <2>4, <3>2, <4>1 DEF AsNear
    <3> QED
      BY <2>5, <3>1, <3>2
  <2>15. g \in Searches
    <3>1. g.truncated \in BOOLEAN
      BY <2>2 DEF SearchHolds, Searches
    <3>2. g.best \in SUBSET Distances /\ g.affected \in SUBSET Distances
      BY <1>2, <1>4, <2>2
    <3> QED
      BY <2>2, <2>4, <3>1, <3>2 DEF Searches
  <2>16. SearchHolds(q, g)
    BY <2>9, <2>10, <2>11, <2>13, <2>14, <2>15 DEF SearchHolds
  <2>17. Passed(q, g.best, at, k)
    BY <1>2, <2>2 DEF Passed
  <2>18. AsNear(g.best, at)
    BY <1>2, <2>8
  <2> QED
    BY <2>2, <2>6, <2>7, <2>16, <2>17, <2>18 DEF Adds
<1> QED
  BY <1>5, <1>6

LEMMA QueueFacts ==
  ASSUME NEW s \in Searches, s.queue # <<>>, NEW rest, rest = [s EXCEPT !.queue = Tail(@)]
  PROVE  /\ Head(s.queue) \in Distances /\ Head(s.queue) = s.queue[1] /\ 1 \in DOMAIN s.queue
         /\ rest \in Searches /\ rest.queue = Tail(s.queue) /\ rest.best = s.best /\ rest.affected = s.affected
         /\ rest.truncated = s.truncated
         /\ \A i \in DOMAIN rest.queue : i + 1 \in DOMAIN s.queue /\ rest.queue[i] = s.queue[i + 1]
         /\ Range(s.queue) = Range(rest.queue) \cup {Head(s.queue)}
<1>1. s.queue \in Seq(Distances) /\ s.best \in SUBSET Distances /\ s.affected \in SUBSET Distances /\ s.truncated \in BOOLEAN
  BY DEF Searches
<1>2. /\ rest.queue = Tail(s.queue) /\ rest.best = s.best /\ rest.affected = s.affected /\ rest.truncated = s.truncated
      /\ rest = [queue |-> rest.queue, best |-> rest.best, affected |-> rest.affected, truncated |-> rest.truncated]
  BY DEF Searches
<1>3. PICK z \in Seq(Distances) : z = s.queue
  BY <1>1
<1>4. PICK N \in Nat : N = Len(z) - 1 /\ Len(z) = N + 1
  BY <1>3
<1>5. Head(z) \in Distances /\ Head(z) = z[1] /\ DOMAIN z = 1 .. N + 1 /\ 1 \in DOMAIN z
  BY <1>3, <1>4
<1>6. Tail(z) \in Seq(Distances) /\ Len(Tail(z)) = N /\ DOMAIN Tail(z) = 1 .. N /\ \A i \in 1 .. N : Tail(z)[i] = z[i + 1]
  BY <1>3, <1>4
<1>7. rest \in Searches
  BY <1>1, <1>2, <1>3, <1>6 DEF Searches
<1>8. \A i \in DOMAIN rest.queue : i + 1 \in DOMAIN s.queue /\ rest.queue[i] = s.queue[i + 1]
  <2>1. \A i \in 1 .. N : i + 1 \in 1 .. N + 1
    OBVIOUS
  <2> QED
    BY <1>2, <1>3, <1>5, <1>6, <2>1
<1>9. Range(s.queue) = Range(rest.queue) \cup {Head(s.queue)}
  <2>1. \A x : x \in Range(z) <=> \E i \in 1 .. N + 1 : x = z[i]
    BY <1>5 DEF Range
  <2>2. \A x : x \in Range(Tail(z)) <=> \E i \in 1 .. N : x = Tail(z)[i]
    BY <1>6 DEF Range
  <2>3. ASSUME NEW i \in 1 .. N + 1
        PROVE  i = 1 \/ (i - 1 \in 1 .. N /\ z[i] = Tail(z)[i - 1])
    <3>1. CASE i # 1
      <4>1. i - 1 \in 1 .. N /\ (i - 1) + 1 = i
        BY <3>1
      <4> QED
        BY <1>6, <4>1
    <3> QED
      BY <3>1
  <2>4. \A i \in 1 .. N : i + 1 \in 1 .. N + 1
    OBVIOUS
  <2>5. \A x : x \in Range(z) <=> x \in Range(Tail(z)) \cup {Head(z)}
    <3>1. ASSUME NEW x, x \in Range(z)
          PROVE  x \in Range(Tail(z)) \cup {Head(z)}
      <4>1. PICK i \in 1 .. N + 1 : x = z[i]
        BY <2>1, <3>1
      <4> QED
        BY <1>5, <2>2, <2>3, <4>1
    <3>2. ASSUME NEW x, x \in Range(Tail(z)) \cup {Head(z)}
          PROVE  x \in Range(z)
      <4>1. CASE x = Head(z)
        BY <1>5, <2>1, <4>1
      <4>2. CASE x \in Range(Tail(z))
        <5>1. PICK i \in 1 .. N : x = Tail(z)[i]
          BY <2>2, <4>2
        <5> QED
          BY <1>6, <2>1, <2>4, <5>1
      <4> QED
        BY <3>2, <4>1, <4>2
    <3> QED
      BY <3>1, <3>2
  <2> QED
    BY <1>2, <1>3, <2>5
<1> QED
  BY <1>2, <1>3, <1>5, <1>7, <1>8, <1>9

\* What is found is as near as another that is as near as a third.
LEMMA NearerStill ==
  ASSUME NEW best \in SUBSET Distances, NEW more \in SUBSET Distances, \A b \in best : AsNear(more, b),
         NEW e, e.length \in Nat, AsNear(best, e)
  PROVE  AsNear(more, e)
<1>1. PICK b \in best : b.node = e.node /\ b.length <= e.length
  BY DEF AsNear
<1>2. PICK c \in more : c.node = b.node /\ c.length <= b.length
  BY DEF AsNear
<1>3. c.length \in Nat /\ b.length \in Nat
  BY DEF Distances
<1> QED
  BY <1>1, <1>2, <1>3 DEF AsNear

\* What has been passed on stays so while every entry only gets nearer.
LEMMA PassedStill ==
  ASSUME NEW q, NEW best \in SUBSET Distances, NEW more \in SUBSET Distances, \A b \in best : AsNear(more, b),
         NEW e \in Distances, NEW k, Passed(q, best, e, k)
  PROVE  Passed(q, more, e, k)
<1> SUFFICES ASSUME e.node \in q.graph[k].from
             PROVE  \E c \in more : c.node = q.graph[k].to /\ c.length <= e.length + 1
  BY DEF Passed
<1>1. PICK b \in best : b.node = q.graph[k].to /\ b.length <= e.length + 1
  BY DEF Passed
<1>2. PICK c \in more : c.node = b.node /\ c.length <= b.length
  BY DEF AsNear
<1>3. c.length \in Nat /\ b.length \in Nat /\ e.length \in Nat
  BY DEF Distances
<1> QED
  BY <1>1, <1>2, <1>3

\* A visit takes one entry from the queue and settles it, whether it is cut or followed.
LEMMA VisitKeeps ==
  ASSUME NEW q, q = question, IsQuestion(q), SearchInv(q, search), VisitNode
  PROVE  SearchInv(q, search')
<1>1. PICK s, at, rest, N, t : s = search /\ at = Head(search.queue) /\ rest = [search EXCEPT !.queue = Tail(@)]
                               /\ N = Len(q.graph) /\ t = search'
  OBVIOUS
<1>2. /\ s.queue # <<>>
      /\ at.length >= q.depth => t = [rest EXCEPT !.truncated = Cut(at.node)]
  BY <1>1 DEF VisitNode
<1>3. SearchHolds(q, s) /\ s \in Searches /\ \A b \in s.best : Settled(q, s, b)
  BY <1>1 DEF SearchInv, SearchHolds
<1>4. /\ at \in Distances /\ at = s.queue[1] /\ 1 \in DOMAIN s.queue
      /\ rest \in Searches /\ rest.queue = Tail(s.queue) /\ rest.best = s.best /\ rest.affected = s.affected
      /\ rest.truncated = s.truncated
      /\ \A i \in DOMAIN rest.queue : i + 1 \in DOMAIN s.queue /\ rest.queue[i] = s.queue[i + 1]
      /\ Range(s.queue) = Range(rest.queue) \cup {at}
  <2>1. s.queue # <<>> /\ rest = [s EXCEPT !.queue = Tail(@)] /\ at = Head(s.queue)
    BY <1>1, <1>2
  <2> QED
    BY <1>3, <2>1, QueueFacts
<1>5. at.length <= q.depth /\ AsNear(s.best, at)
  BY <1>3, <1>4 DEF SearchHolds
<1>6. SearchHolds(q, rest)
  BY <1>3, <1>4 DEF SearchHolds
<1>7. /\ q.depth \in Nat /\ at.length \in Nat /\ N \in Nat /\ DOMAIN q.graph = 1 .. N
      /\ s.best \in SUBSET Distances /\ \A b \in s.best : b.length \in Nat
  <2>1. q.depth \in Nat /\ Len(q.graph) \in Nat /\ DOMAIN q.graph = 1 .. Len(q.graph)
    BY GraphFacts
  <2>2. at.length \in Nat /\ s.best \in SUBSET Distances /\ \A b \in s.best : b.length \in Nat
    BY <1>3, <1>4 DEF Distances, Searches
  <2> QED
    BY <1>1, <2>1, <2>2
<1>8. CASE at.length >= q.depth
  <2>1. /\ t.queue = rest.queue /\ t.best = s.best /\ t.affected = s.affected
        /\ t.truncated = Cut(at.node)
        /\ t = [queue |-> t.queue, best |-> t.best, affected |-> t.affected, truncated |-> t.truncated]
    <3>1. t = [rest EXCEPT !.truncated = Cut(at.node)]
      BY <1>2, <1>8
    <3> QED
      BY <1>4, <3>1 DEF Searches
  <2>2. t.truncated \in BOOLEAN /\ (t.truncated <=> s.truncated \/ \E k \in DOMAIN q.graph : at.node \in q.graph[k].from)
    BY <1>1, <2>1 DEF Cut, Outgoing, Keys, Graph
  <2>3. t \in Searches
    BY <1>4, <2>1, <2>2 DEF Searches
  <2>4. SearchHolds(q, t)
    BY <1>4, <1>6, <2>1, <2>3 DEF SearchHolds
  <2>5. ASSUME NEW b \in t.best
        PROVE  Settled(q, t, b)
    <3>1. b \in s.best /\ Settled(q, s, b)
      BY <1>3, <2>1
    <3>2. CASE b \in Range(rest.queue)
      BY <2>1, <3>2 DEF Settled
    <3>3. CASE b = at
      BY <1>8, <2>2, <3>3 DEF Settled
    <3>4. CASE b.length >= q.depth /\ (s.truncated \/ \A k \in DOMAIN q.graph : b.node \notin q.graph[k].from)
      BY <2>2, <3>4 DEF Settled
    <3>5. CASE b.length < q.depth /\ \A k \in DOMAIN q.graph : Passed(q, s.best, b, k)
      BY <2>1, <3>5 DEF Settled
    <3> QED
      BY <1>4, <3>1, <3>2, <3>3, <3>4, <3>5 DEF Settled
  <2>6. SearchInv(q, t)
    BY <2>4, <2>5 DEF SearchInv
  <2> QED
    BY <1>1, <2>6
<1>9. CASE at.length < q.depth
  <2> DEFINE S == {f \in Searches : SearchHolds(q, f) /\ AsNear(f.best, at)}
             Computes(h) == h = [k \in 0 .. Len(Graph) |-> IF k = 0 THEN rest ELSE ReachTarget(h[k - 1], k)]
             found == CHOOSE h : Computes(h)
  <2>0. at \in Distances /\ at = Head(search.queue) /\ at.length < q.depth
    BY <1>1, <1>4, <1>9
  <2>1. t = found[N]
    <3>1. ~(Head(search.queue).length >= question.depth)
      BY <1>1, <1>7, <1>9
    <3>2. N = Len(Graph)
      BY <1>1 DEF Graph
    <3> QED
      BY <1>1, <3>1, <3>2 DEF VisitNode
  <2>2. rest \in S
    BY <1>4, <1>5, <1>6
  <2>3. ASSUME NEW k \in 1 .. N, NEW f \in S
        PROVE  ReachTarget(f, k) \in S
    <3>1. PICK g : g = ReachTarget(f, k)
      OBVIOUS
    <3>2. SearchHolds(q, g) /\ AsNear(g.best, at)
      BY <1>1, <1>4, <1>7, <1>9, <3>1, ReachKeeps
    <3> QED
      BY <3>1, <3>2 DEF SearchHolds
  <2>4. PICK F \in [0 + 1 .. N -> [S -> S]] : \A k \in 1 .. N : \A f \in S : F[k][f] = ReachTarget(f, k)
    <3> DEFINE F == [k \in 1 .. N |-> [f \in S |-> ReachTarget(f, k)]]
    <3> HIDE DEF S
    <3>1. F \in [1 .. N -> [S -> S]] /\ \A k \in 1 .. N : \A f \in S : F[k][f] = ReachTarget(f, k)
      BY <2>3
    <3>2. 0 + 1 = 1
      OBVIOUS
    <3> QED
      BY <3>1, <3>2
  <2> HIDE DEF S
  <2>5. PICK h \in [0 .. N -> S] : Rounds(h, rest, F, 0, N)
    <3>1. 0 \in 0 .. N
      BY <1>7
    <3> QED
      BY <1>7, <2>2, <3>1, RoundsExist
  <2>6. Computes(h)
    <3>1. \A k \in 1 .. N : k - 1 \in 0 .. N
      BY <1>7
    <3>2. \A k \in 0 .. N : h[k] = IF k = 0 THEN rest ELSE ReachTarget(h[k - 1], k)
      BY <1>7, <2>4, <2>5, <3>1 DEF Rounds
    <3>3. N = Len(Graph)
      BY <1>1 DEF Graph
    <3> QED
      BY <3>2, <3>3
  <2>7. Computes(found)
    <3> HIDE DEF Computes
    <3> QED
      BY <2>6
  <2>8. found[0] = rest /\ \A k \in 1 .. N : found[k] = ReachTarget(found[k - 1], k)
    <3> HIDE DEF found
    <3>1. \A k \in 0 .. N : found[k] = IF k = 0 THEN rest ELSE ReachTarget(found[k - 1], k)
      BY <1>1, <2>7 DEF Graph
    <3> QED
      BY <1>7, <3>1
  <2> HIDE DEF found, Computes
  <2>9. \A k \in 0 .. N : found[k] \in S
    <3>1. \A k \in 1 .. N : \A f \in S : ReachTarget(f, k) \in S
      BY <2>3
    <3>2. \A k \in 1 .. N : found[k - 1] \in S => found[k] \in S
      BY <2>8, <3>1
    <3>3. found[0] \in S
      BY <2>2, <2>8
    <3> QED
      BY <1>7, <3>2, <3>3, RoundsTyped
  \* What has been done before edge k + 1.
  <2> DEFINE Done(f, k) ==
        /\ Range(rest.queue) \subseteq Range(f.queue) /\ f.truncated = s.truncated
        /\ \A b \in s.best : AsNear(f.best, b)
        /\ \A b \in f.best : b \in s.best \/ b \in Range(f.queue)
        /\ \A j \in 1 .. k : Passed(q, f.best, at, j)
             P == {k \in 0 .. N : Done(found[k], k)}
  <2> HIDE DEF Done, P
  <2>10. 0 \in P
    <3>1. \A b \in s.best : AsNear(s.best, b)
      BY <1>7 DEF AsNear
    <3>2. Done(rest, 0)
      BY <1>4, <3>1 DEF Done
    <3> QED
      BY <1>7, <2>8, <3>2 DEF P
  <2>11. ASSUME NEW k \in 0 + 1 .. N, k - 1 \in P
         PROVE  k \in P
    <3>1. k \in 1 .. N /\ k \in 0 .. N /\ k - 1 \in 0 .. N /\ k \in DOMAIN q.graph
      BY <1>7
    <3>2. PICK f, g : f = found[k - 1] /\ g = found[k] /\ g = ReachTarget(f, k)
      BY <2>8, <3>1
    <3>3. f \in S /\ g \in S
      BY <2>9, <3>1, <3>2
    <3>4. SearchHolds(q, f) /\ AsNear(f.best, at) /\ f.best \in SUBSET Distances /\ g.best \in SUBSET Distances
      BY <3>3 DEF S, Searches
    <3>5. Adds(q, at, k, f, g)
      <4>1. k \in DOMAIN q.graph /\ SearchHolds(q, f) /\ AsNear(f.best, at) /\ g = ReachTarget(f, k)
        BY <3>1, <3>2, <3>4
      <4> QED
        BY <2>0, <4>1, ReachKeeps
    <3>6. Done(f, k - 1)
      BY <2>11, <3>2 DEF P
    <3>7. \A b \in s.best : AsNear(g.best, b)
      BY <1>7, <3>4, <3>5, <3>6, NearerStill DEF Done, Adds
    <3>8. ASSUME NEW j \in 1 .. k
          PROVE  Passed(q, g.best, at, j)
      <4>1. CASE j = k
        BY <3>5, <4>1 DEF Adds
      <4>2. CASE j # k
        <5>1. j \in 1 .. k - 1
          BY <1>7, <4>2
        <5>2. Passed(q, f.best, at, j)
          BY <3>6, <5>1 DEF Done
        <5> QED
          BY <1>4, <3>4, <3>5, <5>2, PassedStill DEF Adds
      <4> QED
        BY <4>1, <4>2
    <3>9. Done(g, k)
      BY <3>5, <3>6, <3>7, <3>8 DEF Done, Adds
    <3> QED
      BY <3>1, <3>2, <3>9 DEF P
  <2>12. Done(t, N)
    <3>1. \A k \in 0 .. N : k \in P
      <4>1. 0 \in 0 .. N
        BY <1>7
      <4> QED
        BY <1>7, <2>10, <2>11, <4>1, FromTo
    <3> QED
      BY <1>7, <2>1, <3>1 DEF P
  <2>13. SearchHolds(q, t) /\ t.best \in SUBSET Distances
    BY <1>7, <2>1, <2>9 DEF S, Searches
  <2>14. ASSUME NEW b \in t.best
         PROVE  Settled(q, t, b)
    <3>1. CASE b \in Range(t.queue)
      BY <3>1 DEF Settled
    <3>2. CASE b \in s.best /\ b \notin Range(t.queue)
      <4>1. Settled(q, s, b)
        BY <1>3, <3>2
      <4>2. CASE b \in Range(s.queue)
        <5>1. b = at
          BY <1>4, <2>12, <3>2, <4>2 DEF Done
        <5>2. \A k \in DOMAIN q.graph : Passed(q, t.best, b, k)
          BY <1>7, <2>12, <5>1 DEF Done
        <5> QED
          BY <1>9, <5>1, <5>2 DEF Settled
      <4>3. CASE b.length >= q.depth /\ (s.truncated \/ \A k \in DOMAIN q.graph : b.node \notin q.graph[k].from)
        BY <2>12, <4>3 DEF Settled, Done
      <4>4. CASE b.length < q.depth /\ \A k \in DOMAIN q.graph : Passed(q, s.best, b, k)
        <5>1. \A k \in DOMAIN q.graph : Passed(q, t.best, b, k)
          BY <1>7, <2>12, <2>13, <3>2, <4>4, PassedStill DEF Done
        <5> QED
          BY <4>4, <5>1 DEF Settled
      <4> QED
        BY <4>1, <4>2, <4>3, <4>4 DEF Settled
    <3> QED
      BY <2>12, <3>1, <3>2 DEF Done
  <2>15. SearchInv(q, t)
    BY <2>13, <2>14 DEF SearchInv
  <2> QED
    BY <1>1, <2>15
<1> QED
  BY <1>7, <1>8, <1>9

\* A search starts with the subject in its queue.
LEMMA SearchStarts ==
  ASSUME NEW q, IsQuestion(q), NEW s,
         s = [NoSearch EXCEPT !.queue = <<[node |-> q.subject, length |-> 0]>>, !.best = {[node |-> q.subject, length |-> 0]}]
  PROVE  SearchInv(q, s)
<1>1. PICK e : e = Start(q)
  OBVIOUS
<1>2. e \in Distances /\ e.length = 0 /\ q.depth \in Nat
  BY <1>1, GraphFacts DEF Start, Distances
<1>3. PICK one, none, no : one = <<e>> /\ none = {} /\ no = FALSE
  OBVIOUS
<1>4. s.queue = one /\ s.best = {e} /\ s.affected = none /\ s.truncated = no
      /\ s = [queue |-> one, best |-> {e}, affected |-> none, truncated |-> no]
  BY <1>1, <1>3 DEF NoSearch, Start
<1>5. one \in Seq(Distances) /\ DOMAIN one = {1} /\ one[1] = e /\ Range(one) = {e}
  BY <1>2, <1>3 DEF Range
<1>6. s \in Searches
  BY <1>2, <1>3, <1>4, <1>5 DEF Searches
<1>7. SearchHolds(q, s)
  BY <1>1, <1>2, <1>3, <1>4, <1>5, <1>6 DEF SearchHolds, AsNear
<1> QED
  BY <1>3, <1>4, <1>5, <1>7 DEF SearchInv, Settled

\* Downstream is what can be reached: the least closed set with the subject.
LEMMA DownstreamFacts ==
  ASSUME NEW q, q = question, IsQuestion(q), NEW below, below = Downstream
  PROVE  /\ below \in SUBSET Urns /\ q.subject \in below
         /\ \A k \in DOMAIN q.graph : \A x \in below : x \in q.graph[k].from => q.graph[k].to \in below
         /\ \A C : (q.subject \in C /\ \A k \in DOMAIN q.graph : \A x \in C : x \in q.graph[k].from => q.graph[k].to \in C)
                   => below \subseteq C
<1> DEFINE Grown(S) == S \cup {q.graph[k].to : k \in {j \in DOMAIN q.graph : q.graph[j].from \cap S # {}}}
<1>1. PICK N \in Nat : N = Cardinality(Urns)
  BY FS_CardinalityType, TraversalAssumption
<1>2. /\ q.subject \in Urns /\ IsFiniteSet(Urns) /\ 0 \in 0 .. N /\ N \in 0 .. N
      /\ \A k \in DOMAIN q.graph : q.graph[k].to \in Urns
  <2>1. q.subject \in Urns /\ \A k \in DOMAIN q.graph : q.graph[k].to \in Urns
    BY GraphFacts
  <2> QED
    BY <2>1, TraversalAssumption
<1>3. PICK Sets : Sets = SUBSET Urns
  OBVIOUS
<1>4. \A S \in Sets : Grown(S) \in Sets /\ S \subseteq Grown(S)
  BY <1>2, <1>3
<1>5. PICK one : one = {q.subject}
  OBVIOUS
<1>6. one \in Sets
  BY <1>2, <1>3, <1>5
<1> DEFINE Computes(h) == h = [n \in 0 .. N |-> IF n = 0 THEN one ELSE Grown(h[n - 1])]
           within == CHOOSE h : Computes(h)
<1>7. below = within[N]
  BY <1>1, <1>5 DEF Downstream, Graph, Keys
<1> HIDE DEF Grown
<1>8. PICK G \in [Sets -> Sets] : \A S \in Sets : G[S] = Grown(S)
  <2> DEFINE G == [S \in Sets |-> Grown(S)]
  <2>1. G \in [Sets -> Sets] /\ \A S \in Sets : G[S] = Grown(S)
    BY <1>4
  <2> QED
    BY <2>1
<1>9. PICK F \in [0 + 1 .. N -> [Sets -> Sets]] : \A n \in 0 + 1 .. N : F[n] = G
  <2> DEFINE F == [n \in 0 + 1 .. N |-> G]
  <2>1. F \in [0 + 1 .. N -> [Sets -> Sets]] /\ \A n \in 0 + 1 .. N : F[n] = G
    OBVIOUS
  <2> QED
    BY <2>1
<1>10. PICK h \in [0 .. N -> Sets] : Rounds(h, one, F, 0, N)
  BY <1>2, <1>6, RoundsExist
<1>11. Computes(h)
  <2>1. \A n \in 1 .. N : n - 1 \in 0 .. N
    OBVIOUS
  <2>2. \A n \in 0 .. N : h[n] = IF n = 0 THEN one ELSE Grown(h[n - 1])
    BY <1>8, <1>9, <1>10, <2>1 DEF Rounds
  <2> QED
    BY <2>2
<1>12. Computes(within)
  <2> HIDE DEF Computes
  <2> QED
    BY <1>11
<1>13. within[0] = one /\ \A n \in 1 .. N : within[n] = Grown(within[n - 1])
  <2> HIDE DEF within
  <2>1. \A n \in 0 .. N : within[n] = IF n = 0 THEN one ELSE Grown(within[n - 1])
    BY <1>12
  <2> QED
    BY <2>1
<1> HIDE DEF within, Computes
<1>14. \A n \in 0 .. N : within[n] \in Sets
  <2>1. \A n \in 1 .. N : within[n - 1] \in Sets => within[n] \in Sets
    BY <1>4, <1>13
  <2>2. within[0] \in Sets
    BY <1>6, <1>13
  <2> QED
    BY <2>1, <2>2, RoundsTyped
<1>15. G[within[N]] = within[N] /\ within[0] \subseteq within[N] /\ within[N] \in Sets
  <2>1. \A n \in 1 .. N : within[n] = G[within[n - 1]]
    <3>1. \A n \in 1 .. N : n - 1 \in 0 .. N
      OBVIOUS
    <3> QED
      BY <1>8, <1>13, <1>14, <3>1
  <2>2. G \in [SUBSET Urns -> SUBSET Urns]
    BY <1>3, <1>8
  <2>3. \A S \in SUBSET Urns : S \subseteq G[S]
    BY <1>3, <1>4, <1>8
  <2>4. /\ \A n \in 1 .. Cardinality(Urns) : within[n] = G[within[n - 1]]
        /\ \A n \in 0 .. Cardinality(Urns) : within[n] \in SUBSET Urns
    BY <1>1, <1>3, <1>14, <2>1
  <2>5. /\ G[within[Cardinality(Urns)]] = within[Cardinality(Urns)]
        /\ within[0] \subseteq within[Cardinality(Urns)]
    BY <1>2, <2>2, <2>3, <2>4, GrowingEnds
  <2> QED
    BY <1>1, <1>2, <1>14, <2>5
<1>16. Grown(below) = below /\ below \in SUBSET Urns /\ q.subject \in below
  BY <1>3, <1>5, <1>7, <1>8, <1>13, <1>15
<1>17. ASSUME NEW k \in DOMAIN q.graph, NEW x \in below, x \in q.graph[k].from
       PROVE  q.graph[k].to \in below
  <2>1. q.graph[k].to \in Grown(below)
    BY <1>17 DEF Grown
  <2> QED
    BY <1>16, <2>1
<1>18. ASSUME NEW C, q.subject \in C,
              \A k \in DOMAIN q.graph : \A x \in C : x \in q.graph[k].from => q.graph[k].to \in C
       PROVE  below \subseteq C
  <2> DEFINE P == {n \in 0 .. N : within[n] \subseteq C}
  <2>1. 0 \in P
    BY <1>2, <1>5, <1>13, <1>18
  <2>2. ASSUME NEW n \in 0 + 1 .. N, n - 1 \in P
        PROVE  n \in P
    <3>1. PICK S : S = within[n - 1]
      OBVIOUS
    <3>2. S \subseteq C /\ within[n] = Grown(S) /\ n \in 0 .. N
      BY <1>13, <2>2, <3>1
    <3>3. Grown(S) \subseteq C
      BY <1>18, <3>2 DEF Grown
    <3> QED
      BY <3>2, <3>3
  <2>3. N \in P
    <3> HIDE DEF P
    <3> QED
      BY <1>2, <2>1, <2>2, FromTo
  <2> QED
    BY <1>7, <2>3
<1> QED
  BY <1>16, <1>17, <1>18

\* Lengths of what is found count steps from the subject.
LEMMA BestIsDownstream ==
  ASSUME NEW q, q = question, IsQuestion(q), NEW s, SearchHolds(q, s), NEW below, below = Downstream
  PROVE  \A b \in s.best : b.node \in below
<1> DEFINE T == {b.length : b \in {c \in s.best : c.node \notin below}}
<1> SUFFICES ASSUME T # {}
             PROVE  FALSE
  OBVIOUS
<1>1. s.best \in SUBSET Distances /\ \A b \in s.best : b.length \in Nat
  BY DEF SearchHolds, Searches, Distances
<1>2. PICK v \in T : \A u \in T : v <= u
  <2>1. T \in SUBSET Nat
    BY <1>1
  <2> HIDE DEF T
  <2> QED
    BY <2>1, LeastNumber
<1>3. PICK b \in s.best : b.node \notin below /\ b.length = v
  BY <1>2
<1>4. b # Start(q)
  BY <1>3, DownstreamFacts DEF Start
<1>5. PICK c \in s.best, k \in DOMAIN q.graph : c.length < b.length /\ Across(q, k, c.node, b.node)
  BY <1>4 DEF SearchHolds, Comes
<1>6. c.node \notin below
  BY <1>3, <1>5, DownstreamFacts DEF Across
<1>7. c.length \in T
  BY <1>6
<1>8. v <= c.length /\ c.length \in Nat /\ b.length \in Nat
  BY <1>1, <1>2, <1>7
<1> QED
  BY <1>3, <1>5, <1>8

\* What is known when nothing waits and nothing was cut is closed under the edges.
LEMMA ImpactWhole ==
  ASSUME NEW q, q = question, IsQuestion(q), SearchInv(q, search)
  PROVE  ImpactIsWhole
<1> SUFFICES ASSUME Searched, ~search.truncated
             PROVE  {a.node : a \in search.affected} \cup {question.subject} = Downstream
  BY DEF ImpactIsWhole
<1>1. PICK s, below : s = search /\ below = Downstream
  OBVIOUS
<1>2. SearchHolds(q, s) /\ s.queue = <<>> /\ ~s.truncated /\ \A b \in s.best : Settled(q, s, b)
  BY <1>1 DEF Searched, SearchInv
<1>3. PICK C : C = {b.node : b \in s.best}
  OBVIOUS
<1>4. C = {a.node : a \in s.affected} \cup {q.subject}
  <2>1. s.affected = s.best \ {Start(q)} /\ Start(q) \in s.best /\ Start(q).node = q.subject
    BY <1>2 DEF SearchHolds, Start
  <2> QED
    BY <1>3, <2>1
<1>5. C \subseteq below
  BY <1>1, <1>2, <1>3, BestIsDownstream
<1>6. ASSUME NEW k \in DOMAIN q.graph, NEW x \in C, x \in q.graph[k].from
      PROVE  q.graph[k].to \in C
  <2>1. PICK b \in s.best : b.node = x
    BY <1>3
  <2>2. b \notin Range(s.queue)
    BY <1>2 DEF Range
  <2>3. Passed(q, s.best, b, k)
    BY <1>2, <1>6, <2>1, <2>2 DEF Settled
  <2>4. PICK c \in s.best : c.node = q.graph[k].to
    BY <1>6, <2>1, <2>3 DEF Passed
  <2> QED
    BY <1>3, <2>4
<1>7. below \subseteq C
  <2>1. q.subject \in C
    BY <1>4
  <2> QED
    BY <1>1, <1>6, <2>1, DownstreamFacts
<1> QED
  BY <1>1, <1>4, <1>5, <1>7

-----------------------------------------------------------------------------
(* Impact in both backends: paths that use no relationship twice.          *)

DownOf(q) ==
  UNION {{[at |-> x, by |-> <<x, k>>, to |-> q.graph[k].to] : x \in q.graph[k].from} : k \in DOMAIN q.graph}
StepsOf(q) ==
  (IF q.direction # "up" THEN DownOf(q) ELSE {})
    \cup (IF q.direction # "down" THEN {[at |-> s.to, by |-> s.by, to |-> s.at] : s \in DownOf(q)} ELSE {})

\* The paths from the subject, of any length.
Trail(q, p) ==
  /\ p \in Seq(StepsOf(q)) /\ p # <<>> /\ p[1].at = q.subject
  /\ \A i \in 1 .. Len(p) : i # 1 => p[i].at = p[i - 1].to
  /\ \A i, j \in 1 .. Len(p) : p[i].by = p[j].by => i = j

\* The relationships of the projection are those of the edges, in the direction asked for.
LEMMA StepsAre ==
  ASSUME NEW q, q = question
  PROVE  Steps = StepsOf(q)
BY DEF Steps, StepsOf, DownOf, Graph, Keys

\* A step is along an edge, down or up.
LEMMA StepFacts ==
  ASSUME NEW q, NEW s \in StepsOf(q)
  PROVE  \E k \in DOMAIN q.graph : \E x \in q.graph[k].from :
           /\ s.by = <<x, k>>
           /\ \/ q.direction # "up" /\ s.at = x /\ s.to = q.graph[k].to
              \/ q.direction # "down" /\ s.at = q.graph[k].to /\ s.to = x
<1>1. ASSUME NEW d \in DownOf(q)
      PROVE  \E k \in DOMAIN q.graph : \E x \in q.graph[k].from :
               d.by = <<x, k>> /\ d.at = x /\ d.to = q.graph[k].to
  BY DEF DownOf
<1> QED
  BY <1>1 DEF StepsOf

\* An edge has a relationship for each of its sources.
LEMMA StepsExist ==
  ASSUME NEW q, NEW k \in DOMAIN q.graph, NEW x \in q.graph[k].from
  PROVE  /\ q.direction # "up" => [at |-> x, by |-> <<x, k>>, to |-> q.graph[k].to] \in StepsOf(q)
         /\ q.direction # "down" => [at |-> q.graph[k].to, by |-> <<x, k>>, to |-> x] \in StepsOf(q)
<1>1. PICK d : d = [at |-> x, by |-> <<x, k>>, to |-> q.graph[k].to]
  OBVIOUS
<1>2. d \in DownOf(q) /\ d.at = x /\ d.by = <<x, k>> /\ d.to = q.graph[k].to
  BY <1>1 DEF DownOf
<1>3. [at |-> d.to, by |-> d.by, to |-> d.at] = [at |-> q.graph[k].to, by |-> <<x, k>>, to |-> x]
  BY <1>2
<1> QED
  BY <1>1, <1>2, <1>3 DEF StepsOf

\* The step s goes on where p ends, and p has not used its relationship.
CanFollow(q, p, s) == s \in StepsOf(q) /\ s.at = p[Len(p)].to /\ \A i \in 1 .. Len(p) : p[i].by # s.by

Continued(p, s, l) ==
  Len(l) = Len(p) + 1 /\ Len(p) \in Nat /\ l[Len(p) + 1] = s /\ \A i \in 1 .. Len(p) : l[i] = p[i]

\* A path goes on along a step that it has not used.
LEMMA TrailGoesOn ==
  ASSUME NEW q, NEW p, Trail(q, p), NEW s, CanFollow(q, p, s), NEW l, l = Append(p, s)
  PROVE  Trail(q, l) /\ Continued(p, s, l)
<1>1. PICK N \in Nat : N = Len(p)
  BY DEF Trail
<1>2. p \in Seq(StepsOf(q)) /\ N # 0
  BY <1>1 DEF Trail
<1> s \in StepsOf(q) /\ s.at = p[Len(p)].to /\ \A i \in 1 .. Len(p) : p[i].by # s.by
  BY DEF CanFollow
<1>3. l \in Seq(StepsOf(q)) /\ l # <<>> /\ Len(l) = N + 1 /\ (\A i \in 1 .. N : l[i] = p[i]) /\ l[N + 1] = s
  BY <1>1, <1>2, AppendProperties
<1>4. l[1].at = q.subject
  BY <1>1, <1>2, <1>3 DEF Trail
<1>5. ASSUME NEW i \in 1 .. N + 1, i # 1
      PROVE  l[i].at = l[i - 1].to
  <2>1. CASE i = N + 1
    <3>1. i - 1 = N /\ N \in 1 .. N
      BY <1>2, <2>1
    <3> QED
      BY <1>1, <1>3, <2>1, <3>1
  <2>2. CASE i # N + 1
    <3>1. i \in 1 .. N /\ i - 1 \in 1 .. N
      BY <1>5, <2>2
    <3> QED
      BY <1>1, <1>3, <1>5, <3>1 DEF Trail
  <2> QED
    BY <2>1, <2>2
<1>6. ASSUME NEW i \in 1 .. N + 1, NEW j \in 1 .. N + 1, l[i].by = l[j].by
      PROVE  i = j
  <2>1. i \in 1 .. N \/ i = N + 1
    OBVIOUS
  <2>2. j \in 1 .. N \/ j = N + 1
    OBVIOUS
  <2>3. \A m, n \in 1 .. N : p[m].by = p[n].by => m = n
    BY <1>1 DEF Trail
  <2> QED
    BY <1>1, <1>3, <1>6, <2>1, <2>2, <2>3
<1> QED
  BY <1>1, <1>3, <1>4, <1>5, <1>6 DEF Trail, Continued

\* A path but for its last step is a path, which goes on with that step.
LEMMA TrailWithoutLast ==
  ASSUME NEW q, NEW p, Trail(q, p), Len(p) # 1
  PROVE  \E r, s : Trail(q, r) /\ CanFollow(q, r, s) /\ p = Append(r, s) /\ Len(r) = Len(p) - 1
<1>1. PICK S : S = StepsOf(q)
  OBVIOUS
<1>2. p \in Seq(S) /\ p # <<>>
  BY <1>1 DEF Trail
<1>3. PICK r \in Seq(S), s \in S : p = Append(r, s)
  BY <1>2, SequenceEmptyOrAppend
<1>4. PICK N \in Nat : N = Len(r)
  BY <1>3
<1>5. Len(p) = N + 1 /\ p[N + 1] = s /\ \A i \in 1 .. N : p[i] = r[i]
  BY <1>3, <1>4, AppendProperties
<1>6. N # 0 /\ r # <<>>
  BY <1>4, <1>5
<1>7. r[1].at = q.subject
  <2>1. 1 \in 1 .. N
    BY <1>6
  <2> QED
    BY <1>5, <2>1 DEF Trail
<1>8. ASSUME NEW i \in 1 .. N, i # 1
      PROVE  r[i].at = r[i - 1].to
  <2>1. i \in 1 .. N + 1 /\ i - 1 \in 1 .. N
    BY <1>8
  <2>2. p[i].at = p[i - 1].to
    BY <1>5, <1>8, <2>1 DEF Trail
  <2> QED
    BY <1>5, <2>1, <2>2
<1>9. \A i, j \in 1 .. N + 1 : p[i].by = p[j].by => i = j
  BY <1>5 DEF Trail
<1>10. \A i, j \in 1 .. N : r[i].by = r[j].by => i = j
  BY <1>5, <1>9
<1>11. Trail(q, r)
  BY <1>1, <1>3, <1>4, <1>6, <1>7, <1>8, <1>10 DEF Trail
<1>12. s.at = r[N].to
  <2>1. N + 1 \in 1 .. N + 1 /\ N + 1 # 1 /\ N \in 1 .. N /\ (N + 1) - 1 = N
    BY <1>6
  <2>2. p[N + 1].at = p[N].to
    BY <1>5, <2>1 DEF Trail
  <2> QED
    BY <1>5, <2>1, <2>2
<1>13. \A i \in 1 .. N : r[i].by # s.by
  <2>1. \A i \in 1 .. N : i \in 1 .. N + 1 /\ N + 1 \in 1 .. N + 1 /\ i # N + 1
    OBVIOUS
  <2> QED
    BY <1>5, <1>9, <2>1
<1>14. CanFollow(q, r, s)
  BY <1>1, <1>4, <1>12, <1>13 DEF CanFollow
<1> QED
  BY <1>3, <1>4, <1>5, <1>11, <1>14

\* A trail of one step is a step from the subject.
LEMMA FirstSteps ==
  ASSUME NEW q, NEW s \in StepsOf(q), s.at = q.subject
  PROVE  Trail(q, <<s>>) /\ Len(<<s>>) = 1 /\ <<s>>[1] = s
<1>1. PICK p : p = <<s>>
  OBVIOUS
<1>2. p \in Seq(StepsOf(q)) /\ Len(p) = 1 /\ p[1] = s /\ p # <<>>
  BY <1>1
<1>3. Trail(q, p)
  BY <1>2 DEF Trail
<1> QED
  BY <1>1, <1>2, <1>3

\* A step leads from a node to a node.
LEMMA StepsInside ==
  ASSUME NEW q, IsQuestion(q), NEW s \in StepsOf(q)
  PROVE  s.at \in Urns /\ s.to \in Urns
<1>1. PICK k, x : k \in DOMAIN q.graph /\ x \in q.graph[k].from /\ {s.at, s.to} = {x, q.graph[k].to}
  BY StepFacts
<1>2. x \in Urns /\ q.graph[k].to \in Urns
  BY <1>1, GraphFacts
<1> QED
  BY <1>1, <1>2

\* A function on a finite set has finitely many values.
LEMMA FiniteValues ==
  ASSUME NEW S, IsFiniteSet(S), NEW f, DOMAIN f = S, f = [x \in S |-> f[x]]
  PROVE  IsFiniteSet({f[x] : x \in S})
<1>1. PICK T : T = {f[x] : x \in S}
  OBVIOUS
<1>2. f \in [S -> T] /\ \A t \in T : \E x \in S : f[x] = t
  BY <1>1
<1>3. f \in Surjection(S, T)
  BY <1>2, Fun_IsSurj
<1> QED
  BY <1>1, <1>3, FS_Surjection

\* There are finitely many relationships.
LEMMA FiniteSteps ==
  ASSUME NEW q, IsQuestion(q)
  PROVE  IsFiniteSet(StepsOf(q))
<1>1. PICK g, N : g = q.graph /\ N = Len(g) /\ N \in Nat /\ DOMAIN g = 1 .. N /\ \A k \in 1 .. N : g[k].from \in SUBSET Urns
  BY GraphFacts
<1>2. IsFiniteSet(Urns \X (1 .. N))
  <2>1. IsFiniteSet(1 .. N)
    BY <1>1, FS_Interval
  <2> QED
    BY <2>1, TraversalAssumption, FS_Product
<1> DEFINE ends == {e \in Urns \X (1 .. N) : e[1] \in g[e[2]].from}
           f == [e \in ends |-> [at |-> e[1], by |-> e, to |-> g[e[2]].to]]
<1>3. IsFiniteSet(ends)
  BY <1>2, FS_Subset
<1>4. DownOf(q) = {f[e] : e \in ends}
  <2>1. ASSUME NEW d \in DownOf(q)
        PROVE  \E e \in ends : d = f[e]
    <3>1. PICK k, x : k \in 1 .. N /\ x \in g[k].from /\ d = [at |-> x, by |-> <<x, k>>, to |-> g[k].to]
      BY <1>1, <2>1 DEF DownOf
    <3>2. <<x, k>> \in ends
      BY <1>1, <3>1
    <3>3. d = f[<<x, k>>]
      BY <3>1, <3>2
    <3> QED
      BY <3>2, <3>3
  <2>2. ASSUME NEW e \in ends
        PROVE  f[e] \in DownOf(q)
    <3>1. PICK x, k : e = <<x, k>> /\ x \in g[k].from /\ k \in 1 .. N
      OBVIOUS
    <3>2. f[e] = [at |-> x, by |-> <<x, k>>, to |-> g[k].to]
      BY <3>1
    <3> QED
      BY <1>1, <3>1, <3>2 DEF DownOf
  <2> HIDE DEF f, ends
  <2> QED
    BY <2>1, <2>2
<1>5. IsFiniteSet(DownOf(q))
  <2>1. DOMAIN f = ends /\ f = [e \in ends |-> f[e]]
    OBVIOUS
  <2> HIDE DEF f, ends
  <2> QED
    BY <1>3, <1>4, <2>1, FiniteValues
<1>6. IsFiniteSet({[at |-> s.to, by |-> s.by, to |-> s.at] : s \in DownOf(q)})
  <2>1. PICK S, u : S = DownOf(q) /\ u = [s \in S |-> [at |-> s.to, by |-> s.by, to |-> s.at]]
    OBVIOUS
  <2>2. DOMAIN u = S /\ u = [s \in S |-> u[s]] /\ {u[s] : s \in S} = {[at |-> s.to, by |-> s.by, to |-> s.at] : s \in S}
    BY <2>1
  <2>3. IsFiniteSet({u[s] : s \in S})
    BY <1>5, <2>1, <2>2, FiniteValues
  <2> QED
    BY <2>1, <2>2, <2>3
<1>7. IsFiniteSet({})
  BY FS_EmptySet
<1>8. PICK A, B : /\ A = (IF q.direction # "up" THEN DownOf(q) ELSE {})
                  /\ B = (IF q.direction # "down" THEN {[at |-> s.to, by |-> s.by, to |-> s.at] : s \in DownOf(q)} ELSE {})
  OBVIOUS
<1>9. IsFiniteSet(A) /\ IsFiniteSet(B)
  BY <1>5, <1>6, <1>7, <1>8
<1>10. IsFiniteSet(A \cup B)
  BY <1>9, FS_Union
<1> QED
  BY <1>8, <1>10 DEF StepsOf

\* The shown of the projection are the paths that are not longer than the depth.
LEMMA PathsAre ==
  ASSUME NEW q, q = question, IsQuestion(q), NEW shown, shown = Paths
  PROVE  IsFiniteSet(shown) /\ \A p : p \in shown <=> Trail(q, p) /\ Len(p) <= q.depth
<1> DEFINE Longer(p) == {Append(p, s) : s \in {r \in Steps : r.at = Last(p).to /\ \A i \in DOMAIN p : p[i].by # r.by}}
           Round(A, n) == A \cup UNION {Longer(p) : p \in {r \in A : Len(r) = n - 1}}
<1>1. PICK D \in 1 .. 5 : D = q.depth
  BY GraphFacts
<1>2. PICK first : first = {<<s>> : s \in {r \in Steps : r.at = question.subject}}
  OBVIOUS
<1> DEFINE Computes(h) == h = [n \in 1 .. D |-> IF n = 1 THEN first ELSE Round(h[n - 1], n)]
           of == CHOOSE h : Computes(h)
<1>3. shown = of[D]
  BY <1>1, <1>2 DEF Paths
<1>4. PICK Sets : Sets = SUBSET Seq(StepsOf(q))
  OBVIOUS
<1>5. first \in Sets
  <2>1. \A s \in StepsOf(q) : <<s>> \in Seq(StepsOf(q))
    OBVIOUS
  <2> QED
    BY <1>2, <1>4, <2>1, StepsAre
<1>6. ASSUME NEW A \in Sets, NEW n
      PROVE  Round(A, n) \in Sets
  <2>1. \A p \in A : Longer(p) \in Sets
    BY <1>4, StepsAre
  <2> QED
    BY <1>4, <2>1
<1> HIDE DEF Round
<1>7. PICK F \in [1 + 1 .. D -> [Sets -> Sets]] : \A n \in 1 + 1 .. D : \A A \in Sets : F[n][A] = Round(A, n)
  <2> DEFINE F == [n \in 1 + 1 .. D |-> [A \in Sets |-> Round(A, n)]]
  <2>1. F \in [1 + 1 .. D -> [Sets -> Sets]] /\ \A n \in 1 + 1 .. D : \A A \in Sets : F[n][A] = Round(A, n)
    BY <1>6
  <2> QED
    BY <2>1
<1>8. D \in Nat /\ 1 \in 0 .. D /\ 1 \in 1 .. D /\ D \in 1 .. D
  OBVIOUS
<1>9. PICK h \in [1 .. D -> Sets] : Rounds(h, first, F, 1, D)
  BY <1>5, <1>8, RoundsExist
<1>10. Computes(h)
  <2>1. \A n \in 1 .. D : n = 1 \/ (n - 1 \in 1 .. D /\ n \in 1 + 1 .. D)
    OBVIOUS
  <2>2. \A n \in 1 .. D : h[n] = IF n = 1 THEN first ELSE Round(h[n - 1], n)
    BY <1>7, <1>9, <2>1 DEF Rounds
  <2> QED
    BY <2>2
<1>11. Computes(of)
  <2> HIDE DEF Computes
  <2> QED
    BY <1>10
<1>12. of[1] = first /\ \A n \in 1 + 1 .. D : of[n] = Round(of[n - 1], n)
  <2> HIDE DEF of
  <2>1. \A n \in 1 .. D : of[n] = IF n = 1 THEN first ELSE Round(of[n - 1], n)
    BY <1>11
  <2> QED
    BY <1>8, <2>1
<1> HIDE DEF of, Computes
<1> DEFINE Right(A, n) == IsFiniteSet(A) /\ \A p : p \in A <=> Trail(q, p) /\ Len(p) <= n
           P == {n \in 1 .. D : Right(of[n], n)}
<1>13. IsFiniteSet(StepsOf(q))
  BY FiniteSteps
<1>14. Right(first, 1)
  <2>1. IsFiniteSet(first)
    <3>1. PICK S, f : S = {r \in StepsOf(q) : r.at = q.subject} /\ f = [s \in S |-> <<s>>]
      OBVIOUS
    <3>2. IsFiniteSet(S) /\ DOMAIN f = S /\ f = [s \in S |-> f[s]] /\ first = {f[s] : s \in S}
      BY <1>2, <1>13, <3>1, FS_Subset, StepsAre
    <3> QED
      BY <3>2, FiniteValues
  <2>2. ASSUME NEW p \in first
        PROVE  Trail(q, p) /\ Len(p) <= 1
    <3>1. PICK s \in StepsOf(q) : p = <<s>> /\ s.at = q.subject
      BY <1>2, StepsAre
    <3>2. Trail(q, p) /\ Len(p) = 1
      BY <3>1, FirstSteps
    <3> QED
      BY <3>2
  <2>3. ASSUME NEW p, Trail(q, p), Len(p) <= 1
        PROVE  p \in first
    <3>1. p \in Seq(StepsOf(q)) /\ p # <<>> /\ p[1].at = q.subject
      BY <2>3 DEF Trail
    <3>2. PICK S : S = StepsOf(q)
      OBVIOUS
    <3>3. PICK r \in Seq(S), s \in S : p = Append(r, s)
      BY <3>1, <3>2, SequenceEmptyOrAppend
    <3>4. Len(p) = Len(r) + 1 /\ Len(r) \in Nat /\ p[Len(r) + 1] = s
      BY <3>3, AppendProperties
    <3>5. Len(r) = 0 /\ p[1] = s
      BY <2>3, <3>4
    <3>6. p = <<s>>
      <4>1. r = <<>>
        BY <3>3, <3>5
      <4> QED
        BY <3>3, <4>1
    <3> QED
      BY <1>2, <3>1, <3>2, <3>5, <3>6, StepsAre
  <2> QED
    BY <2>1, <2>2, <2>3
<1>15. ASSUME NEW n \in 1 + 1 .. D, n - 1 \in P
       PROVE  n \in P
  <2>1. PICK A, B : A = of[n - 1] /\ B = of[n] /\ B = Round(A, n) /\ Right(A, n - 1) /\ n \in Nat
    BY <1>12, <1>15
  <2>2. PICK L : L = {r \in A : Len(r) = n - 1}
    OBVIOUS
  <2>3. B = A \cup UNION {Longer(p) : p \in L}
    BY <2>1, <2>2 DEF Round
  <2>4. \A p \in L : Trail(q, p) /\ Len(p) = n - 1 /\ DOMAIN p = 1 .. n - 1 /\ Last(p) = p[Len(p)]
    BY <2>1, <2>2 DEF Last, Trail
  <2>5. ASSUME NEW p \in B
        PROVE  Trail(q, p) /\ Len(p) <= n
    <3>1. CASE p \in A
      <4>1. Trail(q, p) /\ Len(p) <= n - 1 /\ Len(p) \in Nat
        BY <2>1, <3>1 DEF Trail
      <4> QED
        BY <2>1, <4>1
    <3>2. CASE p \notin A
      <4>1. PICK r \in L, s \in StepsOf(q) : p = Append(r, s) /\ s.at = Last(r).to /\ \A i \in DOMAIN r : r[i].by # s.by
        BY <2>3, <3>2, StepsAre
      <4>2. Trail(q, p) /\ Len(p) = Len(r) + 1
        <5>1. Trail(q, r) /\ CanFollow(q, r, s)
          BY <2>4, <4>1 DEF CanFollow
        <5> QED
          <6>1. p = Append(r, s)
            BY <4>1
          <6> HIDE DEF Longer, Right, P
          <6>2. Trail(q, p) /\ Continued(r, s, p)
            BY <5>1, <6>1, TrailGoesOn
          <6> QED
            BY <6>2 DEF Continued
      <4> QED
        BY <2>1, <2>4, <4>1, <4>2
    <3> QED
      BY <3>1, <3>2
  <2>6. ASSUME NEW p, Trail(q, p), Len(p) <= n
        PROVE  p \in B
    <3>1. Len(p) \in Nat
      BY <2>6 DEF Trail
    <3>2. CASE Len(p) <= n - 1
      BY <2>1, <2>3, <2>6, <3>2
    <3>3. CASE Len(p) = n
      <4>1. n # 1
        OBVIOUS
      <4>2. PICK r, s : Trail(q, r) /\ CanFollow(q, r, s) /\ p = Append(r, s) /\ Len(r) = n - 1
        <5>1. Len(p) # 1
          BY <3>3, <4>1
        <5> QED
          BY <2>6, <3>3, <5>1, TrailWithoutLast
      <4>3. r \in L
        BY <2>1, <2>2, <4>2
      <4>4. p \in Longer(r)
        BY <2>4, <4>2, <4>3, StepsAre DEF CanFollow
      <4> HIDE DEF Longer
      <4> QED
        BY <2>3, <4>3, <4>4
    <3> QED
      BY <2>1, <2>6, <3>1, <3>2, <3>3
  <2>7. IsFiniteSet(B)
    <3>1. PICK S : S = {e \in A \X StepsOf(q) : Append(e[1], e[2]) \in B}
      OBVIOUS
    <3>2. PICK f : f = [e \in S |-> Append(e[1], e[2])]
      OBVIOUS
    <3>3. IsFiniteSet(S)
      <4>1. IsFiniteSet(A \X StepsOf(q))
        BY <1>13, <2>1, FS_Product
      <4> QED
        BY <3>1, <4>1, FS_Subset
    <3>4. IsFiniteSet({f[e] : e \in S})
      <4>1. DOMAIN f = S /\ f = [e \in S |-> f[e]]
        BY <3>2
      <4> QED
        BY <3>3, <4>1, FiniteValues
    <3>5. B \subseteq A \cup {f[e] : e \in S}
      <4> SUFFICES ASSUME NEW p \in B, p \notin A
                   PROVE  \E e \in S : p = f[e]
        OBVIOUS
      <4>1. PICK r \in L, s \in StepsOf(q) : p = Append(r, s)
        BY <2>3, StepsAre
      <4>2. <<r, s>> \in S
        BY <2>2, <3>1, <4>1
      <4>3. p = f[<<r, s>>]
        BY <3>2, <4>1, <4>2
      <4> QED
        BY <4>2, <4>3
    <3>6. IsFiniteSet(A \cup {f[e] : e \in S})
      BY <2>1, <3>4, FS_Union
    <3> QED
      BY <3>5, <3>6, FS_Subset
  <2>8. Right(of[n], n)
    BY <2>1, <2>5, <2>6, <2>7
  <2> HIDE DEF Right
  <2>9. n \in 1 .. D
    OBVIOUS
  <2> QED
    BY <2>8, <2>9
<1>16. D \in P
  <2>1. 1 \in P
    <3> HIDE DEF Right
    <3> QED
      BY <1>8, <1>12, <1>14
  <2> HIDE DEF P
  <2> QED
    BY <1>8, <1>15, <2>1, FromTo
<1> QED
  BY <1>1, <1>3, <1>16

\* Without the flag there are no more rows than the limit.
LEMMA RowsAreMany ==
  ASSUME NEW q, q = question, IsQuestion(q), ~ProjectionTruncated
  PROVE  Cardinality(Paths) <= RowLimit
<1>1. PICK shown : shown = Paths
  OBVIOUS
<1>2. IsFiniteSet(shown)
  BY <1>1, PathsAre
<1>3. Cardinality(shown) \in Nat /\ RowLimit \in Nat
  BY <1>2, FS_CardinalityType, TraversalAssumption
<1> QED
  BY <1>1, <1>3 DEF ProjectionTruncated

\* A limit that the shown keep cuts none of them.
LEMMA AllRows ==
  ASSUME NEW q, q = question, IsQuestion(q), NEW shown, shown = Paths, Cardinality(shown) <= RowLimit
  PROVE  LimitedPaths = shown
<1>1. IsFiniteSet(shown) /\ \A p \in shown : Trail(q, p)
  BY PathsAre
<1>2. Cardinality(shown) \in Nat /\ RowLimit \in Nat
  BY <1>1, FS_CardinalityType, TraversalAssumption
<1>3. ASSUME NEW p \in shown
      PROVE  Cardinality({o \in shown : Sooner(Row(o), Row(p))}) < RowLimit
  <2>1. PICK A : A = {o \in shown : Sooner(Row(o), Row(p))}
    OBVIOUS
  <2>2. A \in SUBSET shown /\ A # shown
    <3>1. ~Sooner(Row(p), Row(p))
      <4>1. PICK r : r = Row(p)
        OBVIOUS
      <4>2. r.length \in Nat /\ r.node \in Nat
        <5>1. p \in Seq(StepsOf(q)) /\ p # <<>>
          BY <1>1 DEF Trail
        <5>2. Len(p) \in Nat /\ Last(p) \in StepsOf(q)
          BY <5>1 DEF Last
        <5>3. Last(p).to \in Urns
          BY <5>2, StepsInside
        <5> QED
          BY <4>1, <5>2, <5>3, TraversalAssumption DEF Row
      <4> QED
        BY <4>1, <4>2 DEF Sooner
    <3> QED
      BY <2>1, <3>1
  <2>3. IsFiniteSet(A) /\ Cardinality(A) <= Cardinality(shown) /\ Cardinality(A) # Cardinality(shown)
    BY <1>1, <2>2, FS_Subset
  <2>4. Cardinality(A) \in Nat
    BY <2>3, FS_CardinalityType
  <2> QED
    BY <1>2, <2>1, <2>3, <2>4
<1> QED
  BY <1>3 DEF LimitedPaths

\* A search that is over has passed on whatever is not at the depth.
Finished(q, s) ==
  SearchHolds(q, s) /\ \A b \in s.best : b.length < q.depth => \A k \in DOMAIN q.graph : Passed(q, s.best, b, k)

\* Downstream a step leads along an edge, from a source to its target.
LEMMA DownSteps ==
  ASSUME NEW q, q.direction = "down", NEW s \in StepsOf(q)
  PROVE  \E k \in DOMAIN q.graph : s.by = <<s.at, k>> /\ Across(q, k, s.at, s.to)
BY StepFacts DEF Across

\* Along a path nothing is further than the path is long.
LEMMA PathsAreNear ==
  ASSUME NEW q, IsQuestion(q), q.direction = "down", NEW s, Finished(q, s), NEW p, Trail(q, p), Len(p) <= q.depth
  PROVE  \A i \in 1 .. Len(p) : \E c \in s.best : c.node = p[i].to /\ c.length <= i
<1> DEFINE Node(i) == IF i = 0 THEN q.subject ELSE p[i].to
<1>1. PICK N \in Nat : N = Len(p)
  BY DEF Trail
<1> DEFINE P == {i \in 0 .. N : \E c \in s.best : c.node = Node(i) /\ c.length <= i}
<1>2. 0 \in P
  <2>1. Start(q) \in s.best /\ Start(q).node = q.subject /\ Start(q).length = 0
    BY DEF Finished, SearchHolds, Start
  <2> QED
    BY <2>1
<1>3. s.best \in SUBSET Distances /\ q.depth \in Nat
  BY GraphFacts DEF Finished, SearchHolds, Searches
<1>4. ASSUME NEW i \in 0 + 1 .. N, i - 1 \in P
      PROVE  i \in P
  <2>1. PICK b \in s.best : b.node = Node(i - 1) /\ b.length <= i - 1
    BY <1>4
  <2>2. b.length \in Nat
    BY <1>3 DEF Distances
  <2>3. i \in 1 .. N /\ p[i] \in StepsOf(q) /\ p[i].at = Node(i - 1)
    BY <1>1 DEF Trail
  <2>4. PICK k \in DOMAIN q.graph : Across(q, k, p[i].at, p[i].to)
    BY <2>3, DownSteps
  <2>5. Passed(q, s.best, b, k)
    BY <1>1, <1>3, <2>1, <2>2, <2>3 DEF Finished
  <2>6. PICK c \in s.best : c.node = p[i].to /\ c.length <= b.length + 1
    BY <2>1, <2>3, <2>4, <2>5 DEF Passed, Across
  <2>7. c.length \in Nat
    BY <1>3 DEF Distances
  <2>8. c.node = Node(i) /\ c.length <= i /\ i \in 0 .. N
    BY <2>1, <2>2, <2>3, <2>6, <2>7
  <2> QED
    BY <2>8
<1>5. \A i \in 0 .. N : i \in P
  <2> HIDE DEF P
  <2>1. 0 \in 0 .. N
    OBVIOUS
  <2> QED
    BY <1>2, <1>4, <2>1, FromTo
<1> QED
  BY <1>1, <1>5

\* What has been found at a length has a path of this length.
Reaching(q, best, b, p) ==
  /\ Trail(q, p) /\ Len(p) = b.length /\ p[Len(p)].to = b.node
  /\ \A i \in 1 .. Len(p) : \E c \in best : c.node = p[i].to /\ c.length = i

\* What a search knows at some distance has a trail of that length at most.
LEMMA NearHavePaths ==
  ASSUME NEW q, IsQuestion(q), q.direction = "down", NEW s, Finished(q, s)
  PROVE  \A b \in s.best : b # Start(q) => \E p : Reaching(q, s.best, b, p)
<1>1. PICK D \in 1 .. 5 : D = q.depth
  BY GraphFacts
<1>2. /\ Start(q) \in s.best /\ s.best \in SUBSET Distances /\ \A b \in s.best : b.length \in Nat
      /\ \A b, c \in s.best : b.node = c.node => b = c
      /\ \A b \in s.best : b.length <= D /\ (b = Start(q) \/ Comes(q, s.best, b))
      /\ \A b \in s.best : b.length < D => \A k \in DOMAIN q.graph : Passed(q, s.best, b, k)
  BY <1>1 DEF Finished, SearchHolds, Searches, Distances
<1>3. Start(q).node = q.subject /\ Start(q).length = 0
  BY DEF Start
<1>4. ASSUME NEW b \in s.best, b # Start(q)
      PROVE  \E c \in s.best, k \in DOMAIN q.graph : c.length + 1 = b.length /\ Across(q, k, c.node, b.node)
  <2>1. PICK c \in s.best, k \in DOMAIN q.graph : c.length < b.length /\ Across(q, k, c.node, b.node)
    BY <1>2, <1>4 DEF Comes
  <2>2. c.length \in Nat /\ b.length \in Nat /\ b.length <= D
    BY <1>2
  <2>3. c.length < D
    BY <1>1, <2>1, <2>2
  <2>4. Passed(q, s.best, c, k)
    BY <1>2, <2>3
  <2>5. PICK d \in s.best : d.node = b.node /\ d.length <= c.length + 1
    BY <2>1, <2>4 DEF Passed, Across
  <2>6. d = b
    BY <1>2, <2>5
  <2>7. c.length + 1 = b.length
    BY <2>1, <2>2, <2>5, <2>6
  <2> QED
    BY <2>1, <2>7
<1> DEFINE P == {n \in 0 .. D : \A b \in s.best : b # Start(q) /\ b.length = n => \E p : Reaching(q, s.best, b, p)}
<1>5. 0 \in P
  <2>1. ASSUME NEW b \in s.best, b # Start(q), b.length = 0
        PROVE  FALSE
    <3>1. PICK c \in s.best : c.length + 1 = 0
      BY <1>4, <2>1
    <3>2. c.length \in Nat
      BY <1>2
    <3> QED
      BY <3>1, <3>2
  <2> QED
    BY <1>1, <2>1
<1>6. ASSUME NEW n \in 0 + 1 .. D, n - 1 \in P
      PROVE  n \in P
  <2> SUFFICES ASSUME NEW b \in s.best, b # Start(q), b.length = n
               PROVE  \E p : Reaching(q, s.best, b, p)
    BY <1>1
  <2>1. PICK c \in s.best, k \in DOMAIN q.graph : c.length + 1 = n /\ Across(q, k, c.node, b.node)
    BY <1>4
  <2>2. PICK x, t : x = c.node /\ t = [at |-> x, by |-> <<x, k>>, to |-> q.graph[k].to]
    OBVIOUS
  <2>3. t \in StepsOf(q) /\ t.at = c.node /\ t.to = b.node /\ t.by = <<c.node, k>> /\ x \in q.graph[k].from
    <3>1. x \in q.graph[k].from /\ q.graph[k].to = b.node
      BY <2>1, <2>2 DEF Across
    <3>2. t \in StepsOf(q)
      BY <2>2, <3>1, StepsExist
    <3> QED
      BY <2>2, <3>1, <3>2
  <2>4. CASE c = Start(q)
    <3>1. PICK p : p = <<t>>
      OBVIOUS
    <3>2. Trail(q, p) /\ Len(p) = 1 /\ p[1] = t
      BY <1>3, <2>3, <2>4, <3>1, FirstSteps
    <3>3. b.length = 1 /\ b.node = t.to
      BY <1>3, <2>1, <2>3, <2>4
    <3>4. Reaching(q, s.best, b, p)
      BY <3>2, <3>3 DEF Reaching
    <3> QED
      BY <3>4
  <2>5. CASE c # Start(q)
    <3>1. c.length = n - 1 /\ c.length \in Nat
      BY <1>2, <2>1
    <3>2. PICK p : Reaching(q, s.best, c, p)
      BY <1>6, <2>5, <3>1
    <3>3. Trail(q, p) /\ Len(p) = n - 1 /\ p[Len(p)].to = c.node
      BY <3>1, <3>2 DEF Reaching
    <3>4. ASSUME NEW i \in 1 .. Len(p), p[i].by = t.by
          PROVE  FALSE
      <4>1. p[i] \in StepsOf(q)
        BY <3>3 DEF Trail
      <4>2. PICK j \in DOMAIN q.graph : p[i].by = <<p[i].at, j>> /\ Across(q, j, p[i].at, p[i].to)
        BY <4>1, DownSteps
      <4>3. j = k /\ p[i].to = b.node
        BY <2>1, <2>3, <3>4, <4>2 DEF Across
      <4>4. PICK d \in s.best : d.node = p[i].to /\ d.length = i
        BY <3>2 DEF Reaching
      <4>5. d = b
        BY <1>2, <4>3, <4>4
      <4> QED
        BY <3>3, <4>4, <4>5
    <3>5. CanFollow(q, p, t)
      BY <2>3, <3>3, <3>4 DEF CanFollow
    <3>6. PICK l : l = Append(p, t)
      OBVIOUS
    <3>7. /\ Trail(q, l) /\ Len(l) = Len(p) + 1 /\ l[Len(p) + 1] = t
          /\ \A i \in 1 .. Len(p) : l[i] = p[i]
      <4>1. Trail(q, l) /\ Continued(p, t, l)
        BY <3>3, <3>5, <3>6, TrailGoesOn
      <4> QED
        BY <4>1 DEF Continued
    <3>8. Len(l) = n /\ l[n] = t
      BY <3>3, <3>7
    <3>9. ASSUME NEW i \in 1 .. n
          PROVE  \E d \in s.best : d.node = l[i].to /\ d.length = i
      <4>1. CASE i = n
        BY <2>3, <3>8, <4>1
      <4>2. CASE i # n
        <5>1. i \in 1 .. Len(p)
          BY <3>3, <4>2
        <5> QED
          BY <3>2, <3>7, <5>1 DEF Reaching
      <4> QED
        BY <4>1, <4>2
    <3>10. Reaching(q, s.best, b, l)
      BY <2>3, <3>7, <3>8, <3>9 DEF Reaching
    <3> QED
      BY <3>10
  <2> QED
    BY <2>4, <2>5
<1>7. \A n \in 0 .. D : n \in P
  <2> HIDE DEF P
  <2>1. 0 \in 0 .. D /\ D \in Nat
    OBVIOUS
  <2> QED
    BY <1>5, <1>6, <2>1, FromTo
<1>8. \A b \in s.best : b.length \in 0 .. D
  BY <1>1, <1>2
<1> QED
  BY <1>7, <1>8

\* Search and projection find the same nodes at the same distances.
LEMMA ImpactAgrees ==
  ASSUME NEW q, q = question, IsQuestion(q), q.direction = "down", SearchInv(q, search), Searched,
         Cardinality(Paths) <= RowLimit
  PROVE  search.affected = {r \in ProjectedImpact : r.node # question.subject}
<1>1. PICK s, paths, shown, D : s = search /\ paths = Paths /\ shown = {Row(p) : p \in LimitedPaths} /\ D = q.depth
  OBVIOUS
<1>2. SearchHolds(q, s) /\ s.queue = <<>> /\ \A b \in s.best : Settled(q, s, b)
  BY <1>1 DEF Searched, SearchInv
<1>3. LimitedPaths = paths /\ \A p : p \in paths <=> Trail(q, p) /\ Len(p) <= D
  BY <1>1, AllRows, PathsAre
<1>4. /\ D \in Nat /\ s.best \in SUBSET Distances /\ \A b \in s.best : b.length \in Nat /\ b.length <= D
      /\ s.affected = s.best \ {Start(q)} /\ Start(q) \in s.best
      /\ \A b, c \in s.best : b.node = c.node => b = c
  <2>1. D \in Nat
    BY <1>1, GraphFacts
  <2> QED
    BY <1>1, <1>2, <2>1 DEF SearchHolds, Searches, Distances
<1>5. Finished(q, s)
  <2>1. ASSUME NEW b \in s.best, b.length < q.depth
        PROVE  \A k \in DOMAIN q.graph : Passed(q, s.best, b, k)
    <3>1. b \notin Range(s.queue) /\ Settled(q, s, b)
      BY <1>2 DEF Range
    <3>2. ~(b.length >= q.depth)
      BY <1>1, <1>4, <2>1
    <3> QED
      BY <3>1, <3>2 DEF Settled
  <2> QED
    BY <1>2, <2>1 DEF Finished
<1>6. Start(q).node = q.subject /\ Start(q).length = 0
  BY DEF Start
<1>7. ASSUME NEW p \in paths
      PROVE  /\ Row(p).length = Len(p) /\ Row(p).node = p[Len(p)].to /\ Len(p) \in Nat \ {0}
             /\ \E c \in s.best : c.node = Row(p).node /\ c.length <= Len(p)
  <2>1. Trail(q, p) /\ Len(p) <= D
    BY <1>3
  <2>2. Len(p) \in Nat \ {0} /\ Len(p) \in 1 .. Len(p)
    BY <2>1 DEF Trail
  <2>3. Row(p).length = Len(p) /\ Row(p).node = p[Len(p)].to
    BY DEF Row, Last
  <2>4. \E c \in s.best : c.node = p[Len(p)].to /\ c.length <= Len(p)
    BY <1>1, <1>5, <2>1, <2>2, PathsAreNear
  <2> QED
    BY <2>2, <2>3, <2>4
<1>8. ASSUME NEW b \in s.best, b # Start(q)
      PROVE  b \in shown
  <2>1. PICK p : Reaching(q, s.best, b, p)
    BY <1>5, <1>8, NearHavePaths
  <2>2. Trail(q, p) /\ Len(p) = b.length /\ p[Len(p)].to = b.node
    BY <2>1 DEF Reaching
  <2>3. p \in paths
    BY <1>3, <1>4, <2>2
  <2>4. b = [node |-> b.node, length |-> b.length]
    BY <1>4 DEF Distances
  <2>5. Row(p) = b
    BY <2>2, <2>4 DEF Row, Last
  <2> QED
    BY <1>1, <1>3, <2>3, <2>5
<1>9. \A r \in shown : \E p \in paths : r = Row(p)
  BY <1>1, <1>3
<1>10. ASSUME NEW b \in s.affected
       PROVE  b \in shown /\ b.node # q.subject /\ \A r \in shown : r.node = b.node => b.length <= r.length
  <2>1. b \in s.best /\ b # Start(q)
    BY <1>4
  <2>2. b \in shown /\ b.node # q.subject
    BY <1>4, <1>6, <1>8, <2>1
  <2>3. ASSUME NEW r \in shown, r.node = b.node
        PROVE  b.length <= r.length
    <3>1. PICK p \in paths : r = Row(p)
      BY <1>9
    <3>2. PICK c \in s.best : c.node = r.node /\ c.length <= r.length
      BY <1>7, <3>1
    <3> QED
      BY <1>4, <2>1, <2>3, <3>2
  <2> QED
    BY <2>2, <2>3
<1>11. ASSUME NEW r \in shown, r.node # q.subject, \A o \in shown : o.node = r.node => r.length <= o.length
       PROVE  r \in s.affected
  <2>1. PICK p \in paths : r = Row(p)
    BY <1>9
  <2>2. PICK c \in s.best : c.node = r.node /\ c.length <= r.length
    BY <1>7, <2>1
  <2>3. c # Start(q)
    BY <1>6, <1>11, <2>2
  <2>4. c \in shown
    BY <1>8, <2>3
  <2>5. c.length = r.length
    <3>1. r.length <= c.length
      BY <1>11, <2>2, <2>4
    <3>2. r.length \in Nat /\ c.length \in Nat
      BY <1>4, <1>7, <2>1
    <3> QED
      BY <2>2, <3>1, <3>2
  <2>6. c = [node |-> c.node, length |-> c.length]
    BY <1>4 DEF Distances
  <2>7. r = [node |-> r.node, length |-> r.length]
    BY <2>1 DEF Row
  <2> QED
    BY <1>4, <2>2, <2>3, <2>5, <2>6, <2>7
<1>12. ProjectedImpact = {r \in shown : \A o \in shown : o.node = r.node => r.length <= o.length}
  BY <1>1 DEF ProjectedImpact
<1>13. s.affected = {r \in ProjectedImpact : r.node # q.subject}
  <2>1. \A x : x \in s.affected => x \in ProjectedImpact /\ x.node # q.subject
    BY <1>10, <1>12
  <2>2. \A x \in ProjectedImpact : x.node # q.subject => x \in s.affected
    BY <1>11, <1>12
  <2> QED
    BY <2>1, <2>2
<1> QED
  BY <1>1, <1>13

-----------------------------------------------------------------------------
(* Lineage in both backends.                                               *)

\* What a frontier discovers by an edge is where the steps by this edge lead from it.
LEMMA DiscoveredAre ==
  ASSUME NEW q, q = question, NEW k \in DOMAIN q.graph, NEW F
  PROVE  /\ Discovered(k, F) \subseteq EndsOf(k)
         /\ \A y : y \in Discovered(k, F) <=> \E s \in StepsOf(q) : s.at \in F /\ s.to = y /\ s.by[2] = k
<1>1. /\ Discovered(k, F) =
           (IF q.direction # "up" /\ q.graph[k].from \cap F # {} THEN {q.graph[k].to} ELSE {})
             \cup (IF q.direction # "down" /\ q.graph[k].to \in F THEN q.graph[k].from ELSE {})
      /\ EndsOf(k) = q.graph[k].from \cup {q.graph[k].to}
  BY DEF Discovered, EndsOf, Graph
<1>2. ASSUME NEW y \in Discovered(k, F)
      PROVE  \E s \in StepsOf(q) : s.at \in F /\ s.to = y /\ s.by[2] = k
  <2>1. CASE q.direction # "up" /\ q.graph[k].from \cap F # {} /\ y = q.graph[k].to
    <3>1. PICK x \in q.graph[k].from : x \in F
      BY <2>1
    <3>2. PICK s : s = [at |-> x, by |-> <<x, k>>, to |-> q.graph[k].to]
      OBVIOUS
    <3>3. s \in StepsOf(q) /\ s.at = x /\ s.to = y /\ s.by[2] = k
      BY <2>1, <3>2, StepsExist
    <3> QED
      BY <3>1, <3>3
  <2>2. CASE q.direction # "down" /\ q.graph[k].to \in F /\ y \in q.graph[k].from
    <3>1. PICK s : s = [at |-> q.graph[k].to, by |-> <<y, k>>, to |-> y]
      OBVIOUS
    <3>2. s \in StepsOf(q) /\ s.at \in F /\ s.to = y /\ s.by[2] = k
      BY <2>2, <3>1, StepsExist
    <3> QED
      BY <3>2
  <2> QED
    BY <1>1, <2>1, <2>2
<1>3. ASSUME NEW s \in StepsOf(q), s.at \in F, s.by[2] = k
      PROVE  s.to \in Discovered(k, F)
  <2>1. PICK j, x : /\ j \in DOMAIN q.graph /\ x \in q.graph[j].from /\ s.by = <<x, j>>
                    /\ \/ q.direction # "up" /\ s.at = x /\ s.to = q.graph[j].to
                       \/ q.direction # "down" /\ s.at = q.graph[j].to /\ s.to = x
    BY StepFacts
  <2>2. j = k
    BY <1>3, <2>1
  <2> QED
    BY <1>1, <1>3, <2>1, <2>2
<1> QED
  BY <1>1, <1>2, <1>3

\* Where a path has been a shorter one leads.
LEMMA TrailBegins ==
  ASSUME NEW q, NEW p, Trail(q, p), NEW i \in 1 .. Len(p)
  PROVE  \E r : Trail(q, r) /\ Len(r) = i /\ r[Len(r)].to = p[i].to
<1>1. PICK N \in Nat : N = Len(p)
  BY DEF Trail
<1>2. PICK S, r : S = StepsOf(q) /\ r = SubSeq(p, 1, i)
  OBVIOUS
<1>3. p \in Seq(S) /\ (\A j \in 1 .. N : p[j] \in S) /\ 1 \in Int /\ i \in Int /\ i \in 1 .. N
  BY <1>1, <1>2 DEF Trail
<1>4. r \in Seq(S) /\ Len(r) = i /\ \A j \in 1 .. i : r[j] = p[j]
  <2>1. /\ r \in Seq(S) /\ Len(r) = IF 1 <= i THEN i - 1 + 1 ELSE 0
        /\ \A j \in 1 .. i - 1 + 1 : r[j] = p[1 + j - 1]
    <3>1. \A j \in 1 .. i : p[j] \in S
      BY <1>3
    <3> QED
      BY <1>2, <1>3, <3>1, SubSeqProperties
  <2>2. \A j \in 1 .. i : 1 + j - 1 = j
    OBVIOUS
  <2> QED
    BY <1>3, <2>1, <2>2
<1>5. Trail(q, r)
  <2>1. r # <<>> /\ r[1].at = q.subject
    BY <1>3, <1>4 DEF Trail
  <2>2. \A j \in 1 .. i : j # 1 => r[j].at = r[j - 1].to
    <3> SUFFICES ASSUME NEW j \in 1 .. i, j # 1
                 PROVE  r[j].at = r[j - 1].to
      OBVIOUS
    <3>1. j - 1 \in 1 .. i /\ j \in 1 .. N
      BY <1>3
    <3>2. p[j].at = p[j - 1].to
      BY <1>1, <3>1 DEF Trail
    <3> QED
      BY <1>4, <3>1, <3>2
  <2>3. \A j, l \in 1 .. i : r[j].by = r[l].by => j = l
    <3>1. \A j \in 1 .. i : j \in 1 .. N
      BY <1>3
    <3>2. \A j, l \in 1 .. N : p[j].by = p[l].by => j = l
      BY <1>1 DEF Trail
    <3> QED
      BY <1>4, <3>1, <3>2
  <2> QED
    BY <1>2, <1>4, <2>1, <2>2, <2>3 DEF Trail
<1>6. r[Len(r)].to = p[i].to
  BY <1>3, <1>4
<1> QED
  BY <1>4, <1>5, <1>6

\* A node where a path of at most n steps leads, or the subject.
Reachable(q, x, n) ==
  x = q.subject \/ \E p : Trail(q, p) /\ Len(p) <= n /\ p[Len(p)].to = x

\* A step from such a node is on a path, and leads to such a node.
LEMMA StepFromReachable ==
  ASSUME NEW q, NEW s \in StepsOf(q), NEW n \in Nat, Reachable(q, s.at, n)
  PROVE  /\ \E p : Trail(q, p) /\ Len(p) <= n + 1 /\ \E i \in 1 .. Len(p) : p[i].by = s.by
         /\ Reachable(q, s.to, n + 1)
<1>1. CASE s.at = q.subject
  <2>1. PICK p : p = <<s>>
    OBVIOUS
  <2>2. Trail(q, p) /\ Len(p) = 1 /\ p[1] = s
    BY <1>1, <2>1, FirstSteps
  <2>3. Len(p) <= n + 1 /\ p[Len(p)] = s /\ 1 \in 1 .. Len(p)
    BY <2>2
  <2> QED
    BY <2>2, <2>3 DEF Reachable
<1>2. CASE s.at # q.subject
  <2>1. PICK p : Trail(q, p) /\ Len(p) <= n /\ p[Len(p)].to = s.at
    BY <1>2 DEF Reachable
  <2>2. Len(p) \in Nat /\ p \in Seq(StepsOf(q)) /\ Len(p) <= n + 1
    BY <2>1 DEF Trail
  <2>3. CASE \A i \in 1 .. Len(p) : p[i].by # s.by
    <3>1. CanFollow(q, p, s)
      BY <2>1, <2>3 DEF CanFollow
    <3>2. PICK l : l = Append(p, s)
      OBVIOUS
    <3>3. Trail(q, l) /\ Continued(p, s, l)
      BY <2>1, <3>1, <3>2, TrailGoesOn
    <3>4. Len(l) <= n + 1 /\ l[Len(l)] = s /\ Len(l) \in 1 .. Len(l)
      BY <2>1, <2>2, <3>3 DEF Continued
    <3> QED
      BY <3>3, <3>4 DEF Reachable
  <2>4. ASSUME NEW i \in 1 .. Len(p), p[i].by = s.by
        PROVE  Reachable(q, s.to, n + 1)
    <3>1. p[i] \in StepsOf(q)
      BY <2>2
    <3>2. PICK k, x : /\ k \in DOMAIN q.graph /\ s.by = <<x, k>>
                      /\ \/ s.at = x /\ s.to = q.graph[k].to
                         \/ s.at = q.graph[k].to /\ s.to = x
      BY StepFacts
    <3>3. PICK j, y : /\ j \in DOMAIN q.graph /\ p[i].by = <<y, j>>
                      /\ \/ p[i].at = y /\ p[i].to = q.graph[j].to
                         \/ p[i].at = q.graph[j].to /\ p[i].to = y
      BY <3>1, StepFacts
    <3>4. j = k /\ y = x
      BY <2>4, <3>2, <3>3
    <3>5. p[i].to = s.to \/ p[i].at = s.to
      BY <3>2, <3>3, <3>4
    <3>6. CASE p[i].to = s.to
      <4>1. PICK r : Trail(q, r) /\ Len(r) = i /\ r[Len(r)].to = p[i].to
        BY <2>1, TrailBegins
      <4>2. i <= n + 1
        BY <2>1, <2>2
      <4> QED
        BY <3>6, <4>1, <4>2 DEF Reachable
    <3>7. CASE p[i].at = s.to /\ i = 1
      BY <2>1, <3>7 DEF Trail, Reachable
    <3>8. CASE p[i].at = s.to /\ i # 1
      <4>1. PICK h \in 1 .. Len(p) : h = i - 1 /\ h <= n + 1
        BY <2>1, <2>2, <3>8
      <4>2. p[h].to = s.to
        BY <2>1, <3>8, <4>1 DEF Trail
      <4>3. PICK r : Trail(q, r) /\ Len(r) = h /\ r[Len(r)].to = p[h].to
        BY <2>1, TrailBegins
      <4> QED
        BY <4>1, <4>2, <4>3 DEF Reachable
    <3> QED
      BY <3>5, <3>6, <3>7, <3>8
  <2> QED
    BY <2>1, <2>2, <2>3, <2>4
<1> QED
  BY <1>1, <1>2

Walks == [nodes : SUBSET Urns, selected : SUBSET Nat, frontier : SUBSET Urns, rounds : Nat]

\* Upstream, who is not in the frontier has been followed; and so have been the beginnings
\* of all paths.
Followed(q, w, s) == s.by[2] \in w.selected /\ s.to \in w.nodes
WalkInv(q, w) ==
  /\ w \in Walks /\ w.rounds <= q.depth /\ q.subject \in w.nodes /\ w.frontier \subseteq w.nodes
  /\ \A x \in w.frontier : Reachable(q, x, w.rounds)
  /\ \A k \in w.selected : \E p : Trail(q, p) /\ Len(p) <= q.depth /\ \E i \in 1 .. Len(p) : p[i].by[2] = k
  /\ q.direction = "up" =>
       /\ \A s \in StepsOf(q) : s.at \in w.nodes \ w.frontier => Followed(q, w, s)
       /\ \A p : Trail(q, p) => \A i \in 1 .. Len(p) : i <= w.rounds => Followed(q, w, p[i])

\* A neighbourhood starts with the subject as its frontier.
LEMMA WalkStarts ==
  ASSUME NEW q, IsQuestion(q), NEW w, w = [NoWalk EXCEPT !.nodes = {q.subject}, !.frontier = {q.subject}]
  PROVE  WalkInv(q, w)
<1>1. PICK one, none, zero : one = {q.subject} /\ none = {} /\ zero = 0
  OBVIOUS
<1>2. /\ w = [nodes |-> one, selected |-> none, frontier |-> one, rounds |-> zero]
      /\ w.nodes = one /\ w.selected = none /\ w.frontier = one /\ w.rounds = zero
  BY <1>1 DEF NoWalk
<1>3. q.subject \in Urns /\ q.depth \in Nat /\ zero \in Nat /\ zero <= q.depth
  BY <1>1, GraphFacts
<1>4. w \in Walks
  BY <1>1, <1>2, <1>3 DEF Walks
<1>5. \A i \in Nat \ {0} : ~(i <= zero)
  BY <1>1
<1>6. \A p : Trail(q, p) => \A i \in 1 .. Len(p) : i \in Nat \ {0}
  BY DEF Trail
<1>7. \A x \in w.frontier : Reachable(q, x, w.rounds)
  BY <1>1, <1>2 DEF Reachable
<1>8. w.nodes \ w.frontier = {} /\ w.selected = {}
  BY <1>1, <1>2
<1> QED
  BY <1>1, <1>2, <1>3, <1>4, <1>5, <1>6, <1>7, <1>8 DEF WalkInv

\* A round follows every edge of its frontier, and what is new of it is the next frontier.
LEMMA RoundKeeps ==
  ASSUME NEW q, q = question, IsQuestion(q), WalkInv(q, walk), WalkRound
  PROVE  WalkInv(q, walk')
<1> DEFINE Before(nodes, met, k) == nodes \cup UNION {EndsOf(j) : j \in {i \in met : i < k}}
<1>1. PICK w, v, F, met : w = walk /\ v = walk' /\ F = walk.frontier /\ met = {k \in DOMAIN q.graph : Discovered(k, F) # {}}
  OBVIOUS
<1>2. /\ v = [nodes |-> w.nodes \cup UNION {EndsOf(k) : k \in met}, selected |-> w.selected \cup met,
              frontier |-> UNION {Discovered(k, F) \ Before(w.nodes, met, k) : k \in met}, rounds |-> w.rounds + 1]
      /\ w.rounds < q.depth
  BY <1>1 DEF WalkRound, Keys, Graph
<1>3. /\ v.nodes = w.nodes \cup UNION {EndsOf(k) : k \in met} /\ v.selected = w.selected \cup met
      /\ v.frontier = UNION {Discovered(k, F) \ Before(w.nodes, met, k) : k \in met} /\ v.rounds = w.rounds + 1
  BY <1>2
<1>4. WalkInv(q, w) /\ w \in Walks /\ w.frontier = F /\ F \subseteq w.nodes /\ w.nodes \in SUBSET Urns /\ w.rounds \in Nat
      /\ w.selected \in SUBSET Nat
  BY <1>1 DEF WalkInv, Walks
<1>5. \A k \in DOMAIN q.graph : k \in Nat /\ EndsOf(k) \in SUBSET Urns /\ Discovered(k, F) \subseteq EndsOf(k)
  <2>1. \A k \in DOMAIN q.graph : k \in Nat /\ EndsOf(k) \in SUBSET Urns
    BY GraphFacts DEF EndsOf, Graph
  <2> QED
    BY <2>1, DiscoveredAre
<1>6. met \subseteq DOMAIN q.graph /\ \A k \in met : EndsOf(k) \subseteq v.nodes /\ k \in v.selected
  BY <1>1, <1>3
<1>7. v \in Walks /\ v.frontier \subseteq v.nodes
  <2>1. v.nodes \in SUBSET Urns /\ v.selected \in SUBSET Nat /\ v.rounds \in Nat
    BY <1>3, <1>4, <1>5, <1>6
  <2>2. v.frontier \subseteq v.nodes
    BY <1>3, <1>5, <1>6
  <2>3. v = [nodes |-> v.nodes, selected |-> v.selected, frontier |-> v.frontier, rounds |-> v.rounds]
    BY <1>2, <1>3
  <2> QED
    BY <2>1, <2>2, <2>3 DEF Walks
<1>8. v.rounds <= q.depth /\ q.depth \in Nat
  <2>1. q.depth \in Nat
    BY GraphFacts
  <2> QED
    BY <1>2, <1>3, <1>4, <2>1
<1>9. q.subject \in v.nodes /\ q.subject \in w.nodes
  BY <1>3, <1>4 DEF WalkInv
<1>10. ASSUME NEW x \in v.frontier
       PROVE  Reachable(q, x, v.rounds)
  <2>1. PICK k \in met : x \in Discovered(k, F)
    BY <1>3
  <2>2. PICK s \in StepsOf(q) : s.at \in F /\ s.to = x
    BY <1>6, <2>1, DiscoveredAre
  <2>3. Reachable(q, s.at, w.rounds)
    BY <1>4, <2>2 DEF WalkInv
  <2> QED
    BY <1>3, <1>4, <2>2, <2>3, StepFromReachable
<1>11. ASSUME NEW k \in v.selected
       PROVE  \E p : Trail(q, p) /\ Len(p) <= q.depth /\ \E i \in 1 .. Len(p) : p[i].by[2] = k
  <2>1. CASE k \in w.selected
    BY <1>4, <2>1 DEF WalkInv
  <2>2. CASE k \in met
    <3>1. PICK s \in StepsOf(q) : s.at \in F /\ s.by[2] = k
      BY <1>1, <1>6, <2>2, DiscoveredAre
    <3>2. Reachable(q, s.at, w.rounds)
      BY <1>4, <3>1 DEF WalkInv
    <3>3. PICK p : Trail(q, p) /\ Len(p) <= w.rounds + 1 /\ \E i \in 1 .. Len(p) : p[i].by = s.by
      BY <1>4, <3>2, StepFromReachable
    <3>4. Len(p) <= q.depth
      <4>1. Len(p) \in Nat
        BY <3>3 DEF Trail
      <4> QED
        BY <1>2, <1>4, <1>8, <3>3, <4>1
    <3> QED
      BY <3>1, <3>3, <3>4
  <2> QED
    BY <1>3, <2>1, <2>2
<1>12. ASSUME NEW s \in StepsOf(q), q.direction = "up", s.at \in w.nodes
       PROVE  Followed(q, v, s)
  <2>1. CASE s.at \in F
    <3>1. PICK k \in DOMAIN q.graph : s.by[2] = k
      BY StepFacts
    <3>2. s.to \in Discovered(k, F)
      BY <2>1, <3>1, DiscoveredAre
    <3>3. k \in met /\ s.to \in EndsOf(k)
      BY <1>1, <1>5, <3>2
    <3> QED
      BY <1>6, <3>1, <3>3 DEF Followed
  <2>2. CASE s.at \notin F
    <3>1. Followed(q, w, s)
      BY <1>4, <1>12, <2>2 DEF WalkInv
    <3> QED
      BY <1>3, <3>1 DEF Followed
  <2> QED
    BY <2>1, <2>2
<1>13. ASSUME q.direction = "up", NEW x \in v.nodes, x \notin w.nodes
       PROVE  x \in v.frontier
  <2> DEFINE T == {k \in met : x \in EndsOf(k)}
  <2>1. T # {} /\ T \in SUBSET Nat
    BY <1>3, <1>5, <1>6, <1>13
  <2>2. PICK k \in T : \A j \in T : k <= j
    <3> HIDE DEF T
    <3> QED
      BY <2>1, LeastNumber
  <2>3. x \notin Before(w.nodes, met, k)
    <3>1. \A j \in met : j < k => x \notin EndsOf(j)
      <4>1. \A j \in met : j \in Nat
        BY <1>5, <1>6
      <4> QED
        BY <2>1, <2>2, <4>1
    <3> QED
      BY <1>13, <3>1
  <2>4. x \in Discovered(k, F)
    <3>1. k \in DOMAIN q.graph /\ Discovered(k, F) # {}
      BY <1>1, <2>2
    <3>2. q.graph[k].to \in F /\ Discovered(k, F) = q.graph[k].from
      BY <1>13, <3>1 DEF Discovered, Graph
    <3>3. x \in q.graph[k].from \cup {q.graph[k].to}
      BY <2>2 DEF EndsOf, Graph
    <3> QED
      BY <1>4, <1>13, <3>2, <3>3
  <2> QED
    BY <1>3, <2>2, <2>3, <2>4
<1>14. ASSUME q.direction = "up", NEW s \in StepsOf(q), s.at \in v.nodes \ v.frontier
       PROVE  Followed(q, v, s)
  BY <1>12, <1>13, <1>14
<1>15. ASSUME q.direction = "up", NEW p, Trail(q, p), NEW i \in 1 .. Len(p), i <= v.rounds
       PROVE  Followed(q, v, p[i])
  <2>1. p[i] \in StepsOf(q)
    BY <1>15 DEF Trail
  <2>2. CASE i = 1
    <3>1. p[i].at = q.subject
      BY <1>15, <2>2 DEF Trail
    <3> QED
      BY <1>9, <1>12, <1>15, <2>1, <3>1
  <2>3. CASE i # 1
    <3>1. i - 1 \in 1 .. Len(p) /\ i - 1 <= w.rounds
      BY <1>3, <1>4, <1>15, <2>3
    <3>2. Followed(q, w, p[i - 1])
      BY <1>4, <1>15, <3>1 DEF WalkInv
    <3>3. p[i].at = p[i - 1].to
      BY <1>15, <2>3 DEF Trail
    <3> QED
      BY <1>12, <1>15, <2>1, <3>2, <3>3 DEF Followed
  <2> QED
    BY <2>2, <2>3
<1>16. WalkInv(q, v)
  BY <1>7, <1>8, <1>9, <1>10, <1>11, <1>14, <1>15 DEF WalkInv
<1> QED
  BY <1>1, <1>16

\* When the rounds are over, every edge of the neighbourhood is on a row; upstream no row has another.
LEMMA LineageAgrees ==
  ASSUME NEW q, q = question, IsQuestion(q), WalkInv(q, walk), Walked, Cardinality(Paths) <= RowLimit
  PROVE  /\ walk.selected \subseteq ProjectedLineage
         /\ question.direction = "up" => walk.selected = ProjectedLineage
<1>1. PICK w, paths : w = walk /\ paths = Paths
  OBVIOUS
<1>2. LimitedPaths = paths /\ \A p : p \in paths <=> Trail(q, p) /\ Len(p) <= q.depth
  BY <1>1, AllRows, PathsAre
<1>3. \A k : k \in ProjectedLineage <=> \E p \in paths : \E i \in 1 .. Len(p) : k = p[i].by[2]
  <2>1. \A p \in paths : DOMAIN p = 1 .. Len(p)
    BY <1>2 DEF Trail
  <2> QED
    BY <1>2, <2>1 DEF ProjectedLineage
<1>4. WalkInv(q, w) /\ (w.frontier = {} \/ w.rounds = q.depth) /\ q.depth \in Nat
  BY <1>1, GraphFacts DEF Walked
<1>5. w.selected \subseteq ProjectedLineage
  <2>1. ASSUME NEW k \in w.selected
        PROVE  k \in ProjectedLineage
    <3>1. PICK p : Trail(q, p) /\ Len(p) <= q.depth /\ \E i \in 1 .. Len(p) : p[i].by[2] = k
      BY <1>4 DEF WalkInv
    <3> QED
      BY <1>2, <1>3, <3>1
  <2> QED
    BY <2>1
<1>6. ASSUME q.direction = "up", NEW p \in paths, NEW i \in 1 .. Len(p)
      PROVE  Followed(q, w, p[i])
  <2>1. Trail(q, p) /\ Len(p) <= q.depth
    BY <1>2
  <2>2. PICK N \in Nat : N = Len(p)
    BY <2>1 DEF Trail
  <2>3. CASE w.rounds = q.depth
    <3>1. i <= w.rounds
      BY <1>4, <2>1, <2>2, <2>3
    <3> QED
      BY <1>4, <1>6, <2>1, <3>1 DEF WalkInv
  <2>4. CASE w.frontier = {}
    <3> DEFINE P == {j \in 1 .. N : Followed(q, w, p[j])}
    <3>1. \A j \in 1 .. N : p[j] \in StepsOf(q)
      BY <2>1, <2>2 DEF Trail
    <3>2. \A s \in StepsOf(q) : s.at \in w.nodes => Followed(q, w, s)
      BY <1>4, <1>6, <2>4 DEF WalkInv
    <3>3. 1 \in 1 .. N /\ 1 \in 0 .. N
      BY <2>2
    <3>4. 1 \in P
      <4>1. p[1].at = q.subject /\ q.subject \in w.nodes
        BY <1>4, <2>1 DEF Trail, WalkInv
      <4> QED
        BY <3>1, <3>2, <3>3, <4>1
    <3>5. ASSUME NEW j \in 1 + 1 .. N, j - 1 \in P
          PROVE  j \in P
      <4>1. p[j].at = p[j - 1].to
        BY <2>1, <2>2 DEF Trail
      <4>2. p[j - 1].to \in w.nodes
        BY <3>5 DEF Followed
      <4>3. j \in 1 .. N
        OBVIOUS
      <4> QED
        BY <3>1, <3>2, <4>1, <4>2, <4>3
    <3>6. \A j \in 1 .. N : j \in P
      <4> HIDE DEF P
      <4> QED
        BY <3>3, <3>4, <3>5, FromTo
    <3> QED
      BY <2>2, <3>6
  <2> QED
    BY <1>4, <2>3, <2>4
<1>7. q.direction = "up" => ProjectedLineage \subseteq w.selected
  BY <1>3, <1>6 DEF Followed
<1> QED
  BY <1>1, <1>5, <1>7

-----------------------------------------------------------------------------
(* Questions and their answers.                                            *)

\* A question is about one of the graphs, and its answer is that far.
QueryInv ==
  \/ question = NoQuestion /\ walk = NoWalk /\ search = NoSearch
  \/ question.kind = "LINEAGE" /\ IsQuestion(question) /\ WalkInv(question, walk)
  \/ question.kind = "IMPACT" /\ IsQuestion(question) /\ question.direction = "down" /\ SearchInv(question, search)

LEMMA QueryStarts == QueryInit => QueryInv
BY DEF QueryInit, QueryInv

LEMMA QueryStays ==
  ASSUME QueryInv, UNCHANGED queryVars
  PROVE  QueryInv'
<1>1. question' = question /\ walk' = walk /\ search' = search
  BY DEF queryVars
<1>2. PICK q, w, s : q = question /\ w = walk /\ s = search /\ q = question' /\ w = walk' /\ s = search'
  BY <1>1
<1>3. \/ q = NoQuestion /\ w = NoWalk /\ s = NoSearch
      \/ q.kind = "LINEAGE" /\ IsQuestion(q) /\ WalkInv(q, w)
      \/ q.kind = "IMPACT" /\ IsQuestion(q) /\ q.direction = "down" /\ SearchInv(q, s)
  BY <1>2 DEF QueryInv
<1> QED
  BY <1>2, <1>3 DEF QueryInv

\* A question starts its answer, and each step of an answer keeps what it knows true.
LEMMA QueryMoves ==
  ASSUME QueryInv, QueryNext
  PROVE  QueryInv'
<1>1. PICK q : q = question
  OBVIOUS
<1>2. NoQuestion.kind = "NONE"
  BY DEF NoQuestion
<1>3. CASE AskLineage
  <2>1. PICK g \in Graphs, x \in Subjects, d \in Depths, direction \in {"up", "down", "both"} :
          /\ question' = [kind |-> "LINEAGE", graph |-> g, subject |-> x, direction |-> direction, depth |-> d]
          /\ walk' = [NoWalk EXCEPT !.nodes = {x}, !.frontier = {x}]
    BY <1>3 DEF AskLineage
  <2>2. PICK a, w : a = question' /\ w = walk'
    OBVIOUS
  <2>3. a.kind = "LINEAGE" /\ a.graph = g /\ a.subject = x /\ a.depth = d
    BY <2>1, <2>2
  <2>4. IsQuestion(a)
    BY <2>1, <2>3 DEF IsQuestion
  <2>5. w = [NoWalk EXCEPT !.nodes = {a.subject}, !.frontier = {a.subject}]
    BY <2>1, <2>2, <2>3
  <2>6. WalkInv(a, w)
    BY <2>4, <2>5, WalkStarts
  <2> QED
    BY <2>2, <2>3, <2>4, <2>6 DEF QueryInv
<1>4. CASE WalkRound
  <2>1. q.kind = "LINEAGE" /\ question' = q
    BY <1>1, <1>4 DEF WalkRound
  <2>2. IsQuestion(q) /\ WalkInv(q, walk)
    BY <1>1, <1>2, <2>1 DEF QueryInv
  <2>3. WalkInv(q, walk')
    BY <1>1, <1>4, <2>2, RoundKeeps
  <2> QED
    BY <2>1, <2>2, <2>3 DEF QueryInv
<1>5. CASE AskImpact
  <2>1. PICK g \in Graphs, x \in Subjects, d \in Depths :
          /\ question' = [kind |-> "IMPACT", graph |-> g, subject |-> x, direction |-> "down", depth |-> d]
          /\ search' = [NoSearch EXCEPT !.queue = <<[node |-> x, length |-> 0]>>,
                                        !.best = {[node |-> x, length |-> 0]}]
    BY <1>5 DEF AskImpact
  <2>2. PICK a, s : a = question' /\ s = search'
    OBVIOUS
  <2>3. a.kind = "IMPACT" /\ a.graph = g /\ a.subject = x /\ a.depth = d /\ a.direction = "down"
    BY <2>1, <2>2
  <2>4. IsQuestion(a)
    BY <2>1, <2>3 DEF IsQuestion
  <2>5. s = [NoSearch EXCEPT !.queue = <<[node |-> a.subject, length |-> 0]>>,
                             !.best = {[node |-> a.subject, length |-> 0]}]
    BY <2>1, <2>2, <2>3
  <2>6. SearchInv(a, s)
    BY <2>4, <2>5, SearchStarts
  <2> QED
    BY <2>2, <2>3, <2>4, <2>6 DEF QueryInv
<1>6. CASE VisitNode
  <2>1. q.kind = "IMPACT" /\ question' = q
    BY <1>1, <1>6 DEF VisitNode
  <2>2. IsQuestion(q) /\ q.direction = "down" /\ SearchInv(q, search)
    BY <1>1, <1>2, <2>1 DEF QueryInv
  <2>3. SearchInv(q, search')
    BY <1>1, <1>6, <2>2, VisitKeeps
  <2> QED
    BY <2>1, <2>2, <2>3 DEF QueryInv
<1> QED
  BY <1>3, <1>4, <1>5, <1>6 DEF QueryNext

\* An answer that is finished is what AnswersAreWhole says of it.
LEMMA QueryShows == QueryInv => AnswersAreWhole
<1> SUFFICES ASSUME QueryInv
             PROVE  AnswersAreWhole
  OBVIOUS
<1>1. PICK q : q = question
  OBVIOUS
<1>2. NoQuestion.kind = "NONE"
  BY DEF NoQuestion
<1>3. ASSUME Searched
      PROVE  IsQuestion(q) /\ q.direction = "down" /\ SearchInv(q, search)
  BY <1>1, <1>2, <1>3 DEF QueryInv, Searched
<1>4. ASSUME Walked
      PROVE  IsQuestion(q) /\ WalkInv(q, walk)
  BY <1>1, <1>2, <1>4 DEF QueryInv, Walked
<1>5. ImpactIsWhole
  <2>1. CASE Searched
    BY <1>1, <1>3, <2>1, ImpactWhole
  <2>2. CASE ~Searched
    BY <2>2 DEF ImpactIsWhole
  <2> QED
    BY <2>1, <2>2
<1>9. ASSUME IsQuestion(q), ~ProjectionTruncated
      PROVE  Cardinality(Paths) <= RowLimit
  BY <1>1, <1>9, RowsAreMany
<1>6. ASSUME Searched, ~ProjectionTruncated
      PROVE  /\ search.affected = {r \in ProjectedImpact : r.node # question.subject}
             /\ WholeProjection \/ search.truncated
  <2>1. PICK found, shown, below, x :
          found = search.affected /\ shown = ProjectedImpact /\ below = Downstream /\ x = question.subject
    OBVIOUS
  <2>2. found = {r \in shown : r.node # x}
    BY <1>1, <1>3, <1>6, <1>9, <2>1, ImpactAgrees
  <2>3. ~search.truncated => {a.node : a \in found} \cup {x} = below
    BY <1>5, <1>6, <2>1 DEF ImpactIsWhole
  <2>4. {r.node : r \in shown} \cup {x} = {a.node : a \in found} \cup {x}
    BY <2>2
  <2> QED
    BY <2>1, <2>2, <2>3, <2>4 DEF WholeProjection
<1>7. ASSUME Walked, ~ProjectionTruncated
      PROVE  /\ walk.selected \subseteq ProjectedLineage
             /\ question.direction = "up" => walk.selected = ProjectedLineage
  BY <1>1, <1>4, <1>7, <1>9, LineageAgrees
<1>8. BackendsAgree
  BY <1>6, <1>7 DEF BackendsAgree
<1> QED
  BY <1>5, <1>8 DEF AnswersAreWhole

-----------------------------------------------------------------------------
(* The room.                                                               *)

\* Whichever part a behaviour follows, each part keeps its invariant.
RoomInv == part \in Parts /\ PinnedInv /\ GateInv /\ SourceInv /\ RunnerInv /\ EdgeInv /\ QueryInv

LEMMA RoomStarts == Init => RoomInv
BY PinnedStarts, GateStarts, SourceStarts, RunnerStarts, EdgeStarts, QueryStarts DEF Init, RoomInv

LEMMA RoomMoves ==
  ASSUME RoomInv, Next
  PROVE  RoomInv'
<1>1. PinnedInv /\ GateInv /\ SourceInv /\ RunnerInv /\ EdgeInv /\ QueryInv /\ part' \in Parts
  BY DEF RoomInv, Next
<1>2. UNCHANGED pinnedVars => PinnedInv'
  BY <1>1, PinnedStays
<1>3. UNCHANGED gateVars => GateInv'
  BY <1>1, GateStays
<1>4. UNCHANGED sourceVars => SourceInv'
  BY <1>1, SourceStays
<1>5. UNCHANGED runnerVars => RunnerInv'
  BY <1>1, RunnerStays DEF runnerVars
<1>6. ASSUME part \subseteq Runs, PinnedNext(part)
      PROVE  PinnedInv'
  BY <1>1, <1>6, PinnedMoves
<1>7. UNCHANGED edgeVersions => EdgeInv'
  BY <1>1, EdgeStays
<1>8. UNCHANGED queryVars => QueryInv'
  BY <1>1, QueryStays
<1>9. QueryNext => QueryInv'
  BY <1>1, QueryMoves
<1> QED
  BY <1>1, <1>2, <1>3, <1>4, <1>5, <1>6, <1>7, <1>8, <1>9, GateMoves, SourceMoves, RunnerMoves, EdgeMoves DEF Next, RoomInv

LEMMA RoomStays ==
  ASSUME RoomInv, UNCHANGED controlVars
  PROVE  RoomInv'
<1>1. UNCHANGED <<part, pinnedVars, gateVars, sourceVars, runnerVars, queryVars, edgeVersions>>
  BY DEF controlVars
<1> QED
  BY <1>1, PinnedStays, GateStays, SourceStays, RunnerStays, EdgeStays, QueryStays DEF RoomInv, runnerVars

\* The invariant of the room holds for every instance of its parts.
THEOREM RoomIsSound == Spec => []RoomInv
<1>1. RoomInv /\ [Next]_controlVars => RoomInv'
  BY RoomMoves, RoomStays
<1> QED
  BY <1>1, RoomStarts, PTL DEF Spec

\* What is pushed for a revision is what that revision commits, for any edits of the
\* checkout between the Git invocations of any number of submissions.
THEOREM Snapshots == Spec => []SnapshotIsTheRevision
<1>1. RoomInv => SnapshotIsTheRevision
  BY SourceShows DEF RoomInv
<1> QED
  BY <1>1, RoomIsSound, PTL

\* A stored PASS, of the gate of the cloud or of the local product, was true at moments of
\* its evaluation, for any number of runs and movements of head, pointer and deployment.
THEOREM Passes == Spec => []PassesWereTrue
<1>1. RoomInv => PassesWereTrue
  BY GateShows DEF RoomInv, PinnedInv, PassesWereTrue
<1> QED
  BY <1>1, RoomIsSound, PTL

\* A nightly report without alerts is true, for any manifest and any limit of the drain.
THEOREM QuietReports == Spec => []QuietReportIsTrue
<1>1. RoomInv => QuietReportIsTrue
  BY DEF RoomInv, PinnedInv
<1> QED
  BY <1>1, RoomIsSound, PTL

\* The active graph has every edge of its revision, for any order of submissions, reviews,
\* publications, deployments and failures.
THEOREM GraphsAreOfRevisions == Spec => []GraphHasItsRevision
<1>1. RoomInv => GraphHasItsRevision
  BY DEF RoomInv, RunnerInv
<1> QED
  BY <1>1, RoomIsSound, PTL

\* A check that another one has replaced does not come back.
THEOREM ChecksDoNotReturn == Spec => NoCheckReturns
<1>1. RoomInv /\ [Next]_controlVars =>
        [\A c \in announced : checks[HeadOf[c.gate]] # c => checks'[HeadOf[c.gate]] # c]_pinnedVars
  <2> SUFFICES ASSUME RoomInv, Next
               PROVE  \/ UNCHANGED pinnedVars
                      \/ \A c \in announced : checks[HeadOf[c.gate]] # c => checks'[HeadOf[c.gate]] # c
    BY DEF controlVars
  <2>1. UNCHANGED pinnedVars \/ (part \subseteq Runs /\ PinnedNext(part))
    BY DEF Next
  <2> QED
    BY <2>1, ChecksStayReplaced DEF RoomInv
<1> QED
  BY <1>1, RoomIsSound, PTL DEF Spec, NoCheckReturns

\* A local answer about impact that is not flagged as cut short is whole, and an answer of
\* the projection that is not flagged is the local one and is whole unless that is flagged,
\* for any finite graph, subject, depth and direction and any limit of the rows.
THEOREM Answers == Spec => []AnswersAreWhole
<1>1. RoomInv => AnswersAreWhole
  BY QueryShows DEF RoomInv
<1> QED
  BY <1>1, RoomIsSound, PTL

\* The transform shown for an edge depends on the evidence merged so far, not on the order
\* it came in, for any evidence.
THEOREM OrderForgotten == Spec => []OrderIsForgotten
<1>1. RoomInv => OrderIsForgotten
  BY Forgotten DEF RoomInv
<1> QED
  BY <1>1, RoomIsSound, PTL

\* More evidence never lowers the band of an edge, its corroboration by elements or its
\* conflict, for any evidence in any order.
THEOREM EvidenceOnlyAdds == Spec => ConfidenceGrows
<1> DEFINE Grown ==
      edgeVersions # <<>> =>
        /\ Rank[Last(edgeVersions').band] >= Rank[Last(edgeVersions).band]
        /\ Last(edgeVersions).corroboration = "ELEMENT" => Last(edgeVersions').corroboration = "ELEMENT"
        /\ Last(edgeVersions).status = "CONFLICTING" => Last(edgeVersions').status = "CONFLICTING"
<1>1. RoomInv /\ [Next]_controlVars => [Grown]_edgeVersions
  <2> SUFFICES ASSUME RoomInv, Next
               PROVE  UNCHANGED edgeVersions \/ Grown
    BY DEF controlVars
  <2>1. UNCHANGED edgeVersions \/ EdgeNext
    BY DEF Next
  <2> QED
    BY <2>1, MergesGrow DEF RoomInv
<1> QED
  BY <1>1, RoomIsSound, PTL DEF Spec, ConfidenceGrows

\* Nothing shown turns back: neither a check that was replaced nor the confidence in an edge.
THEOREM RoomTurnsNothingBack == Spec => NothingTurnsBack
BY ChecksDoNotReturn, EvidenceOnlyAdds DEF NothingTurnsBack
=============================================================================
