------------------------------ MODULE LocalGate ------------------------------
(***************************************************************************)
(* The pull request gate of the local product                              *)
(* (application/workflows/pr_gate.py, infrastructure/sqlite_pr_gate.py)    *)
(* with the readers that dependencies.py gives it: the head it is asked    *)
(* about is the head it reads, an environment has a pointer or not, and    *)
(* the impact of a change is read from the pinned version.                 *)
(***************************************************************************)
EXTENDS Naturals, Sequences, FiniteSets

CONSTANTS
  Evaluations,    \* requests for a verdict
  CheckOfHead,    \* evaluation -> identity of its check: repository, pull request and head
  Targeted,       \* evaluations whose target environment has a pointer
  FullyCovered,   \* evaluations with complete coverage
  ChangesOf,      \* evaluation -> sequence of [found, llmOnly]; found: version -> what the impact says
  LocalVersions,  \* versions of the graph
  MaxPointerMoves

Found == {"WARN", "BLOCK", "TRUNCATED"}

ASSUME LocalGateAssumption ==
  /\ Targeted \subseteq Evaluations /\ FullyCovered \subseteq Evaluations
  /\ DOMAIN CheckOfHead = Evaluations /\ MaxPointerMoves \in Nat
  /\ LocalVersions # {}
  /\ \A e \in Evaluations : Len(ChangesOf[e]) > 0 /\
       ChangesOf[e] \in Seq([found : [LocalVersions -> SUBSET Found], llmOnly : BOOLEAN])

VARIABLES
  served,       \* the pointer of the environment: version and fencing token
  evaluation,   \* evaluation -> its progress; "moved" records that the pointer moved meanwhile
  headCheck     \* the stored checks

gateVars == <<served, evaluation, headCheck>>

NoPin == [version |-> "NONE", token |-> 0]
NotEvaluated == [at |-> "ASKED", pin |-> NoPin, next |-> 1, reasons |-> {}, block |-> FALSE, moved |-> FALSE]
NoHeadCheck == [verdict |-> "NONE", by |-> "NONE"]

LocalGateInit ==
  /\ served = [version |-> CHOOSE v \in LocalVersions : TRUE, token |-> 1]
  /\ evaluation = [e \in Evaluations |-> NotEvaluated]
  /\ headCheck = [c \in {CheckOfHead[e] : e \in Evaluations} |-> NoHeadCheck]

\* A publication, a rollback or a promotion, also of the version that is active.
MovePointerTo(version) ==
  /\ served.token <= MaxPointerMoves
  /\ served' = [version |-> version, token |-> served.token + 1]
  /\ evaluation' = [e \in Evaluations |-> [evaluation[e] EXCEPT !.moved = @ \/ evaluation[e].at = "CHANGES"]]
  /\ UNCHANGED headCheck

PinOf(e) == IF e \in Targeted THEN served ELSE NoPin
Reason(condition, reason) == IF condition THEN {reason} ELSE {}

BeginEvaluation(e) ==
  /\ evaluation[e].at = "ASKED"
  /\ evaluation' = [evaluation EXCEPT ![e] = [@ EXCEPT !.at = "CHANGES", !.pin = PinOf(e),
       !.reasons = Reason(e \notin FullyCovered, "INCOMPLETE_COVERAGE")
                     \cup Reason(e \notin Targeted, "MISSING_ENVIRONMENT")]]
  /\ UNCHANGED <<served, headCheck>>

Blocks(change, found) == "BLOCK" \in found /\ ~change.llmOnly
ImpactReasons(change, found) ==
  Reason("TRUNCATED" \in found, "IMPACT_TRUNCATED") \cup Reason("WARN" \in found, "IMPACT_WARNING")
    \cup Reason("BLOCK" \in found /\ change.llmOnly, "LLM_ONLY_BLOCK_EVIDENCE")

Weighed(row, change, found) ==
  [row EXCEPT !.next = @ + 1, !.reasons = @ \cup ImpactReasons(change, found),
              !.block = @ \/ Blocks(change, found)]

\* Without a pinned environment the changes are passed over.
EvaluateChange(e) ==
  /\ evaluation[e].at = "CHANGES" /\ evaluation[e].next <= Len(ChangesOf[e])
  /\ LET change == ChangesOf[e][evaluation[e].next]
         found == IF e \in Targeted THEN change.found[evaluation[e].pin.version] ELSE {}
     IN evaluation' = [evaluation EXCEPT ![e] = Weighed(@, change, found)]
  /\ UNCHANGED <<served, headCheck>>

SamePin(e) == PinOf(e) = evaluation[e].pin

Concluded(row, late, same) ==
  [row EXCEPT !.at = "CHECK",
     !.reasons = @ \cup Reason(late, "DEADLINE_EXCEEDED") \cup Reason(~same, "ENVIRONMENT_CHANGED")]

\* The deadline may have passed before any change, or after the last one.
ReadEnvironmentAgain(e) ==
  /\ evaluation[e].at = "CHANGES"
  /\ \E late \in BOOLEAN :
       /\ ~late => evaluation[e].next > Len(ChangesOf[e])
       /\ evaluation' = [evaluation EXCEPT ![e] = Concluded(@, late, SamePin(e))]
  /\ UNCHANGED <<served, headCheck>>

VerdictOf(e) == IF evaluation[e].block THEN "BLOCK" ELSE IF evaluation[e].reasons # {} THEN "WARN" ELSE "PASS"

UpsertHeadCheck(e) ==
  /\ evaluation[e].at = "CHECK"
  /\ headCheck' = [headCheck EXCEPT ![CheckOfHead[e]] = [verdict |-> VerdictOf(e), by |-> e]]
  /\ evaluation' = [evaluation EXCEPT ![e].at = "DONE"]
  /\ UNCHANGED served

LocalGateNext ==
  \/ \E v \in LocalVersions : MovePointerTo(v)
  \/ \E e \in Evaluations :
       BeginEvaluation(e) \/ EvaluateChange(e) \/ ReadEnvironmentAgain(e) \/ UpsertHeadCheck(e)

(***************************************************************************)
(* Properties.                                                             *)
(***************************************************************************)

\* A stored PASS is of an evaluation that read every change on one graph that was active
\* all the time, promotions of the same version included, and found nothing there.
LocalPassWasTrue ==
  \A c \in DOMAIN headCheck : headCheck[c].verdict = "PASS" =>
    LET e == headCheck[c].by
    IN /\ e \in Targeted /\ e \in FullyCovered /\ ~evaluation[e].moved
       /\ \A i \in DOMAIN ChangesOf[e] : ChangesOf[e][i].found[evaluation[e].pin.version] = {}
=============================================================================
