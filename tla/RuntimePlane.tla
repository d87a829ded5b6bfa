------------------------------ MODULE RuntimePlane ------------------------------
(***************************************************************************)
(* The authorities about runtime evidence: sessions, the policy of leases, *)
(* the producer in an instrumented process, and a collection that grants   *)
(* itself one.  They share no state in the code but the rows of sessions,  *)
(* whose requests RuntimeSession interleaves and RuntimeWitness makes one  *)
(* after another; a lease reaches a producer through a client outside of the     *)
(* repository.  A behaviour is one of any of them, the others at rest.     *)
(***************************************************************************)
EXTENDS RuntimeSession, RuntimePolicy, RuntimeProducer, RuntimeWitness

VARIABLE part   \* the one that moves

planeVars == <<part, sessionVars, policyVars, producerVars, witnessVars>>

Init ==
  /\ part \in {"SESSION", "POLICY", "PRODUCER", "WITNESS"}
  /\ SessionInit /\ PolicyInit /\ ProducerInit /\ WitnessInit

Next ==
  \/ part = "SESSION" /\ SessionNext /\ UNCHANGED <<part, policyVars, producerVars, witnessVars>>
  \/ part = "POLICY" /\ PolicyNext /\ UNCHANGED <<part, sessionVars, producerVars, witnessVars>>
  \/ part = "PRODUCER" /\ ProducerNext /\ UNCHANGED <<part, sessionVars, policyVars, witnessVars>>
  \/ part = "WITNESS" /\ WitnessNext /\ UNCHANGED <<part, sessionVars, policyVars, producerVars>>

Spec == Init /\ [][Next]_planeVars
-----------------------------------------------------------------------------
(* What the plane as a whole promises, from the properties of its parts.   *)

\* Nothing is missing where nothing is said to be: a COMPLETE session has every
\* observation its agent counted, though requests overlap, repeat or come too late, and
\* the COMPLETE windows of a producer were delivered in full, though flushes fail and
\* its process restarts, but for what came after the snapshot it restarts from.
WholeWhenComplete == CompleteIsWhole /\ CompleteMeansDelivered

\* Evidence of an execution is about the code that was executed: the selected files
\* compile, no edge is corroborated through a repository that two could be, and a
\* verdict names a session that ended with the observations it rests on.
WitnessIsEarned == KeptFilesCompile /\ EvidenceIsNotGuessed /\ VerdictHasItsSession

\* What has ended stays ended: a session that no late request opens again accepts nothing
\* more and keeps its outcome, and no lease comes back when a switch is lifted or its
\* profile is enabled again.
EndedStaysEnded == EndedAcceptsNothing /\ EndedLeasesStay
=============================================================================
