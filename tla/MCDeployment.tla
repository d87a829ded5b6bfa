--------------------------- MODULE MCDeployment ---------------------------
(***************************************************************************)
(* Small instances of Deployment.                                          *)
(***************************************************************************)
EXTENDS Deployment, TLC

CONSTANTS e1, e2, e3, e4, s1, s2, h1, h2, none

MCHandlers == {h1, h2}
Nobody == {}

\* Two systems.  s1 is deployed from a package, then from an artifact that
\* has none.  Of the two events of s2, which take the same place in the
\* provider's order, one is a failed deployment and one a rollback.
MCEvents == {e1, e2, e3, e4}
MCSystems == {s1, s2}
MCSystemOf == (e1 :> s1) @@ (e2 :> s1) @@ (e3 :> s2) @@ (e4 :> s2)
MCOrderOf == (e1 :> 1) @@ (e2 :> 2) @@ (e3 :> 1) @@ (e4 :> 1)
MCTypeOf == [e \in MCEvents |-> IF e = e4 THEN "ROLLBACK" ELSE "DEPLOYMENT"]
MCOutcomeOf == [e \in MCEvents |-> IF e = e3 THEN "FAILED" ELSE "SUCCEEDED"]
MCPackageOf == (e1 :> 2) @@ (e2 :> none) @@ (e3 :> none) @@ (e4 :> 3)
===========================================================================
