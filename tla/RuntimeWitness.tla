---------------------------- MODULE RuntimeWitness ----------------------------
(***************************************************************************)
(* The session a collection grants itself (services/orchestration.py): it  *)
(* runs the code it has just analysed, and its observations corroborate    *)
(* the edges.  A Python module is executed in place; of the Java files     *)
(* those that one javac can compile are kept, every repository that a      *)
(* class gets by its constructor is replaced by a recorder, and each call  *)
(* the recorder sees is evidence about a table.                            *)
(***************************************************************************)
EXTENDS Naturals, FiniteSets, Sequences

CONSTANTS
  Sources,      \* a record for each file of any repository
  Checkouts,    \* sets of files
  PythonPaths,  \* the Python files, in the order of their paths
  Claims,       \* its edges that end in a column: shape, type, table, column, operation
  Missing       \* an import that no project file, stub or JDK class satisfies

File == DOMAIN Sources
Kind(f) == Sources[f].kind
TypeName(f) == Sources[f].type
Java == {f \in File : Kind(f) # "PYTHON"}

ASSUME WitnessAssumption ==
  /\ Checkouts \subseteq SUBSET File /\ \A c \in Checkouts : IsFiniteSet(c)
  /\ PythonPaths \in Seq(File)
  /\ {PythonPaths[i] : i \in DOMAIN PythonPaths} = File \ Java
  \* what a file names without an import is a type of its package and of its module
  /\ \A f \in Java : Sources[f].beside \subseteq {g \in Java : Sources[g].module = Sources[f].module}
  \* what a Python module writes comes from a column, and not from a service
  /\ \A f \in File \ Java : \A case \in Sources[f].functions : \A c \in case.writes : c.shape = "DERIVES"

VARIABLES
  checkout,   \* the files of the pinned revision
  claims,     \* the edges of its analysis
  at,         \* what the run does next
  kept,       \* the Java files that are compiled
  ran,        \* the calls that the recorders saw
  witnessed,  \* the claims that were observed
  verdicts,   \* of the stages that ended
  reasons,    \* of the stages that did not
  granted     \* the session: its state, its outcome and what it stores

witnessVars == <<checkout, claims, at, kept, ran, witnessed, verdicts, reasons, granted>>

NoGrant == [state |-> "NONE", outcome |-> "NONE", stored |-> {}]

WitnessInit ==
  /\ checkout = {} /\ claims = {}
  /\ at = "IDLE"
  /\ kept = {} /\ ran = {} /\ witnessed = {} /\ verdicts = {} /\ reasons = {}
  /\ granted = NoGrant

\* A collection that asks for runtime execution.
CollectRuntime ==
  /\ at = "IDLE"
  /\ checkout' \in Checkouts /\ claims' \in SUBSET Claims
  /\ at' = "BEGIN"
  /\ UNCHANGED <<kept, ran, witnessed, verdicts, reasons, granted>>

(***************************************************************************)
(* What each stage may be asked: an edge into a column, for Python; an     *)
(* edge between a column and a service, for Java.                          *)
(***************************************************************************)
Anchored(c) == c.shape = "SERVICE"
IntoColumn(c) == c.shape = "DERIVES" \/ (c.shape = "SERVICE" /\ c.operation = "WRITE")
JavaClaims == {c \in claims : Anchored(c)}
PythonClaims == {c \in claims : IntoColumn(c)}

Verdict(asked, seen) ==
  IF asked = {} THEN "NOT_PROVIDED"
  ELSE IF asked \subseteq seen THEN "CORROBORATED" ELSE "PARTIALLY_CORROBORATED"

NothingGroundable ==
  /\ at = "BEGIN" /\ JavaClaims = {} /\ PythonClaims = {}
  /\ at' = "RETURNED" /\ reasons' = {"no-groundable-edges"}
  /\ UNCHANGED <<checkout, claims, kept, ran, witnessed, verdicts, granted>>

PythonAsked == PythonClaims # {} /\ checkout \ Java # {}
FirstModule ==
  PythonPaths[CHOOSE i \in DOMAIN PythonPaths :
                /\ PythonPaths[i] \in checkout
                /\ \A j \in 1 .. i - 1 : PythonPaths[j] \notin checkout]

SkipPython ==
  /\ at = "BEGIN" /\ ~PythonAsked /\ JavaClaims \cup PythonClaims # {}
  /\ at' = "JAVA"
  /\ UNCHANGED <<checkout, claims, kept, ran, witnessed, verdicts, reasons, granted>>

\* A function with an argument that cannot be made up is no case of the plan; one that
\* raises is a failed case, and what it wrote before counts.
TestPlan(f) == {case \in Sources[f].functions : case.supported}
Written(cases) == UNION {case.writes : case \in cases}
Corroborated(cases) == PythonClaims \cap Written(cases)

\* Only the first module runs.
RunPython ==
  /\ at = "BEGIN" /\ PythonAsked
  /\ \E reached \in SUBSET TestPlan(FirstModule) :
       /\ witnessed' = witnessed \cup Corroborated(reached)
       /\ verdicts' = verdicts \cup {Verdict(PythonClaims, Corroborated(reached))}
  /\ at' = "JAVA"
  /\ UNCHANGED <<checkout, claims, kept, ran, reasons, granted>>

\* The module does not parse, raises when it is loaded, or runs past the deadline.
PythonFails ==
  /\ at = "BEGIN" /\ PythonAsked
  /\ at' = "JAVA" /\ reasons' = reasons \cup {"execution-failed"}
  /\ UNCHANGED <<checkout, claims, kept, ran, witnessed, verdicts, granted>>

(***************************************************************************)
(* The Java files: of the modules that declare a service of an edge, the   *)
(* entities, repositories and classes with repositories, what they name,   *)
(* and of these what can be compiled.                                      *)
(***************************************************************************)
OfTargets(files) ==
  LET modules == {Sources[f].module : f \in {g \in files : TypeName(g) \in {c.type : c \in JavaClaims}}}
  IN IF modules = {} THEN files ELSE {f \in files : Sources[f].module \in modules}

Repositories(files) == {f \in files : Kind(f) = "REPOSITORY"}
Entities(files) == {f \in files : Kind(f) = "ENTITY"}

\* The repositories that a field of this type may be given.
Denotes(files, type) ==
  {r \in Repositories(files) : type = TypeName(r) \/ type \in Sources[r].parents}
ResolvedAnyway(files, type) == Denotes(files, type) # {}  \* mistake: the last one wins
Resolvable(files, type) == Cardinality(Denotes(files, type)) = 1
Proxied(files, site) == {t \in Sources[site].fields : Resolvable(files, t)}
Sites(files) == {f \in files : Kind(f) = "SITE" /\ Proxied(files, f) # {}}

\* The type names in the text of a file.
Named(f) == {TypeName(g) : g \in {f} \cup Sources[f].beside \cup (Sources[f].imports \ {Missing})}

WithReferences(selected, pool) ==
  LET more[n \in 0 .. Cardinality(pool)] ==
        IF n = 0 THEN selected
        ELSE LET found == more[n - 1]
             IN found \cup {f \in pool : \E g \in found : TypeName(f) \in Named(g)}
  IN more[Cardinality(pool)]

NamesOf(files) == {TypeName(f) : f \in files}
Infeasible(f, left, dropped) ==
  \/ \E i \in Sources[f].imports : i = Missing \/ TypeName(i) \notin NamesOf(left)
  \/ Named(f) \cap NamesOf(dropped) # {}
Feasible(selected) ==
  LET left[n \in 0 .. Cardinality(selected)] ==
        IF n = 0 THEN selected
        ELSE LET last == left[n - 1] IN {f \in last : ~Infeasible(f, last, selected \ last)}
  IN left[Cardinality(selected)]

RelevantSources ==
  LET pool == OfTargets(checkout \cap Java)
  IN Feasible(WithReferences(Repositories(pool) \cup Entities(pool) \cup Sites(pool), pool))

SkipJava ==
  /\ at = "JAVA" /\ (JavaClaims = {} \/ checkout \cap Java = {})
  /\ at' = "GRANT"
  /\ UNCHANGED <<checkout, claims, kept, ran, witnessed, verdicts, reasons, granted>>

JavaAsked == at = "JAVA" /\ JavaClaims # {} /\ checkout \cap Java # {}

NoMachine ==
  /\ JavaAsked
  /\ at' = "GRANT" /\ reasons' = reasons \cup {"jvm-unavailable"}
  /\ UNCHANGED <<checkout, claims, kept, ran, witnessed, verdicts, granted>>

SelectSources ==
  /\ JavaAsked
  /\ kept' = RelevantSources
  /\ at' = "COMPILE"
  /\ UNCHANGED <<checkout, claims, ran, witnessed, verdicts, reasons, granted>>

\* One javac for all files: each must find everything it names.
Compiles == \A f \in kept : Sources[f].imports \cup Sources[f].beside \subseteq kept
Instrumentable == Repositories(kept) # {} /\ Sites(kept) # {}

\* No repository to instrument, a file that does not compile, or no time.
JavaFails ==
  /\ at \in {"COMPILE", "RUN"}
  /\ at' = "GRANT" /\ reasons' = reasons \cup {"execution-failed"}
  /\ UNCHANGED <<checkout, claims, kept, ran, witnessed, verdicts, granted>>

CompileHarness ==
  /\ at = "COMPILE" /\ Instrumentable /\ Compiles
  /\ at' = "RUN"
  /\ UNCHANGED <<checkout, claims, kept, ran, witnessed, verdicts, reasons, granted>>

RepositoryOf(type) == CHOOSE r \in Denotes(kept, type) : TRUE
EntityOf(r) == {e \in Entities(kept) : TypeName(e) = Sources[r].entity}

\* A class is built only when each of its recorders has an entity; the other arguments
\* are null, so a method goes no further than the first call of one of those.
Constructed(site) == \A t \in Proxied(kept, site) : EntityOf(RepositoryOf(t)) # {}
LongestMethod == 2  \* bound: calls of a method
Reachable ==
  {x \in Sites(kept) \X (UNION {Sources[s].methods : s \in Sites(kept)}) \X (1 .. LongestMethod) :
     /\ x[2] \in Sources[x[1]].methods /\ x[3] \in DOMAIN x[2] /\ Constructed(x[1])
     /\ \A j \in 1 .. x[3] : x[2][j].field \in Proxied(kept, x[1])}

\* What a recorder writes down: the table and all the columns of the entity, and an
\* operation that is read off the method's name.
Witnesses(call, c) ==
  LET done == call[2][call[3]]
  IN \E e \in EntityOf(RepositoryOf(done.field)) :
       Sources[e].table = c.table /\ c.column \in Sources[e].columns /\ done.operation = c.operation

Matched(seen) == {c \in JavaClaims : \E x \in seen : Witnesses(x, c)}

\* A method may raise after any of its calls, for a recorder returns nothing.
RunHarness ==
  /\ at = "RUN"
  /\ \E seen \in SUBSET Reachable :
       /\ \A x \in seen : x[3] = 1 \/ <<x[1], x[2], x[3] - 1>> \in seen
       /\ ran' = seen
       /\ witnessed' = witnessed \cup Matched(seen)
       /\ verdicts' = verdicts \cup {Verdict(JavaClaims, Matched(seen))}
  /\ at' = "GRANT"
  /\ UNCHANGED <<checkout, claims, kept, reasons, granted>>

(***************************************************************************)
(* The session.                                                            *)
(***************************************************************************)
NothingObserved ==
  /\ at = "GRANT" /\ witnessed = {}
  /\ at' = "RETURNED"
  /\ reasons' = IF reasons = {} THEN {"execution-failed"} ELSE reasons
  /\ verdicts' = {}
  /\ UNCHANGED <<checkout, claims, kept, ran, witnessed, granted>>

\* The environment is a production one.
GrantDenied ==
  /\ at = "GRANT" /\ witnessed # {}
  /\ at' = "RETURNED" /\ reasons' = reasons \cup {"session-denied"} /\ verdicts' = {}
  /\ UNCHANGED <<checkout, claims, kept, ran, witnessed, granted>>

GrantItself ==
  /\ at = "GRANT" /\ witnessed # {}
  /\ granted' = [NoGrant EXCEPT !.state = "READY"]
  /\ at' = "OBSERVE"
  /\ UNCHANGED <<checkout, claims, kept, ran, witnessed, verdicts, reasons>>

ObserveNext ==
  /\ at = "OBSERVE" /\ granted.state = "READY"
  /\ \E c \in witnessed \ granted.stored : granted' = [granted EXCEPT !.stored = @ \cup {c}]
  /\ UNCHANGED <<checkout, claims, at, kept, ran, witnessed, verdicts, reasons>>

\* An observation is refused; the session is revoked, unless it is closed.
ObserveRefused ==
  /\ at = "OBSERVE" /\ granted.stored # witnessed
  /\ granted' = IF granted.state = "CLOSED" THEN granted
                ELSE [granted EXCEPT !.state = "CLOSED", !.outcome = "REVOKED"]
  /\ at' = "RETURNED" /\ reasons' = reasons \cup {"observation-rejected"} /\ verdicts' = {}
  /\ UNCHANGED <<checkout, claims, kept, ran, witnessed>>

BeginDrain ==
  /\ at = "OBSERVE" /\ granted.stored = witnessed
  /\ at' = IF granted.state = "CLOSED" THEN "RETURNED" ELSE "CLOSE"
  /\ reasons' = IF granted.state = "CLOSED" THEN reasons \cup {"observation-rejected"} ELSE reasons
  /\ verdicts' = IF granted.state = "CLOSED" THEN {} ELSE verdicts
  /\ UNCHANGED <<checkout, claims, kept, ran, witnessed, granted>>

\* close answers a session that is closed already with the manifest it has.
Reported(outcome) == IF outcome = "COMPLETE" THEN verdicts ELSE {}
CloseItself ==
  /\ at = "CLOSE"
  /\ granted' = IF granted.state = "CLOSED" THEN granted
                ELSE [granted EXCEPT !.state = "CLOSED", !.outcome = "COMPLETE"]
  /\ reasons' = IF granted'.outcome = "COMPLETE" THEN reasons ELSE reasons \cup {"session-incomplete"}
  /\ verdicts' = Reported(granted'.outcome)
  /\ at' = "RETURNED"
  /\ UNCHANGED <<checkout, claims, kept, ran, witnessed>>

\* An operator.
OperatorRevokes ==
  /\ granted.state = "READY"
  /\ granted' = [granted EXCEPT !.state = "CLOSED", !.outcome = "REVOKED"]
  /\ UNCHANGED <<checkout, claims, at, kept, ran, witnessed, verdicts, reasons>>

WitnessNext ==
  \/ CollectRuntime \/ NothingGroundable \/ SkipPython \/ RunPython \/ PythonFails
  \/ SkipJava \/ NoMachine \/ SelectSources \/ JavaFails \/ CompileHarness \/ RunHarness
  \/ NothingObserved \/ GrantDenied \/ GrantItself \/ ObserveNext \/ ObserveRefused
  \/ BeginDrain \/ CloseItself \/ OperatorRevokes

(***************************************************************************)
(* Properties.                                                             *)
(***************************************************************************)

\* A name means one file, and a name without an import a file that is there.
Mentioned == checkout \cup UNION {Sources[f].imports \ {Missing} : f \in checkout \cap Java}
NamesAreClear ==
  /\ \A f, g \in Mentioned : TypeName(f) = TypeName(g) => f = g
  /\ \A f \in checkout \cap Java : Sources[f].beside \subseteq checkout

\* When names are clear, what is left of the selection compiles: one file that cannot
\* takes down those that need it, and no other edge.
KeptFilesCompile == at = "COMPILE" /\ NamesAreClear => Compiles

\* A column is witnessed only by a call that reaches its table whichever of the kept
\* repositories the container would have given to the class.
EvidenceIsNotGuessed ==
  \A c \in JavaClaims \cap witnessed :
    \E x \in ran :
      \A r \in Denotes(kept, x[2][x[3]].field) :
        \E e \in EntityOf(r) : Sources[e].table = c.table

\* A verdict is returned only with a session that is closed COMPLETE and stores every
\* observation, whatever an operator did meanwhile.
VerdictHasItsSession ==
  at = "RETURNED" /\ verdicts # {} =>
    granted.outcome = "COMPLETE" /\ granted.stored = witnessed
=============================================================================
