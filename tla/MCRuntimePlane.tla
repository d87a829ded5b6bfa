---------------------------- MODULE MCRuntimePlane ----------------------------
(* One session and two requests at a time; two leases of one profile; two threads *)
(* and a buffer that three payloads overflow; checkouts of eleven files.          *)
EXTENDS RuntimePlane, TLC

Observation(id, sequence, datasets, mechanism, fields) ==
  [id |-> id, sequence |-> sequence, datasets |-> datasets, mechanism |-> mechanism, fields |-> fields]
First == Observation("o1", 1, {"d1"}, "SDK", "METADATA")
Second == Observation("o2", 2, {"d1", "d2"}, "OPENLINEAGE", "METADATA")
Changed == Observation("o2", 3, {"d2"}, "OTEL", "METADATA")
Unscoped == Observation("o4", 4, {"d3"}, "SDK", "METADATA")
Values == Observation("o5", 5, {"d1"}, "SDK", "VALUES")
MCObservations == {First, Second, Changed, Unscoped, Values}
MCPayloads == {{First}, {Second}, {First, Second}, {Changed}, {Unscoped}, {First, Values}}
MCCovers == [x \in {"GLOBAL"} |-> {"p1"}]

\* A package of two repositories with one parent, a module that needs what is missing,
\* and two Python modules.
Nothing == [kind |-> "OTHER", type |-> "", module |-> "m", imports |-> {}, beside |-> {}, table |-> "",
            columns |-> {}, entity |-> "", parents |-> {}, fields |-> {}, methods |-> {}, functions |-> {}]
Claim(shape, type, table, column, operation) ==
  [shape |-> shape, type |-> type, table |-> table, column |-> column, operation |-> operation]
ReadsName == Claim("SERVICE", "Clinic", "owners", "name", "READ")
WritesKind == Claim("SERVICE", "Clinic", "pets", "kind", "WRITE")
Derived == Claim("DERIVES", "", "totals", "sum", "WRITE")
MCClaims == {ReadsName, WritesKind, Derived}
Call(field, operation) == [field |-> field, operation |-> operation]
Case(writes, supported) == [writes |-> writes, supported |-> supported]
MCSources ==
  [Owner |-> [Nothing EXCEPT !.kind = "ENTITY", !.type = "Owner", !.table = "owners", !.columns = {"name"}, !.beside = {"Base"}],
   Base |-> [Nothing EXCEPT !.type = "Base"],
   Pet |-> [Nothing EXCEPT !.kind = "ENTITY", !.type = "Pet", !.table = "pets", !.columns = {"kind", "name"}],
   Owners |-> [Nothing EXCEPT !.kind = "REPOSITORY", !.type = "Owners", !.entity = "Owner", !.parents = {"Store"}, !.beside = {"Owner"}],
   Pets |-> [Nothing EXCEPT !.kind = "REPOSITORY", !.type = "Pets", !.entity = "Pet", !.parents = {"Store"}, !.imports = {"Pet"}],
   Clinic |-> [Nothing EXCEPT !.kind = "SITE", !.type = "Clinic", !.fields = {"Store", "Pets", "Mail"},
                 !.methods = {<<Call("Pets", "READ"), Call("Store", "WRITE")>>, <<Call("Mail", "UNKNOWN"), Call("Pets", "WRITE")>>,
                              <<Call("Store", "READ")>>}],
   Visits |-> [Nothing EXCEPT !.kind = "SITE", !.type = "Visits", !.module = "n", !.fields = {"Owners"}, !.beside = {"Mailer"},
                 !.methods = {<<Call("Owners", "READ"), Call("Owners", "WRITE")>>}],
   Mailer |-> [Nothing EXCEPT !.type = "Mailer", !.module = "n", !.imports = {"Sender"}],
   Sender |-> [Nothing EXCEPT !.type = "Sender", !.module = "n", !.imports = {Missing}],
   job |-> [Nothing EXCEPT !.kind = "PYTHON", !.type = "job", !.functions = {Case({Derived}, TRUE), Case({}, TRUE), Case({Derived}, FALSE)}],
   next |-> [Nothing EXCEPT !.kind = "PYTHON", !.type = "next", !.functions = {Case({Derived}, FALSE)}]]
\* files of one package are there together, and the later Python module after another
MCCheckouts ==
  {s \in SUBSET DOMAIN MCSources :
     (\A f \in s : MCSources[f].beside \subseteq s) /\ ("next" \in s => "job" \in s)}
MCPythonPaths == <<"job", "next">>

\* requests and threads are told apart by what they do alone
MCSymmetry == Permutations(Calls) \cup Permutations(Threads)
=============================================================================
