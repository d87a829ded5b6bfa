--------------------------- MODULE Deployment_proofs ---------------------------
(***************************************************************************)
(* Theorems about publication and deployment.  First publish() and         *)
(* promote_existing() on their own, for any number of operations, callers, *)
(* deployers, edges and tokens, with any crashes and a storage that spoils *)
(* rows, and with callers that run one operation at a time or side by      *)
(* side.  These are about systems in which nobody rolls back               *)
(* (MaxFence = 0): rollback(), which no other code calls, asks neither for *)
(* an intact namespace nor for a larger token.  Then the deployment        *)
(* workflow, for any number of events, systems, handlers and tokens: what  *)
(* the tables deployment_events and deployment_state tell when events come *)
(* late, again, out of order and at the same time, and handlers stop in    *)
(* the middle.                                                             *)
(***************************************************************************)
EXTENDS Deployment, FiniteSetTheorems, TLAPS

-----------------------------------------------------------------------------
(* The inductive invariant.                                                *)

\* Stages in which an operation has written nothing yet, or no row yet.
Early == {"ABSENT", "CREATED"}
Unwritten == {"RESERVED", "MANIFEST_WRITTEN"}
Writing == {"NAMESPACE_CREATED", "EDGES_WRITING"}
Confirmed == {"DELIVERY_CONFIRMED", "COMPLETED"}
AnyStage ==
  Early \cup Unwritten \cup Writing \cup {"EDGES_WRITTEN", "VERIFIED", "ACTIVATED"}
    \cup Confirmed \cup Failed
Served == {"ACTIVE", "PRIOR"}

OperationRow == [stage : AnyStage, prior : Nat, token : 0..MaxToken, next : 0..Edges]
GraphRow ==
  [state : {"ABSENT", "STAGING", "ACTIVE", "PRIOR", "DISCARDED"},
   rows : [1..Edges -> {"MISSING", "GOOD", "BAD"}]]
CallRow ==
  [pc : {"idle", "loaded", "reload", "edges", "batch", "verified", "mismatch"},
   op : Operations \cup {"none"}, from : Nat, row : OperationRow]
PromotionRow ==
  [pc : {"idle", "reserve", "promote", "promoted", "refused"},
   target : Nat, prior : Nat, token : 0..MaxToken]

Typed ==
  /\ pointer \in [active : Versions, fence : Nat]
  /\ reservation \in [token : 0..MaxToken, status : {"NONE", "RESERVED", "ACTIVATED"}]
  /\ ops \in [Operations -> OperationRow]
  /\ graph \in [Versions -> GraphRow]
  /\ outbox \in [Operations -> {"NONE", "PENDING", "DELIVERED"}]
  /\ caller \in [Callers -> CallRow]
  /\ deployer \in [Deployers -> PromotionRow]

Filled(v, n) == \A e \in 1..n : graph[v].rows[e] # "MISSING"
Spoilt(v) == \E e \in 1..Edges : graph[v].rows[e] = "BAD"

\* Tokens are handed out in order, and the pointer has one that was.
TokensGrow ==
  /\ pointer.fence <= reservation.token
  /\ reservation.status = "RESERVED" => pointer.fence < reservation.token

\* The namespace of a token that is still to come is not there; one that has been
\* served is as approved; only a spoilt one is discarded.
NamespaceInv(v) ==
  /\ v > reservation.token + 1 => graph[v].state = "ABSENT"
  /\ graph[v].state \in Served => Intact(v)
  /\ graph[v].state = "DISCARDED" => Spoilt(v)
  /\ graph[v].state = "ACTIVE" <=> v = pointer.active

\* What the stage of an operation says of its namespace, although a slow writer
\* may set it back: the rows below `next' are there, all of them once they are
\* written, as approved once they are verified; it is served when it is announced,
\* and then its token is used up.
OperationInv(o) ==
  /\ ops[o].token = 0 <=> ops[o].stage \in Early
  /\ ops[o].token <= reservation.token
  /\ ops[o].token = 0 => outbox[o] = "NONE" /\ ops[o].next = 0
  /\ ops[o].token # 0 =>
       /\ ops[o].stage \notin Unwritten => graph[Version(ops[o])].state # "ABSENT"
       /\ Filled(Version(ops[o]), ops[o].next)
       /\ ops[o].stage \notin Unwritten \cup Writing => Filled(Version(ops[o]), Edges)
       /\ ops[o].stage = "VERIFIED" => Intact(Version(ops[o]))
       /\ outbox[o] # "NONE" <=> graph[Version(ops[o])].state \in Served
  /\ outbox[o] # "NONE" => ~HoldsFence(ops[o].token)
  /\ ops[o].stage \in Activated => outbox[o] # "NONE"
  /\ ops[o].stage \in Confirmed => outbox[o] = "DELIVERED"

\* What a call of publish() may rely on when it acts on the row it read.
CallInv(t) ==
  caller[t].pc # "idle" =>
    /\ caller[t].op \in Operations /\ ops[caller[t].op].stage # "ABSENT"
    /\ caller[t].row.stage # "ABSENT"
    /\ caller[t].row.stage = "CREATED" => caller[t].pc \in {"loaded", "reload"}
    /\ caller[t].row.stage # "CREATED" =>
         /\ caller[t].row.token # 0 /\ caller[t].row.token = ops[caller[t].op].token
         /\ caller[t].row.stage \notin Unwritten =>
              graph[Version(caller[t].row)].state # "ABSENT"
         /\ caller[t].row.stage = "EDGES_WRITTEN" => Filled(Version(caller[t].row), Edges)
    /\ caller[t].row.stage \in Activated => outbox[caller[t].op] # "NONE"
    /\ caller[t].pc \in {"edges", "batch", "verified", "mismatch"} =>
         graph[Version(caller[t].row)].state # "ABSENT"
    /\ caller[t].pc = "batch" => Filled(Version(caller[t].row), caller[t].row.next)
    /\ caller[t].pc \in {"verified", "mismatch"} => Filled(Version(caller[t].row), Edges)
    /\ caller[t].pc = "verified" => Intact(Version(caller[t].row))
    /\ caller[t].pc = "mismatch" => Spoilt(Version(caller[t].row))

\* A promotion goes to a namespace that has been served.
PromotionInv(d) ==
  deployer[d].pc \in {"reserve", "promote"} =>
    deployer[d].target \in Versions /\ graph[deployer[d].target].state \in Served

IInv ==
  /\ Typed /\ TokensGrow /\ NamespacesAreOwned
  /\ \A v \in Versions : NamespaceInv(v)
  /\ \A o \in Operations : OperationInv(o)
  /\ \A t \in Callers : CallInv(t)
  /\ \A d \in Deployers : PromotionInv(d)

-----------------------------------------------------------------------------
(* What a step leaves alone.                                               *)

\* Nothing that was written is taken back.
Grows ==
  /\ \A v \in Versions :
       /\ graph[v].state # "ABSENT" => graph'[v].state # "ABSENT"
       /\ graph[v].state \in Served => graph'[v].state \in Served
       /\ \A e \in 1..Edges : graph[v].rows[e] # "MISSING" => graph'[v].rows[e] = graph[v].rows[e]
  /\ \A o \in Operations :
       /\ ops[o].stage # "ABSENT" => ops'[o].stage # "ABSENT"
       /\ ops[o].token # 0 => ops'[o].token = ops[o].token
       /\ outbox[o] # "NONE" => outbox'[o] # "NONE"

LEMMA VersionOf == \A row \in OperationRow : Version(row) \in Versions /\ Version(row) = row.token + 1
BY PublisherAssumption DEF Version, Versions, OperationRow

LEMMA RowsKept ==
  ASSUME Typed, Typed', Grows, NEW v \in Versions
  PROVE  /\ \A n \in 0..Edges : Filled(v, n) => Filled(v, n)'
         /\ Spoilt(v) => Spoilt(v)'
         /\ Intact(v) => Intact(v)'
<1>1. graph[v] \in GraphRow
  BY DEF Typed
<1>2. ASSUME NEW n \in 0..Edges, Filled(v, n)
      PROVE  Filled(v, n)'
  BY <1>2, PublisherAssumption DEF Filled, Grows
<1>3. Spoilt(v) => Spoilt(v)'
  BY DEF Spoilt, Grows
<1>4. ASSUME Intact(v)
      PROVE  Intact(v)'
  <2>1. graph'[v].rows \in [1..Edges -> {"MISSING", "GOOD", "BAD"}]
    BY DEF Typed, GraphRow
  <2>2. \A e \in 1..Edges : graph'[v].rows[e] = "GOOD"
    BY <1>4, ZenonT(30) DEF Intact, Rows, Grows
  <2> QED
    BY <2>1, <2>2 DEF Intact, Rows
<1> QED
  BY <1>2, <1>3, <1>4

\* What is true of a call that rests, or goes on to read its row again, stays true.
LEMMA CallKept ==
  ASSUME Typed, Typed', Grows, NEW t \in Callers, CallInv(t),
         caller'[t].op = caller[t].op, caller'[t].row = caller[t].row,
         \/ caller'[t].pc = caller[t].pc
         \/ caller[t].pc # "idle" /\ caller'[t].pc = "reload"
         \/ caller[t].pc = "batch" /\ caller'[t].pc = "edges"
  PROVE  CallInv(t)'
<1> SUFFICES ASSUME caller[t].pc # "idle"
             PROVE  CallInv(t)'
  BY DEF CallInv
<1>1. PICK c \in CallRow : c = caller[t]
  BY DEF Typed
<1>2. /\ c.row \in OperationRow /\ c.row.next \in 0..Edges
      /\ Version(c.row) \in Versions /\ Edges \in 0..Edges
  BY <1>1, VersionOf, PublisherAssumption DEF CallRow, OperationRow
<1>3. PICK v \in Versions : v = Version(c.row)
  BY <1>2
<1>4. /\ Filled(v, c.row.next) => Filled(v, c.row.next)'
      /\ Filled(v, Edges) => Filled(v, Edges)'
      /\ Spoilt(v) => Spoilt(v)'
      /\ Intact(v) => Intact(v)'
      /\ graph[v].state # "ABSENT" => graph'[v].state # "ABSENT"
  BY <1>2, RowsKept DEF Grows
<1>5. PICK o \in Operations : o = c.op
  BY <1>1 DEF CallInv
<1>6. /\ ops[o].stage # "ABSENT" => ops'[o].stage # "ABSENT"
      /\ ops[o].token # 0 => ops'[o].token = ops[o].token
      /\ outbox[o] # "NONE" => outbox'[o] # "NONE"
  BY DEF Grows
<1>7. /\ caller[t] = c /\ c.pc # "idle" /\ v = c.row.token + 1
      /\ caller'[t].row = c.row /\ caller'[t].op = c.op
      /\ caller'[t].pc \in {c.pc, "reload"} \/ (c.pc = "batch" /\ caller'[t].pc = "edges")
  BY <1>1, <1>3 DEF Version
<1>8. /\ caller'[t].op \in Operations /\ ops'[caller'[t].op].stage # "ABSENT"
      /\ caller'[t].row.stage # "ABSENT"
      /\ caller'[t].row.stage = "CREATED" => caller'[t].pc \in {"loaded", "reload"}
      /\ caller'[t].row.stage \in Activated => outbox'[caller'[t].op] # "NONE"
      /\ caller'[t].row.stage # "CREATED" =>
           caller'[t].row.token # 0 /\ caller'[t].row.token = ops'[caller'[t].op].token
  BY <1>5, <1>6, <1>7 DEF CallInv
<1>9. /\ c.row.stage # "CREATED" =>
           /\ c.row.stage \notin Unwritten => graph[v].state # "ABSENT"
           /\ c.row.stage = "EDGES_WRITTEN" => Filled(v, Edges)
      /\ c.pc \in {"edges", "batch", "verified", "mismatch"} => graph[v].state # "ABSENT"
      /\ c.pc = "batch" => Filled(v, c.row.next)
      /\ c.pc \in {"verified", "mismatch"} => Filled(v, Edges)
      /\ c.pc = "verified" => Intact(v)
      /\ c.pc = "mismatch" => Spoilt(v)
  BY <1>3, <1>7 DEF CallInv
<1>10. /\ c.row.stage # "CREATED" =>
           /\ c.row.stage \notin Unwritten => graph'[v].state # "ABSENT"
           /\ c.row.stage = "EDGES_WRITTEN" => Filled(v, Edges)'
       /\ caller'[t].pc \in {"edges", "batch", "verified", "mismatch"} => graph'[v].state # "ABSENT"
       /\ caller'[t].pc = "batch" => Filled(v, c.row.next)'
       /\ caller'[t].pc \in {"verified", "mismatch"} => Filled(v, Edges)'
       /\ caller'[t].pc = "verified" => Intact(v)'
       /\ caller'[t].pc = "mismatch" => Spoilt(v)'
  BY <1>4, <1>7, <1>9
<1>11. /\ (caller[t].row.stage \notin Unwritten \cup {"CREATED"} =>
             graph[Version(caller[t].row)].state # "ABSENT")'
       /\ (caller[t].pc \in {"edges", "batch", "verified", "mismatch"} =>
             graph[Version(caller[t].row)].state # "ABSENT")'
  BY <1>7, <1>10 DEF Version
<1>12. /\ (caller[t].row.stage = "EDGES_WRITTEN" => Filled(Version(caller[t].row), Edges))'
       /\ (caller[t].pc = "batch" => Filled(Version(caller[t].row), caller[t].row.next))'
       /\ (caller[t].pc \in {"verified", "mismatch"} => Filled(Version(caller[t].row), Edges))'
  BY <1>7, <1>10 DEF Filled, Version
<1>13. /\ (caller[t].pc = "verified" => Intact(Version(caller[t].row)))'
       /\ (caller[t].pc = "mismatch" => Spoilt(Version(caller[t].row)))'
  BY <1>7, <1>10 DEF Spoilt, Intact, Version
<1> QED
  BY <1>8, <1>11, <1>12, <1>13 DEF CallInv

\* What is true of an operation that is left alone stays true, unless its namespace
\* comes into service or its token becomes usable.
LEMMA OperationKept ==
  ASSUME Typed, Typed', Grows, NEW o \in Operations, OperationInv(o),
         ops'[o] = ops[o], outbox'[o] = outbox[o],
         reservation.token <= reservation'.token,
         HoldsFence(ops[o].token)' => HoldsFence(ops[o].token) \/ outbox[o] = "NONE",
         ops[o].token # 0 /\ graph'[Version(ops[o])].state \in Served
           => graph[Version(ops[o])].state \in Served
  PROVE  OperationInv(o)'
<1>1. PICK row \in OperationRow : row = ops[o]
  BY DEF Typed
<1>2. /\ row.next \in 0..Edges /\ Version(row) \in Versions /\ Edges \in 0..Edges
      /\ row.token \in Nat /\ reservation.token \in Nat /\ reservation'.token \in Nat
  BY <1>1, VersionOf, PublisherAssumption DEF OperationRow, Typed
<1>3. PICK v \in Versions : v = Version(row)
  BY <1>2
<1>4. /\ Filled(v, row.next) => Filled(v, row.next)'
      /\ Filled(v, Edges) => Filled(v, Edges)'
      /\ Intact(v) => Intact(v)'
      /\ graph[v].state # "ABSENT" => graph'[v].state # "ABSENT"
      /\ graph[v].state \in Served => graph'[v].state \in Served
  BY <1>2, RowsKept DEF Grows
<1> QED
  BY <1>1, <1>2, <1>3, <1>4 DEF OperationInv, Filled, Intact, Version, HoldsFence

LEMMA PromotionKept ==
  ASSUME Grows, NEW d \in Deployers, PromotionInv(d), deployer'[d] = deployer[d]
  PROVE  PromotionInv(d)'
BY DEF PromotionInv, Grows

-----------------------------------------------------------------------------
(* Kinds of steps.                                                         *)

\* A step that changes the calls in `some' and the operations in `moved'.
LEMMA StepKeeps ==
  ASSUME IInv, Typed', Grows, TokensGrow', NamespacesAreOwned',
         NEW some \in SUBSET Callers, NEW moved \in SUBSET Operations,
         \A v \in Versions : NamespaceInv(v)',
         reservation.token <= reservation'.token,
         \A o \in moved : OperationInv(o)',
         \A o \in Operations \ moved :
           /\ ops'[o] = ops[o] /\ outbox'[o] = outbox[o]
           /\ HoldsFence(ops[o].token)' => HoldsFence(ops[o].token) \/ outbox[o] = "NONE"
           /\ ops[o].token # 0 /\ graph'[Version(ops[o])].state \in Served
                => graph[Version(ops[o])].state \in Served,
         \A t \in some : CallInv(t)',
         \A t \in Callers \ some : caller'[t] = caller[t],
         \A d \in Deployers : deployer'[d] = deployer[d] \/ PromotionInv(d)'
  PROVE  IInv'
<1>1. ASSUME NEW o \in Operations \ moved
      PROVE  OperationInv(o)'
  <2>1. /\ OperationInv(o) /\ Typed /\ o \in Operations
        /\ ops'[o] = ops[o] /\ outbox'[o] = outbox[o]
        /\ HoldsFence(ops[o].token)' => HoldsFence(ops[o].token) \/ outbox[o] = "NONE"
        /\ ops[o].token # 0 /\ graph'[Version(ops[o])].state \in Served
             => graph[Version(ops[o])].state \in Served
    BY DEF IInv
  <2> QED
    BY <2>1, OperationKept
<1>2. ASSUME NEW t \in Callers \ some
      PROVE  CallInv(t)'
  BY CallKept DEF IInv
<1>3. ASSUME NEW d \in Deployers
      PROVE  PromotionInv(d)'
  BY PromotionKept DEF IInv
<1> QED
  BY <1>1, <1>2, <1>3 DEF IInv

\* A step that leaves the namespaces, the pointer and the reservation alone.
LEMMA NamespacesKept ==
  ASSUME IInv, UNCHANGED <<pointer, reservation, graph>>,
         \A o \in Operations : ops'[o].token = ops[o].token
  PROVE  /\ TokensGrow' /\ NamespacesAreOwned'
         /\ \A v \in Versions : NamespaceInv(v)'
<1>1. TokensGrow'
  BY DEF IInv, TokensGrow
<1>2. NamespacesAreOwned'
  BY DEF IInv, NamespacesAreOwned
<1>3. ASSUME NEW v \in Versions
      PROVE  NamespaceInv(v)'
  BY DEF IInv, NamespaceInv, Intact, Spoilt
<1> QED
  BY <1>1, <1>2, <1>3

\* A step in which a call reads, goes on or ends, and nothing is written.
LEMMA CallStep ==
  ASSUME IInv, UNCHANGED <<tables, deployer>>, NEW t \in Callers,
         caller' \in [Callers -> CallRow], \A u \in Callers \ {t} : caller'[u] = caller[u],
         CallInv(t)'
  PROVE  IInv'
<1>1. Typed' /\ Grows
  BY DEF IInv, Typed, Grows, tables
<1>2. TokensGrow' /\ NamespacesAreOwned' /\ \A v \in Versions : NamespaceInv(v)'
  BY NamespacesKept DEF tables
<1>3. /\ reservation.token <= reservation'.token
      /\ \A o \in Operations :
           /\ ops'[o] = ops[o] /\ outbox'[o] = outbox[o]
           /\ HoldsFence(ops[o].token)' => HoldsFence(ops[o].token) \/ outbox[o] = "NONE"
           /\ ops[o].token # 0 /\ graph'[Version(ops[o])].state \in Served
                => graph[Version(ops[o])].state \in Served
  BY DEF tables, HoldsFence, IInv, Typed
<1>4. {t} \in SUBSET Callers /\ {} \in SUBSET Operations
  OBVIOUS
<1>5. \A d \in Deployers : deployer'[d] = deployer[d]
  OBVIOUS
<1> QED
  BY <1>1, <1>2, <1>3, <1>4, <1>5, StepKeeps

\* A step in which a call moves its operation to another stage, and may deliver its event.
LEMMA OperationStep ==
  ASSUME IInv, UNCHANGED <<pointer, reservation, graph, deployer>>,
         NEW t \in Callers, NEW o \in Operations,
         ops' \in [Operations -> OperationRow],
         outbox' \in [Operations -> {"NONE", "PENDING", "DELIVERED"}],
         caller' \in [Callers -> CallRow],
         \A p \in Operations \ {o} : ops'[p] = ops[p] /\ outbox'[p] = outbox[p],
         \A u \in Callers \ {t} : caller'[u] = caller[u],
         ops'[o].token = ops[o].token, ops'[o].stage # "ABSENT",
         outbox[o] # "NONE" => outbox'[o] # "NONE",
         OperationInv(o)', CallInv(t)'
  PROVE  IInv'
<1>1. Typed'
  BY DEF IInv, Typed
<1>2. Grows
  BY DEF Grows
<1>3. TokensGrow' /\ NamespacesAreOwned' /\ \A v \in Versions : NamespaceInv(v)'
  BY NamespacesKept
<1>4. /\ reservation.token <= reservation'.token
      /\ \A p \in Operations \ {o} :
           /\ ops'[p] = ops[p] /\ outbox'[p] = outbox[p]
           /\ HoldsFence(ops[p].token)' => HoldsFence(ops[p].token) \/ outbox[p] = "NONE"
           /\ ops[p].token # 0 /\ graph'[Version(ops[p])].state \in Served
                => graph[Version(ops[p])].state \in Served
  BY DEF HoldsFence, IInv, Typed
<1>5. {t} \in SUBSET Callers /\ {o} \in SUBSET Operations
  OBVIOUS
<1>6. \A d \in Deployers : deployer'[d] = deployer[d]
  OBVIOUS
<1> QED
  BY <1>1, <1>2, <1>3, <1>4, <1>5, <1>6, StepKeeps

-----------------------------------------------------------------------------
(* publish(): calls that read.                                             *)

LEMMA Tests ==
  /\ Steps[1] = {"CREATED"} /\ Steps[2] = {"RESERVED"} /\ Steps[3] = {"MANIFEST_WRITTEN"}
  /\ Steps[4] = Writing /\ Steps[5] = {"EDGES_WRITTEN"} /\ Steps[6] = {"VERIFIED"}
  /\ Steps[7] = {"ACTIVATED"} /\ Steps[8] = {"DELIVERY_CONFIRMED"}
BY DEF Steps, Writing

\* A call may rely on the row it has just read.
LEMMA RowIsRead ==
  ASSUME IInv, UNCHANGED tables, NEW t \in Callers, NEW o \in Operations,
         ops[o].stage # "ABSENT",
         caller'[t].op = o, caller'[t].row = ops[o],
         \/ caller'[t].pc = "loaded"
         \/ /\ caller'[t].pc = "batch" /\ ops[o].token # 0
            /\ graph[Version(ops[o])].state # "ABSENT"
  PROVE  CallInv(t)'
<1>1. PICK row \in OperationRow : row = ops[o]
  BY DEF IInv, Typed
<1>2. PICK v \in Versions : v = Version(row)
  BY <1>1, VersionOf
<1>3. OperationInv(o)
  BY DEF IInv
<1>4. row.token = 0 <=> row.stage \in Early
  BY <1>1, <1>3 DEF OperationInv
<1>5. row.token # 0 =>
        /\ row.stage \notin Unwritten => graph[v].state # "ABSENT"
        /\ Filled(v, row.next)
        /\ row.stage \notin Unwritten \cup Writing => Filled(v, Edges)
  BY <1>1, <1>2, <1>3 DEF OperationInv
<1>6. row.stage \in Activated => outbox[o] # "NONE"
  BY <1>1, <1>3 DEF OperationInv
<1>7. /\ caller'[t].row = row /\ caller'[t].op = o /\ row.stage # "ABSENT"
      /\ caller'[t].pc = "loaded" \/
           (caller'[t].pc = "batch" /\ row.token # 0 /\ graph[v].state # "ABSENT")
      /\ ops' = ops /\ graph' = graph /\ outbox' = outbox
  BY <1>1, <1>2 DEF tables
<1>8. /\ caller'[t].op \in Operations /\ ops'[caller'[t].op].stage # "ABSENT"
      /\ caller'[t].row.stage # "ABSENT"
      /\ caller'[t].row.stage = "CREATED" => caller'[t].pc \in {"loaded", "reload"}
      /\ caller'[t].row.stage \in Activated => outbox'[caller'[t].op] # "NONE"
      /\ caller'[t].row.stage # "CREATED" =>
           caller'[t].row.token # 0 /\ caller'[t].row.token = ops'[caller'[t].op].token
  BY <1>1, <1>4, <1>6, <1>7 DEF Early
<1>9. /\ (caller[t].row.stage \notin Unwritten \cup {"CREATED"} =>
            graph[Version(caller[t].row)].state # "ABSENT")'
      /\ (caller[t].pc \in {"edges", "batch", "verified", "mismatch"} =>
            graph[Version(caller[t].row)].state # "ABSENT")'
  BY <1>2, <1>4, <1>5, <1>7 DEF Version, Early
<1>10. row.stage = "EDGES_WRITTEN" => Filled(v, Edges)
  BY <1>4, <1>5 DEF Early, Unwritten, Writing
<1>11. /\ (caller[t].row.stage = "EDGES_WRITTEN" => Filled(Version(caller[t].row), Edges))'
       /\ (caller[t].pc = "batch" => Filled(Version(caller[t].row), caller[t].row.next))'
       /\ (caller[t].pc \in {"verified", "mismatch"} => Filled(Version(caller[t].row), Edges))'
  BY <1>2, <1>5, <1>7, <1>10 DEF Filled, Version
<1>12. /\ (caller[t].pc = "verified" => Intact(Version(caller[t].row)))'
       /\ (caller[t].pc = "mismatch" => Spoilt(Version(caller[t].row)))'
  BY <1>7
<1> QED
  BY <1>8, <1>9, <1>11, <1>12 DEF CallInv

\* The types of a call, and of one that goes on.
LEMMA CallTypes ==
  ASSUME Typed, NEW t \in Callers
  PROVE  /\ caller[t] \in CallRow
         /\ NoCall \in CallRow
         /\ \A pc \in {"loaded", "reload", "edges", "batch", "verified", "mismatch"} :
              [caller EXCEPT ![t].pc = pc] \in [Callers -> CallRow]
         /\ \A i \in 1..8 :
              [caller EXCEPT ![t].pc = "reload", ![t].from = i + 1] \in [Callers -> CallRow]
         /\ [caller EXCEPT ![t] = NoCall] \in [Callers -> CallRow]
<1>1. caller[t] \in CallRow /\ caller \in [Callers -> CallRow]
  BY DEF Typed
<1>2. NewRow("ABSENT", 0) \in OperationRow
  BY PublisherAssumption DEF NewRow, OperationRow, AnyStage, Early
<1>3. NoCall \in CallRow
  BY <1>2 DEF NoCall, CallRow
<1>4. ASSUME NEW pc \in {"loaded", "reload", "edges", "batch", "verified", "mismatch"}
      PROVE  [caller EXCEPT ![t].pc = pc] \in [Callers -> CallRow]
  BY <1>1 DEF CallRow
<1>5. ASSUME NEW i \in 1..8
      PROVE  [caller EXCEPT ![t].pc = "reload", ![t].from = i + 1] \in [Callers -> CallRow]
  <2>1. PICK n \in Nat : n = i + 1
    OBVIOUS
  <2>2. [caller EXCEPT ![t].pc = "reload", ![t].from = n] \in [Callers -> CallRow]
    BY <1>1 DEF CallRow
  <2> QED
    BY <2>1, <2>2
<1> QED
  BY <1>1, <1>3, <1>4, <1>5

\* A call that ends relies on nothing.
LEMMA CallEnds ==
  ASSUME Typed, NEW t \in Callers, Raise(t)
  PROVE  /\ CallInv(t)' /\ caller' \in [Callers -> CallRow]
         /\ \A u \in Callers \ {t} : caller'[u] = caller[u]
<1>1. caller' = [caller EXCEPT ![t] = NoCall] /\ caller \in [Callers -> CallRow]
  BY DEF Raise, Typed
<1>2. caller'[t].pc = "idle"
  BY <1>1 DEF NoCall
<1> QED
  BY <1>1, <1>2, CallTypes DEF CallInv

LEMMA RedriveKeeps ==
  ASSUME IInv, NEW t \in Callers, NEW o \in Operations, Redrive(t, o)
  PROVE  IInv'
<1>1. Typed /\ ops[o] \in OperationRow /\ caller \in [Callers -> CallRow]
  BY DEF IInv, Typed
<1>2. /\ caller' = [caller EXCEPT ![t] = [pc |-> "loaded", op |-> o, from |-> 1, row |-> ops[o]]]
      /\ UNCHANGED <<tables, deployer>> /\ ops[o].stage # "ABSENT"
  BY DEF Redrive, Start
<1>3. /\ caller' \in [Callers -> CallRow] /\ \A u \in Callers \ {t} : caller'[u] = caller[u]
      /\ caller'[t].op = o /\ caller'[t].row = ops[o] /\ caller'[t].pc = "loaded"
  BY <1>1, <1>2 DEF CallRow
<1>4. CallInv(t)'
  BY <1>2, <1>3, RowIsRead
<1> QED
  BY <1>2, <1>3, <1>4, CallStep

LEMMA ReadKeeps ==
  ASSUME IInv, NEW t \in Callers, Reload(t) \/ ReadNextEdge(t)
  PROVE  IInv'
<1>1. Typed /\ caller \in [Callers -> CallRow] /\ CallInv(t) /\ caller[t] \in CallRow
  BY DEF IInv, Typed
<1>2. caller[t].pc # "idle"
  BY DEF Reload, ReadNextEdge, At
<1>3. PICK o \in Operations : o = caller[t].op
  BY <1>1, <1>2 DEF CallInv
<1>4. ops[o].stage # "ABSENT" /\ ops[o] \in OperationRow
  BY <1>1, <1>2, <1>3 DEF CallInv, Typed
<1>5. UNCHANGED <<tables, deployer>>
  BY DEF Reload, ReadNextEdge
<1>6. PICK pc \in {"loaded", "batch"} :
        caller' = [caller EXCEPT ![t].pc = pc, ![t].row = ops[o]]
  BY <1>3 DEF Reload, ReadNextEdge
<1>7. /\ caller' \in [Callers -> CallRow] /\ \A u \in Callers \ {t} : caller'[u] = caller[u]
      /\ caller'[t].op = o /\ caller'[t].row = ops[o] /\ caller'[t].pc = pc
  BY <1>1, <1>3, <1>4, <1>6 DEF CallRow
<1>8. ASSUME ReadNextEdge(t)
      PROVE  ops[o].token # 0 /\ graph[Version(ops[o])].state # "ABSENT"
  <2>1. \/ caller[t].row.stage \in Writing
        \/ caller[t].pc = "edges"
    BY <1>8, Tests DEF ReadNextEdge, At
  <2>2. caller[t].row.stage # "CREATED"
    BY <1>1, <1>2, <2>1 DEF CallInv, Writing
  <2>3. caller[t].row.token = ops[o].token /\ ops[o].token # 0
    BY <1>1, <1>2, <1>3, <2>2 DEF CallInv
  <2>4. graph[Version(caller[t].row)].state # "ABSENT"
    BY <1>1, <1>2, <2>1, <2>2 DEF CallInv, Writing, Unwritten
  <2> QED
    BY <2>3, <2>4 DEF Version
<1>9. pc = "batch" => ReadNextEdge(t)
  <2>1. Reload(t) => caller'[t].pc = "loaded"
    BY <1>1 DEF Reload, CallRow
  <2> QED
    BY <1>7, <2>1
<1>10. CallInv(t)'
  BY <1>4, <1>5, <1>7, <1>8, <1>9, RowIsRead
<1> QED
  BY <1>5, <1>7, <1>10, CallStep

LEMMA EndKeeps ==
  ASSUME IInv, NEW t \in Callers, Return(t) \/ Crash(t)
  PROVE  IInv'
<1>1. UNCHANGED <<tables, deployer>> /\ Raise(t) /\ Typed
  BY DEF Return, Crash, IInv
<1> QED
  BY <1>1, CallEnds, CallStep

\* The rows are all there, so they are as approved or one of them is spoilt.
LEMMA CheckKeeps ==
  ASSUME IInv, NEW t \in Callers, CheckRows(t)
  PROVE  IInv'
<1>1. Typed /\ caller \in [Callers -> CallRow] /\ CallInv(t) /\ caller[t] \in CallRow
  BY DEF IInv, Typed
<1>2. /\ caller[t].pc = "loaded" /\ caller[t].row.stage = "EDGES_WRITTEN"
      /\ UNCHANGED <<tables, deployer>>
  BY Tests DEF CheckRows, At
<1>3. PICK v \in Versions : v = Version(caller[t].row)
  BY <1>1, VersionOf DEF CallRow
<1>4. graph[v] \in GraphRow /\ Filled(v, Edges)
  BY <1>1, <1>2, <1>3 DEF Typed, CallInv
<1>5. ~Intact(v) => Spoilt(v)
  <2> SUFFICES ASSUME ~Spoilt(v)
               PROVE  graph[v].rows = [e \in 1..Edges |-> "GOOD"]
    BY DEF Intact, Rows
  <2>1. graph[v].rows \in [1..Edges -> {"MISSING", "GOOD", "BAD"}]
    BY <1>4 DEF GraphRow
  <2>2. \A e \in 1..Edges : graph[v].rows[e] = "GOOD"
    BY <1>4, <2>1 DEF Filled, Spoilt
  <2> QED
    BY <2>1, <2>2
<1>6. PICK pc \in {"verified", "mismatch"} :
        /\ caller' = [caller EXCEPT ![t].pc = pc]
        /\ pc = "verified" => Intact(v)
        /\ pc = "mismatch" => Spoilt(v)
  BY <1>3, <1>5 DEF CheckRows, Goto
<1>7. /\ caller' \in [Callers -> CallRow] /\ \A u \in Callers \ {t} : caller'[u] = caller[u]
      /\ caller'[t].op = caller[t].op /\ caller'[t].row = caller[t].row /\ caller'[t].pc = pc
  BY <1>1, <1>6, CallTypes DEF CallRow
<1>8. ops' = ops /\ graph' = graph /\ outbox' = outbox
  BY <1>2 DEF tables
<1>9. /\ caller'[t].op \in Operations /\ ops'[caller'[t].op].stage # "ABSENT"
      /\ caller'[t].row.stage = "EDGES_WRITTEN"
      /\ caller'[t].row.token # 0 /\ caller'[t].row.token = ops'[caller'[t].op].token
  BY <1>1, <1>2, <1>7, <1>8 DEF CallInv
<1>10. graph[v].state # "ABSENT"
  BY <1>1, <1>2, <1>3 DEF CallInv, Unwritten
<1>11. /\ (graph[Version(caller[t].row)].state # "ABSENT")'
       /\ Filled(Version(caller[t].row), Edges)'
       /\ (caller[t].pc = "verified" => Intact(Version(caller[t].row)))'
       /\ (caller[t].pc = "mismatch" => Spoilt(Version(caller[t].row)))'
  BY <1>3, <1>4, <1>6, <1>7, <1>8, <1>10 DEF Filled, Intact, Spoilt, Version
<1>12. CallInv(t)'
  BY <1>6, <1>7, <1>9, <1>11 DEF CallInv, Activated
<1> QED
  BY <1>2, <1>7, <1>12, CallStep

-----------------------------------------------------------------------------
(* publish(): calls that move the stage of their operation.                *)

LEMMA AdvanceMoves ==
  ASSUME Typed, NEW o \in Operations, NEW stages, NEW stage \in AnyStage, Advance(o, stages, stage)
  PROVE  /\ ops' \in [Operations -> OperationRow]
         /\ \A p \in Operations \ {o} : ops'[p] = ops[p]
         /\ \/ ops'[o] = ops[o]
            \/ ops[o].stage \in stages /\ ops'[o] = [ops[o] EXCEPT !.stage = stage]
<1>1. ops \in [Operations -> OperationRow] /\ ops[o] \in OperationRow
  BY DEF Typed
<1>2. CASE ops[o].stage \in stages
  <2>1. ops' = [ops EXCEPT ![o].stage = stage]
    BY <1>2 DEF Advance
  <2>2. [ops[o] EXCEPT !.stage = stage] \in OperationRow
    BY <1>1 DEF OperationRow
  <2> QED
    BY <1>1, <1>2, <2>1, <2>2
<1>3. CASE ops[o].stage \notin stages
  BY <1>1, <1>3 DEF Advance
<1> QED
  BY <1>2, <1>3

\* What a stage says of the operation and its namespace holds when it is set.
LEMMA StageFits ==
  ASSUME IInv, Typed', Grows, NEW o \in Operations, ops[o].token # 0,
         NEW v \in Versions, v = Version(ops[o]), NEW n \in 0..Edges,
         ops'[o].token = ops[o].token, ops'[o].next = n, ops'[o].stage \notin Early,
         UNCHANGED reservation,
         \/ outbox'[o] = outbox[o]
         \/ outbox[o] # "NONE" /\ outbox'[o] = "DELIVERED",
         graph'[v].state \in Served => graph[v].state \in Served,
         Filled(v, n)',
         ops'[o].stage \notin Unwritten => graph'[v].state # "ABSENT",
         ops'[o].stage \notin Unwritten \cup Writing => Filled(v, Edges)',
         ops'[o].stage = "VERIFIED" => Intact(v)',
         ops'[o].stage \in Activated => outbox[o] # "NONE",
         ops'[o].stage \in Confirmed => outbox'[o] = "DELIVERED"
  PROVE  OperationInv(o)'
<1>1. ops[o] \in OperationRow /\ OperationInv(o)
  BY DEF IInv, Typed
<1>2. /\ ops[o].token <= reservation.token
      /\ outbox[o] # "NONE" <=> graph[v].state \in Served
      /\ outbox[o] # "NONE" => ~HoldsFence(ops[o].token)
      /\ v = ops[o].token + 1
  BY <1>1 DEF OperationInv, Version
<1>3. outbox'[o] # "NONE" <=> outbox[o] # "NONE"
  OBVIOUS
<1>4. graph'[v].state \in Served <=> graph[v].state \in Served
  BY DEF Grows
<1>5. /\ (ops[o].token = 0 <=> ops[o].stage \in Early)'
      /\ (ops[o].token <= reservation.token)'
      /\ (ops[o].token = 0 => outbox[o] = "NONE" /\ ops[o].next = 0)'
      /\ (outbox[o] # "NONE" => ~HoldsFence(ops[o].token))'
      /\ (ops[o].stage \in Activated => outbox[o] # "NONE")'
      /\ (ops[o].stage \in Confirmed => outbox[o] = "DELIVERED")'
  BY <1>2, <1>3 DEF HoldsFence
<1>6. /\ (ops[o].stage \notin Unwritten => graph[Version(ops[o])].state # "ABSENT")'
      /\ (outbox[o] # "NONE" <=> graph[Version(ops[o])].state \in Served)'
  BY <1>2, <1>3, <1>4 DEF Version
<1>7. /\ Filled(Version(ops[o]), ops[o].next)'
      /\ (ops[o].stage \notin Unwritten \cup Writing => Filled(Version(ops[o]), Edges))'
  BY <1>2 DEF Filled, Version
<1>8. (ops[o].stage = "VERIFIED" => Intact(Version(ops[o])))'
  BY <1>2 DEF Intact, Version
<1> QED
  BY <1>5, <1>6, <1>7, <1>8 DEF OperationInv

\* A call moves its operation if it is still in some stages, and reads its row again.
LEMMA AdvanceStep ==
  ASSUME IInv, NEW t \in Callers, NEW o \in Operations, o = caller[t].op, caller[t].pc # "idle",
         NEW stages, stages \cap Early = {}, NEW stage \in AnyStage \ Early, NEW i \in 1..8,
         Advance(o, stages, stage), ReloadAfter(t, i),
         UNCHANGED <<pointer, reservation, graph, deployer>>,
         outbox' \in [Operations -> {"NONE", "PENDING", "DELIVERED"}],
         \A p \in Operations \ {o} : outbox'[p] = outbox[p],
         \/ outbox'[o] = outbox[o]
         \/ outbox[o] # "NONE" /\ outbox'[o] = "DELIVERED",
         ops[o].stage \in stages =>
           /\ stage \notin Unwritten => graph[Version(ops[o])].state # "ABSENT"
           /\ stage \notin Unwritten \cup Writing => Filled(Version(ops[o]), Edges)
           /\ stage = "VERIFIED" => Intact(Version(ops[o]))
           /\ stage \in Activated => outbox[o] # "NONE"
           /\ stage \in Confirmed => outbox'[o] = "DELIVERED"
  PROVE  IInv'
<1>1. Typed /\ CallInv(t) /\ OperationInv(o) /\ caller[t] \in CallRow /\ ops[o] \in OperationRow
  BY DEF IInv, Typed
<1>2. /\ ops' \in [Operations -> OperationRow]
      /\ \A p \in Operations \ {o} : ops'[p] = ops[p]
      /\ \/ ops'[o] = ops[o]
         \/ ops[o].stage \in stages /\ ops'[o] = [ops[o] EXCEPT !.stage = stage]
  BY <1>1, AdvanceMoves
<1>3. /\ caller' \in [Callers -> CallRow] /\ \A u \in Callers \ {t} : caller'[u] = caller[u]
      /\ caller'[t].op = caller[t].op /\ caller'[t].row = caller[t].row /\ caller'[t].pc = "reload"
  <2>1. PICK row : row = [caller[t] EXCEPT !.pc = "reload", !.from = i + 1]
    OBVIOUS
  <2>2. PICK old \in CallRow : old = caller[t]
    BY <1>1
  <2>3. PICK from \in Nat : from = i + 1
    OBVIOUS
  <2>4. row = [old EXCEPT !.pc = "reload", !.from = from]
    BY <2>1, <2>2, <2>3
  <2>5. row \in CallRow /\ row.pc = "reload" /\ row.op = old.op /\ row.row = old.row
    BY <2>4 DEF CallRow
  <2>6. caller \in [Callers -> CallRow]
    BY <1>1 DEF Typed
  <2>7. caller' = [caller EXCEPT ![t] = row]
    BY <2>1, <2>6 DEF ReloadAfter
  <2> QED
    BY <2>2, <2>5, <2>6, <2>7
<1>4. ops[o].stage # "ABSENT"
  BY <1>1 DEF CallInv
<1>5. ops'[o].token = ops[o].token /\ ops'[o].stage # "ABSENT"
  BY <1>1, <1>2, <1>4 DEF OperationRow, Early
<1>6. Typed' /\ Grows
  BY <1>1, <1>2, <1>3, <1>5 DEF Typed, Grows
<1>7. CallInv(t)'
  BY <1>1, <1>3, <1>6, CallKept
<1>8. OperationInv(o)'
  <2>1. CASE ops'[o] = ops[o] /\ outbox'[o] = outbox[o]
    <3>1. /\ reservation.token <= reservation'.token
          /\ HoldsFence(ops[o].token)' => HoldsFence(ops[o].token) \/ outbox[o] = "NONE"
      BY <1>1, <2>1 DEF HoldsFence, Typed
    <3> QED
      BY <1>1, <1>6, <2>1, <3>1, OperationKept
  <2>2. CASE ops'[o] = ops[o] /\ outbox[o] # "NONE" /\ outbox'[o] = "DELIVERED"
    BY <1>1, <2>2 DEF OperationInv, Filled, Intact, HoldsFence
  <2>3. CASE ops[o].stage \in stages /\ ops'[o] = [ops[o] EXCEPT !.stage = stage]
    <3>1. ops[o].token # 0
      BY <1>1, <2>3 DEF OperationInv
    <3>2. PICK v \in Versions, n \in 0..Edges : v = Version(ops[o]) /\ n = ops[o].next
      BY <1>1, VersionOf DEF OperationRow
    <3>3. Filled(v, n) /\ Edges \in 0..Edges
      BY <1>1, <3>1, <3>2, PublisherAssumption DEF OperationInv
    <3>4. /\ ops'[o].stage = stage /\ ops'[o].next = n /\ ops'[o].stage \notin Early
          /\ UNCHANGED <<graph, reservation>>
      BY <1>1, <2>3, <3>2 DEF OperationRow
    <3>5. /\ stage \notin Unwritten => graph'[v].state # "ABSENT"
          /\ graph'[v].state \in Served => graph[v].state \in Served
      BY <2>3, <3>2, <3>4
    <3>6. Filled(v, n)' /\ (stage \notin Unwritten \cup Writing => Filled(v, Edges)')
      BY <1>1, <1>6, <2>3, <3>2, <3>3, RowsKept
    <3>7. stage = "VERIFIED" => Intact(v)'
      BY <1>1, <1>6, <2>3, <3>2, RowsKept
    <3>8. /\ ops'[o].stage \in Activated => outbox[o] # "NONE"
          /\ ops'[o].stage \in Confirmed => outbox'[o] = "DELIVERED"
      BY <2>3, <3>4
    <3> QED
      BY <1>5, <1>6, <3>1, <3>2, <3>4, <3>5, <3>6, <3>7, <3>8, StageFits
  <2> QED
    BY <1>2, <2>1, <2>2, <2>3
<1> QED
  BY <1>2, <1>3, <1>5, <1>7, <1>8, OperationStep

\* A call that has come to a test knows its operation, and the namespace of its row
\* is that of the operation.
LEMMA CallsOperation ==
  ASSUME IInv, NEW t \in Callers, caller[t].pc # "idle"
  PROVE  \E o \in Operations :
           /\ o = caller[t].op /\ ops[o] \in OperationRow /\ ops[o].stage # "ABSENT"
           /\ caller[t].row \in OperationRow
           /\ caller[t].row.stage # "CREATED" =>
                /\ ops[o].token # 0 /\ ops[o].stage \notin Early
                /\ caller[t].row.token = ops[o].token
                /\ Version(caller[t].row) = Version(ops[o])
                /\ Version(ops[o]) \in Versions
<1>1. CallInv(t) /\ caller[t] \in CallRow
  BY DEF IInv, Typed
<1>2. PICK o \in Operations : o = caller[t].op
  BY <1>1 DEF CallInv
<1>3. ops[o] \in OperationRow /\ OperationInv(o)
  BY DEF IInv, Typed
<1>4. caller[t].row.stage # "CREATED" => ops[o].token # 0 /\ caller[t].row.token = ops[o].token
  BY <1>1, <1>2 DEF CallInv
<1>5. ops[o].token # 0 => ops[o].stage \notin Early
  BY <1>3 DEF OperationInv
<1> QED
  BY <1>1, <1>2, <1>3, <1>4, <1>5, VersionOf DEF CallInv, CallRow, Version

LEMMA OutboxTyped ==
  ASSUME IInv
  PROVE  outbox \in [Operations -> {"NONE", "PENDING", "DELIVERED"}]
BY DEF IInv, Typed

LEMMA ManifestKeeps ==
  ASSUME IInv, NEW t \in Callers, WriteManifest(t)
  PROVE  IInv'
<1>1. caller[t].pc # "idle"
  BY DEF WriteManifest, At
<1>2. PICK o \in Operations : o = caller[t].op
  BY <1>1, CallsOperation
<1>3. /\ Advance(o, {"RESERVED"}, "MANIFEST_WRITTEN") /\ ReloadAfter(t, 2)
      /\ UNCHANGED <<pointer, reservation, graph, outbox, deployer>>
  BY <1>2 DEF WriteManifest
<1>4. {"RESERVED"} \cap Early = {} /\ "MANIFEST_WRITTEN" \in AnyStage \ Early
  BY DEF Early, AnyStage, Unwritten
<1>5. "MANIFEST_WRITTEN" \in Unwritten /\ "MANIFEST_WRITTEN" \notin Activated \cup Confirmed \cup {"VERIFIED"}
  BY DEF Unwritten, Activated, Confirmed
<1>6. 2 \in 1..8
  OBVIOUS
<1> QED
  BY <1>1, <1>2, <1>3, <1>4, <1>5, <1>6, OutboxTyped, AdvanceStep

LEMMA NoEdgeLeftKeeps ==
  ASSUME IInv, NEW t \in Callers, NoEdgeLeft(t)
  PROVE  IInv'
<1>1. caller[t].pc = "batch" /\ caller[t].row.next >= Edges /\ CallInv(t)
  BY DEF NoEdgeLeft, IInv
<1>2. PICK o \in Operations :
        /\ o = caller[t].op /\ caller[t].row \in OperationRow
        /\ caller[t].row.stage # "CREATED" => Version(caller[t].row) = Version(ops[o])
  BY <1>1, CallsOperation
<1>3. /\ Advance(o, Writing, "EDGES_WRITTEN") /\ ReloadAfter(t, 4)
      /\ UNCHANGED <<pointer, reservation, graph, outbox, deployer>>
  BY <1>2 DEF NoEdgeLeft, Writing
<1>4. Writing \cap Early = {} /\ "EDGES_WRITTEN" \in AnyStage \ Early
  BY DEF Early, AnyStage, Writing
<1>5. "EDGES_WRITTEN" \notin Unwritten \cup Writing \cup Activated \cup Confirmed \cup {"VERIFIED"}
  BY DEF Unwritten, Writing, Activated, Confirmed
<1>6. caller[t].row.next = Edges
  BY <1>1, <1>2, PublisherAssumption DEF OperationRow
<1>7. /\ graph[Version(ops[o])].state # "ABSENT" /\ Filled(Version(ops[o]), Edges)
  BY <1>1, <1>2, <1>6 DEF CallInv
<1>8. 4 \in 1..8
  OBVIOUS
<1> QED
  BY <1>1, <1>2, <1>3, <1>4, <1>5, <1>7, <1>8, OutboxTyped, AdvanceStep

LEMMA VerifiedKeeps ==
  ASSUME IInv, NEW t \in Callers, MarkVerified(t)
  PROVE  IInv'
<1>1. caller[t].pc = "verified" /\ CallInv(t)
  BY DEF MarkVerified, IInv
<1>2. PICK o \in Operations :
        /\ o = caller[t].op
        /\ caller[t].row.stage # "CREATED" => Version(caller[t].row) = Version(ops[o])
  BY <1>1, CallsOperation
<1>3. /\ Advance(o, {"EDGES_WRITTEN"}, "VERIFIED") /\ ReloadAfter(t, 5)
      /\ UNCHANGED <<pointer, reservation, graph, outbox, deployer>>
  BY <1>2 DEF MarkVerified
<1>4. {"EDGES_WRITTEN"} \cap Early = {} /\ "VERIFIED" \in AnyStage \ Early
  BY DEF Early, AnyStage
<1>5. "VERIFIED" \notin Unwritten \cup Writing \cup Activated \cup Confirmed
  BY DEF Unwritten, Writing, Activated, Confirmed
<1>6. /\ graph[Version(ops[o])].state # "ABSENT" /\ Filled(Version(ops[o]), Edges)
      /\ Intact(Version(ops[o]))
  BY <1>1, <1>2 DEF CallInv
<1>7. 5 \in 1..8
  OBVIOUS
<1> QED
  BY <1>1, <1>2, <1>3, <1>4, <1>5, <1>6, <1>7, OutboxTyped, AdvanceStep

\* What was announced stays in service, and all of its rows are there.
LEMMA AnnouncedIsThere ==
  ASSUME IInv, NEW o \in Operations, outbox[o] # "NONE"
  PROVE  /\ ops[o].token # 0 /\ Version(ops[o]) \in Versions
         /\ graph[Version(ops[o])].state \in Served /\ graph[Version(ops[o])].state # "ABSENT"
         /\ Intact(Version(ops[o])) /\ Filled(Version(ops[o]), Edges)
<1>1. OperationInv(o) /\ ops[o] \in OperationRow
  BY DEF IInv, Typed
<1>2. PICK v \in Versions : v = Version(ops[o])
  BY <1>1, VersionOf
<1>3. ops[o].token # 0 /\ graph[v].state \in Served
  BY <1>1, <1>2 DEF OperationInv
<1>4. Intact(v)
  BY <1>3 DEF IInv, NamespaceInv
<1>5. Filled(v, Edges)
  BY <1>4 DEF Intact, Filled, Rows
<1> QED
  BY <1>2, <1>3, <1>4, <1>5 DEF Served

LEMMA DeliverKeeps ==
  ASSUME IInv, NEW t \in Callers, DeliverOutbox(t)
  PROVE  IInv'
<1>1. caller[t].pc = "loaded" /\ caller[t].row.stage = "ACTIVATED" /\ CallInv(t)
  BY Tests DEF DeliverOutbox, At, IInv
<1>2. PICK o \in Operations : o = caller[t].op
  BY <1>1, CallsOperation
<1>3. /\ Advance(o, {"ACTIVATED"}, "DELIVERY_CONFIRMED") /\ ReloadAfter(t, 7)
      /\ UNCHANGED <<pointer, reservation, graph, deployer>>
      /\ outbox' = [outbox EXCEPT ![o] = "DELIVERED"]
  BY <1>2 DEF DeliverOutbox
<1>4. {"ACTIVATED"} \cap Early = {} /\ "DELIVERY_CONFIRMED" \in AnyStage \ Early
  BY DEF Early, AnyStage, Confirmed
<1>5. outbox[o] # "NONE"
  BY <1>1, <1>2 DEF CallInv, Activated
<1>6. /\ outbox' \in [Operations -> {"NONE", "PENDING", "DELIVERED"}]
      /\ \A p \in Operations \ {o} : outbox'[p] = outbox[p]
      /\ outbox'[o] = "DELIVERED"
  BY <1>3, OutboxTyped
<1>7. 7 \in 1..8
  OBVIOUS
<1> QED
  BY <1>1, <1>2, <1>3, <1>4, <1>5, <1>6, <1>7, AnnouncedIsThere, AdvanceStep

LEMMA CompleteKeeps ==
  ASSUME IInv, NEW t \in Callers, Complete(t)
  PROVE  IInv'
<1>1. caller[t].pc = "loaded" /\ CallInv(t)
  BY DEF Complete, At, IInv
<1>2. PICK o \in Operations : o = caller[t].op
  BY <1>1, CallsOperation
<1>3. /\ Advance(o, {"DELIVERY_CONFIRMED"}, "COMPLETED") /\ ReloadAfter(t, 8)
      /\ UNCHANGED <<pointer, reservation, graph, outbox, deployer>>
  BY <1>2 DEF Complete
<1>4. {"DELIVERY_CONFIRMED"} \cap Early = {} /\ "COMPLETED" \in AnyStage \ Early
  BY DEF Early, AnyStage, Confirmed
<1>5. ops[o].stage = "DELIVERY_CONFIRMED" => outbox[o] = "DELIVERED"
  BY DEF IInv, OperationInv, Confirmed
<1>6. 8 \in 1..8
  OBVIOUS
<1>7. ops[o].stage \in {"DELIVERY_CONFIRMED"} =>
        /\ outbox[o] # "NONE" /\ outbox'[o] = "DELIVERED"
        /\ graph[Version(ops[o])].state # "ABSENT" /\ Filled(Version(ops[o]), Edges)
        /\ Intact(Version(ops[o]))
  BY <1>3, <1>5, AnnouncedIsThere
<1> QED
  BY <1>1, <1>2, <1>3, <1>4, <1>6, <1>7, OutboxTyped, AdvanceStep

-----------------------------------------------------------------------------
(* publish(): calls that write more than a stage.                          *)

LEMMA CreateKeeps ==
  ASSUME IInv, NEW t \in Callers, NEW o \in Operations, Create(t, o)
  PROVE  IInv'
<1>1. /\ Typed /\ OperationInv(o) /\ caller \in [Callers -> CallRow]
      /\ ops \in [Operations -> OperationRow]
  BY DEF IInv, Typed
<1>2. PICK base \in Versions :
        /\ ops' = [ops EXCEPT ![o] = NewRow("CREATED", base)]
        /\ Start(t, o, NewRow("CREATED", base))
  BY DEF Create
<1>3. /\ ops[o].stage = "ABSENT"
      /\ UNCHANGED <<pointer, reservation, graph, outbox, deployer>>
  BY DEF Create
<1>4. PICK row \in OperationRow : row = NewRow("CREATED", base)
  <2>1. base \in Nat /\ "CREATED" \in AnyStage /\ 0 \in 0..MaxToken /\ 0 \in 0..Edges
    BY PublisherAssumption DEF AnyStage, Early, Versions
  <2>2. NewRow("CREATED", base) \in OperationRow
    BY <2>1 DEF NewRow, OperationRow
  <2> QED
    BY <2>2
<1>5. row.stage = "CREATED" /\ row.token = 0 /\ row.next = 0
  BY <1>4 DEF NewRow
<1>6. ops[o].token = 0 /\ outbox[o] = "NONE"
  BY <1>1, <1>3 DEF OperationInv, Early
<1>7. /\ ops' \in [Operations -> OperationRow] /\ ops'[o] = row
      /\ \A p \in Operations \ {o} : ops'[p] = ops[p] /\ outbox'[p] = outbox[p]
  BY <1>1, <1>2, <1>3, <1>4
<1>8. /\ caller' \in [Callers -> CallRow] /\ \A u \in Callers \ {t} : caller'[u] = caller[u]
      /\ caller'[t].pc = "loaded" /\ caller'[t].op = o /\ caller'[t].row = row
  BY <1>1, <1>2, <1>4 DEF Start, CallRow
<1>9. reservation.token \in Nat
  BY <1>1 DEF Typed
<1>10. OperationInv(o)'
  BY <1>3, <1>5, <1>6, <1>7, <1>9 DEF OperationInv, Early, Activated, Confirmed
<1>11. CallInv(t)'
  BY <1>5, <1>7, <1>8 DEF CallInv, Activated
<1> QED
  BY <1>3, <1>5, <1>6, <1>7, <1>8, <1>10, <1>11, OutboxTyped, OperationStep

\* A call that goes on to read its row again, or to the next batch, in a step that
\* takes nothing back.
LEMMA CallGoesOn ==
  ASSUME Typed, NEW t \in Callers,
         \/ \E i \in 1..8 : ReloadAfter(t, i)
         \/ caller[t].pc = "batch" /\ Goto(t, "edges"),
         caller[t].pc # "idle"
  PROVE  /\ caller' \in [Callers -> CallRow]
         /\ \A u \in Callers \ {t} : caller'[u] = caller[u]
         /\ CallInv(t) /\ Typed' /\ Grows => CallInv(t)'
<1>1. caller[t] \in CallRow /\ caller \in [Callers -> CallRow]
  BY DEF Typed
<1>2. /\ caller' \in [Callers -> CallRow]
      /\ \A u \in Callers \ {t} : caller'[u] = caller[u]
      /\ caller'[t].op = caller[t].op /\ caller'[t].row = caller[t].row
      /\ \/ caller'[t].pc = "reload"
         \/ caller[t].pc = "batch" /\ caller'[t].pc = "edges"
  <2>1. CASE \E i \in 1..8 : ReloadAfter(t, i)
    <3>1. PICK i \in 1..8 : ReloadAfter(t, i)
      BY <2>1
    <3> QED
      BY <1>1, <3>1, CallTypes DEF ReloadAfter, CallRow
  <2>2. CASE caller[t].pc = "batch" /\ Goto(t, "edges")
    BY <1>1, <2>2, CallTypes DEF Goto, CallRow
  <2> QED
    BY <2>1, <2>2
<1> QED
  BY <1>2, CallKept

\* The token that is handed out is above every one there is.
LEMMA NextToken ==
  ASSUME IInv
  PROVE  LastToken = reservation.token /\ reservation.token \in Nat /\ pointer.fence \in Nat
BY PublisherAssumption DEF IInv, Typed, TokensGrow, LastToken

\* What a reservation keeps.
LEMMA ReservationKeeps ==
  ASSUME IInv, Reserve(LastToken + 1), UNCHANGED <<pointer, graph>>
  PROVE  /\ reservation'.token = reservation.token + 1 /\ reservation'.token \in 1..MaxToken
         /\ reservation' \in [token : 0..MaxToken, status : {"NONE", "RESERVED", "ACTIVATED"}]
         /\ TokensGrow'
         /\ \A v \in Versions : NamespaceInv(v)'
         /\ \A o \in Operations : ops[o].token # reservation'.token
<1>1. /\ reservation' = [token |-> reservation.token + 1, status |-> "RESERVED"]
      /\ reservation.token + 1 <= MaxToken /\ reservation.token \in Nat /\ pointer.fence \in Nat
  BY NextToken DEF Reserve
<1>2. PICK k \in 1..MaxToken : k = reservation.token + 1
  BY <1>1, PublisherAssumption
<1>3. /\ reservation' = [token |-> k, status |-> "RESERVED"]
      /\ reservation'.token = k /\ reservation'.status = "RESERVED"
  BY <1>1, <1>2
<1>4. TokensGrow'
  BY <1>1, <1>2, <1>3 DEF IInv, TokensGrow
<1>5. ASSUME NEW v \in Versions
      PROVE  NamespaceInv(v)'
  <2>1. v > k + 1 => v > reservation.token + 1
    BY <1>1, <1>2 DEF Versions
  <2> QED
    BY <1>3, <2>1 DEF IInv, NamespaceInv, Intact, Spoilt
<1>6. ASSUME NEW o \in Operations
      PROVE  ops[o].token # k
  <2>1. ops[o].token \in Nat /\ ops[o].token <= reservation.token
    BY DEF IInv, Typed, OperationRow, OperationInv
  <2> QED
    BY <1>1, <1>2, <2>1
<1> QED
  BY <1>1, <1>2, <1>3, <1>4, <1>5, <1>6

LEMMA ReserveKeeps ==
  ASSUME IInv, NEW t \in Callers, ReserveOperation(t)
  PROVE  IInv'
<1>1. caller[t].pc = "loaded" /\ CallInv(t) /\ Typed /\ caller[t].pc # "idle"
  BY DEF ReserveOperation, At, IInv
<1>2. PICK o \in Operations : o = caller[t].op /\ ops[o] \in OperationRow
  BY <1>1, CallsOperation
<1>3. UNCHANGED <<pointer, graph, outbox, deployer>>
  BY DEF ReserveOperation
<1>4. 1 \in 1..8
  OBVIOUS
<1>5. CASE UNCHANGED <<reservation, ops>> /\ (ReloadAfter(t, 1) \/ Raise(t))
  <2>1. Typed' /\ Grows
    <3>1. caller' \in [Callers -> CallRow]
      BY <1>1, <1>4, <1>5, CallGoesOn, CallEnds
    <3> QED
      BY <1>1, <1>3, <1>5, <3>1 DEF Typed, Grows
  <2>2. /\ CallInv(t)' /\ caller' \in [Callers -> CallRow]
        /\ \A u \in Callers \ {t} : caller'[u] = caller[u]
    BY <1>1, <1>4, <1>5, <2>1, CallGoesOn, CallEnds
  <2> QED
    BY <1>3, <1>5, <2>2, CallStep DEF tables
<1>6. CASE /\ ops[o].stage = "CREATED" /\ Reserve(LastToken + 1) /\ ReloadAfter(t, 1)
           /\ ops' = [ops EXCEPT ![o].token = LastToken + 1, ![o].stage = "RESERVED"]
  <2>1. PICK k \in 1..MaxToken : k = LastToken + 1 /\ k = reservation'.token
    BY <1>3, <1>6, NextToken, ReservationKeeps
  <2>2. /\ k = reservation.token + 1 /\ reservation.token \in Nat
        /\ reservation' \in [token : 0..MaxToken, status : {"NONE", "RESERVED", "ACTIVATED"}]
        /\ TokensGrow' /\ \A v \in Versions : NamespaceInv(v)'
        /\ \A p \in Operations : ops[p].token # k
    BY <1>3, <1>6, <2>1, NextToken, ReservationKeeps
  <2>3. /\ ops' \in [Operations -> OperationRow] /\ ops'[o].token = k
        /\ ops'[o].stage = "RESERVED" /\ ops'[o].next = ops[o].next
        /\ \A p \in Operations \ {o} : ops'[p] = ops[p]
    <3>1. ops' = [ops EXCEPT ![o].token = k, ![o].stage = "RESERVED"] /\ k \in 0..MaxToken
      BY <1>6, <2>1, PublisherAssumption
    <3>2. "RESERVED" \in AnyStage /\ ops \in [Operations -> OperationRow]
      BY <1>1 DEF AnyStage, Unwritten, Typed
    <3> QED
      BY <1>2, <3>1, <3>2 DEF OperationRow
  <2>4. OperationInv(o) /\ ops[o].token = 0 /\ outbox[o] = "NONE" /\ ops[o].next = 0
    BY <1>6 DEF IInv, OperationInv, Early
  <2>5. /\ Typed' /\ Grows
    <3>1. caller' \in [Callers -> CallRow]
      BY <1>1, <1>4, <1>6, CallGoesOn
    <3>2. Typed'
      BY <1>1, <1>3, <2>2, <2>3, <3>1 DEF Typed
    <3>3. Grows
      BY <1>3, <2>3, <2>4 DEF Grows
    <3> QED
      BY <3>2, <3>3
  <2>6. CallInv(t)' /\ \A u \in Callers \ {t} : caller'[u] = caller[u]
    BY <1>1, <1>4, <1>6, <2>5, CallGoesOn
  <2>7. NamespacesAreOwned'
    BY <2>2, <2>3 DEF IInv, NamespacesAreOwned
  <2>8. OperationInv(o)'
    <3>1. PICK v \in Versions : v = k + 1
      BY PublisherAssumption DEF Versions
    <3>2. graph[v].state = "ABSENT"
      BY <2>2, <3>1 DEF IInv, NamespaceInv
    <3>3. graph'[k + 1].state = "ABSENT"
      BY <1>3, <3>1, <3>2
    <3>4. ops'[o].stage \in Unwritten /\ ops'[o].stage \notin Early /\ "ABSENT" \notin Served
          /\ ops'[o].stage \notin Activated /\ ops'[o].stage \notin Confirmed
          /\ ops'[o].stage # "VERIFIED" /\ k # 0 /\ outbox'[o] = "NONE"
      BY <1>3, <2>3, <2>4 DEF Unwritten, Early, Served, Activated, Confirmed
    <3>5. Filled(Version(ops[o]), ops[o].next)'
      BY <2>3, <2>4 DEF Filled
    <3>6. (graph[Version(ops[o])].state \notin Served)'
      BY <2>3, <3>3, <3>4 DEF Version
    <3> QED
      BY <2>1, <2>3, <3>4, <3>5, <3>6 DEF OperationInv
  <2>9. /\ reservation.token <= reservation'.token
        /\ \A p \in Operations \ {o} :
             /\ ops'[p] = ops[p] /\ outbox'[p] = outbox[p]
             /\ HoldsFence(ops[p].token)' => HoldsFence(ops[p].token) \/ outbox[p] = "NONE"
             /\ ops[p].token # 0 /\ graph'[Version(ops[p])].state \in Served
                  => graph[Version(ops[p])].state \in Served
    BY <1>3, <2>1, <2>2, <2>3 DEF HoldsFence
  <2>10. {t} \in SUBSET Callers /\ {o} \in SUBSET Operations
    OBVIOUS
  <2>11. \A d \in Deployers : deployer'[d] = deployer[d]
    BY <1>3
  <2> QED
    BY <2>2, <2>5, <2>6, <2>7, <2>8, <2>9, <2>10, <2>11, StepKeeps
<1> QED
  BY <1>2, <1>5, <1>6 DEF ReserveOperation

\* A step in which a call changes its operation and the namespace of it, out of service.
LEMMA NamespaceStep ==
  ASSUME IInv, Typed', Grows, UNCHANGED <<pointer, reservation, outbox, deployer>>,
         NEW t \in Callers, NEW o \in Operations, NEW v \in Versions, v = Version(ops[o]),
         ops[o].token # 0, ops'[o].token = ops[o].token,
         \A p \in Operations \ {o} : ops'[p] = ops[p],
         \A u \in Versions \ {v} : graph'[u] = graph[u],
         graph[v].state \in Served \/ graph'[v].state \in Served => graph'[v].state = graph[v].state,
         graph'[v].state = "DISCARDED" => Spoilt(v)',
         \A u \in Callers \ {t} : caller'[u] = caller[u],
         CallInv(t)', OperationInv(o)'
  PROVE  IInv'
<1>1. /\ TokensGrow' /\ NamespacesAreOwned' /\ Typed
  BY DEF IInv, TokensGrow, NamespacesAreOwned
<1>2. ASSUME NEW u \in Versions
      PROVE  NamespaceInv(u)'
  <2>1. CASE u # v
    BY <2>1 DEF IInv, NamespaceInv, Intact, Spoilt
  <2>2. CASE u = v
    <3>1. NamespaceInv(v) /\ reservation.token \in Nat /\ ops[o] \in OperationRow /\ OperationInv(o)
      BY DEF IInv, Typed
    <3>2. ~(v > reservation.token + 1)
      BY <3>1 DEF OperationInv, Version, OperationRow
    <3>3. graph'[v].state \in Served => Intact(v)'
      BY <1>1, <3>1, RowsKept DEF NamespaceInv
    <3>4. graph'[v].state = "ACTIVE" <=> v = pointer'.active
      BY <3>1 DEF NamespaceInv, Served
    <3> QED
      BY <2>2, <3>2, <3>3, <3>4 DEF NamespaceInv
  <2> QED
    BY <2>1, <2>2
<1>3. ASSUME NEW p \in Operations \ {o}
      PROVE  /\ ops'[p] = ops[p] /\ outbox'[p] = outbox[p]
             /\ HoldsFence(ops[p].token)' => HoldsFence(ops[p].token) \/ outbox[p] = "NONE"
             /\ ops[p].token # 0 /\ graph'[Version(ops[p])].state \in Served
                  => graph[Version(ops[p])].state \in Served
  <2>1. ops[p] \in OperationRow /\ Version(ops[p]) \in Versions
    BY <1>1, VersionOf DEF Typed
  <2> QED
    BY <2>1 DEF HoldsFence
<1>4. reservation.token <= reservation'.token
  BY <1>1 DEF Typed
<1>5. {t} \in SUBSET Callers /\ {o} \in SUBSET Operations
  OBVIOUS
<1>6. \A d \in Deployers : deployer'[d] = deployer[d]
  OBVIOUS
<1> QED
  BY <1>1, <1>2, <1>3, <1>4, <1>5, <1>6, StepKeeps

LEMMA CreateNamespaceKeeps ==
  ASSUME IInv, NEW t \in Callers, CreateNamespace(t)
  PROVE  IInv'
<1>1. /\ caller[t].pc = "loaded" /\ caller[t].pc # "idle" /\ caller[t].row.stage = "MANIFEST_WRITTEN"
      /\ CallInv(t) /\ Typed
  BY Tests DEF CreateNamespace, At, IInv
<1>2. PICK o \in Operations :
        /\ o = caller[t].op /\ ops[o] \in OperationRow
        /\ ops[o].token # 0 /\ ops[o].stage \notin Early
        /\ Version(caller[t].row) = Version(ops[o]) /\ Version(ops[o]) \in Versions
  BY <1>1, CallsOperation
<1>3. PICK v \in Versions, n \in 0..Edges : v = Version(ops[o]) /\ n = ops[o].next
  BY <1>2 DEF OperationRow
<1>4. PICK stage \in {"EDGES_WRITTEN", "NAMESPACE_CREATED"} :
        stage = IF Edges = 0 THEN "EDGES_WRITTEN" ELSE "NAMESPACE_CREATED"
  OBVIOUS
<1>5. /\ graph' = IF graph[v].state = "ABSENT" THEN [graph EXCEPT ![v].state = "STAGING"] ELSE graph
      /\ Advance(o, {"MANIFEST_WRITTEN"}, stage)
      /\ ReloadAfter(t, 3)
      /\ UNCHANGED <<pointer, reservation, outbox, deployer>>
  BY <1>2, <1>3, <1>4 DEF CreateNamespace
<1>6. /\ graph' \in [Versions -> GraphRow] /\ \A u \in Versions \ {v} : graph'[u] = graph[u]
      /\ graph'[v].rows = graph[v].rows
      /\ graph'[v].state = IF graph[v].state = "ABSENT" THEN "STAGING" ELSE graph[v].state
  BY <1>1, <1>5 DEF Typed, GraphRow
<1>7. stage \in AnyStage \ Early /\ stage \notin Unwritten \cup Activated \cup Confirmed \cup {"VERIFIED"}
  BY DEF AnyStage, Writing, Early, Unwritten, Activated, Confirmed
<1>8. /\ ops' \in [Operations -> OperationRow]
      /\ \A p \in Operations \ {o} : ops'[p] = ops[p]
      /\ \/ ops'[o] = ops[o]
         \/ ops[o].stage \in {"MANIFEST_WRITTEN"} /\ ops'[o] = [ops[o] EXCEPT !.stage = stage]
  BY <1>1, <1>5, <1>7, AdvanceMoves
<1>9. /\ ops'[o].token = ops[o].token /\ ops'[o].next = n
      /\ ops'[o].stage = ops[o].stage \/ ops'[o].stage = stage
  BY <1>2, <1>3, <1>8 DEF OperationRow
<1>10. ops'[o].stage # "ABSENT" /\ ops'[o].stage \notin Early
  BY <1>2, <1>7, <1>9 DEF Early
<1>11. 3 \in 1..8
  OBVIOUS
<1>12. Typed' /\ Grows
  <2>1. caller' \in [Callers -> CallRow]
    BY <1>1, <1>5, <1>11, CallGoesOn
  <2>2. Typed'
    BY <1>1, <1>5, <1>6, <1>8, <2>1 DEF Typed
  <2>3. Grows
    BY <1>5, <1>6, <1>8, <1>9, <1>10 DEF Grows, Served
  <2> QED
    BY <2>2, <2>3
<1>13. CallInv(t)' /\ \A u \in Callers \ {t} : caller'[u] = caller[u]
  BY <1>1, <1>5, <1>11, <1>12, CallGoesOn
<1>14. graph'[v].state \in Served => graph[v].state \in Served
  BY <1>6 DEF Served
<1>15. OperationInv(o)'
  <2>1. OperationInv(o)
    BY DEF IInv
  <2>2. CASE ops'[o] = ops[o]
    <3>1. /\ reservation.token <= reservation'.token
          /\ HoldsFence(ops[o].token)' => HoldsFence(ops[o].token) \/ outbox[o] = "NONE"
      BY <1>1, <1>5, <2>2 DEF HoldsFence, Typed
    <3> QED
      BY <1>1, <1>3, <1>5, <1>12, <1>14, <2>1, <2>2, <3>1, OperationKept
  <2>3. CASE ops'[o].stage = stage
    <3>1. Filled(v, n) /\ n \in 0..Edges
      BY <1>2, <1>3, <2>1 DEF OperationInv
    <3>2. Filled(v, n)'
      BY <1>1, <1>12, <3>1, RowsKept
    <3>3. stage \notin Unwritten \cup Writing => Filled(v, Edges)'
      BY <1>4, PublisherAssumption DEF Writing, Filled
    <3>4. graph'[v].state # "ABSENT"
      BY <1>6
    <3> QED
      BY <1>2, <1>3, <1>5, <1>7, <1>9, <1>10, <1>12, <1>14, <2>3, <3>2, <3>3, <3>4, StageFits
  <2>4. ops'[o] = [ops[o] EXCEPT !.stage = stage] => ops'[o].stage = stage
    BY <1>2 DEF OperationRow
  <2> QED
    BY <1>8, <2>2, <2>3, <2>4
<1>16. /\ graph[v].state \in Served \/ graph'[v].state \in Served => graph'[v].state = graph[v].state
       /\ graph'[v].state = "DISCARDED" => Spoilt(v)'
  <2>1. NamespaceInv(v)
    BY DEF IInv
  <2>2. graph'[v].state = "DISCARDED" => Spoilt(v)
    BY <1>6, <2>1 DEF NamespaceInv
  <2>3. Spoilt(v) => Spoilt(v)'
    BY <1>1, <1>12, RowsKept
  <2> QED
    BY <1>6, <2>2, <2>3 DEF Served
<1>17. /\ UNCHANGED <<pointer, reservation, outbox, deployer>>
       /\ v = Version(ops[o]) /\ ops[o].token # 0 /\ ops'[o].token = ops[o].token
       /\ \A p \in Operations \ {o} : ops'[p] = ops[p]
       /\ \A u \in Versions \ {v} : graph'[u] = graph[u]
  BY <1>2, <1>3, <1>5, <1>6, <1>8, <1>9
<1> QED
  BY <1>12, <1>13, <1>15, <1>16, <1>17, NamespaceStep

LEMMA FailedKeeps ==
  ASSUME IInv, NEW t \in Callers, MarkFailed(t)
  PROVE  IInv'
<1>1. caller[t].pc = "mismatch" /\ caller[t].pc # "idle" /\ CallInv(t) /\ Typed
  BY DEF MarkFailed, IInv
<1>2. PICK o \in Operations :
        /\ o = caller[t].op /\ ops[o] \in OperationRow
        /\ ops[o].token # 0 /\ ops[o].stage \notin Early
        /\ Version(caller[t].row) = Version(ops[o]) /\ Version(ops[o]) \in Versions
  <2>1. caller[t].row.stage # "CREATED"
    BY <1>1 DEF CallInv
  <2> QED
    BY <1>1, <2>1, CallsOperation
<1>3. PICK v \in Versions, n \in 0..Edges : v = Version(ops[o]) /\ n = ops[o].next
  BY <1>2 DEF OperationRow
<1>4. PICK stage \in Failed :
        stage = IF FailurePolicy = "DISCARD" THEN "FAILED_VERIFY_DISCARDED" ELSE "FAILED_VERIFY_RETAINED"
  BY DEF Failed
<1>5. /\ graph' = IF FailurePolicy = "DISCARD" /\ graph[v].state = "STAGING"
                  THEN [graph EXCEPT ![v].state = "DISCARDED"] ELSE graph
      /\ ops' = [ops EXCEPT ![o].stage = stage]
      /\ Raise(t)
      /\ UNCHANGED <<pointer, reservation, outbox, deployer>>
  BY <1>2, <1>3, <1>4 DEF MarkFailed
<1>6. /\ graph' \in [Versions -> GraphRow] /\ \A u \in Versions \ {v} : graph'[u] = graph[u]
      /\ graph'[v].rows = graph[v].rows
      /\ graph'[v].state = graph[v].state
           \/ (graph[v].state = "STAGING" /\ graph'[v].state = "DISCARDED")
  BY <1>1, <1>5 DEF Typed, GraphRow
<1>7. stage \in AnyStage \ Early /\ stage \notin Activated \cup Confirmed \cup {"VERIFIED"}
  BY DEF AnyStage, Early, Failed, Activated, Confirmed
<1>8. /\ ops' \in [Operations -> OperationRow]
      /\ \A p \in Operations \ {o} : ops'[p] = ops[p]
      /\ ops'[o].token = ops[o].token /\ ops'[o].next = n /\ ops'[o].stage = stage
  BY <1>1, <1>2, <1>3, <1>5, <1>7 DEF OperationRow, Typed
<1>9. /\ CallInv(t)' /\ caller' \in [Callers -> CallRow]
      /\ \A u \in Callers \ {t} : caller'[u] = caller[u]
  BY <1>1, <1>5, CallEnds
<1>10. Typed' /\ Grows
  <2>1. Typed'
    BY <1>1, <1>5, <1>6, <1>8, <1>9 DEF Typed
  <2>2. Grows
    BY <1>5, <1>6, <1>7, <1>8 DEF Grows, Served, Early
  <2> QED
    BY <2>1, <2>2
<1>11. Spoilt(v)' /\ Filled(v, Edges)' /\ Filled(v, n)' /\ graph'[v].state # "ABSENT"
  <2>1. Spoilt(v) /\ Filled(v, Edges) /\ graph[v].state # "ABSENT"
    BY <1>1, <1>2, <1>3 DEF CallInv
  <2>2. Filled(v, n)
    BY <2>1, PublisherAssumption DEF Filled
  <2>3. Edges \in 0..Edges
    BY PublisherAssumption
  <2> QED
    BY <1>1, <1>10, <2>1, <2>2, <2>3, RowsKept DEF Grows
<1>12. graph[v].state \in Served \/ graph'[v].state \in Served => graph'[v].state = graph[v].state
  BY <1>6 DEF Served
<1>13. OperationInv(o)'
  <2>1. /\ ops'[o].stage \notin Early /\ ops'[o].stage # "VERIFIED"
        /\ ops'[o].stage \notin Activated /\ ops'[o].stage \notin Confirmed
    BY <1>7, <1>8
  <2>2. UNCHANGED reservation /\ outbox'[o] = outbox[o]
    BY <1>5
  <2>3. ops[o].token # 0 /\ ops'[o].token = ops[o].token /\ ops'[o].next = n
    BY <1>2, <1>8
  <2>4. graph'[v].state \in Served => graph[v].state \in Served
    BY <1>12
  <2> QED
    BY <1>3, <1>10, <1>11, <2>1, <2>2, <2>3, <2>4, StageFits
<1>14. /\ UNCHANGED <<pointer, reservation, outbox, deployer>>
       /\ v = Version(ops[o]) /\ ops[o].token # 0 /\ ops'[o].token = ops[o].token
       /\ \A p \in Operations \ {o} : ops'[p] = ops[p]
       /\ \A u \in Versions \ {v} : graph'[u] = graph[u]
  BY <1>2, <1>3, <1>5, <1>6, <1>8
<1> QED
  BY <1>9, <1>10, <1>11, <1>12, <1>13, <1>14, NamespaceStep

\* A batch holds at least one row and ends with the last.
LEMMA BatchBounds ==
  ASSUME NEW start \in 0..Edges, start < Edges
  PROVE  BatchEnd(start) \in (start + 1)..Edges
<1>1. PICK a \in Nat, b \in Nat : a = start + BatchSize /\ b = Edges /\ a > start /\ b > start
  BY PublisherAssumption
<1>2. \E x \in {a, b} : \A y \in {a, b} : x <= y
  BY <1>1
<1>3. Min({a, b}) \in {a, b} /\ Min({a, b}) <= b
  BY <1>2 DEF Min
<1> QED
  BY <1>1, <1>3, PublisherAssumption DEF BatchEnd

LEMMA BatchKeeps ==
  ASSUME IInv, NEW t \in Callers, WriteBatch(t)
  PROVE  IInv'
<1>1. caller[t].pc = "batch" /\ caller[t].pc # "idle" /\ CallInv(t) /\ Typed
  BY DEF WriteBatch, IInv
<1>2. PICK o \in Operations :
        /\ o = caller[t].op /\ ops[o] \in OperationRow /\ caller[t].row \in OperationRow
        /\ ops[o].token # 0 /\ ops[o].stage \notin Early
        /\ Version(caller[t].row) = Version(ops[o]) /\ Version(ops[o]) \in Versions
  <2>1. caller[t].row.stage # "CREATED"
    BY <1>1 DEF CallInv
  <2> QED
    BY <1>1, <2>1, CallsOperation
<1>3. PICK v \in Versions, start \in 0..Edges : v = Version(ops[o]) /\ start = caller[t].row.next
  BY <1>2 DEF OperationRow
<1>4. start < Edges /\ UNCHANGED <<pointer, reservation, outbox, deployer>>
  BY <1>3 DEF WriteBatch
<1>5. PICK end \in 0..Edges : end = BatchEnd(start) /\ end > start
  BY <1>4, BatchBounds
<1>6. \/ Raise(t) /\ UNCHANGED <<ops, graph>>
      \/ /\ \E spoilt \in {FALSE, Faulty} : graph' = Inserted(v, (start + 1)..end, spoilt)
         /\ StoreProgress(o, end)
         /\ ReloadAfter(t, 4) \/ Goto(t, "edges")
  BY <1>2, <1>3, <1>5 DEF WriteBatch
<1>7. CASE Raise(t) /\ UNCHANGED <<ops, graph>>
  BY <1>1, <1>4, <1>7, CallEnds, CallStep DEF tables
<1>8. CASE /\ \E spoilt \in {FALSE, Faulty} : graph' = Inserted(v, (start + 1)..end, spoilt)
           /\ StoreProgress(o, end)
           /\ ReloadAfter(t, 4) \/ Goto(t, "edges")
  <2>1. PICK spoilt \in BOOLEAN : graph' = Inserted(v, (start + 1)..end, spoilt)
    BY <1>8, PublisherAssumption
  <2> DEFINE filled == [e \in 1..Edges |->
        IF e \in (start + 1)..end /\ graph[v].rows[e] = "MISSING"
        THEN IF spoilt /\ \A f \in (start + 1)..end : f <= e THEN "BAD" ELSE "GOOD"
        ELSE graph[v].rows[e]]
  <2>2. graph' = [graph EXCEPT ![v].rows = filled]
    BY <2>1 DEF Inserted
  <2>3. graph[v] \in GraphRow /\ graph \in [Versions -> GraphRow]
    BY <1>1 DEF Typed
  <2>4. filled \in [1..Edges -> {"MISSING", "GOOD", "BAD"}]
    BY <2>3 DEF GraphRow
  <2>5. /\ \A e \in 1..Edges : graph[v].rows[e] # "MISSING" => filled[e] = graph[v].rows[e]
        /\ \A e \in (start + 1)..end : filled[e] # "MISSING"
    <3>1. \A e \in (start + 1)..end : e \in 1..Edges
      BY <1>3, <1>5, PublisherAssumption
    <3> QED
      BY <3>1
  <2> HIDE DEF filled
  <2>6. /\ graph' \in [Versions -> GraphRow] /\ \A u \in Versions \ {v} : graph'[u] = graph[u]
        /\ graph'[v].rows = filled /\ graph'[v].state = graph[v].state
    BY <2>2, <2>3, <2>4 DEF GraphRow
  <2>7. PICK stage \in {"EDGES_WRITTEN", "EDGES_WRITING"} :
          /\ ops' = [ops EXCEPT ![o].next = end, ![o].stage = stage]
          /\ stage = "EDGES_WRITTEN" => end = Edges
    BY <1>8 DEF StoreProgress
  <2>8. stage \in AnyStage \ Early /\ stage \notin Unwritten \cup Activated \cup Confirmed \cup {"VERIFIED"}
    BY DEF AnyStage, Writing, Early, Unwritten, Activated, Confirmed
  <2>9. /\ ops' \in [Operations -> OperationRow]
        /\ \A p \in Operations \ {o} : ops'[p] = ops[p]
        /\ ops'[o].token = ops[o].token /\ ops'[o].next = end /\ ops'[o].stage = stage
    BY <1>1, <1>2, <2>7, <2>8 DEF OperationRow, Typed
  <2>10. 4 \in 1..8
    OBVIOUS
  <2>11. /\ caller' \in [Callers -> CallRow] /\ \A u \in Callers \ {t} : caller'[u] = caller[u]
    BY <1>1, <1>8, <2>10, CallGoesOn
  <2>12. Typed' /\ Grows
    <3>1. Typed'
      BY <1>1, <1>4, <2>6, <2>9, <2>11 DEF Typed
    <3>2. \A u \in Versions, e \in 1..Edges :
            graph[u].rows[e] # "MISSING" => graph'[u].rows[e] = graph[u].rows[e]
      BY <2>5, <2>6
    <3>3. \A u \in Versions : graph'[u].state = graph[u].state
      BY <2>6
    <3>4. \A p \in Operations :
            /\ ops[p].stage # "ABSENT" => ops'[p].stage # "ABSENT"
            /\ ops[p].token # 0 => ops'[p].token = ops[p].token
      BY <2>8, <2>9 DEF Early
    <3> QED
      BY <1>4, <3>1, <3>2, <3>3, <3>4 DEF Grows
  <2>13. CallInv(t)'
    BY <1>1, <1>8, <2>10, <2>12, CallGoesOn
  <2>14. graph[v].state # "ABSENT" /\ Filled(v, start)
    BY <1>1, <1>2, <1>3 DEF CallInv
  <2>15. Filled(v, end)'
    <3> SUFFICES ASSUME NEW e \in 1..end
                 PROVE  graph'[v].rows[e] # "MISSING"
      BY DEF Filled
    <3>1. e \in 1..Edges /\ (e \in 1..start \/ e \in (start + 1)..end)
      BY <1>3, <1>5, PublisherAssumption
    <3> QED
      BY <2>5, <2>6, <2>14, <3>1 DEF Filled
  <2>16. stage \notin Unwritten \cup Writing => Filled(v, Edges)'
    BY <2>7, <2>15 DEF Writing
  <2>17. OperationInv(o)'
    BY <1>2, <1>3, <1>4, <2>6, <2>8, <2>9, <2>12, <2>14, <2>15, <2>16, StageFits
  <2>18. graph'[v].state = "DISCARDED" => Spoilt(v)'
    BY <1>1, <2>6, <2>12, RowsKept DEF IInv, NamespaceInv
  <2>19. /\ UNCHANGED <<pointer, reservation, outbox, deployer>>
         /\ v = Version(ops[o]) /\ ops[o].token # 0 /\ ops'[o].token = ops[o].token
         /\ \A p \in Operations \ {o} : ops'[p] = ops[p]
         /\ \A u \in Versions \ {v} : graph'[u] = graph[u]
         /\ graph'[v].state = graph[v].state
    BY <1>2, <1>3, <1>4, <2>6, <2>9
  <2> QED
    BY <2>11, <2>12, <2>13, <2>17, <2>18, <2>19, NamespaceStep
<1> QED
  BY <1>6, <1>7, <1>8
-----------------------------------------------------------------------------
(* Moving the pointer.                                                     *)

\* The transaction that puts an intact namespace into service under a token that
\* nobody has used.
LEMMA SwapKeeps ==
  ASSUME IInv, NEW v \in Versions, NEW k \in 0..MaxToken, NEW from,
         HoldsFence(k), graph[v].state \in from, graph[v].state # "ABSENT", Intact(v),
         graph' = Swapped(v, from), PointTo(v, k),
         reservation' = [reservation EXCEPT !.status = "ACTIVATED"]
  PROVE  /\ pointer' \in [active : Versions, fence : Nat]
         /\ reservation' \in [token : 0..MaxToken, status : {"NONE", "RESERVED", "ACTIVATED"}]
         /\ reservation'.token = reservation.token /\ \A token : ~HoldsFence(token)'
         /\ graph' \in [Versions -> GraphRow]
         /\ \A u \in Versions :
              /\ graph'[u].rows = graph[u].rows
              /\ graph[u].state # "ABSENT" => graph'[u].state # "ABSENT"
              /\ graph'[u].state \in Served <=> graph[u].state \in Served \/ u = v
         /\ TokensGrow'
         /\ \A u \in Versions : NamespaceInv(u)'
<1>1. Typed /\ TokensGrow /\ \A u \in Versions : NamespaceInv(u)
  BY DEF IInv
<1>2. PICK token \in 0..MaxToken, status \in {"NONE", "RESERVED", "ACTIVATED"} :
        reservation = [token |-> token, status |-> status]
  BY <1>1 DEF Typed
<1>3. reservation' = [token |-> k, status |-> "ACTIVATED"] /\ token = k /\ reservation.token = k
  BY <1>2 DEF HoldsFence
<1>4. pointer' = [active |-> v, fence |-> k] /\ k \in Nat
  BY PublisherAssumption DEF PointTo
<1>5. TokensGrow' /\ \A n : ~HoldsFence(n)'
  BY <1>3, <1>4 DEF TokensGrow, HoldsFence
<1>6. ASSUME NEW u \in Versions
      PROVE  /\ graph'[u] \in GraphRow /\ graph'[u].rows = graph[u].rows
             /\ u = v => graph'[u].state = "ACTIVE"
             /\ u # v /\ graph[u].state = "ACTIVE" => graph'[u].state = "PRIOR"
             /\ u # v /\ graph[u].state # "ACTIVE" => graph'[u].state = graph[u].state
  <2>1. PICK state \in {"ABSENT", "STAGING", "ACTIVE", "PRIOR", "DISCARDED"},
             rows \in [1..Edges -> {"MISSING", "GOOD", "BAD"}] :
               graph[u] = [state |-> state, rows |-> rows]
    BY <1>1 DEF Typed, GraphRow
  <2>2. graph'[u] =
          IF u = v THEN [state |-> "ACTIVE", rows |-> rows]
          ELSE IF state = "ACTIVE" THEN [state |-> "PRIOR", rows |-> rows] ELSE graph[u]
    BY <2>1 DEF Swapped
  <2> QED
    BY <2>1, <2>2 DEF GraphRow
<1>7. graph' \in [Versions -> GraphRow]
  <2>1. graph' = [u \in Versions |-> graph'[u]]
    BY DEF Swapped
  <2> QED
    BY <1>6, <2>1
<1>8. ASSUME NEW u \in Versions
      PROVE  /\ graph[u].state # "ABSENT" => graph'[u].state # "ABSENT"
             /\ graph'[u].state \in Served <=> graph[u].state \in Served \/ u = v
  BY <1>6 DEF Served
<1>9. ASSUME NEW u \in Versions
      PROVE  NamespaceInv(u)'
  <2>1. u > reservation'.token + 1 => graph'[u].state = "ABSENT"
    <3>1. u > reservation.token + 1 => graph[u].state = "ABSENT"
      BY <1>1 DEF NamespaceInv
    <3> QED
      BY <1>3, <1>6, <3>1
  <2>2. graph'[u].state \in Served => Intact(u)'
    BY <1>1, <1>6, <1>8 DEF NamespaceInv, Intact
  <2>3. graph'[u].state = "DISCARDED" => Spoilt(u)'
    <3>1. graph'[u].state = "DISCARDED" => graph[u].state = "DISCARDED"
      BY <1>6
    <3> QED
      BY <1>1, <1>6, <3>1 DEF NamespaceInv, Spoilt
  <2>4. graph'[u].state = "ACTIVE" <=> u = pointer'.active
    BY <1>4, <1>6
  <2> QED
    BY <2>1, <2>2, <2>3, <2>4 DEF NamespaceInv
<1> QED
  BY <1>3, <1>4, <1>5, <1>6, <1>7, <1>8, <1>9

\* A verified operation whose token is unused has its namespace in staging.
LEMMA VerifiedIsStaged ==
  ASSUME IInv, NEW o \in Operations, ops[o].stage = "VERIFIED", HoldsFence(ops[o].token)
  PROVE  /\ ops[o].token # 0 /\ outbox[o] = "NONE" /\ Version(ops[o]) \in Versions
         /\ Intact(Version(ops[o])) /\ graph[Version(ops[o])].state = "STAGING"
<1>1. OperationInv(o) /\ ops[o] \in OperationRow
  BY DEF IInv, Typed
<1>2. PICK v \in Versions : v = Version(ops[o])
  BY <1>1, VersionOf
<1>3. ops[o].token # 0 /\ outbox[o] = "NONE"
  BY <1>1 DEF OperationInv, Early
<1>4. Intact(v) /\ graph[v].state # "ABSENT" /\ graph[v].state \notin Served
  BY <1>1, <1>2, <1>3 DEF OperationInv, Unwritten
<1>5. ~Spoilt(v)
  BY <1>4 DEF Intact, Spoilt, Rows
<1>6. graph[v].state # "DISCARDED" /\ graph[v] \in GraphRow
  BY <1>5 DEF IInv, NamespaceInv, Typed
<1> QED
  BY <1>2, <1>3, <1>4, <1>6 DEF GraphRow, Served

LEMMA ActivateKeeps ==
  ASSUME IInv, NEW t \in Callers, ActivateOperation(t)
  PROVE  IInv'
<1>1. /\ caller[t].pc = "loaded" /\ caller[t].pc # "idle" /\ caller[t].row.stage # "CREATED"
      /\ CallInv(t) /\ Typed /\ UNCHANGED deployer
  BY Tests DEF ActivateOperation, At, IInv
<1>2. PICK o \in Operations :
        /\ o = caller[t].op /\ ops[o] \in OperationRow
        /\ caller[t].row.token = ops[o].token
        /\ Version(caller[t].row) = Version(ops[o]) /\ Version(ops[o]) \in Versions
  BY <1>1, CallsOperation
<1>3. PICK v \in Versions, k \in 0..MaxToken : v = Version(ops[o]) /\ k = ops[o].token
  BY <1>2 DEF OperationRow
<1>4. 6 \in 1..8
  OBVIOUS
<1>5. CASE (ReloadAfter(t, 6) \/ Raise(t)) /\ UNCHANGED tables
  <2>1. caller' \in [Callers -> CallRow]
    BY <1>1, <1>4, <1>5, CallGoesOn, CallEnds
  <2>2. Typed' /\ Grows
    BY <1>1, <1>5, <2>1 DEF Typed, Grows, tables
  <2>3. CallInv(t)' /\ \A u \in Callers \ {t} : caller'[u] = caller[u]
    BY <1>1, <1>4, <1>5, <2>2, CallGoesOn, CallEnds
  <2> QED
    BY <1>1, <1>5, <2>1, <2>3, CallStep
<1>6. CASE /\ ops[o].stage = "VERIFIED" /\ HoldsFence(k)
           /\ graph' = Swapped(v, {"STAGING"}) /\ PointTo(v, k)
           /\ reservation' = [reservation EXCEPT !.status = "ACTIVATED"]
           /\ outbox' = [outbox EXCEPT ![o] = IF @ = "NONE" THEN "PENDING" ELSE @]
           /\ ops' = [ops EXCEPT ![o].stage = "ACTIVATED"]
           /\ ReloadAfter(t, 6)
  <2>1. k # 0 /\ outbox[o] = "NONE" /\ Intact(v) /\ graph[v].state = "STAGING"
    BY <1>3, <1>6, VerifiedIsStaged
  <2>2. graph[v].state \in {"STAGING"} /\ graph[v].state # "ABSENT"
    BY <2>1
  <2>3. /\ pointer' \in [active : Versions, fence : Nat]
        /\ reservation' \in [token : 0..MaxToken, status : {"NONE", "RESERVED", "ACTIVATED"}]
        /\ reservation'.token = reservation.token /\ \A token : ~HoldsFence(token)'
        /\ graph' \in [Versions -> GraphRow]
        /\ \A u \in Versions :
              /\ graph'[u].rows = graph[u].rows
              /\ graph[u].state # "ABSENT" => graph'[u].state # "ABSENT"
              /\ graph'[u].state \in Served <=> graph[u].state \in Served \/ u = v
        /\ TokensGrow' /\ \A u \in Versions : NamespaceInv(u)'
    BY <1>6, <2>1, <2>2, SwapKeeps
  <2>4. /\ ops' \in [Operations -> OperationRow]
        /\ \A p \in Operations \ {o} : ops'[p] = ops[p]
        /\ ops'[o].stage = "ACTIVATED" /\ ops'[o].token = k /\ ops'[o].next = ops[o].next
    <3>1. "ACTIVATED" \in AnyStage /\ ops \in [Operations -> OperationRow]
      BY <1>1 DEF AnyStage, Typed
    <3> QED
      BY <1>2, <1>3, <1>6, <3>1 DEF OperationRow
  <2>5. /\ outbox' \in [Operations -> {"NONE", "PENDING", "DELIVERED"}]
        /\ outbox'[o] = "PENDING" /\ \A p \in Operations \ {o} : outbox'[p] = outbox[p]
    BY <1>1, <1>6, <2>1 DEF Typed
  <2>6. caller' \in [Callers -> CallRow] /\ \A u \in Callers \ {t} : caller'[u] = caller[u]
    BY <1>1, <1>4, <1>6, CallGoesOn
  <2>7. Typed'
    BY <1>1, <2>3, <2>4, <2>5, <2>6 DEF Typed
  <2>8. Grows
    <3>1. \A p \in Operations :
            /\ ops[p].stage # "ABSENT" => ops'[p].stage # "ABSENT"
            /\ ops[p].token # 0 => ops'[p].token = ops[p].token
            /\ outbox[p] # "NONE" => outbox'[p] # "NONE"
      BY <1>3, <2>4, <2>5
    <3> QED
      BY <2>3, <3>1 DEF Grows
  <2>9. CallInv(t)'
    BY <1>1, <1>4, <1>6, <2>7, <2>8, CallGoesOn
  <2>10. OperationInv(o)'
    <3>1. OperationInv(o) /\ Version(ops'[o]) = v /\ ops[o].token = k
      BY <1>3, <2>4 DEF IInv, Version
    <3>2. /\ ops'[o].token # 0 /\ ops'[o].token <= reservation'.token
          /\ Filled(v, ops[o].next)
      BY <1>3, <2>1, <2>3, <2>4, <3>1 DEF OperationInv
    <3>3. (\A e \in 1..ops[o].next : e \in 1..Edges) /\ Filled(v, Edges)
      BY <1>2, <2>1, PublisherAssumption DEF OperationRow, Filled, Intact, Rows
    <3>4. Filled(v, ops[o].next)' /\ Filled(v, Edges)'
      <4>1. \A e \in 1..Edges : graph'[v].rows[e] # "MISSING"
        BY <2>3, <3>3 DEF Filled
      <4>2. \A e \in 1..ops'[o].next : graph'[v].rows[e] # "MISSING"
        BY <2>4, <3>3, <4>1
      <4> QED
        BY <4>1, <4>2 DEF Filled
    <3>5. /\ ops'[o].stage \notin Early /\ ops'[o].stage # "VERIFIED"
          /\ ops'[o].stage \notin Confirmed /\ outbox'[o] # "NONE"
          /\ graph'[v].state \in Served /\ graph'[v].state # "ABSENT"
          /\ ~HoldsFence(ops[o].token)'
      BY <2>1, <2>2, <2>3, <2>4, <2>5 DEF Early, Confirmed, HoldsFence
    <3> QED
      BY <3>1, <3>2, <3>4, <3>5 DEF OperationInv
  <2>11. NamespacesAreOwned'
    BY <1>3, <2>4 DEF IInv, NamespacesAreOwned
  <2>12. ASSUME NEW p \in Operations \ {o}
         PROVE  /\ ops'[p] = ops[p] /\ outbox'[p] = outbox[p]
                /\ HoldsFence(ops[p].token)' => HoldsFence(ops[p].token) \/ outbox[p] = "NONE"
                /\ ops[p].token # 0 /\ graph'[Version(ops[p])].state \in Served
                     => graph[Version(ops[p])].state \in Served
    <3>1. ops[p] \in OperationRow /\ ops'[p] = ops[p] /\ outbox'[p] = outbox[p]
      BY <1>1, <2>4, <2>5 DEF Typed
    <3>2. Version(ops[p]) \in Versions /\ (Version(ops[p]) = v => ops[p].token = k)
      BY <1>2, <1>3, <3>1, VersionOf DEF OperationRow
    <3>3. ops[p].token # 0 => ops[p].token # k
      BY <1>3 DEF IInv, NamespacesAreOwned
    <3>4. ~HoldsFence(ops[p].token)'
      BY <2>3 DEF HoldsFence
    <3> QED
      BY <2>3, <3>1, <3>2, <3>3, <3>4
  <2>13. reservation.token <= reservation'.token
    BY <1>1, <2>3, PublisherAssumption DEF Typed
  <2>14. {t} \in SUBSET Callers /\ {o} \in SUBSET Operations
    OBVIOUS
  <2>15. \A d \in Deployers : deployer'[d] = deployer[d]
    BY <1>1
  <2>16. /\ \A v1 \in Versions : NamespaceInv(v1)'
         /\ TokensGrow' /\ NamespacesAreOwned'
         /\ \A p \in {o} : OperationInv(p)'
         /\ \A u \in {t} : CallInv(u)'
    BY <2>3, <2>9, <2>10, <2>11
  <2> QED
    BY <2>6, <2>7, <2>8, <2>12, <2>13, <2>14, <2>15, <2>16, StepKeeps
<1> QED
  BY <1>2, <1>3, <1>5, <1>6 DEF ActivateOperation, FenceOpen
-----------------------------------------------------------------------------
(* Promotions.                                                             *)

\* A step in which a promotion changes no more than its own place.
LEMMA PromotionStep ==
  ASSUME IInv, UNCHANGED <<tables, caller>>, NEW d \in Deployers,
         deployer' \in [Deployers -> PromotionRow],
         \A e \in Deployers \ {d} : deployer'[e] = deployer[e],
         PromotionInv(d)'
  PROVE  IInv'
<1>1. Typed' /\ Grows
  BY DEF IInv, Typed, Grows, tables
<1>2. /\ TokensGrow' /\ NamespacesAreOwned' /\ \A v \in Versions : NamespaceInv(v)'
  BY NamespacesKept DEF tables
<1>3. /\ reservation.token <= reservation'.token
      /\ \A o \in Operations \ {} :
           /\ ops'[o] = ops[o] /\ outbox'[o] = outbox[o]
           /\ HoldsFence(ops[o].token)' => HoldsFence(ops[o].token) \/ outbox[o] = "NONE"
           /\ ops[o].token # 0 /\ graph'[Version(ops[o])].state \in Served
                => graph[Version(ops[o])].state \in Served
  <2>1. reservation.token \in Nat
    BY NextToken
  <2> QED
    BY <2>1 DEF tables, HoldsFence
<1>4. {} \in SUBSET Callers /\ {} \in SUBSET Operations
  OBVIOUS
<1>5. \A t \in Callers \ {} : caller'[t] = caller[t]
  OBVIOUS
<1>6. \A e \in Deployers : deployer'[e] = deployer[e] \/ PromotionInv(e)'
  OBVIOUS
<1> QED
  BY <1>1, <1>2, <1>3, <1>4, <1>5, <1>6, StepKeeps

LEMMA BeginPromotionKeeps ==
  ASSUME IInv, NEW d \in Deployers, PromotePackage(d)
  PROVE  IInv'
<1>1. PICK o \in Operations : ops[o].stage = "COMPLETED" /\ BeginPromotion(d, Version(ops[o]))
  BY DEF PromotePackage
<1>2. outbox[o] # "NONE"
  BY <1>1 DEF IInv, OperationInv, Confirmed
<1>3. PICK v \in Versions : v = Version(ops[o]) /\ graph[v].state \in Served
  BY <1>2, AnnouncedIsThere
<1>4. PICK new : new = [pc |-> "reserve", target |-> v, prior |-> pointer.active, token |-> 0]
  OBVIOUS
<1>5. new \in PromotionRow
  <2>1. v \in Nat /\ pointer.active \in Nat /\ 0 \in 0..MaxToken
    BY PublisherAssumption DEF IInv, Typed, Versions
  <2> QED
    BY <1>4, <2>1 DEF PromotionRow
<1>6. deployer' = [deployer EXCEPT ![d] = new] /\ UNCHANGED <<tables, caller>>
  BY <1>1, <1>3, <1>4 DEF BeginPromotion
<1>7. /\ deployer' \in [Deployers -> PromotionRow] /\ deployer'[d] = new
      /\ \A e \in Deployers \ {d} : deployer'[e] = deployer[e]
  BY <1>5, <1>6 DEF IInv, Typed
<1>8. PromotionInv(d)'
  BY <1>3, <1>4, <1>6, <1>7 DEF PromotionInv, tables
<1> QED
  BY <1>6, <1>7, <1>8, PromotionStep

LEMMA EndPromotionKeeps ==
  ASSUME IInv, NEW d \in Deployers, EndPromotion(d) \/ CrashPromotion(d)
  PROVE  IInv'
<1>1. NoPromotion \in PromotionRow /\ NoPromotion.pc = "idle"
  BY PublisherAssumption DEF NoPromotion, PromotionRow
<1>2. deployer' = [deployer EXCEPT ![d] = NoPromotion] /\ UNCHANGED <<tables, caller>>
  BY DEF EndPromotion, CrashPromotion
<1>3. /\ deployer' \in [Deployers -> PromotionRow] /\ deployer'[d] = NoPromotion
      /\ \A e \in Deployers \ {d} : deployer'[e] = deployer[e]
  BY <1>1, <1>2 DEF IInv, Typed
<1>4. PromotionInv(d)'
  BY <1>1, <1>3 DEF PromotionInv
<1> QED
  BY <1>2, <1>3, <1>4, PromotionStep

\* What becomes of the row of a promotion that goes on.
LEMMA PromotionGoesOn ==
  ASSUME Typed, NEW d \in Deployers
  PROVE  /\ \A pc \in {"promoted", "refused"} :
              [deployer EXCEPT ![d].pc = pc] \in [Deployers -> PromotionRow]
         /\ \A k \in 0..MaxToken :
              [deployer EXCEPT ![d].pc = "promote", ![d].token = k]
                \in [Deployers -> PromotionRow]
<1>1. deployer \in [Deployers -> PromotionRow]
  BY DEF Typed
<1>2. PICK p \in PromotionRow : p = deployer[d]
  BY <1>1
<1>3. \A pc \in {"promoted", "refused"} : [p EXCEPT !.pc = pc] \in PromotionRow
  BY DEF PromotionRow
<1>4. \A k \in 0..MaxToken : [p EXCEPT !.pc = "promote", !.token = k] \in PromotionRow
  BY DEF PromotionRow
<1> QED
  BY <1>1, <1>2, <1>3, <1>4

LEMMA RefusedKeeps ==
  ASSUME IInv, NEW d \in Deployers, deployer' = [deployer EXCEPT ![d].pc = "refused"],
         UNCHANGED <<tables, caller>>
  PROVE  IInv'
<1>1. Typed /\ deployer \in [Deployers -> PromotionRow] /\ deployer[d] \in PromotionRow
  BY DEF IInv, Typed
<1>2. deployer' \in [Deployers -> PromotionRow]
  BY <1>1, PromotionGoesOn
<1>3. deployer'[d].pc = "refused" /\ \A e \in Deployers \ {d} : deployer'[e] = deployer[e]
  BY <1>1 DEF PromotionRow
<1>4. PromotionInv(d)'
  BY <1>3 DEF PromotionInv
<1> QED
  BY <1>2, <1>3, <1>4, PromotionStep

LEMMA ReservePromotionKeeps ==
  ASSUME IInv, NEW d \in Deployers, ReservePromotion(d)
  PROVE  IInv'
<1>1. /\ Typed /\ PromotionInv(d) /\ deployer[d].pc = "reserve"
      /\ UNCHANGED <<pointer, ops, graph, outbox, caller>>
  BY DEF ReservePromotion, IInv
<1>2. CASE deployer' = [deployer EXCEPT ![d].pc = "refused"] /\ UNCHANGED reservation
  BY <1>1, <1>2, RefusedKeeps DEF tables
<1>3. CASE /\ Reserve(LastToken + 1)
           /\ deployer' = [deployer EXCEPT ![d].pc = "promote", ![d].token = LastToken + 1]
  <2>1. PICK k \in 1..MaxToken : k = LastToken + 1 /\ k = reservation'.token
    BY <1>1, <1>3, NextToken, ReservationKeeps
  <2>2. /\ k = reservation.token + 1 /\ reservation.token \in Nat
        /\ reservation' \in [token : 0..MaxToken, status : {"NONE", "RESERVED", "ACTIVATED"}]
        /\ TokensGrow' /\ \A v \in Versions : NamespaceInv(v)'
        /\ \A o \in Operations : ops[o].token # k
    BY <1>1, <1>3, <2>1, NextToken, ReservationKeeps
  <2>3. deployer \in [Deployers -> PromotionRow] /\ deployer[d] \in PromotionRow
    BY <1>1 DEF Typed
  <2>4. deployer' \in [Deployers -> PromotionRow]
    <3>1. k \in 0..MaxToken
      BY PublisherAssumption
    <3> QED
      BY <1>1, <1>3, <2>1, <3>1, PromotionGoesOn
  <2>5. /\ deployer'[d].target = deployer[d].target
        /\ \A e \in Deployers \ {d} : deployer'[e] = deployer[e]
    BY <1>3, <2>3 DEF PromotionRow
  <2>6. Typed' /\ Grows
    <3>1. Typed'
      BY <1>1, <2>2, <2>4 DEF Typed
    <3> QED
      BY <1>1, <3>1 DEF Grows
  <2>7. NamespacesAreOwned'
    BY <1>1 DEF IInv, NamespacesAreOwned
  <2>8. /\ reservation.token <= reservation'.token
        /\ \A o \in Operations \ {} :
             /\ ops'[o] = ops[o] /\ outbox'[o] = outbox[o]
             /\ HoldsFence(ops[o].token)' => HoldsFence(ops[o].token) \/ outbox[o] = "NONE"
             /\ ops[o].token # 0 /\ graph'[Version(ops[o])].state \in Served
                  => graph[Version(ops[o])].state \in Served
    BY <1>1, <2>1, <2>2 DEF HoldsFence
  <2>9. PromotionInv(d)'
    BY <1>1, <2>5 DEF PromotionInv
  <2>10. {} \in SUBSET Callers /\ {} \in SUBSET Operations
    OBVIOUS
  <2>11. \A t \in Callers \ {} : caller'[t] = caller[t]
    BY <1>1
  <2>12. \A e \in Deployers : deployer'[e] = deployer[e] \/ PromotionInv(e)'
    BY <2>5, <2>9
  <2>13. TokensGrow' /\ \A v \in Versions : NamespaceInv(v)'
    BY <2>2
  <2> QED
    BY <2>6, <2>7, <2>8, <2>10, <2>11, <2>12, <2>13, StepKeeps
<1> QED
  BY <1>2, <1>3 DEF ReservePromotion

LEMMA PromoteKeeps ==
  ASSUME IInv, NEW d \in Deployers, Promote(d)
  PROVE  IInv'
<1>1. /\ Typed /\ PromotionInv(d) /\ deployer[d].pc = "promote"
      /\ UNCHANGED <<ops, outbox, caller>>
      /\ deployer \in [Deployers -> PromotionRow] /\ deployer[d] \in PromotionRow
  BY DEF Promote, IInv, Typed
<1>2. PICK v \in Versions, k \in 0..MaxToken :
        v = deployer[d].target /\ k = deployer[d].token /\ graph[v].state \in Served
  BY <1>1 DEF PromotionInv, PromotionRow
<1>3. CASE deployer' = [deployer EXCEPT ![d].pc = "refused"] /\ UNCHANGED <<graph, pointer, reservation>>
  BY <1>1, <1>3, RefusedKeeps DEF tables
<1>4. CASE /\ HoldsFence(k) /\ Intact(v)
           /\ graph' = Swapped(v, {"STAGING", "ACTIVE", "PRIOR", "DISCARDED"})
           /\ PointTo(v, k)
           /\ reservation' = [reservation EXCEPT !.status = "ACTIVATED"]
           /\ deployer' = [deployer EXCEPT ![d].pc = "promoted"]
  <2>1. /\ graph[v].state \in {"STAGING", "ACTIVE", "PRIOR", "DISCARDED"}
        /\ graph[v].state # "ABSENT"
    BY <1>2 DEF Served
  <2>2. /\ pointer' \in [active : Versions, fence : Nat]
        /\ reservation' \in [token : 0..MaxToken, status : {"NONE", "RESERVED", "ACTIVATED"}]
        /\ reservation'.token = reservation.token /\ \A token : ~HoldsFence(token)'
        /\ graph' \in [Versions -> GraphRow]
        /\ \A u \in Versions :
              /\ graph'[u].rows = graph[u].rows
              /\ graph[u].state # "ABSENT" => graph'[u].state # "ABSENT"
              /\ graph'[u].state \in Served <=> graph[u].state \in Served \/ u = v
        /\ TokensGrow' /\ \A u \in Versions : NamespaceInv(u)'
    BY <1>4, <2>1, SwapKeeps
  <2>3. deployer' \in [Deployers -> PromotionRow]
    BY <1>1, <1>4, PromotionGoesOn
  <2>4. deployer'[d].pc = "promoted" /\ \A e \in Deployers \ {d} : deployer'[e] = deployer[e]
    BY <1>1, <1>4 DEF PromotionRow
  <2>5. Typed' /\ Grows
    <3>1. Typed'
      BY <1>1, <2>2, <2>3 DEF Typed
    <3> QED
      BY <1>1, <2>2, <3>1 DEF Grows
  <2>6. NamespacesAreOwned'
    BY <1>1 DEF IInv, NamespacesAreOwned
  <2>7. ASSUME NEW o \in Operations \ {}
        PROVE  /\ ops'[o] = ops[o] /\ outbox'[o] = outbox[o]
               /\ HoldsFence(ops[o].token)' => HoldsFence(ops[o].token) \/ outbox[o] = "NONE"
               /\ ops[o].token # 0 /\ graph'[Version(ops[o])].state \in Served
                    => graph[Version(ops[o])].state \in Served
    <3>1. Version(ops[o]) \in Versions
      BY <1>1, VersionOf DEF Typed
    <3>2. ~HoldsFence(ops[o].token)'
      BY <2>2 DEF HoldsFence
    <3> QED
      BY <1>1, <1>2, <2>2, <3>1, <3>2
  <2>8. reservation.token <= reservation'.token
    BY <1>1, <2>2, PublisherAssumption DEF Typed
  <2>9. {} \in SUBSET Callers /\ {} \in SUBSET Operations
    OBVIOUS
  <2>10. \A t \in Callers \ {} : caller'[t] = caller[t]
    BY <1>1
  <2>11. \A e \in Deployers : deployer'[e] = deployer[e] \/ PromotionInv(e)'
    BY <2>4 DEF PromotionInv
  <2>12. TokensGrow' /\ \A u \in Versions : NamespaceInv(u)'
    BY <2>2
  <2> QED
    BY <2>5, <2>6, <2>7, <2>8, <2>9, <2>10, <2>11, <2>12, StepKeeps
<1> QED
  BY <1>2, <1>3, <1>4 DEF Promote, FenceOpen
-----------------------------------------------------------------------------
(* The invariant.                                                          *)

LEMMA InitHolds == Init => IInv
<1> SUFFICES ASSUME Init PROVE IInv
  OBVIOUS
<1>1. 1 \in Versions /\ 0 \in 0..MaxToken /\ 0 \in 0..Edges /\ 1 \in Nat
  BY PublisherAssumption DEF Versions
<1>2. NewRow("ABSENT", 0) \in OperationRow
  BY <1>1 DEF NewRow, OperationRow, AnyStage, Early
<1>3. NoCall \in CallRow /\ NoPromotion \in PromotionRow
  BY <1>1, <1>2 DEF NoCall, CallRow, NoPromotion, PromotionRow
<1>4. \A v \in Versions : graph[v] \in GraphRow
  BY DEF Init, GraphRow, Rows
<1>5. graph \in [Versions -> GraphRow]
  <2>1. graph = [v \in Versions |-> graph[v]]
    BY DEF Init
  <2> QED
    BY <1>4, <2>1
<1>6. Typed
  <2>1. /\ ops \in [Operations -> OperationRow] /\ caller \in [Callers -> CallRow]
        /\ deployer \in [Deployers -> PromotionRow]
    BY <1>2, <1>3 DEF Init
  <2>2. /\ pointer \in [active : Versions, fence : Nat]
        /\ reservation \in [token : 0..MaxToken, status : {"NONE", "RESERVED", "ACTIVATED"}]
        /\ outbox \in [Operations -> {"NONE", "PENDING", "DELIVERED"}]
    BY <1>1 DEF Init
  <2> QED
    BY <1>5, <2>1, <2>2 DEF Typed
<1>7. TokensGrow
  BY DEF Init, TokensGrow
<1>8. \A o \in Operations :
        ops[o].stage = "ABSENT" /\ ops[o].token = 0 /\ ops[o].next = 0 /\ outbox[o] = "NONE"
  BY DEF Init, NewRow
<1>9. NamespacesAreOwned
  BY <1>8 DEF NamespacesAreOwned
<1>10. ASSUME NEW v \in Versions
       PROVE  NamespaceInv(v)
  <2>1. CASE v = 1
    <3>1. graph[v] = [state |-> "ACTIVE", rows |-> Rows("GOOD")] /\ ~(v > reservation.token + 1)
      BY <2>1 DEF Init
    <3> QED
      BY <2>1, <3>1 DEF Init, NamespaceInv, Intact
  <2>2. CASE v # 1
    BY <2>2 DEF Init, NamespaceInv, Served
  <2> QED
    BY <2>1, <2>2
<1>11. ASSUME NEW o \in Operations
       PROVE  OperationInv(o)
  <2>1. ops[o].token <= reservation.token
    BY <1>8 DEF Init
  <2> QED
    BY <1>8, <2>1 DEF OperationInv, Early, Activated, Confirmed
<1>12. \A t \in Callers : CallInv(t)
  BY DEF Init, NoCall, CallInv
<1>13. \A d \in Deployers : PromotionInv(d)
  BY DEF Init, NoPromotion, PromotionInv
<1> QED
  BY <1>6, <1>7, <1>9, <1>10, <1>11, <1>12, <1>13 DEF IInv

LEMMA NextKeeps ==
  ASSUME MaxFence = 0, IInv, [Next]_vars
  PROVE  IInv'
<1>1. ASSUME NEW t \in Callers, NEW o \in Operations, Create(t, o) \/ Redrive(t, o)
      PROVE  IInv'
  BY <1>1, CreateKeeps, RedriveKeeps
<1>2. ASSUME NEW t \in Callers, PublishStep(t) \/ Crash(t)
      PROVE  IInv'
  BY <1>2, ReadKeeps, EndKeeps, ReserveKeeps, ManifestKeeps, CreateNamespaceKeeps, BatchKeeps,
     NoEdgeLeftKeeps, CheckKeeps, VerifiedKeeps, FailedKeeps, ActivateKeeps, DeliverKeeps,
     CompleteKeeps DEF PublishStep
<1>3. ASSUME NEW d \in Deployers, PromotePackage(d) \/ PromoteStep(d) \/ CrashPromotion(d)
      PROVE  IInv'
  BY <1>3, BeginPromotionKeeps, ReservePromotionKeeps, PromoteKeeps, EndPromotionKeeps
     DEF PromoteStep
<1>4. ~Rollback
  BY NextToken DEF Rollback
<1>5. CASE UNCHANGED vars
  BY <1>5, SMTT(30) DEF vars, IInv, Typed, TokensGrow, NamespacesAreOwned, NamespaceInv, OperationInv,
     CallInv, PromotionInv, Filled, Spoilt, Intact, HoldsFence
<1> QED
  BY <1>1, <1>2, <1>3, <1>4, <1>5 DEF Next

\* While nobody rolls back, the tables, the calls and the promotions fit each other in
\* every state that crashes, redrives and slow callers can bring about.
THEOREM Invariant == MaxFence = 0 => (Spec => []IInv)
<1> SUFFICES ASSUME MaxFence = 0 PROVE Spec => []IInv
  OBVIOUS
<1>1. IInv /\ [Next]_vars => IInv'
  BY NextKeeps
<1> QED
  BY <1>1, InitHolds, PTL DEF Spec

\* What is served is the one namespace that is marked active, all of it is as
\* approved, and no two operations write into one namespace (publish(),
\* promote_existing()).
THEOREM ServedStaysSound == MaxFence = 0 => (Spec => []ServedIsSound)
<1> SUFFICES ASSUME MaxFence = 0 PROVE Spec => []ServedIsSound
  OBVIOUS
<1>1. IInv => ServedIsSound
  <2> SUFFICES ASSUME IInv PROVE ServedIsSound
    OBVIOUS
  <2>1. pointer.active \in Versions
    BY DEF IInv, Typed
  <2>2. OneActive
    BY <2>1 DEF IInv, NamespaceInv, OneActive
  <2>3. ActiveIsIntact
    BY <2>1 DEF IInv, NamespaceInv, Served, ActiveIsIntact
  <2> QED
    BY <2>2, <2>3 DEF IInv, ServedIsSound
<1> QED
  BY <1>1, Invariant, PTL

\* The event that tells the caches is there exactly for the operations whose namespace
\* was put into service, and it is delivered before the operation goes on
\* (_activate_operation, _deliver_operation_outbox).
THEOREM EventsFollowActivation == MaxFence = 0 => (Spec => []AnnouncedIffActivated)
<1> SUFFICES ASSUME MaxFence = 0 PROVE Spec => []AnnouncedIffActivated
  OBVIOUS
<1>1. IInv => AnnouncedIffActivated
  <2> SUFFICES ASSUME IInv, NEW o \in Operations
               PROVE  /\ outbox[o] # "NONE" <=>
                           /\ ops[o].token # 0
                           /\ graph[Version(ops[o])].state \in {"ACTIVE", "PRIOR"}
                      /\ ops[o].stage \in {"DELIVERY_CONFIRMED", "COMPLETED"} =>
                           outbox[o] = "DELIVERED"
    BY DEF AnnouncedIffActivated
  <2> QED
    BY DEF IInv, OperationInv, Served, Confirmed
<1> QED
  BY <1>1, Invariant, PTL
-----------------------------------------------------------------------------
(* What is settled stays settled.                                          *)

\* No operation is activated by this step.
NoneActivated == \A o \in Operations : ops[o].stage = "VERIFIED" => ops'[o].stage # "ACTIVATED"

\* What is in service stays there.
StillServed == \A v \in Versions : graph[v].state \in Served => graph'[v].state \in Served

\* A step of an operation to a stage other than ACTIVATED.
LEMMA OtherStage ==
  ASSUME Typed, NEW o, NEW stages, NEW stage \in AnyStage, stage # "ACTIVATED",
         Advance(o, stages, stage)
  PROVE  NoneActivated
BY DEF Advance, NoneActivated, Typed, OperationRow

\* The steps of publish() that move no pointer.
LEMMA QuietCall ==
  ASSUME IInv, NEW t \in Callers,
         \/ Reload(t) \/ Return(t) \/ Crash(t) \/ ReserveOperation(t) \/ WriteManifest(t)
         \/ CreateNamespace(t) \/ ReadNextEdge(t) \/ WriteBatch(t) \/ NoEdgeLeft(t)
         \/ CheckRows(t) \/ MarkVerified(t) \/ MarkFailed(t) \/ DeliverOutbox(t) \/ Complete(t)
  PROVE  UNCHANGED pointer /\ NoneActivated /\ StillServed
<1>1. Typed /\ ops \in [Operations -> OperationRow] /\ graph \in [Versions -> GraphRow]
  BY DEF IInv, Typed
<1>2. {"MANIFEST_WRITTEN", "EDGES_WRITTEN", "NAMESPACE_CREATED", "VERIFIED",
       "DELIVERY_CONFIRMED", "COMPLETED"} \subseteq AnyStage
  BY DEF AnyStage, Unwritten, Writing, Confirmed
<1>3. CASE Reload(t) \/ Return(t) \/ Crash(t) \/ ReadNextEdge(t) \/ CheckRows(t)
  BY <1>3 DEF Reload, Return, Crash, ReadNextEdge, CheckRows, tables, NoneActivated, StillServed
<1>4. CASE ReserveOperation(t)
  BY <1>1, <1>4 DEF ReserveOperation, NoneActivated, StillServed, OperationRow
<1>5. CASE WriteManifest(t) \/ NoEdgeLeft(t) \/ MarkVerified(t) \/ DeliverOutbox(t) \/ Complete(t)
  <2>1. UNCHANGED <<pointer, graph>>
    BY <1>5 DEF WriteManifest, NoEdgeLeft, MarkVerified, DeliverOutbox, Complete
  <2>2. \/ Advance(caller[t].op, {"RESERVED"}, "MANIFEST_WRITTEN")
        \/ Advance(caller[t].op, {"NAMESPACE_CREATED", "EDGES_WRITING"}, "EDGES_WRITTEN")
        \/ Advance(caller[t].op, {"EDGES_WRITTEN"}, "VERIFIED")
        \/ Advance(caller[t].op, {"ACTIVATED"}, "DELIVERY_CONFIRMED")
        \/ Advance(caller[t].op, {"DELIVERY_CONFIRMED"}, "COMPLETED")
    BY <1>5 DEF WriteManifest, NoEdgeLeft, MarkVerified, DeliverOutbox, Complete
  <2>3. NoneActivated
    BY <1>1, <1>2, <2>2, OtherStage
  <2> QED
    BY <2>1, <2>3 DEF StillServed
<1>6. CASE CreateNamespace(t)
  <2>1. PICK v : v = Version(caller[t].row)
    OBVIOUS
  <2>2. /\ UNCHANGED pointer
        /\ graph' = IF graph[v].state = "ABSENT" THEN [graph EXCEPT ![v].state = "STAGING"] ELSE graph
    BY <1>6, <2>1 DEF CreateNamespace
  <2>3. PICK stage \in {"EDGES_WRITTEN", "NAMESPACE_CREATED"} :
          Advance(caller[t].op, {"MANIFEST_WRITTEN"}, stage)
    BY <1>6 DEF CreateNamespace
  <2>4. StillServed
    BY <1>1, <2>2 DEF StillServed, Served, GraphRow
  <2> QED
    BY <1>1, <1>2, <2>2, <2>3, <2>4, OtherStage
<1>7. CASE WriteBatch(t)
  <2>1. PICK v, start, batch, end : v = Version(caller[t].row)
          /\ start = caller[t].row.next /\ end = BatchEnd(start) /\ batch = (start + 1)..end
    OBVIOUS
  <2>2. /\ UNCHANGED pointer
        /\ \/ UNCHANGED <<ops, graph>>
           \/ /\ \E spoilt \in {FALSE, Faulty} : graph' = Inserted(v, batch, spoilt)
              /\ StoreProgress(caller[t].op, end)
    BY <1>7, <2>1 DEF WriteBatch
  <2>3. NoneActivated
    BY <1>1, <2>2, ZenonT(30) DEF StoreProgress, NoneActivated, OperationRow
  <2>4. StillServed
    <3>1. ASSUME NEW spoilt, graph' = Inserted(v, batch, spoilt)
          PROVE  \A u \in Versions : graph'[u].state = graph[u].state
      BY <1>1, <3>1 DEF Inserted, GraphRow
    <3> QED
      BY <2>2, <3>1 DEF StillServed
  <2> QED
    BY <2>2, <2>3, <2>4
<1>8. CASE MarkFailed(t)
  <2>1. PICK v : v = Version(caller[t].row)
    OBVIOUS
  <2>2. /\ UNCHANGED pointer
        /\ \/ graph' = graph
           \/ graph[v].state = "STAGING" /\ graph' = [graph EXCEPT ![v].state = "DISCARDED"]
    BY <1>8, <2>1 DEF MarkFailed
  <2>3. PICK stage \in Failed : ops' = [ops EXCEPT ![caller[t].op].stage = stage]
    BY <1>8 DEF MarkFailed, Failed
  <2>4. StillServed
    BY <1>1, <2>2 DEF StillServed, Served, GraphRow
  <2>5. NoneActivated
    BY <1>1, <2>3 DEF NoneActivated, Failed, OperationRow
  <2> QED
    BY <2>2, <2>4, <2>5
<1> QED
  BY <1>3, <1>4, <1>5, <1>6, <1>7, <1>8

\* Putting an intact namespace into service raises the token of the pointer, and
\* what was served stays served.
LEMMA SwapAdvances ==
  ASSUME IInv, NEW v \in Versions, NEW k \in 0..MaxToken, NEW from,
         HoldsFence(k), graph[v].state \in from, graph[v].state # "ABSENT", Intact(v),
         graph' = Swapped(v, from), PointTo(v, k),
         reservation' = [reservation EXCEPT !.status = "ACTIVATED"]
  PROVE  pointer'.fence > pointer.fence /\ StillServed
<1>1. StillServed
  BY SwapKeeps DEF StillServed
<1>2. pointer.fence < k
  BY DEF IInv, TokensGrow, HoldsFence
<1>3. pointer'.fence = k /\ pointer.fence \in Nat /\ k \in Nat
  BY PublisherAssumption DEF IInv, Typed, PointTo
<1> QED
  BY <1>1, <1>2, <1>3

\* What a step may do to the pointer, to the stages and to what is served.
Settles ==
  /\ pointer' # pointer => pointer'.fence > pointer.fence
  /\ \A o \in Operations : outbox[o] # "NONE" =>
        ~(ops[o].stage = "VERIFIED" /\ ops'[o].stage = "ACTIVATED")
  /\ StillServed

LEMMA ActivationSettles ==
  ASSUME IInv, NEW t \in Callers, ActivateOperation(t)
  PROVE  Settles
<1>1. /\ caller[t].pc # "idle" /\ caller[t].row.stage # "CREATED"
      /\ ops \in [Operations -> OperationRow]
  BY Tests DEF ActivateOperation, At, IInv, Typed
<1>2. PICK o \in Operations :
        /\ o = caller[t].op /\ ops[o] \in OperationRow
        /\ caller[t].row.token = ops[o].token
        /\ Version(caller[t].row) = Version(ops[o]) /\ Version(ops[o]) \in Versions
  BY <1>1, CallsOperation
<1>3. PICK v \in Versions, k \in 0..MaxToken : v = Version(ops[o]) /\ k = ops[o].token
  BY <1>2 DEF OperationRow
<1>4. CASE UNCHANGED tables
  BY <1>4 DEF tables, Settles, StillServed
<1>5. CASE /\ ops[o].stage = "VERIFIED" /\ HoldsFence(k)
           /\ graph' = Swapped(v, {"STAGING"}) /\ PointTo(v, k)
           /\ reservation' = [reservation EXCEPT !.status = "ACTIVATED"]
           /\ ops' = [ops EXCEPT ![o].stage = "ACTIVATED"]
  <2>1. /\ outbox[o] = "NONE" /\ Intact(v)
        /\ graph[v].state \in {"STAGING"} /\ graph[v].state # "ABSENT"
    BY <1>3, <1>5, VerifiedIsStaged
  <2>2. pointer'.fence > pointer.fence /\ StillServed
    BY <1>5, <2>1, SwapAdvances
  <2>3. \A p \in Operations \ {o} : ops'[p] = ops[p]
    BY <1>1, <1>5
  <2> QED
    BY <2>1, <2>2, <2>3 DEF Settles
<1> QED
  BY <1>2, <1>3, <1>4, <1>5 DEF ActivateOperation, FenceOpen

LEMMA PromotionSettles ==
  ASSUME IInv, NEW d \in Deployers, PromotePackage(d) \/ PromoteStep(d) \/ CrashPromotion(d)
  PROVE  Settles
<1>1. CASE UNCHANGED <<pointer, ops, graph>>
  BY <1>1 DEF Settles, StillServed
<1>2. CASE Promote(d) /\ ~UNCHANGED <<graph, pointer, reservation>>
  <2>1. /\ PromotionInv(d) /\ deployer[d] \in PromotionRow /\ UNCHANGED ops
    BY <1>2 DEF IInv, Typed, Promote
  <2>2. PICK v \in Versions, k \in 0..MaxToken :
          v = deployer[d].target /\ k = deployer[d].token /\ graph[v].state \in Served
    BY <1>2, <2>1 DEF PromotionInv, PromotionRow, Promote
  <2>3. /\ HoldsFence(k) /\ Intact(v) /\ PointTo(v, k)
        /\ graph' = Swapped(v, {"STAGING", "ACTIVE", "PRIOR", "DISCARDED"})
        /\ reservation' = [reservation EXCEPT !.status = "ACTIVATED"]
    BY <1>2, <2>2 DEF Promote, FenceOpen
  <2>4. /\ graph[v].state \in {"STAGING", "ACTIVE", "PRIOR", "DISCARDED"}
        /\ graph[v].state # "ABSENT"
    BY <2>2 DEF Served
  <2>5. pointer'.fence > pointer.fence /\ StillServed
    BY <2>3, <2>4, SwapAdvances
  <2> QED
    BY <2>1, <2>5 DEF Settles
<1> QED
  BY <1>1, <1>2 DEF PromotePackage, BeginPromotion, PromoteStep, ReservePromotion, Promote,
     EndPromotion, CrashPromotion, tables

LEMMA StepSettles ==
  ASSUME MaxFence = 0, IInv, [Next]_vars
  PROVE  Settles
<1>1. ASSUME NEW t \in Callers, NEW o \in Operations, Create(t, o) \/ Redrive(t, o)
      PROVE  Settles
  <2>1. CASE Redrive(t, o)
    BY <2>1 DEF Redrive, tables, Settles, StillServed
  <2>2. CASE Create(t, o)
    <3>1. PICK base : ops' = [ops EXCEPT ![o] = NewRow("CREATED", base)]
      BY <2>2 DEF Create
    <3>2. ops \in [Operations -> OperationRow] /\ NewRow("CREATED", base).stage = "CREATED"
      BY DEF IInv, Typed, NewRow
    <3>3. \A p \in Operations : ops'[p].stage = "ACTIVATED" => ops'[p] = ops[p]
      BY <3>1, <3>2
    <3> QED
      BY <2>2, <3>3 DEF Create, Settles, StillServed
  <2> QED
    BY <1>1, <2>1, <2>2
<1>2. ASSUME NEW t \in Callers, PublishStep(t) \/ Crash(t)
      PROVE  Settles
  BY <1>2, QuietCall, ActivationSettles DEF PublishStep, Settles, NoneActivated
<1>3. ~Rollback
  BY NextToken DEF Rollback
<1>4. CASE UNCHANGED vars
  BY <1>4 DEF vars, Settles, StillServed
<1> QED
  BY <1>1, <1>2, <1>3, <1>4, PromotionSettles DEF Next

\* Every step keeps the rows of what was in service, raises the token of the pointer
\* when it moves it, and activates no operation a second time, also when slow callers
\* set its stage back (_write_operation_edges, _activate_operation,
\* promote_existing).
THEOREM ActivationsStayFinal == MaxFence = 0 => (Spec => ActivationsAreFinal)
<1> SUFFICES ASSUME MaxFence = 0 PROVE Spec => ActivationsAreFinal
  OBVIOUS
<1>1. IInv /\ [Next]_vars => [pointer' # pointer => pointer'.fence > pointer.fence]_vars
  BY StepSettles DEF Settles
<1>2. IInv /\ [Next]_vars =>
        [\A o \in Operations : outbox[o] # "NONE" =>
            ~(ops[o].stage = "VERIFIED" /\ ops'[o].stage = "ACTIVATED")]_vars
  BY StepSettles DEF Settles
<1>3. IInv /\ [Next]_vars =>
        [\A v \in Versions : graph[v].state \in {"ACTIVE", "PRIOR"} =>
            graph'[v].rows = graph[v].rows]_vars
  <2> SUFFICES ASSUME IInv, [Next]_vars, NEW v \in Versions, graph[v].state \in {"ACTIVE", "PRIOR"}
               PROVE  graph'[v].rows = graph[v].rows
    OBVIOUS
  <2>1. IInv' /\ graph'[v].state \in Served
    BY NextKeeps, StepSettles DEF Settles, StillServed, Served
  <2>2. Intact(v) /\ Intact(v)'
    BY <2>1 DEF IInv, NamespaceInv, Served
  <2> QED
    BY <2>2 DEF Intact, Rows
<1>4. Spec => [][pointer' # pointer => pointer'.fence > pointer.fence]_vars
  BY <1>1, Invariant, PTL DEF Spec
<1>5. Spec => [][\A o \in Operations : outbox[o] # "NONE" =>
                   ~(ops[o].stage = "VERIFIED" /\ ops'[o].stage = "ACTIVATED")]_vars
  BY <1>2, Invariant, PTL DEF Spec
<1>6. Spec => [][\A v \in Versions : graph[v].state \in {"ACTIVE", "PRIOR"} =>
                   graph'[v].rows = graph[v].rows]_vars
  BY <1>3, Invariant, PTL DEF Spec
<1> QED
  BY <1>4, <1>5, <1>6 DEF ActivationsAreFinal, PointerIsFenced, ActivatesOnce, ServedRowsAreFinal
-----------------------------------------------------------------------------
(* The inductive invariant of the deployment workflow.                     *)

Namespaces == 1 .. (MaxToken + 1)

StateRow ==
  [event : Events \cup {NoEvent}, order : Nat, artifact : Events \cup {NoEvent},
   package : Nat \cup {NoPackage}, version : 0 .. (MaxToken + 1),
   state : {"ABSENT", "PROCESSING"} \cup Ended]
ServingRow ==
  [pc : {"idle", "claimed", "promoting", "refused", "complete"},
   event : Events \cup {NoEvent}, state : {"NONE"} \cup Ended,
   version : 0 .. (MaxToken + 1)]
MoveRow ==
  [pc : {"idle", "reserve", "promote", "promoted", "refused"},
   target : 0 .. (MaxToken + 1), prior : 0 .. (MaxToken + 1), token : Nat]

\* The pointer goes to namespaces only, by promotions that were given one.
PointerTyped ==
  /\ pointer \in [active : Namespaces, fence : Nat]
  /\ reservation \in [token : Nat, status : {"NONE", "RESERVED", "ACTIVATED"}]
  /\ deployer \in [Deployers -> MoveRow]
  /\ \A h \in Deployers : deployer[h].pc # "idle" => deployer[h].target \in Namespaces

RowsTyped ==
  /\ events \in [Events -> {"ABSENT", "PROCESSING"} \cup Ended]
  /\ deployed \in [Systems -> StateRow]

\* What a call of handle() is about to record is true of its event: what is
\* promoted was deployed and has that package, what is out of sync was deployed.
ServingInv(h) ==
  handler[h].pc # "idle" =>
    /\ handler[h].event \in Events /\ events[handler[h].event] # "ABSENT"
    /\ handler[h].pc = "promoting" =>
         /\ OutcomeOf[handler[h].event] = "SUCCEEDED"
         /\ PackageOf[handler[h].event] # NoPackage
    /\ handler[h].pc \in {"refused", "complete"} => handler[h].state \in Ended
    /\ handler[h].pc = "refused" =>
         handler[h].state \notin {"PROMOTED", "ROLLED_BACK", "LINEAGE_OUT_OF_SYNC"}
    /\ handler[h].pc = "complete" =>
         /\ handler[h].state \in {"PROMOTED", "ROLLED_BACK"} =>
              /\ OutcomeOf[handler[h].event] = "SUCCEEDED"
              /\ PackageOf[handler[h].event] # NoPackage
              /\ handler[h].version = PackageOf[handler[h].event]
         /\ handler[h].state = "LINEAGE_OUT_OF_SYNC" =>
              OutcomeOf[handler[h].event] = "SUCCEEDED"

\* The event that speaks for a system is one of its own that was accepted.
SpeaksForItsOwn(s) ==
  deployed[s].event # NoEvent =>
    SystemOf[deployed[s].event] = s /\ events[deployed[s].event] # "ABSENT"

DeploymentInv ==
  /\ PointerTyped /\ RowsTyped /\ handler \in [Deployers -> ServingRow]
  /\ \A h \in Deployers : ServingInv(h)
  /\ \A s \in Systems : SpeaksForItsOwn(s)
  /\ RowsTellTheTruth

-----------------------------------------------------------------------------
(* The steps of a call that write neither table.                           *)

LEMMA ServingStep ==
  ASSUME DeploymentInv, UNCHANGED <<events, deployed>>, PointerTyped', NEW h \in Deployers,
         handler' \in [Deployers -> ServingRow],
         \A g \in Deployers \ {h} : handler'[g] = handler[g],
         ServingInv(h)'
  PROVE  DeploymentInv'
<1>1. RowsTyped' /\ RowsTellTheTruth' /\ \A s \in Systems : SpeaksForItsOwn(s)'
  BY DEF DeploymentInv, RowsTyped, RowsTellTheTruth, StateOfItsEvent, PackageOfTheArtifact, NewestSpeaks,
     SpeaksForItsOwn
<1>2. \A g \in Deployers : ServingInv(g)'
  BY DEF DeploymentInv, ServingInv
<1> QED
  BY <1>1, <1>2 DEF DeploymentInv

LEMMA PointerKept == ASSUME PointerTyped, UNCHANGED vars PROVE PointerTyped'
BY DEF PointerTyped, vars

\* What a call becomes when it goes on with its event.
LEMMA SetsCall ==
  ASSUME DeploymentInv, NEW h \in Deployers, handler[h].pc # "idle",
         NEW pc \in {"promoting", "refused", "complete"}, NEW state \in {"NONE"} \cup Ended,
         NEW version \in 0 .. (MaxToken + 1), Set(h, pc, state, version)
  PROVE  /\ handler' \in [Deployers -> ServingRow]
         /\ \A g \in Deployers \ {h} : handler'[g] = handler[g]
         /\ handler'[h] = [pc |-> pc, event |-> handler[h].event, state |-> state,
                           version |-> version]
         /\ handler[h].event \in Events /\ events[handler[h].event] # "ABSENT"
<1>1. handler[h].event \in Events /\ events[handler[h].event] # "ABSENT"
  BY DEF DeploymentInv, ServingInv
<1>2. PICK new \in ServingRow :
        new = [pc |-> pc, event |-> handler[h].event, state |-> state, version |-> version]
  BY <1>1 DEF ServingRow
<1>3. handler' = [handler EXCEPT ![h] = new] /\ handler \in [Deployers -> ServingRow]
  BY <1>2 DEF Set, DeploymentInv
<1> QED
  BY <1>1, <1>2, <1>3

LEMMA ResumeKeeps ==
  ASSUME DeploymentInv, NEW h \in Deployers, NEW e \in Events, Resume(h, e)
  PROVE  DeploymentInv'
<1>1. PICK new : new = [pc |-> "claimed", event |-> e, state |-> "NONE", version |-> 0]
  OBVIOUS
<1>2. new \in ServingRow
  BY <1>1, DeploymentAssumption, PublisherAssumption DEF ServingRow
<1>3. /\ handler' = [handler EXCEPT ![h] = new] /\ events[e] # "ABSENT"
      /\ UNCHANGED <<vars, events, deployed>>
  BY <1>1 DEF Resume
<1>4. /\ handler' \in [Deployers -> ServingRow] /\ handler'[h] = new
      /\ \A g \in Deployers \ {h} : handler'[g] = handler[g]
  BY <1>2, <1>3 DEF DeploymentInv
<1>5. ServingInv(h)'
  BY <1>1, <1>3, <1>4 DEF ServingInv
<1>6. PointerTyped'
  BY <1>3, PointerKept DEF DeploymentInv
<1> QED
  BY <1>3, <1>4, <1>5, <1>6, ServingStep

LEMMA ReportKeeps ==
  ASSUME DeploymentInv, NEW h \in Deployers, ReportFailure(h) \/ ReportMissing(h) \/ ReadPointer(h)
  PROVE  DeploymentInv'
<1>1. PointerTyped' /\ UNCHANGED <<events, deployed>> /\ handler[h].pc # "idle"
  BY PointerKept DEF DeploymentInv, ReportFailure, ReportMissing, ReadPointer
<1>2. PICK state \in Ended, version \in 0 .. (MaxToken + 1) :
        /\ Set(h, "complete", state, version)
        /\ state \notin {"PROMOTED", "ROLLED_BACK"}
        /\ state = "LINEAGE_OUT_OF_SYNC" => OutcomeOf[handler[h].event] = "SUCCEEDED"
  <2>1. 0 \in 0 .. (MaxToken + 1) /\ pointer.active \in 0 .. (MaxToken + 1)
    BY DeploymentAssumption, PublisherAssumption DEF DeploymentInv, PointerTyped, Namespaces
  <2>2. CASE ReportFailure(h)
    BY <2>1, <2>2 DEF ReportFailure, Ended
  <2>3. CASE ReportMissing(h)
    BY <2>1, <2>3 DEF ReportMissing, Ended
  <2>4. CASE ReadPointer(h)
    <3>1. handler[h].state \in Ended \ {"PROMOTED", "ROLLED_BACK", "LINEAGE_OUT_OF_SYNC"}
      BY <2>4 DEF ReadPointer, DeploymentInv, ServingInv
    <3> QED
      BY <2>1, <2>4, <3>1 DEF ReadPointer
  <2> QED
    BY <2>2, <2>3, <2>4
<1>3. /\ handler' \in [Deployers -> ServingRow]
      /\ \A g \in Deployers \ {h} : handler'[g] = handler[g]
      /\ handler'[h] = [pc |-> "complete", event |-> handler[h].event, state |-> state,
                        version |-> version]
      /\ handler[h].event \in Events /\ events[handler[h].event] # "ABSENT"
  BY <1>1, <1>2, SetsCall
<1>4. ServingInv(h)'
  BY <1>1, <1>2, <1>3 DEF ServingInv
<1> QED
  BY <1>1, <1>3, <1>4, ServingStep

-----------------------------------------------------------------------------
(* The steps of a promotion.                                               *)

LEMMA NoPromotionType ==
  ASSUME PointerTyped, NEW h \in Deployers,
         deployer' = [deployer EXCEPT ![h] = NoPromotion],
         UNCHANGED <<pointer, reservation>>
  PROVE  PointerTyped'
<1>1. NoPromotion \in MoveRow /\ NoPromotion.pc = "idle"
  BY DeploymentAssumption, PublisherAssumption DEF NoPromotion, MoveRow
<1> QED
  BY <1>1 DEF PointerTyped

LEMMA StartKeeps ==
  ASSUME DeploymentInv, NEW h \in Deployers, StartPromotion(h)
  PROVE  DeploymentInv'
<1>1. /\ handler[h].pc # "idle" /\ UNCHANGED <<events, deployed>>
      /\ OutcomeOf[handler[h].event] = "SUCCEEDED" /\ PackageOf[handler[h].event] # NoPackage
      /\ Set(h, "promoting", "NONE", PackageOf[handler[h].event])
      /\ BeginPromotion(h, PackageOf[handler[h].event])
  BY DEF StartPromotion
<1>2. PICK v \in Namespaces : v = PackageOf[handler[h].event]
  <2>1. handler[h].event \in Events
    BY <1>1 DEF DeploymentInv, ServingInv
  <2> QED
    BY <1>1, <2>1, DeploymentAssumption, PublisherAssumption DEF Namespaces
<1>3. v \in 0 .. (MaxToken + 1) /\ pointer.active \in 0 .. (MaxToken + 1) /\ 0 \in Nat
  BY DeploymentAssumption, PublisherAssumption DEF DeploymentInv, PointerTyped, Namespaces
<1>4. /\ handler' \in [Deployers -> ServingRow]
      /\ \A g \in Deployers \ {h} : handler'[g] = handler[g]
      /\ handler'[h] = [pc |-> "promoting", event |-> handler[h].event, state |-> "NONE",
                        version |-> v]
      /\ handler[h].event \in Events /\ events[handler[h].event] # "ABSENT"
  BY <1>1, <1>2, <1>3, SetsCall
<1>5. ServingInv(h)'
  BY <1>1, <1>4 DEF ServingInv
<1>6. PointerTyped'
  <2>1. PICK new : new = [pc |-> "reserve", target |-> v, prior |-> pointer.active, token |-> 0]
    OBVIOUS
  <2>2. new \in MoveRow
    BY <1>3, <2>1 DEF MoveRow
  <2>3. deployer' = [deployer EXCEPT ![h] = new] /\ UNCHANGED <<pointer, reservation>>
    BY <1>1, <1>2, <2>1 DEF BeginPromotion, tables
  <2> QED
    BY <2>1, <2>2, <2>3 DEF DeploymentInv, PointerTyped
<1> QED
  BY <1>1, <1>4, <1>5, <1>6, ServingStep

LEMMA RunKeeps ==
  ASSUME DeploymentInv, NEW h \in Deployers, RunPromotion(h)
  PROVE  DeploymentInv'
<1>1. PointerTyped /\ deployer[h] \in MoveRow /\ UNCHANGED <<events, deployed, handler>>
  BY DEF DeploymentInv, PointerTyped, RunPromotion
<1>2. ASSUME NEW pc \in {"promoted", "refused", "promote"}, NEW k \in Nat,
             deployer[h].pc # "idle",
             \/ deployer' = [deployer EXCEPT ![h].pc = pc]
             \/ deployer' = [deployer EXCEPT ![h].pc = pc, ![h].token = k]
      PROVE  /\ deployer' \in [Deployers -> MoveRow]
             /\ \A g \in Deployers : deployer'[g].pc # "idle" => deployer'[g].target \in Namespaces
  <2>1. PICK p \in MoveRow : p = deployer[h]
    BY <1>1
  <2>2. PICK new \in MoveRow : new.target = p.target /\ deployer' = [deployer EXCEPT ![h] = new]
    <3>1. CASE deployer' = [deployer EXCEPT ![h].pc = pc]
      <4>1. [p EXCEPT !.pc = pc] \in MoveRow /\ [p EXCEPT !.pc = pc].target = p.target
        BY DEF MoveRow
      <4> QED
        BY <1>2, <2>1, <3>1, <4>1
    <3>2. CASE deployer' = [deployer EXCEPT ![h].pc = pc, ![h].token = k]
      <4>1. /\ [p EXCEPT !.pc = pc, !.token = k] \in MoveRow
            /\ [p EXCEPT !.pc = pc, !.token = k].target = p.target
        BY DEF MoveRow
      <4> QED
        BY <1>2, <2>1, <3>2, <4>1
    <3> QED
      BY <1>2, <3>1, <3>2
  <2> QED
    BY <1>1, <1>2, <2>1, <2>2 DEF PointerTyped
<1>3. PICK k \in Nat : k = LastToken + 1
  BY <1>1 DEF PointerTyped, LastToken
<1>4. ASSUME ReservePromotion(h) PROVE PointerTyped'
  <2>1. deployer[h].pc # "idle" /\ UNCHANGED pointer
    BY <1>4 DEF ReservePromotion
  <2>2. \/ deployer' = [deployer EXCEPT ![h].pc = "refused"] /\ UNCHANGED reservation
        \/ /\ Reserve(k)
           /\ deployer' = [deployer EXCEPT ![h].pc = "promote", ![h].token = k]
    BY <1>3, <1>4 DEF ReservePromotion
  <2>3. /\ deployer' \in [Deployers -> MoveRow]
        /\ \A g \in Deployers : deployer'[g].pc # "idle" => deployer'[g].target \in Namespaces
    BY <1>2, <2>1, <2>2
  <2>4. reservation' \in [token : Nat, status : {"NONE", "RESERVED", "ACTIVATED"}]
    BY <1>1, <2>2 DEF PointerTyped, Reserve
  <2> QED
    BY <1>1, <2>1, <2>3, <2>4 DEF PointerTyped
<1>5. ASSUME Promote(h) PROVE PointerTyped'
  <2>1. deployer[h].pc # "idle"
    BY <1>5 DEF Promote
  <2>2. \/ deployer' = [deployer EXCEPT ![h].pc = "refused"] /\ UNCHANGED <<pointer, reservation>>
        \/ /\ deployer' = [deployer EXCEPT ![h].pc = "promoted"]
           /\ pointer' = [active |-> deployer[h].target, fence |-> deployer[h].token]
           /\ reservation' = [reservation EXCEPT !.status = "ACTIVATED"]
    BY <1>5 DEF Promote, PointTo
  <2>3. /\ deployer' \in [Deployers -> MoveRow]
        /\ \A g \in Deployers : deployer'[g].pc # "idle" => deployer'[g].target \in Namespaces
    BY <1>2, <1>3, <2>1, <2>2
  <2>4. deployer[h].target \in Namespaces /\ deployer[h].token \in Nat
    BY <1>1, <2>1 DEF PointerTyped, MoveRow
  <2>5. /\ pointer' \in [active : Namespaces, fence : Nat]
        /\ reservation' \in [token : Nat, status : {"NONE", "RESERVED", "ACTIVATED"}]
    BY <1>1, <2>2, <2>4 DEF PointerTyped
  <2> QED
    BY <2>3, <2>5 DEF PointerTyped
<1>6. PointerTyped'
  BY <1>4, <1>5 DEF RunPromotion
<1> QED
  BY <1>1, <1>6, ServingStep DEF DeploymentInv, ServingInv

LEMMA ReadEventKeeps ==
  ASSUME DeploymentInv, NEW h \in Deployers, ReadAuthority(h) \/ ReadBack(h)
  PROVE  DeploymentInv'
<1>1. handler[h].pc = "promoting" /\ UNCHANGED <<events, deployed>> /\ ServingInv(h)
  BY DEF ReadAuthority, ReadBack, DeploymentInv
<1>2. PointerTyped'
  BY NoPromotionType DEF DeploymentInv, ReadAuthority, ReadBack, EndPromotion, tables
<1>3. PICK pc \in {"refused", "complete"}, state \in Ended, version \in 0 .. (MaxToken + 1) :
        /\ Set(h, pc, state, version) /\ state # "LINEAGE_OUT_OF_SYNC"
        /\ state \in {"PROMOTED", "ROLLED_BACK"} =>
             pc = "complete" /\ version = PackageOf[handler[h].event]
  <2>1. CASE ReadAuthority(h)
    BY <2>1, DeploymentAssumption, PublisherAssumption DEF ReadAuthority, Ended
  <2>2. CASE ReadBack(h)
    <3>1. pointer.active \in 0 .. (MaxToken + 1)
      BY DeploymentAssumption, PublisherAssumption DEF DeploymentInv, PointerTyped, Namespaces
    <3>2. PackageOf[handler[h].event] \in 0 .. (MaxToken + 1)
      BY <1>1, DeploymentAssumption, PublisherAssumption DEF ServingInv
    <3> QED
      BY <2>2, <3>1, <3>2 DEF ReadBack, Ended
  <2> QED
    BY <2>1, <2>2
<1>4. /\ handler' \in [Deployers -> ServingRow]
      /\ \A g \in Deployers \ {h} : handler'[g] = handler[g]
      /\ handler'[h] = [pc |-> pc, event |-> handler[h].event, state |-> state,
                        version |-> version]
      /\ handler[h].event \in Events /\ events[handler[h].event] # "ABSENT"
  <2>1. /\ pc \in {"promoting", "refused", "complete"} /\ state \in {"NONE"} \cup Ended
        /\ handler[h].pc # "idle" /\ Set(h, pc, state, version)
    BY <1>1, <1>3
  <2> QED
    BY <2>1, SetsCall
<1>5. ServingInv(h)'
  BY <1>1, <1>3, <1>4 DEF ServingInv
<1> QED
  BY <1>1, <1>2, <1>4, <1>5, ServingStep

LEMMA NoCallType == NotServing \in ServingRow /\ NotServing.pc = "idle"
BY DeploymentAssumption, PublisherAssumption DEF NotServing, ServingRow

LEMMA CrashKeeps ==
  ASSUME DeploymentInv, NEW h \in Deployers, StopHandling(h)
  PROVE  DeploymentInv'
<1>1. /\ handler' = [handler EXCEPT ![h] = NotServing] /\ UNCHANGED <<events, deployed>>
      /\ PointerTyped'
  BY NoPromotionType DEF StopHandling, DeploymentInv
<1>2. /\ handler' \in [Deployers -> ServingRow] /\ handler'[h] = NotServing
      /\ \A g \in Deployers \ {h} : handler'[g] = handler[g]
  BY <1>1, NoCallType DEF DeploymentInv
<1>3. ServingInv(h)'
  BY <1>2, NoCallType DEF ServingInv
<1> QED
  BY <1>1, <1>2, <1>3, ServingStep

-----------------------------------------------------------------------------
(* The two transactions that write the tables.                             *)

LEMMA StaleKeeps ==
  ASSUME DeploymentInv, NEW h \in Deployers, NEW e \in Events, ClaimStale(h, e)
  PROVE  DeploymentInv'
<1>1. /\ events' = [events EXCEPT ![e] = "STALE"] /\ events[e] = "ABSENT" /\ Older(e)
      /\ UNCHANGED <<vars, deployed, handler>>
      /\ events \in [Events -> {"ABSENT", "PROCESSING"} \cup Ended]
  BY DEF ClaimStale, DeploymentInv, RowsTyped
<1>2. /\ events'[e] = "STALE" /\ \A f \in Events \ {e} : events'[f] = events[f]
      /\ RowsTyped'
  BY <1>1 DEF RowsTyped, DeploymentInv, Ended
<1>3. PointerTyped'
  BY <1>1, PointerKept DEF DeploymentInv
<1>4. \A g \in Deployers : ServingInv(g)'
  BY <1>1, <1>2 DEF DeploymentInv, ServingInv
<1>5. ASSUME NEW s \in Systems
      PROVE  /\ SpeaksForItsOwn(s)' /\ deployed[s].event # e
             /\ deployed[s].event \in Events \cup {NoEvent}
  <2>1. deployed[s].event \in Events \cup {NoEvent}
    BY DEF DeploymentInv, RowsTyped, StateRow
  <2>2. deployed[s].event # e
    BY <1>1, DeploymentAssumption, PublisherAssumption DEF DeploymentInv, SpeaksForItsOwn
  <2> QED
    BY <1>1, <1>2, <2>1, <2>2 DEF DeploymentInv, SpeaksForItsOwn
<1>6. StateOfItsEvent'
  BY <1>1, <1>2, <1>5 DEF DeploymentInv, RowsTellTheTruth, StateOfItsEvent
<1>7. PackageOfTheArtifact' /\ NewestSpeaks'
  BY <1>1, <1>2 DEF DeploymentInv, RowsTellTheTruth, PackageOfTheArtifact, NewestSpeaks, Older
<1> QED
  BY <1>1, <1>2, <1>3, <1>4, <1>5, <1>6, <1>7 DEF DeploymentInv, RowsTellTheTruth

LEMMA NewKeeps ==
  ASSUME DeploymentInv, NEW h \in Deployers, NEW e \in Events, ClaimNew(h, e)
  PROVE  DeploymentInv'
<1>1. PICK s \in Systems : s = SystemOf[e]
  BY DeploymentAssumption, PublisherAssumption
<1>2. deployed[s] \in StateRow /\ events[e] = "ABSENT" /\ UNCHANGED vars /\ ~(deployed[s].order >= OrderOf[e])
      /\ events \in [Events -> {"ABSENT", "PROCESSING"} \cup Ended]
      /\ deployed \in [Systems -> StateRow] /\ OrderOf[e] \in Nat
  BY <1>1, DeploymentAssumption, PublisherAssumption DEF ClaimNew, Older, DeploymentInv, RowsTyped
<1>3. PICK row : row = [deployed[s] EXCEPT !.event = e, !.order = OrderOf[e], !.state = "PROCESSING"]
  OBVIOUS
<1>4. /\ row \in StateRow /\ row.event = e /\ row.order = OrderOf[e] /\ row.state = "PROCESSING"
      /\ row.artifact = deployed[s].artifact /\ row.package = deployed[s].package
  BY <1>2, <1>3 DEF StateRow
<1>5. deployed' = [deployed EXCEPT ![s] = row] /\ events' = [events EXCEPT ![e] = "PROCESSING"]
  BY <1>1, <1>3 DEF ClaimNew
<1>6. /\ deployed'[s] = row /\ \A r \in Systems \ {s} : deployed'[r] = deployed[r]
      /\ events'[e] = "PROCESSING" /\ \A f \in Events \ {e} : events'[f] = events[f]
      /\ RowsTyped'
  BY <1>2, <1>4, <1>5 DEF RowsTyped
<1>7. PICK new : new = [pc |-> "claimed", event |-> e, state |-> "NONE", version |-> 0]
  OBVIOUS
<1>8. handler' = [handler EXCEPT ![h] = new] /\ new \in ServingRow
  BY <1>7, DeploymentAssumption, PublisherAssumption DEF ClaimNew, ServingRow
<1>9. /\ handler' \in [Deployers -> ServingRow] /\ handler'[h] = new
      /\ \A g \in Deployers \ {h} : handler'[g] = handler[g]
  BY <1>8 DEF DeploymentInv
<1>10. \A g \in Deployers : ServingInv(g)'
  <2>1. ServingInv(h)'
    BY <1>6, <1>7, <1>9 DEF ServingInv
  <2>2. ASSUME NEW g \in Deployers \ {h}
        PROVE  ServingInv(g)'
    BY <1>6, <1>9 DEF DeploymentInv, ServingInv
  <2> QED
    BY <2>1, <2>2
<1>11. \A r \in Systems : deployed[r].event # e /\ deployed[r].event \in Events \cup {NoEvent}
  BY <1>2, DeploymentAssumption, PublisherAssumption DEF DeploymentInv, SpeaksForItsOwn, StateRow
<1>12. \A r \in Systems : SpeaksForItsOwn(r)'
  BY <1>1, <1>4, <1>6, <1>11 DEF DeploymentInv, SpeaksForItsOwn
<1>13. StateOfItsEvent'
  <2> SUFFICES ASSUME NEW r \in Systems, deployed'[r].event # NoEvent
               PROVE  /\ deployed'[r].state = events'[deployed'[r].event]
                      /\ deployed'[r].order = OrderOf[deployed'[r].event]
                      /\ deployed'[r].state \in {"PROMOTED", "ROLLED_BACK"} =>
                           /\ deployed'[r].artifact = deployed'[r].event
                           /\ deployed'[r].package = PackageOf[deployed'[r].event]
                           /\ deployed'[r].version = deployed'[r].package
    BY DEF StateOfItsEvent
  <2>1. CASE r = s
    BY <1>4, <1>6, <2>1
  <2>2. CASE r # s
    BY <1>6, <1>11, <2>2 DEF DeploymentInv, RowsTellTheTruth, StateOfItsEvent
  <2> QED
    BY <2>1, <2>2
<1>14. PackageOfTheArtifact'
  BY <1>4, <1>6 DEF DeploymentInv, RowsTellTheTruth, PackageOfTheArtifact
<1>15. NewestSpeaks'
  <2> SUFFICES ASSUME NEW f \in Events, events'[f] # "ABSENT"
               PROVE  deployed'[SystemOf[f]].order >= OrderOf[f]
    BY DEF NewestSpeaks
  <2>1. OrderOf[f] \in Nat /\ SystemOf[f] \in Systems /\ deployed[SystemOf[f]].order \in Nat
    BY <1>2, DeploymentAssumption, PublisherAssumption DEF StateRow
  <2>2. CASE f = e
    BY <1>1, <1>4, <1>6, <2>1, <2>2
  <2>3. CASE f # e
    <3>1. deployed[SystemOf[f]].order >= OrderOf[f]
      BY <1>6, <2>3 DEF DeploymentInv, RowsTellTheTruth, NewestSpeaks
    <3>2. deployed'[SystemOf[f]].order >= deployed[SystemOf[f]].order
      BY <1>2, <1>4, <1>6, <2>1
    <3>3. deployed'[SystemOf[f]].order \in Nat
      BY <1>6, <2>1 DEF RowsTyped, StateRow
    <3> QED
      BY <2>1, <3>1, <3>2, <3>3
  <2> QED
    BY <2>2, <2>3
<1>16. PointerTyped'
  BY <1>2, PointerKept DEF DeploymentInv
<1> QED
  BY <1>6, <1>9, <1>10, <1>12, <1>13, <1>14, <1>15, <1>16 DEF DeploymentInv, RowsTellTheTruth

\* What the state row of a system becomes.
LEMMA RecordedRow ==
  ASSUME DeploymentInv, NEW e \in Events, NEW state \in Ended, NEW version \in 0 .. (MaxToken + 1),
         state \in {"PROMOTED", "ROLLED_BACK"} =>
           /\ OutcomeOf[e] = "SUCCEEDED" /\ PackageOf[e] # NoPackage
           /\ version = PackageOf[e],
         state = "LINEAGE_OUT_OF_SYNC" => OutcomeOf[e] = "SUCCEEDED"
  PROVE  LET row == Recorded(e, state, version)
             old == deployed[SystemOf[e]]
         IN
           /\ row \in StateRow
           /\ row.event = old.event /\ row.order = old.order /\ row.state = state
           /\ state \in {"PROMOTED", "ROLLED_BACK"} =>
                row.artifact = e /\ row.package = PackageOf[e] /\ row.version = row.package
           /\ \/ row.artifact = old.artifact /\ row.package = old.package
              \/ row.artifact = e /\ OutcomeOf[e] = "SUCCEEDED"
                 /\ row.package \in {NoPackage, PackageOf[e]}
<1>1. PICK old \in StateRow : old = deployed[SystemOf[e]]
  BY DeploymentAssumption, PublisherAssumption DEF DeploymentInv, RowsTyped
<1>2. PackageOf[e] \in Nat \cup {NoPackage}
  BY DeploymentAssumption, PublisherAssumption
<1>3. CASE state \in {"PROMOTED", "ROLLED_BACK"}
  <2>1. Recorded(e, state, version) =
          [old EXCEPT !.artifact = e, !.package = PackageOf[e], !.version = version, !.state = state]
    BY <1>1, <1>3 DEF Recorded
  <2> QED
    BY <1>1, <1>2, <1>3, <2>1 DEF StateRow
<1>4. CASE state = "LINEAGE_OUT_OF_SYNC" \/ (state = "FAILED_TERMINAL" /\ OutcomeOf[e] = "SUCCEEDED")
  <2>1. Recorded(e, state, version) =
          [old EXCEPT !.artifact = e, !.package = NoPackage, !.version = version, !.state = state]
    BY <1>1, <1>4 DEF Recorded
  <2> QED
    BY <1>1, <1>4, <2>1 DEF StateRow
<1>5. CASE /\ state \notin {"PROMOTED", "ROLLED_BACK", "LINEAGE_OUT_OF_SYNC"}
           /\ ~(state = "FAILED_TERMINAL" /\ OutcomeOf[e] = "SUCCEEDED")
  <2>1. Recorded(e, state, version) = [old EXCEPT !.state = state]
    BY <1>1, <1>5 DEF Recorded
  <2> QED
    BY <1>1, <1>5, <2>1 DEF StateRow
<1> QED
  BY <1>3, <1>4, <1>5

LEMMA CompleteEventKeeps ==
  ASSUME DeploymentInv, NEW h \in Deployers, CompleteEvent(h)
  PROVE  DeploymentInv'
<1>1. /\ handler[h].pc = "complete" /\ ServingInv(h) /\ handler[h].event \in Events
      /\ handler[h].state \in Ended /\ handler[h].version \in 0 .. (MaxToken + 1)
      /\ events[handler[h].event] # "ABSENT"
  BY DEF CompleteEvent, DeploymentInv, ServingInv, ServingRow
<1>2. PICK e \in Events, version \in 0 .. (MaxToken + 1), given \in Ended :
        e = handler[h].event /\ version = handler[h].version /\ given = handler[h].state
  BY <1>1
<1>3. /\ handler' = [handler EXCEPT ![h] = NotServing] /\ UNCHANGED vars
  BY DEF CompleteEvent
<1>4. /\ handler' \in [Deployers -> ServingRow] /\ handler'[h] = NotServing
      /\ \A g \in Deployers \ {h} : handler'[g] = handler[g]
  BY <1>3, NoCallType DEF DeploymentInv
<1>5. PointerTyped'
  BY <1>3, PointerKept DEF DeploymentInv
<1>6. CASE UNCHANGED <<events, deployed>>
  <2>1. ServingInv(h)'
    BY <1>4, NoCallType DEF ServingInv
  <2> QED
    BY <1>4, <1>5, <1>6, <2>1, ServingStep
<1>7. CASE events[e] \notin Ended /\ ~UNCHANGED <<events, deployed>>
  <2> DEFINE s == SystemOf[e]
             authoritative == deployed[s].event = e
             state == IF authoritative THEN given ELSE "FAILED_NO_CHANGE"
             row == IF authoritative THEN Recorded(e, given, version) ELSE deployed[s]
  <2>1. s \in Systems /\ state \in Ended /\ deployed \in [Systems -> StateRow]
        /\ events \in [Events -> {"ABSENT", "PROCESSING"} \cup Ended] /\ deployed[s] \in StateRow
    BY DeploymentAssumption, PublisherAssumption DEF DeploymentInv, RowsTyped, Ended
  <2>2. events' = [events EXCEPT ![e] = state] /\ deployed' = [deployed EXCEPT ![s] = row]
    BY <1>2, <1>7, <2>1 DEF CompleteEvent
  <2>3. authoritative =>
          /\ row \in StateRow
          /\ row.event = deployed[s].event /\ row.order = deployed[s].order /\ row.state = given
          /\ given \in {"PROMOTED", "ROLLED_BACK"} =>
               row.artifact = e /\ row.package = PackageOf[e] /\ row.version = row.package
          /\ \/ row.artifact = deployed[s].artifact /\ row.package = deployed[s].package
             \/ row.artifact = e /\ OutcomeOf[e] = "SUCCEEDED"
                /\ row.package \in {NoPackage, PackageOf[e]}
    <3>1. /\ given \in {"PROMOTED", "ROLLED_BACK"} =>
               /\ OutcomeOf[e] = "SUCCEEDED" /\ PackageOf[e] # NoPackage
               /\ version = PackageOf[e]
          /\ given = "LINEAGE_OUT_OF_SYNC" => OutcomeOf[e] = "SUCCEEDED"
      BY <1>1, <1>2 DEF ServingInv
    <3> QED
      BY <3>1, RecordedRow
  <2>4. authoritative => state = given
    OBVIOUS
  <2>5. ~authoritative => row = deployed[s]
    OBVIOUS
  <2>6. row \in StateRow /\ row.event = deployed[s].event /\ row.order = deployed[s].order
    BY <2>1, <2>3, <2>5
  <2> HIDE DEF row, state
  <2>7. /\ events'[e] = state /\ \A f \in Events \ {e} : events'[f] = events[f]
        /\ deployed'[s] = row /\ \A r \in Systems \ {s} : deployed'[r] = deployed[r]
        /\ \A r \in Systems : deployed'[r].event = deployed[r].event
                              /\ deployed'[r].order = deployed[r].order
        /\ RowsTyped'
    BY <2>1, <2>2, <2>6 DEF RowsTyped
  <2>8. state # "ABSENT"
    BY <2>1 DEF Ended
  <2>9. \A g \in Deployers : ServingInv(g)'
    <3>1. ServingInv(h)'
      BY <1>4, NoCallType DEF ServingInv
    <3>2. ASSUME NEW g \in Deployers \ {h}
          PROVE  ServingInv(g)'
      BY <1>4, <2>7, <2>8 DEF DeploymentInv, ServingInv
    <3> QED
      BY <3>1, <3>2
  <2>10. \A r \in Systems : SpeaksForItsOwn(r)'
    <3> SUFFICES ASSUME NEW r \in Systems, deployed[r].event # NoEvent
                 PROVE  SystemOf[deployed[r].event] = r /\ events'[deployed[r].event] # "ABSENT"
      BY <2>7 DEF SpeaksForItsOwn
    <3>1. deployed[r].event \in Events
      BY <2>1 DEF StateRow
    <3> QED
      BY <2>7, <2>8, <3>1 DEF DeploymentInv, SpeaksForItsOwn
  <2>11. StateOfItsEvent'
    <3> SUFFICES ASSUME NEW r \in Systems, deployed'[r].event # NoEvent
                 PROVE  /\ deployed'[r].state = events'[deployed'[r].event]
                        /\ deployed'[r].order = OrderOf[deployed'[r].event]
                        /\ deployed'[r].state \in {"PROMOTED", "ROLLED_BACK"} =>
                             /\ deployed'[r].artifact = deployed'[r].event
                             /\ deployed'[r].package = PackageOf[deployed'[r].event]
                             /\ deployed'[r].version = deployed'[r].package
      BY DEF StateOfItsEvent
    <3>1. /\ deployed[r].event \in Events /\ deployed[r].event # NoEvent
          /\ deployed'[r].event = deployed[r].event
          /\ SystemOf[deployed[r].event] = r
      BY <2>1, <2>7 DEF StateRow, DeploymentInv, SpeaksForItsOwn
    <3>2. /\ deployed[r].state = events[deployed[r].event]
          /\ deployed[r].order = OrderOf[deployed[r].event]
          /\ deployed[r].state \in {"PROMOTED", "ROLLED_BACK"} =>
               /\ deployed[r].artifact = deployed[r].event
               /\ deployed[r].package = PackageOf[deployed[r].event]
               /\ deployed[r].version = deployed[r].package
      BY <3>1 DEF DeploymentInv, RowsTellTheTruth, StateOfItsEvent
    <3>3. CASE deployed[r].event = e
      <4>1. r = s /\ authoritative
        BY <3>1, <3>3
      <4> QED
        BY <2>3, <2>4, <2>7, <3>1, <3>2, <3>3, <4>1
    <3>4. CASE deployed[r].event # e
      <4>1. deployed'[r] = deployed[r]
        BY <2>5, <2>7, <3>4
      <4> QED
        BY <2>7, <3>1, <3>2, <3>4, <4>1
    <3> QED
      BY <3>3, <3>4
  <2>12. PackageOfTheArtifact'
    <3> SUFFICES ASSUME NEW r \in Systems
                 PROVE  /\ deployed'[r].artifact # NoEvent =>
                             OutcomeOf[deployed'[r].artifact] = "SUCCEEDED"
                        /\ deployed'[r].package # NoPackage =>
                             /\ deployed'[r].artifact # NoEvent
                             /\ deployed'[r].package = PackageOf[deployed'[r].artifact]
      BY DEF PackageOfTheArtifact
    <3>1. /\ deployed[r].artifact # NoEvent => OutcomeOf[deployed[r].artifact] = "SUCCEEDED"
          /\ deployed[r].package # NoPackage =>
               /\ deployed[r].artifact # NoEvent
               /\ deployed[r].package = PackageOf[deployed[r].artifact]
      BY DEF DeploymentInv, RowsTellTheTruth, PackageOfTheArtifact
    <3>2. e # NoEvent
      BY DeploymentAssumption, PublisherAssumption
    <3>3. \/ /\ deployed'[r].artifact = deployed[r].artifact
             /\ deployed'[r].package = deployed[r].package
          \/ /\ deployed'[r].artifact = e /\ OutcomeOf[e] = "SUCCEEDED"
             /\ deployed'[r].package \in {NoPackage, PackageOf[e]}
      BY <2>3, <2>5, <2>7
    <3> QED
      BY <3>1, <3>2, <3>3
  <2>13. NewestSpeaks'
    <3> SUFFICES ASSUME NEW f \in Events, events'[f] # "ABSENT"
                 PROVE  deployed'[SystemOf[f]].order >= OrderOf[f]
      BY DEF NewestSpeaks
    <3>1. events[f] # "ABSENT" /\ SystemOf[f] \in Systems
      BY <1>1, <1>2, <2>7, DeploymentAssumption, PublisherAssumption
    <3> QED
      BY <2>7, <3>1 DEF DeploymentInv, RowsTellTheTruth, NewestSpeaks
  <2> QED
    BY <1>4, <1>5, <2>7, <2>9, <2>10, <2>11, <2>12, <2>13 DEF DeploymentInv, RowsTellTheTruth
<1> QED
  BY <1>2, <1>6, <1>7 DEF CompleteEvent
-----------------------------------------------------------------------------
(* The invariant.                                                          *)

\* A set of numbers up to n has a largest one.
LEMMA LargestOf ==
  ASSUME NEW n \in Nat, NEW T \in SUBSET (1..n), T # {}
  PROVE  \E v \in T : \A u \in T : u <= v
<1> DEFINE above == {v..n : v \in T}
           R == StrictSubsetOrdering(1..n)
<1>1. IsWellFoundedOn(R, SUBSET (1..n))
  <2>1. 1 \in Int /\ n \in Int
    OBVIOUS
  <2>2. FiniteSubsetsOf(1..n) = SUBSET (1..n)
    BY <2>1, FS_Interval, FS_FiniteSubsetsOfFinite
  <2> QED
    BY <2>2, FS_StrictSubsetOrderingWellFounded
<1>2. above \subseteq SUBSET (1..n) /\ above # {}
  <2>1. \A v \in T : v..n \subseteq 1..n
    OBVIOUS
  <2> QED
    BY <2>1
<1>3. PICK top \in above : \A y \in above : <<y, top>> \notin R
  <2> HIDE DEF above, R
  <2> QED
    BY <1>1, <1>2, WFMin
<1>4. PICK v \in T : top = v..n
  OBVIOUS
<1>5. ASSUME NEW u \in T, u > v
      PROVE  FALSE
  <2>1. (u..n) \subseteq (v..n) /\ v \in v..n /\ v \notin u..n
    BY <1>5
  <2>2. <<u..n, top>> \in R
    BY <1>2, <1>4, <2>1 DEF StrictSubsetOrdering
  <2> QED
    BY <1>3, <2>2
<1> QED
  BY <1>5

LEMMA DeploymentStarts == DeploymentInit => DeploymentInv
<1> SUFFICES ASSUME DeploymentInit PROVE DeploymentInv
  OBVIOUS
<1> DEFINE packages == {PackageOf[e] : e \in Events} \ {NoPackage}
           last == CHOOSE v \in packages \cup {1} : \A u \in packages \cup {1} : u <= v
<1>1. last \in Namespaces
  <2>1. packages \cup {1} \in SUBSET (1 .. (MaxToken + 1)) /\ packages \cup {1} # {}
        /\ MaxToken + 1 \in Nat
    BY DeploymentAssumption, PublisherAssumption
  <2> HIDE DEF packages
  <2>2. \E v \in packages \cup {1} : \A u \in packages \cup {1} : u <= v
    BY <2>1, LargestOf
  <2>3. last \in packages \cup {1}
    BY <2>2
  <2> HIDE DEF last
  <2> QED
    BY <2>1, <2>3 DEF Namespaces
<1>2. /\ pointer = [active |-> last, fence |-> last - 1]
      /\ reservation = [token |-> last - 1,
                        status |-> IF last = 1 THEN "NONE" ELSE "ACTIVATED"]
  BY DEF DeploymentInit
<1> HIDE DEF last
<1>3. pointer \in [active : Namespaces, fence : Nat]
      /\ reservation \in [token : Nat, status : {"NONE", "RESERVED", "ACTIVATED"}]
  <2>1. last - 1 \in Nat
    BY <1>1, DeploymentAssumption, PublisherAssumption DEF Namespaces
  <2> QED
    BY <1>1, <1>2, <2>1
<1>4. PointerTyped
  <2>1. NoPromotion \in MoveRow /\ NoPromotion.pc = "idle"
    BY DeploymentAssumption, PublisherAssumption DEF NoPromotion, MoveRow
  <2>2. deployer = [h \in Deployers |-> NoPromotion]
    BY DEF DeploymentInit
  <2> QED
    BY <1>3, <2>1, <2>2 DEF PointerTyped
<1>5. NoDeployment \in StateRow
  BY DeploymentAssumption, PublisherAssumption DEF NoDeployment, StateRow
<1>6. /\ \A e \in Events : events[e] = "ABSENT"
      /\ \A s \in Systems : deployed[s] = NoDeployment
      /\ \A h \in Deployers : handler[h] = NotServing
      /\ RowsTyped /\ handler \in [Deployers -> ServingRow]
  BY <1>5, NoCallType DEF DeploymentInit, RowsTyped
<1>7. /\ \A h \in Deployers : ServingInv(h)
      /\ \A s \in Systems : SpeaksForItsOwn(s)
  BY <1>6, NoCallType DEF ServingInv, SpeaksForItsOwn, NoDeployment
<1>8. RowsTellTheTruth
  BY <1>6 DEF RowsTellTheTruth, StateOfItsEvent, PackageOfTheArtifact, NewestSpeaks, NoDeployment
<1> QED
  BY <1>4, <1>6, <1>7, <1>8 DEF DeploymentInv

LEMMA DeploymentGoesOn ==
  ASSUME DeploymentInv, [DeploymentNext]_deploymentVars
  PROVE  DeploymentInv'
<1>1. ASSUME NEW h \in Deployers, NEW e \in Events,
             ClaimStale(h, e) \/ ClaimNew(h, e) \/ Resume(h, e)
      PROVE  DeploymentInv'
  BY <1>1, StaleKeeps, NewKeeps, ResumeKeeps
<1>2. ASSUME NEW h \in Deployers, HandlerStep(h) \/ StopHandling(h)
      PROVE  DeploymentInv'
  BY <1>2, ReportKeeps, StartKeeps, RunKeeps, ReadEventKeeps, CompleteEventKeeps, CrashKeeps DEF HandlerStep
<1>3. CASE UNCHANGED deploymentVars
  <2>1. UNCHANGED <<vars, events, deployed, handler>>
    BY <1>3 DEF deploymentVars
  <2> QED
    BY <2>1, PointerKept DEF DeploymentInv, RowsTyped, ServingInv, SpeaksForItsOwn, RowsTellTheTruth,
       StateOfItsEvent, PackageOfTheArtifact, NewestSpeaks
<1> QED
  BY <1>1, <1>2, <1>3 DEF DeploymentNext

\* The tables and the calls fit each other in every state.
THEOREM DeploymentHolds == DeploymentSpec => []DeploymentInv
<1>1. DeploymentInv /\ [DeploymentNext]_deploymentVars => DeploymentInv'
  BY DeploymentGoesOn
<1> QED
  BY <1>1, DeploymentStarts, PTL DEF DeploymentSpec

\* The rows and the calls of handle() are of their types, and the pointer names a
\* namespace.
THEOREM TypeCorrect == DeploymentSpec => []DeploymentTypeOK
<1>1. DeploymentInv => DeploymentTypeOK
  BY DEF DeploymentInv, RowsTyped, PointerTyped, StateRow, ServingRow, Namespaces, DeploymentTypeOK
<1> QED
  BY <1>1, DeploymentHolds, PTL

\* What deployment_state tells of a system is true of its newest event, and the
\* package in it is that of the artifact that was deployed (claim, complete).
THEOREM RowsAreTrue == DeploymentSpec => []RowsTellTheTruth
<1>1. DeploymentInv => RowsTellTheTruth
  BY DEF DeploymentInv
<1> QED
  BY <1>1, DeploymentHolds, PTL

\* The first result of an event is its result, however often it is delivered again
\* and however many calls handle it at once (complete).
THEOREM FirstResultStays == DeploymentSpec => ResultsAreFinal
<1>1. DeploymentInv /\ [DeploymentNext]_deploymentVars =>
        [\A e \in Events : events[e] \in Ended => events'[e] = events[e]]_deploymentVars
  <2> SUFFICES ASSUME DeploymentInv, [DeploymentNext]_deploymentVars, NEW e \in Events, events[e] \in Ended
               PROVE  events'[e] = events[e]
    OBVIOUS
  <2>1. events[e] # "ABSENT" /\ events[e] # "PROCESSING"
        /\ events \in [Events -> {"ABSENT", "PROCESSING"} \cup Ended]
    BY DEF DeploymentInv, RowsTyped, Ended
  <2>2. ASSUME NEW h \in Deployers, NEW f \in Events,
               ClaimStale(h, f) \/ ClaimNew(h, f) \/ Resume(h, f)
        PROVE  events'[e] = events[e]
    BY <2>1, <2>2 DEF ClaimStale, ClaimNew, Resume
  <2>3. ASSUME NEW h \in Deployers, CompleteEvent(h)
        PROVE  events'[e] = events[e]
    <3>1. \/ UNCHANGED events
          \/ /\ events[handler[h].event] \notin Ended
             /\ \E state : events' = [events EXCEPT ![handler[h].event] = state]
      BY <2>3 DEF CompleteEvent
    <3> QED
      BY <2>1, <3>1
  <2>4. ASSUME NEW h \in Deployers, HandlerStep(h) \/ StopHandling(h), ~CompleteEvent(h)
        PROVE  events'[e] = events[e]
    BY <2>4 DEF HandlerStep, ReportFailure, ReportMissing, StartPromotion, RunPromotion,
       ReadAuthority, ReadPointer, ReadBack, StopHandling
  <2> QED
    BY <2>2, <2>3, <2>4 DEF DeploymentNext, deploymentVars
<1> QED
  BY <1>1, DeploymentHolds, PTL DEF DeploymentSpec, ResultsAreFinal
=============================================================================
