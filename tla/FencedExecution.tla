-------------------------- MODULE FencedExecution --------------------------
(***************************************************************************)
(* What CommandStorePort promises to the workers, without tables, clocks   *)
(* or attempts: each grant of a command carries the next epoch and ends    *)
(* the one before; only the holder of the epoch that is open writes to the *)
(* ledger, and an entry of the ledger is written once.                     *)
(***************************************************************************)
EXTENDS Integers

CONSTANTS
    Commands, Workers, Outputs,
    Keys,       \* stage keys
    KeysOf,     \* the stage keys of a command's identity
    NoOutput,
    NoGrant     \* a worker that holds no grant; no pair of a command and an epoch

VARIABLES
    issued,     \* epochs issued for a command
    open,       \* whether the last epoch of a command is open
    held,       \* the grant <<command, epoch>> of each worker
    ledger      \* the output stored under a key

vars == <<issued, open, held, ledger>>

----------------------------------------------------------------------------
(* The worker holds the open epoch of command c. *)
Holds(w, c) == open[c] /\ held[w] = <<c, issued[c]>>

Write(key, o) ==
    /\ ledger[key] = NoOutput
    /\ ledger' = [ledger EXCEPT ![key] = o]

Init ==
    /\ issued = [c \in Commands |-> 0]
    /\ open = [c \in Commands |-> FALSE]
    /\ held = [w \in Workers |-> NoGrant]
    /\ ledger = [key \in Keys |-> NoOutput]

(* A claim opens the next epoch, whether or not the last one is open. *)
Grant(w, c) ==
    /\ held[w] = NoGrant
    /\ issued' = [issued EXCEPT ![c] = @ + 1]
    /\ open' = [open EXCEPT ![c] = TRUE]
    /\ held' = [held EXCEPT ![w] = <<c, issued[c] + 1>>]
    /\ UNCHANGED ledger

(* The holder records the output of a stage. *)
Record(w, c, key, o) ==
    /\ Holds(w, c)
    /\ key \in KeysOf[c]
    /\ Write(key, o)
    /\ UNCHANGED <<issued, open, held>>

(* The holder ends its epoch with an output, which the ledger then holds. *)
Finish(w, c, key, o) ==
    /\ Holds(w, c)
    /\ key \in KeysOf[c]
    /\ Write(key, o) \/ (ledger[key] = o /\ UNCHANGED ledger)
    /\ open' = [open EXCEPT ![c] = FALSE]
    /\ UNCHANGED <<issued, held>>

(* An epoch ends without output: its holder failed, or the store gave up. *)
Abandon(c) ==
    /\ open[c]
    /\ open' = [open EXCEPT ![c] = FALSE]
    /\ UNCHANGED <<issued, held, ledger>>

(* A worker forgets its grant. *)
Forget(w) ==
    /\ held[w] # NoGrant
    /\ held' = [held EXCEPT ![w] = NoGrant]
    /\ UNCHANGED <<issued, open, ledger>>

Next ==
    \/ \E w \in Workers, c \in Commands : Grant(w, c)
    \/ \E w \in Workers, c \in Commands, key \in Keys, o \in Outputs :
          Record(w, c, key, o) \/ Finish(w, c, key, o)
    \/ \E c \in Commands : Abandon(c)
    \/ \E w \in Workers : Forget(w)

Spec == Init /\ [][Next]_vars
=============================================================================
