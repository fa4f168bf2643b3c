---------------------------- MODULE RecoveryRun ----------------------------
(***************************************************************************)
(* What the recovery-address extension promises its callers: every call of *)
(* SchemaExtensionRecovery.Run takes effect as one indivisible step on the *)
(* buffer, whichever goroutine makes it, and Finish replaces the           *)
(* identity's addresses with the buffer.  The decision Run takes (which    *)
(* address, if any, to append for a property) is a parameter: it is the   *)
(* implementation's, read on the buffer as it is when the step happens.    *)
(***************************************************************************)
EXTENDS Sequences

CONSTANTS
    Caller,            \* concurrent invocations of Run
    Input,             \* what a property gives Run (via, text, valid)
    InitialAddrs,      \* the address lists an identity can be loaded with
    None,              \* nothing to append
    Decision(_, _, _)  \* the address Run appends for an input, or None

VARIABLES
    input,     \* the property value each caller validates
    addrs,     \* i.RecoveryAddresses
    v,         \* r.v, the buffer
    pc,        \* whether each caller's Run has happened
    ret,       \* what Run returned to each caller
    finished   \* Finish has run

vars == <<input, addrs, v, pc, ret, finished>>

Init ==
    /\ input \in [Caller -> Input]
    /\ addrs \in InitialAddrs
    /\ v = <<>>
    /\ pc = [c \in Caller |-> "idle"]
    /\ ret = [c \in Caller |-> "none"]
    /\ finished = FALSE

\* The buffer with the decided address appended, if there is one.
Appended(buf, a) == IF a # None THEN Append(buf, a) ELSE buf

\* One whole call of Run: an email address is decided on and appended in
\* the same step; no via returns nil; any other via is an error.
Run(c) ==
    /\ pc[c] = "idle"
    /\ pc' = [pc EXCEPT ![c] = "done"]
    /\ IF input[c].via = "email" /\ input[c].valid
       THEN /\ v' = Appended(v, Decision(input[c], addrs, v))
            /\ ret' = [ret EXCEPT ![c] = "nil"]
       ELSE /\ ret' = [ret EXCEPT ![c] = IF input[c].via = "" THEN "nil" ELSE "error"]
            /\ UNCHANGED v
    /\ UNCHANGED <<input, addrs, finished>>

\* Finish, once every Run succeeded.
Finish ==
    /\ ~finished
    /\ \A c \in Caller : ret[c] = "nil"
    /\ addrs' = v
    /\ finished' = TRUE
    /\ UNCHANGED <<input, v, pc, ret>>

Next == (\E c \in Caller : Run(c)) \/ Finish

Spec == Init /\ [][Next]_vars

=============================================================================
