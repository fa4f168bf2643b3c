-------------------------- MODULE RecoveryExtension --------------------------
(***************************************************************************)
(* identity.SchemaExtensionRecovery: while an identity is validated the    *)
(* schema validator calls Run once per property carrying a recovery        *)
(* extension, possibly from several goroutines at once; Run collects the  *)
(* recovery addresses into the buffer v under the mutex l, reusing a      *)
(* record the identity already has.  Finish then replaces the identity's   *)
(* RecoveryAddresses with v.                                               *)
(***************************************************************************)
EXTENDS Naturals, Sequences

CONSTANTS
    Caller,   \* concurrent invocations of Run (one per schema property)
    Text,     \* normalised address texts (value after ToLower(TrimSpace))
    None

\* The via values a schema may carry: email, none, and one Run rejects.
Via == {"email", "", "sms"}

\* What a property gives Run: its extension's via, the address text its
\* value normalises to, and whether the raw value passes the email format.
Input == [via : Via, text : Text, valid : BOOLEAN]

\* RecoveryAddress: via and value, and whether it is a persisted record of
\* the identity (it keeps its id) or a new one.
Address == [via : {"email"}, value : Text, stored : BOOLEAN]

\* None, the nil of Run's pointers, is neither a goroutine nor an address.
ASSUME RecoveryAssumption == None \notin Caller \cup Address

VARIABLES
    input,     \* the property value each caller validates
    addrs,     \* i.RecoveryAddresses
    v,         \* r.v, the buffer
    holder,    \* the goroutine holding r.l
    pc,        \* where each caller is in Run
    found,     \* what each caller decided to append under the lock
    ret,       \* what Run returned to each caller
    finished,  \* Finish has run
    prior      \* ghost: the texts the identity had addresses for when loaded

vars == <<input, addrs, v, holder, pc, found, ret, finished, prior>>

\* NewRecoveryEmailAddress on the normalised value.
NewRecoveryEmailAddress(t) == [via |-> "email", value |-> t, stored |-> FALSE]

\* Faulty has: compares the via only.
hasViaOnly(haystack, needle) ==
    LET hits == {k \in 1..Len(haystack) : haystack[k].via = needle.via}
    IN IF hits = {} THEN None
       ELSE haystack[CHOOSE k \in hits : \A j \in hits : k <= j]

\* has: the first entry of the haystack with the needle's value and via.
has(haystack, needle) ==
    LET hits == {k \in 1..Len(haystack) :
                    haystack[k].value = needle.value /\ haystack[k].via = needle.via}
    IN IF hits = {} THEN None
       ELSE haystack[CHOOSE k \in hits : \A j \in hits : k <= j]

\* The identity as loaded: its persisted addresses, one per text.
StoredAddresses(texts) ==
    [k \in 1..Len(texts) |-> [via |-> "email", value |-> texts[k], stored |-> TRUE]]

\* Texts without repetition, as sequences of length at most two.
DistinctTexts == {<<>>} \cup {<<t>> : t \in Text} \cup {p \in Text \X Text : p[1] # p[2]}

Init ==
    /\ input \in [Caller -> Input]
    /\ \E texts \in DistinctTexts :
          /\ addrs = StoredAddresses(texts)
          /\ prior = {texts[k] : k \in 1..Len(texts)}
    /\ v = <<>>
    /\ holder = None
    /\ pc = [c \in Caller |-> "idle"]
    /\ found = [c \in Caller |-> None]
    /\ ret = [c \in Caller |-> "none"]
    /\ finished = FALSE

\* Faulty Run: takes no lock.
LockIgnored(c) ==
    /\ pc[c] = "idle"
    /\ pc' = [pc EXCEPT ![c] = "locked"]
    /\ UNCHANGED <<input, addrs, v, holder, found, ret, finished, prior>>

\* r.l.Lock()
Lock(c) ==
    /\ pc[c] = "idle" /\ holder = None
    /\ holder' = c
    /\ pc' = [pc EXCEPT ![c] = "locked"]
    /\ UNCHANGED <<input, addrs, v, found, ret, finished, prior>>

\* Run returns (and the deferred Unlock releases r.l).
Return(c, r) ==
    /\ pc' = [pc EXCEPT ![c] = "done"]
    /\ ret' = [ret EXCEPT ![c] = r]
    /\ holder' = None

\* Faulty Run: appends a new record even for an address the identity has.
DecideNewRecord(c) ==
    /\ pc[c] = "locked"
    /\ LET in == input[c]
           address == NewRecoveryEmailAddress(in.text)
       IN CASE in.via = "email" /\ in.valid ->
                 /\ found' = [found EXCEPT ![c] = IF has(v, address) = None THEN address ELSE None]
                 /\ pc' = [pc EXCEPT ![c] = "append"]
                 /\ UNCHANGED <<holder, ret>>
            [] in.via = "" -> Return(c, "nil") /\ UNCHANGED found
            [] OTHER -> Return(c, "error") /\ UNCHANGED found
    /\ UNCHANGED <<input, addrs, v, finished, prior>>

\* The two lookups of Run for an email input: the identity's own record if
\* it has one, else the new address; None when r.v already holds it.
FoundFor(in, stored, buf) ==
    LET address == NewRecoveryEmailAddress(in.text)
        existing == has(stored, address)
    IN IF existing # None
       THEN IF has(buf, address) = None THEN existing ELSE None
       ELSE IF has(buf, address) = None THEN address ELSE None

\* The body of Run up to the append: the via switch, the format check, and
\* the two lookups deciding what, if anything, to append.
Decide(c) ==
    /\ pc[c] = "locked"
    /\ LET in == input[c]
       IN CASE in.via = "email" /\ in.valid ->
                 /\ found' = [found EXCEPT ![c] = FoundFor(in, addrs, v)]
                 /\ pc' = [pc EXCEPT ![c] = "append"]
                 /\ UNCHANGED <<holder, ret>>
            [] in.via = "" ->
                 /\ Return(c, "nil")
                 /\ UNCHANGED found
            [] OTHER ->
                 /\ Return(c, "error")
                 /\ UNCHANGED found
    /\ UNCHANGED <<input, addrs, v, finished, prior>>

\* r.v = append(r.v, ...) and return nil.
AppendAddress(c) ==
    /\ pc[c] = "append"
    /\ v' = IF found[c] # None THEN Append(v, found[c]) ELSE v
    /\ Return(c, "nil")
    /\ UNCHANGED <<input, addrs, found, finished, prior>>

\* Finish, called once the validation of every property succeeded.
Finish ==
    /\ ~finished
    /\ \A c \in Caller : ret[c] = "nil"
    /\ addrs' = v
    /\ finished' = TRUE
    /\ UNCHANGED <<input, v, holder, pc, found, ret, prior>>

\* The validation is over: Finish ran, or some property failed.
Terminating ==
    /\ \A c \in Caller : pc[c] = "done"
    /\ finished \/ \E c \in Caller : ret[c] = "error"
    /\ UNCHANGED vars

Next ==
    \/ \E c \in Caller : Lock(c) \/ Decide(c) \/ AppendAddress(c)
    \/ Finish
    \/ Terminating

Spec == Init /\ [][Next]_vars

-----------------------------------------------------------------------------

TypeOK ==
    /\ input \in [Caller -> Input]
    /\ addrs \in Seq(Address)
    /\ v \in Seq(Address)
    /\ holder \in Caller \cup {None}
    /\ pc \in [Caller -> {"idle", "locked", "append", "done"}]
    /\ found \in [Caller -> Address \cup {None}]
    /\ ret \in [Caller -> {"none", "nil", "error"}]
    /\ finished \in BOOLEAN
    /\ prior \subseteq Text

\* The buffer, and the identity's addresses once Finish ran, never hold two
\* addresses with the same (via, value), however the goroutines calling Run
\* interleave (spec 3: deduplicated by (via, value)).
NoDuplicateAddresses ==
    \A seq \in {v, addrs} :
        \A j, k \in 1..Len(seq) : j < k => ~(seq[j].value = seq[k].value /\ seq[j].via = seq[k].via)

\* After Finish, an address the identity already had is its persisted record
\* and any other address is a new one: re-validating reuses the prior record
\* (spec 3), even when several properties carry the same address.
StoredRecordsReused ==
    finished => \A k \in 1..Len(addrs) : addrs[k].stored <=> addrs[k].value \in prior

\* After Finish the identity's recovery addresses are exactly the
\* addresses of the properties that carry an email recovery extension.
FinishReflectsInputs ==
    finished =>
        {addrs[k].value : k \in 1..Len(addrs)} =
            {input[c].text : c \in {c2 \in Caller : input[c2].via = "email"}}

-----------------------------------------------------------------------------
(* Refinement: under r.l, Run is atomic.  A caller's Run happens, in the   *)
(* abstract specification, at the step that returns: the append, or the    *)
(* return of Decide when nothing is to be appended.                        *)

\* A caller is done in the abstract spec once its Run returned.
absPc == [c \in Caller |-> IF pc[c] = "done" THEN "done" ELSE "idle"]

Atomic == INSTANCE RecoveryRun
            WITH pc <- absPc, Decision <- FoundFor,
                 InitialAddrs <- {StoredAddresses(t) : t \in DistinctTexts}

\* However the goroutines calling Run interleave, the buffer and the
\* identity's addresses change as if each Run were one indivisible step,
\* taken on the buffer as it is at that step: what r.l promises.
RunAtomic == Atomic!Spec

=============================================================================
