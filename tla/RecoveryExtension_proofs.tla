--------------------- MODULE RecoveryExtension_proofs ---------------------
(***************************************************************************)
(* Proofs about the recovery-address extension: the types, and that the    *)
(* buffer and the identity's addresses never hold a duplicate however the  *)
(* goroutines calling Run interleave.                                       *)
(***************************************************************************)
EXTENDS RecoveryExtension, WellFoundedInduction, TLAPS

\* The entries of a sequence of addresses that match a needle's (value, via).
Hits(haystack, needle) ==
    {k \in 1..Len(haystack) :
        haystack[k].value = needle.value /\ haystack[k].via = needle.via}

\* No two entries of s share (value, via).
Distinct(s) ==
    \A j, k \in 1..Len(s) : j < k => ~(s[j].value = s[k].value /\ s[j].via = s[k].via)

\* Only the goroutine holding r.l is between Lock and its return.
Mutex == \A c \in Caller : pc[c] \in {"locked", "append"} => holder = c

\* What a goroutine about to append decided under the lock is not in v yet.
FoundFresh ==
    \A c \in Caller : pc[c] = "append" /\ found[c] # None => Hits(v, found[c]) = {}

\* ... and it is what Run's lookups give on the buffer as it is now: nobody
\* else can append in between.
FoundCurrent ==
    \A c \in Caller : pc[c] = "append" =>
        /\ input[c].via = "email" /\ input[c].valid
        /\ found[c] = FoundFor(input[c], addrs, v)

\* A caller has a return value only once Run returned.
RetDone == \A c \in Caller : ret[c] # "none" => pc[c] = "done"

Inv ==
    /\ TypeOK /\ Mutex /\ FoundFresh /\ FoundCurrent /\ RetDone
    /\ Distinct(v) /\ Distinct(addrs)

-----------------------------------------------------------------------------

\* has finds nothing exactly when no entry matches; otherwise it returns an
\* address of the haystack with the needle's value and via (the first one:
\* the least matching index exists because < is well founded on Nat).
LEMMA HasSpec ==
    ASSUME NEW h \in Seq(Address), NEW n
    PROVE  /\ Hits(h, n) = {} => has(h, n) = None
           /\ Hits(h, n) # {} => /\ has(h, n) \in Address
                                 /\ has(h, n).value = n.value
                                 /\ has(h, n).via = n.via
                                 /\ \E k \in 1..Len(h) : has(h, n) = h[k]
<1> DEFINE H == Hits(h, n)
<1>1. H = {} => has(h, n) = None
  BY DEF has, Hits
<1>2. ASSUME H # {}
      PROVE  /\ has(h, n) \in Address
             /\ has(h, n).value = n.value
             /\ has(h, n).via = n.via
             /\ \E k \in 1..Len(h) : has(h, n) = h[k]
  <2>1. H \subseteq Nat
    BY DEF Hits
  <2>2. \E x \in H : \A y \in H : ~(<<y, x>> \in OpToRel(<, Nat))
    BY <1>2, <2>1, NatLessThanWellFounded, WFMin
  <2>3. PICK x \in H : \A y \in H : ~(<<y, x>> \in OpToRel(<, Nat))
    BY <2>2
  <2>4. \A y \in H : x <= y
    <3> TAKE y \in H
    <3>1. y \in Nat /\ x \in Nat
      BY <2>1
    <3>2. <<y, x>> \in Nat \X Nat
      BY <3>1
    <3>3. ~(y < x)
      BY <2>3, <3>2 DEF OpToRel
    <3>4. QED
      BY <3>1, <3>3
  <2> DEFINE m == CHOOSE k \in H : \A j \in H : k <= j
  <2>5. m \in H
    BY <2>4
  <2>6. has(h, n) = h[m] /\ m \in 1..Len(h)
    BY <1>2, <2>5 DEF has, Hits
  <2>7. h[m] \in Address
    BY <2>6
  <2>8. h[m].value = n.value /\ h[m].via = n.via
    BY <2>5 DEF Hits
  <2>9. QED
    BY <2>6, <2>7, <2>8
<1>3. QED
  BY <1>1, <1>2

\* The addresses an identity is loaded with are distinct email addresses.
LEMMA StoredAddressesOK ==
    ASSUME NEW texts \in DistinctTexts
    PROVE  /\ texts \in Seq(Text)
           /\ StoredAddresses(texts) \in Seq(Address)
           /\ Distinct(StoredAddresses(texts))
           /\ {texts[k] : k \in 1..Len(texts)} \subseteq Text
<1>1. /\ texts \in Seq(Text)
      /\ \A j, k \in 1..Len(texts) : j # k => texts[j] # texts[k]
  <2>1. CASE texts = <<>>
    BY <2>1
  <2>2. CASE \E t \in Text : texts = <<t>>
    BY <2>2
  <2>3. CASE texts \in {p \in Text \X Text : p[1] # p[2]}
    <3>1. PICK a \in Text, b \in Text : texts = <<a, b>> /\ a # b
      BY <2>3
    <3>2. QED
      BY <3>1
  <2>4. QED
    BY <2>1, <2>2, <2>3 DEF DistinctTexts
<1>2. QED
  BY <1>1 DEF StoredAddresses, Distinct, Address

\* Appending an address that matches no entry keeps a sequence distinct.
LEMMA AppendDistinct ==
    ASSUME NEW s \in Seq(Address), NEW e \in Address,
           Distinct(s), Hits(s, e) = {}
    PROVE  /\ Append(s, e) \in Seq(Address)
           /\ Distinct(Append(s, e))
<1>1. Append(s, e) \in Seq(Address)
  OBVIOUS
<1>2. ASSUME NEW j \in 1..Len(Append(s, e)), NEW k \in 1..Len(Append(s, e)), j < k
      PROVE  ~(Append(s, e)[j].value = Append(s, e)[k].value
               /\ Append(s, e)[j].via = Append(s, e)[k].via)
  <2>1. CASE k = Len(s) + 1
    <3>1. j \in 1..Len(s) /\ Append(s, e)[j] = s[j] /\ Append(s, e)[k] = e
      BY <1>2, <2>1
    <3>2. ~(s[j].value = e.value /\ s[j].via = e.via)
      BY <3>1 DEF Hits
    <3>3. QED
      BY <3>1, <3>2
  <2>2. CASE k # Len(s) + 1
    <3>1. j \in 1..Len(s) /\ k \in 1..Len(s)
          /\ Append(s, e)[j] = s[j] /\ Append(s, e)[k] = s[k]
      BY <1>2, <2>2
    <3>2. QED
      BY <3>1, <1>2 DEF Distinct
  <2>3. QED
    BY <2>1, <2>2
<1>3. QED
  BY <1>1, <1>2 DEF Distinct

-----------------------------------------------------------------------------

\* The loaded identity and the idle goroutines satisfy the invariant.
LEMMA InitInv == Init => Inv
<1> SUFFICES ASSUME Init PROVE Inv
  OBVIOUS
<1>1. PICK texts \in DistinctTexts :
          /\ addrs = StoredAddresses(texts)
          /\ prior = {texts[k] : k \in 1..Len(texts)}
  BY DEF Init
<1>2. /\ addrs \in Seq(Address) /\ Distinct(addrs) /\ prior \subseteq Text
  BY <1>1, StoredAddressesOK
<1>3. TypeOK
  <2>1. v \in Seq(Address) /\ found \in [Caller -> Address \cup {None}]
    BY DEF Init
  <2>2. /\ input \in [Caller -> Input] /\ holder \in Caller \cup {None}
        /\ pc \in [Caller -> {"idle", "locked", "append", "done"}]
        /\ ret \in [Caller -> {"none", "nil", "error"}] /\ finished \in BOOLEAN
    BY DEF Init
  <2>3. QED
    BY <1>2, <2>1, <2>2 DEF TypeOK
<1>4. Mutex /\ FoundFresh /\ FoundCurrent /\ RetDone /\ Distinct(v)
  BY DEF Init, Mutex, FoundFresh, FoundCurrent, RetDone, Distinct
<1>5. QED
  BY <1>2, <1>3, <1>4 DEF Inv

\* Lock: r.l was free, so no goroutine was past Lock; c now holds it.
LEMMA LockInv ==
    ASSUME Inv, NEW c \in Caller, Lock(c)
    PROVE  Inv'
<1>1. \A d \in Caller : pc[d] \notin {"locked", "append"}
  BY RecoveryAssumption DEF Inv, Mutex, Lock
<1>2. TypeOK'
  BY DEF Inv, TypeOK, Lock
<1>3. Mutex'
  BY <1>1 DEF Inv, TypeOK, Mutex, Lock
<1>4. FoundFresh'
  BY <1>1 DEF Inv, TypeOK, FoundFresh, Lock
<1>5. FoundCurrent' /\ RetDone'
  BY <1>1 DEF Inv, TypeOK, FoundCurrent, RetDone, Lock
<1>6. QED
  BY <1>2, <1>3, <1>4, <1>5 DEF Inv, Lock, Distinct

\* AppendAddress: what c found is fresh in v, and c was the only goroutine
\* about to append.
LEMMA AppendInv ==
    ASSUME Inv, NEW c \in Caller, AppendAddress(c)
    PROVE  Inv'
<1>1. holder = c /\ \A d \in Caller : d # c => pc[d] # "append"
  BY DEF Inv, Mutex, AppendAddress
<1>2. v' \in Seq(Address) /\ Distinct(v')
  <2>1. CASE found[c] # None
    <3>1. found[c] \in Address /\ Hits(v, found[c]) = {}
      BY <2>1 DEF Inv, TypeOK, FoundFresh, AppendAddress
    <3>2. QED
      BY <2>1, <3>1, AppendDistinct DEF Inv, TypeOK, AppendAddress
  <2>2. CASE found[c] = None
    BY <2>2 DEF Inv, TypeOK, AppendAddress
  <2>3. QED
    BY <2>1, <2>2
<1>3. TypeOK'
  BY <1>2 DEF Inv, TypeOK, AppendAddress, Return
<1>4. Mutex'
  BY DEF Inv, TypeOK, Mutex, AppendAddress, Return
<1>5. FoundFresh'
  BY <1>1 DEF Inv, TypeOK, FoundFresh, AppendAddress, Return
<1>6. FoundCurrent' /\ RetDone'
  BY <1>1 DEF Inv, TypeOK, FoundCurrent, RetDone, AppendAddress, Return
<1>7. QED
  BY <1>2, <1>3, <1>4, <1>5, <1>6 DEF Inv, AppendAddress

\* Finish: the identity's addresses become the buffer.
LEMMA FinishInv ==
    ASSUME Inv, Finish
    PROVE  Inv'
<1>1. \A c \in Caller : pc[c] = "done"
  BY DEF Inv, RetDone, Finish
<1>2. QED
  BY <1>1 DEF Inv, TypeOK, Mutex, FoundFresh, FoundCurrent, RetDone, Finish

\* A stuttering step keeps the invariant.
LEMMA StutterInv ==
    ASSUME Inv, UNCHANGED vars
    PROVE  Inv'
BY DEF Inv, TypeOK, Mutex, FoundFresh, FoundCurrent, RetDone, Distinct, Hits, vars

\* Decide: c holds r.l.  For an email address it decides, from the two
\* lookups, on an address fresh in v (or nothing); otherwise it returns and
\* releases r.l.
LEMMA DecideInv ==
    ASSUME Inv, NEW c \in Caller, Decide(c)
    PROVE  Inv'
<1> DEFINE in == input[c]
           address == NewRecoveryEmailAddress(in.text)
           existing == has(addrs, address)
           F == FoundFor(in, addrs, v)
<1>1. holder = c /\ \A d \in Caller : d # c => pc[d] \notin {"locked", "append"}
  BY DEF Inv, Mutex, Decide
<1>2. address \in Address
  BY DEF Inv, TypeOK, Input, Address, NewRecoveryEmailAddress
<1>3. UNCHANGED <<input, addrs, v, finished, prior>>
  BY DEF Decide
<1>4. pc[c] = "locked" /\ ret[c] = "none"
  BY DEF Decide, Inv, RetDone
<1>5. CASE in.via = "email" /\ in.valid
  <2>1. /\ found' = [found EXCEPT ![c] = F]
        /\ pc' = [pc EXCEPT ![c] = "append"]
        /\ UNCHANGED <<holder, ret>>
    BY <1>5 DEF Decide
  <2>2. F \in Address \cup {None} /\ (F # None => Hits(v, F) = {})
    <3>1. has(v, address) = None => Hits(v, address) = {}
      BY HasSpec, <1>2, RecoveryAssumption DEF Inv, TypeOK
    <3>2. existing # None => existing \in Address
      BY HasSpec, RecoveryAssumption DEF Inv, TypeOK
    <3>3. existing # None => Hits(v, existing) = Hits(v, address)
      <4>1. existing # None => existing.value = address.value /\ existing.via = address.via
        BY HasSpec, RecoveryAssumption DEF Inv, TypeOK
      <4>2. QED
        BY <4>1 DEF Hits
    <3>4. QED
      BY <1>2, <3>1, <3>2, <3>3 DEF FoundFor
  <2>3. TypeOK'
    BY <1>3, <2>1, <2>2 DEF Inv, TypeOK
  <2>4. Mutex'
    BY <1>1, <2>1 DEF Inv, TypeOK, Mutex
  <2>5. FoundFresh'
    BY <1>1, <1>3, <2>1, <2>2 DEF Inv, TypeOK, FoundFresh
  <2>6. FoundCurrent'
    BY <1>1, <1>3, <1>5, <2>1 DEF Inv, TypeOK, FoundCurrent
  <2>7. RetDone'
    BY <1>4, <2>1 DEF Inv, TypeOK, RetDone
  <2>8. QED
    BY <1>3, <2>3, <2>4, <2>5, <2>6, <2>7 DEF Inv
<1>6. CASE ~(in.via = "email" /\ in.valid)
  <2>1. \E r \in {"nil", "error"} : Return(c, r) /\ UNCHANGED found
    BY <1>6 DEF Decide
  <2>2. /\ pc' = [pc EXCEPT ![c] = "done"] /\ holder' = None /\ UNCHANGED found
        /\ \E r \in {"nil", "error"} : ret' = [ret EXCEPT ![c] = r]
    BY <2>1 DEF Return
  <2>3. TypeOK'
    BY <1>3, <2>2, RecoveryAssumption DEF Inv, TypeOK
  <2>4. Mutex' /\ FoundFresh'
    BY <1>1, <1>3, <2>2 DEF Inv, TypeOK, Mutex, FoundFresh
  <2>5. FoundCurrent' /\ RetDone'
    BY <1>1, <1>3, <2>2 DEF Inv, TypeOK, FoundCurrent, RetDone
  <2>6. QED
    BY <1>3, <2>3, <2>4, <2>5 DEF Inv
<1>7. QED
  BY <1>5, <1>6

\* Every step of the goroutines and of Finish keeps the invariant.
LEMMA NextInv == Inv /\ [Next]_vars => Inv'
<1> SUFFICES ASSUME Inv, [Next]_vars PROVE Inv'
  OBVIOUS
<1>1. CASE \E c \in Caller : Lock(c)
  BY <1>1, LockInv
<1>2. CASE \E c \in Caller : Decide(c)
  BY <1>2, DecideInv
<1>3. CASE \E c \in Caller : AppendAddress(c)
  BY <1>3, AppendInv
<1>4. CASE Finish
  BY <1>4, FinishInv
<1>5. CASE Terminating \/ UNCHANGED vars
  BY <1>5, StutterInv DEF Terminating
<1>6. QED
  BY <1>1, <1>2, <1>3, <1>4, <1>5 DEF Next

\* The invariant implies the run's property for both sequences.
LEMMA InvNoDuplicates == Inv => NoDuplicateAddresses
BY DEF Inv, Distinct, NoDuplicateAddresses

\* However the goroutines calling Run interleave, and for any number of
\* them and any address texts, neither the buffer r.v nor the identity's
\* RecoveryAddresses after Finish ever holds two addresses with the same
\* (via, value); nor does any state leave the types.
THEOREM NoDuplicatesStayOut == Spec => [](TypeOK /\ NoDuplicateAddresses)
<1>1. Inv => TypeOK /\ NoDuplicateAddresses
  BY InvNoDuplicates DEF Inv
<1>2. QED
  BY <1>1, InitInv, NextInv, PTL DEF Spec

-----------------------------------------------------------------------------
(* Refinement: the goroutines under r.l implement the atomic Run.           *)

\* The loaded identity is an initial state of the atomic spec.
LEMMA InitRefines == Init => Atomic!Init
<1> SUFFICES ASSUME Init PROVE Atomic!Init
  OBVIOUS
<1>1. absPc = [c \in Caller |-> "idle"]
  BY DEF Init, absPc
<1>2. addrs \in {StoredAddresses(t) : t \in DistinctTexts}
  BY DEF Init
<1>3. QED
  BY <1>1, <1>2 DEF Init, Atomic!Init

\* A caller moving between steps that are not "done" leaves absPc alone.
LEMMA AbsPcStutters ==
    ASSUME TypeOK, NEW c \in Caller, pc[c] # "done",
           NEW x, x # "done", pc' = [pc EXCEPT ![c] = x]
    PROVE  absPc' = absPc
BY DEF TypeOK, absPc

\* A caller whose Run returns is done in the abstract spec too.
LEMMA AbsPcReturns ==
    ASSUME TypeOK, NEW c \in Caller, pc[c] # "done",
           pc' = [pc EXCEPT ![c] = "done"]
    PROVE  /\ absPc[c] = "idle"
           /\ absPc' = [absPc EXCEPT ![c] = "done"]
BY DEF TypeOK, absPc

\* Lock, and Decide when it has an address to append, are invisible to the
\* atomic spec; Decide when it returns, and AppendAddress, are that
\* caller's Run; Finish is Finish.
LEMMA NextRefines == Inv /\ [Next]_vars => [Atomic!Next]_Atomic!vars
<1> SUFFICES ASSUME Inv, [Next]_vars PROVE [Atomic!Next]_Atomic!vars
  OBVIOUS
<1>1. CASE \E c \in Caller : Lock(c)
  <2>1. PICK c \in Caller : Lock(c)
    BY <1>1
  <2>2. absPc' = absPc
    BY <2>1, AbsPcStutters DEF Inv, Lock
  <2>3. QED
    BY <2>1, <2>2 DEF Lock, Atomic!vars
<1>2. CASE \E c \in Caller : Decide(c)
  <2>1. PICK c \in Caller : Decide(c)
    BY <1>2
  <2>2. pc[c] = "locked" /\ UNCHANGED <<input, addrs, v, finished>>
    BY <2>1 DEF Decide
  <2>3. CASE input[c].via = "email" /\ input[c].valid
    <3>1. pc' = [pc EXCEPT ![c] = "append"] /\ UNCHANGED ret
      BY <2>1, <2>3 DEF Decide
    <3>2. absPc' = absPc
      BY <2>2, <3>1, AbsPcStutters DEF Inv
    <3>3. QED
      BY <2>2, <3>1, <3>2 DEF Atomic!vars
  <2>4. CASE ~(input[c].via = "email" /\ input[c].valid)
    <3>1. /\ pc' = [pc EXCEPT ![c] = "done"]
          /\ ret' = [ret EXCEPT ![c] = IF input[c].via = "" THEN "nil" ELSE "error"]
      BY <2>1, <2>4 DEF Decide, Return
    <3>2. absPc[c] = "idle" /\ absPc' = [absPc EXCEPT ![c] = "done"]
      BY <2>2, <3>1, AbsPcReturns DEF Inv
    <3>3. Atomic!Run(c)
      BY <2>2, <2>4, <3>1, <3>2 DEF Atomic!Run
    <3>4. QED
      BY <3>3 DEF Atomic!Next
  <2>5. QED
    BY <2>3, <2>4
<1>3. CASE \E c \in Caller : AppendAddress(c)
  <2>1. PICK c \in Caller : AppendAddress(c)
    BY <1>3
  <2>2. /\ pc[c] = "append" /\ pc' = [pc EXCEPT ![c] = "done"]
        /\ ret' = [ret EXCEPT ![c] = "nil"]
        /\ UNCHANGED <<input, addrs, finished>>
    BY <2>1 DEF AppendAddress, Return
  <2>3. /\ input[c].via = "email" /\ input[c].valid
        /\ found[c] = FoundFor(input[c], addrs, v)
    BY <2>2 DEF Inv, FoundCurrent
  <2>4. v' = Atomic!Appended(v, FoundFor(input[c], addrs, v))
    BY <2>1, <2>3 DEF AppendAddress, Atomic!Appended
  <2>5. absPc[c] = "idle" /\ absPc' = [absPc EXCEPT ![c] = "done"]
    BY <2>2, AbsPcReturns DEF Inv
  <2>6. Atomic!Run(c)
    BY <2>2, <2>3, <2>4, <2>5 DEF Atomic!Run
  <2>7. QED
    BY <2>6 DEF Atomic!Next
<1>4. CASE Finish
  <2>1. absPc' = absPc
    BY <1>4 DEF Finish, absPc
  <2>2. Atomic!Finish
    BY <1>4, <2>1 DEF Finish, Atomic!Finish
  <2>3. QED
    BY <2>2 DEF Atomic!Next
<1>5. CASE Terminating \/ UNCHANGED vars
  <2>1. UNCHANGED vars
    BY <1>5 DEF Terminating
  <2>2. QED
    BY <2>1 DEF vars, absPc, Atomic!vars
<1>6. QED
  BY <1>1, <1>2, <1>3, <1>4, <1>5 DEF Next

\* However the goroutines calling Run interleave, for any callers and
\* texts, the buffer and the identity's addresses change only as the atomic
\* specification allows: each Run is one step on the buffer as it is at
\* that step, which is what holding r.l across Run promises.
THEOREM RunIsAtomic == Spec => RunAtomic
<1>1. Spec => []Inv
  BY InitInv, NextInv, PTL DEF Spec
<1>2. QED
  BY <1>1, InitRefines, NextRefines, PTL DEF Spec, RunAtomic, Atomic!Spec

-----------------------------------------------------------------------------
(* What Finish installs: the addresses of the email properties, each the   *)
(* identity's own record when it had one for that text and a new one        *)
(* otherwise.  The buffer is built for that from the first Run on, and the *)
(* identity's addresses stay as loaded until Finish.                        *)

\* The values of a sequence of addresses.
Vals(s) == {s[k].value : k \in 1..Len(s)}

\* An entry is a persisted record exactly when the identity had its text.
StoredOK(s) == \A k \in 1..Len(s) : s[k].stored <=> s[k].value \in prior

\* The texts of the email properties whose Run has returned.
EmailDone ==
    {input[c].text : c \in {d \in Caller : pc[d] = "done" /\ input[d].via = "email"
                                            /\ input[d].valid}}

\* Run returns nil for an email property only when its value is an email.
NilValid == \A c \in Caller : ret[c] = "nil" /\ input[c].via = "email" => input[c].valid

\* Until Finish the identity holds the records it was loaded with.
Loaded == ~finished => StoredOK(addrs) /\ Vals(addrs) = prior

\* After Finish the identity holds the buffer, and every Run returned nil.
Installed == finished => addrs = v /\ \A c \in Caller : pc[c] = "done" /\ ret[c] = "nil"

Inv2 == StoredOK(v) /\ Vals(v) = EmailDone /\ NilValid /\ Loaded /\ Installed

\* Appending adds the appended address's value.
LEMMA ValsAppend ==
    ASSUME NEW s \in Seq(Address), NEW e \in Address
    PROVE  Vals(Append(s, e)) = Vals(s) \cup {e.value}
BY DEF Vals

\* Appending an entry that is a record exactly when its text is prior.
LEMMA StoredOKAppend ==
    ASSUME NEW s \in Seq(Address), NEW e \in Address, StoredOK(s),
           e.stored <=> e.value \in prior
    PROVE  StoredOK(Append(s, e))
BY DEF StoredOK

\* The loaded identity: its records are exactly the prior texts.
LEMMA InitInv2 == Init => Inv2
<1> SUFFICES ASSUME Init PROVE Inv2
  OBVIOUS
<1>1. PICK texts \in DistinctTexts :
          /\ addrs = StoredAddresses(texts)
          /\ prior = {texts[k] : k \in 1..Len(texts)}
  BY DEF Init
<1>2. texts \in Seq(Text)
  BY <1>1, StoredAddressesOK
<1>3. StoredOK(addrs) /\ Vals(addrs) = prior
  BY <1>1, <1>2 DEF StoredAddresses, StoredOK, Vals
<1>4. EmailDone = {}
  BY DEF Init, EmailDone
<1>5. StoredOK(v) /\ Vals(v) = EmailDone
  BY <1>4 DEF Init, StoredOK, Vals
<1>6. NilValid
  BY DEF Init, NilValid
<1>7. QED
  BY <1>3, <1>5, <1>6 DEF Init, Inv2, Loaded, Installed

\* A step of a caller that was not done, and is not an email property done
\* now, leaves EmailDone alone.
LEMMA EmailDoneKept ==
    ASSUME TypeOK, NEW c \in Caller, pc[c] # "done", NEW x,
           pc' = [pc EXCEPT ![c] = x], input' = input,
           x = "done" => ~(input[c].via = "email" /\ input[c].valid)
    PROVE  EmailDone' = EmailDone
BY DEF TypeOK, EmailDone

\* The address c appends: its value is c's text, and it is a persisted
\* record exactly when the identity had that text; when there is none to
\* append, the text is in the buffer already.
LEMMA FoundForSpec ==
    ASSUME Inv, Inv2, ~finished, NEW c \in Caller,
           input[c].via = "email", NEW f, f = FoundFor(input[c], addrs, v)
    PROVE  /\ f # None => /\ f \in Address /\ f.value = input[c].text
                          /\ (f.stored <=> f.value \in prior)
           /\ f = None => input[c].text \in Vals(v)
<1> DEFINE address == NewRecoveryEmailAddress(input[c].text)
           existing == has(addrs, address)
<1>1. address \in Address /\ addrs \in Seq(Address) /\ v \in Seq(Address)
  BY DEF Inv, TypeOK, Input, Address, NewRecoveryEmailAddress
<1>2. StoredOK(addrs) /\ Vals(addrs) = prior
  BY DEF Inv2, Loaded
<1>3. CASE existing # None
  <2>1. Hits(addrs, address) # {}
    BY <1>1, <1>3, HasSpec
  <2>2. PICK k \in 1..Len(addrs) : existing = addrs[k]
    BY <1>1, <2>1, HasSpec
  <2>3. existing \in Address /\ existing.value = input[c].text
    BY <1>1, <2>1, HasSpec DEF NewRecoveryEmailAddress
  <2>4. existing.stored <=> existing.value \in prior
    BY <1>2, <2>2 DEF StoredOK
  <2>5. f # None => f = existing
    BY <1>3 DEF FoundFor
  <2>6. f = None => Hits(v, address) # {}
    BY <1>1, <1>3, HasSpec, RecoveryAssumption DEF FoundFor
  <2>7. QED
    BY <2>3, <2>4, <2>5, <2>6 DEF Hits, Vals, NewRecoveryEmailAddress
<1>4. CASE existing = None
  <2>1. Hits(addrs, address) = {}
    BY <1>1, <1>4, HasSpec, RecoveryAssumption
  <2>2. input[c].text \notin prior
    \* every stored address is an email address, so a prior text is a hit.
    <3>1. SUFFICES ASSUME input[c].text \in prior PROVE FALSE
      OBVIOUS
    <3>2. PICK k \in 1..Len(addrs) : addrs[k].value = input[c].text
      BY <1>2, <3>1 DEF Vals
    <3>3. addrs[k].via = "email"
      <4>1. addrs[k] \in Address
        BY <1>1, <3>2
      <4>2. QED
        BY <4>1, Zenon DEF Address
    <3>4. k \in Hits(addrs, address)
      BY <3>2, <3>3 DEF Hits, NewRecoveryEmailAddress
    <3>5. QED
      BY <2>1, <3>4
  <2>3. f # None => f = address
    BY <1>4 DEF FoundFor
  <2>4. f = None => Hits(v, address) # {}
    BY <1>1, <1>4, HasSpec, RecoveryAssumption DEF FoundFor
  <2>5. QED
    BY <1>1, <2>2, <2>3, <2>4 DEF Hits, Vals, NewRecoveryEmailAddress
<1>5. QED
  BY <1>3, <1>4

\* AppendAddress: the buffer gains c's text, as EmailDone does, and what is
\* appended is a record exactly when the text is prior.
LEMMA AppendInv2 ==
    ASSUME Inv, Inv2, NEW c \in Caller, AppendAddress(c)
    PROVE  Inv2'
<1>1. pc[c] = "append" /\ ~finished
  BY DEF AppendAddress, Inv2, Installed
<1>2. input[c].via = "email" /\ input[c].valid /\ found[c] = FoundFor(input[c], addrs, v)
  BY <1>1 DEF Inv, FoundCurrent
<1>3. v \in Seq(Address) /\ TypeOK
  BY DEF Inv, TypeOK
<1>4. Vals(v') = Vals(v) \cup {input[c].text} /\ StoredOK(v')
  <2>1. CASE found[c] # None
    <3>1. found[c] \in Address /\ found[c].value = input[c].text
          /\ (found[c].stored <=> found[c].value \in prior)
      BY <1>1, <1>2, <2>1, FoundForSpec
    <3>2. v' = Append(v, found[c])
      BY <2>1 DEF AppendAddress
    <3>3. QED
      BY <1>3, <3>1, <3>2, ValsAppend, StoredOKAppend DEF Inv2, AppendAddress
  <2>2. CASE found[c] = None
    <3>1. input[c].text \in Vals(v)
      BY <1>1, <1>2, <2>2, FoundForSpec
    <3>2. QED
      BY <2>2, <3>1 DEF Inv2, AppendAddress
  <2>3. QED
    BY <2>1, <2>2
<1>5. EmailDone' = EmailDone \cup {input[c].text}
  <2> DEFINE D(p) == {d \in Caller : p[d] = "done" /\ input[d].via = "email" /\ input[d].valid}
  <2>1. pc' = [pc EXCEPT ![c] = "done"] /\ input' = input
    BY DEF AppendAddress, Return
  <2>2. D(pc') = D(pc) \cup {c}
    BY <1>1, <1>2, <1>3, <2>1 DEF TypeOK
  <2>3. EmailDone' = {input[d].text : d \in D(pc')}
    BY <2>1 DEF EmailDone
  <2>4. {input[d].text : d \in D(pc) \cup {c}} = EmailDone \cup {input[c].text}
    BY DEF EmailDone
  <2>5. QED
    BY <2>2, <2>3, <2>4
<1>6. NilValid'
  BY <1>2, <1>3 DEF Inv2, NilValid, AppendAddress, Return
<1>7. QED
  BY <1>1, <1>4, <1>5, <1>6 DEF Inv2, Loaded, Installed, AppendAddress, StoredOK

\* Every step keeps Inv2, given Inv.
LEMMA NextInv2 == Inv /\ Inv2 /\ [Next]_vars => Inv2'
<1> SUFFICES ASSUME Inv, Inv2, [Next]_vars PROVE Inv2'
  OBVIOUS
<1>1. CASE \E c \in Caller : Lock(c)
  <2>1. PICK c \in Caller : Lock(c)
    BY <1>1
  <2>2. EmailDone' = EmailDone
    BY <2>1, EmailDoneKept DEF Inv, Lock
  <2>3. QED
    BY <2>1, <2>2 DEF Lock, Inv2, StoredOK, Vals, NilValid, Loaded, Installed
<1>2. CASE \E c \in Caller : Decide(c)
  <2>1. PICK c \in Caller : Decide(c)
    BY <1>2
  <2>2. pc[c] = "locked" /\ ~finished /\ UNCHANGED <<input, addrs, v, finished, prior>>
    BY <2>1 DEF Decide, Inv2, Installed
  <2>3. CASE input[c].via = "email" /\ input[c].valid
    <3>1. pc' = [pc EXCEPT ![c] = "append"] /\ UNCHANGED ret
      BY <2>1, <2>3 DEF Decide
    <3>2. EmailDone' = EmailDone
      BY <2>2, <3>1, EmailDoneKept DEF Inv
    <3>3. QED
      BY <2>2, <3>1, <3>2 DEF Inv2, StoredOK, Vals, NilValid, Loaded, Installed
  <2>4. CASE ~(input[c].via = "email" /\ input[c].valid)
    <3>1. /\ pc' = [pc EXCEPT ![c] = "done"]
          /\ ret' = [ret EXCEPT ![c] = IF input[c].via = "" THEN "nil" ELSE "error"]
      BY <2>1, <2>4 DEF Decide, Return
    <3>2. EmailDone' = EmailDone
      BY <2>2, <2>4, <3>1, EmailDoneKept DEF Inv
    <3>3. NilValid'
      BY <2>2, <3>1 DEF Inv, TypeOK, Inv2, NilValid
    <3>4. QED
      BY <2>2, <3>2, <3>3 DEF Inv2, StoredOK, Vals, Loaded, Installed
  <2>5. QED
    BY <2>3, <2>4
<1>3. CASE \E c \in Caller : AppendAddress(c)
  BY <1>3, AppendInv2
<1>4. CASE Finish
  <2>1. \A c \in Caller : pc[c] = "done" /\ ret[c] = "nil"
    BY <1>4 DEF Finish, Inv, RetDone
  <2>2. EmailDone' = EmailDone
    BY <1>4 DEF Finish, EmailDone
  <2>3. QED
    BY <1>4, <2>1, <2>2 DEF Finish, Inv2, StoredOK, Vals, NilValid, Loaded, Installed
<1>5. CASE Terminating \/ UNCHANGED vars
  <2>1. UNCHANGED vars
    BY <1>5 DEF Terminating
  <2>2. EmailDone' = EmailDone
    BY <2>1 DEF vars, EmailDone
  <2>3. QED
    BY <2>1, <2>2 DEF vars, Inv2, StoredOK, Vals, NilValid, Loaded, Installed
<1>6. QED
  BY <1>1, <1>2, <1>3, <1>4, <1>5 DEF Next

\* Inv2 gives both properties of the identity after Finish.
LEMMA Inv2Reused == Inv2 => StoredRecordsReused
BY DEF Inv2, Installed, StoredOK, StoredRecordsReused

LEMMA Inv2Reflects == Inv /\ Inv2 => FinishReflectsInputs
<1> SUFFICES ASSUME Inv, Inv2, finished
             PROVE  {addrs[k].value : k \in 1..Len(addrs)} =
                        {input[c].text : c \in {c2 \in Caller : input[c2].via = "email"}}
  BY DEF FinishReflectsInputs
<1>1. addrs = v /\ \A c \in Caller : pc[c] = "done" /\ ret[c] = "nil"
  BY DEF Inv2, Installed
<1>2. \A c \in Caller : input[c].via = "email" => input[c].valid
  BY <1>1 DEF Inv2, NilValid
<1>3. EmailDone = {input[c].text : c \in {c2 \in Caller : input[c2].via = "email"}}
  BY <1>1, <1>2 DEF EmailDone
<1>4. QED
  BY <1>1, <1>3 DEF Inv2, Vals

\* However the goroutines calling Run interleave, for any callers and
\* texts: after Finish, an address of the identity is its persisted record
\* (it keeps its id) exactly when the identity had that text before, so
\* re-validating an identity never replaces its records by new ones.
THEOREM RecordsReusedAfterFinish == Spec => []StoredRecordsReused
<1>1. Spec => [](Inv /\ Inv2)
  <2>1. Init => Inv /\ Inv2
    BY InitInv, InitInv2
  <2>2. Inv /\ Inv2 /\ [Next]_vars => (Inv /\ Inv2)'
    BY NextInv, NextInv2
  <2>3. QED
    BY <2>1, <2>2, PTL DEF Spec
<1>2. QED
  BY <1>1, Inv2Reused, PTL

\* However the goroutines interleave, for any callers and texts: after
\* Finish the identity's recovery addresses are exactly the texts of the
\* properties that carry an email recovery extension, one each.
THEOREM FinishInstallsInputs == Spec => []FinishReflectsInputs
<1>1. Spec => [](Inv /\ Inv2)
  BY InitInv, InitInv2, NextInv, NextInv2, PTL DEF Spec
<1>2. QED
  BY <1>1, Inv2Reflects, PTL

=====
