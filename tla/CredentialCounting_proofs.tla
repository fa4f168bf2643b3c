----------------------- MODULE CredentialCounting_proofs -----------------------
(***************************************************************************)
(* The credential counts of the password, lookup, totp and webauthn        *)
(* strategies agree with the counting table of spec 4.1, proved for every  *)
(* well-formed credential map: any hash format and TOTP URL, any number of *)
(* recovery codes and any list of webauthn passwordless flags, not only    *)
(* the values the TLC run enumerates.  The map is keyed by credentials     *)
(* type, so each strategy's loop sees at most one entry; the proofs unfold *)
(* the loop's sum (MapThenSumSet) and count (Cardinality) on the empty and *)
(* the one-element set.                                                    *)
(***************************************************************************)
EXTENDS CredentialCounting, FiniteSetTheorems, TLAPS

\* What the counting code relies on of identity.Credentials: each entry is
\* stored under its own type, with identifiers and a config blob, and the
\* parsed field has the Go type the strategy unmarshals it into.
WellFormed(cc) ==
    /\ DOMAIN cc \subseteq CredentialsType
    /\ \A k \in DOMAIN cc :
          /\ cc[k].type = k
          /\ cc[k].identifiers \in Identifiers
          /\ cc[k].blob \in Blob
          /\ k = "lookup" => cc[k].conf \in Nat
          /\ k = "webauthn" => cc[k].conf \in Seq(BOOLEAN)

-----------------------------------------------------------------------------
(* The loop's sum and count on at most one entry.                          *)

\* Summing over no credential gives 0.
LEMMA SumEmpty ==
    ASSUME NEW op(_)
    PROVE  MapThenSumSet(op, {}) = 0
<1> DEFINE body(f, s) ==
        IF s = {} THEN 0 ELSE LET y == CHOOSE z \in s : TRUE IN op(y) + f[s \ {y}]
<1>1. \E f : f = [s \in SUBSET {} |-> body(f, s)]
  <2> DEFINE g == [s \in SUBSET {} |-> 0]
  <2>1. SUBSET {} = {{}}
    OBVIOUS
  <2>2. g = [s \in SUBSET {} |-> body(g, s)]
    BY <2>1
  <2>3. QED
    BY <2>2
<1>2. QED
  BY <1>1 DEF MapThenSumSet, MapThenFoldSet

\* Summing the matching webauthn flags over one credential gives that
\* credential's number.
LEMMA SumSingleton ==
    ASSUME NEW cc, NEW p, NEW x, Matching(cc[x].conf, p) \in Int
    PROVE  MapThenSumSet(LAMBDA k : Matching(cc[k].conf, p), {x}) = Matching(cc[x].conf, p)
<1> DEFINE op(k) == Matching(cc[k].conf, p)
<1> DEFINE body(f, s) ==
        IF s = {} THEN 0 ELSE LET y == CHOOSE z \in s : TRUE IN op(y) + f[s \ {y}]
           iter == CHOOSE f : f = [s \in SUBSET {x} |-> body(f, s)]
<1>1. SUBSET {x} = {{}, {x}} /\ (CHOOSE z \in {x} : TRUE) = x /\ {x} \ {x} = {}
  OBVIOUS
<1>2. \E f : f = [s \in SUBSET {x} |-> body(f, s)]
  \* the witness: 0 on the empty set, op(x) on {x}.
  <2> DEFINE g == [s \in SUBSET {x} |-> IF s = {} THEN 0 ELSE op(x)]
  <2>1. g = [s \in SUBSET {x} |-> body(g, s)]
    BY <1>1
  <2>2. QED
    BY <2>1
<1>3. iter = [s \in SUBSET {x} |-> body(iter, s)]
  BY <1>2
<1>4. iter[{}] = 0
  <2>1. {} \in SUBSET {x}
    OBVIOUS
  <2>2. iter[{}] = body(iter, {})
    BY <1>3, <2>1
  <2>3. QED
    BY <2>2
<1>5. iter[{x}] = op(x) + iter[{}]
  <2>1. {x} \in SUBSET {x}
    OBVIOUS
  <2>2. iter[{x}] = body(iter, {x})
    BY <1>3, <2>1
  <2>3. body(iter, {x}) = op(x) + iter[{}]
    BY <1>1
  <2>4. QED
    BY <2>2, <2>3
<1>6. MapThenSumSet(op, {x}) = iter[{x}]
  BY DEF MapThenSumSet, MapThenFoldSet
<1>7. op(x) + 0 = op(x)
  OBVIOUS
<1>8. QED
  BY <1>4, <1>5, <1>6, <1>7, Zenon

\* The entries a strategy's loop visits: the one stored under its type,
\* unless it is missing or its config is blank.
LEMMA EntriesOne ==
    ASSUME NEW cc, WellFormed(cc), NEW t \in CredentialsType
    PROVE  Entries(cc, t) = IF t \in DOMAIN cc /\ cc[t].blob # "empty" THEN {t} ELSE {}
BY DEF Entries, WellFormed

\* Counting the accepted entries among at most one.
LEMMA CountOne ==
    ASSUME NEW t, NEW P
    PROVE  Cardinality(IF P THEN {t} ELSE {}) = IF P THEN 1 ELSE 0
BY FS_EmptySet, FS_Singleton

\* A strategy's loop over its entries: nothing to count without a non-blank
\* entry, an unmarshal failure is an error, otherwise 1 if the strategy's
\* condition accepts the entry and 0 if not.
LEMMA LoopAgrees ==
    ASSUME NEW cc, WellFormed(cc), NEW t \in CredentialsType,
           NEW accepted \in SUBSET Entries(cc, t)
    PROVE  CountEntries(cc, Entries(cc, t), accepted) =
              IF t \notin DOMAIN cc \/ cc[t].blob = "empty" THEN Result(0, FALSE)
              ELSE IF cc[t].blob = "garbled" THEN Result(0, TRUE)
              ELSE Result(IF t \in accepted THEN 1 ELSE 0, FALSE)
<1>1. CASE t \notin DOMAIN cc \/ cc[t].blob = "empty"
  <2>1. Entries(cc, t) = {}
    BY <1>1, EntriesOne
  <2>2. accepted = {} /\ Cardinality({}) = 0
    BY <2>1, FS_EmptySet
  <2>3. QED
    BY <1>1, <2>1, <2>2 DEF CountEntries
<1>2. CASE t \in DOMAIN cc /\ cc[t].blob = "garbled"
  <2>1. Entries(cc, t) = {t}
    BY <1>2, EntriesOne
  <2>2. QED
    BY <1>2, <2>1 DEF CountEntries
<1>3. CASE t \in DOMAIN cc /\ cc[t].blob \notin {"empty", "garbled"}
  <2>1. Entries(cc, t) = {t}
    BY <1>3, EntriesOne
  <2>2. accepted = IF t \in accepted THEN {t} ELSE {}
    BY <2>1
  <2>3. Cardinality(accepted) = IF t \in accepted THEN 1 ELSE 0
    BY <2>2, CountOne
  <2>4. QED
    BY <1>3, <2>1, <2>3 DEF CountEntries
<1>4. QED
  BY <1>1, <1>2, <1>3

\* password: an entry with a set first identifier and a bcrypt or argon2id
\* hash counts as a first factor.
LEMMA PasswordAgrees ==
    ASSUME NEW cc, WellFormed(cc)
    PROVE  PasswordCountFirst(cc) = Table("password", "first", cc)
<1> DEFINE Q(k) == cc[k].identifiers = "set" /\ cc[k].conf \in {"bcrypt", "argon2id"}
<1>1. PasswordCountFirst(cc) = CountEntries(cc, Entries(cc, "password"),
                                  {k \in Entries(cc, "password") : Q(k)})
  BY DEF PasswordCountFirst
<1> DEFINE acc == {k \in Entries(cc, "password") : Q(k)}
<1>2. CountEntries(cc, Entries(cc, "password"), acc) =
          IF "password" \notin DOMAIN cc \/ cc["password"].blob = "empty" THEN Result(0, FALSE)
          ELSE IF cc["password"].blob = "garbled" THEN Result(0, TRUE)
          ELSE Result(IF "password" \in acc THEN 1 ELSE 0, FALSE)
  <2>1. "password" \in CredentialsType /\ acc \in SUBSET Entries(cc, "password")
    BY DEF CredentialsType
  <2>2. QED
    BY <2>1, LoopAgrees
<1>3. "password" \in DOMAIN cc /\ cc["password"].blob # "empty" => ("password" \in acc <=> Q("password"))
  BY DEF Entries, WellFormed
<1>4. QED
  BY <1>1, <1>2, <1>3 DEF Table, Contributes, TableRule

\* lookup: an entry with at least one recovery code counts once.
LEMMA LookupAgrees ==
    ASSUME NEW cc, WellFormed(cc)
    PROVE  LookupCountMulti(cc) = Table("lookup", "multi", cc)
<1> DEFINE Q(k) == cc[k].conf > 0
<1>1. LookupCountMulti(cc) = CountEntries(cc, Entries(cc, "lookup"),
                                  {k \in Entries(cc, "lookup") : Q(k)})
  BY DEF LookupCountMulti
<1> DEFINE acc == {k \in Entries(cc, "lookup") : Q(k)}
<1>2. CountEntries(cc, Entries(cc, "lookup"), acc) =
          IF "lookup" \notin DOMAIN cc \/ cc["lookup"].blob = "empty" THEN Result(0, FALSE)
          ELSE IF cc["lookup"].blob = "garbled" THEN Result(0, TRUE)
          ELSE Result(IF "lookup" \in acc THEN 1 ELSE 0, FALSE)
  <2>1. "lookup" \in CredentialsType /\ acc \in SUBSET Entries(cc, "lookup")
    BY DEF CredentialsType
  <2>2. QED
    BY <2>1, LoopAgrees
<1>3. "lookup" \in DOMAIN cc /\ cc["lookup"].blob # "empty" => ("lookup" \in acc <=> Q("lookup"))
  BY DEF Entries, WellFormed
<1>4. QED
  BY <1>1, <1>2, <1>3 DEF Table, Contributes, TableRule

\* totp: an entry with a set first identifier and a parseable otpauth URL
\* counts as a second factor.
LEMMA TOTPAgrees ==
    ASSUME NEW cc, WellFormed(cc)
    PROVE  TOTPCountMulti(cc) = Table("totp", "multi", cc)
<1> DEFINE Q(k) == cc[k].identifiers = "set" /\ cc[k].conf # "" /\ cc[k].conf = "otpauth"
<1>1. TOTPCountMulti(cc) = CountEntries(cc, Entries(cc, "totp"),
                                  {k \in Entries(cc, "totp") : Q(k)})
  BY DEF TOTPCountMulti
<1> DEFINE acc == {k \in Entries(cc, "totp") : Q(k)}
<1>2. CountEntries(cc, Entries(cc, "totp"), acc) =
          IF "totp" \notin DOMAIN cc \/ cc["totp"].blob = "empty" THEN Result(0, FALSE)
          ELSE IF cc["totp"].blob = "garbled" THEN Result(0, TRUE)
          ELSE Result(IF "totp" \in acc THEN 1 ELSE 0, FALSE)
  <2>1. "totp" \in CredentialsType /\ acc \in SUBSET Entries(cc, "totp")
    BY DEF CredentialsType
  <2>2. QED
    BY <2>1, LoopAgrees
<1>3. "totp" \in DOMAIN cc /\ cc["totp"].blob # "empty" => ("totp" \in acc <=> Q("totp"))
  BY DEF Entries, WellFormed
<1>4. QED
  BY <1>1, <1>2, <1>3 DEF Table, Contributes, TableRule

\* The number of stored webauthn credentials with a given passwordless flag.
LEMMA MatchingNat ==
    ASSUME NEW flags \in Seq(BOOLEAN), NEW p
    PROVE  Matching(flags, p) \in Nat
<1>1. IsFiniteSet({j \in 1..Len(flags) : flags[j] = p})
  BY FS_Interval, FS_Subset
<1>2. QED
  BY <1>1, FS_CardinalityType DEF Matching

\* webauthn: once the entry has identifiers (what validateCredentials
\* enforces), its stored credentials whose IsPasswordless flag matches the
\* factor class are counted, one each.
LEMMA WebAuthnAgrees ==
    ASSUME NEW cc, WellFormed(cc), NEW class \in {"first", "multi"},
           "webauthn" \in DOMAIN cc => cc["webauthn"].identifiers # "none"
    PROVE  countCredentials(cc, class = "first") = Table("webauthn", class, cc)
<1> DEFINE w == "webauthn"
           p == class = "first"
           keys == {k \in Entries(cc, w) : cc[k].identifiers # "none"}
           M(k) == Matching(cc[k].conf, p)
<1>1. keys = IF w \in DOMAIN cc /\ cc[w].blob # "empty" THEN {w} ELSE {}
  <2>1. Entries(cc, w) = IF w \in DOMAIN cc /\ cc[w].blob # "empty" THEN {w} ELSE {}
    BY EntriesOne DEF CredentialsType
  <2>2. QED
    BY <2>1
<1>2. countCredentials(cc, p) =
         IF \E k \in keys : cc[k].blob = "garbled" THEN Result(0, TRUE)
         ELSE Result(MapThenSumSet(M, keys), FALSE)
  BY DEF countCredentials
<1>3. CASE w \notin DOMAIN cc \/ cc[w].blob = "empty"
  <2>1. MapThenSumSet(M, {}) = 0
    BY SumEmpty
  <2>2. QED
    BY <1>1, <1>2, <1>3, <2>1 DEF Table, Contributes
<1>4. CASE w \in DOMAIN cc /\ cc[w].blob = "garbled"
  BY <1>1, <1>2, <1>4 DEF Table, Contributes
<1>5. CASE w \in DOMAIN cc /\ cc[w].blob \notin {"empty", "garbled"}
  <2>1. M(w) \in Int
    BY <1>5, MatchingNat DEF WellFormed
  <2>2. MapThenSumSet(M, {w}) = M(w)
    BY <2>1, SumSingleton DEF M
  <2>3. QED
    BY <1>1, <1>2, <1>5, <2>2 DEF Table, Contributes, TableRule, WellFormed, Blob
<1>6. QED
  BY <1>3, <1>4, <1>5

\* The strategies the table does not let contribute to a factor class return
\* (0, nil), and the others agree with the table: every count of password,
\* lookup and totp is the table's.
LEMMA CountAgrees ==
    ASSUME NEW cc, WellFormed(cc), NEW t \in {"password", "lookup", "totp"},
           NEW class \in {"first", "multi"}
    PROVE  Count(t, class, cc) = Table(t, class, cc)
<1>1. CASE t = "password" /\ class = "first"
  BY <1>1, PasswordAgrees DEF Count
<1>2. CASE t = "lookup" /\ class = "multi"
  BY <1>2, LookupAgrees DEF Count
<1>3. CASE t = "totp" /\ class = "multi"
  BY <1>3, TOTPAgrees DEF Count
<1>4. CASE ~Contributes(t, class)
  BY <1>4 DEF Count, Table, Contributes, PasswordCountMulti, LookupCountFirst, TOTPCountFirst
<1>5. QED
  BY <1>1, <1>2, <1>3, <1>4 DEF Contributes

-----------------------------------------------------------------------------
(* The model's credential maps are well formed.                           *)

\* Every credential the model loads has the shape WellFormed asks for.
LEMMA CredentialShape ==
    ASSUME NEW t \in CredentialsType, NEW c \in Credentials(t)
    PROVE  /\ c.type = t
           /\ c.identifiers \in Identifiers
           /\ c.blob \in Blob
           /\ t = "lookup" => c.conf \in Nat
           /\ t = "webauthn" => c.conf \in Seq(BOOLEAN)
<1>1. WebAuthnFlags \subseteq Seq(BOOLEAN) /\ RecoveryCodes \subseteq Nat
  BY DEF WebAuthnFlags, RecoveryCodes
<1>2. \A b \in Blob : IdentifiersOf(t, b) \subseteq Identifiers
  BY DEF IdentifiersOf, Identifiers, Blob
<1>3. CASE c \in [type : {t}, identifiers : IdentifiersOf(t, "json"), blob : {"json"},
                  conf : Conf(t)]
  BY <1>1, <1>2, <1>3 DEF Conf, Blob, CredentialsType
<1>4. CASE \E b \in {"empty", "garbled"} :
              c \in [type : {t}, identifiers : IdentifiersOf(t, b), blob : {b}, conf : {Zero(t)}]
  \* an unparsed blob leaves the field at its zero value.
  <2>1. PICK b \in {"empty", "garbled"} :
            c \in [type : {t}, identifiers : IdentifiersOf(t, b), blob : {b}, conf : {Zero(t)}]
    BY <1>4
  <2>2. c.type = t /\ c.identifiers \in IdentifiersOf(t, b) /\ c.blob = b /\ c.conf = Zero(t)
    BY <2>1
  <2>3. Zero("lookup") = 0 /\ Zero("webauthn") = <<>>
    BY DEF Zero
  <2>4. <<>> \in Seq(BOOLEAN) /\ 0 \in Nat
    OBVIOUS
  <2>5. c.blob \in Blob /\ c.identifiers \in Identifiers
    BY <1>2, <2>2 DEF Blob
  <2>6. QED
    BY <2>2, <2>3, <2>4, <2>5
<1>5. QED
  BY <1>3, <1>4 DEF Credentials

\* A credential map of the model stores each credential under its type.
LEMMA MapsWellFormed ==
    ASSUME NEW cc \in CredentialMaps
    PROVE  WellFormed(cc)
<1> DEFINE U == UNION {Credentials(t) : t \in CredentialsType}
<1>1. PICK cs \in SUBSET U : cc = [k \in {c.type : c \in cs} |-> CHOOSE c \in cs : c.type = k]
  \* each option is empty or one credential of its type.
  <2> DEFINE Option(t) == {{}} \cup {{c} : c \in Credentials(t)}
             S == {pw \cup lk \cup tp \cup wa : pw \in Option("password"),
                     lk \in Option("lookup"), tp \in Option("totp"), wa \in Option("webauthn")}
  <2> DEFINE G(x) == [k \in {c.type : c \in x} |-> CHOOSE c \in x : c.type = k]
  <2>0. CredentialMaps = {G(x) : x \in S}
    BY DEF CredentialMaps
  <2> HIDE DEF G, S, Option
  <2>1. PICK cs0 \in S : cc = G(cs0)
    BY <2>0
  <2>2. PICK pw \in Option("password"), lk \in Option("lookup"), tp \in Option("totp"),
             wa \in Option("webauthn") :
           cs0 = pw \cup lk \cup tp \cup wa
    BY <2>1 DEF S
  <2>3. \A t \in CredentialsType : Option(t) \subseteq SUBSET U
    BY DEF CredentialsType, Option
  <2>4. cs0 \in SUBSET U
    BY <2>2, <2>3 DEF CredentialsType
  <2>5. QED
    BY <2>1, <2>4 DEF G
<1>3. \A c \in cs : c.type \in CredentialsType /\ c \in Credentials(c.type)
  BY CredentialShape
<1>4. DOMAIN cc \subseteq CredentialsType
  BY <1>1, <1>3
<1>5. ASSUME NEW k \in DOMAIN cc PROVE cc[k] \in Credentials(k) /\ cc[k].type = k
  <2>1. \E c \in cs : c.type = k
    BY <1>1
  <2>2. cc[k] = CHOOSE c \in cs : c.type = k
    BY <1>1
  <2>3. cc[k] \in cs /\ cc[k].type = k
    BY <2>1, <2>2
  <2>4. QED
    BY <1>3, <2>3
<1>6. QED
  BY <1>4, <1>5, CredentialShape DEF WellFormed

-----------------------------------------------------------------------------
(* The invariants.                                                         *)

\* result is what the last count returned on the (never changing) map.
Counted ==
    query.strategy # "none" =>
        /\ query.strategy \in CredentialsType
        /\ query.class \in {"first", "multi"}
        /\ result = Count(query.strategy, query.class, creds)

\* validateCredentials accepted only a map whose webauthn entry has
\* identifiers.
ValidatedHasIdentifiers ==
    validated = "ok" => "webauthn" \in DOMAIN creds /\ creds["webauthn"].identifiers # "none"

IInv == creds \in CredentialMaps /\ Counted /\ ValidatedHasIdentifiers

LEMMA InitIInv == Init => IInv
BY DEF Init, IInv, Counted, ValidatedHasIdentifiers

LEMMA NextIInv == IInv /\ [Next]_vars => IInv'
<1> SUFFICES ASSUME IInv, [Next]_vars PROVE IInv'
  OBVIOUS
<1>1. ASSUME NEW t \in CredentialsType, NEW class \in {"first", "multi"}, CountActive(t, class)
      PROVE  IInv'
  BY <1>1 DEF CountActive, IInv, Counted, ValidatedHasIdentifiers
<1>2. ASSUME NEW schemaOK \in BOOLEAN, validateCredentials(schemaOK) PROVE IInv'
  BY <1>2 DEF validateCredentials, IInv, Counted, ValidatedHasIdentifiers
<1>3. CASE UNCHANGED vars
  BY <1>3 DEF vars, IInv, Counted, ValidatedHasIdentifiers
<1>4. QED
  BY <1>1, <1>2, <1>3 DEF Next

LEMMA AlwaysIInv == Spec => []IInv
BY InitIInv, NextIInv, PTL DEF Spec

\* For every credential map the model loads and every order of calls, what
\* the password, lookup and totp strategies count (first factor and
\* multi-factor) is what the table of spec 4.1 gives: the type filter, the
\* blank-config skip, the unmarshal error and each strategy's condition.
THEOREM CountsFollowTable == Spec => []CountsMatchTable
<1>1. IInv => CountsMatchTable
  BY MapsWellFormed, CountAgrees DEF IInv, Counted, CountsMatchTable
<1>2. QED
  BY <1>1, AlwaysIInv, PTL

\* Once validateCredentials accepted the identity, every webauthn count
\* (passwordless or multi-factor) is the table's: the identifiers condition
\* countCredentials adds is the one the validation enforced.
THEOREM ValidatedWebAuthnFollowsTable == Spec => []ValidatedWebAuthnCounted
<1>1. ASSUME IInv, validated = "ok", query.strategy = "webauthn"
      PROVE  result = Table(query.strategy, query.class, creds)
  <2>1. WellFormed(creds)
    BY <1>1, MapsWellFormed DEF IInv
  <2>2. result = countCredentials(creds, query.class = "first") /\ query.class \in {"first", "multi"}
    BY <1>1 DEF IInv, Counted, Count
  <2>3. QED
    BY <1>1, <2>1, <2>2, WebAuthnAgrees DEF IInv, ValidatedHasIdentifiers
<1>2. IInv => ValidatedWebAuthnCounted
  BY <1>1 DEF ValidatedWebAuthnCounted
<1>3. QED
  BY <1>2, AlwaysIInv, PTL

=============================================================================
