------------------------- MODULE CredentialCounting -------------------------
(***************************************************************************)
(* CountActiveFirstFactorCredentials and CountActiveMultiFactorCredentials *)
(* of the password, lookup, totp and webauthn strategies, and webauthn's   *)
(* validateCredentials.  An identity's credential map is loaded once; the  *)
(* strategies are then asked for their counts, in any order, and the       *)
(* webauthn credentials may be validated.  Each call records its result.   *)
(*                                                                         *)
(* A credential is abstracted to what the counting code tells apart: its   *)
(* identifiers (none, a blank first identifier, a set one), whether its    *)
(* config blob is empty, fails to unmarshal, or parses, and the parsed     *)
(* field the strategy looks at.                                            *)
(***************************************************************************)
EXTENDS Naturals, Sequences, FiniteSets, FiniteSetsExt

CredentialsType == {"password", "lookup", "totp", "webauthn"}

\* len(Identifiers) = 0; Identifiers[0] = ""; Identifiers[0] non-empty.
Identifiers == {"none", "blank", "set"}

\* len(Config) = 0; json.Unmarshal fails; json.Unmarshal succeeds.
Blob == {"empty", "garbled", "json"}

\* The parsed field each strategy reads: the hash's format, the number of
\* recovery codes, the TOTP URL (absent, an otpauth key, unparseable), and
\* the IsPasswordless flags of the stored webauthn credentials.
HashFormat == {"bcrypt", "argon2id", "asdf"}
RecoveryCodes == 0..2
TOTPURL == {"", "otpauth", "garbage"}
WebAuthnFlags == {<<>>, <<TRUE>>, <<FALSE>>, <<TRUE, FALSE>>, <<TRUE, TRUE>>, <<FALSE, FALSE>>}

Conf(t) ==
    CASE t = "password" -> HashFormat
      [] t = "lookup"   -> RecoveryCodes
      [] t = "totp"     -> TOTPURL
      [] t = "webauthn" -> WebAuthnFlags

\* The value an unparsed blob leaves in the field (the zero value).
Zero(t) ==
    CASE t = "password" -> "asdf"
      [] t = "lookup"   -> 0
      [] t = "totp"     -> ""
      [] t = "webauthn" -> <<>>

\* The identifiers a credential of type t is given: the ones its count
\* tells apart.  Lookup never reads them, webauthn only their number, and
\* only webauthn reads them before parsing.
IdentifiersOf(t, blob) ==
    CASE t = "lookup" -> {"set"}
      [] t = "webauthn" -> {"none", "set"}
      [] blob = "json" -> Identifiers
      [] OTHER -> {"set"}

\* identity.Credentials of type t.
Credentials(t) ==
    [type : {t}, identifiers : IdentifiersOf(t, "json"), blob : {"json"}, conf : Conf(t)]
    \cup UNION {[type : {t}, identifiers : IdentifiersOf(t, b), blob : {b}, conf : {Zero(t)}] :
                 b \in {"empty", "garbled"}}

\* An identity's credential map, keyed by credentials type: one optional
\* credential per type.
CredentialMaps ==
    LET Option(t) == {{}} \cup {{c} : c \in Credentials(t)}
    IN {[k \in {c.type : c \in cs} |-> CHOOSE c \in cs : c.type = k] :
          cs \in {p \cup l \cup o \cup w : p \in Option("password"), l \in Option("lookup"),
                                           o \in Option("totp"), w \in Option("webauthn")}}

Result(n, e) == [count |-> n, err |-> e]

\* The strategy's entries: c.Type == s.ID() && len(c.Config) > 0.
Entries(cc, t) == {k \in DOMAIN cc : cc[k].type = t /\ cc[k].blob # "empty"}

\* The loop over the entries: an unmarshal error returns (0, err);
\* otherwise count the accepted ones, those the strategy's condition holds of.
CountEntries(cc, keys, accepted) ==
    IF \E k \in keys : cc[k].blob = "garbled"
    THEN Result(0, TRUE)
    ELSE Result(Cardinality(accepted), FALSE)

\* password CountActiveFirstFactorCredentials.
PasswordCountFirst(cc) ==
    LET keys == Entries(cc, "password")
    IN CountEntries(cc, keys, {k \in keys : cc[k].identifiers = "set"
                                            /\ cc[k].conf \in {"bcrypt", "argon2id"}})

\* Faulty lookup count: one per recovery code.
LookupCountPerCode(cc) ==
    LET keys == Entries(cc, "lookup")
    IN IF \E k \in keys : cc[k].blob = "garbled" THEN Result(0, TRUE)
       ELSE Result(MapThenSumSet(LAMBDA k : cc[k].conf, keys), FALSE)

\* lookup CountActiveMultiFactorCredentials.
LookupCountMulti(cc) ==
    LET keys == Entries(cc, "lookup")
    IN CountEntries(cc, keys, {k \in keys : cc[k].conf > 0})

\* totp CountActiveMultiFactorCredentials; the error of NewKeyFromURL is a
\* shadowed local and only blocks the count.
TOTPCountMulti(cc) ==
    LET keys == Entries(cc, "totp")
    IN CountEntries(cc, keys, {k \in keys : cc[k].identifiers = "set" /\ cc[k].conf # ""
                                            /\ cc[k].conf = "otpauth"})

\* The webauthn flags equal to passwordless.
Matching(flags, passwordless) ==
    Cardinality({j \in 1..Len(flags) : flags[j] = passwordless})

\* webauthn countCredentials: entries also need len(Identifiers) > 0, and
\* each stored credential whose IsPasswordless matches counts.
countCredentials(cc, passwordless) ==
    LET keys == {k \in Entries(cc, "webauthn") : cc[k].identifiers # "none"}
    IN IF \E k \in keys : cc[k].blob = "garbled"
       THEN Result(0, TRUE)
       ELSE Result(MapThenSumSet(LAMBDA k : Matching(cc[k].conf, passwordless), keys), FALSE)

\* password CountActiveMultiFactorCredentials: (0, nil) whatever cc holds.
PasswordCountMulti(cc) == Result(0, FALSE)

\* lookup CountActiveFirstFactorCredentials: (0, nil) whatever cc holds.
LookupCountFirst(cc) == Result(0, FALSE)

\* totp CountActiveFirstFactorCredentials: (0, nil) whatever cc holds.
TOTPCountFirst(cc) == Result(0, FALSE)

\* The strategy's method for the factor class.
Count(t, class, cc) ==
    CASE t = "password" /\ class = "first" -> PasswordCountFirst(cc)
      [] t = "password" /\ class = "multi" -> PasswordCountMulti(cc)
      [] t = "lookup"   /\ class = "first" -> LookupCountFirst(cc)
      [] t = "lookup"   /\ class = "multi" -> LookupCountMulti(cc)
      [] t = "totp"     /\ class = "first" -> TOTPCountFirst(cc)
      [] t = "totp"     /\ class = "multi" -> TOTPCountMulti(cc)
      [] t = "webauthn" -> countCredentials(cc, class = "first")

-----------------------------------------------------------------------------
(* The counting policy of spec 4.1, the reference the code is held to.    *)

\* The factor classes the table lets each strategy contribute to; a
\* strategy that never contributes has nothing to parse.
Contributes(t, class) ==
    \/ t = "password" /\ class = "first"
    \/ t \in {"lookup", "totp"} /\ class = "multi"
    \/ t = "webauthn"

\* The table's rule for one parsed credential of type t.
TableRule(t, class, c) ==
    CASE t = "password" ->
            IF c.identifiers = "set" /\ c.conf \in {"bcrypt", "argon2id"} THEN 1 ELSE 0
      [] t = "lookup" -> IF c.conf > 0 THEN 1 ELSE 0
      [] t = "totp" -> IF c.identifiers = "set" /\ c.conf = "otpauth" THEN 1 ELSE 0
      [] t = "webauthn" -> Matching(c.conf, class = "first")

\* A blank config never counts and is not parsed; an unmarshal failure is
\* an error; otherwise the table's rule.
Table(t, class, cc) ==
    IF ~Contributes(t, class) \/ t \notin DOMAIN cc \/ cc[t].blob = "empty"
    THEN Result(0, FALSE)
    ELSE IF cc[t].blob = "garbled" THEN Result(0, TRUE)
    ELSE Result(TableRule(t, class, cc[t]), FALSE)

-----------------------------------------------------------------------------

VARIABLES
    creds,      \* the identity's credential map, as loaded
    query,      \* the last count asked for: strategy and factor class
    result,     \* what that call returned
    validated   \* what webauthn validateCredentials returned

vars == <<creds, query, result, validated>>

Init ==
    /\ creds \in CredentialMaps
    /\ query = [strategy |-> "none", class |-> "none"]
    /\ result = Result(0, FALSE)
    /\ validated = "none"

\* A call of CountActiveFirstFactorCredentials or
\* CountActiveMultiFactorCredentials on strategy t.
CountActive(t, class) ==
    /\ query' = [strategy |-> t, class |-> class]
    /\ result' = Count(t, class, creds)
    /\ UNCHANGED <<creds, validated>>

\* Faulty validateCredentials: only the identity validator's verdict.
validateCredentialsSchemaOnly(schemaOK) ==
    /\ validated' = IF schemaOK THEN "ok" ELSE "error"
    /\ UNCHANGED <<creds, query, result>>

\* validateCredentials: the identity validator's verdict (schemaOK), then
\* GetCredentialsOr(webauthn, &Credentials{}) must have identifiers.
validateCredentials(schemaOK) ==
    /\ validated' =
          IF ~schemaOK THEN "error"
          ELSE IF "webauthn" \notin DOMAIN creds \/ creds["webauthn"].identifiers = "none"
               THEN "missing_identifier"
               ELSE "ok"
    /\ UNCHANGED <<creds, query, result>>

Next ==
    \/ \E t \in CredentialsType, class \in {"first", "multi"} : CountActive(t, class)
    \/ \E schemaOK \in BOOLEAN : validateCredentials(schemaOK)

Spec == Init /\ [][Next]_vars

-----------------------------------------------------------------------------

TypeOK ==
    /\ creds \in CredentialMaps
    /\ query \in [strategy : CredentialsType \cup {"none"}, class : {"first", "multi", "none"}]
    /\ result \in [count : Nat, err : BOOLEAN]
    /\ validated \in {"none", "ok", "error", "missing_identifier"}

\* The password, lookup and totp counts, first factor and multi-factor,
\* agree with the per-strategy policy of spec 4.1 on every credential map:
\* the type filter, the blank-config skip, the unmarshal error, and each
\* strategy's condition (one per credential, not per recovery code).
CountsMatchTable ==
    query.strategy \in {"password", "lookup", "totp"} =>
        result = Table(query.strategy, query.class, creds)

\* Spec 4.1 for webauthn: one per stored credential flagged (or not)
\* passwordless, and an unmarshal failure is an error.
WebAuthnCountsMatchTable ==
    query.strategy = "webauthn" => result = Table(query.strategy, query.class, creds)

\* Once validateCredentials accepted the identity, countCredentials agrees
\* with spec 4.1: the identifiers condition it adds is one the validation
\* already enforced.
ValidatedWebAuthnCounted ==
    validated = "ok" /\ query.strategy = "webauthn" =>
        result = Table(query.strategy, query.class, creds)

=============================================================================
