--------------------------- MODULE MCSessionHooks ---------------------------
(* Model-checking instance of SessionHooks: identities, session ids and    *)
(* requests are model values; all three are interchangeable in the spec.   *)
EXTENDS SessionHooks, TLC

\* Sessions, identities and requests are only compared for equality.
Symmetry == Permutations(Identity) \cup Permutations(SessionId) \cup Permutations(Request)

\* Operations without refresh: the store is only written by fresh sessions.
NoRefresh == {"registration", "login", "recovery", "settings"}

\* All operations, refresh/step-up logins included.
AllOperations == {"registration", "login", "refresh", "recovery", "settings"}
=============================================================================
