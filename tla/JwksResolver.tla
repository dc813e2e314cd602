---------------------------- MODULE JwksResolver ----------------------------
(***************************************************************************)
(* The cache of the identity provider's signing keys in one gateway        *)
(* process (apps/gateway/src/login-runtime.ts, RefreshingJwksResolver).    *)
(* Callbacks resolve keys concurrently, each with a fetch of its own; the  *)
(* documents may arrive in any order, and the issuer rotates meanwhile.    *)
(***************************************************************************)
EXTENDS Naturals, FiniteSets

CONSTANTS
  Keys,    \* key ids, each with one key
  Calls    \* concurrent calls of resolve

VARIABLES
  signing,  \* the keys of the issuer's document
  retired,  \* the keys that have left it, for good
  cache,    \* per key: none, fresh or expired
  fetch     \* per call: idle, sent, or the document that is on its way

vars == <<signing, retired, cache, fetch>>

NoFetch == [stage |-> "idle", keys |-> {}]
Init ==
  /\ \E k \in Keys : signing = {k}
  /\ retired = {} /\ cache = [k \in Keys |-> "none"] /\ fetch = [c \in Calls |-> NoFetch]

\* Mutant: a key that is found is good.
Found(k) == cache[k] # "none"
\* resolve returns the key without asking the issuer.
Resolves(k) == cache[k] = "fresh"

\* The issuer brings in a new key, or retires one of several.
Rotate ==
  /\ \/ \E k \in Keys \ (signing \cup retired) : signing' = signing \cup {k} /\ UNCHANGED retired
     \/ \E k \in signing : /\ Cardinality(signing) > 1
                           /\ signing' = signing \ {k} /\ retired' = retired \cup {k}
  /\ UNCHANGED <<cache, fetch>>

\* A key that is not in the cache, or no longer good, is fetched.
Ask(c) ==
  /\ fetch[c].stage = "idle" /\ \E k \in Keys : ~Resolves(k)
  /\ fetch' = [fetch EXCEPT ![c].stage = "sent"] /\ UNCHANGED <<signing, retired, cache>>

\* The issuer answers with the keys it has then.
IssuerAnswers(c) ==
  /\ fetch[c].stage = "sent"
  /\ fetch' = [fetch EXCEPT ![c] = [stage |-> "answered", keys |-> signing]]
  /\ UNCHANGED <<signing, retired, cache>>

\* The document replaces what another one may have brought since.
Arrives(c) ==
  /\ fetch[c].stage = "answered"
  /\ cache' = [k \in Keys |-> IF k \in fetch[c].keys THEN "fresh" ELSE "none"]
  /\ fetch' = [fetch EXCEPT ![c] = NoFetch] /\ UNCHANGED <<signing, retired>>

\* Refused, malformed, or given up after the request's timeout.
Fails(c) ==
  /\ fetch[c].stage # "idle"
  /\ fetch' = [fetch EXCEPT ![c] = NoFetch] /\ UNCHANGED <<signing, retired, cache>>

\* The keys of a document expire together.
Expire ==
  /\ \E k \in Keys : cache[k] = "fresh"
  /\ cache' = [k \in Keys |-> IF cache[k] = "fresh" THEN "expired" ELSE cache[k]]
  /\ UNCHANGED <<signing, retired, fetch>>

Next == Rotate \/ Expire \/ \E c \in Calls : Ask(c) \/ IssuerAnswers(c) \/ Arrives(c) \/ Fails(c)
Spec == Init /\ [][Next]_vars

\* A fetch ends, at the latest by its timeout, and time passes: what the cache
\* holds expires, unless documents keep arriving before it does.
Ageing == Expire \/ \E c \in Calls : Arrives(c)
Ends(c) == Arrives(c) \/ Fails(c)
Fairness == WF_vars(Ageing) /\ \A c \in Calls : WF_vars(Ends(c))

-----------------------------------------------------------------------------
TypeOK ==
  /\ signing \subseteq Keys /\ retired \subseteq Keys /\ cache \in [Keys -> {"none", "fresh", "expired"}]
  /\ fetch \in [Calls -> [stage : {"idle", "sent", "answered"}, keys : SUBSET Keys]]

\* Rotation "cannot fall back to a retired key indefinitely"
\* (login-runtime.ts:133): although overlapping fetches may bring a retired
\* key back, when the rotations are over a time comes from which no retired key
\* is accepted.
RetiredKeysGo == <>[](\A k \in retired : ~Resolves(k))
=============================================================================
