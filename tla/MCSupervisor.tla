---------------------------- MODULE MCSupervisor ----------------------------
(***************************************************************************)
(* The worker supervisor and, sharing no state with it, the cache of the   *)
(* identity provider's keys: a behaviour is one of either.                 *)
(***************************************************************************)
EXTENDS Supervisor

CONSTANTS Keys, Calls
VARIABLES part, signing, retired, cache, fetch

Resolver == INSTANCE JwksResolver
resolver == <<signing, retired, cache, fetch>>
all == <<part, vars, resolver>>

BothInit == part \in {"supervisor", "keys"} /\ Init /\ Resolver!Init
Run(A) == part = "supervisor" /\ A /\ UNCHANGED <<part, resolver>>
Resolve(A) == part = "keys" /\ A /\ UNCHANGED <<part, vars>>
BothNext == Run(Next) \/ Resolve(Resolver!Next)

\* The fairness of each part.
BothSpec ==
  /\ BothInit /\ [][BothNext]_all
  /\ WF_all(Run(Continue)) /\ \A a \in Attempts : SF_all(Run(Launch(a)))
  /\ WF_all(Resolve(Resolver!Ageing)) /\ \A c \in Calls : WF_all(Resolve(Resolver!Ends(c)))

\* Keys: a retired key is accepted no more from some time on.
RetiredKeysGo == Resolver!RetiredKeysGo
=============================================================================
