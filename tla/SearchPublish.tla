--------------------------- MODULE SearchPublish ---------------------------
(***************************************************************************)
(* The publication of a candidate index (packages/search,                  *)
(* TypesenseCandidateIndexer.publish): a collection named after the digest *)
(* of its documents is created, filled, counted, and an alias is switched  *)
(* to it; what fails after the creation deletes what it created.           *)
(*                                                                         *)
(* Publishers are processes that share nothing but the search server.  A   *)
(* request is given up after ten seconds; the server may have obeyed it,   *)
(* or obey it later.                                                       *)
(***************************************************************************)
CONSTANTS
  Publishers,
  Digests,     \* contents, and the names of their collections
  None

VARIABLES
  coll,    \* collections: absent, partial (less than its documents) or complete
  alias,   \* what the alias names, whether or not it exists
  pub,     \* the publishers
  late,    \* requests that were given up and may still be obeyed
  shaken   \* history: digests whose switch or deletion was given up, or that
           \* two published at once

vars == <<coll, alias, pub, late, shaken>>

Stages == {"look", "create", "import", "verify", "switch", "clean"}
Requests == {"create", "import", "switch", "clean"} \X Publishers

TypeOK ==
  /\ coll \in [Digests -> {"absent", "partial", "complete"}]
  /\ alias \in Digests \cup {None}
  /\ pub \in [Publishers -> [pc : Stages \cup {"idle", "done", "failed", "dead"},
                             digest : Digests \cup {None}, created : BOOLEAN]]
  /\ late \subseteq Requests /\ shaken \subseteq Digests

Init ==
  /\ coll = [d \in Digests |-> "absent"] /\ alias = None
  /\ pub = [p \in Publishers |-> [pc |-> "idle", digest |-> None, created |-> FALSE]]
  /\ late = {} /\ shaken = {}

Of(p) == pub[p].digest
Goto(p, stage) == pub' = [pub EXCEPT ![p].pc = stage]
Active(p) == pub[p].pc \in Stages

-----------------------------------------------------------------------------
(* The server.                                                             *)

\* It obeys a request of p, at once or late.  An alias may name anything.
Obeys(kind, p) ==
  LET d == Of(p) IN
  /\ coll' = CASE kind = "create" /\ coll[d] = "absent" -> [coll EXCEPT ![d] = "partial"]
               [] kind = "import" /\ coll[d] # "absent" -> [coll EXCEPT ![d] = "complete"]
               [] kind = "clean" -> [coll EXCEPT ![d] = "absent"]
               [] OTHER -> coll
  /\ alias' = IF kind = "switch" THEN d ELSE alias
Ignores == UNCHANGED <<coll, alias>>

Land == \E r \in late :
  Obeys(r[1], r[2]) /\ late' = late \ {r} /\ UNCHANGED <<pub, shaken>>

-----------------------------------------------------------------------------
(* A publisher.                                                            *)

Start(p, d) ==
  /\ pub[p].pc = "idle" /\ pub' = [pub EXCEPT ![p].pc = "look", ![p].digest = d]
  /\ shaken' = shaken \cup (IF \E q \in Publishers : Active(q) /\ Of(q) = d THEN {d} ELSE {})
  /\ Ignores /\ UNCHANGED late

Look(p) ==
  /\ pub[p].pc = "look" /\ Goto(p, IF coll[Of(p)] = "absent" THEN "create" ELSE "import")
  /\ Ignores /\ UNCHANGED <<late, shaken>>

\* 409: somebody else has created it.
Create(p) ==
  /\ pub[p].pc = "create" /\ Obeys("create", p)
  /\ pub' = [pub EXCEPT ![p].pc = "import", ![p].created = coll[Of(p)] = "absent"]
  /\ UNCHANGED <<late, shaken>>

\* Every line of the receipt says success.
Import(p) ==
  /\ pub[p].pc = "import" /\ coll[Of(p)] # "absent" /\ Obeys("import", p) /\ Goto(p, "verify")
  /\ UNCHANGED <<late, shaken>>

\* The collection has as many documents as were published.
Verify(p) ==
  /\ pub[p].pc = "verify" /\ coll[Of(p)] = "complete" /\ Goto(p, "switch")
  /\ Ignores /\ UNCHANGED <<late, shaken>>

Switch(p) ==
  /\ pub[p].pc = "switch" /\ Obeys("switch", p) /\ Goto(p, "done")
  /\ UNCHANGED <<late, shaken>>

\* Mutant: whoever fails cleans up, whether or not the collection is its own.
CleansAlways(p) == IF pub[p].pc \in {"import", "verify", "switch"} THEN "clean" ELSE "failed"
\* Where an error leads: to the deletion of a collection of one's own making.
OnError(p) == IF pub[p].pc \in {"import", "verify", "switch"} /\ pub[p].created THEN "clean" ELSE "failed"

\* A status other than the expected one, a rejected document, a wrong count;
\* an import that is refused may have been obeyed in part.
Refused(p) ==
  /\ Active(p) /\ Goto(p, OnError(p))
  /\ Ignores /\ UNCHANGED <<late, shaken>>

\* No answer, to a publisher that goes on or that has died.
NoAnswer(p) ==
  LET kind == pub[p].pc IN
  /\ Active(p) /\ \E stage \in {OnError(p), "dead"} : Goto(p, stage)
  /\ \/ kind \in {"look", "verify"} /\ Ignores /\ UNCHANGED late
     \/ kind \notin {"look", "verify"} /\ Obeys(kind, p) /\ UNCHANGED late
     \/ kind \notin {"look", "verify"} /\ Ignores /\ late' = late \cup {<<kind, p>>}
  /\ shaken' = shaken \cup (IF kind \in {"switch", "clean"} THEN {Of(p)} ELSE {})

Clean(p) ==
  /\ pub[p].pc = "clean" /\ Obeys("clean", p) /\ Goto(p, "failed")
  /\ UNCHANGED <<late, shaken>>

Next ==
  \/ \E p \in Publishers :
       \/ \E d \in Digests : Start(p, d)
       \/ Look(p) \/ Create(p) \/ Import(p) \/ Verify(p) \/ Switch(p) \/ Refused(p) \/ NoAnswer(p) \/ Clean(p)
  \/ Land
Spec == Init /\ [][Next]_vars

-----------------------------------------------------------------------------
\* The alias names a complete collection, also while publications of the same
\* or other contents fail, die and are repeated, unless an answer to a switch
\* or a deletion was lost or two publications of one content overlapped.
AliasIsComplete == alias # None /\ alias \notin shaken => coll[alias] = "complete"
=============================================================================
