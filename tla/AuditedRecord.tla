--------------------------- MODULE AuditedRecord ---------------------------
(***************************************************************************)
(* What the safe-write contract promises its callers, with no gateway      *)
(* process, no transaction and no failure in sight.                        *)
(*                                                                         *)
(* A person owns one record, which is absent until the first confirmed     *)
(* change.  A preview makes an offer: "the value shown now becomes this    *)
(* one".  A confirm applies an offer at most once, only while the owner    *)
(* exists and only on the very value the offer showed, and leaves exactly  *)
(* one receipt, in the same indivisible step.                              *)
(* (packages/safe-write-contract/README.md, "The rules".)                  *)
(***************************************************************************)
EXTENDS Sequences

CONSTANTS Principals, Tokens, Languages, Absent

VARIABLES
  principals,   \* the principals that exist
  language,     \* principal -> its stored value, or Absent
  offers,       \* every offer a preview has made
  ledger        \* the receipts, oldest first

avars == <<principals, language, offers, ledger>>

Values == Languages \cup {Absent}

Offer == [token : Tokens, owner : Principals, from : Values, to : Languages]

Init ==
  /\ principals = Principals
  /\ language = [p \in Principals |-> Absent]
  /\ offers = {}
  /\ ledger = <<>>

\* A preview offers to change p's record from the value it holds now to v.
MakeOffer(t, p, v) ==
  /\ \A o \in offers : o.token # t
  /\ offers' = offers \cup
       {[token |-> t, owner |-> p, from |-> language[p], to |-> v]}
  /\ UNCHANGED <<principals, language, ledger>>

\* A confirm applies the offer and writes its receipt.
Apply(o) ==
  /\ o.owner \in principals
  /\ language[o.owner] = o.from
  /\ \A i \in DOMAIN ledger : ledger[i].token # o.token
  /\ language' = [language EXCEPT ![o.owner] = o.to]
  /\ ledger' = Append(ledger, o)
  /\ UNCHANGED <<principals, offers>>

\* Removing a principal removes its record; its receipts stay.
Remove(p) ==
  /\ principals' = principals \ {p}
  /\ language' = [language EXCEPT ![p] = Absent]
  /\ UNCHANGED <<offers, ledger>>

Register(p) ==
  /\ principals' = principals \cup {p}
  /\ UNCHANGED <<language, offers, ledger>>

Next ==
  \/ \E t \in Tokens, p \in Principals, v \in Languages : MakeOffer(t, p, v)
  \/ \E o \in offers : Apply(o)
  \/ \E p \in Principals : Remove(p) \/ Register(p)

Spec == Init /\ [][Next]_avars

=============================================================================
