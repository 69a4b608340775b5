------------------------------ MODULE MCIndexer ------------------------------
(***************************************************************************)
(* Short histories, chosen so that each table is written, overwritten and  *)
(* deleted from, that the jurisdiction contract removes codes and lets     *)
(* them run out, and that pages end inside a ledger.                       *)
(***************************************************************************)
EXTENDS Indexer

Ev(ledger, kind, addr, code) ==
  [ledger |-> ledger, kind |-> kind, addr |-> addr, code |-> code, whole |-> TRUE]
Part(ledger, kind, addr, code) == [Ev(ledger, kind, addr, code) EXCEPT !.whole = FALSE]

Allow == <<Ev(1, "AllowAdd", "x", "US"), Ev(2, "AllowRemove", "x", "US"),
           Ev(2, "AllowAdd", "y", "US"), Ev(3, "AllowAdd", "x", "US")>>
Deny == <<Ev(1, "DenyAdd", "x", "US"), Ev(2, "ComplianceEvent", "x", "US"),
          Ev(2, "Blocked", "x", "US"), Ev(3, "DenyRemove", "x", "US")>>
Relocate == <<Ev(1, "JurisdictionSet", "x", "US"), Ev(1, "JurisdictionSet", "y", "US"),
              Ev(1, "AllowAdd", "y", "US"), Ev(2, "JurisdictionSet", "x", "DE")>>
\* x has two codes and one is taken away, and given another; y's flag runs out.
Revoke == <<Ev(1, "JurisdictionSet", "y", "DE"), Ev(1, "JurisdictionSet", "x", "US"),
            Part(1, "JurisdictionSet", "x", "DE"), Part(2, "JurisdictionRemoved", "x", "US"),
            Ev(2, "JurisdictionExpired", "y", "DE"), Part(3, "JurisdictionRemoved", "x", "DE")>>

MCSetup ==
  {[chain |-> c, start |-> 1, end |-> 0] : c \in {Allow, Deny, Relocate, Revoke}}
  \cup {[chain |-> Allow, start |-> 1, end |-> 2], [chain |-> Deny, start |-> 0, end |-> 0],
        [chain |-> Allow, start |-> 0, end |-> 1]}
=============================================================================
