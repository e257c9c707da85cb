---------------------------- MODULE ApprovalAudit ----------------------------
(***************************************************************************)
(* The file of CanaryApprovalAuditLedger: a sequence of records that carry *)
(* the hash of the record before them.  A record's hash covers all of it,  *)
(* so it stands for the record's position; the empty hash is 0.  Seals are *)
(* made with a key nobody else has and left out.                           *)
(***************************************************************************)
EXTENDS Naturals, Sequences

\* verify_chain
Verifies(log) == \A i \in DOMAIN log : log[i].prev = i - 1

\* Mutant: the hash is taken from the first line.
LastHashOfFirst(log) == IF log = << >> THEN 0 ELSE 1

\* _last_hash: that of the last line, whatever it links to.
LastHash(log) == Len(log)

=============================================================================
