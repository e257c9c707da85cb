------------------------------- MODULE Keyring -------------------------------
(***************************************************************************)
(* The record VendorAckKeyring keeps for one vendor.  The descriptors of   *)
(* its keys are all well formed; active_kid is written but read by no      *)
(* code, and left out.  An unknown vendor has no keys, refused alike.      *)
(***************************************************************************)

CONSTANT KeyIds

KeyRecord == [keys : SUBSET KeyIds, revoked : SUBSET KeyIds]

\* get_key_descriptor returns: the revocation list is looked at first.
KeyUsable(r, kid) == kid \notin r.revoked /\ kid \in r.keys

\* Mutant: a key that is rotated in is no longer revoked.
RotateKeyReinstates(r, kid) ==
    [r EXCEPT !.keys = @ \cup {kid}, !.revoked = @ \ {kid}]

\* rotate_vendor_key; the other keys stay usable.
RotateKey(r, kid) == [r EXCEPT !.keys = @ \cup {kid}]

\* revoke_vendor_key; the key stays listed.
RevokeKey(r, kid) == [r EXCEPT !.revoked = @ \cup {kid}]

=============================================================================
