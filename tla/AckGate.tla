------------------------------- MODULE AckGate -------------------------------
(***************************************************************************)
(* What an acknowledgement has to pass after its nonce: the signature, by a *)
(* key of the key ring, then the certificate pins, with the rollout guard  *)
(* that counts the verdicts.  A transport reads the key ring when it is    *)
(* built and never again; keys are rotated and revoked in the file, by a   *)
(* VendorAckKeyring that reads it, changes one thing and writes it back.   *)
(***************************************************************************)
EXTENDS RolloutGuard, Keyring

CONSTANT InitialRings      \* what the key ring file may hold at first

KeyFile == [Vendors -> KeyRecord]

ASSUME GateAssumption == InitialRings \subseteq KeyFile

VARIABLES
    keyFile,    \* the key ring file
    ring,       \* the copy of each transport, _keyring
    signer,     \* the keys of the acknowledgement accepted last, none or one
    gone,       \* history: the keys that were ever revoked
    barred      \* history: those revoked before a transport was built

keyring == <<keyFile, ring, signer, gone, barred>>

gateVars == <<vars, keyring>>

GateInit ==
    /\ Init
    /\ keyFile \in InitialRings
    /\ ring = [p \in Processes |-> keyFile]
    /\ signer = [p \in Processes |-> {}]
    /\ gone = [v \in Vendors |-> keyFile[v].revoked]
    /\ barred = [p \in Processes |-> gone]

\* TransportBase.__init__ reads both files.
BuildTransport(p) ==
    /\ Start(p)
    /\ ring' = [ring EXCEPT ![p] = keyFile]
    /\ barred' = [barred EXCEPT ![p] = gone]
    /\ UNCHANGED <<keyFile, signer, gone>>

DropTransport(p) ==
    /\ Stop(p)
    /\ signer' = [signer EXCEPT ![p] = {}]
    /\ UNCHANGED <<keyFile, ring, gone, barred>>

\* _validate_ack_signature, then _validate_cert_binding; a usable key may still
\* not have made the signature.
Verify(p, v, kid, fp) ==
    \/ AckFails(p, v)
    \/ /\ KeyUsable(ring[p][v], kid)
       /\ RefuseRevoked(p, v, fp) \/ CheckPin(p, v, fp)

\* An acknowledgement of vendor v, by key kid, over a connection with
\* certificate fp.
Acknowledge(p, v, kid, fp) ==
    /\ Verify(p, v, kid, fp)
    /\ signer' = [signer EXCEPT ![p] = IF pending'[p].ok THEN {kid} ELSE {}]
    /\ UNCHANGED <<keyFile, ring, gone, barred>>

Count(p) ==
    /\ RecordOutcome(p) \/ AutoRollback(p)
    /\ signer' = [signer EXCEPT ![p] = {}]
    /\ UNCHANGED <<keyFile, ring, gone, barred>>

\* The operations of the pin set, and time.
ElsewhereOnPins ==
    /\ \/ Tick
       \/ \E p \in Processes, v \in Vendors :
             \/ RollbackPins(p, v)
             \/ \E fp \in Prints :
                   \/ RotatePin(p, v, fp) \/ RevokePin(p, v, fp)
                   \/ \E w \in Windows : SchedulePin(p, v, fp, w)
    /\ UNCHANGED keyring

RotateInFile(v, kid) ==
    /\ keyFile' = [keyFile EXCEPT ![v] = RotateKey(@, kid)]
    /\ UNCHANGED <<vars, ring, signer, gone, barred>>

RevokeInFile(v, kid) ==
    /\ keyFile' = [keyFile EXCEPT ![v] = RevokeKey(@, kid)]
    /\ gone' = [gone EXCEPT ![v] = @ \cup {kid}]
    /\ UNCHANGED <<vars, ring, signer, barred>>

GateNext ==
    \/ \E p \in Processes :
          \/ BuildTransport(p) \/ DropTransport(p) \/ Count(p)
          \/ \E v \in Vendors, kid \in KeyIds, fp \in Prints : Acknowledge(p, v, kid, fp)
    \/ \E v \in Vendors, kid \in KeyIds : RotateInFile(v, kid) \/ RevokeInFile(v, kid)
    \/ ElsewhereOnPins

GateSpec == GateInit /\ [][GateNext]_gateVars

-----------------------------------------------------------------------------
(* Properties.                                                             *)

\* A transport accepts no acknowledgement signed by a key that had been revoked
\* at any time before the transport was built, although keys are rotated in and
\* out meanwhile and although it never looks at the file again.
RevokedKeyRefused ==
    \A p \in Processes :
        pending[p].busy /\ pending[p].ok => signer[p] \cap barred[p][pending[p].vendor] = {}

=============================================================================
