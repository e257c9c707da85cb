------------------------------- MODULE CertPins -------------------------------
(***************************************************************************)
(* The record VendorCertPinset keeps for one vendor, and what each of its  *)
(* operations makes of it.  Lists of pins are sets: their order decides    *)
(* nothing.  An unknown vendor is the empty record, refused alike.         *)
(***************************************************************************)
EXTENDS Integers

CONSTANTS
    Prints,     \* certificate fingerprints
    MaxTime     \* bound: the clock

ASSUME ClockAssumption == MaxTime \in Nat

\* not_after None; not_before None is time 0.
Forever == MaxTime + 1

Pin == [fp : Prints, from : Nat, until : Nat]

VendorRecord ==
    [active : SUBSET Pin, next : SUBSET Pin, previous : SUBSET Pin,
     allowed : SUBSET Prints, revoked : SUBSET Prints]

\* _valid_pin_fingerprint: both bounds are inclusive.
Valid(pins, t) == {pin \in pins : pin.from <= t /\ t <= pin.until}

PrintsOf(pins) == {pin.fp : pin \in pins}

\* _collect_allowed_fingerprints: the plain list counts when no pin is valid.
Allowed(r, t) ==
    LET pinned == PrintsOf(Valid(r.active \cup r.next, t))
    IN  IF pinned = {} THEN r.allowed ELSE pinned

\* Mutant: the cutover empties the whole of next.
CutoverDropsNext(r, t) ==
    IF Valid(r.active, t) = {} /\ Valid(r.next, t) # {}
    THEN [r EXCEPT !.active = Valid(r.next, t), !.next = {}]
    ELSE [r EXCEPT !.active = Valid(r.active, t)]

\* _auto_cutover: active keeps its valid pins; when none is left the valid pins
\* of next take over and the old active pins, if any, become the previous ones.
Cutover(r, t) ==
    LET live  == Valid(r.active, t)
        ready == Valid(r.next, t)
    IN  IF live = {} /\ ready # {}
        THEN [r EXCEPT !.active = ready, !.next = @ \ ready,
                       !.previous = IF r.active = {} THEN @ ELSE r.active]
        ELSE [r EXCEPT !.active = live]

\* Mutant: rotating to a revoked fingerprint reinstates it.
RotateReinstates(r, fp) ==
    [r EXCEPT !.active = @ \cup {[fp |-> fp, from |-> 0, until |-> Forever]},
              !.allowed = @ \cup {fp}, !.revoked = @ \ {fp}]

\* rotate_vendor_pin
Rotate(r, fp) ==
    [r EXCEPT !.allowed = @ \cup {fp},
              !.active = IF fp \in PrintsOf(@) THEN @
                         ELSE @ \cup {[fp |-> fp, from |-> 0, until |-> Forever]}]

\* schedule_next_pin
Schedule(r, pin) ==
    [r EXCEPT !.next = IF pin.fp \in PrintsOf(@) THEN @ ELSE @ \cup {pin}]

\* revoke_vendor_pin; the pin itself stays where it is.
Revoke(r, fp) == [r EXCEPT !.revoked = @ \cup {fp}]

\* rollback_to_previous_active, which raises unless there are previous pins.
Rollback(r) ==
    [r EXCEPT !.next = r.active \cup @, !.active = r.previous, !.previous = {}]

=============================================================================
