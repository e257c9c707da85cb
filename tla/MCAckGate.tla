------------------------------ MODULE MCAckGate ------------------------------
(* Constants for the model checker: pin files and key rings as they ship.    *)
EXTENDS AckGate

CONSTANTS p1, v1, f1, f2, k1

\* One pin in use that expires, its successor scheduled, both on the plain list.
Shipped ==
    [active   |-> {[fp |-> f1, from |-> 0, until |-> 0]},
     next     |-> {[fp |-> f2, from |-> 1, until |-> 2]},
     previous |-> {}, allowed |-> {f1, f2}, revoked |-> {}]

\* A vendor nobody entered yet.
Unknown ==
    [active |-> {}, next |-> {}, previous |-> {}, allowed |-> {}, revoked |-> {}]

Files == [Vendors -> {Shipped, Unknown}]

Later == {<<2, 3>>}

\* No key yet: the first one is still to be rotated in.
Rings == [Vendors -> {[keys |-> {}, revoked |-> {}]}]

=============================================================================
