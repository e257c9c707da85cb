---------------------------- MODULE MCRolloutGuard ----------------------------
(* Constants for the model checker: pin files as they are shipped.          *)
EXTENDS RolloutGuard

CONSTANTS p1, v1, f1, f2

\* One pin in use that expires, its successor scheduled, both on the plain list.
Shipped ==
    [active   |-> {[fp |-> f1, from |-> 0, until |-> 0]},
     next     |-> {[fp |-> f2, from |-> 1, until |-> 2]},
     previous |-> {}, allowed |-> {f1, f2}, revoked |-> {}]

\* A vendor nobody entered yet.
Unknown ==
    [active |-> {}, next |-> {}, previous |-> {}, allowed |-> {}, revoked |-> {}]

Files == [Vendors -> {Shipped, Unknown}]

Later == {<<2, 3>>}

=============================================================================
