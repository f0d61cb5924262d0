------------------------------ MODULE MCStore ------------------------------
(***************************************************************************)
(* Instances of Store for TLC.                                             *)
(***************************************************************************)
EXTENDS Store

CONSTANTS t1, t2, r

Threads == {t1, t2}
Readers == {r}

Instance(w, f, r0, c, e) ==
  [writes |-> w, flushes |-> f, reads |-> r0, crashes |-> c, faults |-> e]

SomeInstances ==
  {Instance(3, 0, 0, 1, 0), Instance(2, 0, 0, 2, 1), Instance(2, 0, 1, 1, 2),
   Instance(1, 1, 1, 2, 1), Instance(2, 1, 0, 1, 0)}
=============================================================================
