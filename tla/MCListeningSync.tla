-------------------------- MODULE MCListeningSync --------------------------
(***************************************************************************)
(* Instances of ListeningSync for TLC.                                     *)
(***************************************************************************)
EXTENDS ListeningSync, TLC

CONSTANTS phone, tablet

Devices == {phone, tablet}

\* Sound for the properties that a single step or state violates.
DeviceSymmetry == Permutations(Devices)

Instance(n, t, r) ==
  [answers |-> TRUE, records |-> n, ticks |-> t, time |-> 1, observers |-> 1,
   restarts |-> r, pending |-> 1]

\* Two records of the one podcast; one record whose position is made, changed
\* and saved before a restart; and both with a tick only.
SomeInstances == {Instance(2, 2, 0), Instance(1, 2, 1), Instance(2, 1, 1)}

\* One record, a reconnect, and requests that are never answered.
Echoes == {[Instance(1, 2, 0) EXCEPT !.answers = FALSE, !.observers = 2]}
=============================================================================
