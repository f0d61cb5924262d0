------------------------- MODULE DownloadLifecycle -------------------------
(***************************************************************************)
(* What the download service promises of an episode, without tasks, tables *)
(* and queues: it is absent, loading or stored.  A stored episode is never *)
(* loaded again before it was removed, a loading one is not given up while *)
(* the process lives (there is no cancellation: removing a favourite does  *)
(* not stop its download), and a transfer left over from an earlier        *)
(* process, or one whose table entry was lost, may still store an episode. *)
(***************************************************************************)
CONSTANT Url

VARIABLE phase

Phase == {"absent", "loading", "stored"}

Move(u, from, to) == phase[u] = from /\ phase' = [phase EXCEPT ![u] = to]

Begin(u)    == Move(u, "absent", "loading")
Complete(u) == Move(u, "loading", "stored")
Remove(u)   == Move(u, "stored", "absent")
Arrive(u)   == Move(u, "absent", "stored")

\* The file was removed in the instant between its copying and the end.
Withdraw(u) == Move(u, "loading", "absent")

\* A new process remembers no download: only what is stored counts.
Forget ==
  /\ phase' \in [Url -> {"absent", "stored"}]
  /\ \A u \in Url : phase[u] # "loading" => phase'[u] = phase[u]

Init == phase = [u \in Url |-> "absent"]

Next ==
  \/ \E u \in Url : Begin(u) \/ Complete(u) \/ Remove(u) \/ Arrive(u) \/ Withdraw(u)
  \/ Forget

Spec == Init /\ [][Next]_phase
=============================================================================
