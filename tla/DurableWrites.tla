--------------------------- MODULE DurableWrites ---------------------------
(***************************************************************************)
(* What the storage engine promises of a write (include/leveldb/options.h, *)
(* WriteOptions): without logs, tables, versions and compactions, it keeps *)
(* a set of writes.  A write that was acknowledged stays; when the machine *)
(* crashes only the ones acknowledged with sync do, when the process does  *)
(* all of them.  A write whose outcome nobody was told may show up after a *)
(* crash, but not once the database has been opened again.                 *)
(***************************************************************************)
CONSTANT WriteId

VARIABLES
  asked,  \* writes handed in and not decided: in flight, or failed
  db,     \* the writes a read can see, or would after the next open
  kept    \* those acknowledged with sync

vars == <<asked, db, kept>>

Init == asked = {} /\ db = {} /\ kept = {}

Ask(w) ==
  /\ w \notin asked \cup db
  /\ asked' = asked \cup {w}
  /\ UNCHANGED <<db, kept>>

\* A group of writes takes effect at once.
Commit(W, synced) ==
  /\ W # {} /\ W \subseteq asked
  /\ synced \subseteq W
  /\ asked' = asked \ W
  /\ db' = db \cup W
  /\ kept' = kept \cup synced

\* Everybody who was waiting is gone.
ProcessCrash ==
  /\ \E W \in SUBSET asked : db' = db \cup W
  /\ UNCHANGED <<asked, kept>>

MachineCrash ==
  /\ \E W \in SUBSET (db \cup asked) : db' = W
  /\ kept \subseteq db'
  /\ UNCHANGED <<asked, kept>>

\* The database is opened: what became of the undecided is settled.
Settle == asked' = {} /\ UNCHANGED <<db, kept>>

Next ==
  \/ \E w \in WriteId : Ask(w)
  \/ \E W \in SUBSET asked : \E synced \in SUBSET W : Commit(W, synced)
  \/ ProcessCrash
  \/ MachineCrash
  \/ Settle

Spec == Init /\ [][Next]_vars
=============================================================================
