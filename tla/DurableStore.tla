---------------------------- MODULE DurableStore ----------------------------
(***************************************************************************)
(* What a client of hwbrapsqlite is promised, whatever the lock, the       *)
(* transaction and the commit thread do: it reads and writes one store;    *)
(* from time to time the store is written out whole; closing it loses      *)
(* nothing; only a crash takes it back, to what was last written out.      *)
(***************************************************************************)
EXTENDS Naturals

CONSTANTS Value, InitialDisk

VARIABLES
  mem,      \* the store as its clients see it
  disk,     \* what would be found after a crash
  up,       \* the store is open
  crashes   \* the crashes so far

vars == << mem, disk, up, crashes >>

Init == mem = InitialDisk /\ disk = InitialDisk /\ up = FALSE /\ crashes = 0

Open == ~up /\ up' = TRUE /\ mem' = disk /\ UNCHANGED << disk, crashes >>

\* A write goes to the disk at once, or with a later Commit
Write ==
  /\ up
  /\ mem' \in Value
  /\ disk' \in {disk, mem'}
  /\ UNCHANGED << up, crashes >>

Commit == up /\ disk' = mem /\ UNCHANGED << mem, up, crashes >>

Close == up /\ mem = disk /\ up' = FALSE /\ UNCHANGED << mem, disk, crashes >>

Crash == crashes' = crashes + 1 /\ up' = FALSE /\ mem' = disk /\ UNCHANGED disk

Next == Open \/ Write \/ Commit \/ Close \/ Crash

Spec == Init /\ [][Next]_vars
=============================================================================
