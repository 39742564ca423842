------------------------------ MODULE Checkpoints ------------------------------
(***************************************************************************)
(* What scripts/kv-cache-manager.py promises a reader of its directory,    *)
(* abstracted from names, renames, calls and failures: a newest checkpoint *)
(* of the conversation, each of one that has been, and, but for the        *)
(* instants in which they rotate or after a rotation that was cut off, the *)
(* one before it.  Module KvCacheManager is shown to keep it.              *)
(***************************************************************************)
EXTENDS Naturals

VARIABLES
  made,      \* conversations there have been, numbered from 1
  newest,    \* the one the newest checkpoint is of
  older      \* the one the checkpoint before it is of

vars == <<made, newest, older>>

None == 0

Init == made = 0 /\ newest = None /\ older = None

Make == made' = made + 1 /\ UNCHANGED <<newest, older>>

\* The older checkpoint goes first: there is always the newest one.
Drop == older' = None /\ UNCHANGED <<made, newest>>

Install(c) ==
  /\ c >= newest
  /\ newest' = c /\ older' = newest
  /\ UNCHANGED made

Next == Make \/ Drop \/ \E c \in 1..made : Install(c)

Spec == Init /\ [][Next]_vars
=============================================================================
