---------------------------- MODULE ServiceWindow ----------------------------
(***************************************************************************)
(* What a maintenance window promises the clients of the public API,       *)
(* abstracted from hosts, scripts, timers and failures: an ingress, a      *)
(* server behind it and the requests inside.  maintenance_ab.py:10-21      *)
(* lists the promise; module Maintenance is shown to keep it.              *)
(***************************************************************************)
EXTENDS Naturals

VARIABLES
  open,     \* the ingress forwards requests
  serving,  \* production answers them
  pending   \* requests let in and not answered

vars == <<open, serving, pending>>

Init == open = TRUE /\ serving = TRUE /\ pending = 0

Admit == /\ open /\ serving
         /\ pending' = pending + 1
         /\ UNCHANGED <<open, serving>>

Answer == /\ serving /\ pending > 0
          /\ pending' = pending - 1
          /\ UNCHANGED <<open, serving>>

Close == open /\ open' = FALSE /\ UNCHANGED <<serving, pending>>

\* Production leaves service only behind a closed, drained ingress.
Stop == /\ ~open /\ serving /\ pending = 0
        /\ serving' = FALSE
        /\ UNCHANGED <<open, pending>>

Resume == ~serving /\ serving' = TRUE /\ UNCHANGED <<open, pending>>

\* The ingress reopens only on a production that serves.
Reopen == ~open /\ serving /\ open' = TRUE /\ UNCHANGED <<serving, pending>>

Next == Admit \/ Answer \/ Close \/ Stop \/ Resume \/ Reopen

Spec == Init /\ [][Next]_vars
=============================================================================
