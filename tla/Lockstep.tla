------------------------------- MODULE Lockstep -------------------------------
(***************************************************************************)
(* What ggml_backend_meta_graph_compute promises about the two devices: of *)
(* a call's subgraphs each device is given each one once, in order; a      *)
(* device gets the next one only after the partial results of the last     *)
(* were reduced, for which both devices must have got it; and the answer   *)
(* is a success exactly when every launch of the call succeeded.           *)
(***************************************************************************)
EXTENDS Naturals

CONSTANTS Ranks,      \* the devices
          Subgraphs   \* number of subgraphs in a call's graph

VARIABLES launches,   \* how often each device was given each subgraph
          failed,     \* the launches <<rank, subgraph>> that failed
          reduced,    \* number of subgraphs whose results were reduced
          answer      \* what the last call answered, or "running"

vars == <<launches, failed, reduced, answer>>

Nothing == [r \in Ranks |-> [s \in 0..Subgraphs - 1 |-> 0]]

Init ==
  /\ launches = Nothing
  /\ failed = {}
  /\ reduced = 0
  /\ answer = "success"

Begin ==
  /\ answer # "running"
  /\ launches' = Nothing
  /\ failed' = {}
  /\ reduced' = 0
  /\ answer' = "running"

Launch(r) ==
  /\ answer = "running"
  /\ launches[r][reduced] = 0
  /\ launches' = [launches EXCEPT ![r][reduced] = 1]
  /\ failed' \in {failed, failed \cup {<<r, reduced>>}}
  /\ UNCHANGED <<reduced, answer>>

BothLaunched == \A r \in Ranks : launches[r][reduced] = 1

Reduce ==
  /\ answer = "running"
  /\ BothLaunched
  /\ failed = {}
  /\ reduced + 1 < Subgraphs
  /\ reduced' = reduced + 1
  /\ UNCHANGED <<launches, failed, answer>>

Answer ==
  /\ answer = "running"
  /\ BothLaunched
  /\ \/ /\ failed # {}
        /\ answer' = "failure"
     \/ /\ failed = {}
        /\ reduced + 1 = Subgraphs
        /\ answer' = "success"
  /\ UNCHANGED <<launches, failed, reduced>>

Next == Begin \/ (\E r \in Ranks : Launch(r)) \/ Reduce \/ Answer

Spec == Init /\ [][Next]_vars
===============================================================================
