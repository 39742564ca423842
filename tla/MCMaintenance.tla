--------------------------- MODULE MCMaintenance ---------------------------
(* Instances of Maintenance for TLC: which kinds of fault each run admits,  *)
(* given to the constants by the .cfg files.                                *)
EXTENDS Maintenance

\* The two findings are each about one kind of fault.
StopLost == {"stopLost"}
EditRace == {"editRace"}
=============================================================================
