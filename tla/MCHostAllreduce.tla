--------------------------- MODULE MCHostAllreduce ---------------------------
(* Instances of HostAllreduce for TLC: sizes of consecutive reductions.      *)
EXTENDS HostAllreduce

\* Kernels of one, three and two blocks follow one another in every slot.
MixedSizes == <<"small", "large", "medium", "small", "large">>
LargeSizes == <<"large", "large">>
=============================================================================
