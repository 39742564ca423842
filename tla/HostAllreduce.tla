----------------------------- MODULE HostAllreduce -----------------------------
(***************************************************************************)
(* The chunked allreduce of the production patch                           *)
(* (ggml/src/ggml-cuda/allreduce.cu): two GPUs add their partial results   *)
(* through pinned host memory.  Both ranks' kernels for the reductions     *)
(* (chunks) 1, 2, ... wait on the rank's own stream, which runs them in    *)
(* order.  A kernel's blocks run concurrently: each writes its vectors to  *)
(* the rank's staging buffer, signals, spins for the token of the block of *)
(* the same number on the other rank, then adds the other rank's vectors.  *)
(* Staging buffers and tokens are a ring of PoolSize slots, which the host *)
(* reuses without waiting for the devices.                                 *)
(*                                                                         *)
(* One step begins or ends one phase of one block; what a block does in    *)
(* between can meet any step of any other block.                           *)
(***************************************************************************)
EXTENDS Integers

CONSTANTS
  MaxCalls,      \* bound on the reductions
  Sizes,         \* of each reduction, as far as adaptive_blocks tells them apart
  KernelBlocks,  \* kernel_blocks
  Adaptive,      \* adaptive_blocks
  PoolSize,      \* GGML_CUDA_AR_POOL_SIZE
  Vectors,       \* count_vec
  WriteThreads,  \* WRITE_THREADS
  Threads        \* blockDim.x

MaxBlocks == 8     \* GGML_CUDA_AR_KERNEL_BLOCKS_MAX

ASSUME AllreduceAssumption ==
  /\ MaxCalls \in Nat /\ Vectors \in Nat
  /\ Sizes \in [1..MaxCalls -> {"small", "medium", "large"}]
  /\ KernelBlocks \in 1..MaxBlocks /\ Adaptive \in BOOLEAN
  /\ PoolSize \in Nat /\ PoolSize >= 2
  /\ WriteThreads \in Nat \ {0} /\ Threads \in Nat \ {0}

VARIABLES
  call,     \* the reduction each rank's stream is at, 0 before the first
  phase,    \* where each block of its kernel is, "done" if it has no such block
  staged,   \* host_buf: the reduction each vector of each slot belongs to
  arrival   \* arrival: the token in each block's place of each slot

vars == <<call, phase, staged, arrival>>

Ranks == {0, 1}
Peer(r) == 1 - r
Slots == 0..PoolSize - 1
Indices == 0..Vectors - 1
BlockIds == 0..MaxBlocks - 1

\* launch_blocks: at most 8192 elements are small, at most 16384 medium.
Blocks(n) == IF Adaptive /\ Sizes[n] = "small" THEN 1
             ELSE IF Adaptive /\ Sizes[n] = "medium" /\ KernelBlocks > 2 THEN 2
             ELSE KernelBlocks

\* Mutant: every reduction uses the same slot.
OneSlot(n) == 0
\* ggml_cuda_ar_acquire_slot: the slot of the n-th reduction.  Its token is n.
Slot(n) == (n - 1) % PoolSize

\* Vectors are dealt out to the threads of all blocks in turn: in phase 1 to
\* the first WriteThreads threads of each block, in phase 3 to all of them.
Dealt(i, threads, blocks) == (i \div threads) % blocks
WriteStripe(n, b) == {i \in Indices : Dealt(i, WriteThreads, Blocks(n)) = b}
ReadStripe(n, b) == {i \in Indices : Dealt(i, Threads, Blocks(n)) = b}

Torn == -1     \* being written

-------------------------------------------------------------------------------
(* A rank's stream and the blocks of its kernel                            *)

Finished(r) == \A b \in BlockIds : phase[r][b] = "done"

\* The stream starts the kernel of the next reduction when the last one ended.
StartKernel(r) ==
  /\ Finished(r) /\ call[r] < MaxCalls
  /\ call' = [call EXCEPT ![r] = @ + 1]
  /\ phase' = [phase EXCEPT ![r] =
       [b \in BlockIds |-> IF b < Blocks(call[r] + 1) THEN "start" ELSE "done"]]
  /\ UNCHANGED <<staged, arrival>>

Moves(r, b, from, to) ==
  /\ phase[r][b] = from
  /\ phase' = [phase EXCEPT ![r][b] = to]

\* What r's staging slot is after a block has put value into its stripe.
Filled(r, b, value) ==
  [staged EXCEPT ![r][Slot(call[r])] =
     [i \in Indices |-> IF i \in WriteStripe(call[r], b) THEN value ELSE @[i]]]

\* Phase 1 begins: the first vectors may reach the host at any time.
BeginWrite(r, b) ==
  /\ Moves(r, b, "start", "write")
  /\ staged' = Filled(r, b, Torn)
  /\ UNCHANGED <<call, arrival>>

\* Mutant: only a block that wrote something signals.
SignalIfWrote(r, b) ==
  /\ Moves(r, b, "write", "wait")
  /\ staged' = Filled(r, b, call[r])
  /\ arrival' = IF WriteStripe(call[r], b) = {} THEN arrival
                ELSE [arrival EXCEPT ![r][Slot(call[r])][b] = call[r]]
  /\ UNCHANGED call
\* The writers' fences have completed phase 1; thread 0 sets the token.
Signal(r, b) ==
  /\ Moves(r, b, "write", "wait")
  /\ staged' = Filled(r, b, call[r])
  /\ arrival' = [arrival EXCEPT ![r][Slot(call[r])][b] = call[r]]
  /\ UNCHANGED call

\* Mutant: any token of the slot will do.
SeesAnyToken(r, b) ==
  /\ Moves(r, b, "wait", "read")
  /\ arrival[Peer(r)][Slot(call[r])][b] # 0
  /\ UNCHANGED <<call, staged, arrival>>
\* while (signal_get(other_slot) != token): phase 3 begins.
SeesToken(r, b) ==
  /\ Moves(r, b, "wait", "read")
  /\ arrival[Peer(r)][Slot(call[r])][b] = call[r]
  /\ UNCHANGED <<call, staged, arrival>>

\* Phase 3 ends: the block has added its vectors.
EndRead(r, b) ==
  /\ Moves(r, b, "read", "done")
  /\ UNCHANGED <<call, staged, arrival>>

-------------------------------------------------------------------------------
Init ==
  /\ call = [r \in Ranks |-> 0]
  /\ phase = [r \in Ranks |-> [b \in BlockIds |-> "done"]]
  /\ staged = [r \in Ranks |-> [s \in Slots |-> [i \in Indices |-> 0]]]
  /\ arrival = [r \in Ranks |-> [s \in Slots |-> [b \in BlockIds |-> 0]]]

Block(r, b) == \/ BeginWrite(r, b) \/ Signal(r, b)
               \/ SeesToken(r, b) \/ EndRead(r, b)
Rank(r) == StartKernel(r) \/ \E b \in BlockIds : Block(r, b)

Next == \E r \in Ranks : Rank(r)

Spec == Init /\ [][Next]_vars

\* A kernel whose predecessor has ended gets its device, all its blocks are
\* resident (there are at most MaxBlocks), and each of them runs on.
FairSpec ==
  /\ Spec
  /\ \A r \in Ranks : WF_vars(StartKernel(r))
  /\ \A r \in Ranks, b \in BlockIds : WF_vars(Block(r, b))

-------------------------------------------------------------------------------
Phases == {"start", "write", "wait", "read", "done"}

TypeOK ==
  /\ call \in [Ranks -> 0..MaxCalls]
  /\ phase \in [Ranks -> [BlockIds -> Phases]]
  /\ staged \in [Ranks -> [Slots -> [Indices -> Torn..MaxCalls]]]
  /\ arrival \in [Ranks -> [Slots -> [BlockIds -> 0..MaxCalls]]]

\* "both ranks have consumed slot N before either can overwrite it for N+2"
\* (production-current-2026-08-29.patch:1962-1964): while a block reads the
\* other rank's slot, the other rank is at the same reduction or at another slot.
RingSafe ==
  \A r \in Ranks, b \in BlockIds :
    phase[r][b] = "read" /\ call[Peer(r)] # call[r]
      => Slot(call[Peer(r)]) # Slot(call[r])

\* What the token of a block stands for: the vectors that the block of the same
\* number on the other rank has written are there, whole, while they are read.
StripeReady ==
  \A r \in Ranks, b \in BlockIds :
    phase[r][b] = "read" =>
      \A i \in WriteStripe(call[r], b) :
        staged[Peer(r)][Slot(call[r])][i] = call[r]

\* "Each block stripes a disjoint slice of the data and synchronizes through
\* its own arrival-token slot" (production-current-2026-08-29.patch:1525-1527):
\* whatever a block adds is the other rank's contribution to this reduction.
ReadsContribution ==
  \A r \in Ranks, b \in BlockIds :
    phase[r][b] = "read" =>
      \A i \in ReadStripe(call[r], b) :
        staged[Peer(r)][Slot(call[r])][i] = call[r]

\* The reductions are rendezvous: neither rank leaves one that the other has
\* not entered.
Meeting == INSTANCE Rendezvous
             WITH entered <- call,
                  left <- [r \in Ranks |-> IF Finished(r) THEN call[r]
                                           ELSE call[r] - 1]
MeetingSpec == Meeting!Spec

\* No block spins for ever: a token is not overwritten before the other rank
\* has seen it, whatever numbers of blocks the reductions have.
AllReduced == <>(\A r \in Ranks : call[r] = MaxCalls /\ Finished(r))
===============================================================================
