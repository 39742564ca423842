-------------------------- MODULE HostAllreduceProofs --------------------------
(***************************************************************************)
(* Proofs about HostAllreduce, for every number of reductions, of vectors, *)
(* of threads and of slots (at least two).                                 *)
(*                                                                         *)
(* The invariant: a block past its token proves that the other rank has    *)
(* entered the reduction and its block has written (Met); hence no rank is *)
(* more than one reduction ahead (Close), and the slot of the reduction    *)
(* before the present one still holds it (Kept).                           *)
(***************************************************************************)
EXTENDS HostAllreduce, TLAPS

Written(r, n, b) ==
  \A i \in WriteStripe(n, b) : staged[r][Slot(n)][i] = n

\* Tokens come from reductions entered, and that of the present one is in
\* place only if the block has signalled.
Tokens ==
  \A r \in Ranks, b \in BlockIds :
    /\ \A s \in Slots : arrival[r][s][b] <= call[r]
    /\ phase[r][b] \in {"start", "write"} /\ b < Blocks(call[r])
         => arrival[r][Slot(call[r])][b] < call[r]

\* Blocks a kernel does not have are done.
Absent ==
  \A r \in Ranks, b \in BlockIds :
    phase[r][b] # "done" => call[r] >= 1 /\ b < Blocks(call[r])

Present ==
  \A r \in Ranks, b \in BlockIds :
    call[r] >= 1 /\ b < Blocks(call[r]) /\ phase[r][b] \in {"wait", "read", "done"}
      => Written(r, call[r], b)

Met ==
  \A r \in Ranks, b \in BlockIds :
    call[r] >= 1 /\ b < Blocks(call[r]) /\ phase[r][b] \in {"read", "done"}
      => \/ call[Peer(r)] > call[r]
         \/ /\ call[Peer(r)] = call[r]
            /\ phase[Peer(r)][b] \in {"wait", "read", "done"}

Close == \A r \in Ranks : call[r] <= call[Peer(r)] + 1

Kept ==
  \A r \in Ranks : \A b \in BlockIds :
    call[r] >= 2 /\ b < Blocks(call[r] - 1) => Written(r, call[r] - 1, b)

IInv == TypeOK /\ Tokens /\ Absent /\ Present /\ Met /\ Close /\ Kept

-------------------------------------------------------------------------------
\* Consecutive reductions use different slots of the ring.
LEMMA SlotsAlternate ==
  ASSUME NEW n \in Nat \ {0}
  PROVE  Slot(n) \in Slots /\ Slot(n + 1) \in Slots /\ Slot(n) # Slot(n + 1)
BY AllreduceAssumption DEF Slot, Slots

\* The numbers of blocks and the stripes are what their names say.
LEMMA BlocksRange ==
  ASSUME NEW n \in 1..MaxCalls
  PROVE  Blocks(n) \in 1..MaxBlocks
BY AllreduceAssumption DEF Blocks, MaxBlocks

LEMMA PeerOther ==
  ASSUME NEW r \in Ranks
  PROVE  Peer(r) \in Ranks /\ Peer(r) # r /\ Peer(Peer(r)) = r
BY DEF Ranks, Peer

\* A vector is written by one block only.
LEMMA StripesDisjoint ==
  ASSUME NEW n, NEW b, NEW c, NEW i \in WriteStripe(n, b), i \in WriteStripe(n, c)
  PROVE  b = c
BY DEF WriteStripe

\* What one block's writing changes, vector by vector.
LEMMA FilledVectors ==
  ASSUME TypeOK, NEW r \in Ranks, NEW b \in BlockIds, NEW value \in Torn..MaxCalls,
         call[r] >= 1
  PROVE  /\ Filled(r, b, value) \in [Ranks -> [Slots -> [Indices -> Torn..MaxCalls]]]
         /\ \A q \in Ranks, s \in Slots, i \in Indices :
              Filled(r, b, value)[q][s][i] =
                IF q = r /\ s = Slot(call[r]) /\ i \in WriteStripe(call[r], b)
                THEN value ELSE staged[q][s][i]
<1>1. Slot(call[r]) \in Slots
  BY SlotsAlternate DEF TypeOK
<1> QED
  BY <1>1 DEF TypeOK, Filled

-------------------------------------------------------------------------------
\* Type correctness: calls, phases, tokens and staged vectors stay in range.
LEMMA TypeInit == Init => TypeOK
BY AllreduceAssumption DEF Init, TypeOK, Phases, Torn, MaxBlocks

LEMMA TypeStep == TypeOK /\ Absent /\ [Next]_vars => TypeOK'
<1> SUFFICES ASSUME TypeOK, Absent, [Next]_vars PROVE TypeOK'
  OBVIOUS
<1>1. CASE UNCHANGED vars
  BY <1>1 DEF vars, TypeOK
<1>2. ASSUME NEW r \in Ranks, StartKernel(r) PROVE TypeOK'
  <2>1. call' \in [Ranks -> 0..MaxCalls]
    BY <1>2, AllreduceAssumption DEF StartKernel, TypeOK
  <2>2. phase' \in [Ranks -> [BlockIds -> Phases]]
    <3> DEFINE started == [b \in BlockIds |->
                 IF b < Blocks(call[r] + 1) THEN "start" ELSE "done"]
    <3>1. started \in [BlockIds -> Phases]
      BY DEF Phases
    <3> QED
      BY <1>2, <3>1 DEF StartKernel, TypeOK
  <2> QED
    BY <1>2, <2>1, <2>2 DEF StartKernel, TypeOK
<1>3. ASSUME NEW r \in Ranks, NEW b \in BlockIds, phase[r][b] \in {"start", "write"}
      PROVE  call[r] >= 1 /\ call[r] \in 0..MaxCalls /\ Torn \in Torn..MaxCalls
  BY <1>3, AllreduceAssumption DEF Absent, TypeOK, Torn
<1>4. ASSUME NEW r \in Ranks, NEW b \in BlockIds, BeginWrite(r, b) PROVE TypeOK'
  BY <1>3, <1>4, FilledVectors DEF BeginWrite, Moves, TypeOK, Phases
<1>5. ASSUME NEW r \in Ranks, NEW b \in BlockIds, Signal(r, b) PROVE TypeOK'
  <2>1. call[r] >= 1 /\ call[r] \in Torn..MaxCalls /\ Slot(call[r]) \in Slots
    BY <1>3, <1>5, SlotsAlternate DEF Signal, Moves, TypeOK, Torn
  <2>2. staged' \in [Ranks -> [Slots -> [Indices -> Torn..MaxCalls]]]
    BY <1>5, <2>1, FilledVectors DEF Signal
  <2>3. arrival' \in [Ranks -> [Slots -> [BlockIds -> 0..MaxCalls]]]
    BY <1>5, <2>1 DEF Signal, TypeOK, Torn
  <2> QED
    BY <1>5, <2>2, <2>3 DEF Signal, Moves, TypeOK, Phases
<1>6. ASSUME NEW r \in Ranks, NEW b \in BlockIds, SeesToken(r, b) PROVE TypeOK'
  BY <1>6 DEF SeesToken, Moves, TypeOK, Phases
<1>7. ASSUME NEW r \in Ranks, NEW b \in BlockIds, EndRead(r, b) PROVE TypeOK'
  BY <1>7 DEF EndRead, Moves, TypeOK, Phases
<1> QED
  BY <1>1, <1>2, <1>4, <1>5, <1>6, <1>7 DEF Next, Rank, Block

-------------------------------------------------------------------------------
\* The inductive invariant.
LEMMA InvInit == Init => IInv
<1> SUFFICES ASSUME Init PROVE IInv
  OBVIOUS
<1>1. TypeOK
  BY TypeInit
<1>2. \A r \in Ranks : call[r] = 0
  BY DEF Init
<1>3. \A r \in Ranks, b \in BlockIds : phase[r][b] = "done"
  BY DEF Init
<1>4. \A r \in Ranks, b \in BlockIds, s \in Slots : arrival[r][s][b] = 0
  BY DEF Init
<1>5. Tokens /\ Absent
  BY <1>2, <1>3, <1>4 DEF Tokens, Absent
<1>6. Present /\ Met /\ Close /\ Kept
  BY <1>2, PeerOther DEF Present, Met, Close, Kept
<1> QED
  BY <1>1, <1>5, <1>6 DEF IInv

\* A rank that starts its next kernel has met the other one in the last, and
\* leaves that one's slot as it is.
LEMMA StartStep ==
  ASSUME IInv, TypeOK', NEW r \in Ranks, StartKernel(r)
  PROVE  IInv'
<1> DEFINE p == Peer(r)
<1>p. p \in Ranks /\ p # r /\ Peer(p) = r
  BY PeerOther
<1>t. /\ TypeOK
      /\ call[r] \in Nat /\ call[p] \in Nat /\ call[r] < MaxCalls
      /\ \A q \in Ranks : call[q] \in 0..MaxCalls
  BY <1>p, AllreduceAssumption DEF IInv, TypeOK, StartKernel
<1>c. call'[r] = call[r] + 1 /\ call'[p] = call[p] /\ call' \in [Ranks -> 0..MaxCalls]
  BY <1>p, <1>t DEF StartKernel, TypeOK
<1>h. /\ \A b \in BlockIds : phase[r][b] = "done"
      /\ \A b \in BlockIds : phase'[r][b] =
           IF b < Blocks(call[r] + 1) THEN "start" ELSE "done"
      /\ phase'[p] = phase[p]
  BY <1>p, <1>t DEF StartKernel, Finished, TypeOK
<1>u. staged' = staged /\ arrival' = arrival
  BY DEF StartKernel
<1>q. \A q \in Ranks : q = r \/ q = p
  BY DEF p, Peer, Ranks
<1>b. call[r] >= 1 => 0 \in BlockIds /\ 0 < Blocks(call[r])
  BY <1>t, BlocksRange DEF BlockIds, MaxBlocks
<1>s. Slot(call[r] + 1) \in Slots
  <2>1. call[r] + 1 \in Nat \ {0}
    BY <1>t
  <2> QED
    BY <2>1, SlotsAlternate
<1>m. call[r] <= call[p]
  <2>1. CASE call[r] = 0
    BY <2>1, <1>t
  <2>2. CASE call[r] >= 1
    <3>1. phase[r][0] = "done"
      BY <1>h, <1>b, <2>2
    <3> QED
      BY <3>1, <1>b, <2>2, <1>t DEF IInv, Met
  <2> QED
    BY <2>1, <2>2, <1>t
<1>1. Tokens'
  <2>1. ASSUME NEW b \in BlockIds, NEW s \in Slots
        PROVE  arrival[r][s][b] <= call[r] /\ arrival[r][s][b] \in Nat
    BY <1>t DEF IInv, Tokens, TypeOK
  <2>2. ASSUME NEW b \in BlockIds, NEW s \in Slots
        PROVE  arrival'[r][s][b] <= call'[r] /\ arrival'[r][s][b] < call'[r]
    BY <2>1, <1>c, <1>u, <1>t
  <2>3. ASSUME NEW b \in BlockIds
        PROVE  /\ \A s \in Slots : arrival'[p][s][b] <= call'[p]
               /\ phase'[p][b] \in {"start", "write"} /\ b < Blocks(call'[p])
                    => arrival'[p][Slot(call'[p])][b] < call'[p]
    BY <1>p, <1>c, <1>h, <1>u DEF IInv, Tokens
  <2> QED
    BY <2>2, <2>3, <1>q, <1>s, <1>c DEF Tokens
<1>2. Absent'
  BY <1>q, <1>c, <1>h, <1>t DEF IInv, Absent
<1>3. Present'
  BY <1>q, <1>c, <1>h, <1>u, <1>t DEF IInv, Present, Written
<1>4. Met'
  <2>1. ASSUME NEW b \in BlockIds, call'[r] >= 1, b < Blocks(call'[r]),
               phase'[r][b] \in {"read", "done"}
        PROVE  FALSE
    BY <2>1, <1>h, <1>c
  <2>2. ASSUME NEW b \in BlockIds, call'[p] >= 1, b < Blocks(call'[p]),
               phase'[p][b] \in {"read", "done"}
        PROVE  call'[r] > call'[p]
    BY <2>2, <1>c, <1>h, <1>p, <1>t DEF IInv, Met
  <2> QED
    BY <2>1, <2>2, <1>q, <1>p DEF Met
<1>5. Close'
  BY <1>m, <1>q, <1>p, <1>c, <1>t DEF IInv, Close
<1>6. Kept'
  <2>1. ASSUME NEW b \in BlockIds, call'[r] >= 2, b < Blocks(call'[r] - 1)
        PROVE  Written(r, call[r] - 1, b)'
    <3>1. call'[r] - 1 = call[r] /\ call[r] >= 1
      BY <2>1, <1>c, <1>t
    <3>2. Written(r, call[r], b)
      BY <2>1, <3>1, <1>h DEF IInv, Present
    <3> QED
      BY <3>1, <3>2, <1>u DEF Written
  <2>2. ASSUME NEW b \in BlockIds, call'[p] >= 2, b < Blocks(call'[p] - 1)
        PROVE  Written(p, call[p] - 1, b)'
    BY <2>2, <1>c, <1>u, <1>p DEF IInv, Kept, Written
  <2> QED
    BY <2>1, <2>2, <1>q DEF Kept
<1> QED
  BY <1>1, <1>2, <1>3, <1>4, <1>5, <1>6 DEF IInv

\* What the two steps that write to the staging slot leave alone: the other
\* rank, the slot of the last reduction and the other blocks' stripes.
LEMMA FilledElsewhere ==
  ASSUME IInv, NEW r \in Ranks, NEW b \in BlockIds, NEW value \in Torn..MaxCalls,
         phase[r][b] # "done", staged' = Filled(r, b, value), call' = call
  PROVE  /\ call[r] >= 1 /\ b < Blocks(call[r])
         /\ \A q \in Ranks, c \in BlockIds :
              /\ (q = r => c # b) /\ call[q] >= 1 /\ Written(q, call[q], c)
                   => Written(q, call[q], c)'
              /\ call[q] >= 2 /\ Written(q, call[q] - 1, c)
                   => Written(q, call[q] - 1, c)'
         /\ value = call[r] => Written(r, call[r], b)'
<1>1. call[r] >= 1 /\ b < Blocks(call[r]) /\ TypeOK /\ \A q \in Ranks : call[q] \in Nat
  BY AllreduceAssumption DEF IInv, Absent, TypeOK
<1>2. \A q \in Ranks, s \in Slots, i \in Indices :
        staged'[q][s][i] =
          IF q = r /\ s = Slot(call[r]) /\ i \in WriteStripe(call[r], b)
          THEN value ELSE staged[q][s][i]
  <2>1. TypeOK /\ call[r] >= 1
    BY <1>1
  <2>2. /\ Filled(r, b, value) \in [Ranks -> [Slots -> [Indices -> Torn..MaxCalls]]]
        /\ \A q \in Ranks, s \in Slots, i \in Indices :
              Filled(r, b, value)[q][s][i] =
                IF q = r /\ s = Slot(call[r]) /\ i \in WriteStripe(call[r], b)
                THEN value ELSE staged[q][s][i]
    BY <2>1, FilledVectors, Zenon
  <2> QED
    BY <2>2
<1>3. \A n, c : WriteStripe(n, c) \subseteq Indices
  BY DEF WriteStripe
<1>4. \A n \in Nat \ {0} : Slot(n) \in Slots
  BY SlotsAlternate
<1>5. ASSUME NEW q \in Ranks, NEW c \in BlockIds, q = r => c # b, call[q] >= 1,
             Written(q, call[q], c)
      PROVE  Written(q, call[q], c)'
  BY <1>1, <1>2, <1>3, <1>4, <1>5, StripesDisjoint DEF Written
<1>6. ASSUME NEW q \in Ranks, NEW c \in BlockIds, call[q] >= 2,
             Written(q, call[q] - 1, c)
      PROVE  Written(q, call[q] - 1, c)'
  <2>1. call[q] - 1 \in Nat \ {0} /\ (call[q] - 1) + 1 = call[q]
    BY <1>1, <1>6
  <2>2. Slot(call[q] - 1) \in Slots /\ Slot(call[q] - 1) # Slot(call[q])
    BY <2>1, SlotsAlternate
  <2> QED
    BY <1>2, <1>3, <1>6, <2>2 DEF Written
<1>7. ASSUME value = call[r] PROVE Written(r, call[r], b)'
  BY <1>1, <1>2, <1>3, <1>4, <1>7 DEF Written
<1> QED
  BY <1>1, <1>5, <1>6, <1>7

\* The steps of a block: its phase moves on, the kernel stays the same.
LEMMA BlockMoves ==
  ASSUME TypeOK, NEW r \in Ranks, NEW b \in BlockIds, NEW from, NEW to,
         Moves(r, b, from, to)
  PROVE  /\ phase[r][b] = from
         /\ \A q \in Ranks, c \in BlockIds :
              phase'[q][c] = IF q = r /\ c = b THEN to ELSE phase[q][c]
BY DEF Moves, TypeOK

LEMMA BeginWriteStep ==
  ASSUME IInv, TypeOK', NEW r \in Ranks, NEW b \in BlockIds, BeginWrite(r, b)
  PROVE  IInv'
<1>0. TypeOK /\ call' = call /\ arrival' = arrival /\ staged' = Filled(r, b, Torn)
  BY DEF IInv, BeginWrite
<1>1. /\ phase[r][b] = "start"
      /\ \A q \in Ranks, c \in BlockIds :
           phase'[q][c] = IF q = r /\ c = b THEN "write" ELSE phase[q][c]
  BY <1>0, BlockMoves DEF BeginWrite
<1>2. /\ call[r] >= 1 /\ b < Blocks(call[r])
      /\ \A q \in Ranks, c \in BlockIds :
           /\ (q = r => c # b) /\ call[q] >= 1 /\ Written(q, call[q], c)
                => Written(q, call[q], c)'
           /\ call[q] >= 2 /\ Written(q, call[q] - 1, c)
                => Written(q, call[q] - 1, c)'
  <2>1. Torn \in Torn..MaxCalls
    BY AllreduceAssumption DEF Torn
  <2> QED
    BY <2>1, <1>0, <1>1, FilledElsewhere
<1>3. Tokens' /\ Close'
  BY <1>0, <1>1, PeerOther DEF IInv, Tokens, Close
<1>4. Absent'
  BY <1>0, <1>1, <1>2 DEF IInv, Absent
<1>5. Present'
  BY <1>0, <1>1, <1>2 DEF IInv, Present
<1>6. Met'
  BY <1>0, <1>1, PeerOther DEF IInv, Met
<1>7. Kept'
  BY <1>0, <1>2 DEF IInv, Kept
<1> QED
  BY <1>3, <1>4, <1>5, <1>6, <1>7 DEF IInv

LEMMA SignalStep ==
  ASSUME IInv, TypeOK', NEW r \in Ranks, NEW b \in BlockIds, Signal(r, b)
  PROVE  IInv'
<1>0. TypeOK /\ call' = call /\ staged' = Filled(r, b, call[r])
  BY DEF IInv, Signal
<1>1. /\ phase[r][b] = "write"
      /\ \A q \in Ranks, c \in BlockIds :
           phase'[q][c] = IF q = r /\ c = b THEN "wait" ELSE phase[q][c]
  BY <1>0, BlockMoves DEF Signal
<1>2. /\ call[r] >= 1 /\ b < Blocks(call[r])
      /\ \A q \in Ranks, c \in BlockIds :
           /\ (q = r => c # b) /\ call[q] >= 1 /\ Written(q, call[q], c)
                => Written(q, call[q], c)'
           /\ call[q] >= 2 /\ Written(q, call[q] - 1, c)
                => Written(q, call[q] - 1, c)'
      /\ Written(r, call[r], b)'
  <2>1. call[r] \in Torn..MaxCalls
    BY <1>0, AllreduceAssumption DEF TypeOK, Torn
  <2> QED
    BY <2>1, <1>0, <1>1, FilledElsewhere
<1>3. \A q \in Ranks, s \in Slots, c \in BlockIds :
        arrival'[q][s][c] = IF q = r /\ s = Slot(call[r]) /\ c = b THEN call[r]
                            ELSE arrival[q][s][c]
  BY <1>0 DEF Signal, TypeOK
<1>4. Tokens'
  <2>1. \A q \in Ranks : call[q] \in Nat /\ (call[q] >= 1 => Slot(call[q]) \in Slots)
    BY <1>0, SlotsAlternate, AllreduceAssumption DEF TypeOK
  <2>2. ASSUME NEW q \in Ranks, NEW c \in BlockIds, NEW s \in Slots
        PROVE  arrival'[q][s][c] <= call'[q]
    BY <1>0, <1>3, <2>1 DEF IInv, Tokens
  <2>3. ASSUME NEW q \in Ranks, NEW c \in BlockIds,
               phase'[q][c] \in {"start", "write"}, c < Blocks(call'[q])
        PROVE  arrival'[q][Slot(call'[q])][c] < call'[q]
    <3>1. phase[q][c] \in {"start", "write"} /\ ~(q = r /\ c = b)
      BY <2>3, <1>1
    <3>2. call[q] >= 1
      BY <3>1 DEF IInv, Absent
    <3> QED
      BY <3>1, <3>2, <2>1, <2>3, <1>0, <1>3 DEF IInv, Tokens
  <2> QED
    BY <2>2, <2>3 DEF Tokens
<1>5. Absent' /\ Close'
  BY <1>0, <1>1, <1>2 DEF IInv, Absent, Close
<1>6. Present'
  BY <1>0, <1>1, <1>2 DEF IInv, Present
<1>7. Met'
  BY <1>0, <1>1, PeerOther DEF IInv, Met
<1>8. Kept'
  BY <1>0, <1>2 DEF IInv, Kept
<1> QED
  BY <1>4, <1>5, <1>6, <1>7, <1>8 DEF IInv

\* The token is the other block's signal in this very reduction.
LEMMA SeesTokenStep ==
  ASSUME IInv, TypeOK', NEW r \in Ranks, NEW b \in BlockIds, SeesToken(r, b)
  PROVE  IInv'
<1>0. TypeOK /\ UNCHANGED <<call, staged, arrival>>
  BY DEF IInv, SeesToken
<1>1. /\ phase[r][b] = "wait"
      /\ \A q \in Ranks, c \in BlockIds :
           phase'[q][c] = IF q = r /\ c = b THEN "read" ELSE phase[q][c]
  BY <1>0, BlockMoves DEF SeesToken
<1>2. /\ call[r] >= 1 /\ b < Blocks(call[r])
      /\ \A q \in Ranks : call[q] \in Nat
  BY <1>0, <1>1, AllreduceAssumption DEF IInv, Absent, TypeOK
<1>3. \/ call[Peer(r)] > call[r]
      \/ /\ call[Peer(r)] = call[r]
         /\ phase[Peer(r)][b] \in {"wait", "read", "done"}
  <2>1. Slot(call[r]) \in Slots /\ arrival[Peer(r)][Slot(call[r])][b] = call[r]
    BY <1>2, SlotsAlternate DEF SeesToken
  <2>2. call[r] <= call[Peer(r)]
    BY <2>1, <1>2, PeerOther DEF IInv, Tokens
  <2>3. ASSUME call[Peer(r)] = call[r] PROVE phase[Peer(r)][b] \notin {"start", "write"}
    BY <2>1, <2>3, <1>2, PeerOther DEF IInv, Tokens
  <2>4. phase[Peer(r)][b] \in {"start", "write", "wait", "read", "done"}
    BY <1>0, PeerOther DEF TypeOK, Phases
  <2>5. call[Peer(r)] \in Nat
    BY <1>2, PeerOther
  <2> QED
    BY <2>2, <2>3, <2>4, <2>5, <1>2
<1>4. Tokens' /\ Absent' /\ Close'
  BY <1>0, <1>1, <1>2 DEF IInv, Tokens, Absent, Close
<1>5. Present' /\ Kept'
  BY <1>0, <1>1 DEF IInv, Present, Kept, Written
<1>6. Met'
  BY <1>0, <1>1, <1>3, PeerOther DEF IInv, Met
<1> QED
  BY <1>4, <1>5, <1>6 DEF IInv

LEMMA EndReadStep ==
  ASSUME IInv, TypeOK', NEW r \in Ranks, NEW b \in BlockIds, EndRead(r, b)
  PROVE  IInv'
<1>0. TypeOK /\ UNCHANGED <<call, staged, arrival>>
  BY DEF IInv, EndRead
<1>1. /\ phase[r][b] = "read"
      /\ \A q \in Ranks, c \in BlockIds :
           phase'[q][c] = IF q = r /\ c = b THEN "done" ELSE phase[q][c]
  BY <1>0, BlockMoves DEF EndRead
<1>2. Tokens' /\ Absent' /\ Close'
  BY <1>0, <1>1 DEF IInv, Tokens, Absent, Close
<1>3. Present' /\ Kept'
  BY <1>0, <1>1 DEF IInv, Present, Kept, Written
<1>4. Met'
  BY <1>0, <1>1, PeerOther DEF IInv, Met
<1> QED
  BY <1>2, <1>3, <1>4 DEF IInv

LEMMA InvStep == IInv /\ [Next]_vars => IInv'
<1> SUFFICES ASSUME IInv, [Next]_vars PROVE IInv'
  OBVIOUS
<1>1. TypeOK'
  BY TypeStep DEF IInv
<1>2. CASE UNCHANGED vars
  BY <1>2 DEF IInv, TypeOK, Tokens, Absent, Present, Met, Close, Kept, Written, vars
<1>3. CASE Next
  BY <1>1, <1>3, StartStep, BeginWriteStep, SignalStep, SeesTokenStep, EndReadStep
  DEF Next, Rank, Block
<1> QED
  BY <1>2, <1>3

THEOREM Invariant == Spec => []IInv
<1> QED
  BY InvInit, InvStep, PTL DEF Spec

-------------------------------------------------------------------------------
\* The results.

\* Every variable keeps its type (the kernels' phases, tokens and vectors).
THEOREM Typing == Spec => []TypeOK
<1>1. IInv => TypeOK
  BY DEF IInv
<1> QED
  BY <1>1, Invariant, PTL

\* The argument of the patch's comment on the ring: with two slots or more, and
\* any mixture of block counts, the host need not wait before it reuses one.
THEOREM RingReuse == Spec => []RingSafe
<1>1. IInv => RingSafe
  <2> SUFFICES ASSUME IInv, NEW r \in Ranks, NEW b \in BlockIds,
                      phase[r][b] = "read", call[Peer(r)] # call[r]
               PROVE  Slot(call[Peer(r)]) # Slot(call[r])
    BY DEF RingSafe
  <2>1. call[r] \in Nat /\ call[Peer(r)] \in Nat
    BY PeerOther, AllreduceAssumption DEF IInv, TypeOK
  <2>2. call[r] >= 1 /\ b < Blocks(call[r])
    BY DEF IInv, Absent
  <2>3. call[Peer(r)] > call[r]
    BY <2>2 DEF IInv, Met
  <2>4. call[Peer(r)] <= call[r] + 1
    BY PeerOther DEF IInv, Close
  <2>5. call[Peer(r)] = call[r] + 1 /\ call[r] \in Nat \ {0}
    BY <2>1, <2>2, <2>3, <2>4
  <2> QED
    BY <2>5, SlotsAlternate
<1> QED
  BY <1>1, Invariant, PTL

\* A block that reads finds what the block of the same number wrote.
LEMMA StripeReadyHolds == IInv => StripeReady
<1> SUFFICES ASSUME IInv, NEW r \in Ranks, NEW b \in BlockIds, phase[r][b] = "read",
                    NEW i \in WriteStripe(call[r], b)
             PROVE  staged[Peer(r)][Slot(call[r])][i] = call[r]
  BY DEF StripeReady
<1>1. call[r] \in Nat /\ call[Peer(r)] \in Nat /\ Peer(r) \in Ranks
  BY PeerOther, AllreduceAssumption DEF IInv, TypeOK
<1>2. call[r] >= 1 /\ b < Blocks(call[r])
  BY DEF IInv, Absent
<1>3. CASE call[Peer(r)] = call[r]
  <2>1. phase[Peer(r)][b] \in {"wait", "read", "done"}
    BY <1>1, <1>2, <1>3 DEF IInv, Met
  <2> QED
    BY <2>1, <1>1, <1>2, <1>3 DEF IInv, Present, Written
<1>4. CASE call[Peer(r)] > call[r]
  <2>1. call[Peer(r)] <= call[r] + 1
    BY PeerOther DEF IInv, Close
  <2>2. call[Peer(r)] - 1 = call[r] /\ call[Peer(r)] >= 2
    BY <2>1, <1>1, <1>2, <1>4
  <2> QED
    BY <2>2, <1>1, <1>2 DEF IInv, Kept, Written
<1> QED
  BY <1>1, <1>2, <1>3, <1>4 DEF IInv, Met

THEOREM StripeSync == Spec => []StripeReady
<1> QED
  BY StripeReadyHolds, Invariant, PTL

\* Where every block reads what the block of its own number wrote, as with one
\* block or with as many writers as readers, all contributions arrive.
THEOREM MatchedStripesSum ==
  ASSUME \A n \in 1..MaxCalls, b \in BlockIds : ReadStripe(n, b) \subseteq WriteStripe(n, b)
  PROVE  Spec => []ReadsContribution
<1>1. IInv => ReadsContribution
  <2> SUFFICES ASSUME IInv, NEW r \in Ranks, NEW b \in BlockIds,
                      phase[r][b] = "read", NEW i \in ReadStripe(call[r], b)
               PROVE  staged[Peer(r)][Slot(call[r])][i] = call[r]
    BY DEF ReadsContribution
  <2>1. call[r] \in 1..MaxCalls
    BY AllreduceAssumption DEF IInv, Absent, TypeOK
  <2> QED
    BY <2>1, StripeReadyHolds DEF StripeReady
<1> QED
  BY <1>1, Invariant, PTL

\* One block deals all vectors to itself in both phases.
THEOREM OneBlockSums ==
  ASSUME \A n \in 1..MaxCalls : Blocks(n) = 1
  PROVE  Spec => []ReadsContribution
<1>1. ASSUME NEW n \in 1..MaxCalls, NEW b \in BlockIds
      PROVE  ReadStripe(n, b) \subseteq WriteStripe(n, b)
  BY AllreduceAssumption DEF ReadStripe, WriteStripe, Dealt, Indices
<1> QED
  BY <1>1, MatchedStripesSum

-------------------------------------------------------------------------------
\* The refinement: starting a kernel enters a reduction, the last block to end
\* leaves it, and every other step is invisible.
Left == [r \in Ranks |-> IF Finished(r) THEN call[r] ELSE call[r] - 1]

LEMMA MeetingInit == Init => Meeting!Init
<1> SUFFICES ASSUME Init PROVE Meeting!Init
  OBVIOUS
<1>1. \A r \in Ranks : Finished(r) /\ call[r] = 0
  BY DEF Init, Finished
<1>2. Left = [r \in Ranks |-> 0]
  BY <1>1 DEF Left
<1>3. call = [r \in Ranks |-> 0]
  BY DEF Init
<1> QED
  BY <1>2, <1>3 DEF Meeting!Init, Left

LEMMA EnterStep ==
  ASSUME IInv, NEW r \in Ranks, StartKernel(r)
  PROVE  Meeting!Enter(r)
<1>1. /\ call \in [Ranks -> 0..MaxCalls] /\ call[r] < MaxCalls /\ Finished(r)
      /\ phase \in [Ranks -> [BlockIds -> Phases]]
      /\ call' = [call EXCEPT ![r] = @ + 1]
  BY DEF IInv, TypeOK, StartKernel
<1>2. call[r] + 1 \in 1..MaxCalls
  BY <1>1, AllreduceAssumption
<1>3. ~Finished(r)'
  <2>1. 0 \in BlockIds /\ 0 < Blocks(call[r] + 1)
    BY <1>2, BlocksRange DEF BlockIds, MaxBlocks
  <2>2. phase'[r][0] = "start"
    BY <1>1, <2>1 DEF StartKernel
  <2> QED
    BY <2>1, <2>2 DEF Finished
<1>4. \A q \in Ranks : q # r => (Finished(q)' <=> Finished(q))
  BY <1>1 DEF Finished, StartKernel
<1>5. Left' = Left
  <2>1. ASSUME NEW q \in Ranks PROVE Left'[q] = Left[q]
    <3>1. CASE q = r
      BY <3>1, <1>1, <1>2, <1>3 DEF Left
    <3>2. CASE q # r
      BY <3>2, <1>1, <1>4 DEF Left
    <3> QED
      BY <3>1, <3>2
  <2> QED
    BY <2>1 DEF Left
<1>6. Left[r] = call[r]
  BY <1>1 DEF Left
<1> QED
  BY <1>1, <1>5, <1>6 DEF Meeting!Enter, Left

LEMMA LeaveStep ==
  ASSUME IInv, NEW r \in Ranks, NEW b \in BlockIds, EndRead(r, b)
  PROVE  Meeting!Leave(r) \/ UNCHANGED <<call, Left>>
<1>1. /\ TypeOK /\ call \in [Ranks -> 0..MaxCalls] /\ call' = call
      /\ \A q \in Ranks : call[q] \in Nat
  BY AllreduceAssumption DEF IInv, TypeOK, EndRead
<1>2. /\ phase[r][b] = "read"
      /\ \A q \in Ranks, c \in BlockIds :
           phase'[q][c] = IF q = r /\ c = b THEN "done" ELSE phase[q][c]
  BY <1>1, BlockMoves DEF EndRead
<1>3. ~Finished(r)
  BY <1>2 DEF Finished
<1>4. \A q \in Ranks : q # r => (Finished(q)' <=> Finished(q))
  BY <1>2 DEF Finished
<1>5. \A q \in Ranks : call[q] >= call[r]
  <2>1. call[Peer(r)] >= call[r]
    <3>1. call[r] >= 1 /\ b < Blocks(call[r])
      BY <1>2 DEF IInv, Absent
    <3>2. call[Peer(r)] > call[r] \/ call[Peer(r)] = call[r]
      BY <3>1, <1>2 DEF IInv, Met
    <3> QED
      BY <3>2, <1>1, PeerOther
  <2> QED
    BY <2>1, <1>1 DEF Peer, Ranks
<1>6. Left[r] = call[r] - 1 /\ Left \in [Ranks -> Int]
  BY <1>1, <1>3 DEF Left
<1>7. CASE Finished(r)'
  <2>1. Left' = [Left EXCEPT ![r] = @ + 1]
    <3>1. ASSUME NEW q \in Ranks PROVE Left'[q] = [Left EXCEPT ![r] = @ + 1][q]
      BY <1>1, <1>4, <1>6, <1>7 DEF Left
    <3> QED
      BY <3>1, <1>6 DEF Left
  <2>2. Left[r] < call[r]
    BY <1>1, <1>6
  <2> QED
    BY <2>1, <2>2, <1>1, <1>5 DEF Meeting!Leave, Left
<1>8. CASE ~Finished(r)'
  <2>1. \A q \in Ranks : Finished(q)' <=> Finished(q)
    BY <1>3, <1>4, <1>8
  <2> QED
    BY <2>1, <1>1 DEF Left
<1> QED
  BY <1>7, <1>8

\* A block that goes on within the kernel leaves its rank unfinished.
LEMMA InsideStep ==
  ASSUME IInv, NEW r \in Ranks, NEW b \in BlockIds,
         BeginWrite(r, b) \/ Signal(r, b) \/ SeesToken(r, b)
  PROVE  UNCHANGED <<call, Left>>
<1>1. TypeOK /\ call' = call
  BY DEF IInv, BeginWrite, Signal, SeesToken
<1>2. PICK from \in {"start", "write", "wait"}, to \in {"write", "wait", "read"} :
        Moves(r, b, from, to)
  BY DEF BeginWrite, Signal, SeesToken
<1>3. /\ phase[r][b] = from
      /\ \A q \in Ranks, c \in BlockIds :
           phase'[q][c] = IF q = r /\ c = b THEN to ELSE phase[q][c]
  BY <1>1, <1>2, BlockMoves
<1>4. \A q \in Ranks : Finished(q)' <=> Finished(q)
  BY <1>3 DEF Finished
<1> QED
  BY <1>1, <1>4 DEF Left

LEMMA MeetingStep == IInv /\ [Next]_vars => [Meeting!Next]_(Meeting!vars)
<1> SUFFICES ASSUME IInv, [Next]_vars PROVE [Meeting!Next]_(Meeting!vars)
  OBVIOUS
<1>1. CASE UNCHANGED vars
  <2>1. \A q \in Ranks : Finished(q)' <=> Finished(q)
    BY <1>1 DEF Finished, vars
  <2> QED
    BY <1>1, <2>1 DEF vars, Meeting!vars, Left
<1>2. ASSUME NEW r \in Ranks, StartKernel(r) PROVE Meeting!Next
  BY <1>2, EnterStep DEF Meeting!Next
<1>3. ASSUME NEW r \in Ranks, NEW b \in BlockIds, Block(r, b)
      PROVE  [Meeting!Next]_(Meeting!vars)
  <2>1. Meeting!Leave(r) \/ UNCHANGED <<call, Left>>
    BY <1>3, LeaveStep, InsideStep DEF Block
  <2> QED
    BY <2>1 DEF Meeting!Next, Meeting!vars, Left
<1> QED
  BY <1>1, <1>2, <1>3 DEF Next, Rank

\* The kernels refine the rendezvous of the comment: no rank leaves a reduction
\* that the other one has not entered.
THEOREM Rendezvousing == Spec => MeetingSpec
<1> QED
  BY MeetingInit, MeetingStep, Invariant, PTL DEF Spec, MeetingSpec, Meeting!Spec
-------------------------------------------------------------------------------
\* Nobody waits for ever.  AllReduced itself needs fairness and is left to TLC;
\* what the code contributes to it is safety, and is proved.

\* A block's token of the present reduction stands once it has signalled, and
\* that of the reduction before it still does.
Signalled ==
  \A r \in Ranks, b \in BlockIds :
    /\ call[r] >= 1 /\ b < Blocks(call[r])
       /\ phase[r][b] \in {"wait", "read", "done"}
         => arrival[r][Slot(call[r])][b] = call[r]
    /\ call[r] >= 2 /\ b < Blocks(call[r] - 1)
         => arrival[r][Slot(call[r] - 1)][b] = call[r] - 1

\* A block that spins has its token there, or the block that will set it is
\* still to come: no token is overwritten before the other rank has seen it.
TokenComes ==
  \A r \in Ranks, b \in BlockIds :
    phase[r][b] = "wait" =>
      \/ arrival[Peer(r)][Slot(call[r])][b] = call[r]
      \/ call[Peer(r)] < call[r]
      \/ /\ call[Peer(r)] = call[r]
         /\ phase[Peer(r)][b] \in {"start", "write"}

\* A rank goes on if its stream can start the next kernel or one of its blocks
\* is not spinning in vain.
CanMove(r) ==
  \/ Finished(r) /\ call[r] < MaxCalls
  \/ \E b \in BlockIds :
       \/ phase[r][b] \in {"start", "write", "read"}
       \/ /\ phase[r][b] = "wait"
          /\ arrival[Peer(r)][Slot(call[r])][b] = call[r]

AllDone == \A r \in Ranks : call[r] = MaxCalls /\ Finished(r)

SomebodyMoves == AllDone \/ \E r \in Ranks : CanMove(r)

LEMMA SignalledStep ==
  ASSUME IInv, Signalled, [Next]_vars
  PROVE  Signalled'
<1>t. /\ TypeOK
      /\ \A q \in Ranks : call[q] \in Nat /\ call[q] \in 0..MaxCalls
  BY AllreduceAssumption DEF IInv, TypeOK
<1>1. CASE UNCHANGED vars
  BY <1>1 DEF Signalled, vars
<1>2. ASSUME NEW r \in Ranks, StartKernel(r) PROVE Signalled'
  <2>1. /\ arrival' = arrival /\ call'[r] = call[r] + 1
        /\ \A b \in BlockIds : phase[r][b] = "done" /\ phase'[r][b] =
             IF b < Blocks(call[r] + 1) THEN "start" ELSE "done"
        /\ \A q \in Ranks : q # r => call'[q] = call[q] /\ phase'[q] = phase[q]
    BY <1>2, <1>t DEF StartKernel, Finished, TypeOK
  <2>2. ASSUME NEW b \in BlockIds, call'[r] >= 1, b < Blocks(call'[r])
        PROVE  phase'[r][b] \notin {"wait", "read", "done"}
    BY <2>1, <2>2
  <2>3. ASSUME NEW b \in BlockIds, call'[r] >= 2, b < Blocks(call'[r] - 1)
        PROVE  arrival'[r][Slot(call'[r] - 1)][b] = call'[r] - 1
    <3>1. call'[r] - 1 = call[r] /\ call[r] >= 1
      BY <2>1, <2>3, <1>t
    <3> QED
      BY <3>1, <2>1, <2>3 DEF Signalled
  <2>4. ASSUME NEW q \in Ranks, q # r, NEW b \in BlockIds
        PROVE  /\ call'[q] >= 1 /\ b < Blocks(call'[q])
                  /\ phase'[q][b] \in {"wait", "read", "done"}
                    => arrival'[q][Slot(call'[q])][b] = call'[q]
               /\ call'[q] >= 2 /\ b < Blocks(call'[q] - 1)
                    => arrival'[q][Slot(call'[q] - 1)][b] = call'[q] - 1
    BY <2>1, <2>4 DEF Signalled
  <2> QED
    BY <2>2, <2>3, <2>4 DEF Signalled
<1>3. ASSUME NEW r \in Ranks, NEW b \in BlockIds, Signal(r, b) PROVE Signalled'
  <2>0. call' = call
    BY <1>3 DEF Signal
  <2>1. /\ phase[r][b] = "write"
        /\ \A q \in Ranks, c \in BlockIds :
             phase'[q][c] = IF q = r /\ c = b THEN "wait" ELSE phase[q][c]
    BY <1>3, <1>t, BlockMoves DEF Signal
  <2>2. call[r] >= 1
    BY <2>1 DEF IInv, Absent
  <2>3. \A q \in Ranks, s \in Slots, c \in BlockIds :
          arrival'[q][s][c] = IF q = r /\ s = Slot(call[r]) /\ c = b THEN call[r]
                              ELSE arrival[q][s][c]
    BY <1>3, <1>t DEF Signal, TypeOK
  <2>4. ASSUME NEW q \in Ranks, NEW c \in BlockIds, call[q] >= 1,
               c < Blocks(call[q]), phase'[q][c] \in {"wait", "read", "done"}
        PROVE  arrival'[q][Slot(call[q])][c] = call[q]
    <3>1. Slot(call[q]) \in Slots
      BY <2>4, <1>t, SlotsAlternate
    <3> QED
      BY <3>1, <2>1, <2>3, <2>4 DEF Signalled
  <2>5. ASSUME NEW q \in Ranks, NEW c \in BlockIds, call[q] >= 2,
               c < Blocks(call[q] - 1)
        PROVE  arrival'[q][Slot(call[q] - 1)][c] = call[q] - 1
    <3>1. call[q] - 1 \in Nat \ {0} /\ call[q] = (call[q] - 1) + 1
      BY <2>5, <1>t
    <3>2. Slot(call[q] - 1) \in Slots /\ Slot(call[q] - 1) # Slot(call[q])
      BY <3>1, SlotsAlternate
    <3> QED
      BY <3>2, <2>3, <2>5 DEF Signalled
  <2> QED
    BY <2>0, <2>4, <2>5 DEF Signalled
<1>4. ASSUME NEW r \in Ranks, NEW b \in BlockIds,
             BeginWrite(r, b) \/ SeesToken(r, b) \/ EndRead(r, b)
      PROVE  Signalled'
  <2>1. call' = call /\ arrival' = arrival
    BY <1>4 DEF BeginWrite, SeesToken, EndRead
  <2>2. \A q \in Ranks, c \in BlockIds :
          phase'[q][c] \in {"wait", "read", "done"}
            => phase[q][c] \in {"wait", "read", "done"}
    BY <1>4, <1>t, BlockMoves DEF BeginWrite, SeesToken, EndRead
  <2> QED
    BY <2>1, <2>2 DEF Signalled
<1> QED
  BY <1>1, <1>2, <1>3, <1>4 DEF Next, Rank, Block

\* A rank that is ahead left its token of the last reduction in place.
LEMMA TokenHolds == IInv /\ Signalled => TokenComes
<1>0. IInv => \A q \in Ranks : call[q] \in Nat
  BY AllreduceAssumption DEF IInv, TypeOK
<1> SUFFICES ASSUME IInv, Signalled, NEW r \in Ranks, NEW b \in BlockIds,
                    phase[r][b] = "wait", call[Peer(r)] >= call[r],
                    call[Peer(r)] = call[r]
                      => phase[Peer(r)][b] \notin {"start", "write"}
             PROVE  arrival[Peer(r)][Slot(call[r])][b] = call[r]
  BY <1>0, PeerOther DEF TokenComes
<1>1. /\ call[r] \in Nat /\ call[Peer(r)] \in Nat /\ Peer(r) \in Ranks
      /\ phase[Peer(r)][b] \in Phases
  BY PeerOther, AllreduceAssumption DEF IInv, TypeOK
<1>2. call[r] >= 1 /\ b < Blocks(call[r])
  BY DEF IInv, Absent
<1>3. CASE call[Peer(r)] = call[r]
  BY <1>1, <1>2, <1>3 DEF Signalled, Phases
<1>4. CASE call[Peer(r)] > call[r]
  <2>1. call[Peer(r)] <= call[r] + 1
    BY PeerOther DEF IInv, Close
  <2>2. call[Peer(r)] - 1 = call[r] /\ call[Peer(r)] >= 2
    BY <2>1, <1>1, <1>2, <1>4
  <2> QED
    BY <2>2, <1>1, <1>2 DEF Signalled
<1> QED
  BY <1>1, <1>3, <1>4

LEMMA SignalledInvariant == Spec => []Signalled
<1>1. Init => Signalled
  BY DEF Init, Signalled
<1>2. IInv /\ Signalled /\ [Next]_vars => Signalled'
  BY SignalledStep
<1> QED
  BY <1>1, <1>2, Invariant, PTL DEF Spec

\* No lost wake-up: whatever the sizes, blocks and slots, a block spins only for
\* a token that is there or has yet to be set.
THEOREM NoTokenLost == Spec => []TokenComes
<1> QED
  BY TokenHolds, Invariant, SignalledInvariant, PTL

\* The rank that is behind, or either of two that are level, can go on.
LEMMA BehindMoves ==
  ASSUME TypeOK, TokenComes, NEW r \in Ranks, call[r] < call[Peer(r)]
  PROVE  CanMove(r)
<1>1. call[r] \in Nat /\ call[Peer(r)] \in 0..MaxCalls /\ Peer(r) \in Ranks
  BY PeerOther, AllreduceAssumption DEF TypeOK
<1>2. CASE Finished(r)
  BY <1>1, <1>2, AllreduceAssumption DEF CanMove
<1>3. CASE ~Finished(r)
  <2>1. PICK b \in BlockIds : phase[r][b] # "done"
    BY <1>3 DEF Finished
  <2>2. phase[r][b] \in Phases
    BY DEF TypeOK
  <2>3. phase[r][b] = "wait" => arrival[Peer(r)][Slot(call[r])][b] = call[r]
    BY <1>1 DEF TokenComes
  <2> QED
    BY <2>1, <2>2, <2>3 DEF CanMove, Phases
<1> QED
  BY <1>2, <1>3

LEMMA LevelMoves ==
  ASSUME TypeOK, TokenComes, call[0] = call[1], ~AllDone
  PROVE  \E r \in Ranks : CanMove(r)
<1>1. /\ 0 \in Ranks /\ 1 \in Ranks /\ Peer(0) = 1 /\ Peer(1) = 0
      /\ \A r \in Ranks : r = 0 \/ r = 1
      /\ call[0] \in 0..MaxCalls /\ call[1] \in 0..MaxCalls
  BY DEF Ranks, Peer, TypeOK
<1>2. CASE \A r \in Ranks : Finished(r)
  <2>1. call[0] < MaxCalls
    BY <1>1, <1>2, AllreduceAssumption DEF AllDone
  <2> QED
    BY <1>1, <1>2, <2>1 DEF CanMove
<1>3. ASSUME NEW r \in Ranks, ~Finished(r) PROVE \E q \in Ranks : CanMove(q)
  <2>1. PICK b \in BlockIds : phase[r][b] # "done"
    BY <1>3 DEF Finished
  <2>2. phase[r][b] \in Phases /\ Peer(r) \in Ranks /\ call[Peer(r)] = call[r]
    BY <1>1, PeerOther DEF TypeOK
  <2>3. CASE phase[r][b] # "wait"
    BY <2>1, <2>2, <2>3 DEF CanMove, Phases
  <2>4. CASE phase[r][b] = "wait" /\ arrival[Peer(r)][Slot(call[r])][b] = call[r]
    BY <2>4 DEF CanMove
  <2>5. CASE phase[Peer(r)][b] \in {"start", "write"}
    BY <2>2, <2>5 DEF CanMove
  <2>6. call[r] \in Nat
    BY AllreduceAssumption DEF TypeOK
  <2> QED
    BY <2>2, <2>3, <2>4, <2>5, <2>6 DEF TokenComes
<1> QED
  BY <1>2, <1>3

\* No deadlock: as long as a reduction is left, one of the ranks can go on; the
\* spinning kernels of the two devices never wait on each other.
THEOREM NoDeadlock == Spec => []SomebodyMoves
<1>1. TypeOK /\ TokenComes => SomebodyMoves
  <2> SUFFICES ASSUME TypeOK, TokenComes, ~AllDone
               PROVE  \E r \in Ranks : CanMove(r)
    BY DEF SomebodyMoves
  <2>1. /\ 0 \in Ranks /\ 1 \in Ranks /\ Peer(0) = 1 /\ Peer(1) = 0
        /\ call[0] \in Nat /\ call[1] \in Nat
    BY AllreduceAssumption DEF Ranks, Peer, TypeOK
  <2>2. CASE call[0] = call[1]
    BY <2>2, LevelMoves
  <2>3. CASE call[0] < call[1]
    BY <2>1, <2>3, BehindMoves
  <2>4. CASE call[1] < call[0]
    BY <2>1, <2>4, BehindMoves
  <2> QED
    BY <2>1, <2>2, <2>3, <2>4
<1> QED
  BY <1>1, Typing, NoTokenLost, PTL
-------------------------------------------------------------------------------
\* Nor do they go on for ever: what is left to do goes down with every step.

StepsLeft(p) == IF p = "start" THEN 4 ELSE IF p = "write" THEN 3
                ELSE IF p = "wait" THEN 2 ELSE IF p = "read" THEN 1 ELSE 0

\* Over the blocks of a kernel; eight is MaxBlocks.
KernelLeft(f) ==
  StepsLeft(f[0]) + StepsLeft(f[1]) + StepsLeft(f[2]) + StepsLeft(f[3])
    + StepsLeft(f[4]) + StepsLeft(f[5]) + StepsLeft(f[6]) + StepsLeft(f[7])

\* A kernel is worth one step more than all its blocks can make.
RankLeft(r) == (4 * MaxBlocks + 1) * (MaxCalls - call[r]) + KernelLeft(phase[r])

WorkLeft == RankLeft(0) + RankLeft(1)

LeavesLess == WorkLeft \in Nat /\ WorkLeft' \in Nat /\ WorkLeft' < WorkLeft

LEMMA BlockList == \A b \in BlockIds : b \in {0, 1, 2, 3, 4, 5, 6, 7}
BY DEF BlockIds, MaxBlocks

LEMMA KernelLeftRange ==
  ASSUME NEW f \in [BlockIds -> Phases]
  PROVE  KernelLeft(f) \in 0..4 * MaxBlocks
BY DEF KernelLeft, StepsLeft, MaxBlocks

\* A block that goes on, and only it, makes the kernel's sum smaller.
LEMMA KernelLeftDown ==
  ASSUME NEW f \in [BlockIds -> Phases], NEW g \in [BlockIds -> Phases],
         NEW b \in BlockIds, \A c \in BlockIds : c # b => g[c] = f[c],
         StepsLeft(g[b]) < StepsLeft(f[b])
  PROVE  KernelLeft(g) < KernelLeft(f)
<1>1. \A c \in {0, 1, 2, 3, 4, 5, 6, 7} :
        /\ c \in BlockIds /\ (c # b => StepsLeft(g[c]) = StepsLeft(f[c]))
        /\ StepsLeft(f[c]) \in Int /\ StepsLeft(g[c]) \in Int
  BY DEF BlockIds, MaxBlocks, StepsLeft
<1>2. b \in {0, 1, 2, 3, 4, 5, 6, 7}
  BY BlockList
<1> DEFINE F(c) == StepsLeft(f[c])
           G(c) == StepsLeft(g[c])
<1>3. /\ KernelLeft(f) = F(0)+F(1)+F(2)+F(3)+F(4)+F(5)+F(6)+F(7)
      /\ KernelLeft(g) = G(0)+G(1)+G(2)+G(3)+G(4)+G(5)+G(6)+G(7)
  BY DEF KernelLeft
<1>4. /\ \A c \in {0, 1, 2, 3, 4, 5, 6, 7} :
           /\ (c # b => G(c) = F(c)) /\ F(c) \in Int /\ G(c) \in Int
      /\ G(b) < F(b)
  BY <1>1
<1> HIDE DEF F, G
<1> QED
  BY <1>2, <1>3, <1>4

\* No livelock: every step of a stream or a block leaves less to do, a natural
\* number that starts as 2 * (4 * MaxBlocks + 1) * MaxCalls.
THEOREM WorkGoesDown == Spec => [][LeavesLess]_vars
<1>1. ASSUME TypeOK, TypeOK', Absent, NEW r \in Ranks, Rank(r)
      PROVE  /\ RankLeft(r)' < RankLeft(r)
             /\ \A q \in Ranks : q # r => RankLeft(q)' = RankLeft(q)
  <2>1. /\ \A q \in Ranks : phase[q] \in [BlockIds -> Phases] /\ call[q] \in Nat
        /\ \A q \in Ranks : phase'[q] \in [BlockIds -> Phases] /\ call'[q] \in Nat
        /\ MaxCalls \in Nat
    BY <1>1, AllreduceAssumption DEF TypeOK
  <2>2. CASE StartKernel(r)
    <3>1. /\ call'[r] = call[r] + 1
          /\ \A q \in Ranks : q # r => call'[q] = call[q] /\ phase'[q] = phase[q]
      BY <1>1, <2>2 DEF StartKernel, TypeOK
    <3>2. /\ KernelLeft(phase[r]) \in 0..4 * MaxBlocks
          /\ KernelLeft(phase'[r]) \in 0..4 * MaxBlocks
      BY <2>1, KernelLeftRange
    <3> QED
      BY <3>1, <3>2, <2>1 DEF RankLeft, MaxBlocks
  <2>3. ASSUME NEW b \in BlockIds, Block(r, b)
        PROVE  /\ RankLeft(r)' < RankLeft(r)
               /\ \A q \in Ranks : q # r => RankLeft(q)' = RankLeft(q)
    <3>1. call' = call
      BY <2>3 DEF Block, BeginWrite, Signal, SeesToken, EndRead
    <3>2. PICK from, to : Moves(r, b, from, to) /\ StepsLeft(to) < StepsLeft(from)
      BY <2>3 DEF Block, BeginWrite, Signal, SeesToken, EndRead, StepsLeft
    <3>3. /\ phase[r][b] = from
          /\ \A q \in Ranks, c \in BlockIds :
               phase'[q][c] = IF q = r /\ c = b THEN to ELSE phase[q][c]
      BY <1>1, <3>2, BlockMoves
    <3>4. KernelLeft(phase'[r]) < KernelLeft(phase[r])
      BY <2>1, <3>2, <3>3, KernelLeftDown
    <3>5. \A q \in Ranks : q # r => phase'[q] = phase[q]
      BY <2>1, <3>3
    <3>6. /\ KernelLeft(phase[r]) \in 0..4 * MaxBlocks
          /\ KernelLeft(phase'[r]) \in 0..4 * MaxBlocks
      BY <2>1, KernelLeftRange
    <3> QED
      BY <3>1, <3>4, <3>5, <3>6, <2>1 DEF RankLeft, MaxBlocks
  <2> QED
    BY <1>1, <2>2, <2>3 DEF Rank
<1>2. ASSUME TypeOK PROVE WorkLeft \in Nat /\ \A r \in Ranks : RankLeft(r) \in Nat
  <2>1. ASSUME NEW r \in Ranks PROVE RankLeft(r) \in Nat
    <3>1. /\ call[r] \in 0..MaxCalls /\ MaxCalls \in Nat
          /\ KernelLeft(phase[r]) \in 0..4 * MaxBlocks
      BY <1>2, KernelLeftRange, AllreduceAssumption DEF TypeOK
    <3> QED
      BY <3>1 DEF RankLeft, MaxBlocks
  <2> QED
    BY <2>1 DEF WorkLeft, Ranks
<1>3. ASSUME TypeOK'
      PROVE  WorkLeft' \in Nat /\ \A r \in Ranks : RankLeft(r)' \in Nat
  <2>1. ASSUME NEW r \in Ranks PROVE RankLeft(r)' \in Nat
    <3>1. /\ call'[r] \in 0..MaxCalls /\ MaxCalls \in Nat
          /\ KernelLeft(phase'[r]) \in 0..4 * MaxBlocks
      BY <1>3, KernelLeftRange, AllreduceAssumption DEF TypeOK
    <3> QED
      BY <3>1 DEF RankLeft, MaxBlocks
  <2> QED
    BY <2>1 DEF WorkLeft, Ranks
<1>4. ASSUME TypeOK, TypeOK', Absent, NEW r \in Ranks, Rank(r)
      PROVE  WorkLeft' < WorkLeft
  BY <1>1, <1>2, <1>3, <1>4 DEF WorkLeft, Ranks
<1>5. IInv /\ [Next]_vars => [LeavesLess]_vars
  BY <1>2, <1>3, <1>4, TypeStep DEF IInv, Next, LeavesLess
<1> QED
  BY <1>5, Invariant, PTL DEF Spec
===============================================================================
