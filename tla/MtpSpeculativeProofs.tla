--------------------------- MODULE MtpSpeculativeProofs ---------------------------
(***************************************************************************)
(* Theorems about MtpSpeculative, for any tokens, context and draft length *)
(* and cache limit.  Between two steps of the slot the draft memory, with  *)
(* what is deferred behind it, is that of the slot's tokens and the        *)
(* boundary is their last one (Following), or the head is off and the      *)
(* slot is excused; inside a draft the checkpoint has the same to go back  *)
(* to.                                                                     *)
(***************************************************************************)
EXTENDS MtpSpeculative, SequenceTheorems, TLAPS

-------------------------------------------------------------------------------
(* Sequences                                                               *)

\* The first n elements of a sequence.
LEMMA FirstElements ==
  ASSUME NEW S, NEW s \in Seq(S), NEW n \in 0..Len(s)
  PROVE  /\ First(s, n) \in Seq(S) /\ Len(First(s, n)) = n
         /\ \A i \in 1..n : First(s, n)[i] = s[i]
<1>1. \A i \in 1..n : s[i] \in S
  BY ElementOfSeq
<1>2. Len(s) \in Nat
  BY LenProperties
<1>3. /\ SubSeq(s, 1, n) \in Seq(S)
      /\ Len(SubSeq(s, 1, n)) = IF 1 <= n THEN n - 1 + 1 ELSE 0
      /\ \A i \in 1..n - 1 + 1 : SubSeq(s, 1, n)[i] = s[1 + i - 1]
  BY <1>1, <1>2, SubSeqProperties, n \in Int, 1 \in Int
<1> QED
  BY <1>2, <1>3 DEF First

LEMMA FirstAll ==
  ASSUME NEW S, NEW s \in Seq(S)
  PROVE  First(s, Len(s)) = s
BY SubSeqFull DEF First

LEMMA FirstOfFirst ==
  ASSUME NEW S, NEW s \in Seq(S), NEW n \in 0..Len(s), NEW m \in 0..n
  PROVE  First(First(s, n), m) = First(s, m)
<1>1. Len(s) \in Nat
  BY LenProperties
<1>2. m \in 0..Len(s)
  BY <1>1
<1>3. /\ First(s, n) \in Seq(S) /\ Len(First(s, n)) = n
      /\ \A i \in 1..n : First(s, n)[i] = s[i]
  BY FirstElements
<1>4. /\ First(s, m) \in Seq(S) /\ Len(First(s, m)) = m
      /\ \A i \in 1..m : First(s, m)[i] = s[i]
  BY <1>2, FirstElements
<1>5. /\ First(First(s, n), m) \in Seq(S) /\ Len(First(First(s, n), m)) = m
      /\ \A i \in 1..m : First(First(s, n), m)[i] = First(s, n)[i]
  BY <1>3, FirstElements
<1>6. \A i \in 1..m : First(First(s, n), m)[i] = First(s, m)[i]
  BY <1>3, <1>4, <1>5, <1>1
<1> QED
  BY <1>4, <1>5, <1>6, SeqEqual

LEMMA FirstOfConcat ==
  ASSUME NEW S, NEW s \in Seq(S), NEW t \in Seq(S), NEW n \in 0..Len(s)
  PROVE  First(s \o t, n) = First(s, n)
<1>1. Len(s) \in Nat /\ Len(t) \in Nat
  BY LenProperties
<1>2. /\ s \o t \in Seq(S) /\ Len(s \o t) = Len(s) + Len(t)
      /\ \A i \in 1..Len(s) + Len(t) :
           (s \o t)[i] = IF i <= Len(s) THEN s[i] ELSE t[i - Len(s)]
  BY ConcatProperties
<1>3. n \in 0..Len(s \o t)
  BY <1>1, <1>2
<1>4. /\ First(s \o t, n) \in Seq(S) /\ Len(First(s \o t, n)) = n
      /\ \A i \in 1..n : First(s \o t, n)[i] = (s \o t)[i]
  BY <1>2, <1>3, FirstElements
<1>5. /\ First(s, n) \in Seq(S) /\ Len(First(s, n)) = n
      /\ \A i \in 1..n : First(s, n)[i] = s[i]
  BY FirstElements
<1>6. \A i \in 1..n : First(s \o t, n)[i] = First(s, n)[i]
  BY <1>1, <1>2, <1>4, <1>5
<1> QED
  BY <1>4, <1>5, <1>6, SeqEqual

LEMMA FunctionIsSeq ==
  ASSUME NEW S, NEW n \in Nat, NEW f \in [1..n -> S]
  PROVE  f \in Seq(S) /\ Len(f) = n
<1>1. f \in Seq(S)
  BY SeqDef
<1>2. DOMAIN f = 1..n
  OBVIOUS
<1>3. DOMAIN f = 1..Len(f) /\ Len(f) \in Nat
  BY <1>1, LenProperties
<1> QED
  BY <1>1, <1>2, <1>3

LEMMA PairsElements ==
  ASSUME NEW s \in Seq(Tokens)
  PROVE  /\ Pairs(s) \in Memories /\ Len(Pairs(s)) = Len(s)
         /\ \A i \in 1..Len(s) : Pairs(s)[i] = [token |-> s[i], row |-> First(s, i - 1)]
<1>1. Len(s) \in Nat /\ \A i \in 1..Len(s) : s[i] \in Tokens
  BY LenProperties, ElementOfSeq
<1>2. \A i \in 1..Len(s) : First(s, i - 1) \in Seq(Tokens)
  BY <1>1, FirstElements
<1>3. Pairs(s) \in [1..Len(s) -> [token : Tokens, row : Rows]]
  BY <1>1, <1>2 DEF Pairs, Rows
<1>4. \A i \in 1..Len(s) : Pairs(s)[i] = [token |-> s[i], row |-> First(s, i - 1)]
  BY DEF Pairs
<1> QED
  BY <1>1, <1>3, <1>4, FunctionIsSeq DEF Memories

LEMMA PairsOfFirst ==
  ASSUME NEW s \in Seq(Tokens), NEW n \in 0..Len(s)
  PROVE  First(Pairs(s), n) = Pairs(First(s, n))
<1> DEFINE R == [token : Tokens, row : Rows]
<1>1. Len(s) \in Nat
  BY LenProperties
<1>2. /\ First(s, n) \in Seq(Tokens) /\ Len(First(s, n)) = n
      /\ \A i \in 1..n : First(s, n)[i] = s[i]
  BY FirstElements
<1>3. /\ Pairs(s) \in Seq(R) /\ Len(Pairs(s)) = Len(s)
      /\ \A i \in 1..Len(s) : Pairs(s)[i] = [token |-> s[i], row |-> First(s, i - 1)]
  BY PairsElements DEF Memories
<1>4. /\ Pairs(First(s, n)) \in Seq(R) /\ Len(Pairs(First(s, n))) = n
      /\ \A i \in 1..n : Pairs(First(s, n))[i] =
           [token |-> First(s, n)[i], row |-> First(First(s, n), i - 1)]
  BY <1>2, PairsElements DEF Memories
<1>5. n \in 0..Len(Pairs(s))
  BY <1>3
<1>6. /\ First(Pairs(s), n) \in Seq(R) /\ Len(First(Pairs(s), n)) = n
      /\ \A i \in 1..n : First(Pairs(s), n)[i] = Pairs(s)[i]
  BY <1>3, <1>5, FirstElements
<1>7. ASSUME NEW i \in 1..n
      PROVE  First(Pairs(s), n)[i] = Pairs(First(s, n))[i]
  <2>1. i - 1 \in 0..n /\ i \in 1..Len(s)
    BY <1>1
  <2>2. First(First(s, n), i - 1) = First(s, i - 1)
    BY <2>1, FirstOfFirst
  <2> QED
    BY <1>2, <1>3, <1>4, <1>6, <2>1, <2>2
<1> HIDE DEF R
<1> QED
  BY <1>4, <1>6, <1>7, SeqEqual

LEMMA CutMemory ==
  ASSUME NEW k \in Memories, NEW n \in Nat
  PROVE  /\ Cut(k, n) \in Memories /\ Len(k) \in Nat
         /\ Len(Cut(k, n)) = IF n < Len(k) THEN n ELSE Len(k)
         /\ Len(k) <= n => Cut(k, n) = k
<1>1. Len(k) \in Nat
  BY LenProperties DEF Memories
<1>2. (IF n < Len(k) THEN n ELSE Len(k)) \in 0..Len(k)
  BY <1>1
<1>3. Len(k) <= n => (IF n < Len(k) THEN n ELSE Len(k)) = Len(k)
  BY <1>1
<1> QED
  BY <1>1, <1>2, <1>3, FirstElements, FirstAll DEF Cut, Memories

LEMMA CutPairs ==
  ASSUME NEW s \in Seq(Tokens), NEW n \in 0..Len(s)
  PROVE  Cut(Pairs(s), n) = Pairs(First(s, n))
<1>1. Len(s) \in Nat /\ Len(Pairs(s)) = Len(s)
  BY LenProperties, PairsElements
<1>2. (IF n < Len(Pairs(s)) THEN n ELSE Len(Pairs(s))) = n
  BY <1>1
<1> QED
  BY <1>2, PairsOfFirst DEF Cut

LEMMA ShiftedElements ==
  ASSUME NEW s \in Seq(Tokens), NEW n \in 0..Len(s), NEW m, m.pending \in Rows
  PROVE  /\ Shifted(m, n, s) \in Memories /\ Len(Shifted(m, n, s)) = Len(s) - n
         /\ \A i \in 1..Len(s) - n : Shifted(m, n, s)[i] =
              [token |-> s[n + i],
               row |-> IF i = 1 THEN m.pending ELSE First(s, n + i - 1)]
<1>1. Len(s) \in Nat /\ \A i \in 1..Len(s) : s[i] \in Tokens
  BY LenProperties, ElementOfSeq
<1>2. ASSUME NEW i \in 1..Len(s) - n
      PROVE  s[n + i] \in Tokens /\ First(s, n + i - 1) \in Rows
  <2>1. n + i \in 1..Len(s) /\ n + i - 1 \in 0..Len(s)
    BY <1>1
  <2> QED
    BY <1>1, <2>1, FirstElements DEF Rows
<1>3. Shifted(m, n, s) \in [1..Len(s) - n -> [token : Tokens, row : Rows]]
  BY <1>2 DEF Shifted
<1>4. Len(s) - n \in Nat
  BY <1>1
<1> QED
  BY <1>3, <1>4, FunctionIsSeq DEF Memories, Shifted

\* A batch behind the memory of the tokens before it makes the memory of all.
LEMMA PairsGrow ==
  ASSUME NEW s \in Seq(Tokens), NEW n \in 0..Len(s), NEW m,
         m.pending = First(s, n)
  PROVE  Pairs(First(s, n)) \o Shifted(m, n, s) = Pairs(s)
<1> DEFINE R == [token : Tokens, row : Rows]
           p == Pairs(First(s, n))
           q == Shifted(m, n, s)
<1>1. Len(s) \in Nat
  BY LenProperties
<1>2. /\ First(s, n) \in Seq(Tokens) /\ Len(First(s, n)) = n
      /\ \A i \in 1..n : First(s, n)[i] = s[i]
  BY FirstElements
<1>3. /\ p \in Seq(R) /\ Len(p) = n
      /\ \A i \in 1..n : p[i] =
           [token |-> First(s, n)[i], row |-> First(First(s, n), i - 1)]
  BY <1>2, PairsElements DEF Memories
<1>4. /\ q \in Seq(R) /\ Len(q) = Len(s) - n
      /\ \A i \in 1..Len(s) - n : q[i] =
           [token |-> s[n + i],
            row |-> IF i = 1 THEN m.pending ELSE First(s, n + i - 1)]
  <2>1. m.pending \in Rows
    BY <1>2 DEF Rows
  <2>2. /\ q \in Memories /\ Len(q) = Len(s) - n
        /\ \A i \in 1..Len(s) - n : q[i] =
             [token |-> s[n + i],
              row |-> IF i = 1 THEN m.pending ELSE First(s, n + i - 1)]
    BY <2>1, ShiftedElements
  <2> HIDE DEF q
  <2> QED
    BY <2>2 DEF Memories
<1>5. /\ Pairs(s) \in Seq(R) /\ Len(Pairs(s)) = Len(s)
      /\ \A i \in 1..Len(s) : Pairs(s)[i] = [token |-> s[i], row |-> First(s, i - 1)]
  BY PairsElements DEF Memories
<1> HIDE DEF R, p, q
<1>6. /\ p \o q \in Seq(R) /\ Len(p \o q) = n + (Len(s) - n)
      /\ \A i \in 1..n + (Len(s) - n) :
           (p \o q)[i] = IF i <= n THEN p[i] ELSE q[i - n]
  BY <1>3, <1>4, ConcatProperties
<1>7. ASSUME NEW i \in 1..Len(s)
      PROVE  (p \o q)[i] = Pairs(s)[i]
  <2>1. CASE i <= n
    <3>1. i \in 1..n /\ i - 1 \in 0..n
      BY <2>1, <1>1
    <3>2. First(First(s, n), i - 1) = First(s, i - 1)
      BY <3>1, FirstOfFirst
    <3> QED
      BY <1>1, <1>2, <1>3, <1>5, <1>6, <2>1, <3>1, <3>2
  <2>2. CASE ~(i <= n)
    <3>1. i - n \in 1..Len(s) - n /\ n + (i - n) = i /\ n + (i - n) - 1 = i - 1
      BY <2>2, <1>1
    <3>2. (p \o q)[i] = q[i - n]
      BY <1>1, <1>6, <2>2
    <3>3. (i - n = 1) => m.pending = First(s, i - 1)
      BY <1>1
    <3>4. q[i - n] = [token |-> s[i],
                      row |-> IF i - n = 1 THEN m.pending ELSE First(s, i - 1)]
      BY <1>4, <3>1
    <3> QED
      BY <1>5, <3>2, <3>3, <3>4
  <2> QED
    BY <2>1, <2>2
<1>8. Len(p \o q) = Len(s)
  BY <1>1, <1>6
<1>9. p \o q = Pairs(s)
  BY <1>5, <1>6, <1>7, <1>8, SeqEqual
<1> QED
  BY <1>9 DEF p, q

-------------------------------------------------------------------------------
(* The head's operations                                                   *)

\* Nothing deferred; nothing of a draft left; given up; a boundary at no
\* token has no row.
Settled(m) == ~m.deferredReady /\ ~m.fuse /\ m.deferred = <<>>
Still(m) == Settled(m) /\ ~m.draftPending
Off(m) == ~m.healthy /\ m.pendingPos = Invalid
HeadOK(m) == m \in Heads /\ (m.pendingPos = -1 => m.pending = <<>>)

\* The memory k and the boundary of d are those of the tokens s, the row before
\* the boundary included.
Whole(s, k, d) ==
  /\ InSync(s, k, d)
  /\ d.prev = First(s, Len(s) - 1) /\ d.prevPos = Len(s) - 2

LEMMA HeadEdits ==
  ASSUME NEW m \in Heads
  PROVE  /\ \A h \in {DiscardDeferred(m), ClearTransient(m), Quiet(m), Reset(m)} :
              h \in Heads /\ h.pending = m.pending /\ h.pendingPos = m.pendingPos
         /\ \A x \in BOOLEAN :
              \A h \in {[m EXCEPT !.healthy = x], [m EXCEPT !.draftPending = x]} :
                h \in Heads /\ h.pending = m.pending /\ h.pendingPos = m.pendingPos
         /\ HeadOK(Invalidate(m))
<1>1. /\ <<>> \in Rows /\ <<>> \in Seq(Rows) /\ <<>> \in Memories
      /\ FALSE \in BOOLEAN /\ TRUE \in BOOLEAN /\ 0 \in Nat
      /\ Invalid \in Int
  BY EmptySeq DEF Rows, Memories, Invalid
<1>2. ASSUME NEW h \in Heads
      PROVE  /\ DiscardDeferred(h) \in Heads
             /\ DiscardDeferred(h).pending = h.pending
             /\ DiscardDeferred(h).pendingPos = h.pendingPos
  <2>1. DiscardDeferred(h) \in Heads
    BY <1>1, Zenon DEF DiscardDeferred, Heads
  <2> QED
    BY <2>1 DEF DiscardDeferred, Heads
<1>3. ASSUME NEW h \in Heads
      PROVE  /\ ClearTransient(h) \in Heads
             /\ ClearTransient(h).pending = h.pending
             /\ ClearTransient(h).pendingPos = h.pendingPos
  <2>1. ClearTransient(h) \in Heads
    BY <1>1, Zenon DEF ClearTransient, Heads
  <2> QED
    BY <2>1 DEF ClearTransient, Heads
<1>4. ASSUME NEW h \in Heads, NEW x \in BOOLEAN
      PROVE  /\ [h EXCEPT !.draftPending = x] \in Heads
             /\ [h EXCEPT !.draftPending = x].pending = h.pending
             /\ [h EXCEPT !.draftPending = x].pendingPos = h.pendingPos
  BY DEF Heads
<1>5. ASSUME NEW h \in Heads
      PROVE  /\ Quiet(h) \in Heads /\ Quiet(h).pending = h.pending
             /\ Quiet(h).pendingPos = h.pendingPos
  <2> DEFINE c == ClearTransient(DiscardDeferred(h))
  <2>1. c \in Heads /\ c.pending = h.pending /\ c.pendingPos = h.pendingPos
    BY <1>2, <1>3
  <2>2. Quiet(h) = [c EXCEPT !.draftPending = FALSE]
    BY DEF Quiet
  <2> HIDE DEF c
  <2> QED
    BY <2>1, <2>2 DEF Heads
<1>6. ASSUME NEW x \in BOOLEAN, NEW h \in Heads
      PROVE  /\ [h EXCEPT !.healthy = x] \in Heads
             /\ [h EXCEPT !.healthy = x].pending = h.pending
             /\ [h EXCEPT !.healthy = x].pendingPos = h.pendingPos
  BY DEF Heads
<1>7. HeadOK(Invalidate(m))
  <2>1. Quiet(m) \in Heads
    BY <1>5
  <2>2. Invalidate(m) \in Heads
    BY <1>1, <2>1, Zenon DEF Invalidate, Heads
  <2>3. Invalidate(m).pendingPos = Invalid
    BY <2>1 DEF Invalidate, Heads
  <2> QED
    BY <2>2, <2>3 DEF HeadOK, Invalid
<1>8. /\ Reset(m) \in Heads /\ Reset(m).pending = m.pending
      /\ Reset(m).pendingPos = m.pendingPos
  <2>1. Quiet(m) \in Heads /\ Quiet(m).pending = m.pending
        /\ Quiet(m).pendingPos = m.pendingPos
    BY <1>5
  <2> HIDE DEF Quiet
  <2> QED
    BY <2>1 DEF Reset, Heads
<1> QED
  BY <1>2, <1>3, <1>4, <1>5, <1>6, <1>7, <1>8

LEMMA InvalidateIsOff ==
  ASSUME NEW m \in Heads
  PROVE  Off(Invalidate(m)) /\ Still(Invalidate(m))
BY DEF Off, Still, Settled, Invalidate, Quiet, ClearTransient, DiscardDeferred, Heads

LEMMA ResetKeeps ==
  ASSUME NEW m \in Heads
  PROVE  /\ Still(Reset(m)) /\ Reset(m).healthy
         /\ Reset(m).pending = m.pending /\ Reset(m).pendingPos = m.pendingPos
         /\ Reset(m).prev = m.prev /\ Reset(m).prevPos = m.prevPos
BY DEF Still, Settled, Reset, Quiet, ClearTransient, DiscardDeferred, Heads

LEMMA FlushOutcomes ==
  ASSUME NEW m \in Heads, NEW k \in Memories, m.deferredPos = Len(k),
         NEW o \in Flush(m, k)
  PROVE  \/ o = Outcome(DiscardDeferred(m), k \o m.deferred, "ok")
         \/ o = Outcome([m EXCEPT !.healthy = FALSE], k, "failed")
<1>1. Cut(k, m.deferredPos) = k /\ Len(k) \in Nat
  <2>1. Len(k) \in Nat
    BY LenProperties DEF Memories
  <2> QED
    BY <2>1, CutMemory
<1>2. k \o <<>> = k
  BY ConcatEmptySeq DEF Memories
<1>3. CASE m.deferred = <<>>
  BY <1>2, <1>3 DEF Flush
<1>4. CASE m.deferred # <<>>
  BY <1>1, <1>4 DEF Flush
<1> QED
  BY <1>3, <1>4

\* A verification: what process leaves for accept.
Advanced(h, n, s) ==
  /\ h.healthy /\ ~h.draftPending
  /\ h.pending = s /\ h.pendingPos = Len(s) - 1
  /\ h.prev = First(s, Len(s) - 1) /\ h.prevPos = Len(s) - 2
  /\ h.verify = [i \in 1..Len(s) - n |-> First(s, n + i)] /\ h.verifyPos = n
  /\ h.entry = First(s, n) /\ h.entryPos = n - 1

LEMMA AdvanceOK ==
  ASSUME NEW m \in Heads, NEW s \in Seq(Tokens), NEW n \in 0..Len(s) - 1
  PROVE  HeadOK(Advance(m, n, s))
<1>1. Len(s) \in Nat /\ Len(s) >= 1
  BY LenProperties
<1>2. First(s, Len(s) - 1) \in Rows /\ s \in Rows
  BY <1>1, FirstElements DEF Rows
<1>3. \A i \in 1..Len(s) - n : First(s, n + i) \in Rows
  BY <1>1, FirstElements DEF Rows
<1>4. [i \in 1..Len(s) - n |-> First(s, n + i)] \in Seq(Rows)
  BY <1>1, <1>3, FunctionIsSeq, Len(s) - n \in Nat
<1>5. /\ n \in Nat /\ Len(s) - 1 \in Int /\ Len(s) - 2 \in Int /\ FALSE \in BOOLEAN
      /\ m.pending \in Rows /\ m.pendingPos \in Int /\ m \in Heads
  BY <1>1 DEF Heads
<1>7. /\ (IF Len(s) - n = 1 THEN m.pending ELSE First(s, Len(s) - 1)) \in Rows
      /\ (IF Len(s) - n = 1 THEN m.pendingPos ELSE Len(s) - 2) \in Int
  BY <1>2, <1>5
<1>8. Advance(m, n, s) \in Heads
  BY <1>2, <1>4, <1>5, <1>7, Zenon DEF Advance, Heads
<1>6. Advance(m, n, s).pendingPos = Len(s) - 1
  BY DEF Advance, Heads
<1> QED
  BY <1>1, <1>8, <1>6 DEF HeadOK

LEMMA AdvanceFields ==
  ASSUME NEW m \in Heads, m.healthy, NEW s \in Seq(Tokens), NEW n \in 0..Len(s) - 1,
         m.pending = First(s, n), m.pendingPos = n - 1
  PROVE  /\ Advanced(Advance(m, n, s), n, s)
         /\ Advance(m, n, s).deferred = m.deferred
         /\ Advance(m, n, s).deferredReady = m.deferredReady
         /\ Advance(m, n, s).fuse = m.fuse
<1>1. Len(s) \in Nat
  BY LenProperties
<1>2. Len(s) - n = 1 => n = Len(s) - 1
  BY <1>1
<1> QED
  BY <1>1, <1>2 DEF Advance, Heads, Advanced

\* The boundary the batch at n finds.
Meets(m, k, n, s) ==
  /\ Boundary(m, n).pending = First(s, n)
  /\ Boundary(m, n).pendingPos = n - 1
  /\ k = Pairs(First(s, n))

LEMMA BoundaryFields ==
  ASSUME NEW m \in Heads, NEW n \in Nat
  PROVE  /\ Boundary(m, n) \in Heads
         /\ Boundary(m, n).healthy = m.healthy
         /\ Boundary(m, n).draftPending = m.draftPending
         /\ Boundary(m, n).deferred = m.deferred
         /\ Boundary(m, n).deferredReady = m.deferredReady
         /\ Boundary(m, n).fuse = m.fuse
<1> DEFINE z == IF n = 0 /\ m.pendingPos # -1
           THEN [m EXCEPT !.pending = <<>>, !.pendingPos = -1,
                          !.prev = <<>>, !.prevPos = Invalid]
           ELSE m
<1>1. <<>> \in Rows /\ -1 \in Int /\ Invalid \in Int /\ m \in Heads
  BY EmptySeq DEF Rows, Invalid
<1>3. /\ z \in Heads /\ z.healthy = m.healthy
      /\ z.draftPending = m.draftPending /\ z.deferred = m.deferred
      /\ z.deferredReady = m.deferredReady /\ z.fuse = m.fuse
  <2>1. CASE n = 0 /\ m.pendingPos # -1
    <3>1. z = [m EXCEPT !.pending = <<>>, !.pendingPos = -1,
                        !.prev = <<>>, !.prevPos = Invalid]
      BY <2>1
    <3> HIDE DEF z
    <3>2. z \in Heads
      BY <1>1, <3>1, Zenon DEF Heads
    <3> QED
      BY <3>1, <3>2 DEF Heads
  <2>2. CASE ~(n = 0 /\ m.pendingPos # -1)
    BY <1>1, <2>2
  <2> QED
    BY <2>1, <2>2
<1>4. z.prev \in Rows /\ z.prevPos \in Int
  BY <1>3 DEF Heads
<1>5. Boundary(m, n) = IF n = z.pendingPos /\ z.prevPos + 1 = z.pendingPos
     THEN [z EXCEPT !.pending = z.prev, !.pendingPos = z.prevPos,
                    !.prev = <<>>, !.prevPos = Invalid]
     ELSE z
  BY DEF Boundary
<1> HIDE DEF z
<1>6. CASE n = z.pendingPos /\ z.prevPos + 1 = z.pendingPos
  <2>1. Boundary(m, n) = [z EXCEPT !.pending = z.prev, !.pendingPos = z.prevPos,
                                   !.prev = <<>>, !.prevPos = Invalid]
    BY <1>5, <1>6
  <2>2. Boundary(m, n) \in Heads
    BY <1>1, <1>3, <1>4, <2>1, Zenon DEF Heads
  <2> QED
    BY <1>3, <2>1, <2>2 DEF Heads
<1>7. CASE ~(n = z.pendingPos /\ z.prevPos + 1 = z.pendingPos)
  BY <1>3, <1>5, <1>7
<1> QED
  BY <1>6, <1>7

\* What process does where the boundary does not meet the batch, and where it
\* does.
LEMMA DecodeRefused ==
  ASSUME NEW m \in Heads, m.healthy, NEW n \in Nat, NEW k, NEW s,
         ~BoundaryOk(Boundary(m, n), k, n), NEW o \in Decode(m, k, n, s)
  PROVE  HeadOK(o.mtp) /\ Off(o.mtp) /\ Still(o.mtp) /\ o.kv = k
<1>1. Boundary(m, n) \in Heads
  BY BoundaryFields
<1>2. o = Outcome(Invalidate(Boundary(m, n)), k, "refused")
  BY DEF Decode
<1>3. o.mtp = Invalidate(Boundary(m, n)) /\ o.kv = k
  BY <1>2 DEF Outcome
<1> QED
  BY <1>1, <1>3, HeadEdits, InvalidateIsOff

\* What the memory and the head are when the batch of s from n on is decoded.
Decoded(h, k, n, s) ==
  /\ Advanced(h, n, s) /\ ~h.fuse
  /\ k \o h.deferred = Pairs(s)
  /\ IF h.deferredReady THEN h.deferredPos = n /\ Len(k) = n
                        ELSE h.deferred = <<>>

LEMMA DecodeMet ==
  ASSUME NEW m \in Heads, m.healthy, Settled(m),
         NEW s \in Seq(Tokens), NEW n \in 0..Len(s) - 1, NEW k \in Memories,
         Meets(m, k, n, s), NEW o \in Decode(m, k, n, s)
  PROVE  /\ HeadOK(o.mtp) /\ o.kv \in Memories
         /\ \/ /\ o.result = "failed" /\ o.kv = k
               /\ Off(o.mtp) /\ Still(o.mtp)
            \/ /\ o.result = "ok" /\ Decoded(o.mtp, o.kv, n, s)
               /\ o.mtp.deferredReady => m.draftPending /\ Len(s) - n # 1
<1> DEFINE b == Boundary(m, n)
           c == ClearTransient(b)
<1>1. Len(s) \in Nat /\ n \in Nat /\ n \in 0..Len(s)
  BY LenProperties
<1>2. /\ b \in Heads /\ b.healthy /\ b.draftPending = m.draftPending
      /\ Settled(b)
  <2>1. /\ b \in Heads /\ b.healthy = m.healthy /\ b.draftPending = m.draftPending
        /\ b.deferred = m.deferred /\ b.deferredReady = m.deferredReady
        /\ b.fuse = m.fuse
    BY <1>1, BoundaryFields
  <2> HIDE DEF b
  <2> QED
    BY <2>1 DEF Settled
<1>3. b.pending = First(s, n) /\ b.pendingPos = n - 1 /\ k = Pairs(First(s, n))
  BY DEF Meets
<1>4. Len(k) = n
  <2>1. First(s, n) \in Seq(Tokens) /\ Len(First(s, n)) = n
    BY <1>1, FirstElements
  <2> QED
    BY <1>3, <2>1, PairsElements
<1>5. BoundaryOk(b, k, n)
  BY <1>1, <1>3, <1>4 DEF BoundaryOk, PosMax
<1> HIDE DEF b
<1>6. /\ c \in Heads /\ c.healthy /\ Settled(c) /\ c.draftPending = b.draftPending
      /\ c.pending = b.pending /\ c.pendingPos = b.pendingPos
  <2>1. c \in Heads
    BY <1>2, HeadEdits
  <2> QED
    BY <1>2, <2>1 DEF ClearTransient, Settled, Heads
<1> HIDE DEF c
<1> DEFINE a == Advance(c, n, s)
           q == Shifted(b, n, s)
<1>7. HeadOK(a)
  BY <1>6, AdvanceOK
<1>8. Advanced(a, n, s) /\ Settled(a)
  BY <1>3, <1>6, AdvanceFields DEF Settled
<1>9. q \in Memories /\ k \o q = Pairs(s)
  <2>1. b.pending \in Rows
    BY <1>2 DEF Heads
  <2> QED
    BY <1>1, <1>3, <2>1, ShiftedElements, PairsGrow
<1> HIDE DEF a, q
<1>10. CASE Defers(b, n, s)
  <2> DEFINE d == [a EXCEPT !.deferred = q, !.deferredPos = n, !.deferredReady = TRUE]
  <2>1. o = Outcome(d, k, "ok")
    BY <1>2, <1>5, <1>10 DEF Decode, a, b, c, q
  <2>2. n \in Nat /\ TRUE \in BOOLEAN /\ a \in Heads
    BY <1>1, <1>7 DEF HeadOK
  <2>3. d \in Heads
    BY <1>9, <2>2, Zenon DEF Heads
  <2>4. HeadOK(d)
    BY <1>7, <2>2, <2>3 DEF HeadOK, Heads
  <2>5. Advanced(d, n, s)
    BY <1>8, <2>2, <2>3 DEF Advanced, Heads
  <2>6. d.deferred = q /\ d.deferredPos = n /\ d.deferredReady /\ ~d.fuse
    BY <1>8, <2>2 DEF Settled, Heads
  <2>7. m.draftPending /\ Len(s) - n # 1
    BY <1>1, <1>2, <1>10 DEF Defers
  <2> HIDE DEF d
  <2>8. o.mtp = d /\ o.kv = k /\ o.result = "ok"
    BY <2>1 DEF Outcome
  <2> QED
    BY <1>4, <1>9, <2>4, <2>5, <2>6, <2>7, <2>8 DEF Decoded
<1>11. CASE ~Defers(b, n, s)
  <2>1. o \in {Outcome(a, k \o q, "ok"), Outcome(Invalidate(c), k, "failed")}
    BY <1>2, <1>5, <1>11 DEF Decode, a, b, c, q
  <2>2. CASE o = Outcome(a, k \o q, "ok")
    <3>1. o.mtp = a /\ o.kv = k \o q /\ o.result = "ok"
      BY <2>2 DEF Outcome
    <3>2. Pairs(s) \in Memories /\ Pairs(s) \o <<>> = Pairs(s)
      BY PairsElements, ConcatEmptySeq DEF Memories
    <3> QED
      BY <1>7, <1>8, <1>9, <3>1, <3>2 DEF Decoded, Settled
  <2>3. CASE o = Outcome(Invalidate(c), k, "failed")
    <3>1. o.mtp = Invalidate(c) /\ o.kv = k /\ o.result = "failed"
      BY <2>3 DEF Outcome
    <3> QED
      BY <1>6, <3>1, HeadEdits, InvalidateIsOff
  <2> QED
    BY <2>1, <2>2, <2>3
<1> QED
  BY <1>10, <1>11

\* The same with what accept has deferred, to be fused with the next draft.
Following(s, m, k) ==
  /\ m.healthy /\ ~m.deferredReady /\ Whole(s, k \o m.deferred, m)
  /\ IF m.fuse THEN m.deferred # <<>> /\ m.deferredPos = Len(k)
               ELSE m.deferred = <<>>

LEMMA NothingDeferred ==
  ASSUME NEW k \in Memories
  PROVE  k \o <<>> = k /\ <<>> \in Memories /\ Len(k) \in Nat
BY ConcatEmptySeq, EmptySeq, LenProperties DEF Memories

LEMMA DeferredJoins ==
  ASSUME NEW m \in Heads, NEW k \in Memories
  PROVE  /\ k \o m.deferred \in Memories /\ m.deferred \in Memories
         /\ Len(k \o m.deferred) = Len(k) + Len(m.deferred)
         /\ Len(k) \in Nat /\ Len(m.deferred) \in Nat
<1>1. m.deferred \in Memories
  BY DEF Heads
<1> QED
  BY <1>1, ConcatProperties, LenProperties DEF Memories

LEMMA FlushFollows ==
  ASSUME NEW m, HeadOK(m), NEW k \in Memories, NEW s, Following(s, m, k), m.fuse,
         NEW o \in Flush(m, k)
  PROVE  /\ HeadOK(o.mtp) /\ o.kv \in Memories
         /\ \/ /\ o.result = "ok" /\ Settled(o.mtp) /\ o.mtp.healthy
               /\ Whole(s, o.kv, o.mtp) /\ o.mtp.draftPending = m.draftPending
               /\ GetState(o.mtp) = GetState(m)
            \/ o.result = "failed" /\ ~o.mtp.healthy /\ o.kv = k
<1>1. m \in Heads /\ m.deferredPos = Len(k) /\ k \o m.deferred \in Memories
  BY DeferredJoins DEF HeadOK, Following
<1> DEFINE d == DiscardDeferred(m)
           u == [m EXCEPT !.healthy = FALSE]
<1>2. o = Outcome(d, k \o m.deferred, "ok") \/ o = Outcome(u, k, "failed")
  BY <1>1, FlushOutcomes
<1>3. /\ d \in Heads /\ d.pending = m.pending /\ d.pendingPos = m.pendingPos
      /\ u \in Heads /\ u.pending = m.pending /\ u.pendingPos = m.pendingPos
  BY <1>1, HeadEdits
<1>4. /\ d.prev = m.prev /\ d.prevPos = m.prevPos /\ d.healthy = m.healthy
      /\ Settled(d) /\ d.draftPending = m.draftPending
  BY <1>1, <1>3 DEF DiscardDeferred, Heads, Settled
<1>5. ~u.healthy
  BY <1>1 DEF Heads
<1> HIDE DEF d, u
<1>6. CASE o = Outcome(d, k \o m.deferred, "ok")
  <2>1. o.mtp = d /\ o.kv = k \o m.deferred /\ o.result = "ok"
    BY <1>6 DEF Outcome
  <2> QED
    BY <1>1, <1>3, <1>4, <2>1 DEF HeadOK, Following, Whole, InSync, GetState
<1>7. CASE o = Outcome(u, k, "failed")
  <2>1. o.mtp = u /\ o.kv = k /\ o.result = "failed"
    BY <1>7 DEF Outcome
  <2> QED
    BY <1>3, <1>5, <2>1 DEF HeadOK
<1> QED
  BY <1>2, <1>6, <1>7

LEMMA ProcessFollows ==
  ASSUME NEW m, HeadOK(m), NEW k \in Memories,
         NEW s \in Seq(Tokens), s # <<>>, NEW b \in Seq(Tokens), b # <<>>,
         Following(s, m, k), NEW o \in Process(m, k, Len(s), s \o b)
  PROVE  /\ HeadOK(o.mtp) /\ o.kv \in Memories
         /\ \/ /\ o.result = "failed" /\ Len(o.kv) <= Len(s) /\ ~o.mtp.healthy
               /\ m.fuse \/ (Off(o.mtp) /\ Still(o.mtp) /\ o.kv = k)
            \/ /\ o.result = "ok" /\ Decoded(o.mtp, o.kv, Len(s), s \o b)
               /\ o.mtp.deferredReady => m.draftPending /\ Len(b) # 1
<1> DEFINE t == s \o b
           n == Len(s)
<1>1. /\ n \in Nat /\ n > 0 /\ t \in Seq(Tokens) /\ Len(t) = n + Len(b)
      /\ n \in 0..Len(t) - 1 /\ Len(t) - n = Len(b)
  BY ConcatProperties, LenProperties, EmptySeq
<1>2. First(t, n) = s
  BY <1>1, FirstOfConcat, FirstAll
<1>3. ASSUME NEW h \in Heads, h.healthy, Settled(h), NEW j \in Memories,
             Whole(s, j, h), NEW p \in Decode(h, j, n, t)
      PROVE  /\ HeadOK(p.mtp) /\ p.kv \in Memories
             /\ \/ /\ p.result = "failed" /\ p.kv = j
                   /\ Off(p.mtp) /\ Still(p.mtp)
                \/ /\ p.result = "ok" /\ Decoded(p.mtp, p.kv, n, t)
                   /\ p.mtp.deferredReady => h.draftPending /\ Len(b) # 1
  <2>1. Boundary(h, n) = h
    BY <1>1, <1>3 DEF Boundary, Whole, InSync
  <2>2. Meets(h, j, n, t)
    BY <1>2, <1>3, <2>1 DEF Meets, Whole, InSync
  <2> HIDE DEF t, n
  <2> QED
    BY <1>1, <1>3, <2>2, DecodeMet
<1>4. Len(Pairs(s)) = n
  BY PairsElements
<1>5. m \in Heads /\ k \o m.deferred = Pairs(s) /\ Len(k) <= n
  BY <1>1, <1>4, DeferredJoins DEF HeadOK, Following, Whole, InSync
<1> HIDE DEF t, n
<1>6. o \in Process(m, k, n, t)
  BY DEF t, n
<1>7. CASE ~m.fuse
  <2>1. o \in Decode(m, k, n, t)
    BY <1>6, <1>7 DEF Process
  <2>2. Settled(m) /\ Whole(s, k, m) /\ m.healthy
    BY <1>7, NothingDeferred DEF Following, Settled
  <2>3. /\ HeadOK(o.mtp) /\ o.kv \in Memories
        /\ \/ /\ o.result = "failed" /\ o.kv = k
              /\ Off(o.mtp) /\ Still(o.mtp)
           \/ /\ o.result = "ok" /\ Decoded(o.mtp, o.kv, n, t)
              /\ o.mtp.deferredReady => m.draftPending /\ Len(b) # 1
    BY <1>3, <1>5, <2>1, <2>2
  <2> QED
    BY <1>5, <2>3 DEF t, n, Off
<1>8. CASE m.fuse
  <2>1. PICK f \in Flush(m, k) : o \in IF f.result = "ok" THEN Decode(f.mtp, f.kv, n, t)
                                       ELSE {f}
    BY <1>6, <1>8 DEF Process, Following
  <2>2. /\ HeadOK(f.mtp) /\ f.kv \in Memories
        /\ \/ /\ f.result = "ok" /\ Settled(f.mtp) /\ f.mtp.healthy
              /\ Whole(s, f.kv, f.mtp) /\ f.mtp.draftPending = m.draftPending
           \/ f.result = "failed" /\ ~f.mtp.healthy /\ f.kv = k
    BY <1>8, FlushFollows
  <2>3. CASE f.result = "ok"
    <3>1. o \in Decode(f.mtp, f.kv, n, t) /\ f.mtp \in Heads
      BY <2>1, <2>2, <2>3 DEF HeadOK
    <3>2. Len(f.kv) = n
      BY <1>4, <2>2, <2>3 DEF Whole, InSync
    <3>3. /\ HeadOK(o.mtp) /\ o.kv \in Memories
          /\ \/ /\ o.result = "failed" /\ o.kv = f.kv
                /\ Off(o.mtp) /\ Still(o.mtp)
             \/ /\ o.result = "ok" /\ Decoded(o.mtp, o.kv, n, t)
                /\ o.mtp.deferredReady => f.mtp.draftPending /\ Len(b) # 1
      BY <1>3, <2>2, <2>3, <3>1
    <3> QED
      BY <1>1, <1>8, <2>2, <2>3, <3>2, <3>3 DEF t, n, Off
  <2>4. CASE f.result # "ok"
    <3>1. o = f /\ f.result = "failed"
      BY <2>1, <2>2, <2>4
    <3> QED
      BY <1>5, <1>8, <2>2, <2>4, <3>1 DEF n
  <2> QED
    BY <2>3, <2>4
<1> QED
  BY <1>7, <1>8

LEMMA FinalizeFollows ==
  ASSUME NEW m, HeadOK(m), NEW k \in Memories, NEW s, Following(s, m, k),
         NEW o \in Finalize(m, k)
  PROVE  /\ HeadOK(o.mtp) /\ o.kv \in Memories
         /\ o.result = "ok" => o.mtp.healthy /\ Whole(s, o.kv, o.mtp)
<1>1. CASE m.fuse
  <2>1. o \in Flush(m, k)
    BY <1>1 DEF Finalize, Following
  <2> QED
    BY <1>1, <2>1, FlushFollows
<1>2. CASE ~m.fuse
  <2>1. o = Outcome(m, k, "ok")
    BY <1>2 DEF Finalize, Following
  <2>2. o.mtp = m /\ o.kv = k
    BY <2>1 DEF Outcome
  <2> QED
    BY <1>2, <2>2, NothingDeferred DEF Following
<1> QED
  BY <1>1, <1>2

LEMMA DraftFollows ==
  ASSUME NEW m, HeadOK(m), NEW k \in Memories, NEW s \in Seq(Tokens),
         Following(s, m, k), NEW o \in DraftFrom(m, k, Len(s))
  PROVE  /\ HeadOK(o.mtp) /\ o.kv \in Memories
         /\ \/ /\ o.result = "ok" /\ Settled(o.mtp) /\ o.mtp.healthy
               /\ Whole(s, o.kv, o.mtp) /\ GetState(o.mtp) = GetState(m)
            \/ o.result = "failed" /\ Off(o.mtp)
<1>1. /\ m \in Heads /\ k \o m.deferred \in Memories
      /\ Len(k \o m.deferred) = Len(k) + Len(m.deferred)
      /\ Len(k) \in Nat /\ Len(m.deferred) \in Nat /\ Len(s) \in Nat
  BY DeferredJoins, LenProperties DEF HeadOK
<1>2. ASSUME NEW h \in Heads, NEW j \in Memories, o = Outcome(Invalidate(h), j, "failed")
      PROVE  /\ HeadOK(o.mtp) /\ o.kv \in Memories
             /\ o.result = "failed" /\ Off(o.mtp)
  <2>1. o.mtp = Invalidate(h) /\ o.kv = j /\ o.result = "failed"
    BY <1>2 DEF Outcome
  <2> QED
    BY <2>1, HeadEdits, InvalidateIsOff
<1>3. CASE ~m.fuse
  <2>1. Whole(s, k, m) /\ Settled(m) /\ m.healthy
    BY <1>3, NothingDeferred DEF Following, Settled
  <2>2. CASE o = Outcome(m, k, "ok")
    <3>1. o.mtp = m /\ o.kv = k /\ o.result = "ok"
      BY <2>2 DEF Outcome
    <3> QED
      BY <2>1, <3>1
  <2>3. CASE o # Outcome(m, k, "ok")
    <3>1. o = Outcome(Invalidate(Outcome(m, k, "ok").mtp), Outcome(m, k, "ok").kv, "failed")
      BY <1>3, <2>3 DEF DraftFrom
    <3>2. Outcome(m, k, "ok").mtp = m /\ Outcome(m, k, "ok").kv = k
      BY DEF Outcome
    <3> QED
      BY <1>1, <1>2, <3>1, <3>2
  <2> QED
    BY <2>2, <2>3
<1>4. CASE m.fuse
  <2> DEFINE d == DiscardDeferred(m)
             j == k \o m.deferred
  <2>1. Len(j) = Len(s)
    BY PairsElements DEF Following, Whole, InSync
  <2>2. m.deferred # <<>> /\ m.deferredPos + Len(m.deferred) = Len(s)
        /\ Len(k) = m.deferredPos
    BY <1>1, <1>4, <2>1 DEF Following
  <2>3. o \in {Outcome(d, j, "ok"), Outcome(Invalidate(m), k, "failed"),
               Outcome(Invalidate(m), j, "failed")}
    BY <1>4, <2>2 DEF DraftFrom
  <2>4. CASE o = Outcome(d, j, "ok")
    <3>1. o.mtp = d /\ o.kv = j /\ o.result = "ok"
      BY <2>4 DEF Outcome
    <3>2. d \in Heads /\ d.pending = m.pending /\ d.pendingPos = m.pendingPos
      BY <1>1, HeadEdits
    <3>3. /\ d.prev = m.prev /\ d.prevPos = m.prevPos /\ d.healthy = m.healthy
          /\ Settled(d)
      BY <1>1, <3>2 DEF DiscardDeferred, Heads, Settled
    <3> HIDE DEF d, j
    <3> QED
      BY <1>1, <3>1, <3>2, <3>3
         DEF j, HeadOK, Following, Whole, InSync, GetState
  <2>5. CASE o = Outcome(Invalidate(m), k, "failed")
    BY <1>1, <1>2, <2>5
  <2>6. CASE o = Outcome(Invalidate(m), j, "failed")
    BY <1>1, <1>2, <2>6
  <2> QED
    BY <2>3, <2>4, <2>5, <2>6
<1> QED
  BY <1>3, <1>4

\* The boundary is put at the last accepted token.
LEMMA RewindFields ==
  ASSUME NEW m \in Heads, NEW s \in Seq(Tokens), NEW n \in Nat,
         n < Len(s), Advanced(m, n, s), NEW j \in 0..Len(s) - n - 1
  PROVE  LET r == Rewind(m, j) left == n + 1 + j IN
         /\ HeadOK(r) /\ r.pending = First(s, left) /\ r.pendingPos = left - 1
         /\ r.prev = First(First(s, left), left - 1) /\ r.prevPos = left - 2
         /\ r.healthy = m.healthy /\ r.deferred = m.deferred
         /\ r.deferredPos = m.deferredPos
         /\ r.deferredReady = m.deferredReady /\ r.fuse = m.fuse
<1> DEFINE left == n + 1 + j
           p == IF j = 0 THEN m.entry ELSE m.verify[j]
           x == IF j = 0 THEN m.entryPos ELSE m.verifyPos + j - 1
           e == [m EXCEPT !.prev = p, !.prevPos = x,
                          !.pending = m.verify[j + 1], !.pendingPos = m.verifyPos + j]
<1>1. Len(s) \in Nat /\ left \in 1..Len(s) /\ j \in Nat
  BY LenProperties
<1>2. /\ m.verify \in Seq(Rows) /\ Len(m.verify) = Len(s) - n
      /\ \A i \in 1..Len(s) - n : m.verify[i] = First(s, n + i)
  <2>1. m.verify \in Seq(Rows)
    BY DEF Heads
  <2>2. DOMAIN m.verify = 1..Len(s) - n
    BY DEF Advanced
  <2>3. Len(m.verify) \in Nat /\ DOMAIN m.verify = 1..Len(m.verify)
    BY <2>1, LenProperties
  <2> QED
    BY <1>1, <2>1, <2>2, <2>3 DEF Advanced
<1>3. m.verify # <<>>
  BY <1>1, <1>2, EmptySeq
<1>4. (IF j < Len(m.verify) - 1 THEN j ELSE Len(m.verify) - 1) = j
  BY <1>1, <1>2
<1>5. Rewind(m, j) = ClearTransient(e)
  BY <1>3, <1>4 DEF Rewind
<1>6. m.verify[j + 1] = First(s, left) /\ m.verifyPos + j = left - 1
  BY <1>1, <1>2 DEF Advanced
<1>7. p = First(s, left - 1) /\ x = left - 2
  <2>1. CASE j = 0
    BY <2>1, <1>1 DEF Advanced
  <2>2. CASE j # 0
    <3>1. m.verify[j] = First(s, n + j)
      BY <1>1, <1>2, <2>2
    <3> QED
      BY <1>1, <2>2, <3>1 DEF Advanced
  <2> QED
    BY <2>1, <2>2
<1>8. /\ First(s, left) \in Rows /\ First(s, left - 1) \in Rows
      /\ First(First(s, left), left - 1) = First(s, left - 1)
  BY <1>1, FirstElements, FirstOfFirst DEF Rows
<1>9. /\ p \in Rows /\ x \in Int /\ m.verify[j + 1] \in Rows /\ m.verifyPos + j \in Int
  BY <1>1, <1>6, <1>7, <1>8
<1> HIDE DEF p, x, left
<1>10. e \in Heads
  BY <1>9, Zenon DEF Heads
<1>11. /\ e.prev = p /\ e.prevPos = x /\ e.pending = m.verify[j + 1]
       /\ e.pendingPos = m.verifyPos + j
       /\ e.healthy = m.healthy /\ e.deferred = m.deferred
       /\ e.deferredPos = m.deferredPos
       /\ e.deferredReady = m.deferredReady /\ e.fuse = m.fuse
  BY DEF Heads
<1> HIDE DEF e
<1> DEFINE r == ClearTransient(e)
<1>12. r \in Heads /\ r.pending = e.pending /\ r.pendingPos = e.pendingPos
  BY <1>10, HeadEdits
<1>13. /\ r.prev = e.prev /\ r.prevPos = e.prevPos
       /\ r.healthy = e.healthy /\ r.deferred = e.deferred
       /\ r.deferredPos = e.deferredPos
       /\ r.deferredReady = e.deferredReady /\ r.fuse = e.fuse
  BY <1>10 DEF ClearTransient, Heads
<1> HIDE DEF r
<1>14. HeadOK(r)
  BY <1>1, <1>6, <1>11, <1>12 DEF HeadOK
<1>15. Rewind(m, j) = r
  BY <1>5 DEF r
<1> QED
  BY <1>6, <1>7, <1>8, <1>11, <1>12, <1>13, <1>14, <1>15 DEF left

\* Accepting j tokens of a draft leaves what follows the tokens kept, whether the
\* verification was decoded, is fused, or has to be decoded now.
LEMMA AcceptFollows ==
  ASSUME NEW m, HeadOK(m), NEW k \in Memories, NEW s \in Seq(Tokens),
         NEW n \in Nat, n < Len(s), Decoded(m, k, n, s),
         NEW j \in 0..Len(s) - n - 1, NEW o \in Accept(m, k, j)
  PROVE  /\ HeadOK(o.mtp) /\ o.kv \in Memories
         /\ \/ /\ o.result = "ok"
               /\ Following(First(s, n + 1 + j), o.mtp, Cut(o.kv, n + 1 + j))
            \/ o.result = "failed" /\ ~o.mtp.healthy
<1> DEFINE left == n + 1 + j
           t == First(s, left)
<1>1. /\ Len(s) \in Nat /\ left \in 1..Len(s) /\ left \in Nat /\ left \in 0..Len(s)
      /\ m \in Heads
  BY LenProperties DEF HeadOK
<1>2. t \in Seq(Tokens) /\ Len(t) = left
  BY <1>1, FirstElements
<1>3. /\ k \o m.deferred = Pairs(s) /\ Len(Pairs(s)) = Len(s)
      /\ Len(k \o m.deferred) = Len(k) + Len(m.deferred) /\ m.deferred \in Memories
      /\ Len(k) \in Nat /\ Len(m.deferred) \in Nat
  BY <1>1, DeferredJoins, PairsElements DEF Decoded
<1>4. Cut(Pairs(s), left) = Pairs(t)
  BY <1>1, CutPairs
<1>5. ASSUME NEW h \in Heads, Advanced(h, n, s), NEW r, r = Rewind(h, j)
      PROVE  /\ HeadOK(r) /\ r.pending = t /\ r.pendingPos = Len(t) - 1
             /\ r.prev = First(t, Len(t) - 1) /\ r.prevPos = Len(t) - 2
             /\ r.healthy = h.healthy /\ r.deferred = h.deferred
             /\ r.deferredPos = h.deferredPos
             /\ r.deferredReady = h.deferredReady /\ r.fuse = h.fuse
  BY <1>2, <1>5, RewindFields
<1> HIDE DEF t, left
<1>6. CASE ~m.deferredReady
  <2> DEFINE r == Rewind(m, j)
  <2>1. o = Outcome(r, k, "ok")
    BY <1>6 DEF Accept, Decoded, Advanced
  <2>2. k = Pairs(s) /\ m.deferred = <<>> /\ Advanced(m, n, s) /\ ~m.fuse /\ m.healthy
    BY <1>3, <1>6, NothingDeferred DEF Decoded, Advanced
  <2>3. /\ HeadOK(r) /\ r.pending = t /\ r.pendingPos = Len(t) - 1
        /\ r.prev = First(t, Len(t) - 1) /\ r.prevPos = Len(t) - 2
        /\ r.healthy = m.healthy /\ r.deferred = m.deferred
        /\ r.deferredReady = m.deferredReady /\ r.fuse = m.fuse
    BY <1>1, <1>5, <2>2
  <2> HIDE DEF r
  <2>4. o.mtp = r /\ o.kv = k /\ o.result = "ok"
    BY <2>1 DEF Outcome
  <2>5. Pairs(t) \o <<>> = Pairs(t)
    BY <1>2, PairsElements, NothingDeferred
  <2>6. Following(t, r, Cut(k, left))
    BY <1>4, <1>6, <2>2, <2>3, <2>5 DEF Following, Whole, InSync
  <2> QED
    BY <2>3, <2>4, <2>6 DEF t, left
<1>7. CASE m.deferredReady /\ j + 1 = Len(m.deferred)
  <2> DEFINE h == [m EXCEPT !.deferredReady = FALSE, !.fuse = TRUE]
             r == Rewind(h, j)
  <2>1. o = Outcome(r, k, "ok")
    BY <1>7 DEF Accept, Decoded, Advanced
  <2>2. h \in Heads
    BY <1>1, FALSE \in BOOLEAN, TRUE \in BOOLEAN, Zenon DEF Heads
  <2>3. Advanced(h, n, s)
    BY <1>1, <2>2 DEF Decoded, Advanced, Heads
  <2>4. /\ h.deferred = m.deferred /\ h.deferredPos = m.deferredPos
        /\ h.deferredReady = FALSE /\ h.fuse = TRUE /\ h.healthy = m.healthy
    BY <1>1 DEF Heads
  <2> HIDE DEF h
  <2>5. /\ HeadOK(r) /\ r.pending = t /\ r.pendingPos = Len(t) - 1
        /\ r.prev = First(t, Len(t) - 1) /\ r.prevPos = Len(t) - 2
        /\ r.healthy = h.healthy /\ r.deferred = h.deferred
        /\ r.deferredPos = h.deferredPos
        /\ r.deferredReady = h.deferredReady /\ r.fuse = h.fuse
    BY <1>5, <2>2, <2>3
  <2> HIDE DEF r
  <2>6. o.mtp = r /\ o.kv = k /\ o.result = "ok"
    BY <2>1 DEF Outcome
  <2>7. m.deferredPos = Len(k) /\ Len(k) = n /\ m.healthy
    BY <1>7 DEF Decoded, Advanced
  <2>8. left = Len(s) /\ Len(m.deferred) # 0
    <3>1. Len(s) = Len(k) + Len(m.deferred)
      BY <1>3
    <3> QED
      BY <1>1, <1>7, <2>7, <3>1 DEF left
  <2>9. t = s /\ Cut(k, left) = k /\ m.deferred # <<>>
    <3>1. t = s
      BY <2>8, FirstAll DEF t
    <3>2. Cut(k, left) = k
      BY <1>1, <1>3, <2>8, CutMemory
    <3> QED
      BY <2>8, <3>1, <3>2, EmptySeq
  <2>10. Following(t, r, Cut(k, left))
    BY <1>3, <2>4, <2>5, <2>7, <2>9 DEF Following, Whole, InSync
  <2> QED
    BY <2>5, <2>6, <2>10 DEF t, left
<1>8. CASE m.deferredReady /\ j + 1 # Len(m.deferred)
  <2> DEFINE d == DiscardDeferred(m)
             u == [m EXCEPT !.healthy = FALSE]
  <2>1. m.healthy /\ m.deferredPos = Len(k)
    BY <1>8 DEF Decoded, Advanced
  <2>2. PICK f \in Flush(m, k) :
          o = IF f.result = "ok" THEN [f EXCEPT !.mtp = Rewind(f.mtp, j)] ELSE f
    BY <1>8, <2>1 DEF Accept
  <2>3. f = Outcome(d, k \o m.deferred, "ok") \/ f = Outcome(u, k, "failed")
    BY <1>1, <2>1, FlushOutcomes
  <2>4. /\ d \in Heads /\ d.pending = m.pending /\ d.pendingPos = m.pendingPos
        /\ u \in Heads /\ u.pending = m.pending /\ u.pendingPos = m.pendingPos
    BY <1>1, HeadEdits
  <2>5. Advanced(d, n, s) /\ Settled(d) /\ d.healthy
    BY <1>1, <2>1, <2>4 DEF DiscardDeferred, Heads, Settled, Advanced, Decoded
  <2>6. ~u.healthy
    BY <1>1 DEF Heads
  <2> HIDE DEF d, u
  <2>7. CASE f = Outcome(d, k \o m.deferred, "ok")
    <3> DEFINE r == Rewind(d, j)
    <3>1. o.mtp = r /\ o.kv = Pairs(s) /\ o.result = "ok"
      BY <1>3, <2>2, <2>7 DEF Outcome
    <3>2. /\ HeadOK(r) /\ r.pending = t /\ r.pendingPos = Len(t) - 1
          /\ r.prev = First(t, Len(t) - 1) /\ r.prevPos = Len(t) - 2
          /\ r.healthy = d.healthy /\ r.deferred = d.deferred
          /\ r.deferredReady = d.deferredReady /\ r.fuse = d.fuse
      BY <1>5, <2>4, <2>5
    <3> HIDE DEF r
    <3>3. Pairs(t) \o <<>> = Pairs(t) /\ Pairs(s) \in Memories
      BY <1>2, PairsElements, NothingDeferred
    <3>4. Following(t, r, Cut(o.kv, left))
      BY <1>4, <2>5, <3>1, <3>2, <3>3 DEF Following, Whole, InSync, Settled
    <3> QED
      BY <3>1, <3>2, <3>3, <3>4 DEF t, left
  <2>8. CASE f = Outcome(u, k, "failed")
    <3>1. o.mtp = u /\ o.kv = k /\ o.result = "failed"
      BY <2>2, <2>8 DEF Outcome
    <3> QED
      BY <2>4, <2>6, <3>1 DEF HeadOK
  <2> QED
    BY <2>3, <2>7, <2>8
<1> QED
  BY <1>6, <1>7, <1>8

LEMMA SomeState ==
  ASSUME NEW d \in States
  PROVE  d # None
BY DEF States, None

LEMMA SetStateFollows ==
  ASSUME NEW m \in Heads, NEW s \in Seq(Tokens), s # <<>>, NEW k \in Memories,
         NEW d \in States, d.pending = s, d.pendingPos = Len(s) - 1,
         d.prev = First(s, Len(s) - 1), d.prevPos = Len(s) - 2
  PROVE  LET h == SetState(m, d, k) IN
         /\ HeadOK(h) /\ Still(h)
         /\ IF Len(k) = Len(s)
            THEN /\ h.healthy /\ h.pending = s /\ h.pendingPos = Len(s) - 1
                 /\ h.prev = First(s, Len(s) - 1) /\ h.prevPos = Len(s) - 2
            ELSE Off(h)
<1>1. Len(s) \in Nat /\ Len(s) > 0 /\ Len(k) \in Nat
  BY LenProperties, EmptySeq DEF Memories
<1>2. PosOk(d)
  BY <1>1 DEF PosOk
<1>3. CASE Len(k) = Len(s)
  <2> DEFINE q == Quiet(m)
             h == [q EXCEPT !.pending = d.pending, !.pendingPos = d.pendingPos,
                            !.prev = d.prev, !.prevPos = d.prevPos, !.healthy = TRUE]
  <2>1. SetState(m, d, k) = h
    BY <1>1, <1>2, <1>3, SomeState DEF SetState, PosMax
  <2>2. q \in Heads
    BY HeadEdits
  <2>3. Still(q)
    BY DEF Still, Settled, Quiet, ClearTransient, DiscardDeferred, Heads
  <2> HIDE DEF q
  <2>4. /\ d.pending \in Rows /\ d.pendingPos \in Int /\ d.prev \in Rows
        /\ d.prevPos \in Int /\ TRUE \in BOOLEAN
    BY DEF States
  <2>5. h \in Heads
    BY <2>2, <2>4, Zenon DEF Heads
  <2>6. /\ h.healthy /\ h.pending = s /\ h.pendingPos = Len(s) - 1
        /\ h.prev = First(s, Len(s) - 1) /\ h.prevPos = Len(s) - 2
        /\ Still(h)
    BY <2>2, <2>3 DEF Still, Settled, Heads
  <2> HIDE DEF h
  <2>7. HeadOK(h)
    BY <1>1, <2>5, <2>6 DEF HeadOK
  <2> QED
    BY <1>3, <2>1, <2>6, <2>7
<1>4. CASE Len(k) # Len(s)
  <2>1. SetState(m, d, k) = Invalidate(m)
    BY <1>1, <1>4 DEF SetState, PosMax
  <2> QED
    BY <1>4, <2>1, HeadEdits, InvalidateIsOff
<1> QED
  BY <1>3, <1>4

LEMMA GetStateFollows ==
  ASSUME NEW m \in Heads
  PROVE  /\ GetState(m) \in States \cup {None}
         /\ GetState(m) # None <=> m.healthy /\ m.pendingPos # Invalid
         /\ GetState(m) # None =>
              /\ GetState(m).pending = m.pending /\ GetState(m).pendingPos = m.pendingPos
              /\ GetState(m).prev = m.prev /\ GetState(m).prevPos = m.prevPos
<1>1. CASE m.healthy /\ m.pendingPos # Invalid
  <2>1. GetState(m) \in States
    BY <1>1 DEF GetState, States, Heads
  <2> QED
    BY <1>1, <2>1, SomeState DEF GetState
<1>2. CASE ~(m.healthy /\ m.pendingPos # Invalid)
  BY <1>2 DEF GetState
<1> QED
  BY <1>1, <1>2

-------------------------------------------------------------------------------
(* The inductive invariant                                                 *)

\* Of each phase of the slot.  A boundary without a position meets no batch but
\* one from position 0 (Boundary), so that a head that is merely reset stays off.
IdleInv ==
  phase = "idle" =>
    /\ Still(mtp)
    /\ tokens # <<>> => \/ mtp.pendingPos = Invalid /\ excused
                        \/ specUsable /\ Following(tokens, mtp, kv)

PromptInv ==
  phase = "prompt" =>
    /\ tokens # <<>> /\ Still(mtp)
    /\ \/ Off(mtp) /\ excused
       \/ specUsable /\ Following(tokens, mtp, kv)

GenInv ==
  phase = "gen" =>
    /\ tokens # <<>>
    /\ \/ /\ ~mtp.healthy /\ excused
          /\ specUsable \/ mtp.pendingPos = Invalid
       \/ specUsable /\ Following(tokens, mtp, kv)

DraftedInv ==
  phase = "drafted" =>
    /\ tokens # <<>> /\ specUsable
    /\ draft # <<>> /\ Len(tokens) + 1 + Len(draft) <= MaxLen
    /\ ckpt \in Checkpoints /\ ckpt.spec \in States
    /\ ckpt.n = Len(tokens) /\ Whole(tokens, kv, ckpt.spec)
    /\ Settled(mtp)
    /\ \/ Off(mtp) /\ excused
       \/ Following(tokens, mtp, kv)

VerifiedInv ==
  phase = "verified" =>
    /\ specUsable /\ draft # <<>>
    /\ ckpt \in Checkpoints /\ ckpt.spec \in States
    /\ ckpt.n > 0 /\ Len(tokens) = ckpt.n + 1 + Len(draft)
    /\ Whole(First(tokens, ckpt.n), Cut(kv, ckpt.n), ckpt.spec)
    /\ \/ Off(mtp) /\ excused
       \/ Decoded(mtp, kv, ckpt.n, tokens)

CachedInv ==
  cached # None =>
    /\ cached \in Entries /\ cached.tokens # <<>>
    /\ Len(cached.tokens) <= MaxLen /\ Len(cached.kv) <= Len(cached.tokens)
    /\ cached.spec # None => Whole(cached.tokens, cached.kv, cached.spec)

SampledInv == phase \in {"gen", "drafted", "verified"} => sampled \in Tokens

PhaseInv == IdleInv /\ PromptInv /\ GenInv /\ DraftedInv /\ VerifiedInv

SInv == TypeOK /\ HeadOK(mtp) /\ PhaseInv /\ CachedInv /\ SampledInv

LEMMA BatchIsSeq ==
  ASSUME NEW n \in Nat, NEW b \in Batches(n)
  PROVE  b \in Seq(Tokens) /\ Len(b) \in 1..n /\ b # <<>>
<1>1. PICK i \in 1..n : b \in [1..i -> Tokens]
  BY DEF Batches
<1>2. b \in Seq(Tokens) /\ Len(b) = i
  BY <1>1, FunctionIsSeq
<1> QED
  BY <1>1, <1>2, EmptySeq

LEMMA EmptyPairs ==
  /\ Pairs(<<>>) = <<>> /\ <<>> \in Seq(Tokens) /\ <<>> \in Memories
  /\ \A k \in Memories : Cut(k, 0) = <<>>
  /\ \A s \in Seq(Tokens) : First(s, 0) = <<>>
<1>1. <<>> \in Seq(Tokens) /\ Len(<<>>) = 0 /\ <<>> \in Memories
  BY EmptySeq DEF Memories
<1>2. Pairs(<<>>) \in Memories /\ Len(Pairs(<<>>)) = 0
  BY <1>1, PairsElements
<1>3. Pairs(<<>>) = <<>>
  BY <1>2, EmptySeq DEF Memories
<1>4. ASSUME NEW k \in Memories
      PROVE  Cut(k, 0) = <<>>
  <2>1. Cut(k, 0) \in Memories /\ Len(Cut(k, 0)) = 0
    BY CutMemory, 0 \in Nat
  <2> QED
    BY <2>1, EmptySeq DEF Memories
<1>5. ASSUME NEW s \in Seq(Tokens)
      PROVE  First(s, 0) = <<>>
  <2>1. 0 \in 0..Len(s)
    BY LenProperties
  <2>2. First(s, 0) \in Seq(Tokens) /\ Len(First(s, 0)) = 0
    BY <2>1, FirstElements
  <2> QED
    BY <2>2, EmptySeq
<1> QED
  BY <1>1, <1>3, <1>4, <1>5

LEMMA WholeLen ==
  ASSUME NEW s \in Seq(Tokens), NEW k, NEW d, Whole(s, k, d)
  PROVE  k \in Memories /\ Len(k) = Len(s) /\ k = Pairs(s)
BY PairsElements DEF Whole, InSync

LEMMA FollowingLen ==
  ASSUME NEW s \in Seq(Tokens), NEW k \in Memories, NEW m \in Heads, Following(s, m, k)
  PROVE  Len(k) <= Len(s) /\ (Settled(m) => Whole(s, k, m))
<1>1. k \o m.deferred = Pairs(s) /\ Len(Pairs(s)) = Len(s)
  BY PairsElements DEF Following, Whole, InSync
<1>2. Len(k) <= Len(s)
  BY <1>1, DeferredJoins
<1>3. Settled(m) => k \o m.deferred = k
  BY NothingDeferred DEF Settled
<1> QED
  BY <1>2, <1>3 DEF Following

LEMMA DecodedFollows ==
  ASSUME NEW s \in Seq(Tokens), NEW n, NEW k \in Memories, NEW m \in Heads,
         Decoded(m, k, n, s)
  PROVE  /\ Len(k) <= Len(s)
         /\ ~m.deferredReady => Following(s, m, k) /\ Still(m)
<1>1. k \o m.deferred = Pairs(s) /\ Len(Pairs(s)) = Len(s)
  BY PairsElements DEF Decoded
<1> QED
  BY <1>1, DeferredJoins
     DEF Decoded, Advanced, Following, Still, Settled, Whole, InSync

LEMMA DecodedCut ==
  ASSUME NEW s \in Seq(Tokens), NEW n \in 0..Len(s), NEW k \in Memories,
         NEW m \in Heads, Decoded(m, k, n, s)
  PROVE  Cut(k, n) = Pairs(First(s, n))
<1>1. k \o m.deferred = Pairs(s) /\ m.deferred \in Memories /\ Len(k) \in Nat
  BY DeferredJoins DEF Decoded
<1>2. n \in Nat
  BY LenProperties
<1>3. CASE m.deferredReady
  <2>1. Len(k) = n /\ n \in 0..Len(k)
    BY <1>2, <1>3 DEF Decoded
  <2>2. First(k \o m.deferred, n) = First(k, n)
    BY <1>1, <2>1, FirstOfConcat DEF Memories
  <2>3. First(k, n) = k
    BY <2>1, FirstAll DEF Memories
  <2>4. Cut(k, n) = First(k, n)
    BY <1>2, <2>1 DEF Cut
  <2> QED
    BY <1>1, <2>2, <2>3, <2>4, PairsOfFirst
<1>4. CASE ~m.deferredReady
  <2>1. k = Pairs(s)
    BY <1>1, <1>4, NothingDeferred DEF Decoded
  <2> QED
    BY <2>1, CutPairs
<1> QED
  BY <1>3, <1>4

LEMMA ProcessOff ==
  ASSUME NEW m, HeadOK(m), ~m.healthy, NEW k, NEW n, NEW s,
         NEW o \in Process(m, k, n, s)
  PROVE  /\ HeadOK(o.mtp) /\ ~o.mtp.healthy /\ o.mtp.pendingPos = m.pendingPos
         /\ o.kv = k /\ (Settled(m) => Still(o.mtp))
<1> DEFINE d == [m EXCEPT !.draftPending = FALSE]
<1>1. m \in Heads /\ FALSE \in BOOLEAN
  BY DEF HeadOK
<1>2. /\ d \in Heads /\ d.pending = m.pending /\ d.pendingPos = m.pendingPos
  BY <1>1, HeadEdits
<1>3. d.healthy = m.healthy /\ (Settled(m) => Still(d))
  BY <1>1 DEF Heads, Settled, Still
<1> HIDE DEF d
<1>4. o = Outcome(d, k, "ok") \/ (o = Outcome(m, k, "ok") /\ m.fuse)
  BY DEF Process, Decode, d
<1> QED
  BY <1>2, <1>3, <1>4 DEF HeadOK, Outcome, Settled

-------------------------------------------------------------------------------
(* The slot's steps                                                        *)

\* What the slot gets of the first batch of a prompt that shares n tokens.
LEMMA StartOutcome ==
  ASSUME TypeOK, HeadOK(mtp), IdleInv, phase = "idle",
         NEW n \in 0..Len(tokens), NEW b \in Seq(Tokens), b # <<>>,
         NEW s, s = First(tokens, n) \o b,
         NEW o \in Process(IF n = 0 THEN Reset(mtp) ELSE mtp, Cut(kv, n), n, s)
  PROVE  /\ s \in Seq(Tokens) /\ Len(s) = n + Len(b)
         /\ HeadOK(o.mtp) /\ o.kv \in Memories /\ Len(o.kv) <= Len(s)
         /\ Still(o.mtp)
         /\ \/ Off(o.mtp) /\ \/ o.result = "failed"
                             \/ n # 0 /\ (excused \/ n < Len(tokens) - 1)
            \/ (n = 0 \/ specUsable) /\ Following(s, o.mtp, o.kv)
<1> DEFINE m == IF n = 0 THEN Reset(mtp) ELSE mtp
           k == Cut(kv, n)
<1>1. /\ tokens \in Seq(Tokens) /\ Len(tokens) \in Nat /\ n \in Nat /\ Len(b) \in Nat
      /\ Len(b) > 0
  BY LenProperties, EmptySeq DEF TypeOK
<1>2. First(tokens, n) \in Seq(Tokens) /\ Len(First(tokens, n)) = n
  BY <1>1, FirstElements
<1>3. s \in Seq(Tokens) /\ Len(s) = n + Len(b)
  BY <1>2, ConcatProperties
<1>4. First(s, n) = First(tokens, n)
  <2>1. First(s, n) = First(First(tokens, n), n)
    BY <1>1, <1>2, FirstOfConcat, n \in 0..Len(First(tokens, n))
  <2> QED
    BY <1>1, <1>2, <2>1, FirstAll
<1>5. /\ k \in Memories /\ Len(k) <= n /\ Len(k) \in Nat
  <2>1. kv \in Memories
    BY DEF TypeOK
  <2>2. k \in Memories /\ Len(kv) \in Nat /\ Len(k) = IF n < Len(kv) THEN n ELSE Len(kv)
    BY <1>1, <2>1, CutMemory
  <2> QED
    BY <1>1, <2>2
<1>6. mtp \in Heads /\ Still(mtp)
  BY DEF IdleInv, HeadOK
<1>7. m \in Heads /\ Still(m)
  BY <1>6, HeadEdits, ResetKeeps
<1>8. n \in 0..Len(s) - 1 /\ Len(s) \in Nat
  BY <1>1, <1>3
<1> HIDE DEF m, k
<1>9. o \in Decode(m, k, n, s)
  BY <1>7 DEF Process, Still, Settled, m, k
<1>10. ASSUME m.healthy, Meets(m, k, n, s), n = 0 \/ specUsable
       PROVE  /\ HeadOK(o.mtp) /\ o.kv \in Memories /\ Len(o.kv) <= Len(s)
              /\ Still(o.mtp)
              /\ \/ Off(o.mtp) /\ o.result = "failed"
                 \/ (n = 0 \/ specUsable) /\ Following(s, o.mtp, o.kv)
  <2>1. /\ HeadOK(o.mtp) /\ o.kv \in Memories
        /\ \/ /\ o.result = "failed" /\ o.kv = k
              /\ Off(o.mtp) /\ Still(o.mtp)
           \/ /\ o.result = "ok" /\ Decoded(o.mtp, o.kv, n, s)
              /\ o.mtp.deferredReady => m.draftPending /\ Len(s) - n # 1
    BY <1>3, <1>5, <1>7, <1>8, <1>9, <1>10, DecodeMet DEF Still
  <2>2. CASE o.result = "failed"
    BY <1>1, <1>3, <1>5, <2>1, <2>2
  <2>3. CASE o.result # "failed"
    <3>1. ~o.mtp.deferredReady /\ Decoded(o.mtp, o.kv, n, s) /\ o.mtp \in Heads
      BY <1>7, <2>1, <2>3 DEF Still, HeadOK
    <3>2. Len(o.kv) <= Len(s) /\ Following(s, o.mtp, o.kv) /\ Still(o.mtp)
      BY <1>3, <2>1, <3>1, DecodedFollows
    <3> QED
      BY <1>10, <2>1, <3>2
  <2> QED
    BY <2>2, <2>3
<1>11. ASSUME m.healthy, ~BoundaryOk(Boundary(m, n), k, n)
       PROVE  /\ HeadOK(o.mtp) /\ Off(o.mtp) /\ Still(o.mtp)
              /\ o.kv \in Memories /\ Len(o.kv) <= Len(s)
  <2>1. HeadOK(o.mtp) /\ Off(o.mtp) /\ Still(o.mtp) /\ o.kv = k
    BY <1>1, <1>7, <1>9, <1>11, DecodeRefused
  <2> QED
    BY <1>1, <1>3, <1>5, <2>1
<1>12. CASE n = 0
  <2>1. m.healthy /\ m.pendingPos = mtp.pendingPos /\ m.pending = mtp.pending
    BY <1>6, <1>12, ResetKeeps DEF m
  <2>2. m.pendingPos = -1 => m.pending = <<>>
    BY <2>1 DEF HeadOK
  <2>3. k = <<>> /\ First(s, 0) = <<>> /\ Pairs(<<>>) = <<>>
    BY <1>3, <1>12, EmptyPairs DEF k, TypeOK
  <2>4. Boundary(m, 0).pending = <<>> /\ Boundary(m, 0).pendingPos = -1
    <3>1. CASE m.pendingPos = -1
      BY <2>2, <3>1 DEF Boundary
    <3>2. CASE m.pendingPos # -1
      BY <1>7, <3>2 DEF Boundary, Heads, Invalid
    <3> QED
      BY <3>1, <3>2
  <2>5. Meets(m, k, n, s)
    BY <1>12, <2>3, <2>4 DEF Meets
  <2> QED
    BY <1>3, <1>10, <1>12, <2>1, <2>5
<1>13. CASE n # 0
  <2>1. m = mtp /\ tokens # <<>>
    BY <1>1, <1>13, EmptySeq DEF m
  <2>2. \/ mtp.pendingPos = Invalid /\ excused
        \/ specUsable /\ Following(tokens, mtp, kv)
    BY <2>1 DEF IdleInv
  <2>3. CASE mtp.pendingPos = Invalid /\ excused /\ mtp.healthy
    <3>1. Boundary(m, n) = m
      BY <1>1, <1>13, <2>1, <2>3 DEF Boundary, Invalid
    <3>2. ~BoundaryOk(Boundary(m, n), k, n)
      BY <1>5, <2>1, <2>3, <3>1 DEF BoundaryOk, PosMax, Invalid
    <3> QED
      BY <1>3, <1>11, <1>13, <2>1, <2>3, <3>2
  <2>4. CASE mtp.pendingPos = Invalid /\ excused /\ ~mtp.healthy
    <3>1. /\ HeadOK(o.mtp) /\ ~o.mtp.healthy /\ o.mtp.pendingPos = m.pendingPos
          /\ o.kv = k /\ Still(o.mtp)
      BY <1>7, <2>1, <2>4, ProcessOff DEF Still, m, k
    <3> QED
      BY <1>1, <1>3, <1>5, <1>13, <2>1, <2>4, <3>1 DEF Off
  <2>5. CASE specUsable /\ Following(tokens, mtp, kv)
    <3>1. mtp.healthy /\ Whole(tokens, kv, mtp)
      BY <1>1, <1>6, <2>5, FollowingLen DEF Following, Still, TypeOK
    <3>2. /\ mtp.pending = tokens /\ mtp.pendingPos = Len(tokens) - 1
          /\ mtp.prev = First(tokens, Len(tokens) - 1)
          /\ mtp.prevPos = Len(tokens) - 2 /\ kv = Pairs(tokens)
      BY <3>1 DEF Whole, InSync
    <3>3. k = Pairs(First(tokens, n)) /\ Len(k) = n
      <4>1. k = Pairs(First(tokens, n))
        BY <1>1, <3>2, CutPairs DEF k
      <4> QED
        BY <1>2, <4>1, PairsElements
    <3>4. CASE n = Len(tokens)
      <4>1. Boundary(m, n) = m
        BY <1>1, <1>13, <2>1, <3>2, <3>4 DEF Boundary
      <4>2. First(tokens, n) = tokens
        BY <1>1, <3>4, FirstAll
      <4>3. Meets(m, k, n, s)
        BY <1>4, <2>1, <3>2, <3>3, <3>4, <4>1, <4>2 DEF Meets
      <4> QED
        BY <1>3, <1>10, <2>1, <2>5, <3>1, <4>3
    <3>5. CASE n = Len(tokens) - 1
      <4> DEFINE e == [m EXCEPT !.pending = m.prev, !.pendingPos = m.prevPos,
                                !.prev = <<>>, !.prevPos = Invalid]
      <4>5. n = m.pendingPos /\ m.prevPos + 1 = m.pendingPos /\ ~(n = 0 /\ m.pendingPos # -1)
        BY <1>1, <1>13, <2>1, <3>2, <3>5
      <4>1. Boundary(m, n) = e
        BY <4>5 DEF Boundary
      <4>2. Boundary(m, n).pending = m.prev /\ Boundary(m, n).pendingPos = m.prevPos
        BY <1>7, <4>1 DEF Heads
      <4> HIDE DEF e
      <4>3. Meets(m, k, n, s)
        BY <1>1, <1>4, <2>1, <3>2, <3>3, <3>5, <4>2 DEF Meets
      <4>4. m.healthy
        BY <2>1, <3>1
      <4> QED
        BY <1>3, <1>10, <2>5, <4>3, <4>4
    <3>6. CASE n < Len(tokens) - 1
      <4>1. Boundary(m, n) = m
        BY <1>1, <1>13, <2>1, <3>2, <3>6 DEF Boundary
      <4>2. ~BoundaryOk(Boundary(m, n), k, n)
        BY <1>1, <2>1, <3>2, <3>3, <3>6, <4>1 DEF BoundaryOk, PosMax
      <4> QED
        BY <1>3, <1>11, <1>13, <2>1, <3>1, <3>6, <4>2
    <3> QED
      BY <1>1, <3>4, <3>5, <3>6
  <2> QED
    BY <2>2, <2>3, <2>4, <2>5
<1> QED
  BY <1>12, <1>13

LEMMA StartPromptStep == SInv /\ StartPrompt => SInv'
<1> SUFFICES ASSUME SInv, StartPrompt PROVE SInv'
  OBVIOUS
<1> USE DEF SInv
<1>0. PICK n \in 0..Len(tokens) : \E b \in Batches(MaxLen - n) :
        \E o \in Process(IF n = 0 THEN Reset(mtp) ELSE mtp, Cut(kv, n), n,
                         First(tokens, n) \o b) :
          /\ tokens' = First(tokens, n) \o b
          /\ mtp' = o.mtp /\ kv' = o.kv
          /\ specUsable' = (specUsable \/ n = 0)
          /\ excused' = \/ o.result = "failed"
                        \/ n # 0 /\ (excused \/ n < Len(tokens) - 1)
  BY DEF StartPrompt
<1>1. PICK b \in Batches(MaxLen - n) :
        \E o \in Process(IF n = 0 THEN Reset(mtp) ELSE mtp, Cut(kv, n), n,
                         First(tokens, n) \o b) :
          /\ tokens' = First(tokens, n) \o b
          /\ mtp' = o.mtp /\ kv' = o.kv
          /\ specUsable' = (specUsable \/ n = 0)
          /\ excused' = \/ o.result = "failed"
                        \/ n # 0 /\ (excused \/ n < Len(tokens) - 1)
  BY <1>0
<1>2. PICK o \in Process(IF n = 0 THEN Reset(mtp) ELSE mtp, Cut(kv, n), n,
                         First(tokens, n) \o b) :
          /\ tokens' = First(tokens, n) \o b
          /\ mtp' = o.mtp /\ kv' = o.kv
          /\ specUsable' = (specUsable \/ n = 0)
          /\ excused' = \/ o.result = "failed"
                        \/ n # 0 /\ (excused \/ n < Len(tokens) - 1)
  BY <1>1
<1>3. phase = "idle" /\ phase' = "prompt" /\ UNCHANGED <<sampled, draft, ckpt, cached>>
  BY DEF StartPrompt
<1>4. /\ MaxLen - n \in Nat /\ n \in Nat /\ Len(tokens) \in Nat /\ MaxLen \in Nat
  BY MtpAssumption, LenProperties DEF TypeOK
<1>5. b \in Seq(Tokens) /\ Len(b) \in 1..MaxLen - n /\ b # <<>>
  BY <1>4, BatchIsSeq
<1>6. /\ tokens' \in Seq(Tokens) /\ Len(tokens') = n + Len(b)
      /\ HeadOK(mtp') /\ kv' \in Memories /\ Len(kv') <= Len(tokens')
      /\ Still(mtp')
      /\ \/ Off(mtp') /\ excused'
         \/ specUsable' /\ Following(tokens', mtp', kv')
  BY <1>2, <1>3, <1>5, StartOutcome DEF PhaseInv
<1>7. tokens' # <<>> /\ Len(tokens') <= MaxLen
  BY <1>4, <1>5, <1>6, EmptySeq
<1>8. specUsable' \in BOOLEAN /\ excused' \in BOOLEAN
  BY <1>2, Zenon DEF TypeOK
<1>9. TypeOK'
  BY <1>3, <1>6, <1>7, <1>8 DEF TypeOK, HeadOK
<1>10. PhaseInv'
  BY <1>3, <1>6, <1>7
     DEF PhaseInv, IdleInv, PromptInv, GenInv, DraftedInv, VerifiedInv
<1> QED
  BY <1>3, <1>6, <1>9, <1>10 DEF CachedInv, SampledInv

\* The batch b behind the slot's tokens.
LEMMA ExtendOutcome ==
  ASSUME SInv, NEW b \in Seq(Tokens), b # <<>>, Extend(b), tokens # <<>>,
         Settled(mtp) \/ Len(b) = 1,
         \/ Off(mtp) /\ excused /\ Settled(mtp)
         \/ ~mtp.healthy /\ excused /\ (specUsable \/ mtp.pendingPos = Invalid)
         \/ specUsable /\ Following(tokens, mtp, kv)
  PROVE  /\ TypeOK /\ tokens' = tokens \o b
         /\ tokens' \in Seq(Tokens) /\ tokens' # <<>>
         /\ Len(tokens') = Len(tokens) + Len(b) /\ Len(tokens') <= MaxLen
         /\ HeadOK(mtp') /\ kv' \in Memories /\ Len(kv') <= Len(tokens')
         /\ excused' \in BOOLEAN
         /\ \/ ~mtp'.healthy /\ excused' /\ (specUsable \/ mtp'.pendingPos = Invalid)
            \/ specUsable /\ Decoded(mtp', kv', Len(tokens), tokens')
         /\ Off(mtp) /\ Settled(mtp) => Off(mtp') /\ Still(mtp') /\ kv' = kv
         /\ Following(tokens, mtp, kv) =>
              \/ Decoded(mtp', kv', Len(tokens), tokens')
              \/ /\ ~mtp'.healthy
                 /\ Settled(mtp) => Off(mtp') /\ Still(mtp') /\ kv' = kv
         /\ mtp'.deferredReady /\ mtp'.healthy => mtp.draftPending /\ Len(b) # 1
<1> USE DEF SInv
<1>1. PICK o \in Process(mtp, kv, Len(tokens), tokens \o b) :
        /\ mtp' = o.mtp /\ kv' = o.kv
        /\ excused' = (excused \/ o.result = "failed")
  BY DEF Extend
<1>2. /\ tokens' = tokens \o b /\ tokens \in Seq(Tokens) /\ kv \in Memories
      /\ Len(tokens) + Len(b) <= MaxLen /\ Len(tokens) \in Nat /\ Len(b) \in Nat
      /\ Len(kv) <= Len(tokens) /\ Len(kv) \in Nat
  BY LenProperties DEF Extend, TypeOK, Memories
<1>3. tokens' \in Seq(Tokens) /\ Len(tokens') = Len(tokens) + Len(b) /\ tokens' # <<>>
  BY <1>2, ConcatProperties, ConcatEqualIffEmpty
<1>4. excused' \in BOOLEAN
  BY <1>1, Zenon DEF TypeOK
<1>5. CASE ~mtp.healthy /\ excused /\ (specUsable \/ mtp.pendingPos = Invalid)
  <2>1. /\ HeadOK(mtp') /\ ~mtp'.healthy /\ mtp'.pendingPos = mtp.pendingPos
        /\ kv' = kv /\ (Settled(mtp) => Still(mtp'))
    BY <1>1, <1>5, ProcessOff
  <2>2. excused'
    BY <1>1, <1>5
  <2>3. Len(kv') <= Len(tokens')
    BY <1>2, <1>3, <2>1
  <2>4. Off(mtp) /\ Settled(mtp) => Off(mtp') /\ Still(mtp') /\ kv' = kv
    BY <2>1 DEF Off
  <2>5. ~Following(tokens, mtp, kv)
    BY <1>5 DEF Following
  <2> QED
    BY <1>2, <1>3, <1>4, <1>5, <2>1, <2>2, <2>3, <2>4, <2>5
<1>6. CASE specUsable /\ Following(tokens, mtp, kv)
  <2>1. /\ HeadOK(mtp') /\ kv' \in Memories
        /\ \/ /\ o.result = "failed" /\ Len(kv') <= Len(tokens) /\ ~mtp'.healthy
              /\ mtp.fuse \/ (Off(mtp') /\ Still(mtp') /\ kv' = kv)
           \/ /\ o.result = "ok" /\ Decoded(mtp', kv', Len(tokens), tokens')
              /\ mtp'.deferredReady => mtp.draftPending /\ Len(b) # 1
    BY <1>1, <1>2, <1>6, ProcessFollows
  <2>2. ~Off(mtp)
    BY <1>6 DEF Off, Following
  <2>3. Len(kv') \in Nat
    BY <2>1, NothingDeferred
  <2>4. CASE o.result = "failed"
    <3>1. Len(kv') <= Len(tokens')
      BY <1>2, <1>3, <2>1, <2>3, <2>4
    <3>3. excused'
      BY <1>1, <2>4, Zenon
    <3>2. ~mtp'.healthy /\ (Settled(mtp) => Off(mtp') /\ Still(mtp') /\ kv' = kv)
      BY <2>1, <2>4 DEF Settled
    <3> QED
      BY <1>2, <1>3, <1>4, <1>6, <2>1, <2>2, <3>1, <3>2, <3>3
  <2>5. CASE o.result # "failed"
    <3>1. Len(kv') <= Len(tokens')
      BY <1>3, <2>1, <2>5, DecodedFollows DEF HeadOK
    <3> QED
      BY <1>2, <1>3, <1>4, <1>6, <2>1, <2>2, <2>5, <3>1
  <2> QED
    BY <2>4, <2>5
<1>7. CASE Off(mtp) /\ excused /\ Settled(mtp)
  BY <1>5, <1>7 DEF Off
<1> QED
  BY <1>5, <1>6, <1>7

LEMMA MorePromptStep == SInv /\ MorePrompt => SInv'
<1> SUFFICES ASSUME SInv, MorePrompt PROVE SInv'
  OBVIOUS
<1> USE DEF SInv
<1>1. PICK b \in Batches(MaxLen - Len(tokens)) : Extend(b)
  BY DEF MorePrompt
<1>2. /\ phase = "prompt" /\ phase' = "prompt" /\ sampled' = sampled
      /\ UNCHANGED <<draft, specUsable, ckpt, cached>>
  BY <1>1 DEF MorePrompt, Extend
<1>3. MaxLen - Len(tokens) \in Nat
  BY MtpAssumption, LenProperties DEF TypeOK
<1>4. b \in Seq(Tokens) /\ b # <<>>
  BY <1>3, BatchIsSeq
<1>5. /\ tokens # <<>> /\ Still(mtp) /\ Settled(mtp) /\ ~mtp.draftPending
      /\ \/ Off(mtp) /\ excused
         \/ specUsable /\ Following(tokens, mtp, kv)
  BY <1>2 DEF PhaseInv, PromptInv, Still
<1>6. /\ tokens' \in Seq(Tokens) /\ tokens' # <<>> /\ Len(tokens') <= MaxLen
      /\ HeadOK(mtp') /\ kv' \in Memories /\ Len(kv') <= Len(tokens')
      /\ excused' \in BOOLEAN
      /\ \/ ~mtp'.healthy /\ excused' /\ (specUsable \/ mtp'.pendingPos = Invalid)
         \/ specUsable /\ Decoded(mtp', kv', Len(tokens), tokens')
      /\ Off(mtp) /\ Settled(mtp) => Off(mtp') /\ Still(mtp') /\ kv' = kv
      /\ Following(tokens, mtp, kv) =>
           \/ Decoded(mtp', kv', Len(tokens), tokens')
           \/ /\ ~mtp'.healthy
              /\ Settled(mtp) => Off(mtp') /\ Still(mtp') /\ kv' = kv
      /\ mtp'.deferredReady /\ mtp'.healthy => mtp.draftPending /\ Len(b) # 1
  BY <1>1, <1>4, <1>5, ExtendOutcome
<1>7. TypeOK'
  BY <1>2, <1>6 DEF TypeOK, HeadOK
<1>8. /\ Still(mtp')
      /\ \/ Off(mtp') /\ excused'
         \/ specUsable /\ Following(tokens', mtp', kv')
  <2>1. CASE Decoded(mtp', kv', Len(tokens), tokens') /\ specUsable
    <3>1. ~mtp'.deferredReady
      BY <1>5, <1>6, <2>1 DEF Decoded, Advanced
    <3> QED
      BY <1>6, <2>1, <3>1, DecodedFollows DEF HeadOK
  <2>2. CASE ~(Decoded(mtp', kv', Len(tokens), tokens') /\ specUsable)
    BY <1>5, <1>6, <2>2
  <2> QED
    BY <2>1, <2>2
<1>9. PhaseInv'
  BY <1>2, <1>6, <1>8
     DEF PhaseInv, IdleInv, PromptInv, GenInv, DraftedInv, VerifiedInv
<1> QED
  BY <1>2, <1>6, <1>7, <1>9 DEF CachedInv, SampledInv

LEMMA GenerateStep == SInv /\ Generate => SInv'
<1> SUFFICES ASSUME SInv, Generate PROVE SInv'
  OBVIOUS
<1> USE DEF SInv
<1>1. /\ phase = "prompt" /\ phase' = "gen" /\ sampled' \in Tokens
      /\ UNCHANGED <<tokens, draft, kv, specUsable, ckpt, cached, excused>>
  BY DEF Generate
<1>2. mtp' = mtp
  BY <1>1 DEF Generate, Begin, PhaseInv, PromptInv, Still, Settled
<1>3. TypeOK'
  BY <1>1, <1>2 DEF TypeOK
<1>4. PhaseInv'
  BY <1>1, <1>2
     DEF PhaseInv, IdleInv, PromptInv, GenInv, DraftedInv, VerifiedInv, Off
<1> QED
  BY <1>1, <1>2, <1>3, <1>4 DEF CachedInv, SampledInv

LEMMA DecodeNextStep == SInv /\ DecodeNext => SInv'
<1> SUFFICES ASSUME SInv, DecodeNext PROVE SInv'
  OBVIOUS
<1> USE DEF SInv
<1> DEFINE b == <<sampled>>
<1>1. /\ phase = "gen" /\ phase' = "gen" /\ sampled' \in Tokens /\ Extend(b)
      /\ UNCHANGED <<draft, specUsable, ckpt, cached>>
  BY DEF DecodeNext, Extend
<1>2. b \in Seq(Tokens) /\ b # <<>> /\ Len(b) = 1
  BY <1>1 DEF SampledInv
<1> HIDE DEF b
<1>3. /\ tokens # <<>>
      /\ \/ ~mtp.healthy /\ excused /\ (specUsable \/ mtp.pendingPos = Invalid)
         \/ specUsable /\ Following(tokens, mtp, kv)
  BY <1>1 DEF PhaseInv, GenInv
<1>4. /\ tokens' \in Seq(Tokens) /\ tokens' # <<>> /\ Len(tokens') <= MaxLen
      /\ HeadOK(mtp') /\ kv' \in Memories /\ Len(kv') <= Len(tokens')
      /\ excused' \in BOOLEAN
      /\ \/ ~mtp'.healthy /\ excused' /\ (specUsable \/ mtp'.pendingPos = Invalid)
         \/ specUsable /\ Decoded(mtp', kv', Len(tokens), tokens')
      /\ mtp'.deferredReady /\ mtp'.healthy => mtp.draftPending /\ Len(b) # 1
  BY <1>1, <1>2, <1>3, ExtendOutcome
<1>5. TypeOK'
  BY <1>1, <1>4 DEF TypeOK, HeadOK
<1>6. \/ ~mtp'.healthy /\ excused' /\ (specUsable \/ mtp'.pendingPos = Invalid)
      \/ specUsable /\ Following(tokens', mtp', kv')
  <2>1. CASE Decoded(mtp', kv', Len(tokens), tokens') /\ specUsable
    <3>1. ~mtp'.deferredReady
      BY <1>2, <1>4, <2>1 DEF Decoded, Advanced
    <3> QED
      BY <1>4, <2>1, <3>1, DecodedFollows DEF HeadOK
  <2> QED
    BY <1>4, <2>1
<1>7. PhaseInv'
  BY <1>1, <1>4, <1>6
     DEF PhaseInv, IdleInv, PromptInv, GenInv, DraftedInv, VerifiedInv
<1> QED
  BY <1>1, <1>4, <1>5, <1>7 DEF CachedInv, SampledInv

LEMMA DraftStep == SInv /\ Draft => SInv'
<1> SUFFICES ASSUME SInv, Draft PROVE SInv'
  OBVIOUS
<1> USE DEF SInv
<1>1. PICK o \in DraftFrom(mtp, kv, Len(tokens)) :
        /\ kv' = Cut(o.kv, Len(tokens))
        /\ excused' = (excused \/ o.result = "failed")
        /\ \/ mtp' = o.mtp /\ UNCHANGED <<phase, draft, ckpt>>
           \/ /\ o.result = "ok"
              /\ draft' \in Batches(NMax)
              /\ Len(tokens) + 1 + Len(draft') <= MaxLen
              /\ mtp' = [o.mtp EXCEPT !.draftPending = TRUE]
              /\ ckpt' = [n |-> Len(tokens), spec |-> GetState(mtp)]
              /\ phase' = "drafted"
  BY DEF Draft
<1>2. /\ phase = "gen" /\ specUsable /\ mtp.healthy
      /\ UNCHANGED <<tokens, sampled, specUsable, cached>>
  BY DEF Draft
<1>3. /\ tokens # <<>> /\ Following(tokens, mtp, kv) /\ sampled \in Tokens
  BY <1>2 DEF PhaseInv, GenInv, SampledInv
<1>4. /\ tokens \in Seq(Tokens) /\ kv \in Memories /\ Len(tokens) \in Nat
      /\ Len(tokens) <= MaxLen /\ MaxLen \in Nat /\ Len(tokens) > 0
      /\ NMax \in Nat
  BY <1>3, MtpAssumption, LenProperties, EmptySeq DEF TypeOK
<1>5. /\ HeadOK(o.mtp) /\ o.kv \in Memories
      /\ \/ /\ o.result = "ok" /\ Settled(o.mtp) /\ o.mtp.healthy
            /\ Whole(tokens, o.kv, o.mtp) /\ GetState(o.mtp) = GetState(mtp)
         \/ o.result = "failed" /\ Off(o.mtp)
  BY <1>3, <1>4, DraftFollows
<1>6. kv' \in Memories /\ Len(kv') <= Len(tokens) /\ Len(kv') \in Nat
  <2>1. kv' \in Memories /\ Len(o.kv) \in Nat
        /\ Len(kv') = IF Len(tokens) < Len(o.kv) THEN Len(tokens) ELSE Len(o.kv)
    BY <1>1, <1>4, <1>5, CutMemory
  <2> QED
    BY <1>4, <2>1
<1>7. ASSUME o.result = "ok"
      PROVE  Whole(tokens, kv', o.mtp)
  <2>1. Len(o.kv) = Len(tokens)
    BY <1>4, <1>5, <1>7, WholeLen
  <2>2. kv' = o.kv
    <3>1. Len(o.kv) <= Len(tokens)
      BY <1>4, <2>1
    <3>2. Cut(o.kv, Len(tokens)) = o.kv
      BY <1>4, <1>5, <3>1, CutMemory
    <3> QED
      BY <1>1, <3>2
  <2> QED
    BY <1>5, <1>7, <2>2
<1>8. excused' \in BOOLEAN
  BY <1>1, Zenon DEF TypeOK
<1>9. CASE mtp' = o.mtp /\ UNCHANGED <<phase, draft, ckpt>>
  <2>1. TypeOK'
    BY <1>2, <1>5, <1>6, <1>8, <1>9 DEF TypeOK, HeadOK
  <2>2. \/ ~mtp'.healthy /\ excused'
        \/ Following(tokens', mtp', kv')
    <3>1. CASE o.result = "ok"
      <4>1. kv' \o <<>> = kv'
        BY <1>6, NothingDeferred
      <4> QED
        BY <1>2, <1>5, <1>7, <1>9, <3>1, <4>1 DEF Following, Settled
    <3>2. CASE o.result # "ok"
      <4>1. excused'
        BY <1>1, <1>5, <3>2
      <4>2. ~mtp'.healthy
        BY <1>5, <1>9, <3>2 DEF Off
      <4> QED
        BY <4>1, <4>2
    <3> QED
      BY <3>1, <3>2
  <2>3. PhaseInv'
    BY <1>2, <1>3, <1>9, <2>2
       DEF PhaseInv, IdleInv, PromptInv, GenInv, DraftedInv, VerifiedInv
  <2> QED
    BY <1>2, <1>3, <1>5, <1>9, <2>1, <2>3 DEF CachedInv, SampledInv
<1>10. CASE /\ o.result = "ok"
            /\ draft' \in Batches(NMax)
            /\ Len(tokens) + 1 + Len(draft') <= MaxLen
            /\ mtp' = [o.mtp EXCEPT !.draftPending = TRUE]
            /\ ckpt' = [n |-> Len(tokens), spec |-> GetState(mtp)]
            /\ phase' = "drafted"
  <2>1. /\ o.mtp \in Heads /\ Settled(o.mtp) /\ o.mtp.healthy
        /\ Whole(tokens, kv', o.mtp) /\ GetState(o.mtp) = GetState(mtp)
    BY <1>5, <1>7, <1>10 DEF HeadOK
  <2>2. /\ mtp' \in Heads /\ mtp'.pending = o.mtp.pending
        /\ mtp'.pendingPos = o.mtp.pendingPos
    BY <1>10, <2>1, HeadEdits, TRUE \in BOOLEAN
  <2>3. /\ mtp'.prev = o.mtp.prev /\ mtp'.prevPos = o.mtp.prevPos
        /\ mtp'.healthy /\ Settled(mtp')
    BY <1>10, <2>1 DEF Heads, Settled
  <2>4. Following(tokens', mtp', kv')
    <3>1. kv' \o <<>> = kv'
      BY <1>6, NothingDeferred
    <3> QED
      BY <1>2, <2>1, <2>2, <2>3, <3>1 DEF Following, Settled, Whole, InSync
  <2>5. o.mtp.pendingPos # Invalid
    BY <1>4, <2>1 DEF Whole, InSync, Invalid
  <2>6. /\ GetState(mtp) \in States
        /\ Whole(tokens, kv', GetState(mtp))
    BY <2>1, <2>5, GetStateFollows DEF Whole, InSync
  <2>7. /\ ckpt' \in Checkpoints /\ ckpt'.n = Len(tokens) /\ ckpt'.spec = GetState(mtp)
    BY <1>4, <1>10, <2>6 DEF Checkpoints
  <2>8. draft' \in Seq(Tokens) /\ Len(draft') <= NMax /\ draft' # <<>>
    BY <1>4, <1>10, BatchIsSeq
  <2>9. TypeOK'
    BY <1>2, <1>6, <1>8, <1>10, <2>2, <2>7, <2>8 DEF TypeOK
  <2>10. PhaseInv'
    BY <1>2, <1>3, <1>10, <2>3, <2>4, <2>6, <2>7, <2>8
       DEF PhaseInv, IdleInv, PromptInv, GenInv, DraftedInv, VerifiedInv
  <2>11. HeadOK(mtp')
    BY <1>5, <2>2 DEF HeadOK
  <2> QED
    BY <1>2, <1>3, <2>9, <2>10, <2>11 DEF CachedInv, SampledInv
<1> QED
  BY <1>1, <1>9, <1>10

LEMMA VerifyStep == SInv /\ Verify => SInv'
<1> SUFFICES ASSUME SInv, Verify PROVE SInv'
  OBVIOUS
<1> USE DEF SInv
<1> DEFINE b == <<sampled>> \o draft
<1>1. /\ phase = "drafted" /\ phase' = "verified" /\ Extend(b)
      /\ UNCHANGED <<sampled, draft, specUsable, ckpt, cached>>
  BY DEF Verify, Extend
<1>2. /\ tokens # <<>> /\ specUsable
      /\ draft # <<>> /\ Len(tokens) + 1 + Len(draft) <= MaxLen
      /\ ckpt \in Checkpoints /\ ckpt.spec \in States
      /\ ckpt.n = Len(tokens) /\ Whole(tokens, kv, ckpt.spec)
      /\ Settled(mtp)
      /\ \/ Off(mtp) /\ excused
         \/ Following(tokens, mtp, kv)
  BY <1>1 DEF PhaseInv, DraftedInv
<1>3. b \in Seq(Tokens) /\ b # <<>> /\ Len(b) = 1 + Len(draft)
  <2>1. sampled \in Tokens /\ draft \in Seq(Tokens)
    BY <1>1 DEF SampledInv, TypeOK
  <2>2. <<sampled>> \in Seq(Tokens) /\ Len(<<sampled>>) = 1
    BY <2>1
  <2> QED
    BY <2>1, <2>2, ConcatProperties, ConcatEqualIffEmpty, EmptySeq
<1> HIDE DEF b
<1>4. /\ tokens' = tokens \o b
      /\ tokens' \in Seq(Tokens) /\ tokens' # <<>>
      /\ Len(tokens') = Len(tokens) + Len(b) /\ Len(tokens') <= MaxLen
      /\ HeadOK(mtp') /\ kv' \in Memories /\ Len(kv') <= Len(tokens')
      /\ excused' \in BOOLEAN
      /\ \/ ~mtp'.healthy /\ excused' /\ (specUsable \/ mtp'.pendingPos = Invalid)
         \/ specUsable /\ Decoded(mtp', kv', Len(tokens), tokens')
      /\ Off(mtp) /\ Settled(mtp) => Off(mtp') /\ Still(mtp') /\ kv' = kv
      /\ Following(tokens, mtp, kv) =>
           \/ Decoded(mtp', kv', Len(tokens), tokens')
           \/ /\ ~mtp'.healthy
              /\ Settled(mtp) => Off(mtp') /\ Still(mtp') /\ kv' = kv
  BY <1>1, <1>2, <1>3, ExtendOutcome
<1>5. TypeOK'
  BY <1>1, <1>4 DEF TypeOK, HeadOK
<1>6. \/ Off(mtp') /\ excused'
      \/ Decoded(mtp', kv', ckpt.n, tokens')
  <2>1. CASE Decoded(mtp', kv', Len(tokens), tokens')
    BY <1>2, <2>1
  <2>2. CASE ~Decoded(mtp', kv', Len(tokens), tokens')
    BY <1>2, <1>4, <2>2
  <2> QED
    BY <2>1, <2>2
<1>7. /\ tokens \in Seq(Tokens) /\ kv \in Memories /\ Len(tokens) \in Nat
      /\ Len(tokens) > 0
  BY <1>2, LenProperties, EmptySeq DEF TypeOK
<1>8. First(tokens', ckpt.n) = tokens
  BY <1>2, <1>3, <1>4, <1>7, FirstOfConcat, FirstAll
<1>9. Cut(kv', ckpt.n) = Pairs(tokens)
  <2>1. kv = Pairs(tokens) /\ Len(kv) = Len(tokens)
    BY <1>2, <1>7, WholeLen
  <2>2. CASE kv' = kv
    BY <1>2, <1>7, <2>1, <2>2, CutMemory
  <2>3. CASE Decoded(mtp', kv', Len(tokens), tokens')
    <3>1. Len(tokens) \in 0..Len(tokens')
      BY <1>3, <1>4, <1>7, LenProperties
    <3> QED
      BY <1>2, <1>4, <1>8, <2>3, <3>1, DecodedCut DEF HeadOK
  <2> QED
    BY <1>2, <1>4, <2>2, <2>3
<1>10. Whole(First(tokens', ckpt.n), Cut(kv', ckpt.n), ckpt.spec)
  BY <1>2, <1>8, <1>9 DEF Whole, InSync
<1>11. ckpt.n > 0 /\ Len(tokens') = ckpt.n + 1 + Len(draft)
  <2>1. Len(draft) \in Nat
    BY LenProperties DEF TypeOK
  <2> QED
    BY <1>2, <1>3, <1>4, <1>7, <2>1
<1>12. PhaseInv'
  BY <1>1, <1>2, <1>6, <1>10, <1>11
     DEF PhaseInv, IdleInv, PromptInv, GenInv, DraftedInv, VerifiedInv
<1> QED
  BY <1>1, <1>4, <1>5, <1>12 DEF CachedInv, SampledInv

LEMMA AcceptDraftStep == SInv /\ AcceptDraft => SInv'
<1> SUFFICES ASSUME SInv, AcceptDraft PROVE SInv'
  OBVIOUS
<1> USE DEF SInv
<1>1. PICK j \in 0..Len(draft) : \E t \in Tokens :
        LET left == Len(tokens) - (Len(draft) - j) IN
        /\ sampled' = t
        /\ tokens' = First(tokens, left)
        /\ \E o \in Accept(mtp, kv, j) :
             /\ mtp' = o.mtp /\ kv' = Cut(o.kv, left)
             /\ excused' = (excused \/ o.result = "failed")
  BY DEF AcceptDraft
<1> DEFINE left == Len(tokens) - (Len(draft) - j)
<1>2. /\ phase = "verified" /\ phase' = "gen" /\ draft' = <<>> /\ ckpt' = None
      /\ UNCHANGED <<specUsable, cached>>
  BY DEF AcceptDraft
<1>3. sampled' \in Tokens /\ tokens' = First(tokens, left)
  BY <1>1
<1>4. PICK o \in Accept(mtp, kv, j) :
        /\ mtp' = o.mtp /\ kv' = Cut(o.kv, left)
        /\ excused' = (excused \/ o.result = "failed")
  BY <1>1
<1> DEFINE n == ckpt.n
<1>5. /\ specUsable /\ n \in Nat /\ n > 0 /\ Len(tokens) = n + 1 + Len(draft)
      /\ \/ Off(mtp) /\ excused
         \/ Decoded(mtp, kv, n, tokens)
  BY <1>2, MtpAssumption DEF PhaseInv, VerifiedInv, Checkpoints
<1>6. /\ tokens \in Seq(Tokens) /\ Len(tokens) \in Nat /\ Len(draft) \in Nat
      /\ kv \in Memories /\ Len(tokens) <= MaxLen /\ MaxLen \in Nat
  BY MtpAssumption, LenProperties DEF TypeOK
<1> HIDE DEF n
<1>7. left = n + 1 + j /\ left \in 0..Len(tokens) /\ j \in 0..Len(tokens) - n - 1
      /\ n < Len(tokens) /\ left > 0 /\ left \in Nat
  BY <1>5, <1>6
<1>8. tokens' \in Seq(Tokens) /\ Len(tokens') = left /\ tokens' # <<>>
      /\ Len(tokens') <= MaxLen
  <2>1. tokens' \in Seq(Tokens) /\ Len(tokens') = left
    BY <1>3, <1>6, <1>7, FirstElements
  <2> QED
    BY <1>6, <1>7, <2>1, EmptySeq
<1>9. excused' \in BOOLEAN
  BY <1>4, Zenon DEF TypeOK
<1> HIDE DEF left
<1>10. /\ HeadOK(mtp') /\ o.kv \in Memories
       /\ \/ Following(tokens', mtp', kv')
          \/ ~mtp'.healthy /\ excused'
  <2>1. CASE Off(mtp) /\ excused
    <3>1. o = Outcome(mtp, kv, "ok")
      BY <2>1 DEF Accept, Off
    <3>2. o.mtp = mtp /\ o.kv = kv
      BY <3>1 DEF Outcome
    <3>3. excused'
      BY <1>4, <2>1
    <3> QED
      BY <1>4, <1>6, <2>1, <3>2, <3>3 DEF Off
  <2>2. CASE Decoded(mtp, kv, n, tokens)
    <3>1. /\ HeadOK(o.mtp) /\ o.kv \in Memories
          /\ \/ /\ o.result = "ok"
                /\ Following(First(tokens, n + 1 + j), o.mtp, Cut(o.kv, n + 1 + j))
             \/ o.result = "failed" /\ ~o.mtp.healthy
      BY <1>5, <1>6, <1>7, <2>2, AcceptFollows
    <3>2. CASE o.result = "failed" /\ ~o.mtp.healthy
      <4>1. excused'
        BY <1>4, <3>2
      <4> QED
        BY <1>4, <3>1, <3>2, <4>1
    <3>3. CASE Following(First(tokens, n + 1 + j), o.mtp, Cut(o.kv, n + 1 + j))
      BY <1>3, <1>4, <1>7, <3>1, <3>3
    <3> QED
      BY <3>1, <3>2, <3>3
  <2> QED
    BY <1>5, <2>1, <2>2
<1>11. kv' \in Memories /\ Len(kv') <= Len(tokens')
  <2>1. kv' \in Memories /\ Len(o.kv) \in Nat
        /\ Len(kv') = IF left < Len(o.kv) THEN left ELSE Len(o.kv)
    BY <1>4, <1>7, <1>10, CutMemory
  <2> QED
    BY <1>7, <1>8, <2>1
<1>12. draft' \in Seq(Tokens) /\ Len(draft') <= NMax
  BY <1>2, MtpAssumption, EmptySeq
<1>13. TypeOK'
  BY <1>2, <1>3, <1>8, <1>9, <1>10, <1>11, <1>12 DEF TypeOK, HeadOK
<1>14. PhaseInv'
  BY <1>2, <1>5, <1>8, <1>10
     DEF PhaseInv, IdleInv, PromptInv, GenInv, DraftedInv, VerifiedInv
<1> QED
  BY <1>2, <1>3, <1>10, <1>13, <1>14 DEF CachedInv, SampledInv

LEMMA RollbackStep == SInv /\ Rollback => SInv'
<1> SUFFICES ASSUME SInv, Rollback PROVE SInv'
  OBVIOUS
<1> USE DEF SInv
<1>1. PICK j \in 0..Len(draft) - 1 : \E t \in Tokens : \E k \in {kv, Cut(kv, ckpt.n)} :
        /\ draft' = First(draft, j) \o <<t>>
        /\ mtp' = SetState(mtp, ckpt.spec, k)
        /\ kv' = Cut(k, ckpt.n)
        /\ excused' = (excused \/ Len(k) # ckpt.n)
  BY DEF Rollback
<1>2. PICK t \in Tokens : \E k \in {kv, Cut(kv, ckpt.n)} :
        /\ draft' = First(draft, j) \o <<t>>
        /\ mtp' = SetState(mtp, ckpt.spec, k)
        /\ kv' = Cut(k, ckpt.n)
        /\ excused' = (excused \/ Len(k) # ckpt.n)
  BY <1>1
<1>3. PICK k \in {kv, Cut(kv, ckpt.n)} :
        /\ draft' = First(draft, j) \o <<t>>
        /\ mtp' = SetState(mtp, ckpt.spec, k)
        /\ kv' = Cut(k, ckpt.n)
        /\ excused' = (excused \/ Len(k) # ckpt.n)
  BY <1>2
<1> DEFINE n == ckpt.n
           base == First(tokens, n)
<1>4. /\ phase = "verified" /\ phase' = "drafted" /\ tokens' = base
      /\ UNCHANGED <<sampled, specUsable, ckpt, cached>>
  BY DEF Rollback
<1>5. /\ specUsable /\ draft # <<>>
      /\ ckpt \in Checkpoints /\ ckpt.spec \in States /\ n \in Nat
      /\ n > 0 /\ Len(tokens) = n + 1 + Len(draft)
      /\ Whole(base, Cut(kv, n), ckpt.spec)
  BY <1>4, MtpAssumption DEF PhaseInv, VerifiedInv, Checkpoints
<1>6. /\ tokens \in Seq(Tokens) /\ Len(tokens) \in Nat /\ Len(draft) \in Nat
      /\ draft \in Seq(Tokens) /\ Len(draft) <= NMax /\ NMax \in Nat
      /\ kv \in Memories /\ Len(tokens) <= MaxLen /\ MaxLen \in Nat
      /\ Cut(kv, n) \in Memories
  BY <1>5, MtpAssumption, LenProperties, CutMemory DEF TypeOK
<1>7. n \in 0..Len(tokens)
  BY <1>5, <1>6
<1> HIDE DEF n
<1>8. base \in Seq(Tokens) /\ Len(base) = n /\ base # <<>>
  <2>1. base \in Seq(Tokens) /\ Len(base) = n
    BY <1>6, <1>7, FirstElements
  <2> QED
    BY <1>5, <2>1, EmptySeq
<1> HIDE DEF base
<1>9. Len(Cut(kv, n)) = n /\ Cut(kv, n) = Pairs(base)
  BY <1>5, <1>8, WholeLen
<1>10. k \in Memories /\ kv' = Cut(kv, n)
  <2>1. Cut(Cut(kv, n), n) = Cut(kv, n)
    <3>1. Len(Cut(kv, n)) <= n
      BY <1>5, <1>9
    <3> QED
      BY <1>5, <1>6, <3>1, CutMemory
  <2> QED
    BY <1>3, <1>6, <2>1 DEF n
<1>11. /\ HeadOK(mtp') /\ Still(mtp')
       /\ IF Len(k) = n
          THEN /\ mtp'.healthy /\ mtp'.pending = base /\ mtp'.pendingPos = Len(base) - 1
               /\ mtp'.prev = First(base, Len(base) - 1) /\ mtp'.prevPos = Len(base) - 2
          ELSE Off(mtp')
  <2>1. /\ ckpt.spec.pending = base /\ ckpt.spec.pendingPos = Len(base) - 1
        /\ ckpt.spec.prev = First(base, Len(base) - 1)
        /\ ckpt.spec.prevPos = Len(base) - 2
    BY <1>5 DEF Whole, InSync
  <2>2. mtp' = SetState(mtp, ckpt.spec, k) /\ mtp \in Heads
    BY <1>3 DEF HeadOK
  <2> QED
    BY <1>5, <1>8, <1>10, <2>1, <2>2, SetStateFollows
<1>12. \/ Off(mtp') /\ excused'
       \/ Following(tokens', mtp', kv')
  <2>1. CASE Len(k) = n
    <3>1. kv' \o <<>> = kv'
      BY <1>6, <1>10, NothingDeferred
    <3> QED
      BY <1>4, <1>9, <1>10, <1>11, <2>1, <3>1
         DEF Following, Whole, InSync, Still, Settled
  <2>2. CASE Len(k) # n
    <3>1. excused'
      BY <1>3, <2>2 DEF n
    <3> QED
      BY <1>11, <2>2, <3>1
  <2> QED
    BY <2>1, <2>2
<1>13. /\ draft' \in Seq(Tokens) /\ draft' # <<>> /\ Len(draft') <= NMax
       /\ Len(tokens') + 1 + Len(draft') <= MaxLen
  <2>1. j \in 0..Len(draft) /\ j \in Nat
    BY <1>6
  <2>2. First(draft, j) \in Seq(Tokens) /\ Len(First(draft, j)) = j
    BY <1>6, <2>1, FirstElements
  <2>3. <<t>> \in Seq(Tokens) /\ Len(<<t>>) = 1
    OBVIOUS
  <2>4. draft' \in Seq(Tokens) /\ Len(draft') = j + 1
    BY <1>3, <2>2, <2>3, ConcatProperties
  <2> QED
    BY <1>4, <1>5, <1>6, <1>8, <2>1, <2>4, EmptySeq
<1>14. excused' \in BOOLEAN
  <2>1. (Len(k) # ckpt.n) \in BOOLEAN
    OBVIOUS
  <2> QED
    BY <1>3, Zenon DEF TypeOK
<1>15. Len(kv') <= Len(tokens') /\ Len(tokens') <= MaxLen /\ kv' \in Memories
  BY <1>4, <1>5, <1>6, <1>8, <1>9, <1>10
<1>16. TypeOK'
  BY <1>4, <1>8, <1>11, <1>13, <1>14, <1>15 DEF TypeOK, HeadOK
<1>17. Whole(tokens', kv', ckpt.spec) /\ ckpt.n = Len(tokens')
  BY <1>4, <1>5, <1>8, <1>10 DEF n
<1>18. PhaseInv'
  BY <1>4, <1>5, <1>8, <1>11, <1>12, <1>13, <1>17
     DEF PhaseInv, IdleInv, PromptInv, GenInv, DraftedInv, VerifiedInv, Still
<1> QED
  BY <1>4, <1>11, <1>16, <1>18 DEF CachedInv, SampledInv

\* The slot is emptied, whatever the head was.
LEMMA ClearedStep ==
  ASSUME SInv, phase' = "idle", NEW m \in Heads, m.pendingPos = -1 => m.pending = <<>>,
         Cleared(m), sampled' \in Tokens \cup {NoToken},
         (draft' = <<>> /\ ckpt' = None) \/ UNCHANGED <<draft, ckpt>>,
         CachedInv', cached' \in Entries \cup {None}
  PROVE  SInv'
<1> USE DEF SInv
<1>1. /\ tokens' = <<>> /\ kv' = <<>> /\ mtp' = Reset(m)
      /\ specUsable' = TRUE /\ excused' = FALSE
  BY DEF Cleared
<1>2. HeadOK(mtp') /\ Still(mtp')
  BY <1>1, HeadEdits, ResetKeeps DEF HeadOK
<1>3. /\ <<>> \in Seq(Tokens) /\ <<>> \in Memories /\ Len(<<>>) = 0 /\ MaxLen \in Nat
  BY EmptySeq, MtpAssumption DEF Memories
<1>4. TypeOK'
  <2>1. specUsable' \in BOOLEAN /\ excused' \in BOOLEAN
    BY <1>1
  <2>2. /\ draft' \in Seq(Tokens) /\ Len(draft') <= NMax
        /\ ckpt' \in Checkpoints \cup {None} /\ cached' \in Entries \cup {None}
        /\ sampled' \in Tokens \cup {NoToken} /\ phase' = "idle"
    <3>1. /\ draft \in Seq(Tokens) /\ Len(draft) <= NMax
          /\ ckpt \in Checkpoints \cup {None}
      BY DEF TypeOK
    <3>2. <<>> \in Seq(Tokens) /\ Len(<<>>) <= NMax
      BY <1>3, MtpAssumption
    <3>3. draft' \in Seq(Tokens) /\ Len(draft') <= NMax
      BY <3>1, <3>2
    <3>4. ckpt' \in Checkpoints \cup {None}
      BY <3>1
    <3> QED
      BY <3>3, <3>4
  <2>3. /\ tokens' \in Seq(Tokens) /\ Len(tokens') <= MaxLen
        /\ kv' \in Memories /\ Len(kv') <= Len(tokens')
    BY <1>1, <1>3
  <2>4. mtp' \in Heads
    BY <1>2 DEF HeadOK
  <2> QED
    BY <2>1, <2>2, <2>3, <2>4 DEF TypeOK
<1>5. PhaseInv'
  BY <1>1, <1>2 DEF PhaseInv, IdleInv, PromptInv, GenInv, DraftedInv, VerifiedInv
<1> QED
  BY <1>2, <1>4, <1>5 DEF SampledInv

LEMMA ReleaseStep == SInv /\ Release => SInv'
<1> SUFFICES ASSUME SInv, Release PROVE SInv'
  OBVIOUS
<1> USE DEF SInv
<1>1. /\ phase \in {"prompt", "gen", "drafted"} /\ phase' = "idle"
      /\ sampled' = NoToken /\ draft' = <<>> /\ ckpt' = None
      /\ UNCHANGED cached
  BY DEF Release
<1>2. /\ tokens # <<>>
      /\ \/ /\ ~mtp.healthy /\ excused
            /\ specUsable \/ mtp.pendingPos = Invalid
         \/ specUsable /\ Following(tokens, mtp, kv)
  BY <1>1 DEF PhaseInv, PromptInv, GenInv, DraftedInv, Off
<1>3. CachedInv' /\ cached' \in Entries \cup {None} /\ mtp \in Heads
  BY <1>1 DEF CachedInv, TypeOK
<1>4. tokens \in Seq(Tokens) /\ kv \in Memories
  BY DEF TypeOK
<1>5. ASSUME NEW h, HeadOK(h), mtp' = Reset(h), NEW k \in Memories, kv' = k,
             UNCHANGED <<tokens, specUsable, excused>>,
             \/ h.pendingPos = Invalid /\ excused /\ Len(k) <= Len(tokens)
             \/ specUsable /\ h.healthy /\ Whole(tokens, k, h)
      PROVE  SInv'
  <2>1. /\ HeadOK(mtp') /\ Still(mtp') /\ mtp'.healthy
        /\ mtp'.pending = h.pending /\ mtp'.pendingPos = h.pendingPos
        /\ mtp'.prev = h.prev /\ mtp'.prevPos = h.prevPos
    BY <1>5, HeadEdits, ResetKeeps DEF HeadOK
  <2>2. kv' \o <<>> = kv'
    BY <1>5, NothingDeferred
  <2>3. \/ mtp'.pendingPos = Invalid /\ excused'
        \/ specUsable' /\ Following(tokens', mtp', kv')
    BY <1>5, <2>1, <2>2 DEF Following, Still, Settled, Whole, InSync
  <2>4. PhaseInv'
    BY <1>1, <2>1, <2>3
       DEF PhaseInv, IdleInv, PromptInv, GenInv, DraftedInv, VerifiedInv
  <2>5. TypeOK'
    <3>1. Len(k) <= Len(tokens)
      BY <1>5, <1>4, WholeLen
    <3>2. /\ draft' \in Seq(Tokens) /\ Len(draft') <= NMax
          /\ ckpt' \in Checkpoints \cup {None}
      BY <1>1, EmptySeq, MtpAssumption
    <3> QED
      BY <1>1, <1>3, <1>5, <2>1, <3>1, <3>2 DEF TypeOK, HeadOK
  <2> QED
    BY <1>1, <1>3, <2>1, <2>4, <2>5 DEF SampledInv
<1>6. ASSUME NEW h, HeadOK(h), Cleared(h)
      PROVE  SInv'
  <2>1. h \in Heads /\ (h.pendingPos = -1 => h.pending = <<>>)
    BY <1>6 DEF HeadOK
  <2>2. sampled' \in Tokens \cup {NoToken}
    BY <1>1
  <2> QED
    BY <1>1, <1>3, <1>6, <2>1, <2>2, ClearedStep
<1>7. CASE specUsable
  <2>1. PICK o \in Finalize(mtp, kv) :
          IF o.result = "ok"
          THEN /\ mtp' = Reset(o.mtp) /\ kv' = o.kv
               /\ UNCHANGED <<tokens, specUsable, excused>>
          ELSE Cleared(o.mtp)
    BY <1>7 DEF Release
  <2>2. CASE Following(tokens, mtp, kv)
    <3>1. /\ HeadOK(o.mtp) /\ o.kv \in Memories
          /\ o.result = "ok" => o.mtp.healthy /\ Whole(tokens, o.kv, o.mtp)
      BY <1>4, <2>2, FinalizeFollows
    <3>2. CASE o.result = "ok"
      BY <1>5, <1>7, <2>1, <3>1, <3>2
    <3>3. CASE o.result # "ok"
      BY <1>6, <2>1, <3>1, <3>3
    <3> QED
      BY <3>2, <3>3
  <2>3. CASE ~mtp.healthy
    <3>1. o = Outcome(mtp, kv, "refused")
      BY <2>3 DEF Finalize
    <3>2. o.mtp = mtp /\ o.result = "refused"
      BY <3>1 DEF Outcome
    <3> QED
      BY <1>6, <2>1, <3>2
  <2> QED
    BY <1>2, <2>2, <2>3
<1>8. CASE ~specUsable
  <2>1. mtp' = Reset(mtp) /\ kv' = kv /\ UNCHANGED <<tokens, specUsable, excused>>
    BY <1>8 DEF Release
  <2>2. Len(kv) <= Len(tokens) /\ mtp.pendingPos = Invalid /\ excused
    BY <1>2, <1>8 DEF TypeOK
  <2> QED
    BY <1>4, <1>5, <2>1, <2>2
<1> QED
  BY <1>7, <1>8

LEMMA TailElements ==
  ASSUME NEW S, NEW s \in Seq(S), NEW i \in Nat, i > 0
  PROVE  /\ SubSeq(s, i, Len(s)) \in Seq(S)
         /\ Len(SubSeq(s, i, Len(s))) = IF i <= Len(s) THEN Len(s) - i + 1 ELSE 0
<1>1. Len(s) \in Nat /\ i \in Int /\ Len(s) \in Int
  BY LenProperties
<1>2. \A j \in i..Len(s) : s[j] \in S
  BY <1>1, ElementOfSeq
<1> QED
  BY <1>1, <1>2, SubSeqProperties

LEMMA ContextShiftStep == SInv /\ ContextShift => SInv'
<1> SUFFICES ASSUME SInv, ContextShift PROVE SInv'
  OBVIOUS
<1> USE DEF SInv
<1>1. /\ phase = "gen" /\ phase' = "gen" /\ specUsable' = FALSE /\ excused' = TRUE
      /\ UNCHANGED <<sampled, draft, ckpt, cached>>
  BY DEF ContextShift
<1>2. PICK o \in IF specUsable THEN Finalize(mtp, kv) ELSE {Outcome(mtp, kv, "ok")} :
        /\ o.result = "ok"
        /\ \E n \in 0..Len(tokens) - 2 : LET d == (Len(tokens) - n) \div 2 IN
             /\ tokens' = First(tokens, n) \o SubSeq(tokens, n + d + 1, Len(tokens))
             /\ kv' = Cut(o.kv, n) \o SubSeq(o.kv, n + d + 1, Len(o.kv))
        /\ mtp' = Invalidate(o.mtp)
  BY DEF ContextShift
<1>3. PICK n \in 0..Len(tokens) - 2 : LET d == (Len(tokens) - n) \div 2 IN
        /\ tokens' = First(tokens, n) \o SubSeq(tokens, n + d + 1, Len(tokens))
        /\ kv' = Cut(o.kv, n) \o SubSeq(o.kv, n + d + 1, Len(o.kv))
  BY <1>2
<1> DEFINE d == (Len(tokens) - n) \div 2
<1>4. /\ tokens' = First(tokens, n) \o SubSeq(tokens, n + d + 1, Len(tokens))
      /\ kv' = Cut(o.kv, n) \o SubSeq(o.kv, n + d + 1, Len(o.kv))
  BY <1>3
<1>5. /\ tokens \in Seq(Tokens) /\ kv \in Memories /\ Len(kv) <= Len(tokens)
      /\ Len(tokens) \in Nat /\ Len(tokens) <= MaxLen /\ MaxLen \in Nat
  BY MtpAssumption, LenProperties DEF TypeOK
<1>6. HeadOK(o.mtp) /\ o.kv \in Memories /\ Len(o.kv) <= Len(tokens)
  <2>1. CASE specUsable /\ Following(tokens, mtp, kv)
    <3>1. o \in Finalize(mtp, kv)
      BY <2>1
    <3>2. HeadOK(o.mtp) /\ Whole(tokens, o.kv, o.mtp)
      BY <1>2, <1>5, <2>1, <3>1, FinalizeFollows
    <3> QED
      BY <1>5, <3>2, WholeLen
  <2>2. CASE specUsable /\ ~mtp.healthy
    <3>1. o = Outcome(mtp, kv, "refused")
      BY <2>2 DEF Finalize
    <3>2. o.result = "refused"
      BY <3>1 DEF Outcome
    <3> QED
      BY <1>2, <3>2
  <2>3. CASE ~specUsable
    <3>1. o = Outcome(mtp, kv, "ok")
      BY <2>3
    <3>2. o.mtp = mtp /\ o.kv = kv
      BY <3>1 DEF Outcome
    <3> QED
      BY <1>5, <3>2
  <2> QED
    BY <1>1, <2>1, <2>2, <2>3 DEF PhaseInv, GenInv
<1>7. d \in Nat /\ d > 0 /\ n + d <= Len(tokens) - 1 /\ n \in Nat /\ n \in 0..Len(tokens)
  BY <1>5
<1> HIDE DEF d
<1>8. tokens' \in Seq(Tokens) /\ Len(tokens') = Len(tokens) - d
  <2>1. First(tokens, n) \in Seq(Tokens) /\ Len(First(tokens, n)) = n
    BY <1>5, <1>7, FirstElements
  <2>2. /\ SubSeq(tokens, n + d + 1, Len(tokens)) \in Seq(Tokens)
        /\ Len(SubSeq(tokens, n + d + 1, Len(tokens))) = Len(tokens) - n - d
    <3>1. n + d + 1 \in Nat /\ n + d + 1 > 0 /\ n + d + 1 <= Len(tokens)
      BY <1>5, <1>7
    <3>2. /\ SubSeq(tokens, n + d + 1, Len(tokens)) \in Seq(Tokens)
          /\ Len(SubSeq(tokens, n + d + 1, Len(tokens))) = Len(tokens) - (n + d + 1) + 1
      BY <1>5, <3>1, TailElements
    <3> QED
      BY <1>5, <1>7, <3>2
  <2>3. /\ tokens' \in Seq(Tokens)
        /\ Len(tokens') = n + (Len(tokens) - n - d)
    BY <1>4, <2>1, <2>2, ConcatProperties
  <2> QED
    BY <1>5, <1>7, <2>3
<1>9. kv' \in Memories /\ Len(kv') <= Len(tokens')
  <2> DEFINE S == [token : Tokens, row : Rows]
             head == Cut(o.kv, n)
             tail == SubSeq(o.kv, n + d + 1, Len(o.kv))
  <2>1. /\ head \in Memories /\ Len(o.kv) \in Nat
        /\ Len(head) = IF n < Len(o.kv) THEN n ELSE Len(o.kv)
    BY <1>6, <1>7, CutMemory
  <2>2. n + d + 1 \in Nat /\ n + d + 1 > 0
    BY <1>7
  <2>3. Memories = Seq(S)
    BY DEF Memories
  <2>4. o.kv \in Seq(S) /\ head \in Seq(S) /\ kv' = head \o tail
    BY <1>4, <1>6, <2>1, <2>3
  <2> HIDE DEF S, head
  <2>5. /\ tail \in Seq(S)
        /\ Len(tail) = IF n + d + 1 <= Len(o.kv) THEN Len(o.kv) - (n + d + 1) + 1 ELSE 0
    BY <2>2, <2>4, TailElements
  <2> HIDE DEF tail
  <2>6. kv' \in Seq(S) /\ Len(kv') = Len(head) + Len(tail)
    BY <2>4, <2>5, ConcatProperties
  <2>7. Len(head) + Len(tail) <= Len(tokens) - d
    <3>1. /\ Len(o.kv) \in Nat /\ Len(o.kv) <= Len(tokens) /\ Len(tokens) \in Nat
          /\ d \in Nat /\ n \in Nat /\ n + d <= Len(tokens) - 1
      BY <1>5, <1>6, <1>7, <2>1
    <3>2. CASE n + d + 1 <= Len(o.kv)
      <4>1. Len(head) = n /\ Len(tail) = Len(o.kv) - (n + d + 1) + 1
        BY <2>1, <2>5, <3>1, <3>2
      <4> QED
        BY <3>1, <3>2, <4>1
    <3>3. CASE ~(n + d + 1 <= Len(o.kv))
      <4>1. Len(head) \in Nat /\ Len(head) <= n /\ Len(tail) = 0
        BY <2>1, <2>5, <3>1, <3>3
      <4> QED
        BY <3>1, <4>1
    <3> QED
      BY <3>2, <3>3
  <2> QED
    BY <1>8, <2>3, <2>6, <2>7
<1>10. tokens' # <<>> /\ Len(tokens') <= MaxLen
  BY <1>5, <1>7, <1>8, EmptySeq
<1>11. HeadOK(mtp') /\ Off(mtp')
  BY <1>2, <1>6, HeadEdits, InvalidateIsOff DEF HeadOK
<1>12. specUsable' \in BOOLEAN /\ excused' \in BOOLEAN
  BY <1>1
<1>13. TypeOK'
  BY <1>1, <1>8, <1>9, <1>10, <1>11, <1>12 DEF TypeOK, HeadOK
<1>14. PhaseInv'
  BY <1>1, <1>10, <1>11
     DEF PhaseInv, IdleInv, PromptInv, GenInv, DraftedInv, VerifiedInv, Off
<1> QED
  BY <1>1, <1>11, <1>13, <1>14 DEF CachedInv, SampledInv

LEMMA SavedOK ==
  ASSUME SInv, phase = "idle", tokens # <<>>, NEW e \in {cached, None}, cached' = Saved(e)
  PROVE  CachedInv' /\ cached' \in Entries \cup {None}
<1> USE DEF SInv
<1> DEFINE spec == IF specUsable THEN GetState(mtp) ELSE None
           new == [tokens |-> tokens, kv |-> kv, spec |-> spec]
<1>1. /\ tokens \in Seq(Tokens) /\ Len(tokens) <= MaxLen /\ mtp \in Heads
      /\ kv \in Memories /\ Len(kv) <= Len(tokens) /\ cached \in Entries \cup {None}
  BY DEF TypeOK
<1>2. CASE cached' = e
  BY <1>1, <1>2 DEF CachedInv
<1>3. CASE cached' = new
  <2>1. spec \in States \cup {None}
    BY <1>1, GetStateFollows
  <2>2. ASSUME spec # None
        PROVE  Whole(tokens, kv, spec)
    <3>1. spec = GetState(mtp)
      BY <2>2
    <3>2. /\ mtp.healthy /\ mtp.pendingPos # Invalid
          /\ spec.pending = mtp.pending /\ spec.pendingPos = mtp.pendingPos
          /\ spec.prev = mtp.prev /\ spec.prevPos = mtp.prevPos
      BY <1>1, <2>2, <3>1, GetStateFollows
    <3>3. Following(tokens, mtp, kv) /\ Settled(mtp)
      BY <3>2 DEF PhaseInv, IdleInv, Still
    <3>4. Whole(tokens, kv, mtp)
      BY <1>1, <3>3, FollowingLen
    <3> QED
      BY <3>2, <3>4 DEF Whole, InSync
  <2> HIDE DEF spec
  <2>3. new \in Entries /\ new.tokens = tokens /\ new.kv = kv /\ new.spec = spec
    BY <1>1, <2>1 DEF Entries
  <2> HIDE DEF new
  <2>4. cached' \in Entries /\ cached'.tokens = tokens /\ cached'.kv = kv
        /\ cached'.spec = spec
    BY <1>3, <2>3
  <2> QED
    BY <1>1, <2>2, <2>4 DEF CachedInv
<1> QED
  BY <1>2, <1>3 DEF Saved

LEMMA SwapPromptStep == SInv /\ SwapPrompt => SInv'
<1> SUFFICES ASSUME SInv, SwapPrompt PROVE SInv'
  OBVIOUS
<1> USE DEF SInv
<1>1. /\ phase = "idle" /\ phase' = "idle" /\ tokens # <<>>
      /\ UNCHANGED <<sampled, draft, ckpt>>
  BY DEF SwapPrompt
<1>2. \/ cached' = Saved(cached) /\ UNCHANGED <<tokens, kv, mtp, specUsable, excused>>
      \/ /\ cached # None /\ cached' = Saved(None)
         /\ \/ /\ tokens' = cached.tokens /\ kv' = cached.kv
               /\ specUsable' = (cached.spec # None)
               /\ mtp' = SetState(mtp, cached.spec, cached.kv)
               /\ excused' = (cached.spec = None)
            \/ Cleared(Invalidate(mtp))
  BY DEF SwapPrompt
<1>3. CachedInv' /\ cached' \in Entries \cup {None}
  <2>1. cached' = Saved(cached) \/ cached' = Saved(None)
    BY <1>2
  <2> QED
    BY <1>1, <2>1, SavedOK
<1>4. mtp \in Heads /\ Len(<<>>) = 0
  BY DEF TypeOK
<1>5. CASE UNCHANGED <<tokens, kv, mtp, specUsable, excused>>
  <2>1. TypeOK'
    BY <1>1, <1>3, <1>5 DEF TypeOK
  <2>2. PhaseInv'
    BY <1>1, <1>5
       DEF PhaseInv, IdleInv, PromptInv, GenInv, DraftedInv, VerifiedInv, Following
  <2> QED
    BY <1>1, <1>3, <1>5, <2>1, <2>2 DEF SampledInv, HeadOK
<1>6. CASE Cleared(Invalidate(mtp))
  <2>1. HeadOK(Invalidate(mtp))
    BY <1>4, HeadEdits
  <2>2. sampled' \in Tokens \cup {NoToken}
    BY <1>1 DEF TypeOK
  <2> QED
    BY <1>1, <1>3, <1>6, <2>1, <2>2, ClearedStep DEF HeadOK
<1>7. CASE /\ cached # None /\ tokens' = cached.tokens /\ kv' = cached.kv
           /\ specUsable' = (cached.spec # None)
           /\ mtp' = SetState(mtp, cached.spec, cached.kv)
           /\ excused' = (cached.spec = None)
  <2>1. /\ cached \in Entries /\ tokens' # <<>> /\ Len(tokens') <= MaxLen
        /\ Len(kv') <= Len(tokens')
        /\ cached.spec # None => Whole(tokens', kv', cached.spec)
    BY <1>7 DEF CachedInv
  <2>2. /\ tokens' \in Seq(Tokens) /\ kv' \in Memories
        /\ cached.spec \in States \cup {None}
    BY <1>7, <2>1 DEF Entries
  <2>3. /\ HeadOK(mtp') /\ Still(mtp')
        /\ \/ mtp'.pendingPos = Invalid /\ excused'
           \/ specUsable' /\ Following(tokens', mtp', kv')
    <3>1. CASE cached.spec = None
      <4>1. mtp' = Invalidate(mtp)
        BY <1>7, <3>1 DEF SetState
      <4>2. excused'
        BY <1>7, <3>1
      <4> QED
        BY <1>4, <4>1, <4>2, HeadEdits, InvalidateIsOff DEF Off
    <3>2. CASE cached.spec # None
      <4>1. /\ cached.spec.pending = tokens'
            /\ cached.spec.pendingPos = Len(tokens') - 1
            /\ cached.spec.prev = First(tokens', Len(tokens') - 1)
            /\ cached.spec.prevPos = Len(tokens') - 2
        BY <2>1, <3>2 DEF Whole, InSync
      <4>2. Len(kv') = Len(tokens') /\ kv' = Pairs(tokens')
        BY <2>1, <2>2, <3>2, WholeLen
      <4>3. cached.spec \in States /\ mtp' = SetState(mtp, cached.spec, kv')
        BY <1>7, <2>2, <3>2
      <4>4. /\ HeadOK(mtp') /\ Still(mtp')
            /\ mtp'.healthy /\ mtp'.pending = tokens' /\ mtp'.pendingPos = Len(tokens') - 1
            /\ mtp'.prev = First(tokens', Len(tokens') - 1)
            /\ mtp'.prevPos = Len(tokens') - 2
        BY <1>4, <2>1, <2>2, <4>1, <4>2, <4>3, SetStateFollows
      <4>5. kv' \o <<>> = kv'
        BY <2>2, NothingDeferred
      <4>6. specUsable'
        BY <1>7, <3>2
      <4> QED
        BY <4>2, <4>4, <4>5, <4>6 DEF Following, Whole, InSync, Still, Settled
    <3> QED
      BY <3>1, <3>2
  <2>4. specUsable' \in BOOLEAN /\ excused' \in BOOLEAN
    <3>1. (cached.spec # None) \in BOOLEAN /\ (cached.spec = None) \in BOOLEAN
      OBVIOUS
    <3> QED
      BY <1>7, <3>1, Zenon
  <2>5. TypeOK'
    <3>1. phase' \in {"idle", "prompt", "gen", "drafted", "verified"} /\ mtp' \in Heads
      BY <1>1, <2>3 DEF HeadOK
    <3> QED
      BY <1>1, <1>3, <2>1, <2>2, <2>4, <3>1 DEF TypeOK
  <2>6. PhaseInv'
    BY <1>1, <2>3
       DEF PhaseInv, IdleInv, PromptInv, GenInv, DraftedInv, VerifiedInv
  <2> QED
    BY <1>1, <1>3, <2>3, <2>5, <2>6 DEF SampledInv
<1> QED
  BY <1>2, <1>5, <1>6, <1>7

LEMMA InitInv == Init => SInv
<1> SUFFICES ASSUME Init PROVE SInv
  OBVIOUS
<1>1. /\ phase = "idle" /\ tokens = <<>> /\ sampled = NoToken /\ draft = <<>>
      /\ kv = <<>> /\ mtp = Fresh /\ specUsable = TRUE
      /\ ckpt = None /\ cached = None /\ excused = FALSE
  BY DEF Init
<1>2. /\ <<>> \in Seq(Tokens) /\ <<>> \in Memories /\ <<>> \in Rows /\ <<>> \in Seq(Rows)
      /\ Len(<<>>) = 0 /\ MaxLen \in Nat /\ NMax \in Nat
  BY EmptySeq, MtpAssumption DEF Memories, Rows
<1>3. /\ FALSE \in BOOLEAN /\ TRUE \in BOOLEAN /\ 0 \in Nat /\ Invalid \in Int /\ -1 \in Int
  BY DEF Invalid
<1>4. Fresh \in Heads
  BY <1>2, <1>3, Zenon DEF Fresh, Heads
<1>5. /\ ~Fresh.deferredReady /\ ~Fresh.fuse /\ Fresh.deferred = <<>>
      /\ ~Fresh.draftPending /\ Fresh.pending = <<>>
  BY DEF Fresh
<1>6. HeadOK(mtp) /\ Still(mtp)
  BY <1>1, <1>4, <1>5 DEF HeadOK, Still, Settled
<1>7. TypeOK
  <2>1. specUsable \in BOOLEAN /\ excused \in BOOLEAN /\ mtp \in Heads
    BY <1>1, <1>4
  <2>2. /\ tokens \in Seq(Tokens) /\ draft \in Seq(Tokens) /\ kv \in Memories
        /\ Len(tokens) <= MaxLen /\ Len(draft) <= NMax /\ Len(kv) <= Len(tokens)
    BY <1>1, <1>2, MtpAssumption
  <2> QED
    BY <1>1, <2>1, <2>2 DEF TypeOK
<1>8. PhaseInv
  BY <1>1, <1>6 DEF PhaseInv, IdleInv, PromptInv, GenInv, DraftedInv, VerifiedInv
<1> QED
  BY <1>1, <1>6, <1>7, <1>8 DEF SInv, CachedInv, SampledInv

LEMMA StutterStep == SInv /\ UNCHANGED vars => SInv'
<1> SUFFICES ASSUME SInv, UNCHANGED vars PROVE SInv'
  OBVIOUS
<1> USE DEF SInv, vars
<1>1. TypeOK' /\ HeadOK(mtp)'
  BY DEF TypeOK, HeadOK
<1>2. PhaseInv'
  BY DEF PhaseInv, IdleInv, PromptInv, GenInv, DraftedInv, VerifiedInv
<1>3. CachedInv' /\ SampledInv'
  BY DEF CachedInv, SampledInv
<1> QED
  BY <1>1, <1>2, <1>3

-------------------------------------------------------------------------------
(* The theorems                                                            *)

LEMMA Invariant == Spec => []SInv
<1>1. SInv /\ [Next]_vars => SInv'
  <2> SUFFICES ASSUME SInv, [Next]_vars PROVE SInv'
    OBVIOUS
  <2>1. CASE StartPrompt
    BY <2>1, StartPromptStep
  <2>2. CASE MorePrompt
    BY <2>2, MorePromptStep
  <2>3. CASE Generate
    BY <2>3, GenerateStep
  <2>4. CASE DecodeNext
    BY <2>4, DecodeNextStep
  <2>5. CASE Draft
    BY <2>5, DraftStep
  <2>6. CASE Verify
    BY <2>6, VerifyStep
  <2>7. CASE AcceptDraft
    BY <2>7, AcceptDraftStep
  <2>8. CASE Rollback
    BY <2>8, RollbackStep
  <2>9. CASE Release
    BY <2>9, ReleaseStep
  <2>10. CASE ContextShift
    BY <2>10, ContextShiftStep
  <2>11. CASE SwapPrompt
    BY <2>11, SwapPromptStep
  <2>12. CASE UNCHANGED vars
    BY <2>12, StutterStep
  <2> QED
    BY <2>1, <2>2, <2>3, <2>4, <2>5, <2>6, <2>7, <2>8, <2>9, <2>10, <2>11, <2>12 DEF Next
<1> QED
  BY <1>1, InitInv, PTL DEF Spec

\* Neither the head's state nor a memory ever leaves its type: what the draft
\* context holds is never longer than the slot's tokens, and no batch or shift
\* exceeds the context.
THEOREM TypeCorrect == Spec => []TypeOK
<1>1. SInv => TypeOK
  BY DEF SInv
<1> QED
  BY <1>1, Invariant, PTL

\* Whatever was deferred, accepted in part, rolled back, replayed, shifted or
\* loaded from the cache before: while the head may draft, its memory holds
\* the target's rows and no others (process, accept and flush_deferred of
\* common/speculative.cpp, and the slot's removals).
THEOREM DraftsFollowTheTarget == Spec => []DraftsInSync
<1>1. SInv => DraftsInSync
  <2> SUFFICES ASSUME SInv, phase = "gen", specUsable, mtp.healthy
               PROVE  InSync(tokens, kv \o (IF mtp.fuse THEN mtp.deferred ELSE <<>>), mtp)
    BY DEF DraftsInSync
  <2>1. Following(tokens, mtp, kv)
    BY DEF SInv, PhaseInv, GenInv
  <2>2. (IF mtp.fuse THEN mtp.deferred ELSE <<>>) = mtp.deferred
    BY <2>1 DEF Following
  <2> QED
    BY <2>1, <2>2 DEF Following, Whole
<1> QED
  BY <1>1, Invariant, PTL

\* At release finalize leaves nothing deferred, so that what an idle slot keeps
\* and prompt_save stores is a memory and a boundary that fit each other.
THEOREM KeptStateIsWhole == Spec => []KeptInSync
<1>1. SInv => KeptInSync
  <2> SUFFICES ASSUME SInv, phase = "idle", tokens # <<>>, specUsable,
                      GetState(mtp) # None
               PROVE  InSync(tokens, kv, GetState(mtp))
    BY DEF KeptInSync
  <2>1. tokens \in Seq(Tokens) /\ kv \in Memories /\ mtp \in Heads
    BY DEF SInv, TypeOK
  <2>2. /\ mtp.pendingPos # Invalid
        /\ GetState(mtp).pending = mtp.pending
        /\ GetState(mtp).pendingPos = mtp.pendingPos
    BY <2>1, GetStateFollows
  <2>3. Following(tokens, mtp, kv) /\ Settled(mtp)
    BY <2>2 DEF SInv, PhaseInv, IdleInv, Still
  <2>4. Whole(tokens, kv, mtp)
    BY <2>1, <2>3, FollowingLen
  <2> QED
    BY <2>2, <2>4 DEF Whole, InSync
<1> QED
  BY <1>1, Invariant, PTL

\* The checks that invalidate the head (a boundary that does not meet the
\* batch, a state that does not meet the memory) refuse nothing that went well:
\* it is off only after a failure, a shift or a prompt reused in part.
THEOREM SpeculationStaysOn == Spec => []StaysOn
<1>1. SInv => StaysOn
  BY DEF SInv, PhaseInv, GenInv, StaysOn, Following
<1> QED
  BY <1>1, Invariant, PTL
===============================================================================
