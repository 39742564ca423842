---------------------------- MODULE MtpSpeculative ----------------------------
(***************************************************************************)
(* The draft head (MTP) of the production patch (common/speculative.cpp)   *)
(* and the slot that drives it (tools/server/server-context.cpp).  The     *)
(* head has a memory of its own beside the target's: at each position a    *)
(* token and the target's hidden row of the position before it.  It must   *)
(* follow every change of the target's memory, and a verification whose    *)
(* draft is accepted as a whole is not decoded at once but deferred, to be *)
(* fused with the next draft.                                              *)
(*                                                                         *)
(* The hidden row the target has after a token depends on all tokens up to *)
(* it: a row is the sequence of these tokens, the row before the first one *)
(* is empty.  A draft cannot change what is generated, only how fast: a    *)
(* memory that has gone astray shows in no test of the answers.            *)
(***************************************************************************)
EXTENDS Integers, Sequences

CONSTANTS
  Tokens,   \* what a token may be
  MaxLen,   \* the context size, in tokens
  NMax,     \* params.n_max: tokens of a draft
  MinPos,   \* defer_verify_min_pos: from which position on to defer
  Mrope,    \* model_uses_mrope
  CacheLimit,  \* limit_size of the prompt cache, in tokens
  NoToken   \* sampled while there is no generation

ASSUME MtpAssumption ==
  /\ Tokens # {} /\ MaxLen \in Nat \ {0} /\ NMax \in Nat \ {0}
  /\ MinPos \in Nat /\ CacheLimit \in Nat /\ Mrope \in BOOLEAN /\ NoToken \notin Tokens

VARIABLES
  phase,       \* of the slot: idle, in a prompt, generating, in a draft
  tokens,      \* slot.prompt.tokens and the target's memory
  sampled,     \* slot.sampled, the next token
  draft,       \* slot.spec_draft
  kv,          \* the draft context's memory
  mtp,         \* common_speculative_impl_draft_mtp
  specUsable,  \* slot.spec_usable
  ckpt,        \* slot.spec_ckpt
  cached,      \* an entry of the prompt cache
  excused      \* speculation was given up for a reason (history)

vars == <<phase, tokens, sampled, draft, kv, mtp, specUsable, ckpt, cached, excused>>

Invalid == -3   \* invalid_pos: no position, nor next to one
None == [none |-> TRUE]

First(s, n) == SubSeq(s, 1, n)
\* Mutant: the row at position n stays.
CutAfter(k, n) == First(k, IF n + 1 < Len(k) THEN n + 1 ELSE Len(k))
\* llama_memory_seq_rm(mem, seq_id, n, -1)
Cut(k, n) == First(k, IF n < Len(k) THEN n ELSE Len(k))
\* llama_memory_seq_pos_max
PosMax(k) == Len(k) - 1

\* What the draft memory should hold for the tokens s.
Pairs(s) == [i \in 1..Len(s) |-> [token |-> s[i], row |-> First(s, i - 1)]]

-------------------------------------------------------------------------------
(* The draft head's own state.                                             *)
Fresh == [pending |-> <<>>, pendingPos |-> -1, prev |-> <<>>, prevPos |-> Invalid,
          verify |-> <<>>, verifyPos |-> 0, entry |-> <<>>, entryPos |-> Invalid,
          draftPending |-> FALSE, deferredReady |-> FALSE, fuse |-> FALSE,
          deferred |-> <<>>, deferredPos |-> 0, healthy |-> TRUE]

DiscardDeferred(m) ==
  [m EXCEPT !.deferredReady = FALSE, !.fuse = FALSE, !.deferred = <<>>,
            !.deferredPos = 0]

\* A row is forgotten with its position: none is read without it.
ClearTransient(m) ==
  [m EXCEPT !.verify = <<>>, !.verifyPos = 0, !.entry = <<>>, !.entryPos = Invalid]

Quiet(m) == [ClearTransient(DiscardDeferred(m)) EXCEPT !.draftPending = FALSE]

\* Keeps the boundary rows: the memory may be kept as well.
Reset(m) == [Quiet(m) EXCEPT !.healthy = TRUE]

Invalidate(m) ==
  [Quiet(m) EXCEPT !.healthy = FALSE, !.pending = <<>>, !.pendingPos = Invalid,
                   !.prev = <<>>, !.prevPos = Invalid]

GetState(m) ==
  IF m.healthy /\ m.pendingPos # Invalid
  THEN [pending |-> m.pending, pendingPos |-> m.pendingPos,
        prev |-> m.prev, prevPos |-> m.prevPos]
  ELSE None

PosOk(d) == \/ d.prevPos = Invalid
            \/ IF Mrope THEN d.prevPos <= d.pendingPos
                        ELSE d.prevPos + 1 = d.pendingPos

SetState(m, d, k) ==
  IF d # None /\ PosOk(d) /\ PosMax(k) = d.pendingPos
  THEN [Quiet(m) EXCEPT !.pending = d.pending, !.pendingPos = d.pendingPos,
                        !.prev = d.prev, !.prevPos = d.prevPos, !.healthy = TRUE]
  ELSE Invalidate(m)

\* begin: at the start of a generation.
Begin(m) ==
  IF m.draftPending \/ m.deferredReady \/ m.fuse THEN Reset(m) ELSE m

-------------------------------------------------------------------------------
(* Its operations.  Where one may end in several ways, it is the set of    *)
(* its outcomes: the head and its memory afterwards, and whether it went   *)
(* well, a check refused, or llama_decode failed on the draft context.     *)
Outcome(m, k, r) == [mtp |-> m, kv |-> k, result |-> r]

\* flush_deferred: decode what was deferred, over what the memory may hold
\* there.  (The deferred positions are consecutive: they are a text batch's.)
Flush(m, k) ==
  LET base == Cut(k, m.deferredPos)
      off == [m EXCEPT !.healthy = FALSE]
  IN IF m.deferred = <<>> THEN {Outcome(DiscardDeferred(m), k, "ok")}
     ELSE IF Len(base) # m.deferredPos THEN {Outcome(off, base, "refused")}
     ELSE {Outcome(DiscardDeferred(m), base \o m.deferred, "ok"),
           Outcome(off, base, "failed")}

\* Mutant: what is deferred is left to the next request.
LeaveDeferred(m, k) == {Outcome(m, k, IF m.healthy THEN "ok" ELSE "refused")}
\* finalize, before the memory is kept for another request or rearranged.
Finalize(m, k) ==
  IF ~m.healthy THEN {Outcome(m, k, "refused")}
  ELSE IF m.deferredReady \/ m.fuse THEN Flush(m, k)
  ELSE {Outcome(m, k, "ok")}

\* The boundary before a batch at position first.  A batch at the pending
\* position itself replays the last cached token, to get its logits again:
\* the boundary goes back one row.
Boundary(m, first) ==
  LET z == IF first = 0 /\ m.pendingPos # -1
           THEN [m EXCEPT !.pending = <<>>, !.pendingPos = -1,
                          !.prev = <<>>, !.prevPos = Invalid]
           ELSE m
  IN IF first = z.pendingPos /\ z.prevPos + 1 = z.pendingPos
     THEN [z EXCEPT !.pending = z.prev, !.pendingPos = z.prevPos,
                    !.prev = <<>>, !.prevPos = Invalid]
     ELSE z

BoundaryOk(m, k, first) ==
  /\ IF Mrope THEN m.pendingPos < first ELSE m.pendingPos + 1 = first
  /\ PosMax(k) = m.pendingPos

\* The rows of the batch become the verification rows, the last one pending.
Advance(m, first, s) ==
  LET n == Len(s) - first
  IN [m EXCEPT
       !.entry = m.pending, !.entryPos = m.pendingPos,
       !.verify = [i \in 1..n |-> First(s, first + i)], !.verifyPos = first,
       !.prev = IF n = 1 THEN m.pending ELSE First(s, Len(s) - 1),
       !.prevPos = IF n = 1 THEN m.pendingPos ELSE Len(s) - 2,
       !.pending = s, !.pendingPos = Len(s) - 1, !.draftPending = FALSE]

Defers(m, first, s) ==
  m.draftPending /\ Len(s) - first \in 2..NMax + 1 /\ Len(s) - 1 >= MinPos

\* The rows of the batch as the draft head gets them: the first one with the
\* pending row, each other one with the target's row before it.
Shifted(m, first, s) ==
  [i \in 1..Len(s) - first |->
     [token |-> s[first + i],
      row |-> IF i = 1 THEN m.pending ELSE First(s, first + i - 1)]]

Decode(m, k, first, s) ==
  LET b == Boundary(m, first)
      c == ClearTransient(b)
  IN IF ~m.healthy THEN {Outcome([m EXCEPT !.draftPending = FALSE], k, "ok")}
     ELSE IF ~BoundaryOk(b, k, first) THEN {Outcome(Invalidate(b), k, "refused")}
     ELSE IF Defers(b, first, s)
     THEN {Outcome([Advance(c, first, s) EXCEPT
                     !.deferred = Shifted(b, first, s), !.deferredPos = first,
                     !.deferredReady = TRUE], k, "ok")}
     ELSE {Outcome(Advance(c, first, s), k \o Shifted(b, first, s), "ok"),
           Outcome(Invalidate(c), k, "failed")}

\* process: the target has decoded the batch that begins at position first
\* and ends the tokens s.
Process(m, k, first, s) ==
  IF ~m.fuse THEN Decode(m, k, first, s)
  ELSE IF ~m.healthy THEN {Outcome(m, k, "ok")}
  ELSE UNION {IF o.result = "ok" THEN Decode(o.mtp, o.kv, first, s) ELSE {o} :
                o \in Flush(m, k)}

\* draft: decode the deferred rows and the token to come in one batch, or the
\* deferred ones before it.  n is dp.n_past.  (The rows of the draft itself
\* are cut off again by the server: process would refuse them.)
DraftFrom(m, k, n) ==
  LET fused == m.deferred # <<>> /\ m.deferredPos + Len(m.deferred) = n
                                 /\ Len(k) = m.deferredPos
      Seed(o) == {o, Outcome(Invalidate(o.mtp), o.kv, "failed")}
  IN IF ~m.fuse THEN Seed(Outcome(m, k, "ok"))
     ELSE IF fused
     THEN {Outcome(DiscardDeferred(m), k \o m.deferred, "ok"),
           Outcome(Invalidate(m), k, "failed"),
           Outcome(Invalidate(m), k \o m.deferred, "failed")}
     ELSE UNION {IF o.result = "ok" THEN Seed(o) ELSE {o} : o \in Flush(m, k)}

\* Mutant: the rows are those of the batch's end, as process left them.
KeepLastRow(m, n) == ClearTransient(m)
\* Mutant: the row before the boundary is not rewound.
KeepPrev(m, n) ==
  LET i == IF n < Len(m.verify) - 1 THEN n ELSE Len(m.verify) - 1
  IN IF m.verify = <<>> THEN m
     ELSE ClearTransient([m EXCEPT !.pending = m.verify[i + 1],
                                   !.pendingPos = m.verifyPos + i])
\* The boundary goes back to the row of the n-th accepted token.
Rewind(m, n) ==
  LET i == IF n < Len(m.verify) - 1 THEN n ELSE Len(m.verify) - 1
  IN IF m.verify = <<>> THEN m
     ELSE ClearTransient(
       [m EXCEPT !.prev = IF i = 0 THEN m.entry ELSE m.verify[i],
                 !.prevPos = IF i = 0 THEN m.entryPos ELSE m.verifyPos + i - 1,
                 !.pending = m.verify[i + 1], !.pendingPos = m.verifyPos + i])

\* accept: n tokens of the draft are what the target samples.
Accept(m, k, n) ==
  IF ~m.healthy THEN {Outcome(m, k, "ok")}
  ELSE IF ~m.deferredReady THEN {Outcome(Rewind(m, n), k, "ok")}
  ELSE IF n + 1 = Len(m.deferred)
  THEN {Outcome(Rewind([m EXCEPT !.deferredReady = FALSE, !.fuse = TRUE], n), k, "ok")}
  ELSE {IF o.result = "ok" THEN [o EXCEPT !.mtp = Rewind(o.mtp, n)] ELSE o :
          o \in Flush(m, k)}

-------------------------------------------------------------------------------
(* The slot.                                                               *)
Batches(n) == UNION {[1..i -> Tokens] : i \in 1..n}

\* A request arrives at the idle slot, and the first batch of its prompt is
\* decoded.  It shares n tokens with what the slot holds; the rest goes.
StartPrompt ==
  /\ phase = "idle"
  /\ \E n \in 0..Len(tokens) : \E b \in Batches(MaxLen - n) :
       \E o \in Process(IF n = 0 THEN Reset(mtp) ELSE mtp, Cut(kv, n), n,
                        First(tokens, n) \o b) :
         /\ tokens' = First(tokens, n) \o b
         /\ mtp' = o.mtp /\ kv' = o.kv
         /\ specUsable' = (specUsable \/ n = 0)
         /\ excused' = \/ o.result = "failed"
                       \/ n # 0 /\ (excused \/ n < Len(tokens) - 1)
  /\ phase' = "prompt"
  /\ UNCHANGED <<sampled, draft, ckpt, cached>>

\* The target decodes a batch, with process after it.
Extend(b) ==
  /\ Len(tokens) + Len(b) <= MaxLen
  /\ tokens' = tokens \o b
  /\ \E o \in Process(mtp, kv, Len(tokens), tokens \o b) :
       /\ mtp' = o.mtp /\ kv' = o.kv
       /\ excused' = (excused \/ o.result = "failed")
  /\ UNCHANGED <<draft, specUsable, ckpt, cached>>

MorePrompt ==
  /\ phase = "prompt"
  /\ \E b \in Batches(MaxLen - Len(tokens)) : Extend(b)
  /\ UNCHANGED <<phase, sampled>>

Generate ==
  /\ phase = "prompt"
  /\ phase' = "gen" /\ sampled' \in Tokens
  /\ mtp' = Begin(mtp)
  /\ UNCHANGED <<tokens, draft, kv, specUsable, ckpt, cached, excused>>

\* A step without a draft.
DecodeNext ==
  /\ phase = "gen"
  /\ Extend(<<sampled>>)
  /\ sampled' \in Tokens
  /\ UNCHANGED phase

Draft ==
  /\ phase = "gen" /\ specUsable /\ mtp.healthy
  /\ \E o \in DraftFrom(mtp, kv, Len(tokens)) :
       /\ kv' = Cut(o.kv, Len(tokens))
       /\ excused' = (excused \/ o.result = "failed")
       /\ \/ mtp' = o.mtp /\ UNCHANGED <<phase, draft, ckpt>>
          \/ /\ o.result = "ok"
             /\ draft' \in Batches(NMax)
             /\ Len(tokens) + 1 + Len(draft') <= MaxLen
             /\ mtp' = [o.mtp EXCEPT !.draftPending = TRUE]
             /\ ckpt' = [n |-> Len(tokens), spec |-> GetState(mtp)]
             /\ phase' = "drafted"
  /\ UNCHANGED <<tokens, sampled, specUsable, cached>>

Verify ==
  /\ phase = "drafted"
  /\ Extend(<<sampled>> \o draft)
  /\ phase' = "verified"
  /\ UNCHANGED sampled

\* The target samples the first n tokens of the draft and then another one;
\* what it decoded after them is removed from both memories.
Agreed(n, t) == \A i \in DOMAIN draft : i = n + 1 => t # draft[i]

AcceptDraft ==
  /\ phase = "verified"
  /\ \E n \in 0..Len(draft), t \in Tokens :
       LET left == Len(tokens) - (Len(draft) - n) IN
       /\ Agreed(n, t) /\ sampled' = t
       /\ tokens' = First(tokens, left)
       /\ \E o \in Accept(mtp, kv, n) :
            /\ mtp' = o.mtp /\ kv' = Cut(o.kv, left)
            /\ excused' = (excused \/ o.result = "failed")
  /\ phase' = "gen" /\ draft' = <<>> /\ ckpt' = None
  /\ UNCHANGED <<specUsable, cached>>

\* A target that cannot remove part of a batch goes back to where it was
\* before the draft, and decodes what it agreed with again.  set_state comes
\* before the removal; whether load_dft has rewound the draft's memory is not
\* for the patch to say.
Rollback ==
  /\ phase = "verified"
  /\ \E n \in 0..Len(draft) - 1, t \in Tokens, k \in {kv, Cut(kv, ckpt.n)} :
       /\ Agreed(n, t)
       /\ draft' = First(draft, n) \o <<t>>
       /\ mtp' = SetState(mtp, ckpt.spec, k)
       /\ kv' = Cut(k, ckpt.n)
       /\ excused' = (excused \/ Len(k) # ckpt.n)
  /\ tokens' = First(tokens, ckpt.n)
  /\ phase' = "drafted"
  /\ UNCHANGED <<sampled, specUsable, ckpt, cached>>

Cleared(m) ==
  /\ tokens' = <<>> /\ kv' = <<>> /\ mtp' = Reset(m)
  /\ specUsable' = TRUE /\ excused' = FALSE

\* The request ends or is cancelled between two calls of update_slots (a draft
\* that was rolled back in part waits there for the next one): release, then
\* reset, which forgets the draft.
Release ==
  /\ phase \in {"prompt", "gen"} \/ (phase = "drafted" /\ ~mtp.draftPending)
  /\ IF specUsable
     THEN \E o \in Finalize(mtp, kv) :
            IF o.result = "ok"
            THEN /\ mtp' = Reset(o.mtp) /\ kv' = o.kv
                 /\ UNCHANGED <<tokens, specUsable, excused>>
            ELSE Cleared(o.mtp)
     ELSE mtp' = Reset(mtp) /\ UNCHANGED <<tokens, kv, specUsable, excused>>
  /\ phase' = "idle" /\ sampled' = NoToken /\ draft' = <<>> /\ ckpt' = None
  /\ UNCHANGED cached

\* Context shift: half of the tokens after the first n (n_keep) are dropped,
\* and the others move up.
\* (If finalize fails, it throws and the server ends.)
ContextShift ==
  /\ phase = "gen" /\ Len(tokens) + 1 >= MaxLen
  /\ \E o \in IF specUsable THEN Finalize(mtp, kv) ELSE {Outcome(mtp, kv, "ok")} :
       /\ o.result = "ok"
       /\ \E n \in 0..Len(tokens) - 2 : LET d == (Len(tokens) - n) \div 2 IN
            /\ tokens' = First(tokens, n) \o SubSeq(tokens, n + d + 1, Len(tokens))
            /\ kv' = Cut(o.kv, n) \o SubSeq(o.kv, n + d + 1, Len(o.kv))
       /\ mtp' = Invalidate(o.mtp)
  /\ specUsable' = FALSE /\ excused' = TRUE
  /\ UNCHANGED <<phase, sampled, draft, ckpt, cached>>

\* prompt_save; an entry over the limit is not kept.
Saved(other) ==
  IF Len(tokens) > CacheLimit THEN other
  ELSE [tokens |-> tokens, kv |-> kv,
        spec |-> IF specUsable THEN GetState(mtp) ELSE None]

\* prompt_save, and prompt_load of an entry that fits the next request better.
SwapPrompt ==
  /\ phase = "idle" /\ tokens # <<>>
  /\ \/ cached' = Saved(cached) /\ UNCHANGED <<tokens, kv, mtp, specUsable, excused>>
     \/ /\ cached # None /\ cached' = Saved(None)
        /\ \/ /\ tokens' = cached.tokens /\ kv' = cached.kv
              /\ specUsable' = (cached.spec # None)
              /\ mtp' = SetState(mtp, cached.spec, cached.kv)
              /\ excused' = (cached.spec = None)
           \/ Cleared(Invalidate(mtp))   \* the load fails
  /\ UNCHANGED <<phase, sampled, draft, ckpt>>

Init ==
  /\ phase = "idle" /\ tokens = <<>> /\ sampled = NoToken /\ draft = <<>>
  /\ kv = <<>> /\ mtp = Fresh /\ specUsable = TRUE
  /\ ckpt = None /\ cached = None /\ excused = FALSE

Next ==
  \/ StartPrompt \/ MorePrompt \/ Generate \/ DecodeNext \/ Draft \/ Verify
  \/ AcceptDraft \/ Rollback \/ Release \/ ContextShift \/ SwapPrompt

Spec == Init /\ [][Next]_vars

-------------------------------------------------------------------------------
Rows == Seq(Tokens)
Memories == Seq([token : Tokens, row : Rows])
States == [pending : Rows, pendingPos : Int, prev : Rows, prevPos : Int]
Heads == [pending : Rows, pendingPos : Int, prev : Rows, prevPos : Int,
          verify : Seq(Rows), verifyPos : Nat, entry : Rows, entryPos : Int,
          draftPending : BOOLEAN, deferredReady : BOOLEAN, fuse : BOOLEAN,
          deferred : Memories, deferredPos : Nat, healthy : BOOLEAN]
Checkpoints == [n : 0..MaxLen, spec : States \cup {None}]
Entries == [tokens : Seq(Tokens), kv : Memories, spec : States \cup {None}]

TypeOK ==
  /\ phase \in {"idle", "prompt", "gen", "drafted", "verified"}
  /\ tokens \in Seq(Tokens) /\ Len(tokens) <= MaxLen
  /\ sampled \in Tokens \cup {NoToken}
  /\ draft \in Seq(Tokens) /\ Len(draft) <= NMax
  /\ kv \in Memories /\ Len(kv) <= Len(tokens)
  /\ mtp \in Heads /\ specUsable \in BOOLEAN /\ excused \in BOOLEAN
  /\ ckpt \in Checkpoints \cup {None} /\ cached \in Entries \cup {None}

InSync(s, k, d) == k = Pairs(s) /\ d.pending = s /\ d.pendingPos = Len(s) - 1

\* What a draft is drawn from is what the target computed, no more and no
\* less: nothing of a rejected draft, of another request or of a context that
\* was shifted.
DraftsInSync ==
  phase = "gen" /\ specUsable /\ mtp.healthy =>
    InSync(tokens, kv \o (IF mtp.fuse THEN mtp.deferred ELSE <<>>), mtp)

\* What an idle slot keeps for the next request, and prompt_save puts into the
\* cache, belongs together: nothing deferred is left out of the memory, and the
\* boundary is that of the last token.
KeptInSync ==
  phase = "idle" /\ tokens # <<>> /\ specUsable /\ GetState(mtp) # None =>
    InSync(tokens, kv, GetState(mtp))

\* Failing closed is not free: unless something failed, the context was
\* shifted or a prompt was reused in part, every generation speculates,
\* whatever was accepted, cancelled, replayed or cached before.
StaysOn == phase = "gen" /\ ~excused => specUsable /\ mtp.healthy
===============================================================================
