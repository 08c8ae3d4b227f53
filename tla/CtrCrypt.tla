----------------------------- MODULE CtrCrypt -----------------------------
(***************************************************************************)
(* Counter-mode encryption of the two halves of one memory: CtrCryptSplit  *)
(* of crypto.h, a CtrCrypt over each part of a ChunkSplit (split.h).  No   *)
(* counter is stored: load computes the counter under which a block was    *)
(* last encrypted from how far the cyclic writes have come, which is why   *)
(* each half must be written sequentially.  The two halves share one key   *)
(* and therefore one space of counters.                                    *)
(*                                                                         *)
(* A block is one word, its pad is its counter, and xor is addition        *)
(* modulo Span, the size of that space (2^64; size_t wraps).               *)
(***************************************************************************)
EXTENDS Integers, FiniteSets

CONSTANTS
  Size0, Size1,  \* blocks of the two halves
  Span,          \* number of values of a counter
  InitialWords   \* what the memory may hold before it is written

ASSUME CryptAssumption ==
  /\ Size0 \in Nat \ {0}
  /\ Size1 \in Nat \ {0}
  /\ Span \in Nat \ {0}
  /\ InitialWords \subseteq 0 .. Span - 1

VARIABLES
  backend,  \* the memory, which holds the ciphertexts of both halves
  round,    \* the counter of index 0 in the current round of a half
  nextpos,  \* the index that must be written next in a half
  writes,   \* history: the number of writes to each half so far
  pads      \* history: the counters under which blocks have been encrypted

cryptVars == <<backend, round, nextpos, writes, pads>>

Word == 0 .. Span - 1
Half == {"Mem0", "Mem1"}
SizeOf(half) == IF half = "Mem0" THEN Size0 ELSE Size1

\* OffsetMem: where the block at index of a half is in the memory.
Place(half, index) == IF half = "Mem0" THEN index ELSE Size0 + index

CryptTypeOK ==
  /\ backend \in [0 .. Size0 + Size1 - 1 -> Word]
  /\ round \in [Half -> Word]
  /\ nextpos \in [Half -> Nat] /\ \A h \in Half : nextpos[h] < SizeOf(h)

\* Mutant of StartRound: both halves start at 0.
StartRoundZero(half) == 0

\* "make counters unique": the second half starts at max / 2.
StartRound(half) == IF half = "Mem0" THEN 0 ELSE (Span - 1) \div 2

\* The memory is zeroed, or a file that holds anything: the halves decrypt it
\* to one word or another.
CryptInit ==
  /\ backend \in [0 .. Size0 + Size1 - 1 -> InitialWords]
  /\ round = [h \in Half |-> StartRound(h)]
  /\ nextpos = [h \in Half |-> 0]
  /\ writes = [h \in Half |-> 0]
  /\ pads = {}

Enc(ctr, m) == (m + ctr) % Span
Dec(ctr, c) == (c - ctr) % Span

\* Mutant of LoadCounter: the block that is written next counts as written.
LoadCounterEarly(half, index) ==
  LET behind == IF index > nextpos[half] THEN SizeOf(half) ELSE 0
  IN  (round[half] + index - behind) % Span

\* The blocks from nextpos on were last written in the round before.
LoadCounter(half, index) ==
  LET behind == IF index >= nextpos[half] THEN SizeOf(half) ELSE 0
  IN  (round[half] + index - behind) % Span

CryptLoad(half, index) ==
  Dec(LoadCounter(half, index), backend[Place(half, index)])

\* A half has so many counters before it comes to those at which the other
\* half started; what is encrypted after that is not recorded in pads.
Lasting(half) ==
  IF half = "Mem0" THEN (Span - 1) \div 2 ELSE Span - (Span - 1) \div 2

RecordPad(half, ctr) ==
  IF \A h \in Half : writes[h] <= Lasting(h)
  THEN /\ writes' = [writes EXCEPT ![half] = @ + 1]
       /\ pads' = pads \cup {ctr}
  ELSE UNCHANGED <<writes, pads>>

\* Mutant of CryptStore: the end of a round is not noticed.
CryptStoreNoWrap(half, index, buf) ==
  LET ctr == (round[half] + index) % Span
  IN  /\ index = nextpos[half]
      /\ backend' = [backend EXCEPT ![Place(half, index)] = Enc(ctr, buf)]
      /\ nextpos' = [nextpos EXCEPT ![half] = (@ + 1) % SizeOf(half)]
      /\ RecordPad(half, ctr)
      /\ UNCHANGED round

\* store, which throws when the write is not sequential.
CryptStore(half, index, buf) ==
  LET ctr == (round[half] + index) % Span
  IN  /\ index = nextpos[half]
      /\ backend' = [backend EXCEPT ![Place(half, index)] = Enc(ctr, buf)]
      /\ IF nextpos[half] + 1 = SizeOf(half)
         THEN /\ nextpos' = [nextpos EXCEPT ![half] = 0]
              /\ round' = [round EXCEPT ![half] = (@ + SizeOf(half)) % Span]
         ELSE /\ nextpos' = [nextpos EXCEPT ![half] = @ + 1]
              /\ UNCHANGED round
      /\ RecordPad(half, ctr)
-----------------------------------------------------------------------------
(***************************************************************************)
(* No pad is used twice, in one half or across the halves, until a half    *)
(* has been written so often that its counters reach those at which the    *)
(* other started (crypto.h, "make counters unique").                       *)
(***************************************************************************)
PadsFresh ==
  (\A h \in Half : writes[h] <= Lasting(h)) =>
    Cardinality(pads) = writes["Mem0"] + writes["Mem1"]
=============================================================================
