------------------------- MODULE DetWoCrypt_proofs ------------------------
(***************************************************************************)
(* Proof that a DetWoram under counter-mode encryption implements the ORAM *)
(* of PMWoram, for any sizes of the halves and of the counters: writing    *)
(* one block changes what no other block decrypts to (StoreEffect), and    *)
(* the ORAM writes each half in the order that the cipher demands.  Then   *)
(* that no pad is used twice.                                              *)
(***************************************************************************)
EXTENDS DetWoCrypt, FiniteSetTheorems, TLAPS

woramP == INSTANCE PMWoram_proofs WITH
  Size <- Size0, HoldSize <- Size1, Block <- Word,
  longterm <- LongTerm, holding <- Holding,
  InitialBlocks <- Word, InitialPositions <- {pointer!NPtr}

(***************************************************************************)
(* Arithmetic modulo Span: a remainder may be taken early.                 *)
(***************************************************************************)
LEMMA ModUnique ==
  ASSUME NEW n \in Nat \ {0}, NEW q \in Int, NEW r \in 0 .. n - 1
  PROVE  (n * q + r) % n = r
<1>. DEFINE a == n * q + r
<1>1. a \in Int /\ a \div n \in Int /\ a % n \in 0 .. n - 1
      /\ a = n * (a \div n) + (a % n)
  OBVIOUS
<1>2. n * (a \div n - q) = r - (a % n)
  BY <1>1
<1>3. a \div n = q
  <2>1. CASE a \div n - q >= 1
    <3>1. n * (a \div n - q) >= n
      BY <1>1, <2>1
    <3>. QED
      BY <1>1, <1>2, <3>1
  <2>2. CASE a \div n - q <= -1
    <3>1. n * (a \div n - q) <= -n
      BY <1>1, <2>2
    <3>. QED
      BY <1>1, <1>2, <3>1
  <2>. QED
    BY <1>1, <2>1, <2>2
<1>. QED
  BY <1>1, <1>3

LEMMA ModWord ==
  ASSUME NEW a \in Int
  PROVE  /\ a % Span \in Word /\ a % Span \in Int
         /\ a \in Word => a % Span = a
<1>0. Span \in Nat \ {0}
  BY CryptAssumption
<1>1. ASSUME a \in Word PROVE a % Span = a
  <2>1. (Span * 0 + a) % Span = a
    BY <1>0, <1>1, ModUnique DEF Word
  <2>. QED
    BY <1>0, <2>1
<1>. QED
  BY <1>0, <1>1 DEF Word

LEMMA ModAdd ==
  ASSUME NEW a \in Int, NEW b \in Int
  PROVE  ((a % Span) + b) % Span = (a + b) % Span
<1>0. Span \in Nat \ {0}
  BY CryptAssumption
<1>. DEFINE s == (a % Span) + b
            q == a \div Span + s \div Span
            r == s % Span
<1>1. a % Span \in 0 .. Span - 1 /\ a \div Span \in Int
      /\ a = Span * (a \div Span) + (a % Span)
  BY <1>0
<1>2. s \in Int
  BY <1>1
<1>3. r \in 0 .. Span - 1 /\ s \div Span \in Int
      /\ s = Span * (s \div Span) + r
  BY <1>0, <1>2
<1>4. a + b = Span * q + r /\ q \in Int
  BY <1>0, <1>1, <1>3
<1>. HIDE DEF s, q, r
<1>5. (Span * q + r) % Span = r
  BY <1>0, <1>3, <1>4, ModUnique
<1>6. (a + b) % Span = r
  BY <1>4, <1>5
<1>. QED
  BY <1>6 DEF r, s

(***************************************************************************)
(* CtrCrypt: what a write does to what the blocks of both halves decrypt   *)
(* to.                                                                     *)
(***************************************************************************)
LEMMA CryptSizes ==
  /\ Size0 \in Nat \ {0} /\ Size1 \in Nat \ {0}
  /\ \A h \in Half : SizeOf(h) \in Nat \ {0}
  /\ \A h \in Half, i \in Nat :
       i < SizeOf(h) => Place(h, i) \in 0 .. Size0 + Size1 - 1
  /\ \A h, g \in Half, i, j \in Nat :
       /\ i < SizeOf(h) /\ j < SizeOf(g)
       /\ Place(h, i) = Place(g, j)
       => h = g /\ i = j
  BY CryptAssumption DEF Half, SizeOf, Place

LEMMA LoadedWord ==
  ASSUME CryptTypeOK, NEW h \in Half, NEW i \in Nat, i < SizeOf(h)
  PROVE  CryptLoad(h, i) \in Word
<1>1. backend[Place(h, i)] \in Int
  BY CryptSizes DEF CryptTypeOK, Word
<1>2. LoadCounter(h, i) \in Int
  BY CryptSizes, CryptAssumption DEF LoadCounter, CryptTypeOK, Word
<1>. QED
  BY <1>1, <1>2, ModWord DEF CryptLoad, Dec

LEMMA StoreEffect ==
  ASSUME CryptTypeOK, NEW half \in Half, NEW index, NEW buf \in Word,
         CryptStore(half, index, buf)
  PROVE  /\ CryptTypeOK'
         /\ CryptLoad(half, index)' = buf
         /\ \A h \in Half, i \in Nat :
              i < SizeOf(h) /\ (h # half \/ i # index) =>
                CryptLoad(h, i)' = CryptLoad(h, i)
         /\ nextpos' = [nextpos EXCEPT ![half] =
                          IF @ + 1 = SizeOf(half) THEN 0 ELSE @ + 1]
<1>. DEFINE n == SizeOf(half)
            ctr == (round[half] + index) % Span
            wraps == nextpos[half] + 1 = n
<1>1. /\ index = nextpos[half] /\ index \in Nat /\ index < n /\ n \in Nat \ {0}
      /\ round \in [Half -> Word] /\ round[half] \in Int
      /\ backend \in [0 .. Size0 + Size1 - 1 -> Word]
      /\ nextpos \in [Half -> Nat]
      /\ Place(half, index) \in 0 .. Size0 + Size1 - 1
  BY CryptSizes DEF CryptStore, CryptTypeOK, Word
<1>2. ctr \in Word /\ ctr \in Int /\ Enc(ctr, buf) \in Word
  <2>1. ctr \in Word /\ ctr \in Int
    BY <1>1, ModWord
  <2>. QED
    BY <2>1, ModWord DEF Enc, Word
<1>3. backend' = [backend EXCEPT ![Place(half, index)] = Enc(ctr, buf)]
  BY DEF CryptStore
<1>4. nextpos' = [nextpos EXCEPT ![half] = IF wraps THEN 0 ELSE index + 1]
  BY <1>1 DEF CryptStore
<1>5. round' = IF wraps THEN [round EXCEPT ![half] = (round[half] + n) % Span]
               ELSE round
  BY <1>1 DEF CryptStore
<1>6. CryptTypeOK'
  <2>1. backend' \in [0 .. Size0 + Size1 - 1 -> Word]
    BY <1>1, <1>2, <1>3
  <2>2. round' \in [Half -> Word]
    BY <1>1, <1>5, ModWord
  <2>3. nextpos' \in [Half -> Nat] /\ \A h \in Half : nextpos'[h] < SizeOf(h)
    BY <1>1, <1>4, CryptSizes DEF CryptTypeOK
  <2>. QED
    BY <2>1, <2>2, <2>3 DEF CryptTypeOK
\* The counters of the half, before and after.
<1>7. ASSUME NEW i \in Nat, i < n
      PROVE  /\ i <= index => LoadCounter(half, i)' = (round[half] + i) % Span
             /\ i < index => LoadCounter(half, i) = (round[half] + i) % Span
             /\ i > index => LoadCounter(half, i)' = LoadCounter(half, i)
  <2>1. CASE wraps
    <3>1. round'[half] = (round[half] + n) % Span /\ nextpos'[half] = 0
      BY <1>1, <1>4, <1>5, <2>1
    <3>2. LoadCounter(half, i)' = (((round[half] + n) % Span) + (i - n)) % Span
      BY <1>1, <1>7, <3>1, ModAdd DEF LoadCounter, Word
    <3>3. LoadCounter(half, i)' = (round[half] + i) % Span
      <4>1. (((round[half] + n) % Span) + (i - n)) % Span
              = ((round[half] + n) + (i - n)) % Span
        BY <1>1, <1>7, ModAdd
      <4>. QED
        BY <1>1, <1>7, <3>2, <4>1
    <3>. QED
      BY <1>1, <1>7, <2>1, <3>3 DEF LoadCounter
  <2>2. CASE ~wraps
    <3>1. round' = round /\ nextpos'[half] = index + 1
      BY <1>1, <1>4, <1>5, <2>2
    <3>. QED
      BY <1>1, <1>7, <3>1 DEF LoadCounter
  <2>. QED
    BY <2>1, <2>2
<1>8. CryptLoad(half, index)' = buf
  <2>1. LoadCounter(half, index)' = ctr
    BY <1>1, <1>7
  <2>2. CryptLoad(half, index)' = (Enc(ctr, buf) - ctr) % Span
    BY <1>1, <1>3, <2>1 DEF CryptLoad, Dec
  <2>3. (((buf + ctr) % Span) + (0 - ctr)) % Span = ((buf + ctr) + (0 - ctr)) % Span
    BY <1>2, ModAdd DEF Word
  <2>4. buf % Span = buf /\ buf \in Int
    BY ModWord DEF Word
  <2>. QED
    BY <1>2, <2>2, <2>3, <2>4 DEF Enc, Word
<1>9. ASSUME NEW h \in Half, NEW i \in Nat, i < SizeOf(h), h # half \/ i # index
      PROVE  CryptLoad(h, i)' = CryptLoad(h, i)
  <2>1. Place(h, i) # Place(half, index)
    BY <1>1, <1>9, CryptSizes
  <2>2. backend'[Place(h, i)] = backend[Place(h, i)]
    BY <1>1, <1>3, <1>9, <2>1, CryptSizes
  <2>3. LoadCounter(h, i)' = LoadCounter(h, i)
    <3>1. CASE h = half
      BY <1>1, <1>7, <1>9, <3>1
    <3>2. CASE h # half
      BY <1>1, <1>4, <1>5, <1>9, <3>2 DEF LoadCounter
    <3>. QED
      BY <3>1, <3>2
  <2>. QED
    BY <2>2, <2>3 DEF CryptLoad, Dec
<1>. QED
  BY <1>1, <1>4, <1>6, <1>8, <1>9

-----------------------------------------------------------------------------
(***************************************************************************)
(* The ORAM above the ciphers.                                             *)
(***************************************************************************)
LEMMA Parameters ==
  /\ Size1 \in Nat \ {0} /\ BlockBits \in Nat \ {0} /\ BindSpan \in Nat
  /\ BlockBits <= BindSpan
  /\ Size0 \in Nat \ {0} /\ Word # {}
  /\ \A b \in Word, i \in woramP!BitIndex : GetBit(b, i) \in {0, 1}
  /\ \A b, c \in Word :
       (\A i \in woramP!BitIndex : GetBit(b, i) = GetBit(c, i)) => b = c
  /\ Truncated \subseteq woramP!Slot
  /\ Word \subseteq Word
  /\ {pointer!NPtr} \subseteq woramP!Pointer \cup {woramP!NPtr}
  /\ {pointer!NPtr} # {}
  /\ \A b \in Word, p \in {pointer!NPtr} \ {woramP!NPtr} :
       GetBit(b, woramP!GetBind(p)) = woramP!GetBitval(p)
<1>1. pointer!NPtr = woramP!NPtr
  BY DEF pointer!NPtr, woramP!NPtr, pointer!PMax, woramP!PMax, pointer!Build,
         woramP!Build
<1>2. Word # {}
  <2>1. Span \in Nat \ {0}
    BY CryptAssumption
  <2>2. 0 \in 0 .. Span - 1
    BY <2>1
  <2>. QED
    BY <2>2 DEF Word
<1>. QED
  BY <1>1, <1>2, CryptAssumption, DetWoCryptAssumption
     DEF woramP!BitIndex, woramP!Slot

LEMMA PlainInit == woramP!Init => woramP!Inv
  BY Parameters, woramP!InitInv

LEMMA PlainNext ==
  woramP!Inv /\ [woramP!Next]_(woramP!vars) => woramP!Inv'
  BY Parameters, woramP!NextInv

LEMMA PlainDevice == woramP!Spec => woramP!ImplementsDevice
  BY Parameters, woramP!WoramImplementsDevice

\* PMWoram is instanced twice, by DetWoCrypt and here.
LEMMA SameWoram ==
  /\ woramP!Index = Index /\ woramP!Slot = 0 .. Size1 - 1
  /\ woram!NumLtw = woramP!NumLtw
  /\ pointer!NPtr = woramP!NPtr
  /\ \A i : woram!PMLoad(i) = woramP!Load(i, posmap[i])
  /\ \A i, b : woram!NewPosition(i, b) = woramP!NewPosition(i, b)
  /\ woramP!Init => woram!Init
  /\ [woramP!Next]_(woramP!vars) => [woram!Next]_(woram!vars)
  BY DEF Index, woram!Init, woramP!Init, woram!WoramInit, woramP!WoramInit,
         woram!Next, woramP!Next, woram!vars, woramP!vars,
         woram!StoreCall, woramP!StoreCall, woram!StoreRefresh,
         woramP!StoreRefresh, woram!StoreHold, woramP!StoreHold,
         woram!StorePosition, woramP!StorePosition, woram!PosmapLoad,
         woramP!PosmapLoad, woram!PMLoad, woram!Index, woramP!Index,
         woram!Slot, woramP!Slot, woram!BitIndex, woramP!BitIndex,
         woram!NPtr, woramP!NPtr, pointer!NPtr, woram!PMax, woramP!PMax,
         pointer!PMax, woram!Build, woramP!Build, pointer!Build,
         woram!GetBind, woramP!GetBind, woram!GetHold, woramP!GetHold,
         woram!GetBitval, woramP!GetBitval, woram!NumLtw, woramP!NumLtw,
         woram!LtwTarget, woramP!LtwTarget, woram!Load, woramP!Load,
         woram!LongTermWrite, woramP!LongTermWrite, woram!MismatchBit,
         woramP!MismatchBit, woram!NewPosition, woramP!NewPosition,
         woram!HoldingWrite, woramP!HoldingWrite

(***************************************************************************)
(* The invariant: that of PMWoram through the ciphers, and the agreement   *)
(* of the two on what is written next.                                     *)
(***************************************************************************)
J == woramP!Inv /\ CryptTypeOK /\ WrittenInOrder

LEMMA Types ==
  ASSUME woramP!Inv
  PROVE  /\ longpos \in Index
         /\ holdpos \in 0 .. Size1 - 1
         /\ request \in SUBSET [index : Index, buf : Word]
         /\ \A r, s \in request : r = s
         /\ woramP!PMLoad(longpos) \in Word
<1>1. /\ longpos \in woramP!Index
      /\ holdpos \in woramP!Slot
      /\ request \in SUBSET [index : woramP!Index, buf : Word]
      /\ \A r, s \in request : r = s
      /\ posmap[longpos] \in woramP!Pointer \cup {woramP!NPtr}
  BY DEF woramP!Inv, woramP!TypeOK, woramP!WoramTypeOK
<1>2. woramP!WoramTypeOK
  BY DEF woramP!Inv, woramP!TypeOK
<1>3. woramP!PMLoad(longpos) \in Word
  BY <1>1, <1>2, Parameters, woramP!LoadType DEF woramP!PMLoad, woramP!PosmapLoad
<1>. QED
  BY <1>1, <1>3, SameWoram

\* What a write to one half does to what DetWoram finds in its areas.
LEMMA AreaEffect ==
  ASSUME CryptTypeOK, NEW buf \in Word, NEW p \in Nat
  PROVE  /\ CryptStore("Mem0", p, buf) /\ p \in Index =>
              /\ CryptTypeOK'
              /\ LongTerm' = [LongTerm EXCEPT ![p] = buf]
              /\ Holding' = Holding
              /\ nextpos'["Mem1"] = nextpos["Mem1"]
              /\ nextpos'["Mem0"] = IF nextpos["Mem0"] + 1 = Size0
                                    THEN 0 ELSE nextpos["Mem0"] + 1
         /\ CryptStore("Mem1", p, buf) /\ p \in 0 .. Size1 - 1 =>
              /\ CryptTypeOK'
              /\ Holding' = [Holding EXCEPT ![p] = buf]
              /\ LongTerm' = LongTerm
              /\ nextpos'["Mem0"] = nextpos["Mem0"]
              /\ nextpos'["Mem1"] = IF nextpos["Mem1"] + 1 = Size1
                                    THEN 0 ELSE nextpos["Mem1"] + 1
<1>0. /\ "Mem0" \in Half /\ "Mem1" \in Half /\ "Mem0" # "Mem1"
      /\ SizeOf("Mem0") = Size0 /\ SizeOf("Mem1") = Size1
      /\ \A i \in Index : i \in Nat /\ i < Size0
      /\ \A k \in 0 .. Size1 - 1 : k \in Nat /\ k < Size1
      /\ nextpos \in [Half -> Nat]
  BY CryptSizes DEF Half, SizeOf, Index, CryptTypeOK
<1>1. ASSUME CryptStore("Mem0", p, buf), p \in Index
      PROVE  /\ CryptTypeOK'
             /\ CryptLoad("Mem0", p)' = buf
             /\ \A h \in Half, i \in Nat :
                  i < SizeOf(h) /\ (h # "Mem0" \/ i # p) =>
                    CryptLoad(h, i)' = CryptLoad(h, i)
             /\ nextpos' = [nextpos EXCEPT !["Mem0"] =
                              IF @ + 1 = SizeOf("Mem0") THEN 0 ELSE @ + 1]
  BY <1>0, <1>1, StoreEffect
<1>2. ASSUME CryptStore("Mem1", p, buf), p \in 0 .. Size1 - 1
      PROVE  /\ CryptTypeOK'
             /\ CryptLoad("Mem1", p)' = buf
             /\ \A h \in Half, i \in Nat :
                  i < SizeOf(h) /\ (h # "Mem1" \/ i # p) =>
                    CryptLoad(h, i)' = CryptLoad(h, i)
             /\ nextpos' = [nextpos EXCEPT !["Mem1"] =
                              IF @ + 1 = SizeOf("Mem1") THEN 0 ELSE @ + 1]
  BY <1>0, <1>2, StoreEffect
<1>3. ASSUME CryptStore("Mem0", p, buf), p \in Index
      PROVE  /\ LongTerm' = [LongTerm EXCEPT ![p] = buf]
             /\ Holding' = Holding
  BY <1>0, <1>1, <1>3 DEF LongTerm, Holding
<1>4. ASSUME CryptStore("Mem1", p, buf), p \in 0 .. Size1 - 1
      PROVE  /\ Holding' = [Holding EXCEPT ![p] = buf]
             /\ LongTerm' = LongTerm
  BY <1>0, <1>2, <1>4 DEF LongTerm, Holding
<1>. QED
  BY <1>0, <1>1, <1>2, <1>3, <1>4

LEMMA AreasUnchanged ==
  ASSUME UNCHANGED cryptVars
  PROVE  /\ LongTerm' = LongTerm /\ Holding' = Holding
         /\ UNCHANGED nextpos
         /\ CryptTypeOK => CryptTypeOK'
  BY DEF cryptVars, LongTerm, Holding, CryptLoad, Dec, LoadCounter, CryptTypeOK

LEMMA JInit == Init => J /\ woramP!Init
<1>. SUFFICES ASSUME Init PROVE J /\ woramP!Init
  OBVIOUS
<1>1. CryptTypeOK
  <2>1. (Span - 1) \div 2 \in 0 .. Span - 1
    BY CryptAssumption
  <2>2. backend \in [0 .. Size0 + Size1 - 1 -> Word]
    BY CryptAssumption DEF Init, CryptInit, Word
  <2>. QED
    BY <2>1, <2>2, CryptSizes, CryptAssumption
       DEF Init, CryptInit, CryptTypeOK, StartRound, Word
<1>2. LongTerm \in [Index -> Word] /\ Holding \in [0 .. Size1 - 1 -> Word]
  <2>1. \A i \in Index : CryptLoad("Mem0", i) \in Word
    BY <1>1, LoadedWord, CryptSizes DEF Index, Half, SizeOf
  <2>2. \A k \in 0 .. Size1 - 1 : CryptLoad("Mem1", k) \in Word
    BY <1>1, LoadedWord, CryptSizes DEF Half, SizeOf
  <2>. QED
    BY <2>1, <2>2 DEF LongTerm, Holding
<1>3. woramP!Init
  BY <1>2, SameWoram DEF Init, woramP!Init, woramP!WoramInit
<1>4. WrittenInOrder
  BY DEF Init, CryptInit, WrittenInOrder, Half
<1>. QED
  BY <1>1, <1>3, <1>4, PlainInit DEF J

LEMMA Simulated ==
  ASSUME J, [Next]_vars
  PROVE  [woramP!Next]_(woramP!vars) /\ CryptTypeOK' /\ WrittenInOrder'
<1>. USE DEF J, WrittenInOrder
<1>1. CASE UNCHANGED vars
  <2>1. UNCHANGED cryptVars
    BY <1>1 DEF vars, cryptVars
  <2>. QED
    BY <1>1, <2>1, AreasUnchanged DEF vars, woramP!vars
<1>2. ASSUME NEW i \in Index, NEW b \in Buf, StoreCall(i, b)
      PROVE  woramP!Next /\ CryptTypeOK' /\ WrittenInOrder'
  <2>1. LongTerm' = LongTerm /\ Holding' = Holding /\ CryptTypeOK'
        /\ UNCHANGED nextpos
    BY <1>2, AreasUnchanged DEF StoreCall
  <2>2. woramP!StoreCall(i, b)
    BY <1>2, <2>1, SameWoram DEF StoreCall, woramP!StoreCall
  <2>3. i \in woramP!Index /\ b \in Word
    BY SameWoram, DetWoCryptAssumption
  <2>. QED
    BY <1>2, <2>1, <2>2, <2>3 DEF StoreCall, woramP!Next
<1>3. CASE StoreRefresh
  <2>1. woram!PMLoad(longpos) = woramP!PMLoad(longpos)
    BY SameWoram DEF woramP!PMLoad, woramP!PosmapLoad
  <2>2. woram!PMLoad(longpos) \in Word /\ longpos \in Index
    BY <2>1, Types
  <2>. longpos \in Nat
    BY <2>2, CryptAssumption DEF Index
  <2>3. /\ CryptTypeOK' /\ Holding' = Holding
        /\ LongTerm' = [LongTerm EXCEPT ![longpos] = woram!PMLoad(longpos)]
        /\ nextpos'["Mem1"] = nextpos["Mem1"]
        /\ nextpos'["Mem0"] = IF nextpos["Mem0"] + 1 = Size0
                              THEN 0 ELSE nextpos["Mem0"] + 1
    BY <1>3, <2>2, AreaEffect DEF StoreRefresh
  <2>4. woramP!StoreRefresh
    BY <1>3, <2>1, <2>3
       DEF StoreRefresh, woramP!StoreRefresh, woramP!LongTermWrite,
           woramP!PMLoad
  <2>. QED
    BY <1>3, <2>3, <2>4 DEF StoreRefresh, woramP!Next
<1>4. CASE StoreHold
  <2>1. PICK r \in request : /\ newpos' = woram!NewPosition(r.index, r.buf)
                             /\ CryptStore("Mem1", holdpos, r.buf)
    BY <1>4 DEF StoreHold
  <2>2. r.buf \in Word /\ holdpos \in 0 .. Size1 - 1 /\ holdpos \in Nat
    BY Types, CryptAssumption
  <2>3. /\ CryptTypeOK' /\ LongTerm' = LongTerm
        /\ Holding' = [Holding EXCEPT ![holdpos] = r.buf]
        /\ nextpos'["Mem0"] = nextpos["Mem0"]
        /\ nextpos'["Mem1"] = IF nextpos["Mem1"] + 1 = Size1
                              THEN 0 ELSE nextpos["Mem1"] + 1
    BY <2>1, <2>2, AreaEffect
  <2>4. woramP!StoreHold
    BY <1>4, <2>1, <2>3, SameWoram
       DEF StoreHold, woramP!StoreHold, woramP!HoldingWrite
  <2>. QED
    BY <1>4, <2>3, <2>4 DEF StoreHold, woramP!Next
<1>5. CASE StorePosition
  <2>1. LongTerm' = LongTerm /\ Holding' = Holding /\ CryptTypeOK'
        /\ UNCHANGED nextpos
    BY <1>5, AreasUnchanged DEF StorePosition
  <2>2. woramP!StorePosition
    BY <1>5, <2>1 DEF StorePosition, woramP!StorePosition
  <2>. QED
    BY <1>5, <2>1, <2>2 DEF StorePosition, woramP!Next
<1>. QED
  BY <1>1, <1>2, <1>3, <1>4, <1>5 DEF Next

LEMMA JNext == J /\ [Next]_vars => J'
  BY Simulated, PlainNext DEF J

LEMMA JAlways == Spec => []J
  BY JInit, JNext, PTL DEF Spec

(***************************************************************************)
(* CtrCrypt never throws: both areas are written in the order it demands.  *)
(***************************************************************************)
THEOREM CryptWrittenInOrder == Spec => []WrittenInOrder
<1>1. J => WrittenInOrder
  BY DEF J
<1>. QED
  BY <1>1, JAlways, PTL

(***************************************************************************)
(* The encrypted ORAM implements PMWoram over a memory with arbitrary      *)
(* initial blocks, for any sizes, and however often the counters wrap.     *)
(***************************************************************************)
THEOREM CryptImplementsPMWoram == Spec => ImplementsPMWoram
<1>1. Spec => woramP!Spec
  BY JInit, Simulated, JAlways, PTL DEF Spec, woramP!Spec
<1>2. woramP!Spec => woram!Spec
  BY SameWoram, PTL DEF woram!Spec, woramP!Spec
<1>. QED
  BY <1>1, <1>2 DEF ImplementsPMWoram

(***************************************************************************)
(* And so it is a block device.                                            *)
(***************************************************************************)
THEOREM CryptImplementsDevice == Spec => woramP!ImplementsDevice
<1>1. Spec => woramP!Spec
  BY JInit, Simulated, JAlways, PTL DEF Spec, woramP!Spec
<1>. QED
  BY <1>1, PlainDevice

-----------------------------------------------------------------------------
(***************************************************************************)
(* The pads.  As long as both halves last, the counters a half has used    *)
(* are an interval that begins where the half started, and the counter of  *)
(* the next write is the one after it.  The two intervals do not meet.     *)
(***************************************************************************)
BothLast == \A h \in Half : writes[h] <= Lasting(h)

UsedPads(h) == StartRound(h) .. StartRound(h) + writes[h] - 1

Fresh ==
  /\ writes \in [Half -> Nat]
  /\ BothLast =>
       /\ pads = UsedPads("Mem0") \cup UsedPads("Mem1")
       /\ \A h \in Half :
            (round[h] + nextpos[h]) % Span = (StartRound(h) + writes[h]) % Span

LEMMA StartFacts ==
  /\ "Mem0" \in Half /\ "Mem1" \in Half
  /\ \A h \in Half : h = "Mem0" \/ h = "Mem1"
  /\ StartRound("Mem0") = 0
  /\ StartRound("Mem1") \in Nat
  /\ Lasting("Mem0") = StartRound("Mem1")
  /\ StartRound("Mem1") + Lasting("Mem1") = Span
  /\ \A h \in Half : StartRound(h) \in Nat /\ Lasting(h) \in Nat
                     /\ StartRound(h) + Lasting(h) <= Span
<1>1. (Span - 1) \div 2 \in Nat /\ (Span - 1) \div 2 <= Span
  BY CryptAssumption
<1>. QED
  BY <1>1, CryptAssumption DEF Half, StartRound, Lasting

LEMMA FreshInit == Init => Fresh
<1>. SUFFICES ASSUME Init PROVE Fresh
  OBVIOUS
<1>1. writes = [h \in Half |-> 0] /\ pads = {} /\ nextpos = [h \in Half |-> 0]
      /\ round = [h \in Half |-> StartRound(h)]
  BY DEF Init, CryptInit
<1>2. \A h \in Half : UsedPads(h) = {}
  BY <1>1, StartFacts DEF UsedPads
<1>. QED
  BY <1>1, <1>2, StartFacts DEF Fresh

LEMMA FreshStore ==
  ASSUME CryptTypeOK, Fresh, NEW half \in Half, NEW index, NEW buf,
         CryptStore(half, index, buf)
  PROVE  Fresh'
<1>. DEFINE ctr == (round[half] + index) % Span
            w == StartRound(half) + writes[half]
<1>0. /\ index = nextpos[half] /\ RecordPad(half, ctr)
      /\ round \in [Half -> Word] /\ \A h \in Half : round[h] \in Int
      /\ nextpos \in [Half -> Nat] /\ SizeOf(half) \in Nat \ {0}
      /\ writes \in [Half -> Nat] /\ w \in Nat
  <2>1. index = nextpos[half] /\ RecordPad(half, ctr)
    BY DEF CryptStore
  <2>2. round \in [Half -> Word] /\ \A h \in Half : round[h] \in Int
    BY CryptAssumption DEF CryptTypeOK, Word
  <2>3. nextpos \in [Half -> Nat] /\ SizeOf(half) \in Nat \ {0}
    BY CryptSizes DEF CryptTypeOK
  <2>4. writes \in [Half -> Nat]
    BY DEF Fresh
  <2>5. w \in Nat
    BY <2>4, StartFacts
  <2>. QED
    BY <2>1, <2>2, <2>3, <2>4, <2>5
<1>1. CASE ~BothLast
  <2>1. writes' = writes
    BY <1>0, <1>1 DEF RecordPad, BothLast
  <2>2. ~BothLast'
    BY <1>1, <2>1 DEF BothLast, Lasting
  <2>. QED
    BY <1>0, <2>1, <2>2 DEF Fresh
<1>2. CASE BothLast
  <2>1. /\ writes' = [writes EXCEPT ![half] = @ + 1]
        /\ pads' = pads \cup {ctr}
    BY <1>0, <1>2 DEF RecordPad, BothLast
  <2>2. /\ pads = UsedPads("Mem0") \cup UsedPads("Mem1")
        /\ \A h \in Half :
             (round[h] + nextpos[h]) % Span = (StartRound(h) + writes[h]) % Span
    BY <1>2 DEF Fresh
  <2>3. ctr = w % Span
    BY <1>0, <2>2
  <2>4. ASSUME BothLast'
        PROVE  pads' = UsedPads("Mem0")' \cup UsedPads("Mem1")'
    <3>1. writes'[half] <= Lasting(half) /\ writes'[half] = writes[half] + 1
      BY <1>0, <2>1, <2>4 DEF BothLast, Lasting
    <3>2. w \in Word
      BY <1>0, <3>1, StartFacts, CryptAssumption DEF Word
    <3>3. ctr = w
      BY <1>0, <2>3, <3>2, ModWord
    <3>4. UsedPads(half)' = UsedPads(half) \cup {w}
      <4>1. UsedPads(half)' = StartRound(half) .. w
        <5>1. UsedPads(half)' =
                StartRound(half) .. StartRound(half) + writes'[half] - 1
          BY DEF UsedPads, StartRound
        <5>2. StartRound(half) + writes'[half] - 1 = w
          BY <1>0, <3>1, StartFacts
        <5>. QED
          BY <5>1, <5>2
      <4>2. UsedPads(half) = StartRound(half) .. w - 1
        <5>1. UsedPads(half) =
                StartRound(half) .. StartRound(half) + writes[half] - 1
          BY Zenon DEF UsedPads
        <5>2. StartRound(half) \in Nat /\ writes[half] \in Nat
          BY <1>0, StartFacts
        <5>3. StartRound(half) + writes[half] - 1 = w - 1
          BY <5>2
        <5>. QED
          BY <5>1, <5>3
      <4>3. StartRound(half) \in Nat /\ StartRound(half) <= w
        BY <1>0, StartFacts
      <4>. QED
        BY <1>0, <4>1, <4>2, <4>3
    <3>5. \A h \in Half \ {half} : UsedPads(h)' = UsedPads(h)
      BY <1>0, <2>1 DEF UsedPads, StartRound
    <3>. QED
      BY <2>1, <2>2, <3>3, <3>4, <3>5, StartFacts
  <2>5. ASSUME NEW h \in Half
        PROVE  (round[h] + nextpos[h])' % Span
                 = (StartRound(h) + writes'[h]) % Span
    <3>1. CASE h # half
      <4>1. round'[h] = round[h] /\ nextpos'[h] = nextpos[h]
            /\ writes'[h] = writes[h]
        BY <1>0, <2>1, <3>1 DEF CryptStore
      <4>. QED
        BY <2>2, <4>1
    <3>2. CASE h = half
      <4>1. (round[h] + nextpos[h] + 1) % Span
              = (StartRound(h) + writes'[h]) % Span
        <5>1. (((round[h] + nextpos[h]) % Span) + 1) % Span
                = (round[h] + nextpos[h] + 1) % Span
          BY <1>0, ModAdd
        <5>2. ((w % Span) + 1) % Span = (w + 1) % Span
          BY <1>0, ModAdd
        <5>3. writes'[h] = writes[h] + 1 /\ StartRound(h) + writes'[h] = w + 1
          BY <1>0, <2>1, <3>2, StartFacts
        <5>. QED
          BY <1>0, <2>2, <3>2, <5>1, <5>2, <5>3
      <4>2. (round'[h] + nextpos'[h]) % Span = (round[h] + nextpos[h] + 1) % Span
        <5>1. CASE nextpos[half] + 1 = SizeOf(half)
          <6>1. nextpos'[h] = 0
                /\ round'[h] = (round[h] + SizeOf(half)) % Span
            BY <1>0, <3>2, <5>1 DEF CryptStore
          <6>2. (((round[h] + SizeOf(half)) % Span) + 0) % Span
                  = (round[h] + SizeOf(half) + 0) % Span
            BY <1>0, ModAdd
          <6>. QED
            BY <1>0, <3>2, <5>1, <6>1, <6>2
        <5>2. CASE nextpos[half] + 1 # SizeOf(half)
          <6>1. nextpos'[h] = nextpos[h] + 1 /\ round'[h] = round[h]
            BY <1>0, <3>2, <5>2 DEF CryptStore
          <6>2. round'[h] + nextpos'[h] = round[h] + nextpos[h] + 1
            BY <1>0, <6>1
          <6>. QED
            BY <6>2
        <5>. QED
          BY <5>1, <5>2
      <4>. QED
        BY <4>1, <4>2
    <3>. QED
      BY <3>1, <3>2
  <2>6. writes' \in [Half -> Nat]
    BY <1>0, <2>1
  <2>. QED
    BY <2>4, <2>5, <2>6 DEF Fresh, StartRound
<1>. QED
  BY <1>1, <1>2

LEMMA FreshNext == J /\ Fresh /\ [Next]_vars => Fresh'
<1>. SUFFICES ASSUME J, Fresh, [Next]_vars PROVE Fresh'
  OBVIOUS
<1>1. CryptTypeOK
  BY DEF J
<1>2. ASSUME UNCHANGED cryptVars PROVE Fresh'
  BY <1>2 DEF cryptVars, Fresh, BothLast, UsedPads, StartRound, Lasting
<1>3. CASE UNCHANGED vars
  BY <1>2, <1>3 DEF vars, cryptVars
<1>4. CASE \E i \in Index, b \in Buf : StoreCall(i, b)
  BY <1>2, <1>4 DEF StoreCall
<1>5. CASE StoreRefresh
  BY <1>1, <1>5, FreshStore, StartFacts DEF StoreRefresh
<1>6. CASE StoreHold
  BY <1>1, <1>6, FreshStore, StartFacts DEF StoreHold
<1>7. CASE StorePosition
  BY <1>2, <1>7 DEF StorePosition
<1>. QED
  BY <1>3, <1>4, <1>5, <1>6, <1>7 DEF Next

LEMMA FreshCount == Fresh => PadsFresh
<1>. SUFFICES ASSUME Fresh, BothLast
              PROVE  Cardinality(pads) = writes["Mem0"] + writes["Mem1"]
  BY DEF PadsFresh, BothLast
<1>. DEFINE A == UsedPads("Mem0")
            B == UsedPads("Mem1")
            m == StartRound("Mem1")
<1>1. /\ writes["Mem0"] \in Nat /\ writes["Mem1"] \in Nat
      /\ writes["Mem0"] <= m /\ m \in Nat
  BY StartFacts DEF Fresh, BothLast
<1>2. A = 0 .. writes["Mem0"] - 1 /\ B = m .. m + writes["Mem1"] - 1
  BY <1>1, StartFacts DEF UsedPads
<1>3. /\ IsFiniteSet(A) /\ Cardinality(A) = writes["Mem0"]
      /\ IsFiniteSet(B) /\ Cardinality(B) = writes["Mem1"]
  <2>1. /\ IsFiniteSet(0 .. writes["Mem0"] - 1)
        /\ Cardinality(0 .. writes["Mem0"] - 1) = writes["Mem0"]
    <3>1. 0 \in Int /\ writes["Mem0"] - 1 \in Int
      BY <1>1
    <3>2. Cardinality(0 .. writes["Mem0"] - 1)
            = IF 0 > writes["Mem0"] - 1 THEN 0 ELSE (writes["Mem0"] - 1) - 0 + 1
      BY <3>1, FS_Interval
    <3>3. Cardinality(0 .. writes["Mem0"] - 1) = writes["Mem0"]
      BY <1>1, <3>2
    <3>4. IsFiniteSet(0 .. writes["Mem0"] - 1)
      BY <3>1, FS_Interval
    <3>. QED
      BY <3>3, <3>4
  <2>2. /\ IsFiniteSet(m .. m + writes["Mem1"] - 1)
        /\ Cardinality(m .. m + writes["Mem1"] - 1) = writes["Mem1"]
    <3>1. m \in Int /\ m + writes["Mem1"] - 1 \in Int
      BY <1>1
    <3>2. Cardinality(m .. m + writes["Mem1"] - 1)
            = IF m > m + writes["Mem1"] - 1 THEN 0
              ELSE (m + writes["Mem1"] - 1) - m + 1
      BY <3>1, FS_Interval
    <3>3. Cardinality(m .. m + writes["Mem1"] - 1) = writes["Mem1"]
      BY <1>1, <3>2
    <3>4. IsFiniteSet(m .. m + writes["Mem1"] - 1)
      BY <3>1, FS_Interval
    <3>. QED
      BY <3>3, <3>4
  <2>. QED
    BY <1>2, <2>1, <2>2
<1>4. A \cap B = {}
  BY <1>1, <1>2
<1>5. Cardinality(A \cup B) = Cardinality(A) + Cardinality(B) - 0
  BY <1>3, <1>4, FS_Union, FS_EmptySet
<1>6. pads = A \cup B
  BY DEF Fresh
<1>. QED
  BY <1>1, <1>3, <1>5, <1>6

(***************************************************************************)
(* No pad is used twice, for any Span and any sizes of the halves, until   *)
(* the counters of a half reach those at which the other started.          *)
(***************************************************************************)
THEOREM CryptPadsFresh == Spec => []PadsFresh
<1>1. Spec => []Fresh
  BY FreshInit, FreshNext, JAlways, PTL DEF Spec
<1>. QED
  BY <1>1, FreshCount, PTL
=============================================================================
