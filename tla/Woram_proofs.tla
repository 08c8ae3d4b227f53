----------------------------- MODULE Woram_proofs ---------------------------
(***************************************************************************)
(* Proofs that the two simple ORAMs of woram.h are block devices.          *)
(*                                                                         *)
(* OneWriteWoram under PMWoram is one up to the end of its capacity and    *)
(* beyond: Inv says that the map and the position in hand name different   *)
(* blocks, all written, so that a new block never replaces one that is     *)
(* read.  TrivialWoram, instantiated on the same backend and requests,     *)
(* is the memory at the innermost level of the recursion (RecWoram): only  *)
(* the turn of its loop that reaches the index of the store changes what   *)
(* load returns, the others write back what they have read.                *)
(***************************************************************************)
EXTENDS OneWriteWoram, TLAPS

Inv ==
  /\ TypeOK
  /\ PositionsWritten
  /\ pc = "posmap" => \A r \in request : backend[newpos] = r.buf

LEMMA OneWriteInit ==
  ASSUME OneWriteOK, Init
  PROVE  Inv /\ Device!DeviceInit
<1>1. /\ BackSize \in Nat /\ ZeroBlock \in Block
      /\ Visible = [i \in Index |-> Unreadable]
  BY DEF OneWriteOK, Init, Visible, Load
<1>. QED
  BY <1>1 DEF Init, Inv, TypeOK, PositionsWritten, NPtr, MaxWrites,
              Device!DeviceInit

LEMMA OneWriteStep ==
  ASSUME OneWriteOK, Inv, [Next]_vars
  PROVE  Inv' /\ [Device!DeviceNext]_(Device!deviceVars)
<1>0. /\ BackSize \in Nat /\ MaxWrites = BackSize /\ NPtr = BackSize
      /\ nextpos \in 0 .. BackSize /\ newpos \in 0 .. BackSize
      /\ backend \in [0 .. BackSize - 1 -> Block]
      /\ posmap \in [Index -> 0 .. BackSize]
      /\ request \in SUBSET [index : Index, buf : Block]
      /\ \A r, s \in request : r = s
      /\ ZeroBlock \in Block
  BY DEF OneWriteOK, Inv, TypeOK, NPtr, MaxWrites
\* A write beyond all positions of the map.
<1>1. ASSUME NEW buf \in Block, WriteBlock(buf), UNCHANGED posmap
      PROVE  /\ backend' \in [0 .. BackSize - 1 -> Block]
             /\ nextpos' \in 0 .. MaxWrites /\ nextpos < BackSize
             /\ backend'[nextpos] = buf
             /\ \A p \in 0 .. BackSize - 1 : p < nextpos => backend'[p] = backend[p]
             /\ Visible' = Visible
  <2>1. /\ nextpos < BackSize /\ nextpos' = nextpos + 1
        /\ backend' = [backend EXCEPT ![nextpos] = buf]
    BY <1>0, <1>1 DEF WriteBlock
  <2>2. \A i \in Index : Load(i)' = Load(i)
    BY <1>0, <1>1, <2>1 DEF Load, LoadBlock, Inv, PositionsWritten
  <2>. QED
    BY <1>0, <2>1, <2>2 DEF Visible
<1>2. ASSUME UNCHANGED <<backend, posmap>> PROVE Visible' = Visible
  BY <1>2 DEF Visible, Load, LoadBlock
<1>3. ASSUME NEW index \in Index, NEW buf \in Block, StoreCall(index, buf)
      PROVE  Inv' /\ Device!CallStore(index, buf)
  <2>1. request = {} /\ Visible' = Visible
    BY <1>2, <1>3 DEF StoreCall, Inv, TypeOK
  <2>2. TypeOK'
    <3>1. /\ request' \in SUBSET [index : Index, buf : Block]
          /\ request' # {} /\ \A r, s \in request' : r = s
      BY <1>3 DEF StoreCall
    <3>2. pc' = "write" /\ UNCHANGED <<backend, nextpos, posmap, newpos>>
      BY <1>3 DEF StoreCall
    <3>. QED
      BY <3>1, <3>2 DEF Inv, TypeOK
  <2>3. PositionsWritten' /\ pc' # "posmap"
    BY <1>3 DEF StoreCall, Inv, PositionsWritten, NPtr
  <2>. QED
    BY <1>3, <2>1, <2>2, <2>3 DEF StoreCall, Inv, Device!CallStore
<1>4. CASE StoreBlock
  <2>1. PICK r \in request : request = {r} /\ WriteBlock(r.buf)
    BY <1>0, <1>4 DEF StoreBlock
  <2>2. /\ newpos' = nextpos /\ nextpos' = nextpos + 1 /\ pc' = "posmap"
        /\ UNCHANGED <<posmap, request>> /\ pc = "write"
    BY <1>4, <2>1 DEF StoreBlock, WriteBlock
  <2>3. /\ backend' \in [0 .. BackSize - 1 -> Block]
        /\ nextpos' \in 0 .. MaxWrites /\ nextpos < BackSize
        /\ backend'[nextpos] = r.buf
        /\ Visible' = Visible
    BY <1>0, <1>1, <2>1, <2>2
  <2>4. TypeOK'
    BY <1>0, <2>1, <2>2, <2>3 DEF TypeOK, Inv
  <2>5. PositionsWritten'
    <3>1. \A i \in Index : posmap[i] # NPtr => posmap[i] < nextpos
      BY DEF Inv, PositionsWritten
    <3>2. nextpos' = nextpos + 1 /\ nextpos \in Nat /\ newpos' = nextpos
          /\ nextpos # NPtr /\ posmap' = posmap
      BY <1>0, <2>2, <2>3
    <3>3. \A i \in Index : posmap[i] \in Nat /\ posmap[i] # nextpos
      BY <1>0, <3>1, <3>2
    <3>. QED
      BY <1>0, <3>1, <3>2, <3>3 DEF Inv, PositionsWritten, NPtr
  <2>. QED
    BY <2>1, <2>2, <2>3, <2>4, <2>5 DEF Inv, Device!deviceVars
<1>5. CASE StoreThrows
  BY <1>0, <1>2, <1>5
     DEF StoreThrows, Inv, TypeOK, PositionsWritten, Device!DeviceNext,
         Device!RefuseStore
<1>6. CASE StorePosition
  <2>1. PICK r \in request : /\ request = {r}
                             /\ posmap' = [posmap EXCEPT ![r.index] = newpos]
    <3>1. PICK q \in request : posmap' = [posmap EXCEPT ![q.index] = newpos]
      BY <1>6 DEF StorePosition
    <3>2. request = {q}
      BY <1>0
    <3>. QED
      BY <3>1, <3>2
  <2>2. /\ pc = "posmap" /\ request' = {} /\ pc' = "idle"
        /\ UNCHANGED <<backend, nextpos, newpos>>
        /\ r.index \in Index /\ r.buf \in Block
        /\ newpos < nextpos /\ backend[newpos] = r.buf
        /\ \A i \in Index : posmap[i] # newpos
    BY <1>0, <1>6, <2>1 DEF StorePosition, Inv, PositionsWritten
  <2>3. TypeOK' /\ PositionsWritten'
    BY <1>0, <2>1, <2>2 DEF Inv, TypeOK, PositionsWritten
  <2>4. Visible' = [Visible EXCEPT ![r.index] = r.buf]
    <3>1. \A i \in Index : posmap'[i] = IF i = r.index THEN newpos ELSE posmap[i]
      BY <1>0, <2>1
    <3>2. \A i \in Index : Visible'[i] = IF i = r.index THEN r.buf ELSE Visible[i]
      BY <1>0, <2>2, <3>1 DEF Visible, Load, LoadBlock, NPtr
    <3>. QED
      BY <2>2, <3>2 DEF Visible
  <2>5. Device!ReturnStore
    BY <2>1, <2>2, <2>4 DEF Device!ReturnStore
  <2>. QED
    BY <2>2, <2>3, <2>5 DEF Inv, Device!DeviceNext
<1>7. CASE DummyWrite
  <2>1. /\ backend' \in [0 .. BackSize - 1 -> Block]
        /\ nextpos' \in 0 .. MaxWrites /\ Visible' = Visible
        /\ nextpos' = nextpos + 1
    BY <1>0, <1>1, <1>7 DEF DummyWrite, WriteBlock
  <2>. QED
    BY <1>0, <1>7, <2>1
       DEF DummyWrite, Inv, TypeOK, PositionsWritten, Device!deviceVars
<1>8. CASE UNCHANGED vars
  BY <1>2, <1>8 DEF vars, Inv, TypeOK, PositionsWritten, Device!deviceVars
<1>. QED
  BY <1>3, <1>4, <1>5, <1>6, <1>7, <1>8 DEF Next, Device!DeviceNext

LEMMA OneWriteInv ==
  ASSUME OneWriteOK
  PROVE  Spec => []Inv
  BY OneWriteInit, OneWriteStep, PTL DEF Spec

(***************************************************************************)
(* Every written block belongs to at most one index, and no position runs  *)
(* ahead of nextpos.                                                       *)
(***************************************************************************)
THEOREM OneWritePositions ==
  ASSUME OneWriteOK
  PROVE  Spec => []PositionsWritten
<1>1. Inv => PositionsWritten
  BY DEF Inv
<1>. QED
  BY <1>1, OneWriteInv, PTL

(***************************************************************************)
(* OneWriteWoram is a block device that refuses stores without effect once *)
(* its capacity is used up.                                                *)
(***************************************************************************)
THEOREM OneWriteImplementsDevice ==
  ASSUME OneWriteOK
  PROVE  Spec => ImplementsDevice
  BY OneWriteInit, OneWriteStep, OneWriteInv, PTL
     DEF Spec, ImplementsDevice, Device!DeviceSpec
-----------------------------------------------------------------------------
CONSTANT BackThrows  \* whether the backend of TrivialWoram may throw
VARIABLE curpos      \* the turn of its loop

Trivial == INSTANCE TrivialWoram

LEMMA TrivialInit ==
  ASSUME Trivial!TrivialOK, Trivial!Init
  PROVE  Trivial!TypeOK
  BY DEF Trivial!TrivialOK, Trivial!Init, Trivial!TypeOK, Trivial!Index

\* The turn of the loop that reaches the index of the store returns it to the
\* device; all others leave its contents alone.
LEMMA TrivialStep ==
  ASSUME Trivial!TrivialOK, Trivial!TypeOK, [Trivial!Next]_(Trivial!vars)
  PROVE  Trivial!TypeOK' /\ [Trivial!Device!DeviceNext]_(Trivial!Device!deviceVars)
<1>0. /\ Size \in Nat /\ Trivial!Index = 0 .. Size - 1
      /\ backend \in [Trivial!Index -> Block] /\ curpos \in 0 .. Size
      /\ request \in SUBSET [index : Trivial!Argument, buf : Block]
      /\ \A r, s \in request : r = s
  BY DEF Trivial!TrivialOK, Trivial!TypeOK, Trivial!Index
<1>1. ASSUME NEW index \in Trivial!Argument, NEW buf \in Block, Trivial!StoreCall(index, buf)
      PROVE  Trivial!TypeOK' /\ [Trivial!Device!DeviceNext]_(Trivial!Device!deviceVars)
  <2>1. Trivial!TypeOK'
    BY <1>0, <1>1 DEF Trivial!StoreCall, Trivial!TypeOK
  <2>2. Trivial!Pending = {} /\ backend' = backend
    BY <1>1 DEF Trivial!StoreCall, Trivial!Pending
  <2>3. CASE index \in Trivial!Index
    <3>1. Trivial!Pending' = {[index |-> index, buf |-> buf]}
      BY <1>0, <1>1, <2>3 DEF Trivial!StoreCall, Trivial!Pending
    <3>2. Trivial!Device!CallStore(index, buf)
      BY <2>2, <3>1 DEF Trivial!Device!CallStore
    <3>. QED
      BY <2>1, <2>3, <3>2 DEF Trivial!Device!DeviceNext
  <2>4. CASE index \notin Trivial!Index
    <3>1. Trivial!Pending' = {}
      BY <1>0, <1>1, <2>4 DEF Trivial!StoreCall, Trivial!Pending
    <3>. QED
      BY <2>1, <2>2, <3>1 DEF Trivial!Device!deviceVars
  <2>. QED
    BY <2>3, <2>4
<1>2. CASE Trivial!StoreTurn
  <2>0. PICK r \in request :
          backend' = [backend EXCEPT ![curpos] =
                        IF curpos = r.index THEN r.buf ELSE @]
    BY <1>2 DEF Trivial!StoreTurn
  <2>1. request = {r}
    BY <1>0
  <2>2. curpos < Size /\ curpos' = curpos + 1 /\ request' = {r}
    BY <1>2, <2>1 DEF Trivial!StoreTurn
  <2>3. r.buf \in Block /\ r.index \in Nat /\ curpos \in Trivial!Index
    BY <1>0, <2>2 DEF Trivial!Argument
  <2>4. Trivial!TypeOK'
    BY <1>0, <2>0, <2>1, <2>2, <2>3 DEF Trivial!TypeOK
  <2>5. CASE curpos = r.index
    <3>1. Trivial!Pending = {r} /\ Trivial!Pending' = {}
      BY <1>0, <2>1, <2>2, <2>3, <2>5 DEF Trivial!Pending
    <3>2. backend' = [backend EXCEPT ![r.index] = r.buf]
      BY <2>0, <2>5
    <3>3. Trivial!Device!ReturnStore
      BY <3>1, <3>2 DEF Trivial!Device!ReturnStore
    <3>. QED
      BY <2>4, <3>3 DEF Trivial!Device!DeviceNext
  <2>6. CASE curpos # r.index
    <3>1. Trivial!Pending' = Trivial!Pending
      BY <1>0, <2>1, <2>2, <2>3, <2>6 DEF Trivial!Pending
    <3>2. backend' = backend
      BY <1>0, <2>0, <2>6
    <3>. QED
      BY <2>4, <3>1, <3>2 DEF Trivial!Device!deviceVars
  <2>. QED
    BY <2>5, <2>6
<1>3. CASE Trivial!StoreThrows
  <2>1. Trivial!TypeOK' /\ Trivial!Pending' = {} /\ backend' = backend /\ BackThrows
    BY <1>0, <1>3 DEF Trivial!StoreThrows, Trivial!TypeOK, Trivial!Pending
  <2>. QED
    BY <2>1 DEF Trivial!Device!deviceVars, Trivial!Device!DeviceNext, Trivial!Device!RefuseStore
<1>4. CASE Trivial!StoreReturn
  <2>1. Trivial!TypeOK' /\ Trivial!Pending' = {} /\ Trivial!Pending = {} /\ backend' = backend
    BY <1>0, <1>4 DEF Trivial!StoreReturn, Trivial!TypeOK, Trivial!Pending
  <2>. QED
    BY <2>1 DEF Trivial!Device!deviceVars
<1>5. CASE UNCHANGED Trivial!vars
  BY <1>5 DEF Trivial!vars, Trivial!TypeOK, Trivial!Pending, Trivial!Device!deviceVars
<1>. QED
  BY <1>1, <1>2, <1>3, <1>4, <1>5 DEF Trivial!Next

(***************************************************************************)
(* TrivialWoram is a block device at every turn of its loop, wherever its  *)
(* backend breaks it off.                                                  *)
(***************************************************************************)
THEOREM TrivialImplementsDevice ==
  ASSUME Trivial!TrivialOK
  PROVE  Trivial!Spec => Trivial!ImplementsDevice
<1>1. Trivial!Init => Trivial!Device!DeviceInit
  BY DEF Trivial!Init, Trivial!Device!DeviceInit, Trivial!Pending
<1>2. Trivial!Spec => []Trivial!TypeOK
  BY TrivialInit, TrivialStep, PTL DEF Trivial!Spec
<1>. QED
  BY <1>1, <1>2, TrivialStep, PTL DEF Trivial!Spec, Trivial!ImplementsDevice, Trivial!Device!DeviceSpec
=============================================================================
