---------------------------- MODULE MemoryProofs ----------------------------
(***************************************************************************)
(* Memory, and how long things live in it: objects for as long as a        *)
(* counted pointer holds them (RefCount); the rings ZZ and QQ, GMP's       *)
(* memory functions and the registered globals for as long as the          *)
(* GlobalManager does (GlobalManager); and the loaves from which a pool    *)
(* cuts its slices (LoafSizes).  The three keep separate states.           *)
(***************************************************************************)
EXTENDS LoafSizes, RefCount, GlobalManager, NatFacts, SequenceTheorems, FiniteSetTheorems, TLAPS

(***************************************************************************)
(* RefCount: no object is used dead, and counts are exact, for any number  *)
(* of objects, variables and self references, in a program with one        *)
(* counting thread (Threads = {t}: SmartPtrIRC.H makes only the count      *)
(* atomic, not the decrement with its test) that keeps the precondition of *)
(* h = BaseRing(h) (SoleRebase = FALSE).                                   *)
(*                                                                         *)
(* The invariant adds what one step hands to the next: an object under     *)
(* construction has count 1 + selfs and nobody else knows it; a decrement  *)
(* in progress is on a live object and is part of its count; the object    *)
(* an assignment still has to read is held.  A decrement that leaves 0     *)
(* has then met the last holder, so nothing points to what it deletes.     *)
(***************************************************************************)
(***************************************************************************)
(* Counting.  Holders counts the places, variables or live objects, from   *)
(* which a function points to an object; a step redirects one place.       *)
(***************************************************************************)
Pointing(f, o) == Cardinality({s \in DOMAIN f : f[s] = o})
Num(b) == IF b THEN 1 ELSE 0

LEMMA PointingIsNat ==
  ASSUME NEW S, IsFiniteSet(S), NEW T, NEW f \in [S -> T], NEW o
  PROVE  /\ Pointing(f, o) \in Nat /\ Cardinality(S) \in Nat
         /\ Pointing(f, o) <= Cardinality(S)
         /\ \A s \in S : f[s] = o => Pointing(f, o) >= 1
         /\ (\A s \in S : f[s] # o) => Pointing(f, o) = 0
<1> DEFINE A == {s \in S : f[s] = o}
<1>1. Pointing(f, o) = Cardinality(A)
  BY DEF Pointing
<1>2. IsFiniteSet(A) /\ Cardinality(A) <= Cardinality(S)
  BY FS_Subset
<1>3. Cardinality(A) \in Nat /\ Cardinality(S) \in Nat
  BY <1>2, FS_CardinalityType
<1>4. Cardinality(A) = 0 <=> A = {}
  BY <1>2, FS_EmptySet
<1> QED BY <1>1, <1>2, <1>3, <1>4

Redirected(f, g, h, x, o) == Pointing(g, o) = Pointing(f, o) - Num(f[h] = o) + Num(x = o)

LEMMA Redirect ==
  ASSUME NEW S, IsFiniteSet(S), NEW T, NEW f \in [S -> T], NEW h \in S, NEW x,
         NEW g, g = [f EXCEPT ![h] = x], NEW o
  PROVE  Redirected(f, g, h, x, o)
<1> DEFINE A == {s \in S : f[s] = o}
           B == {s \in S : g[s] = o}
<1>1. Pointing(f, o) = Cardinality(A) /\ Pointing(g, o) = Cardinality(B)
  BY DEF Pointing
<1>2. IsFiniteSet(A) /\ Cardinality(A) \in Nat
  BY FS_Subset, FS_CardinalityType
<1>3. B = IF x = o THEN A \union {h} ELSE A \ {h}
  OBVIOUS
<1>4. h \in A <=> f[h] = o
  OBVIOUS
<1> HIDE DEF A, B
<1>5. Cardinality(A \union {h}) = IF h \in A THEN Cardinality(A) ELSE Cardinality(A) + 1
  BY <1>2, FS_AddElement
<1>6. Cardinality(A \ {h}) = IF h \in A THEN Cardinality(A) - 1 ELSE Cardinality(A)
  BY <1>2, FS_RemoveElement
<1> QED BY <1>1, <1>2, <1>3, <1>4, <1>5, <1>6 DEF Num, Redirected

LEMMA FiniteSets ==
  /\ IsFiniteSet(Handles) /\ IsFiniteSet(Objects)
  /\ Cardinality(Handles) \in Nat /\ Cardinality(Objects) \in Nat
<1>1. IsFiniteSet(1..PerThread)
  BY CountAssumption, FS_Interval
<1>2. IsFiniteSet(Handles) /\ IsFiniteSet(Objects)
  BY <1>1, CountAssumption, FS_Product DEF Handles
<1> QED BY <1>2, FS_CardinalityType

LEMMA ModSmall == ASSUME NEW a \in Nat, NEW w \in Nat, a < w PROVE a % w = a
  OBVIOUS

(***************************************************************************)
(* The invariant, for the only thread t.                                   *)
(***************************************************************************)
Decs == [obj : Objects, stage : {"subtract", "test"}]
Live(p) == state[p] \in {"building", "alive"}

\* The base pointer of a live object.
Own == [p \in Objects |-> IF Live(p) THEN base[p] ELSE none]
HeldBy(f, g, o) == Pointing(f, o) + Pointing(g, o)
Held(o) == HeldBy(ptr, Own, o)
Owed(t, o) == Num(pend[t] = <<Dec(o)>>)

Types ==
  /\ TypeOK
  /\ making \in [Threads -> [obj : Objects, var : Handles] \cup {none}]
  /\ pend \in [Threads -> {<< >>} \cup {<<d>> : d \in Decs}]

\* What anything points to is alive.
Targets(t) ==
  /\ \A h \in Handles : ptr[h] # none => state[ptr[h]] = "alive"
  /\ \A p \in Objects : Own[p] # none => state[Own[p]] = "alive"
  /\ pend[t] # << >> => state[pend[t][1].obj] = "alive"

Counts(t) == \A o \in Objects : state[o] = "alive" => count[o] = Held(o) + Owed(t, o)

\* An object under construction is known to nobody else.
Making(t) ==
  /\ \A o \in Objects : state[o] = "building" => making[t] # none /\ making[t].obj = o
  /\ making[t] # none =>
       /\ pend[t] = << >> /\ rhsIn[t] = none
       /\ state[making[t].obj] = "building" /\ count[making[t].obj] = 1 + selfs[making[t].obj]
       /\ ptr[making[t].var] = none

\* The object in which the right hand side of a running = lies is held by
\* something else than the left hand side was.
Reading(t) ==
  rhsIn[t] # none =>
    /\ state[rhsIn[t]] = "alive" /\ Held(rhsIn[t]) >= 1
    /\ pend[t] # << >> => pend[t][1].obj = rhsIn[t]

IInv(t) == Types /\ Targets(t) /\ Counts(t) /\ Making(t) /\ Reading(t) /\ ~bad

LEMMA OwnType == Types => Own \in [Objects -> Objects \cup {none}]
  BY DEF Types, TypeOK, Own

LEMMA HeldIsNat ==
  ASSUME Types, NEW o
  PROVE  /\ Held(o) \in Nat /\ Held(o) <= Cardinality(Handles) + Cardinality(Objects)
         /\ \A h \in Handles : ptr[h] = o => Held(o) >= 1
         /\ \A p \in Objects : Own[p] = o => Held(o) >= 1
         /\ (\A h \in Handles : ptr[h] # o) /\ (\A p \in Objects : Own[p] # o) => Held(o) = 0
<1>1. ptr \in [Handles -> Objects \cup {none}] /\ Own \in [Objects -> Objects \cup {none}]
  BY OwnType DEF Types, TypeOK
<1>2. /\ Pointing(ptr, o) \in Nat /\ Pointing(ptr, o) <= Cardinality(Handles)
      /\ \A h \in Handles : ptr[h] = o => Pointing(ptr, o) >= 1
      /\ (\A h \in Handles : ptr[h] # o) => Pointing(ptr, o) = 0
  BY <1>1, FiniteSets, PointingIsNat
<1>3. /\ Pointing(Own, o) \in Nat /\ Pointing(Own, o) <= Cardinality(Objects)
      /\ \A p \in Objects : Own[p] = o => Pointing(Own, o) >= 1
      /\ (\A p \in Objects : Own[p] # o) => Pointing(Own, o) = 0
  BY <1>1, FiniteSets, PointingIsNat
<1> QED BY <1>2, <1>3, FiniteSets DEF Held, HeldBy

\* The effect of redirecting from y to x one variable, or one base pointer.
Moved(m, n, y, x, o) == n = m - Num(y = o) + Num(x = o)

LEMMA PtrMoves ==
  ASSUME Types, NEW h \in Handles, NEW x, ptr' = [ptr EXCEPT ![h] = x], Own' = Own, NEW o
  PROVE  Moved(Held(o), HeldBy(ptr', Own', o), ptr[h], x, o)
<1>1. ptr \in [Handles -> Objects \cup {none}]
  BY DEF Types, TypeOK
<1>2. Pointing(ptr', o) = Pointing(ptr, o) - Num(ptr[h] = o) + Num(x = o)
  <2>1. Redirected(ptr, ptr', h, x, o)
    BY <1>1, FiniteSets, Redirect
  <2> QED BY <2>1 DEF Redirected
<1>3. Pointing(ptr, o) \in Nat /\ Pointing(Own, o) \in Nat
  BY <1>1, FiniteSets, PointingIsNat, OwnType
<1> QED BY <1>2, <1>3 DEF Held, HeldBy, Moved, Num

LEMMA OwnMoves ==
  ASSUME Types, NEW p \in Objects, NEW x, Own' = [Own EXCEPT ![p] = x], ptr' = ptr, NEW o
  PROVE  Moved(Held(o), HeldBy(ptr', Own', o), Own[p], x, o)
<1>1. Own \in [Objects -> Objects \cup {none}]
  BY OwnType
<1>2. Pointing(Own', o) = Pointing(Own, o) - Num(Own[p] = o) + Num(x = o)
  <2>1. Redirected(Own, Own', p, x, o)
    BY <1>1, FiniteSets, Redirect
  <2> QED BY <2>1 DEF Redirected
<1>3. Pointing(ptr, o) \in Nat /\ Pointing(Own, o) \in Nat
  BY <1>1, FiniteSets, PointingIsNat DEF Types, TypeOK
<1> QED BY <1>2, <1>3 DEF Held, HeldBy, Moved, Num

\* Counts are small enough for one more, and a decrement finds at least one.
LEMMA CountFits ==
  ASSUME NEW t, Types, Counts(t), NEW o \in Objects, state[o] = "alive"
  PROVE  /\ Held(o) \in Nat /\ Owed(t, o) \in {0, 1} /\ count[o] = Held(o) + Owed(t, o)
         /\ count[o] \in Nat /\ W \in Nat /\ count[o] < W
         /\ Owed(t, o) = 0 => Inc(count, o) = [count EXCEPT ![o] = Held(o) + 1]
         /\ count[o] >= 1 => Less(count[o], 1) = count[o] - 1
<1>1. /\ Held(o) \in Nat /\ Owed(t, o) \in {0, 1} /\ count[o] = Held(o) + Owed(t, o)
      /\ Held(o) <= Cardinality(Handles) + Cardinality(Objects)
  BY HeldIsNat DEF Counts, Owed, Num
<1>2. /\ W \in Nat /\ SelfRefs \in Nat
      /\ SelfRefs + Cardinality(Handles) + Cardinality(Objects) + 1 < W
  BY CountAssumption
<1>3. /\ count[o] \in Nat /\ count[o] < W /\ Held(o) + 1 < W /\ Held(o) + 1 \in Nat
      /\ Cardinality(Handles) \in Nat /\ Cardinality(Objects) \in Nat
  BY <1>1, <1>2, FiniteSets
<1>4. (Held(o) + 1) % W = Held(o) + 1
  BY <1>2, <1>3, ModSmall
<1>5. ASSUME count[o] >= 1 PROVE Less(count[o], 1) = count[o] - 1
  <2>1. count[o] - 1 \in Nat /\ count[o] - 1 < W
    BY <1>2, <1>3, <1>5
  <2> QED BY <1>2, <2>1, ModSmall DEF Less
<1>6. ASSUME Owed(t, o) = 0 PROVE Inc(count, o) = [count EXCEPT ![o] = Held(o) + 1]
  <2>1. count[o] = Held(o)
    BY <1>1, <1>6
  <2> QED BY <1>4, <2>1 DEF Inc
<1> QED BY <1>1, <1>2, <1>3, <1>5, <1>6

LEMMA InitIInv == ASSUME NEW t, Threads = {t} PROVE Init => IInv(t)
<1> SUFFICES ASSUME Init PROVE IInv(t)
  OBVIOUS
<1>1. Types
  <2>1. 0 \in 0..W - 1 /\ 0 \in 0..SelfRefs
    BY CountAssumption, FiniteSets
  <2> DEFINE M == [obj : Objects, var : Handles] \cup {none}
             D == {<< >>} \cup {<<d>> : d \in Decs}
  <2>2. none \in M /\ << >> \in D
    OBVIOUS
  <2> HIDE DEF M, D
  <2>3. making \in [Threads -> M] /\ pend \in [Threads -> D]
    BY <2>2 DEF Init
  <2>4. TypeOK
    BY <2>1 DEF Init, TypeOK
  <2> QED BY <2>3, <2>4 DEF Types, M, D
<1>2. \A p \in Objects : Own[p] = none
  BY DEF Init, Own, Live
<1> QED BY <1>1, <1>2 DEF Init, IInv, Targets, Counts, Making, Reading


-----------------------------------------------------------------------------
(***************************************************************************)
(* Every step keeps the invariant.                                         *)
(***************************************************************************)
Makings == [obj : Objects, var : Handles] \cup {none}
Pends == {<< >>} \cup {<<d>> : d \in Decs}

LEMMA TypesAre ==
  Types <=> TypeOK /\ making \in [Threads -> Makings] /\ pend \in [Threads -> Pends]
  BY DEF Types, Makings, Pends

LEMMA OwnValues ==
  /\ \A o \in Objects : o # none /\ Dec(o) \in Decs /\ << >> # <<Dec(o)>>
  /\ \A o \in Objects, h \in Handles : [obj |-> o, var |-> h] # none
  /\ \A o \in Objects, h \in Handles : [obj |-> o, var |-> h] \in Makings
  /\ none \in Makings /\ << >> \in Pends /\ \A d \in Decs : <<d>> \in Pends
  /\ \A d \in Decs : Len(<<d>>) = 1 /\ <<d>>[1] = d /\ <<d>> # << >>
  /\ \A m \in Makings : m # none => m.obj \in Objects /\ m.var \in Handles
  BY NoneIsNoValue DEF Decs, Dec, Makings, Pends

LEMMA BeginNewKeeps ==
  ASSUME NEW t, Threads = {t}, IInv(t), NEW h \in Handles, NEW o \in Objects,
         NEW b \in Objects \cup {none}, BeginNew(t, h, o, b)
  PROVE  IInv(t)'
<1>1. /\ making[t] = none /\ pend[t] = << >> /\ rhsIn[t] = none /\ ptr[h] = none
      /\ state[o] = "raw" /\ (b # none => state[b] = "alive")
      /\ UNCHANGED <<ptr, pend, rhsIn, bad>> /\ o # none
  BY OwnValues DEF BeginNew, Idle, IInv, Targets, Of
<1>2. Types /\ Own \in [Objects -> Objects \cup {none}]
  BY OwnType DEF IInv
<1>3. /\ b # o /\ Own[o] = none
      /\ \A x \in Objects : state'[x] = IF x = o THEN "building" ELSE state[x]
      /\ \A x \in Objects : base'[x] = IF x = o THEN b ELSE base[x]
      /\ \A x \in Objects : selfs'[x] = IF x = o THEN 0 ELSE selfs[x]
      /\ making'[t] = [obj |-> o, var |-> h] /\ making'[t] # none
  BY <1>1, OwnValues DEF BeginNew, Own, Live, IInv, Types, TypeOK
<1>4. Own' = [Own EXCEPT ![o] = b]
  BY <1>3 DEF Own, Live
<1>5. \A x \in Objects : Held(x)' = Held(x) + Num(b = x)
  <2> TAKE x \in Objects
  <2>1. Held(x)' = Held(x) - Num(Own[o] = x) + Num(b = x)
    <3>1. ptr' = ptr
      BY <1>1
    <3>2. Moved(Held(x), HeldBy(ptr', Own', x), Own[o], b, x)
      BY <1>2, <1>4, <3>1, OwnMoves
    <3> QED BY <3>2 DEF Held, Moved
  <2>2. Num(Own[o] = x) = 0 /\ Held(x) \in Nat
    BY <1>2, <1>3, OwnValues, HeldIsNat DEF Num
  <2> QED BY <2>1, <2>2 DEF Num
<1>6. \A x \in Objects : count'[x] = IF x = o THEN 1 ELSE IF x = b THEN Held(x) + 1 ELSE count[x]
  <2>1. CASE b = none
    BY <1>1, <2>1, OwnValues DEF BeginNew, StartCount, IInv, Types, TypeOK
  <2>2. CASE b # none
    <3>1. b \in Objects /\ Owed(t, b) = 0
      BY <1>1, <2>2, OwnValues DEF Owed, Num
    <3>2. Inc(count, b) = [count EXCEPT ![b] = Held(b) + 1]
      BY <1>1, <1>2, <2>2, <3>1, CountFits DEF IInv
    <3> QED BY <1>1, <1>3, <2>2, <3>1, <3>2 DEF BeginNew, StartCount, IInv, Types, TypeOK
  <2> QED BY <2>1, <2>2
<1>7. Types'
  <2>1. count' \in [Objects -> 0..W - 1]
    <3>1. DOMAIN count' = Objects
      BY DEF BeginNew, Inc, IInv, Types, TypeOK
    <3>2. count' = [x \in Objects |-> count'[x]]
      BY <3>1 DEF BeginNew, Inc, IInv, Types, TypeOK
    <3>3. ASSUME NEW x \in Objects PROVE count'[x] \in 0..W - 1
      <4>1. Held(x) \in Nat /\ Held(x) + 1 < W /\ 1 < W /\ W \in Nat
        BY <1>2, HeldIsNat, CountAssumption, FiniteSets
      <4>2. count[x] \in 0..W - 1
        BY <1>2 DEF Types, TypeOK
      <4> QED BY <1>6, <4>1, <4>2
    <3> QED BY <3>2, <3>3
  <2>2. making' \in [Threads -> Makings]
    <3>1. making \in [Threads -> Makings]
      BY <1>2, TypesAre
    <3> QED BY <3>1, OwnValues DEF BeginNew
  <2>3. 0 \in 0..SelfRefs
    BY CountAssumption
  <2>4. TypeOK'
    BY <1>1, <2>1, <2>3 DEF BeginNew, IInv, Types, TypeOK
  <2> QED BY <1>1, <2>2, <2>4 DEF IInv, Types, Makings
<1>8. Targets(t)'
  <2>1. \A x \in Objects : state[x] = "alive" => state'[x] = "alive"
    BY <1>1, <1>3
  <2>2. \A p \in Objects : Own'[p] = IF p = o THEN b ELSE Own[p]
    BY <1>2, <1>4
  <2>3. \A p \in Objects : Own[p] \in Objects \cup {none}
    BY <1>2
  <2>4. \A g \in Handles : ptr[g] \in Objects \cup {none}
    BY <1>2 DEF Types, TypeOK
  <2> QED BY <1>1, <2>1, <2>2, <2>3, <2>4 DEF IInv, Targets
<1>9. Counts(t)'
  <2> SUFFICES ASSUME NEW x \in Objects, state'[x] = "alive"
               PROVE  count'[x] = Held(x)' + Owed(t, x)'
    BY DEF Counts
  <2>1. x # o /\ state[x] = "alive" /\ Owed(t, x)' = 0 /\ Owed(t, x) = 0
    BY <1>1, <1>3, OwnValues DEF Owed, Num
  <2>2. count[x] = Held(x) + 0 /\ Held(x) \in Nat
    BY <1>2, <2>1, HeldIsNat DEF IInv, Counts
  <2> QED BY <1>5, <1>6, <2>1, <2>2 DEF Num
<1>10. Making(t)'
  BY <1>1, <1>3, <1>6 DEF IInv, Making
<1> QED BY <1>1, <1>7, <1>8, <1>9, <1>10 DEF IInv, Reading

LEMMA MakeSelfRefKeeps ==
  ASSUME NEW t, Threads = {t}, IInv(t), MakeSelfRef(t)
  PROVE  IInv(t)'
<1> DEFINE o == making[t].obj
<1>1. /\ making[t] # none /\ selfs[o] < SelfRefs /\ selfs' = [selfs EXCEPT ![o] = @ + 1]
      /\ count' = Inc(count, o)
      /\ UNCHANGED <<state, base, ptr, making, pend, rhsIn, bad>>
  BY DEF MakeSelfRef
<1>2. /\ o \in Objects /\ state[o] = "building" /\ count[o] = 1 + selfs[o]
      /\ pend[t] = << >> /\ rhsIn[t] = none
  BY <1>1, TypesAre, OwnValues DEF IInv, Making
<1>3. selfs[o] \in Nat /\ selfs[o] + 1 \in 0..SelfRefs /\ SelfRefs \in Nat /\ W \in Nat
  BY <1>1, <1>2, CountAssumption DEF IInv, Types, TypeOK
<1>4. (count[o] + 1) % W = count[o] + 1 /\ count[o] + 1 \in 0..W - 1
  <2>1. count[o] + 1 \in Nat /\ count[o] + 1 < W
    <3> HIDE DEF o
    <3>1. SelfRefs + Cardinality(Handles) + Cardinality(Objects) + 1 < W
      BY CountAssumption
    <3> QED BY <1>1, <1>2, <1>3, <3>1, FiniteSets
  <2> QED BY <1>3, <2>1, ModSmall
<1>5. /\ \A x \in Objects : count'[x] = IF x = o THEN count[o] + 1 ELSE count[x]
      /\ selfs'[o] = selfs[o] + 1
  BY <1>1, <1>2, <1>4 DEF Inc, IInv, Types, TypeOK
<1> HIDE DEF o
<1>6. Own' = Own
  BY <1>1 DEF Own, Live
<1>7. \A x : Held(x)' = Held(x)
  BY <1>1, <1>6 DEF Held
<1>8. Types'
  BY <1>1, <1>2, <1>3, <1>4 DEF IInv, Types, TypeOK, Inc
<1>9. Targets(t)'
  BY <1>1, <1>6 DEF IInv, Targets
<1>10. Counts(t)'
  BY <1>1, <1>2, <1>5, <1>7 DEF IInv, Counts, Owed
<1>11. Making(t)'
  BY <1>1, <1>2, <1>3, <1>5 DEF IInv, Making, o
<1> QED BY <1>1, <1>2, <1>8, <1>9, <1>10, <1>11 DEF IInv, Reading

LEMMA BuildThrowsKeeps ==
  ASSUME NEW t, Threads = {t}, IInv(t), BuildThrows(t)
  PROVE  IInv(t)'
<1> DEFINE o == making[t].obj
           b == base[o]
<1>1. /\ making[t] # none /\ UNCHANGED <<ptr, rhsIn>>
      /\ bad' = (bad \/ 0 \in (count[o] - selfs[o]) .. (count[o] + 1))
      /\ state' = [state EXCEPT ![o] = "raw"] /\ count' = [count EXCEPT ![o] = 0]
      /\ selfs' = [selfs EXCEPT ![o] = 0] /\ base' = [base EXCEPT ![o] = none]
      /\ pend' = [pend EXCEPT ![t] = IF b = none THEN << >> ELSE <<Dec(b)>>]
      /\ making' = [making EXCEPT ![t] = none]
  BY DEF BuildThrows
<1>2. /\ o \in Objects /\ state[o] = "building" /\ count[o] = 1 + selfs[o]
      /\ pend[t] = << >> /\ rhsIn[t] = none
  BY <1>1, TypesAre, OwnValues DEF IInv, Making
<1>3. Types /\ Own \in [Objects -> Objects \cup {none}] /\ b \in Objects \cup {none}
  BY <1>2, OwnType DEF IInv, Types, TypeOK
<1>4. Own[o] = b /\ (b # none => b \in Objects /\ state[b] = "alive" /\ b # o)
  BY <1>2, <1>3 DEF Own, Live, IInv, Targets
<1> HIDE DEF b
<1>5. ~bad'
  <2>1. selfs[o] \in Nat
    BY <1>2, CountAssumption DEF IInv, Types, TypeOK
  <2>2. count[o] - selfs[o] = 1 /\ count[o] + 1 \in Nat
    BY <1>2, <2>1
  <2>3. 0 \notin (count[o] - selfs[o]) .. (count[o] + 1)
    BY <2>2
  <2> QED BY <1>1, <2>3 DEF IInv
<1> HIDE DEF o
<1>6. /\ \A x \in Objects : state'[x] = IF x = o THEN "raw" ELSE state[x]
      /\ \A x \in Objects : base'[x] = IF x = o THEN none ELSE base[x]
      /\ \A x \in Objects : count'[x] = IF x = o THEN 0 ELSE count[x]
      /\ making'[t] = none /\ rhsIn'[t] = none
      /\ pend'[t] = IF b = none THEN << >> ELSE <<Dec(b)>>
  BY <1>1, <1>2 DEF IInv, Types, TypeOK
<1>7. Own' = [Own EXCEPT ![o] = none]
  BY <1>6 DEF Own, Live
<1>8. \A x \in Objects : Held(x)' = Held(x) - Num(b = x)
  <2> TAKE x \in Objects
  <2>1. Held(x)' = Held(x) - Num(b = x) + Num(none = x)
    <3>1. ptr' = ptr
      BY <1>1
    <3>2. Moved(Held(x), HeldBy(ptr', Own', x), Own[o], none, x)
      BY <1>2, <1>3, <1>7, <3>1, OwnMoves
    <3> QED BY <1>4, <3>2 DEF Held, Moved
  <2>2. Held(x) \in Nat /\ Num(none = x) = 0
    BY <1>3, HeldIsNat, OwnValues DEF Num
  <2> QED BY <2>1, <2>2 DEF Num
<1>9. Types'
  <2>1. making' \in [Threads -> Makings] /\ pend' \in [Threads -> Pends]
    BY <1>1, <1>3, <1>4, TypesAre, OwnValues
  <2>2. 0 \in 0..SelfRefs /\ 0 \in 0..W - 1
    BY CountAssumption, FiniteSets
  <2>3. TypeOK'
    BY <1>1, <1>2, <1>3, <1>5, <2>2 DEF Types, TypeOK
  <2> QED BY <2>1, <2>3 DEF Types, Makings, Pends
<1>10. Targets(t)'
  <2>1. \A x \in Objects : state[x] = "alive" => state'[x] = "alive"
    BY <1>2, <1>6
  <2>2. \A p \in Objects : Own'[p] = IF p = o THEN none ELSE Own[p]
    BY <1>3, <1>7
  <2>3. \A p \in Objects : Own[p] \in Objects \cup {none}
    BY <1>3
  <2>4. \A g \in Handles : ptr[g] \in Objects \cup {none}
    BY <1>3 DEF Types, TypeOK
  <2>5. pend'[t] # << >> => pend'[t][1].obj = b /\ b # none
    BY <1>4, <1>6, OwnValues DEF Dec
  <2> QED BY <1>1, <1>4, <2>1, <2>2, <2>3, <2>4, <2>5 DEF IInv, Targets
<1>11. Counts(t)'
  <2> SUFFICES ASSUME NEW x \in Objects, state'[x] = "alive"
               PROVE  count'[x] = Held(x)' + Owed(t, x)'
    BY DEF Counts
  <2>1. x # o /\ state[x] = "alive" /\ Owed(t, x) = 0
    BY <1>2, <1>6, OwnValues DEF Owed, Num
  <2>2. count[x] = Held(x) + 0 /\ Held(x) \in Nat
    BY <1>3, <2>1, HeldIsNat DEF IInv, Counts
  <2>3. Owed(t, x)' = Num(b = x)
    BY <1>3, <1>4, <1>6, OwnValues DEF Owed, Num, Dec
  <2> QED BY <1>6, <1>8, <2>1, <2>2, <2>3 DEF Num
<1>12. Making(t)'
  BY <1>1, <1>6, OwnValues DEF IInv, Making, o
<1> QED BY <1>5, <1>6, <1>9, <1>10, <1>11, <1>12 DEF IInv, Reading

LEMMA EndNewKeeps ==
  ASSUME NEW t, Threads = {t}, IInv(t), EndNew(t)
  PROVE  IInv(t)'
<1> DEFINE o == making[t].obj
           h == making[t].var
<1>1. /\ making[t] # none /\ count' = [count EXCEPT ![o] = 1]
      /\ state' = [state EXCEPT ![o] = "alive"] /\ ptr' = [ptr EXCEPT ![h] = o]
      /\ making' = [making EXCEPT ![t] = none]
      /\ UNCHANGED <<base, selfs, pend, rhsIn, bad>>
  BY DEF EndNew, CountWhenMade
<1>2. /\ o \in Objects /\ h \in Handles /\ state[o] = "building" /\ ptr[h] = none
      /\ pend[t] = << >> /\ rhsIn[t] = none
  BY <1>1, TypesAre, OwnValues DEF IInv, Making
<1>3. Types /\ ptr \in [Handles -> Objects \cup {none}] /\ Own \in [Objects -> Objects \cup {none}]
  BY OwnType DEF IInv, Types, TypeOK
<1>4. Making(t)'
  <2>1. making'[t] = none
    BY <1>1 DEF IInv, Types
  <2>2. \A x \in Objects : state[x] = "building" => x = o
    BY DEF IInv, Making
  <2> QED BY <1>1, <1>2, <2>1, <2>2 DEF IInv, Making, Types, TypeOK
<1> HIDE DEF o, h
<1>5. /\ \A x \in Objects : state'[x] = IF x = o THEN "alive" ELSE state[x]
      /\ \A x \in Objects : count'[x] = IF x = o THEN 1 ELSE count[x]
      /\ making'[t] = none /\ rhsIn'[t] = none /\ pend'[t] = << >>
  BY <1>1, <1>2 DEF IInv, Types, TypeOK
<1>6. Own' = Own
  BY <1>1, <1>2, <1>5 DEF Own, Live
<1>7. \A x \in Objects : Held(x)' = Held(x) + Num(o = x)
  <2> TAKE x \in Objects
  <2>1. Moved(Held(x), HeldBy(ptr', Own', x), ptr[h], o, x)
    BY <1>1, <1>2, <1>3, <1>6, PtrMoves
  <2>2. Held(x) \in Nat /\ Num(none = x) = 0
    BY <1>3, HeldIsNat, OwnValues DEF Num
  <2> QED BY <1>2, <2>1, <2>2 DEF Held, Moved, Num
<1>8. Held(o) = 0
  <2>1. (\A g \in Handles : ptr[g] # o) /\ (\A p \in Objects : Own[p] # o)
    BY <1>2, OwnValues DEF IInv, Targets
  <2> QED BY <1>3, <2>1, HeldIsNat
<1>9. Types'
  <2>1. making' \in [Threads -> Makings]
    BY <1>1, <1>3, TypesAre, OwnValues
  <2>2. 1 \in 0..W - 1
    BY CountAssumption, FiniteSets
  <2>3. TypeOK'
    BY <1>1, <1>2, <1>3, <2>2 DEF Types, TypeOK
  <2> QED BY <1>1, <1>3, <2>1, <2>3 DEF Types, Makings
<1>10. Targets(t)'
  <2>1. \A x \in Objects : state[x] = "alive" => state'[x] = "alive"
    BY <1>5
  <2>2. \A g \in Handles : ptr'[g] = IF g = h THEN o ELSE ptr[g]
    BY <1>1, <1>3
  <2>3. \A p \in Objects : Own[p] \in Objects \cup {none}
    BY <1>3
  <2>4. \A g \in Handles : ptr[g] \in Objects \cup {none}
    BY <1>3
  <2> QED BY <1>2, <1>5, <1>6, <2>1, <2>2, <2>3, <2>4 DEF IInv, Targets
<1>11. Counts(t)'
  <2> SUFFICES ASSUME NEW x \in Objects, state'[x] = "alive"
               PROVE  count'[x] = Held(x)' + Owed(t, x)'
    BY DEF Counts
  <2>1. Owed(t, x)' = 0 /\ Owed(t, x) = 0 /\ Held(x) \in Nat
    BY <1>2, <1>3, <1>5, OwnValues, HeldIsNat DEF Owed, Num
  <2>2. x # o => count[x] = Held(x) + 0
    BY <1>5, <2>1 DEF IInv, Counts
  <2> QED BY <1>5, <1>7, <1>8, <2>1, <2>2 DEF Num
<1> QED BY <1>1, <1>4, <1>5, <1>9, <1>10, <1>11 DEF IInv, Reading

\* What an idle thread knows.
LEMMA WhenIdle ==
  ASSUME NEW t, Threads = {t}, IInv(t), Idle(t)
  PROVE  /\ making[t] = none /\ pend[t] = << >> /\ rhsIn[t] = none
         /\ \A x \in Objects : state[x] # "building" /\ Owed(t, x) = 0 /\ Held(x) \in Nat
         /\ \A x \in Objects : state[x] = "alive" => count[x] = Held(x)
         /\ \A h \in Handles : ptr[h] # none => ptr[h] \in Objects /\ state[ptr[h]] = "alive"
<1>1. making[t] = none /\ pend[t] = << >> /\ rhsIn[t] = none
  BY DEF Idle
<1>2. \A x \in Objects : state[x] # "building" /\ Owed(t, x) = 0 /\ Held(x) \in Nat
  BY <1>1, OwnValues, HeldIsNat DEF IInv, Making, Owed, Num
<1>3. \A x \in Objects : state[x] = "alive" => count[x] = Held(x)
  BY <1>2 DEF IInv, Counts
<1>4. \A h \in Handles : ptr[h] # none => ptr[h] \in Objects /\ state[ptr[h]] = "alive"
  BY DEF IInv, Targets, Types, TypeOK
<1> QED BY <1>1, <1>2, <1>3, <1>4

\* An idle thread lets its variable h point to x instead, and starts the
\* decrements s; the counts c are what that asks for.
CountsAfter(c, h, x, s) ==
  \A y \in Objects : state[y] = "alive" =>
    c[y] = Held(y) - Num(ptr[h] = y) + Num(x = y) + Num(s = <<Dec(y)>>)

Rest(t) == Types /\ Targets(t) /\ Counts(t) /\ Making(t) /\ ~bad

LEMMA RedirectKeeps ==
  ASSUME NEW t, Threads = {t}, IInv(t), Idle(t), NEW h \in Handles,
         NEW x \in Objects \cup {none}, x # none => state[x] = "alive",
         NEW s, s = << >> \/ (ptr[h] # none /\ s = <<Dec(ptr[h])>>),
         UNCHANGED <<state, base, selfs, making, bad>>,
         ptr' = [ptr EXCEPT ![h] = x], pend' = [pend EXCEPT ![t] = s],
         count' \in [Objects -> 0..W - 1], CountsAfter(count', h, x, s),
         rhsIn' \in [Threads -> Objects \cup {none}]
  PROVE  /\ Rest(t)'
         /\ \A y \in Objects : Moved(Held(y), HeldBy(ptr', Own', y), ptr[h], x, y)
<1>1. /\ making[t] = none /\ pend[t] = << >>
      /\ \A y \in Objects : state[y] # "building" /\ Held(y) \in Nat
      /\ \A g \in Handles : ptr[g] # none => ptr[g] \in Objects /\ state[ptr[g]] = "alive"
  BY WhenIdle
<1>2. Types /\ ptr \in [Handles -> Objects \cup {none}] /\ Own \in [Objects -> Objects \cup {none}]
  BY OwnType DEF IInv, Types, TypeOK
<1>3. Own' = Own
  BY DEF Own, Live
<1>4. \A y \in Objects : Moved(Held(y), HeldBy(ptr', Own', y), ptr[h], x, y)
  BY <1>2, <1>3, PtrMoves
<1>5. pend'[t] = s /\ making'[t] = none
  BY <1>1, <1>2 DEF Types
<1>6. Types'
  <2>1. s \in Pends
    BY <1>1, OwnValues
  <2>2. pend' \in [Threads -> Pends] /\ making' \in [Threads -> Makings]
    BY <1>2, <2>1, TypesAre
  <2>3. TypeOK'
    BY <1>2 DEF Types, TypeOK
  <2> QED BY <2>2, <2>3 DEF Types, Makings, Pends
<1>7. Targets(t)'
  <2>1. \A g \in Handles : ptr'[g] = IF g = h THEN x ELSE ptr[g]
    BY <1>2
  <2>2. s # << >> => s[1].obj = ptr[h] /\ ptr[h] # none
    BY <1>1, OwnValues DEF Dec
  <2> QED BY <1>1, <1>3, <1>5, <2>1, <2>2 DEF IInv, Targets
<1>8. Counts(t)'
  <2> SUFFICES ASSUME NEW y \in Objects, state'[y] = "alive"
               PROVE  count'[y] = Held(y)' + Owed(t, y)'
    BY DEF Counts
  <2>1. count'[y] = Held(y) - Num(ptr[h] = y) + Num(x = y) + Num(s = <<Dec(y)>>)
    BY DEF CountsAfter
  <2>2. Held(y)' = Held(y) - Num(ptr[h] = y) + Num(x = y)
    BY <1>4 DEF Moved, Held
  <2>3. Owed(t, y)' = Num(s = <<Dec(y)>>)
    BY <1>5 DEF Owed
  <2> QED BY <2>1, <2>2, <2>3
<1>9. Making(t)'
  BY <1>1, <1>5 DEF IInv, Making
<1> QED BY <1>4, <1>6, <1>7, <1>8, <1>9 DEF Rest, IInv

\* The counts that one more pointer to b asks for.
LEMMA CountsRaised ==
  ASSUME NEW t, Threads = {t}, IInv(t), Idle(t), NEW b \in Objects, state[b] = "alive",
         count' = Inc(count, b)
  PROVE  /\ count' \in [Objects -> 0..W - 1]
         /\ \A y \in Objects : state[y] = "alive" => count'[y] = Held(y) + Num(b = y)
<1>1. /\ \A y \in Objects : Owed(t, y) = 0 /\ Held(y) \in Nat
      /\ \A y \in Objects : state[y] = "alive" => count[y] = Held(y)
  BY WhenIdle
<1>2. Types /\ count \in [Objects -> 0..W - 1]
  BY DEF IInv, Types, TypeOK
<1>3. Inc(count, b) = [count EXCEPT ![b] = Held(b) + 1]
  BY <1>1, <1>2, CountFits DEF IInv
<1>4. Held(b) + 1 \in 0..W - 1
  <2>1. SelfRefs + Cardinality(Handles) + Cardinality(Objects) + 1 < W /\ SelfRefs \in Nat /\ W \in Nat
    BY CountAssumption
  <2>2. Held(b) \in Nat /\ Held(b) <= Cardinality(Handles) + Cardinality(Objects)
    BY <1>2, HeldIsNat
  <2> QED BY <2>1, <2>2, FiniteSets
<1>5. \A y \in Objects : count'[y] = IF y = b THEN Held(b) + 1 ELSE count[y]
  BY <1>2, <1>3
<1> QED BY <1>1, <1>2, <1>3, <1>4, <1>5 DEF Num

LEMMA CopyKeeps ==
  ASSUME NEW t, Threads = {t}, IInv(t), NEW h \in Handles, NEW g \in Handles, Copy(t, h, g)
  PROVE  IInv(t)'
<1> DEFINE o == ptr[g]
<1>1. /\ Idle(t) /\ o # none /\ ptr[h] = none /\ count' = Inc(count, o)
      /\ ptr' = [ptr EXCEPT ![h] = o]
      /\ UNCHANGED <<state, base, selfs, making, pend, rhsIn, bad>>
  BY DEF Copy
<1>2. /\ o \in Objects /\ state[o] = "alive" /\ pend[t] = << >> /\ rhsIn[t] = none
      /\ \A y \in Objects : Held(y) \in Nat
  BY <1>1, WhenIdle
<1> HIDE DEF o
<1>3. /\ count' \in [Objects -> 0..W - 1]
      /\ \A y \in Objects : state[y] = "alive" => count'[y] = Held(y) + Num(o = y)
  BY <1>1, <1>2, CountsRaised
<1>4. CountsAfter(count', h, o, << >>)
  BY <1>1, <1>2, <1>3, OwnValues DEF CountsAfter, Num
<1>5. pend' = [pend EXCEPT ![t] = << >>] /\ rhsIn' \in [Threads -> Objects \cup {none}]
  BY <1>1, <1>2 DEF IInv, Types, TypeOK
<1>6. Rest(t)'
  BY <1>1, <1>2, <1>3, <1>4, <1>5, RedirectKeeps
<1> QED BY <1>1, <1>2, <1>6 DEF IInv, Rest, Reading

LEMMA DestroyKeeps ==
  ASSUME NEW t, Threads = {t}, IInv(t), NEW h \in Handles, Destroy(t, h)
  PROVE  IInv(t)'
<1> DEFINE o == ptr[h]
           s == <<Dec(o)>>
<1>1. /\ Idle(t) /\ o # none /\ pend' = [pend EXCEPT ![t] = s]
      /\ ptr' = [ptr EXCEPT ![h] = none]
      /\ UNCHANGED <<state, count, base, selfs, making, rhsIn, bad>>
  BY DEF Destroy, Of
<1>2. /\ o \in Objects /\ state[o] = "alive" /\ rhsIn[t] = none
      /\ \A y \in Objects : Held(y) \in Nat
      /\ \A y \in Objects : state[y] = "alive" => count[y] = Held(y)
  BY <1>1, WhenIdle
<1>3. \A y : s = <<Dec(y)>> <=> o = y
  BY DEF Dec
<1>4. CountsAfter(count', h, none, s)
  BY <1>1, <1>2, <1>3, OwnValues DEF CountsAfter, Num
<1>5. /\ count' \in [Objects -> 0..W - 1] /\ rhsIn' \in [Threads -> Objects \cup {none}]
  BY <1>1, <1>2 DEF IInv, Types, TypeOK
<1>6. Rest(t)'
  BY <1>1, <1>2, <1>4, <1>5, RedirectKeeps
<1> QED BY <1>1, <1>2, <1>6 DEF IInv, Rest, Reading

LEMMA mySwapKeeps ==
  ASSUME NEW t, Threads = {t}, IInv(t), NEW h \in Handles, NEW g \in Handles, mySwap(t, h, g)
  PROVE  IInv(t)'
<1> DEFINE q == [ptr EXCEPT ![h] = ptr[g]]
<1>1. /\ Idle(t) /\ ptr[h] # none /\ ptr[g] # none
      /\ ptr' = [ptr EXCEPT ![h] = ptr[g], ![g] = ptr[h]]
      /\ UNCHANGED <<state, count, base, selfs, making, pend, rhsIn, bad>>
  BY DEF mySwap
<1>2. Types /\ ptr \in [Handles -> Objects \cup {none}] /\ Own \in [Objects -> Objects \cup {none}]
  BY OwnType DEF IInv, Types, TypeOK
<1>3. Own' = Own
  BY <1>1 DEF Own, Live
<1>4. \A x \in Objects : Held(x)' = Held(x)
  <2> TAKE x \in Objects
  <2>1. /\ q \in [Handles -> Objects \cup {none}] /\ q[g] = ptr[g]
        /\ ptr' = [q EXCEPT ![g] = ptr[h]]
    BY <1>1, <1>2
  <2>2. Redirected(ptr, q, h, ptr[g], x)
    BY <1>2, FiniteSets, Redirect
  <2> HIDE DEF q
  <2>3. Redirected(q, ptr', g, ptr[h], x)
    BY <2>1, FiniteSets, Redirect
  <2>4. Pointing(ptr, x) \in Nat /\ Pointing(q, x) \in Nat
    BY <1>2, <2>1, FiniteSets, PointingIsNat
  <2>5. Pointing(ptr', x) = Pointing(ptr, x)
    BY <2>1, <2>2, <2>3, <2>4 DEF Redirected, Num
  <2> QED BY <1>3, <2>5 DEF Held, HeldBy
<1>5. \A f \in Handles : \E e \in Handles : ptr'[f] = ptr[e]
  BY <1>1, <1>2
<1>6. Types'
  BY <1>1, <1>2 DEF Types, TypeOK
<1>7. Targets(t)'
  <2>1. \A f \in Handles : ptr'[f] # none => state[ptr'[f]] = "alive"
    BY <1>5 DEF IInv, Targets
  <2> QED BY <1>1, <1>3, <2>1 DEF IInv, Targets
<1>8. Counts(t)'
  BY <1>1, <1>4 DEF IInv, Counts, Owed
<1>9. Making(t)'
  BY <1>1, WhenIdle DEF IInv, Making
<1>10. Reading(t)'
  BY <1>1, WhenIdle DEF Reading
<1> QED BY <1>1, <1>6, <1>7, <1>8, <1>9, <1>10 DEF IInv

LEMMA AssignKeeps ==
  ASSUME NEW t, Threads = {t}, IInv(t), NEW h \in Handles, NEW g \in Handles, Assign(t, h, g)
  PROVE  IInv(t)'
<1> DEFINE o == ptr[h]
           b == ptr[g]
           s == <<Dec(o)>>
<1>1. /\ Idle(t) /\ o # none /\ b # none /\ pend' = [pend EXCEPT ![t] = s]
      /\ ptr' = [ptr EXCEPT ![h] = b] /\ count' = Inc(count, b)
      /\ UNCHANGED <<state, base, selfs, making, rhsIn, bad>>
  BY DEF Assign, CountAtDec
<1>2. /\ o \in Objects /\ b \in Objects /\ state[b] = "alive" /\ rhsIn[t] = none
      /\ \A y \in Objects : Held(y) \in Nat
  BY <1>1, WhenIdle
<1> HIDE DEF b
<1>3. \A y : s = <<Dec(y)>> <=> o = y
  BY DEF Dec
<1>4. /\ count' \in [Objects -> 0..W - 1]
      /\ \A y \in Objects : state[y] = "alive" => count'[y] = Held(y) + Num(b = y)
  BY <1>1, <1>2, CountsRaised
<1>5. CountsAfter(count', h, b, s)
  BY <1>1, <1>2, <1>3, <1>4 DEF CountsAfter, Num
<1>6. rhsIn' \in [Threads -> Objects \cup {none}]
  BY <1>1 DEF IInv, Types, TypeOK
<1>7. Rest(t)'
  BY <1>1, <1>2, <1>4, <1>5, <1>6, RedirectKeeps
<1> QED BY <1>1, <1>2, <1>7 DEF IInv, Rest, Reading

\* h lets go of an object that something else holds too: this is where
\* SoleRebase = FALSE is needed.
LEMMA AssignBaseKeeps ==
  ASSUME NEW t, Threads = {t}, SoleRebase = FALSE, IInv(t), NEW h \in Handles, AssignBase(t, h)
  PROVE  IInv(t)'
<1>1. PICK o \in Objects :
        /\ Idle(t) /\ ptr[h] = o /\ base[o] # none /\ count[o] > 1 /\ state[o] = "alive"
        /\ pend' = [pend EXCEPT ![t] = <<Dec(o)>>]
        /\ ptr' = [ptr EXCEPT ![h] = base[o]] /\ count' = Inc(count, base[o])
        /\ rhsIn' = [rhsIn EXCEPT ![t] = o]
        /\ UNCHANGED <<state, base, selfs, making, bad>>
  <2>1. Idle(t) /\ ptr[h] # none
    BY DEF AssignBase
  <2>2. ptr[h] \in Objects /\ state[ptr[h]] = "alive"
    BY <2>1, WhenIdle
  <2> QED BY <2>1, <2>2 DEF AssignBase, CountAtDec
<1> DEFINE b == base[o]
           s == <<Dec(o)>>
<1>2. /\ o \in Objects /\ state[o] = "alive"
      /\ \A y \in Objects : Held(y) \in Nat
      /\ count[o] = Held(o)
  BY <1>1, WhenIdle
<1>3. b \in Objects /\ state[b] = "alive"
  <2>1. Own[o] = b /\ b \in Objects
    BY <1>1, <1>2 DEF Own, Live, IInv, Types, TypeOK
  <2> QED BY <1>1, <1>2, <2>1 DEF IInv, Targets
<1>4. /\ count' = Inc(count, b) /\ ptr' = [ptr EXCEPT ![h] = b]
       /\ pend' = [pend EXCEPT ![t] = s] /\ s = <<Dec(ptr[h])>> /\ ptr[h] # none
  BY <1>1, OwnValues
<1> HIDE DEF b
<1>5. \A y : s = <<Dec(y)>> <=> o = y
  BY DEF Dec
<1>6. /\ count' \in [Objects -> 0..W - 1]
      /\ \A y \in Objects : state[y] = "alive" => count'[y] = Held(y) + Num(b = y)
  BY <1>1, <1>3, <1>4, CountsRaised
<1>7. CountsAfter(count', h, b, s)
  BY <1>1, <1>2, <1>5, <1>6 DEF CountsAfter, Num
<1>8. /\ rhsIn' \in [Threads -> Objects \cup {none}] /\ rhsIn'[t] = o
      /\ pend'[t] = s /\ state'[o] = "alive"
  BY <1>1, <1>2 DEF IInv, Types, TypeOK
<1>9. s[1].obj = o
  BY DEF Dec
<1> HIDE DEF s
<1>10. /\ Rest(t)'
      /\ \A y \in Objects : Moved(Held(y), HeldBy(ptr', Own', y), ptr[h], b, y)
  BY <1>1, <1>3, <1>6, <1>7, <1>8, <1>4, RedirectKeeps
<1>11. Held(o)' >= 1
  <2>1. Moved(Held(o), HeldBy(ptr', Own', o), o, b, o)
    BY <1>1, <1>2, <1>10
  <2>2. Held(o)' = Held(o) - 1 + Num(b = o)
    BY <2>1 DEF Moved, Held, Num
  <2> QED BY <1>1, <1>2, <2>2 DEF Num
<1>12. Reading(t)'
  BY <1>8, <1>9, <1>11 DEF Reading
<1> QED BY <1>10, <1>12 DEF IInv, Rest

LEMMA EndAssignBaseKeeps ==
  ASSUME NEW t, Threads = {t}, IInv(t), EndAssignBase(t)
  PROVE  IInv(t)'
<1>1. /\ rhsIn[t] # none /\ state[rhsIn[t]] = "alive"
      /\ bad' = (bad \/ state[rhsIn[t]] = "deleted") /\ rhsIn' = [rhsIn EXCEPT ![t] = none]
      /\ UNCHANGED <<state, count, base, selfs, ptr, making, pend>>
  BY DEF EndAssignBase, IInv, Reading
<1>2. ~bad' /\ rhsIn'[t] = none
  BY <1>1 DEF IInv, Types, TypeOK
<1>3. Own' = Own
  BY <1>1 DEF Own, Live
<1>4. \A x \in Objects : Held(x)' = Held(x)
  BY <1>1, <1>3 DEF Held
<1>5. Types'
  BY <1>1, <1>2 DEF IInv, Types, TypeOK
<1>6. Targets(t)' /\ Making(t)'
  BY <1>1, <1>2, <1>3 DEF IInv, Targets, Making
<1>7. Counts(t)'
  BY <1>1, <1>4 DEF IInv, Counts, Owed
<1> QED BY <1>2, <1>5, <1>6, <1>7 DEF IInv, Reading

-----------------------------------------------------------------------------
\* The decrement in progress is the only one.
LEMMA Pending ==
  ASSUME NEW t, Threads = {t}, IInv(t), pend[t] # << >>
  PROVE  /\ pend[t] = <<Inner(t)>> /\ Outer(t) = << >> /\ Inner(t) \in Decs
         /\ Inner(t).obj \in Objects /\ state[Inner(t).obj] = "alive" /\ making[t] = none
         /\ rhsIn[t] # none => rhsIn[t] = Inner(t).obj /\ Held(rhsIn[t]) >= 1
<1>1. PICK d \in Decs : pend[t] = <<d>>
  BY TypesAre DEF IInv, Pends
<1>2. Inner(t) = d /\ Outer(t) = << >> /\ pend[t][1] = d
  BY <1>1 DEF Inner, Outer
<1> QED BY <1>1, <1>2 DEF IInv, Targets, Making, Reading, Decs

LEMMA SubtractKeeps ==
  ASSUME NEW t, Threads = {t}, IInv(t), Subtract(t)
  PROVE  IInv(t)'
<1> DEFINE o == Inner(t).obj
           d == [obj |-> o, stage |-> "test"]
<1>1. /\ pend[t] # << >> /\ Inner(t).stage = "subtract"
      /\ bad' = (bad \/ state[o] = "deleted") /\ count' = [count EXCEPT ![o] = Less(@, 1)]
      /\ pend' = [pend EXCEPT ![t] = Append(Outer(t), d)]
      /\ UNCHANGED <<state, base, selfs, ptr, making, rhsIn>>
  BY DEF Subtract
<1>2. /\ pend[t] = <<Dec(o)>> /\ Outer(t) = << >> /\ making[t] = none
      /\ o \in Objects /\ state[o] = "alive"
      /\ rhsIn[t] # none => rhsIn[t] = o
  <2>1. Inner(t) = Dec(o)
    BY <1>1, Pending DEF Dec, Decs
  <2> QED BY <1>1, <2>1, Pending
<1> HIDE DEF o
<1>3. pend' = [pend EXCEPT ![t] = <<d>>] /\ d \in Decs /\ <<d>> \in Pends /\ <<d>>[1].obj = o
  BY <1>1, <1>2 DEF Decs, Pends
<1>4. \A x : <<d>> # <<Dec(x)>>
  BY DEF Dec
<1>5. d.obj = o
  OBVIOUS
<1> HIDE DEF d
<1>6. Own' = Own
  BY <1>1 DEF Own, Live
<1>7. \A x \in Objects : Held(x)' = Held(x)
  BY <1>1, <1>6 DEF Held
<1>8. \A x \in Objects : Owed(t, x) = Num(x = o) /\ Held(x) \in Nat
  BY <1>2, HeldIsNat DEF Owed, Dec, IInv, Num
<1>9. count' = [count EXCEPT ![o] = Held(o)] /\ Held(o) \in 0..W - 1
  <2>1. count[o] = Held(o) + 1 /\ Held(o) \in Nat
    BY <1>2, <1>8 DEF IInv, Counts, Num
  <2>2. W \in Nat /\ count[o] < W /\ (count[o] >= 1 => Less(count[o], 1) = count[o] - 1)
    BY <1>2, CountFits DEF IInv
  <2>3. Less(count[o], 1) = Held(o) /\ Held(o) \in 0..W - 1
    BY <2>1, <2>2
  <2> QED BY <1>1, <2>3
<1>10. pend'[t] = <<d>>
  BY <1>3 DEF IInv, Types
<1>11. Types'
  <2>1. pend' \in [Threads -> Pends]
    BY <1>3, TypesAre DEF IInv
  <2>2. TypeOK'
    BY <1>1, <1>2, <1>9 DEF IInv, Types, TypeOK
  <2> QED BY <1>1, <2>1, <2>2 DEF IInv, Types, Pends
<1>12. Targets(t)'
  BY <1>1, <1>2, <1>3, <1>6, <1>10 DEF IInv, Targets
<1>13. Counts(t)'
  <2> SUFFICES ASSUME NEW x \in Objects, state'[x] = "alive"
               PROVE  count'[x] = Held(x)' + Owed(t, x)'
    BY DEF Counts
  <2>1. count'[x] = IF x = o THEN Held(o) ELSE count[x]
    BY <1>2, <1>9 DEF IInv, Types, TypeOK
  <2>2. Owed(t, x)' = 0
    BY <1>4, <1>10 DEF Owed, Num
  <2>3. count[x] = Held(x) + Num(x = o)
    BY <1>1, <1>8 DEF IInv, Counts
  <2> QED BY <1>7, <1>8, <2>1, <2>2, <2>3 DEF Num
<1>14. Making(t)'
  BY <1>1, <1>2 DEF IInv, Making
<1>15. Reading(t)'
  BY <1>1, <1>2, <1>3, <1>7, <1>10 DEF IInv, Reading
<1> QED BY <1>1, <1>2, <1>11, <1>12, <1>13, <1>14, <1>15 DEF IInv

LEMMA TestLiveKeeps ==
  ASSUME NEW t, Threads = {t}, IInv(t), TestLive(t)
  PROVE  IInv(t)'
<1>1. /\ pend[t] # << >> /\ Inner(t).stage = "test"
      /\ bad' = (bad \/ state[Inner(t).obj] = "deleted")
      /\ pend' = [pend EXCEPT ![t] = Outer(t)]
      /\ UNCHANGED <<state, count, base, selfs, ptr, making, rhsIn>>
  BY DEF TestLive
<1>2. /\ pend[t] = <<Inner(t)>> /\ Outer(t) = << >> /\ making[t] = none
      /\ state[Inner(t).obj] = "alive"
  BY <1>1, Pending
<1>3. \A x : <<Inner(t)>> # <<Dec(x)>>
  BY <1>1 DEF Dec
<1>4. pend'[t] = << >> /\ pend' = [pend EXCEPT ![t] = << >>] /\ << >> \in Pends
  BY <1>1, <1>2, OwnValues DEF IInv, Types
<1>5. \A x \in Objects : Owed(t, x)' = Owed(t, x)
  BY <1>2, <1>3, <1>4, OwnValues DEF Owed, Num
<1>6. Own' = Own
  BY <1>1 DEF Own, Live
<1>7. \A x \in Objects : Held(x)' = Held(x)
  BY <1>1, <1>6 DEF Held
<1>8. ~bad'
  BY <1>1, <1>2 DEF IInv
<1>9. Types'
  <2>1. pend' \in [Threads -> Pends]
    BY <1>4, TypesAre DEF IInv
  <2> QED BY <1>1, <1>8, <2>1 DEF IInv, Types, TypeOK, Pends
<1>10. Targets(t)' /\ Making(t)'
  BY <1>1, <1>2, <1>4, <1>6 DEF IInv, Targets, Making
<1>11. Counts(t)'
  BY <1>1, <1>5, <1>7 DEF IInv, Counts
<1>12. Reading(t)'
  <2>1. rhsIn[t] # none => rhsIn[t] \in Objects
    BY DEF IInv, Types, TypeOK
  <2> QED BY <1>1, <1>4, <1>7, <2>1 DEF IInv, Reading
<1> QED BY <1>8, <1>9, <1>10, <1>11, <1>12 DEF IInv

LEMMA TestDeadKeeps ==
  ASSUME NEW t, Threads = {t}, IInv(t), TestDead(t)
  PROVE  IInv(t)'
<1> DEFINE o == Inner(t).obj
           b == base[o]
           s == IF b = none THEN << >> ELSE <<Dec(b)>>
<1>1. /\ pend[t] # << >> /\ Inner(t).stage = "test" /\ count[o] = 0
      /\ bad' = (bad \/ state[o] = "deleted") /\ state' = [state EXCEPT ![o] = "deleted"]
      /\ count' = [count EXCEPT ![o] = Less(0, selfs[o])]
      /\ pend' = [pend EXCEPT ![t] = IF b = none THEN Outer(t) ELSE Append(Outer(t), Dec(b))]
      /\ UNCHANGED <<base, selfs, ptr, making, rhsIn>>
  BY DEF TestDead
<1>2. /\ pend[t] = <<Inner(t)>> /\ Outer(t) = << >> /\ making[t] = none
      /\ o \in Objects /\ state[o] = "alive"
      /\ rhsIn[t] # none => rhsIn[t] = o /\ Held(o) >= 1
  BY <1>1, Pending
<1>3. \A x : <<Inner(t)>> # <<Dec(x)>>
  BY <1>1 DEF Dec
<1> HIDE DEF o
<1>4. \A x \in Objects : Owed(t, x) = 0 /\ Held(x) \in Nat
  BY <1>2, <1>3, HeldIsNat DEF IInv, Owed, Num
<1>5. Types /\ Own \in [Objects -> Objects \cup {none}] /\ b \in Objects \cup {none}
  BY <1>2, OwnType DEF IInv, Types, TypeOK
\* Nothing points to an object whose count the test finds 0.
<1>6. Held(o) = 0
  BY <1>1, <1>2, <1>4 DEF IInv, Counts
<1>7. /\ \A h \in Handles : ptr[h] # o
      /\ \A p \in Objects : Own[p] # o
      /\ rhsIn[t] = none
  BY <1>2, <1>5, <1>6, HeldIsNat
<1>8. Own[o] = b /\ b # o /\ (b # none => b \in Objects /\ state[b] = "alive")
  <2>1. Own[o] = b
    BY <1>2 DEF Own, Live
  <2> QED BY <1>2, <1>5, <1>7, <2>1 DEF IInv, Targets
<1> HIDE DEF b
<1>9. s \in Pends /\ (s # << >> => b # none /\ s[1].obj = b)
  BY <1>8, OwnValues DEF Dec
<1>10. \A x \in Objects : Num(s = <<Dec(x)>>) = Num(b = x)
  BY <1>8, OwnValues DEF Num, Dec
<1>11. pend' = [pend EXCEPT ![t] = s]
  BY <1>1, <1>2
<1> HIDE DEF s
<1>12. /\ pend'[t] = s
       /\ \A x \in Objects : state'[x] = IF x = o THEN "deleted" ELSE state[x]
       /\ \A x \in Objects : x # o => count'[x] = count[x]
  BY <1>1, <1>2, <1>5, <1>11 DEF Types, TypeOK
<1>13. Own' = [Own EXCEPT ![o] = none]
  <2>1. \A x \in Objects : base'[x] = base[x]
    BY <1>1
  <2>2. \A x \in Objects : Own'[x] = IF x = o THEN none ELSE Own[x]
    BY <1>12, <2>1 DEF Own, Live
  <2>3. DOMAIN Own' = Objects
    BY DEF Own
  <2> QED BY <1>5, <2>2, <2>3 DEF Own
<1>14. \A x \in Objects : Held(x)' = Held(x) - Num(b = x)
  <2> TAKE x \in Objects
  <2>1. ptr' = ptr
    BY <1>1
  <2>2. Moved(Held(x), HeldBy(ptr', Own', x), Own[o], none, x)
    BY <1>2, <1>5, <1>13, <2>1, OwnMoves
  <2>3. Num(none = x) = 0
    BY OwnValues DEF Num
  <2> QED BY <1>4, <1>8, <2>2, <2>3 DEF Held, Moved, Num
<1>15. ~bad'
  BY <1>1, <1>2 DEF IInv
<1>16. Types'
  <2>1. Less(0, selfs[o]) \in 0..W - 1
    <3>1. selfs[o] \in Nat /\ W \in Nat /\ W > 0
      BY <1>2, <1>5, CountAssumption, FiniteSets DEF Types, TypeOK
    <3> QED BY <3>1 DEF Less
  <2>2. pend' \in [Threads -> Pends]
    BY <1>5, <1>9, <1>11, TypesAre
  <2>3. TypeOK'
    BY <1>1, <1>2, <1>5, <1>15, <2>1 DEF Types, TypeOK
  <2> QED BY <1>1, <1>5, <2>2, <2>3 DEF Types, Pends
<1>17. Targets(t)'
  <2>1. \A x \in Objects : state[x] = "alive" /\ x # o => state'[x] = "alive"
    BY <1>12
  <2>2. \A p \in Objects : Own'[p] = IF p = o THEN none ELSE Own[p]
    BY <1>5, <1>13
  <2>3. \A p \in Objects : Own[p] \in Objects \cup {none}
    BY <1>5
  <2>4. \A g \in Handles : ptr[g] \in Objects \cup {none}
    BY <1>5 DEF Types, TypeOK
  <2> QED BY <1>1, <1>7, <1>8, <1>9, <1>12, <2>1, <2>2, <2>3, <2>4 DEF IInv, Targets
<1>18. Counts(t)'
  <2> SUFFICES ASSUME NEW x \in Objects, state'[x] = "alive"
               PROVE  count'[x] = Held(x)' + Owed(t, x)'
    BY DEF Counts
  <2>1. x # o /\ state[x] = "alive" /\ count[x] = Held(x)
    BY <1>4, <1>12 DEF IInv, Counts
  <2>2. Owed(t, x)' = Num(b = x)
    BY <1>10, <1>12 DEF Owed
  <2> QED BY <1>4, <1>12, <1>14, <2>1, <2>2 DEF Num
<1>19. Making(t)'
  BY <1>1, <1>2, <1>12 DEF IInv, Making
<1> QED BY <1>1, <1>7, <1>15, <1>16, <1>17, <1>18, <1>19 DEF IInv, Reading

LEMMA NextIInv ==
  ASSUME NEW t, Threads = {t}, SoleRebase = FALSE, IInv(t), [Next]_vars
  PROVE  IInv(t)'
<1>1. CASE UNCHANGED vars
  <2>1. Own' = Own /\ \A x : Held(x)' = Held(x)
    <3>1. Own' = Own
      BY <1>1 DEF vars, Own, Live
    <3> QED BY <1>1, <3>1 DEF vars, Held
  <2>2. Types' /\ Targets(t)' /\ ~bad'
    BY <1>1, <2>1 DEF vars, IInv, Types, TypeOK, Targets
  <2>3. Counts(t)'
    BY <1>1, <2>1 DEF vars, IInv, Counts, Owed
  <2>4. Making(t)' /\ Reading(t)'
    BY <1>1, <2>1 DEF vars, IInv, Making, Reading
  <2> QED BY <2>2, <2>3, <2>4 DEF IInv
<1>2. CASE Next
  <2>1. CASE \E h \in Handles, o \in Objects, b \in Objects \cup {none} : BeginNew(t, h, o, b)
    BY <2>1, BeginNewKeeps
  <2>2. CASE MakeSelfRef(t)
    BY <2>2, MakeSelfRefKeeps
  <2>3. CASE BuildThrows(t)
    BY <2>3, BuildThrowsKeeps
  <2>4. CASE EndNew(t)
    BY <2>4, EndNewKeeps
  <2>5. CASE \E h, g \in Handles : Copy(t, h, g) \/ mySwap(t, h, g) \/ Assign(t, h, g)
    BY <2>5, CopyKeeps, mySwapKeeps, AssignKeeps
  <2>6. CASE \E h \in Handles : Destroy(t, h) \/ AssignBase(t, h)
    BY <2>6, DestroyKeeps, AssignBaseKeeps
  <2>7. CASE EndAssignBase(t)
    BY <2>7, EndAssignBaseKeeps
  <2>8. CASE Subtract(t)
    BY <2>8, SubtractKeeps
  <2>9. CASE TestLive(t)
    BY <2>9, TestLiveKeeps
  <2>10. CASE TestDead(t)
    BY <2>10, TestDeadKeeps
  <2> QED BY <1>2, <2>1, <2>2, <2>3, <2>4, <2>5, <2>6, <2>7, <2>8, <2>9, <2>10 DEF Next
<1> QED BY <1>1, <1>2

LEMMA IInvAlways ==
  ASSUME NEW t, Threads = {t}, SoleRebase = FALSE
  PROVE  Spec => []IInv(t)
<1>1. Init => IInv(t)
  BY InitIInv
<1>2. IInv(t) /\ [Next]_vars => IInv(t)'
  BY NextIInv
<1> QED BY <1>1, <1>2, PTL DEF Spec

(* In a program that counts from one thread, and that assigns h = h->base  *)
(* only where something else holds *h, no object is used after its         *)
(* deletion, deleted twice, or deleted while its constructor runs or       *)
(* unwinds (SmartPtrIRC, SmartPtrIRC.H:36-60; the ring constructors).      *)
THEOREM DeletedIsNeverUsed ==
  ASSUME NEW t, Threads = {t}, SoleRebase = FALSE
  PROVE  Spec => []NeverUsedDead
<1>1. IInv(t) => NeverUsedDead
  <2> SUFFICES ASSUME IInv(t) PROVE NeverUsedDead
    OBVIOUS
  <2>1. \A o \in Objects : Live(o) => Own[o] = base[o]
    BY DEF Own
  <2> QED BY <2>1 DEF IInv, Targets, NeverUsedDead, Live
<1> QED BY <1>1, IInvAlways, PTL

(* Under the same hypotheses the count of a live object is the number of   *)
(* variables and live objects that point to it, plus the decrement that    *)
(* has yet to come (myRefCountInc, myRefCountDec, SmartPtrIRC.H:93-106).   *)
THEOREM CountIsAlwaysHolders ==
  ASSUME NEW t, Threads = {t}, SoleRebase = FALSE
  PROVE  Spec => []CountIsHolders
<1>1. IInv(t) => CountIsHolders
  <2> SUFFICES ASSUME IInv(t), NEW o \in Objects, state[o] = "alive"
               PROVE  count[o] = Holders(o) + Cardinality(Subtractions(o))
    BY DEF CountIsHolders
  <2>1. Holders(o) = Held(o)
    <3>1. {h \in Handles : ptr[h] = o} = {h \in DOMAIN ptr : ptr[h] = o}
      BY DEF IInv, Types, TypeOK
    <3>2. {p \in Objects : state[p] \in {"building", "alive"} /\ base[p] = o}
          = {p \in DOMAIN Own : Own[p] = o}
      BY OwnValues DEF Own, Live
    <3> QED BY <3>1, <3>2 DEF Holders, Held, HeldBy, Pointing
  <2>2. Cardinality(Subtractions(o)) = Owed(t, o)
    <3>1. pend[t] \in Pends
      BY TypesAre DEF IInv
    <3>2. Cardinality(Objects) \in Nat /\ Cardinality(Objects) >= 1
      <4>1. Cardinality(Objects) # 0
        BY FiniteSets, CountAssumption, FS_EmptySet
      <4> QED BY <4>1, FiniteSets
    <3>3. CASE pend[t] = <<Dec(o)>>
      <4>1. Subtractions(o) = {<<t, 1>>}
        BY <3>2, <3>3 DEF Subtractions
      <4> QED BY <3>3, <4>1, FS_Singleton DEF Owed, Num
    <3>4. CASE pend[t] # <<Dec(o)>>
      <4>1. Subtractions(o) = {}
        BY <3>1, <3>4 DEF Subtractions, Pends
      <4> QED BY <3>4, <4>1, FS_EmptySet DEF Owed, Num
    <3> QED BY <3>3, <3>4
  <2> QED BY <2>1, <2>2 DEF IInv, Counts
<1> QED BY <1>1, IInvAlways, PTL

(***************************************************************************)
(* GlobalManager, for any values, block sizes and registered globals.      *)
(*                                                                         *)
(* The invariant: the stack holds live registered globals, each once;      *)
(* until a pseudo-destructor that registers another clears a place in it,  *)
(* the stack is the beginning of the registrations and what has run is the *)
(* rest, reversed; the counts of ZZ and QQ are those of what refers to     *)
(* them; and every live block can be given back by the functions that are  *)
(* installed.                                                              *)
(***************************************************************************)
Kinds == {"BigInt", "ZZ", "QQ"}
Blocks == [size : 1..MaxSize, origin : {"pool", "malloc"}]

OfKind(f, R) == {v \in DOMAIN f : f[v].kind = R}
Number(R) == Cardinality(OfKind(val, R))
Mine == IF phase \in {"none", "checked", "gone"} THEN 0 ELSE 1
OnStack == {myDtorStack[i] : i \in 1..Len(myDtorStack)}

ManagerTypes ==
  /\ phase \in Phases
  /\ gmpFns \in {"system", "cocoa"} /\ myPrevFns \in {nullptr, "system", "cocoa"}
  /\ GMPPoolPtr \in {nullptr, "pool"}
  /\ myRefCount \in [Rings -> Int]
  /\ ringMem \in {nullptr, "pool", "malloc"}
  /\ IsFiniteSet(Alive) /\ Alive \subseteq Values
  /\ val \in [Alive -> [kind : Kinds, block : Blocks]]
  /\ myDtorStack \in Seq(Values \cup {cleared})
  /\ registered \in Seq(Values) /\ ran \in Seq(Values)
  /\ DtorFailed \in BOOLEAN /\ misplaced \in BOOLEAN

\* The counts, see CountsAreRight.
CountInv ==
  /\ myRefCount["QQ"] = Mine + Number("QQ")
  /\ myRefCount["ZZ"] = Mine + Number("ZZ") + (IF myRefCount["QQ"] > 0 THEN 1 ELSE 0)

\* Entries of the stack are live registered globals, each there once.
StackInv ==
  /\ OnStack \subseteq (Alive \cap Registered) \cup {cleared}
  /\ \A i, j \in 1..Len(myDtorStack) :
       myDtorStack[i] = myDtorStack[j] /\ myDtorStack[i] # cleared => i = j
  /\ phase \in {"unregistered", "checked", "gone"} => myDtorStack = << >>
  /\ phase = "none" => Alive = {}
  /\ cleared \notin OnStack => Alive \cap Registered \subseteq OnStack

\* What has been popped is the registration in reverse.
OrderInv ==
  LET n == Len(registered)
  IN  cleared \notin OnStack =>
        /\ n = Len(myDtorStack) + Len(ran)
        /\ \A i \in 1..Len(myDtorStack) : myDtorStack[i] = registered[i]
        /\ \A i \in 1..Len(ran) : ran[i] = registered[n + 1 - i]
        /\ phase \in {"none", "alive"} => ran = << >>

HomeInv ==
  /\ phase = "none" => gmpFns = "system"
  /\ phase \notin {"none", "gone"} =>
       \A v \in Alive : Home(val[v].block.origin, val[v].block.size)
  /\ phase \in {"alive", "unwinding", "unregistered"} => Home(ringMem, 1)
  /\ phase # "gone" => ~misplaced
  /\ phase \in {"checked", "gone"} =>
       \/ DtorFailed
       \/ \A v, w \in Alive : val[v].kind = "ZZ" /\ v = w

LeftInv ==
  /\ phase \in {"unwinding", "unregistered"} =>
       \A v \in Unregistered : val[v].kind \in Leftovers
  /\ phase \notin {"checked", "gone"} => ~DtorFailed

-----------------------------------------------------------------------------
LEMMA EmptyVal == << >> \in [{} -> [kind : Kinds, block : Blocks]] /\ DOMAIN << >> = {}
  OBVIOUS

\* How many values of a kind there are, when one comes, goes or is resized.
OneMoreIn(f, g, v, R) ==
  /\ Cardinality(OfKind(f, R)) \in Nat
  /\ Cardinality(OfKind(g, R)) =
       Cardinality(OfKind(f, R)) + (IF g[v].kind = R THEN 1 ELSE 0)
LEMMA OneMore ==
  ASSUME NEW A, IsFiniteSet(A), NEW f, DOMAIN f = A, NEW g, NEW v, v \notin A,
         DOMAIN g = A \cup {v}, \A w \in A : g[w] = f[w], NEW R
  PROVE  OneMoreIn(f, g, v, R)
<1> DEFINE B == OfKind(f, R)
<1>1. IsFiniteSet(B) /\ v \notin B
  BY FS_Subset DEF OfKind
<1>2. OfKind(g, R) = IF g[v].kind = R THEN B \cup {v} ELSE B
  BY DEF OfKind
<1>3. Cardinality(B) \in Nat
  BY <1>1, FS_CardinalityType
<1> HIDE DEF B
<1>4. v \notin B => Cardinality(B \cup {v}) = Cardinality(B) + 1
  BY <1>1, FS_AddElement
<1> QED BY <1>1, <1>2, <1>3, <1>4 DEF B, OneMoreIn

LEMMA NumberIsNat ==
  ASSUME ManagerTypes, NEW R
  PROVE  Number(R) \in Nat /\ (Number(R) = 0 <=> \A v \in Alive : val[v].kind # R)
<1>1. IsFiniteSet(OfKind(val, R))
  BY FS_Subset DEF ManagerTypes, OfKind, Alive
<1>2. Cardinality(OfKind(val, R)) \in Nat
      /\ (Cardinality(OfKind(val, R)) = 0 <=> OfKind(val, R) = {})
  BY <1>1, FS_CardinalityType, FS_EmptySet
<1> QED BY <1>2 DEF Number, OfKind, Alive

LEMMA MoreThanOne ==
  ASSUME ManagerTypes, NEW R
  PROVE  Number(R) > 1 <=> \E v, w \in Alive : v # w /\ val[v].kind = R /\ val[w].kind = R
<1> DEFINE S == OfKind(val, R)
<1>1. IsFiniteSet(S) /\ \A v : v \in S <=> v \in Alive /\ val[v].kind = R
  BY FS_Subset DEF ManagerTypes, OfKind, Alive
<1> HIDE DEF S
<1>2. ASSUME NEW v \in S
      PROVE  /\ Cardinality(S) \in Nat /\ Cardinality(S \ {v}) = Cardinality(S) - 1
             /\ Cardinality(S) - 1 \in Nat
             /\ Cardinality(S) - 1 = 0 <=> S \ {v} = {}
  <2>1. IsFiniteSet(S \ {v}) /\ Cardinality(S \ {v}) = Cardinality(S) - 1
    BY <1>1, <1>2, FS_RemoveElement
  <2> QED BY <1>1, <2>1, FS_CardinalityType, FS_EmptySet
<1>3. CASE S = {}
  <2>1. Cardinality(S) = 0
    BY <1>3, FS_EmptySet
  <2> QED BY <1>1, <1>3, <2>1 DEF Number, S
<1>4. CASE S # {}
  <2> PICK u \in S : TRUE
    BY <1>4
  <2>1. Cardinality(S) > 1 <=> S \ {u} # {}
    <3> PICK c : c = Cardinality(S)
      OBVIOUS
    <3>1. c \in Nat /\ c - 1 \in Nat /\ (c - 1 = 0 <=> S \ {u} = {})
      BY <1>2, Zenon
    <3>2. c > 1 <=> ~(c - 1 = 0)
      BY <3>1
    <3> QED BY <3>1, <3>2
  <2>2. S \ {u} # {} <=> \E v, w \in S : v # w
    OBVIOUS
  <2>3. (\E v, w \in S : v # w)
          <=> \E v, w \in Alive : v # w /\ val[v].kind = R /\ val[w].kind = R
    BY <1>1
  <2> QED BY <2>1, <2>2, <2>3 DEF Number, S
<1> QED BY <1>3, <1>4

LEMMA NumberAfterNew ==
  ASSUME ManagerTypes, NEW v, v \notin Alive, NEW kind, NEW sz, val' = With(v, kind, sz), NEW R
  PROVE  Number(R)' = Number(R) + (IF kind = R THEN 1 ELSE 0)
<1>1. DOMAIN val' = Alive \cup {v} /\ \A w \in Alive : val'[w] = val[w]
  BY DEF With
<1>2. val'[v].kind = kind
  BY DEF With
<1>3. Cardinality(OfKind(val', R)) =
        Cardinality(OfKind(val, R)) + (IF val'[v].kind = R THEN 1 ELSE 0)
  BY <1>1, OneMore DEF OneMoreIn, Alive, ManagerTypes
<1> QED BY <1>2, <1>3 DEF Number

LEMMA NumberAfterDelete ==
  ASSUME ManagerTypes, NEW v \in Alive, Delete(v), NEW R
  PROVE  Number(R)' = Number(R) - (IF val[v].kind = R THEN 1 ELSE 0)
<1>1. DOMAIN val' = Alive \ {v} /\ \A w \in Alive \ {v} : val'[w] = val[w]
  BY DEF Delete
<1>2. IsFiniteSet(Alive \ {v})
  BY FS_Subset DEF ManagerTypes
<1>3. /\ Cardinality(OfKind(val', R)) \in Nat
      /\ Cardinality(OfKind(val, R)) =
           Cardinality(OfKind(val', R)) + (IF val[v].kind = R THEN 1 ELSE 0)
  <2> PICK A, f, g : A = Alive \ {v} /\ f = val' /\ g = val
    OBVIOUS
  <2>1. v \notin A /\ IsFiniteSet(A) /\ DOMAIN f = A /\ DOMAIN g = A \cup {v}
    BY <1>1, <1>2 DEF Alive
  <2>2. \A w \in A : g[w] = f[w]
    BY <1>1
  <2>3. OneMoreIn(f, g, v, R)
    <3>1. v \notin A
      BY <2>1
    <3>2. IsFiniteSet(A)
      BY <2>1
    <3>3. DOMAIN f = A
      BY <2>1
    <3>4. DOMAIN g = A \cup {v}
      BY <2>1
    <3> QED BY <2>2, <3>1, <3>2, <3>3, <3>4, OneMore, Zenon
  <2> QED BY <2>3 DEF OneMoreIn
<1> QED BY <1>3 DEF Number

LEMMA NumberAfterResize ==
  ASSUME ManagerTypes, NEW v \in Alive, NEW b, val' = [val EXCEPT ![v].block = b], NEW R
  PROVE  Number(R)' = Number(R)
<1>1. OfKind(val', R) = OfKind(val, R)
  <2>1. DOMAIN val' = DOMAIN val
    OBVIOUS
  <2>2. \A w \in DOMAIN val : val'[w].kind = val[w].kind
    BY DEF ManagerTypes, Alive
  <2> QED BY <2>1, <2>2 DEF OfKind
<1> QED BY <1>1 DEF Number

-----------------------------------------------------------------------------
LEMMA Actions ==
  ManagerNext =>
     \/ \E choice \in {"SystemDefault", "cocoa"} : Construct(choice)
     \/ \E choice \in {"SystemDefault", "cocoa"} : ConstructSecond(choice)
     \/ \E v \in Values, sz \in 1..MaxSize, kind \in Kinds : New(v, kind, sz)
     \/ \E v \in Values, sz \in 1..MaxSize : Resize(v, sz)
     \/ \E v \in Values : Drop(v) \/ Register(v) \/ RunDtorThatRegisters(v)
     \/ DestroyValue \/ RunDtor \/ RunClearedDtor
     \/ Unregister \/ DestroyZZQQMgr \/ DestroyGMPMemMgr
  BY Zenon DEF ManagerNext, Kinds

LEMMA BlockType ==
  ASSUME ManagerTypes, NEW sz \in 1..MaxSize
  PROVE  Block(sz) \in Blocks
  BY SettingsAssumption DEF Block, Blocks, AllocatedIn, Small, ManagerTypes

LEMMA DroppedType ==
  ASSUME NEW c \in [Rings -> Int], NEW R \in Rings
  PROVE  /\ Dropped(c, R) \in [Rings -> Int]
         /\ Dropped(c, "ZZ")["ZZ"] = c["ZZ"] - 1 /\ Dropped(c, "ZZ")["QQ"] = c["QQ"]
         /\ Dropped(c, "QQ")["QQ"] = c["QQ"] - 1
         /\ Dropped(c, "QQ")["ZZ"] = c["ZZ"] - (IF c["QQ"] = 1 THEN 1 ELSE 0)
  BY DEF Dropped, Rings

LEMMA DeleteType ==
  ASSUME ManagerTypes, NEW v \in Alive, Delete(v)
  PROVE  /\ IsFiniteSet(Alive') /\ Alive' = Alive \ {v} /\ Alive' \subseteq Values
         /\ val' \in [Alive' -> [kind : Kinds, block : Blocks]]
         /\ myRefCount' \in [Rings -> Int]
         /\ misplaced' \in BOOLEAN
         /\ \A w \in Alive' : val'[w] = val[w]
<1>1. Alive' = Alive \ {v} /\ val' = [w \in Alive \ {v} |-> val[w]]
  BY DEF Alive, Delete
<1>2. val' \in [Alive' -> [kind : Kinds, block : Blocks]] /\ Alive' \subseteq Values
  BY <1>1 DEF ManagerTypes
<1>3. IsFiniteSet(Alive')
  BY <1>1, FS_Subset DEF ManagerTypes
<1>4. myRefCount' \in [Rings -> Int]
  BY DroppedType DEF Delete, ManagerTypes
<1>5. misplaced' \in BOOLEAN
  BY DEF Delete, ManagerTypes
<1> QED BY <1>1, <1>2, <1>3, <1>4, <1>5

LEMMA TopIsAlive ==
  ASSUME ManagerTypes, StackInv, myDtorStack # << >>, Top # cleared
  PROVE  /\ Len(myDtorStack) \in 1..Len(myDtorStack)
         /\ Top \in Alive /\ Top \in Registered /\ Top \in Values
<1>1. Len(myDtorStack) \in 1..Len(myDtorStack)
  BY DEF ManagerTypes
<1>2. Top \in OnStack
  BY <1>1 DEF Top, OnStack
<1> QED BY <1>1, <1>2 DEF StackInv, ManagerTypes

LEMMA Front ==
  ASSUME NEW S, NEW q \in Seq(S), q # << >>, NEW n \in Int, n = Len(q) - 1
  PROVE  /\ n \in Nat /\ Len(q) = n + 1
         /\ SubSeq(q, 1, n) \in Seq(S) /\ Len(SubSeq(q, 1, n)) = n
         /\ \A i \in 1..n : SubSeq(q, 1, n)[i] = q[i]
<1>1. Len(q) \in Nat /\ Len(q) # 0
  OBVIOUS
<1>2. n \in Nat /\ Len(q) = n + 1
  BY <1>1
<1> QED BY <1>2

LEMMA PoppedType ==
  ASSUME ManagerTypes, myDtorStack # << >>
  PROVE  /\ Popped \in Seq(Values \cup {cleared})
         /\ Len(Popped) \in Nat /\ Len(myDtorStack) = Len(Popped) + 1
         /\ Top = myDtorStack[Len(myDtorStack)]
         /\ \A i \in 1..Len(Popped) : Popped[i] = myDtorStack[i]
<1> PICK S : S = Values \cup {cleared}
  OBVIOUS
<1>1. myDtorStack \in Seq(S)
  BY DEF ManagerTypes
<1>2. Len(myDtorStack) - 1 \in Int
  BY <1>1
<1>3. PICK n \in Int : n = Len(myDtorStack) - 1
  BY <1>2
<1>4. Popped = SubSeq(myDtorStack, 1, n)
  BY <1>3 DEF Popped
<1> QED BY <1>1, <1>3, <1>4, Front DEF Top

-----------------------------------------------------------------------------
LEMMA TypeStep == ManagerTypes /\ StackInv /\ [ManagerNext]_managerVars => ManagerTypes'
<1> SUFFICES ASSUME ManagerTypes, StackInv, [ManagerNext]_managerVars PROVE ManagerTypes'
  OBVIOUS
<1> USE SettingsAssumption
<1>1. ASSUME NEW choice \in {"SystemDefault", "cocoa"}, Construct(choice) PROVE ManagerTypes'
  <2>1. myRefCount' \in [Rings -> Int]
    BY <1>1 DEF Construct, Rings
  <2> QED BY <1>1, <2>1 DEF Construct, ManagerTypes, globals, memory, Alive,
       Phases
<1>2. ASSUME NEW choice \in {"SystemDefault", "cocoa"}, ConstructSecond(choice)
      PROVE  ManagerTypes'
  BY <1>2 DEF ConstructSecond, ManagerTypes, globals, Alive
<1>3. ASSUME NEW v \in Values, NEW sz \in 1..MaxSize, NEW kind \in Kinds, New(v, kind, sz)
      PROVE  ManagerTypes'
  <2>1. Block(sz) \in Blocks
    BY BlockType
  <2>2. Alive' = Alive \cup {v} /\ val' = With(v, kind, sz)
    BY <1>3 DEF New, With, Alive
  <2>3. val' \in [Alive' -> [kind : Kinds, block : Blocks]] /\ Alive' \subseteq Values
    BY <2>1, <2>2 DEF With, ManagerTypes, Alive
  <2>4. IsFiniteSet(Alive')
    BY <2>2, FS_AddElement DEF ManagerTypes
  <2>5. myRefCount' \in [Rings -> Int]
    BY <1>3 DEF New, Counted, ManagerTypes, Rings
  <2> QED BY <1>3, <2>3, <2>4, <2>5 DEF New, ManagerTypes, globals, memory
<1>4. ASSUME NEW v \in Values, NEW sz \in 1..MaxSize, Resize(v, sz) PROVE ManagerTypes'
  <2>1. Block(sz) \in Blocks /\ val[v].block \in Blocks /\ v \in Alive
    BY <1>4, BlockType DEF ManagerTypes, Resize
  <2>2. Reallocated(val[v].block, sz) \in Blocks
    BY <2>1 DEF Reallocated, Blocks
  <2>3. Alive' = Alive /\ val' \in [Alive' -> [kind : Kinds, block : Blocks]]
    BY <1>4, <2>2 DEF Resize, ManagerTypes, Alive
  <2>4. misplaced' \in BOOLEAN
    BY <1>4 DEF Resize, ManagerTypes
  <2> QED BY <1>4, <2>3, <2>4 DEF Resize, ManagerTypes, globals, memory
<1>5. ASSUME NEW v \in Values, Drop(v) PROVE ManagerTypes'
  <2>1. v \in Alive /\ Delete(v)
    BY <1>5 DEF Drop, Unregistered
  <2> QED BY <1>5, <2>1, DeleteType DEF Drop, ManagerTypes, globals, memory
<1>6. ASSUME NEW v \in Values, Register(v) PROVE ManagerTypes'
  BY <1>6 DEF Register, Pushed, ManagerTypes, memory, Alive
<1>7. ASSUME NEW v \in Values, RunDtorThatRegisters(v) PROVE ManagerTypes'
  <2>1. Top \in Alive /\ Top \in Values /\ Delete(Top)
    BY <1>7, TopIsAlive DEF RunDtorThatRegisters
  <2>2. myDtorStack' \in Seq(Values \cup {cleared}) /\ registered' \in Seq(Values)
        /\ ran' \in Seq(Values)
    BY <1>7, <2>1, PoppedType DEF RunDtorThatRegisters, ManagerTypes
  <2> QED BY <1>7, <2>1, <2>2, DeleteType DEF RunDtorThatRegisters, ManagerTypes, memory
<1>8. CASE DestroyValue
  BY <1>8 DEF DestroyValue, ManagerTypes, globals, memory, Alive, Phases
<1>9. CASE RunDtor
  <2>1. Top \in Alive /\ Top \in Values /\ Delete(Top)
    BY <1>9, TopIsAlive DEF RunDtor
  <2>2. myDtorStack' \in Seq(Values \cup {cleared}) /\ ran' \in Seq(Values)
    BY <1>9, <2>1, PoppedType DEF RunDtor, ManagerTypes
  <2> QED BY <1>9, <2>1, <2>2, DeleteType DEF RunDtor, ManagerTypes, memory
<1>10. CASE RunClearedDtor
  BY <1>10 DEF RunClearedDtor, ManagerTypes, globals, memory, Alive, Phases
<1>11. CASE Unregister
  BY <1>11 DEF Unregister, ManagerTypes, globals, memory, Alive, Phases
<1>12. CASE DestroyZZQQMgr
  <2>1. myRefCount' \in [Rings -> Int]
    <3>1. "QQ" \in Rings /\ "ZZ" \in Rings
      BY DEF Rings
    <3> QED BY <1>12, <3>1, DroppedType DEF DestroyZZQQMgr, ManagerTypes
  <2>2. misplaced' \in BOOLEAN /\ DtorFailed' \in BOOLEAN
    BY <1>12 DEF DestroyZZQQMgr, ManagerTypes
  <2> QED BY <1>12, <2>1, <2>2 DEF DestroyZZQQMgr, ManagerTypes, globals, memory,
       Alive, Phases
<1>13. CASE DestroyGMPMemMgr
  BY <1>13 DEF DestroyGMPMemMgr, RestoredFns, ManagerTypes, globals, Alive,
       Phases
<1>14. CASE UNCHANGED managerVars
  BY <1>14 DEF managerVars, ManagerTypes, globals, memory, Alive
<1> QED
  BY <1>1, <1>2, <1>3, <1>4, <1>5, <1>6, <1>7, <1>8, <1>9, <1>10, <1>11, <1>12, <1>13,
     <1>14, Actions

LEMMA StackStep == ManagerTypes /\ StackInv /\ [ManagerNext]_managerVars => StackInv'
<1> SUFFICES ASSUME ManagerTypes, StackInv, [ManagerNext]_managerVars PROVE StackInv'
  OBVIOUS
<1>a. ASSUME UNCHANGED globals, phase' \in {"unregistered", "checked", "gone"} => myDtorStack = << >>,
             Alive' \cap Registered = Alive \cap Registered, phase' # "none" \/ Alive' = {}
      PROVE  StackInv'
  <2>1. myDtorStack' = myDtorStack /\ OnStack' = OnStack
    BY <1>a DEF OnStack, globals
  <2>2. Registered' = Registered
    BY <1>a DEF globals, Registered
  <2>3. (Alive \cap Registered)' = Alive \cap Registered
    BY <1>a, <2>2
  <2> QED BY <1>a, <2>1, <2>3 DEF StackInv
<1>1. ASSUME NEW choice \in {"SystemDefault", "cocoa"}, Construct(choice) PROVE StackInv'
  BY <1>1, <1>a DEF Construct, Alive
<1>2. ASSUME NEW choice \in {"SystemDefault", "cocoa"}, ConstructSecond(choice)
      PROVE  StackInv'
  BY <1>2, <1>a DEF ConstructSecond, StackInv, Alive
<1>3. ASSUME NEW v \in Values, NEW sz \in 1..MaxSize, NEW kind \in Kinds, New(v, kind, sz)
      PROVE  StackInv'
  <2>1. Alive' = Alive \cup {v} /\ v \notin Registered
    BY <1>3 DEF New, With, Alive
  <2> QED BY <1>3, <1>a, <2>1 DEF New
<1>4. ASSUME NEW v \in Values, NEW sz \in 1..MaxSize, Resize(v, sz) PROVE StackInv'
  BY <1>4, <1>a DEF Resize, Alive
<1>5. ASSUME NEW v \in Values, Drop(v) PROVE StackInv'
  <2>1. v \in Alive /\ v \notin Registered /\ Delete(v)
    BY <1>5 DEF Drop, Unregistered
  <2>2. Alive' = Alive \ {v}
    BY <2>1, DeleteType
  <2> QED BY <1>5, <1>a, <2>1, <2>2 DEF Drop, StackInv
<1>6. ASSUME NEW v \in Values, Register(v) PROVE StackInv'
  <2>1. v \in Alive /\ v \notin Registered /\ Alive' = Alive /\ phase' = "alive"
    BY <1>6 DEF Register, Unregistered, Alive
  <2>2. /\ Len(myDtorStack) \in Nat /\ Len(myDtorStack') = Len(myDtorStack) + 1
        /\ \A i \in 1..Len(myDtorStack) : myDtorStack'[i] = myDtorStack[i]
        /\ myDtorStack'[Len(myDtorStack) + 1] = v
    BY <1>6 DEF Register, Pushed, ManagerTypes
  <2>3. /\ Len(registered) \in Nat /\ Len(registered') = Len(registered) + 1
        /\ \A i \in 1..Len(registered) : registered'[i] = registered[i]
        /\ registered'[Len(registered) + 1] = v
    BY <1>6 DEF Register, ManagerTypes
  <2>4. OnStack' = OnStack \cup {v}
    BY <2>2 DEF OnStack
  <2>5. Registered' = Registered \cup {v}
    BY <2>3 DEF Registered
  <2>6. v \notin OnStack \/ v = cleared
    BY <2>1 DEF StackInv
  <2>7. \A i, j \in 1..Len(myDtorStack') :
          myDtorStack'[i] = myDtorStack'[j] /\ myDtorStack'[i] # cleared => i = j
    <3> SUFFICES ASSUME NEW i \in 1..Len(myDtorStack'), NEW j \in 1..Len(myDtorStack'),
                        myDtorStack'[i] = myDtorStack'[j], myDtorStack'[i] # cleared
                 PROVE  i = j
      OBVIOUS
    <3>1. \A k \in 1..Len(myDtorStack') : k \in 1..Len(myDtorStack) \/ k = Len(myDtorStack) + 1
      BY <2>2
    <3>2. \A k \in 1..Len(myDtorStack) : myDtorStack[k] \in OnStack
      BY DEF OnStack
    <3> QED BY <2>2, <2>6, <3>1, <3>2 DEF StackInv
  <2> QED BY <2>1, <2>4, <2>5, <2>7 DEF StackInv
<1>7. ASSUME NEW v \in Values, RunDtorThatRegisters(v) PROVE StackInv'
  <2>1. Top \in Alive /\ Delete(Top) /\ v \in Alive /\ v \notin Registered /\ Top \in Registered
    BY <1>7, TopIsAlive DEF RunDtorThatRegisters, Unregistered
  <2>2. Alive' = Alive \ {Top}
    BY <2>1, DeleteType
  <2>3. /\ Len(Popped) \in Nat /\ Len(myDtorStack) = Len(Popped) + 1
        /\ \A i \in 1..Len(Popped) : Popped[i] = myDtorStack[i]
        /\ Top = myDtorStack[Len(myDtorStack)]
    BY <1>7, PoppedType DEF RunDtorThatRegisters
  <2>4. /\ Len(myDtorStack') = Len(myDtorStack)
        /\ \A i \in 1..Len(Popped) : myDtorStack'[i] = myDtorStack[i]
        /\ myDtorStack'[Len(myDtorStack)] = cleared
    BY <1>7, <2>3, PoppedType DEF RunDtorThatRegisters
  <2>5. /\ Len(registered) \in Nat /\ Len(registered') = Len(registered) + 1
        /\ \A i \in 1..Len(registered) : registered'[i] = registered[i]
    BY <1>7 DEF RunDtorThatRegisters, ManagerTypes
  <2>6. Registered \subseteq Registered'
    BY <2>5 DEF Registered
  <2>7. OnStack' \subseteq (OnStack \ {Top}) \cup {cleared} /\ cleared \in OnStack'
    <3>1. \A i \in 1..Len(Popped) : i \in 1..Len(myDtorStack) /\ i # Len(myDtorStack)
      BY <2>3
    <3>2. \A i \in 1..Len(Popped) : myDtorStack[i] # Top
      BY <1>7, <2>3, <3>1 DEF StackInv, RunDtorThatRegisters
    <3> QED BY <2>3, <2>4, <3>1, <3>2 DEF OnStack
  <2>8. \A i, j \in 1..Len(myDtorStack') :
          myDtorStack'[i] = myDtorStack'[j] /\ myDtorStack'[i] # cleared => i = j
    <3>1. \A k \in 1..Len(myDtorStack) : k \in 1..Len(Popped) \/ k = Len(myDtorStack)
      BY <2>3
    <3> QED BY <2>3, <2>4, <3>1 DEF StackInv
  <2> QED BY <1>7, <2>2, <2>6, <2>7, <2>8 DEF StackInv, RunDtorThatRegisters
<1>8. CASE DestroyValue
  BY <1>8, <1>a DEF DestroyValue, Alive
<1>9. CASE RunDtor
  <2>1. Top \in Alive /\ Delete(Top)
    BY <1>9, TopIsAlive DEF RunDtor
  <2>2. Alive' = Alive \ {Top} /\ Registered' = Registered
    BY <1>9, <2>1, DeleteType DEF RunDtor, Registered
  <2>3. /\ Len(Popped) \in Nat /\ Len(myDtorStack) = Len(Popped) + 1
        /\ \A i \in 1..Len(Popped) : Popped[i] = myDtorStack[i]
        /\ Top = myDtorStack[Len(myDtorStack)] /\ myDtorStack' = Popped
    BY <1>9, PoppedType DEF RunDtor
  <2>4. OnStack' = OnStack \ {Top}
    <3>1. \A i \in 1..Len(Popped) : i \in 1..Len(myDtorStack) /\ i # Len(myDtorStack)
      BY <2>3
    <3>2. \A i \in 1..Len(Popped) : myDtorStack[i] # Top
      BY <1>9, <2>3, <3>1 DEF StackInv, RunDtor
    <3>3. \A k \in 1..Len(myDtorStack) : k \in 1..Len(Popped) \/ k = Len(myDtorStack)
      BY <2>3
    <3> QED BY <2>3, <3>1, <3>2, <3>3 DEF OnStack
  <2>5. \A i, j \in 1..Len(myDtorStack') :
          myDtorStack'[i] = myDtorStack'[j] /\ myDtorStack'[i] # cleared => i = j
    BY <2>3 DEF StackInv
  <2> QED BY <1>9, <2>2, <2>4, <2>5 DEF StackInv, RunDtor
<1>10. CASE RunClearedDtor
  BY <1>10, <1>a DEF RunClearedDtor, Alive
<1>11. CASE Unregister
  BY <1>11, <1>a DEF Unregister, Alive
<1>12. CASE DestroyZZQQMgr
  BY <1>12, <1>a DEF DestroyZZQQMgr, Alive, StackInv
<1>13. CASE DestroyGMPMemMgr
  BY <1>13, <1>a DEF DestroyGMPMemMgr, Alive, StackInv
<1>14. CASE UNCHANGED managerVars
  BY <1>14, <1>a DEF managerVars, Alive, StackInv
<1> QED
  BY <1>1, <1>2, <1>3, <1>4, <1>5, <1>6, <1>7, <1>8, <1>9, <1>10, <1>11, <1>12, <1>13,
     <1>14, Actions

LEMMA OrderStep == ManagerTypes /\ StackInv /\ OrderInv /\ [ManagerNext]_managerVars => OrderInv'
<1> SUFFICES ASSUME ManagerTypes, StackInv, OrderInv, [ManagerNext]_managerVars PROVE OrderInv'
  OBVIOUS
<1>a. ASSUME UNCHANGED globals, phase' \in {"none", "alive"} => phase \in {"none", "alive"}
      PROVE  OrderInv'
  BY <1>a DEF OrderInv, OnStack, globals
<1>1. ASSUME NEW choice \in {"SystemDefault", "cocoa"}, Construct(choice) PROVE OrderInv'
  BY <1>1, <1>a DEF Construct
<1>2. ASSUME NEW choice \in {"SystemDefault", "cocoa"}, ConstructSecond(choice)
      PROVE  OrderInv'
  BY <1>2, <1>a DEF ConstructSecond
<1>3. ASSUME NEW v \in Values, NEW sz \in 1..MaxSize, NEW kind \in Kinds, New(v, kind, sz)
      PROVE  OrderInv'
  BY <1>3, <1>a DEF New
<1>4. ASSUME NEW v \in Values, NEW sz \in 1..MaxSize, Resize(v, sz) PROVE OrderInv'
  BY <1>4, <1>a DEF Resize
<1>5. ASSUME NEW v \in Values, Drop(v) PROVE OrderInv'
  BY <1>5, <1>a DEF Drop
<1>6. ASSUME NEW v \in Values, Register(v) PROVE OrderInv'
  <2>1. /\ Len(myDtorStack) \in Nat /\ Len(myDtorStack') = Len(myDtorStack) + 1
        /\ \A i \in 1..Len(myDtorStack) : myDtorStack'[i] = myDtorStack[i]
        /\ myDtorStack'[Len(myDtorStack) + 1] = v
    BY <1>6 DEF Register, Pushed, ManagerTypes
  <2>2. /\ Len(registered) \in Nat /\ Len(registered') = Len(registered) + 1
        /\ \A i \in 1..Len(registered) : registered'[i] = registered[i]
        /\ registered'[Len(registered) + 1] = v
    BY <1>6 DEF Register, ManagerTypes
  <2> SUFFICES ASSUME cleared \notin OnStack' PROVE OrderInv'
    BY DEF OrderInv
  <2>3. cleared \notin OnStack
    BY <2>1 DEF OnStack
  <2>4. /\ Len(registered) = Len(myDtorStack) + Len(ran) /\ ran = << >> /\ ran' = << >>
        /\ \A i \in 1..Len(myDtorStack) : myDtorStack[i] = registered[i]
    BY <1>6, <2>3 DEF OrderInv, Register
  <2>5. Len(ran) = 0
    BY <2>4
  <2>6. \A k \in 1..Len(myDtorStack') : k \in 1..Len(myDtorStack) \/ k = Len(myDtorStack) + 1
    BY <2>1
  <2> QED BY <2>1, <2>2, <2>4, <2>5, <2>6 DEF OrderInv
<1>7. ASSUME NEW v \in Values, RunDtorThatRegisters(v) PROVE OrderInv'
  <2>1. Len(Popped) \in Nat /\ Popped \in Seq(Values \cup {cleared})
    BY <1>7, PoppedType DEF RunDtorThatRegisters
  <2>2. Len(myDtorStack') = Len(Popped) + 1 /\ myDtorStack'[Len(Popped) + 1] = cleared
    BY <1>7, <2>1 DEF RunDtorThatRegisters
  <2>3. cleared \in OnStack'
    BY <2>1, <2>2 DEF OnStack
  <2> QED BY <2>3 DEF OrderInv
<1>8. CASE DestroyValue
  BY <1>8, <1>a DEF DestroyValue
<1>9. CASE RunDtor
  <2>1. /\ Len(Popped) \in Nat /\ Len(myDtorStack) = Len(Popped) + 1
        /\ \A i \in 1..Len(Popped) : Popped[i] = myDtorStack[i]
        /\ Top = myDtorStack[Len(myDtorStack)] /\ myDtorStack' = Popped
    BY <1>9, PoppedType DEF RunDtor
  <2>2. Top \in Values
    BY <1>9, TopIsAlive DEF RunDtor
  <2>3. /\ Len(ran) \in Nat /\ Len(ran') = Len(ran) + 1
        /\ \A i \in 1..Len(ran) : ran'[i] = ran[i]
        /\ ran'[Len(ran) + 1] = Top /\ registered' = registered
    BY <1>9, <2>2 DEF RunDtor, ManagerTypes
  <2> SUFFICES ASSUME cleared \notin OnStack' PROVE OrderInv'
    BY DEF OrderInv
  <2>4. cleared \notin OnStack
    <3>1. \A k \in 1..Len(myDtorStack) : k \in 1..Len(Popped) \/ k = Len(myDtorStack)
      BY <2>1
    <3> QED BY <1>9, <2>1, <3>1 DEF OnStack, RunDtor
  <2>5. /\ Len(registered) = Len(myDtorStack) + Len(ran)
        /\ \A i \in 1..Len(myDtorStack) : myDtorStack[i] = registered[i]
        /\ \A i \in 1..Len(ran) : ran[i] = registered[Len(registered) + 1 - i]
    BY <2>4 DEF OrderInv
  <2>6. Len(registered) + 1 - (Len(ran) + 1) = Len(myDtorStack) /\ Len(myDtorStack) \in 1..Len(myDtorStack)
    BY <2>1, <2>3, <2>5
  <2>7. ran'[Len(ran) + 1] = registered[Len(registered) + 1 - (Len(ran) + 1)]
    BY <2>1, <2>3, <2>5, <2>6
  <2>8. \A i \in 1..Len(ran') : ran'[i] = registered[Len(registered) + 1 - i]
    <3>1. \A k \in 1..Len(ran') : k \in 1..Len(ran) \/ k = Len(ran) + 1
      BY <2>3
    <3> QED BY <2>3, <2>5, <2>7, <3>1
  <2>9. \A i \in 1..Len(myDtorStack') : myDtorStack'[i] = registered[i]
    BY <2>1, <2>5
  <2>10. phase' = "unwinding"
    BY <1>9 DEF RunDtor
  <2>11. Len(registered) = Len(myDtorStack') + Len(ran')
    BY <2>1, <2>3, <2>5
  <2> QED BY <2>3, <2>8, <2>9, <2>10, <2>11 DEF OrderInv
<1>10. CASE RunClearedDtor
  BY <1>10, <1>a DEF RunClearedDtor
<1>11. CASE Unregister
  BY <1>11, <1>a DEF Unregister
<1>12. CASE DestroyZZQQMgr
  BY <1>12, <1>a DEF DestroyZZQQMgr
<1>13. CASE DestroyGMPMemMgr
  BY <1>13, <1>a DEF DestroyGMPMemMgr
<1>14. CASE UNCHANGED managerVars
  BY <1>14, <1>a DEF managerVars
<1> QED
  BY <1>1, <1>2, <1>3, <1>4, <1>5, <1>6, <1>7, <1>8, <1>9, <1>10, <1>11, <1>12, <1>13,
     <1>14, Actions

LEMMA DeleteCounts ==
  ASSUME ManagerTypes, CountInv, NEW v \in Alive, Delete(v), phase' = phase
  PROVE  CountInv'
<1>1. /\ Number("QQ") \in Nat /\ Number("ZZ") \in Nat
      /\ val[v].kind = "QQ" => Number("QQ") # 0
      /\ val[v].kind = "ZZ" => Number("ZZ") # 0
  BY NumberIsNat
<1>2. /\ Number("QQ")' = Number("QQ") - (IF val[v].kind = "QQ" THEN 1 ELSE 0)
      /\ Number("ZZ")' = Number("ZZ") - (IF val[v].kind = "ZZ" THEN 1 ELSE 0)
  BY NumberAfterDelete
<1>3. Mine' = Mine /\ Mine \in 0..1
  BY DEF Mine
<1>4. val[v].kind \in Kinds
  BY DEF ManagerTypes
<1>5. CASE val[v].kind = "BigInt"
  <2>1. myRefCount' = myRefCount
    BY <1>5 DEF Delete, Rings
  <2> QED BY <1>1, <1>2, <1>3, <1>5, <2>1 DEF CountInv
<1>6. CASE val[v].kind = "ZZ"
  <2>1. myRefCount' = Dropped(myRefCount, "ZZ")
    BY <1>6 DEF Delete, Rings
  <2>2. myRefCount'["ZZ"] = myRefCount["ZZ"] - 1 /\ myRefCount'["QQ"] = myRefCount["QQ"]
    BY <2>1, DroppedType DEF ManagerTypes, Rings
  <2> QED BY <1>1, <1>2, <1>3, <1>6, <2>2 DEF CountInv
<1>7. CASE val[v].kind = "QQ"
  <2>1. myRefCount' = Dropped(myRefCount, "QQ")
    BY <1>7 DEF Delete, Rings
  <2>2. /\ myRefCount'["QQ"] = myRefCount["QQ"] - 1
        /\ myRefCount'["ZZ"] = myRefCount["ZZ"] - (IF myRefCount["QQ"] = 1 THEN 1 ELSE 0)
    BY <2>1, DroppedType DEF ManagerTypes, Rings
  <2> QED BY <1>1, <1>2, <1>3, <1>7, <2>2 DEF CountInv
<1> QED BY <1>4, <1>5, <1>6, <1>7 DEF Kinds

LEMMA CountStep == ManagerTypes /\ StackInv /\ CountInv /\ [ManagerNext]_managerVars => CountInv'
<1> SUFFICES ASSUME ManagerTypes, StackInv, CountInv, [ManagerNext]_managerVars PROVE CountInv'
  OBVIOUS
<1>0. Number("QQ") \in Nat /\ Number("ZZ") \in Nat /\ Mine \in 0..1
  BY NumberIsNat DEF Mine
<1>a. ASSUME UNCHANGED <<val, myRefCount>>, Mine' = Mine PROVE CountInv'
  BY <1>a DEF CountInv, Number
<1>1. ASSUME NEW choice \in {"SystemDefault", "cocoa"}, Construct(choice) PROVE CountInv'
  <2>1. /\ Number("QQ")' = Number("QQ") /\ Number("ZZ")' = Number("ZZ")
        /\ Mine = 0 /\ Mine' = 1 /\ myRefCount' = [ZZ |-> 2, QQ |-> 1]
    BY <1>1 DEF Construct, Number, Mine
  <2>2. Number("QQ") = 0 /\ Number("ZZ") = 0
    BY <1>1, NumberIsNat DEF StackInv, Construct
  <2> QED BY <2>1, <2>2 DEF CountInv
<1>2. ASSUME NEW choice \in {"SystemDefault", "cocoa"}, ConstructSecond(choice)
      PROVE  CountInv'
  BY <1>2, <1>a DEF ConstructSecond, Mine
<1>3. ASSUME NEW v \in Values, NEW sz \in 1..MaxSize, NEW kind \in Kinds, New(v, kind, sz)
      PROVE  CountInv'
  <2>1. /\ Number("QQ")' = Number("QQ") + (IF kind = "QQ" THEN 1 ELSE 0)
        /\ Number("ZZ")' = Number("ZZ") + (IF kind = "ZZ" THEN 1 ELSE 0)
    BY <1>3, NumberAfterNew DEF New
  <2>2. /\ myRefCount'["QQ"] = myRefCount["QQ"] + (IF kind = "QQ" THEN 1 ELSE 0)
        /\ myRefCount'["ZZ"] = myRefCount["ZZ"] + (IF kind = "ZZ" THEN 1 ELSE 0)
    BY <1>3 DEF New, Counted, ManagerTypes, Rings, Kinds
  <2>3. Mine' = 1 /\ Mine = 1
    BY <1>3 DEF New, Mine
  <2> QED BY <1>0, <2>1, <2>2, <2>3 DEF CountInv
<1>4. ASSUME NEW v \in Values, NEW sz \in 1..MaxSize, Resize(v, sz) PROVE CountInv'
  <2>1. v \in Alive /\ val' = [val EXCEPT ![v].block = Reallocated(val[v].block, sz)]
    BY <1>4 DEF Resize
  <2>2. Number("QQ")' = Number("QQ") /\ Number("ZZ")' = Number("ZZ")
    BY <2>1, NumberAfterResize
  <2> QED BY <1>4, <2>2 DEF Resize, CountInv, Mine
<1>5. ASSUME NEW v \in Values, Drop(v) PROVE CountInv'
  BY <1>5, DeleteCounts DEF Drop, Unregistered
<1>6. ASSUME NEW v \in Values, Register(v) PROVE CountInv'
  BY <1>6, <1>a DEF Register, Mine
<1>7. ASSUME NEW v \in Values, RunDtorThatRegisters(v) PROVE CountInv'
  BY <1>7, DeleteCounts, TopIsAlive DEF RunDtorThatRegisters
<1>8. CASE DestroyValue
  BY <1>8, <1>a DEF DestroyValue, Mine
<1>9. CASE RunDtor
  BY <1>9, DeleteCounts, TopIsAlive DEF RunDtor
<1>10. CASE RunClearedDtor
  BY <1>10, <1>a DEF RunClearedDtor, Mine
<1>11. CASE Unregister
  BY <1>11, <1>a DEF Unregister, Mine
<1>12. CASE DestroyZZQQMgr
  <2> DEFINE c == Dropped(myRefCount, "QQ")
  <2>1. "QQ" \in Rings /\ "ZZ" \in Rings /\ myRefCount \in [Rings -> Int]
    BY DEF Rings, ManagerTypes
  <2>2. /\ c \in [Rings -> Int] /\ c["QQ"] = myRefCount["QQ"] - 1
        /\ c["ZZ"] = myRefCount["ZZ"] - (IF myRefCount["QQ"] = 1 THEN 1 ELSE 0)
    BY <2>1, DroppedType
  <2>3. /\ Dropped(c, "ZZ")["ZZ"] = c["ZZ"] - 1 /\ Dropped(c, "ZZ")["QQ"] = c["QQ"]
    BY <2>1, <2>2, DroppedType
  <2>4. /\ Number("QQ")' = Number("QQ") /\ Number("ZZ")' = Number("ZZ")
        /\ Mine = 1 /\ Mine' = 0 /\ myRefCount' = Dropped(c, "ZZ")
    BY <1>12 DEF DestroyZZQQMgr, Number, Mine
  <2> HIDE DEF c
  <2> QED BY <1>0, <2>2, <2>3, <2>4 DEF CountInv
<1>13. CASE DestroyGMPMemMgr
  BY <1>13, <1>a DEF DestroyGMPMemMgr, Mine
<1>14. CASE UNCHANGED managerVars
  BY <1>14, <1>a DEF managerVars, Mine
<1> QED
  BY <1>1, <1>2, <1>3, <1>4, <1>5, <1>6, <1>7, <1>8, <1>9, <1>10, <1>11, <1>12, <1>13,
     <1>14, Actions

LEMMA LeftStep == ManagerTypes /\ StackInv /\ LeftInv /\ [ManagerNext]_managerVars => LeftInv'
<1> SUFFICES ASSUME ManagerTypes, StackInv, LeftInv, [ManagerNext]_managerVars PROVE LeftInv'
  OBVIOUS
<1>1. ASSUME NEW choice \in {"SystemDefault", "cocoa"}, Construct(choice) PROVE LeftInv'
  BY <1>1 DEF Construct, LeftInv
<1>2. ASSUME NEW choice \in {"SystemDefault", "cocoa"}, ConstructSecond(choice)
      PROVE  LeftInv'
  BY <1>2 DEF ConstructSecond, LeftInv, Unregistered, Alive, Registered, globals
<1>3. ASSUME NEW v \in Values, NEW sz \in 1..MaxSize, NEW kind \in Kinds, New(v, kind, sz)
      PROVE  LeftInv'
  BY <1>3 DEF New, LeftInv
<1>4. ASSUME NEW v \in Values, NEW sz \in 1..MaxSize, Resize(v, sz) PROVE LeftInv'
  BY <1>4 DEF Resize, LeftInv
<1>5. ASSUME NEW v \in Values, Drop(v) PROVE LeftInv'
  BY <1>5 DEF Drop, LeftInv
<1>6. ASSUME NEW v \in Values, Register(v) PROVE LeftInv'
  BY <1>6 DEF Register, LeftInv
<1>7. ASSUME NEW v \in Values, RunDtorThatRegisters(v) PROVE LeftInv'
  <2>1. Top \in Alive /\ Delete(Top)
    BY <1>7, TopIsAlive DEF RunDtorThatRegisters
  <2>2. Alive' \subseteq Alive /\ \A w \in Alive' : val'[w] = val[w]
    BY <2>1, DeleteType
  <2>3. Registered \subseteq Registered'
    BY <1>7 DEF RunDtorThatRegisters, ManagerTypes, Registered
  <2> QED BY <1>7, <2>2, <2>3 DEF LeftInv, Unregistered, RunDtorThatRegisters
<1>8. CASE DestroyValue
  BY <1>8 DEF DestroyValue, LeftInv, Unregistered, Alive, Registered, globals
<1>9. CASE RunDtor
  <2>1. Top \in Alive /\ Delete(Top)
    BY <1>9, TopIsAlive DEF RunDtor
  <2>2. /\ Alive' = Alive \ {Top} /\ \A w \in Alive' : val'[w] = val[w]
        /\ Registered' = Registered
    BY <1>9, <2>1, DeleteType DEF RunDtor, Registered
  <2> QED BY <1>9, <2>2 DEF LeftInv, Unregistered, RunDtor
<1>10. CASE RunClearedDtor
  BY <1>10 DEF RunClearedDtor, LeftInv
<1>11. CASE Unregister
  BY <1>11 DEF Unregister, LeftInv, Unregistered, Alive, Registered, globals
<1>12. CASE DestroyZZQQMgr
  BY <1>12 DEF DestroyZZQQMgr, LeftInv
<1>13. CASE DestroyGMPMemMgr
  BY <1>13 DEF DestroyGMPMemMgr, LeftInv
<1>14. CASE UNCHANGED managerVars
  BY <1>14 DEF managerVars, LeftInv, Unregistered, Alive, Registered, globals
<1> QED
  BY <1>1, <1>2, <1>3, <1>4, <1>5, <1>6, <1>7, <1>8, <1>9, <1>10, <1>11, <1>12, <1>13,
     <1>14, Actions

-----------------------------------------------------------------------------
ManagerInv == ManagerTypes /\ StackInv /\ OrderInv /\ CountInv /\ LeftInv

LEMMA InitManagerInv == ManagerInit => ManagerInv
<1> SUFFICES ASSUME ManagerInit PROVE ManagerInv
  OBVIOUS
<1>1. Alive = {} /\ OnStack = {} /\ Registered = {}
  BY DEF ManagerInit, Alive, OnStack, Registered
<1>2. ManagerTypes
  <2>1. IsFiniteSet(Alive)
    BY <1>1, FS_EmptySet
  <2>2. val \in [Alive -> [kind : Kinds, block : Blocks]]
    BY <1>1, EmptyVal DEF ManagerInit
  <2>3. myRefCount \in [Rings -> Int]
    BY DEF ManagerInit
  <2>4. myDtorStack \in Seq(Values \cup {cleared}) /\ registered \in Seq(Values) /\ ran \in Seq(Values)
    BY DEF ManagerInit
  <2>5. DtorFailed = FALSE /\ misplaced = FALSE /\ phase \in Phases
    BY DEF ManagerInit, Phases
  <2>6. gmpFns = "system" /\ myPrevFns = nullptr /\ GMPPoolPtr = nullptr /\ ringMem = nullptr
    BY DEF ManagerInit
  <2> QED BY <1>1, <2>1, <2>2, <2>3, <2>4, <2>5, <2>6 DEF ManagerTypes
<1>3. Number("QQ") = 0 /\ Number("ZZ") = 0
  BY <1>1, <1>2, NumberIsNat
<1>4. CountInv
  BY <1>3 DEF ManagerInit, CountInv, Mine, Rings
<1>5. StackInv /\ OrderInv /\ LeftInv
  BY <1>1 DEF ManagerInit, StackInv, OrderInv, LeftInv
<1> QED BY <1>2, <1>4, <1>5 DEF ManagerInv

LEMMA ManagerStep == ManagerInv /\ [ManagerNext]_managerVars => ManagerInv'
  BY TypeStep, StackStep, OrderStep, CountStep, LeftStep DEF ManagerInv

LEMMA ManagerInvariance == ManagerSpec => []ManagerInv
  BY InitManagerInv, ManagerStep, PTL DEF ManagerSpec

\* RegisterDtorForGlobal and ~GlobalManager: whatever is registered, and whenever,
\* the pseudo-destructors run in the reverse order, each once, and all of them
\* before ZZ and QQ are checked, unless one of them registers another global.
THEOREM GlobalsDieInReverse == ManagerSpec => []DtorsInReverse
<1>1. ManagerInv => DtorsInReverse
  <2> SUFFICES ASSUME ManagerInv, \A i \in 1..Len(myDtorStack) : myDtorStack[i] # cleared
               PROVE  /\ \A i \in 1..Len(ran) : ran[i] = registered[Len(registered) + 1 - i]
                      /\ phase \in {"unregistered", "checked", "gone"} => Len(ran) = Len(registered)
    BY DEF DtorsInReverse
  <2>1. cleared \notin OnStack
    BY DEF OnStack
  <2>2. phase \in {"unregistered", "checked", "gone"} => Len(myDtorStack) = 0
    BY DEF ManagerInv, StackInv
  <2> QED BY <2>1, <2>2 DEF ManagerInv, OrderInv, ManagerTypes
<1> QED BY <1>1, ManagerInvariance, PTL

\* The counts of ZZ and QQ are those of what refers to them: the manager, QQ as a
\* user of ZZ, and the values in each ring.
THEOREM RingCountsAreRight == ManagerSpec => []CountsAreRight
<1>1. ManagerInv => CountsAreRight
  BY DEF ManagerInv, CountInv, CountsAreRight, Mine, Number, OfKind, Alive
<1> QED BY <1>1, ManagerInvariance, PTL

LEMMA VerdictStep ==
  ManagerInv /\ [ManagerNext]_managerVars =>
    [DestroyZZQQMgr =>
       (DtorFailed' <=> (\E v \in Alive : val[v].kind \in Rings) /\ ~LoneInteger)]_managerVars
<1> SUFFICES ASSUME ManagerInv, DestroyZZQQMgr
             PROVE  DtorFailed' <=> (\E v \in Alive : val[v].kind \in Rings) /\ ~LoneInteger
  OBVIOUS
<1>0. phase = "unregistered" /\ DtorFailed' = (DtorFailed \/ StillInUse)
  BY DEF DestroyZZQQMgr
<1>1. Mine = 1 /\ ~DtorFailed
  BY <1>0 DEF ManagerInv, LeftInv, Mine
<1>2. \A R \in Rings : Number(R) \in Nat
  BY NumberIsNat DEF ManagerInv
<1>3. DtorFailed' <=> Number("QQ") > 0 \/ Number("ZZ") > 1
  <2>1. Number("QQ") \in Nat /\ Number("ZZ") \in Nat
    BY <1>2 DEF Rings
  <2>2. /\ myRefCount["QQ"] = 1 + Number("QQ")
        /\ myRefCount["ZZ"] = 2 + Number("ZZ")
    BY <1>1, <2>1 DEF ManagerInv, CountInv
  <2>3. StillInUse <=> Number("QQ") > 0 \/ Number("ZZ") > 1
    BY <2>1, <2>2 DEF StillInUse
  <2> QED BY <1>0, <1>1, <2>3, Zenon
<1>4. /\ Number("QQ") > 0 <=> \E v \in Alive : val[v].kind = "QQ"
      /\ Number("ZZ") > 1
           <=> \E v, w \in Alive : v # w /\ val[v].kind = "ZZ" /\ val[w].kind = "ZZ"
  BY <1>2, NumberIsNat, MoreThanOne DEF ManagerInv, Rings
<1>5. ASSUME NEW v \in Alive, val[v].kind = "QQ" PROVE ~LoneInteger
  BY <1>5 DEF LoneInteger, Rings
<1>6. ASSUME NEW v \in Alive, NEW w \in Alive, v # w, val[v].kind = "ZZ", val[w].kind = "ZZ"
      PROVE  ~LoneInteger
  BY <1>6 DEF LoneInteger, Rings
<1>7. ASSUME \A v \in Alive : val[v].kind # "QQ",
             \A v, w \in Alive : val[v].kind = "ZZ" /\ val[w].kind = "ZZ" => v = w,
             NEW v \in Alive, val[v].kind \in Rings
      PROVE  LoneInteger
  <2>1. val[v].kind = "ZZ" /\ \A w \in Alive \ {v} : val[w].kind \notin Rings
    BY <1>7 DEF Rings
  <2> QED BY <2>1 DEF LoneInteger
<1>8. Number("QQ") > 0 \/ Number("ZZ") > 1
        <=> (\E v \in Alive : val[v].kind \in Rings) /\ ~LoneInteger
  BY <1>4, <1>5, <1>6, <1>7 DEF Rings
<1> QED BY <1>3, <1>8

\* ~ZZQQMgr: whatever clients leave behind, the two counts that it looks at say
\* exactly whether a value that refers to ZZ or to QQ has outlived the manager,
\* except that one element of ZZ on its own goes unnoticed.
THEOREM VerdictIsRight == ManagerSpec => CleanUpVerdict
  BY VerdictStep, ManagerInvariance, PTL DEF ManagerSpec, CleanUpVerdict

-----------------------------------------------------------------------------
LEMMA HomeAfterDelete ==
  ASSUME ManagerTypes, HomeInv, UNCHANGED memory, NEW v \in Alive, Delete(v),
         phase \in {"alive", "unwinding"}
  PROVE  /\ (\A w \in Alive : Home(val[w].block.origin, val[w].block.size))'
         /\ misplaced' = misplaced
<1>1. Alive' \subseteq Alive /\ \A w \in Alive' : val'[w] = val[w]
  BY DeleteType
<1>2. \A w \in Alive : Home(val[w].block.origin, val[w].block.size)
  BY DEF HomeInv
<1>3. Home(ringMem, 1)
  BY DEF HomeInv
<1>4. misplaced' = misplaced
  BY <1>2, <1>3 DEF Delete, ManagerTypes
<1> QED BY <1>1, <1>2, <1>4 DEF memory, Home, AllocatedIn, Small

AllHome == \A v \in Alive : Home(val[v].block.origin, val[v].block.size)

LEMMA HomeStep ==
  ASSUME "cocoa" \notin SecondChoices, "BigInt" \notin Leftovers
  PROVE  ManagerInv /\ HomeInv /\ [ManagerNext]_managerVars => HomeInv'
<1> SUFFICES ASSUME ManagerInv, HomeInv, [ManagerNext]_managerVars PROVE HomeInv'
  OBVIOUS
<1> USE SettingsAssumption
<1>0. ManagerTypes /\ StackInv /\ LeftInv /\ CountInv
  BY DEF ManagerInv
\* What the steps of a living manager have in common.
<1>a. ASSUME UNCHANGED <<memory, ringMem, misplaced>>, AllHome',
             phase \in {"alive", "unwinding"}, phase' \notin {"none", "checked", "gone"}
      PROVE  HomeInv'
  BY <1>a DEF HomeInv, AllHome, memory, Home, AllocatedIn, Small
<1>b. ASSUME UNCHANGED <<memory, val>>, phase \notin {"none", "gone"} PROVE AllHome'
  BY <1>b DEF HomeInv, AllHome, memory, Home, AllocatedIn, Small, Alive
<1>c. ASSUME UNCHANGED <<memory, val, ringMem, misplaced>>, phase \in {"alive", "unwinding"},
             phase' \notin {"none", "checked", "gone"}
      PROVE  HomeInv'
  BY <1>a, <1>b, <1>c
<1>1. ASSUME NEW choice \in {"SystemDefault", "cocoa"}, Construct(choice) PROVE HomeInv'
  <2>1. Alive' = {} /\ phase' = "alive" /\ ~misplaced' /\ gmpFns = "system"
    BY <1>1, <1>0 DEF Construct, HomeInv, StackInv, Alive
  <2>2. CASE choice = "cocoa"
    <3>1. gmpFns' = "cocoa" /\ GMPPoolPtr' = "pool" /\ ringMem' = "pool"
      BY <1>1, <2>2 DEF Construct
    <3>2. Home(ringMem, 1)'
      BY <3>1 DEF Home, AllocatedIn, Small
    <3> QED BY <2>1, <3>2 DEF HomeInv
  <2>3. CASE choice # "cocoa"
    <3>1. gmpFns' = "system" /\ ringMem' = "malloc"
      BY <1>1, <2>1, <2>3 DEF Construct, memory
    <3>2. Home(ringMem, 1)'
      BY <3>1 DEF Home, AllocatedIn
    <3> QED BY <2>1, <3>2 DEF HomeInv
  <2> QED BY <2>2, <2>3
<1>2. ASSUME NEW choice \in {"SystemDefault", "cocoa"}, ConstructSecond(choice)
      PROVE  HomeInv'
  <2>1. choice # "cocoa" /\ phase \in {"alive", "unwinding"}
    BY <1>2 DEF ConstructSecond, IsInitialized
  <2> QED BY <1>2, <2>1, <1>c DEF ConstructSecond, memory
<1>3. ASSUME NEW v \in Values, NEW sz \in 1..MaxSize, NEW kind \in Kinds, New(v, kind, sz)
      PROVE  HomeInv'
  <2>1. phase = "alive" /\ UNCHANGED <<memory, phase, ringMem, misplaced>>
    BY <1>3 DEF New
  <2>2. Alive' = Alive \cup {v} /\ \A w \in Alive : w # v => val'[w] = val[w]
    BY <1>3 DEF New, With, Alive
  <2>3. val'[v].block = [size |-> sz, origin |-> AllocatedIn(sz)]
    BY <1>3 DEF New, With, Block
  <2>4. AllHome'
    BY <2>1, <2>2, <2>3 DEF AllHome, HomeInv, Home, AllocatedIn, Small, memory
  <2> QED BY <2>1, <2>4, <1>a
<1>4. ASSUME NEW v \in Values, NEW sz \in 1..MaxSize, Resize(v, sz) PROVE HomeInv'
  <2>1. /\ phase = "alive" /\ UNCHANGED <<memory, phase, ringMem>> /\ v \in Alive
        /\ misplaced' = (misplaced \/ ~ReallocHome(val[v].block, sz))
        /\ val' = [val EXCEPT ![v].block = Reallocated(val[v].block, sz)]
    BY <1>4 DEF Resize
  <2>2. val[v].block \in Blocks /\ Home(val[v].block.origin, val[v].block.size)
    BY <2>1, <1>0 DEF ManagerTypes, HomeInv
  <2>3. misplaced' = misplaced
    BY <2>1, <2>2, <1>0 DEF ReallocHome, ManagerTypes
  <2>4. /\ Alive' = Alive /\ \A w \in Alive : w # v => val'[w] = val[w]
        /\ val'[v].block = Reallocated(val[v].block, sz)
    BY <2>1, <1>0 DEF ManagerTypes, Alive
  <2>5. Home(Reallocated(val[v].block, sz).origin, Reallocated(val[v].block, sz).size)
    BY <2>2 DEF Reallocated, Block, Home, AllocatedIn, Small, Blocks
  <2>6. AllHome'
    BY <2>1, <2>4, <2>5 DEF AllHome, HomeInv, Home, AllocatedIn, Small, memory
  <2> QED BY <2>1, <2>3, <2>6, <1>a
<1>5. ASSUME NEW v \in Values, Drop(v) PROVE HomeInv'
  <2>1. v \in Alive /\ v \in Unregistered /\ Delete(v)
        /\ UNCHANGED <<phase, memory, ringMem, DtorFailed>> /\ phase \in {"alive", "gone"}
    BY <1>5 DEF Drop, Unregistered
  <2>2. CASE phase = "alive"
    BY <2>1, <2>2, <1>0, <1>a, HomeAfterDelete DEF AllHome
  <2>3. CASE phase = "gone"
    <3>1. Alive' \subseteq Alive /\ \A w \in Alive' : val'[w] = val[w]
      BY <2>1, <1>0, DeleteType DEF Unregistered
    <3> QED BY <2>1, <2>3, <3>1 DEF HomeInv
  <2> QED BY <2>1, <2>2, <2>3
<1>6. ASSUME NEW v \in Values, Register(v) PROVE HomeInv'
  BY <1>6, <1>c DEF Register
<1>7. ASSUME NEW v \in Values, RunDtorThatRegisters(v) PROVE HomeInv'
  <2>1. Top \in Alive /\ Delete(Top) /\ phase = "unwinding" /\ UNCHANGED <<phase, memory, ringMem>>
    BY <1>7, <1>0, TopIsAlive DEF RunDtorThatRegisters
  <2> QED BY <2>1, <1>0, <1>a, HomeAfterDelete DEF AllHome
<1>8. CASE DestroyValue
  BY <1>8, <1>c DEF DestroyValue
<1>9. CASE RunDtor
  <2>1. Top \in Alive /\ Delete(Top) /\ phase = "unwinding" /\ UNCHANGED <<phase, memory, ringMem>>
    BY <1>9, <1>0, TopIsAlive DEF RunDtor
  <2> QED BY <2>1, <1>0, <1>a, HomeAfterDelete DEF AllHome
<1>10. CASE RunClearedDtor
  BY <1>10, <1>c DEF RunClearedDtor
<1>11. CASE Unregister
  BY <1>11, <1>c DEF Unregister
<1>12. CASE DestroyZZQQMgr
  <2>1. phase = "unregistered" /\ phase' = "checked" /\ UNCHANGED <<memory, ringMem, val>>
    BY <1>12 DEF DestroyZZQQMgr
  <2>2. ~misplaced'
    BY <1>12, <2>1 DEF DestroyZZQQMgr, HomeInv
  <2>3. AllHome'
    BY <2>1, <1>b
  <2>4. DtorFailed' \/ \A v, w \in Alive : val[v].kind = "ZZ" /\ v = w
    <3>1. DtorFailed' <=> (\E v \in Alive : val[v].kind \in Rings) /\ ~LoneInteger
      <4>1. managerVars' # managerVars
        BY <2>1 DEF managerVars
      <4> QED BY <1>12, <4>1, VerdictStep
    <3>2. \A v \in Alive : val[v].kind \in Rings
      <4>1. myDtorStack = << >>
        BY <1>0, <2>1 DEF StackInv
      <4>2. OnStack = {}
        BY <4>1 DEF OnStack
      <4>3. \A v \in Alive : val[v].kind \in Leftovers
        BY <1>0, <2>1, <4>2 DEF StackInv, LeftInv, Unregistered
      <4> QED BY <4>3 DEF Rings
    <3> SUFFICES ASSUME LoneInteger PROVE \A v, w \in Alive : val[v].kind = "ZZ" /\ v = w
      BY <3>1, <3>2
    <3> QED BY <3>2 DEF LoneInteger
  <2>5. Alive' = Alive
    BY <2>1 DEF Alive
  <2> QED BY <2>1, <2>2, <2>3, <2>4, <2>5 DEF HomeInv, AllHome
<1>13. CASE DestroyGMPMemMgr
  BY <1>13 DEF DestroyGMPMemMgr, HomeInv, Alive
<1>14. CASE UNCHANGED managerVars
  BY <1>14 DEF managerVars, HomeInv, memory, Home, AllocatedIn, Small, Alive
<1> QED
  BY <1>1, <1>2, <1>3, <1>4, <1>5, <1>6, <1>7, <1>8, <1>9, <1>10, <1>11, <1>12, <1>13,
     <1>14, Actions

LEMMA WarnedStep ==
  ASSUME "cocoa" \notin SecondChoices, "BigInt" \notin Leftovers
  PROVE  ManagerInv /\ HomeInv /\ [ManagerNext]_managerVars =>
           [misplaced' => misplaced \/ DtorFailed \/ (phase = "gone" /\ LoneInteger)]_managerVars
<1> SUFFICES ASSUME ManagerInv, HomeInv, ManagerNext, misplaced', ~misplaced, ~DtorFailed
             PROVE  phase = "gone" /\ LoneInteger
  OBVIOUS
<1>1. HomeInv'
  BY HomeStep
<1>2. phase' = "gone"
  BY <1>1 DEF HomeInv
<1>3. ManagerTypes /\ StackInv
  BY DEF ManagerInv
<1>4. PICK v \in Values : Drop(v) /\ phase = "gone"
  <2>1. ~DestroyGMPMemMgr
    BY DEF DestroyGMPMemMgr
  <2> QED BY <1>2, <2>1 DEF ManagerNext, Construct, ConstructSecond, New, Resize, Drop,
            Register, RunDtorThatRegisters, DestroyValue, RunDtor, RunClearedDtor,
            Unregister, DestroyZZQQMgr, IsInitialized
<1>5. v \in Alive
  BY <1>4 DEF Drop, Unregistered
<1>6. \A x, w \in Alive : val[x].kind = "ZZ" /\ x = w
  BY <1>4 DEF HomeInv
<1> QED BY <1>4, <1>5, <1>6 DEF LoneInteger

\* ~GMPMemMgr: a block goes back to an allocator that did not make it only after
\* DtorError has spoken, or when it is that of a lone element of ZZ; provided that
\* what clients leave is counted (a big integer on its own is not) and that there is
\* no second try at a manager that installs memory functions.
THEOREM DamageIsWarnedOf ==
  ASSUME "cocoa" \notin SecondChoices, "BigInt" \notin Leftovers
  PROVE  ManagerSpec => WarnedBeforeDamage
<1>1. ManagerInit => HomeInv
  BY DEF ManagerInit, HomeInv
<1>2. ManagerInv /\ HomeInv /\ [ManagerNext]_managerVars => HomeInv'
  BY HomeStep
<1>3. ManagerInv /\ HomeInv /\ [ManagerNext]_managerVars =>
        [misplaced' => misplaced \/ DtorFailed \/ (phase = "gone" /\ LoneInteger)]_managerVars
  BY WarnedStep
<1> QED BY <1>1, <1>2, <1>3, ManagerInvariance, PTL DEF ManagerSpec, WarnedBeforeDamage

(***************************************************************************)
(* The loaf sizes, for any constants that are related as those of          *)
(* MemPool.C are (SizeAssumption).  The inductive invariant says that      *)
(* each loaf is cut from a target of at most MaxLoafBytes.  What it        *)
(* leaves over is less than a slice, so the next search for a target finds *)
(* the same one again, and what it doubles is never the longest.           *)
(***************************************************************************)
\* What division finds.
LEMMA Division ==
  ASSUME NEW x \in Int, NEW y \in Nat \ {0}
  PROVE  /\ x \div y \in Int
         /\ (x \div y) * y <= x /\ x < (x \div y) * y + y
  OBVIOUS

LEMMA MulMonotone ==
  ASSUME NEW a \in Int, NEW b \in Int, NEW y \in Nat, a <= b
  PROVE  a * y <= b * y
<1> PICK d \in Nat : b = a + d
  <2> WITNESS b - a \in Nat
  <2> QED OBVIOUS
<1>1. b * y = a * y + d * y
  OBVIOUS
<1>2. d * y \in Nat
  OBVIOUS
<1>3. a * y \in Int
  OBVIOUS
<1> QED BY <1>1, <1>2, <1>3

LEMMA QuotientAtLeast ==
  ASSUME NEW x \in Int, NEW y \in Nat \ {0}, NEW q \in Int, q * y <= x
  PROVE  q <= x \div y
<1> PICK r \in Int : r = x \div y
  BY Division
<1>1. x < r * y + y
  BY Division
<1>2. (r + 1) * y = r * y + y
  OBVIOUS
<1> SUFFICES ASSUME ~(q <= r) PROVE FALSE
  OBVIOUS
<1>3. r + 1 <= q
  OBVIOUS
<1>4. (r + 1) * y <= q * y
  BY <1>3, MulMonotone
<1>5. (r + 1) * y \in Int /\ q * y \in Int /\ r * y \in Int
  OBVIOUS
<1> QED BY <1>1, <1>2, <1>4, <1>5

LEMMA SliceBytesMonotone ==
  ASSUME NEW w \in Nat \ {0}, NEW r \in Nat \ {0}, NEW m \in Nat \ {0}, r <= m
  PROVE  /\ w * (1 + ((r - 1) \div w)) \in Nat \ {0}
         /\ w * (1 + ((r - 1) \div w)) <= w * (1 + ((m - 1) \div w))
<1> PICK x, y : x = r - 1 /\ y = m - 1
  OBVIOUS
<1>1. x \in Nat /\ y \in Nat /\ x <= y
  OBVIOUS
<1> PICK a, b : a = x \div w /\ b = y \div w
  OBVIOUS
<1>2. a \in Int /\ b \in Int /\ a * w <= x
  BY <1>1, Division
<1>3. a <= b
  <2>1. a * w <= y /\ a * w \in Int
    BY <1>1, <1>2
  <2> QED BY <1>1, <1>2, <2>1, QuotientAtLeast
<1>4. 0 <= a
  <2>1. 0 * w <= x /\ 0 \in Int
    BY <1>1
  <2> QED BY <1>1, <2>1, QuotientAtLeast
<1>5. (1 + a) * w <= (1 + b) * w
  BY <1>2, <1>3, MulMonotone
<1>6. (1 + a) * w = w * (1 + a) /\ (1 + b) * w = w * (1 + b)
  BY <1>2
<1>7. w * (1 + a) \in Nat \ {0}
  BY <1>2, <1>4
<1> QED BY <1>5, <1>6, <1>7

-----------------------------------------------------------------------------
\* The targets: each is twice the one before, so that a smaller one is at most half.
LEMMA DoubledFacts ==
  ASSUME MinLoafBytes \in Nat \ {0}
  PROVE  /\ Doubled[0] = MinLoafBytes
         /\ \A k \in Nat : Doubled[k] \in Nat \ {0} /\ Doubled[k + 1] = 2 * Doubled[k]
<1> DEFINE step == [ix \in Nat \X Nat |-> 2 * ix[2]]
           Is(f) == f = [k \in Nat |-> IF k = 0 THEN MinLoafBytes ELSE 2 * f[k - 1]]
<1>1. step \in [Nat \X Nat -> Nat]
  OBVIOUS
<1>2. PICK f \in [Nat -> Nat] : OnNat(f, MinLoafBytes, step)
  <2> HIDE DEF step
  <2>1. MinLoafBytes \in Nat
    OBVIOUS
  <2> QED BY <1>1, <2>1, RecursionOnNat, Zenon
<1>3. \A k \in Nat : f[k] = IF k = 0 THEN MinLoafBytes ELSE 2 * f[k - 1]
  <2> SUFFICES ASSUME NEW k \in Nat
               PROVE  f[k] = IF k = 0 THEN MinLoafBytes ELSE 2 * f[k - 1]
    OBVIOUS
  <2>1. CASE k = 0
    BY <1>2, <2>1 DEF OnNat
  <2>2. CASE k # 0
    <3>1. <<k, f[k - 1]>> \in Nat \X Nat
      BY <2>2
    <3>2. f[k] = step[<<k, f[k - 1]>>]
      <4> HIDE DEF step
      <4> QED BY <1>2, <2>2 DEF OnNat
    <3> QED BY <2>2, <3>1, <3>2
  <2> QED BY <2>1, <2>2
<1>4. Is(f)
  BY <1>3
<1>5. Doubled = CHOOSE h : Is(h)
  BY Zenon DEF Doubled
<1>6. Is(Doubled)
  <2> HIDE DEF Is
  <2> QED BY <1>4, <1>5
<1> DEFINE D == Doubled
<1>7. \A k \in Nat : D[k] = IF k = 0 THEN MinLoafBytes ELSE 2 * D[k - 1]
  BY <1>6
<1> HIDE DEF Is, D, step
<1>8. \A k \in Nat : D[k + 1] = 2 * D[k]
  <2> SUFFICES ASSUME NEW k \in Nat PROVE D[k + 1] = 2 * D[k]
    OBVIOUS
  <2>1. (k + 1) - 1 = k /\ k + 1 # 0 /\ k + 1 \in Nat
    OBVIOUS
  <2> QED BY <1>7, <2>1
<1>9. \A k \in Nat : D[k] \in Nat \ {0}
  <2> DEFINE S == {k \in Nat : D[k] \in Nat \ {0}}
  <2>1. 0 \in S
    BY <1>7
  <2>2. ASSUME NEW k \in Nat, k \in S PROVE k + 1 \in S
    <3>1. D[k + 1] = 2 * D[k]
      BY <1>8
    <3> QED BY <2>2, <3>1
  <2> HIDE DEF S
  <2>3. Nat \subseteq S
    BY <2>1, <2>2, SetInduction
  <2> QED BY <2>3 DEF S
<1> QED BY <1>7, <1>8, <1>9 DEF D

LEMMA DoubledGrows ==
  ASSUME MinLoafBytes \in Nat \ {0}, NEW i \in Nat, NEW j \in Nat, i < j
  PROVE  2 * Doubled[i] <= Doubled[j]
<1> PICK D : D = Doubled
  OBVIOUS
<1>1. \A k \in Nat : D[k] \in Nat \ {0} /\ D[k + 1] = 2 * D[k]
  BY DoubledFacts
<1> DEFINE S == {k \in Nat : 2 * D[i] <= D[i + 1 + k]}
<1>2. 0 \in S
  <2>1. i + 1 + 0 = i + 1
    OBVIOUS
  <2>2. D[i + 1] = 2 * D[i] /\ D[i] \in Nat
    BY <1>1
  <2> QED BY <2>1, <2>2
<1>3. ASSUME NEW k \in Nat, k \in S PROVE k + 1 \in S
  <2>1. i + 1 + (k + 1) = (i + 1 + k) + 1 /\ i + 1 + k \in Nat
    OBVIOUS
  <2>2. D[i + 1 + (k + 1)] = 2 * D[i + 1 + k] /\ D[i + 1 + k] \in Nat /\ D[i] \in Nat
    BY <1>1, <2>1
  <2> QED BY <1>3, <2>2
<1> HIDE DEF S
<1>4. Nat \subseteq S
  BY <1>2, <1>3, SetInduction
<1>5. j - i - 1 \in S
  BY <1>4
<1>6. i + 1 + (j - i - 1) = j
  OBVIOUS
<1> QED BY <1>5, <1>6 DEF S

LEMMA LoafTargets ==
  /\ TargetLoafSizes \subseteq Nat \ {0}
  /\ \A t \in TargetLoafSizes : MinLoafBytes <= t
  /\ \A t, u \in TargetLoafSizes : u < t => 2 * u <= t
  /\ \A t, u \in TargetLoafSizes : u < t => 2 * u \in TargetLoafSizes
<1>1. MinLoafBytes \in Nat \ {0} /\ MaxDoublings \in Nat
  BY SizeAssumption
<1> PICK D : D = Doubled
  OBVIOUS
<1>2. D[0] = MinLoafBytes /\ \A k \in Nat : D[k] \in Nat \ {0} /\ D[k + 1] = 2 * D[k]
  BY <1>1, DoubledFacts
<1>3. \A i, j \in Nat : i < j => 2 * D[i] <= D[j]
  BY <1>1, DoubledGrows
<1>4. ASSUME NEW t \in TargetLoafSizes
      PROVE  \E k \in 0..MaxDoublings : t = D[k]
  BY DEF TargetLoafSizes
<1>5. ASSUME NEW t \in TargetLoafSizes PROVE t \in Nat \ {0} /\ MinLoafBytes <= t
  <2> PICK k \in 0..MaxDoublings : t = D[k]
    BY <1>4
  <2>1. k \in Nat /\ t \in Nat \ {0}
    BY <1>1, <1>2
  <2>2. CASE k = 0
    BY <1>1, <1>2, <2>1, <2>2
  <2>3. CASE k # 0
    <3>1. 2 * D[0] <= D[k] /\ D[0] \in Nat /\ D[k] \in Nat
      BY <1>2, <1>3, <2>1, <2>3
    <3> QED BY <1>2, <2>1, <3>1
  <2> QED BY <2>2, <2>3
<1>6. ASSUME NEW t \in TargetLoafSizes, NEW u \in TargetLoafSizes, u < t
      PROVE  2 * u <= t /\ 2 * u \in TargetLoafSizes
  <2> PICK j \in 0..MaxDoublings : t = D[j]
    BY <1>4
  <2> PICK i \in 0..MaxDoublings : u = D[i]
    BY <1>4
  <2>1. i \in Nat /\ j \in Nat /\ t \in Nat /\ u \in Nat /\ D[i] \in Nat /\ D[j] \in Nat
    BY <1>1, <1>2
  <2>2. i < j
    <3> SUFFICES ASSUME ~(i < j) PROVE FALSE
      OBVIOUS
    <3>1. j = i \/ j < i
      BY <2>1
    <3>2. CASE j = i
      BY <1>6, <2>1, <3>2
    <3>3. CASE j < i
      <4>1. 2 * D[j] <= D[i]
        BY <1>3, <2>1, <3>3
      <4> QED BY <1>6, <2>1, <4>1
    <3> QED BY <3>1, <3>2, <3>3
  <2>3. 2 * u <= t
    BY <1>3, <2>1, <2>2
  <2>4. i + 1 \in 0..MaxDoublings /\ 2 * u = D[i + 1]
    BY <1>1, <1>2, <2>1, <2>2
  <2> QED BY <2>3, <2>4 DEF TargetLoafSizes
<1> QED BY <1>5, <1>6

LEMMA LeastIs ==
  ASSUME NEW S, NEW m \in S, S \subseteq Nat, \A n \in S : m <= n
  PROVE  Least(S) = m
<1> PICK l : l = Least(S)
  OBVIOUS
<1>1. l \in S /\ \A n \in S : l <= n
  BY DEF Least
<1>2. l <= m /\ m <= l /\ l \in Nat /\ m \in Nat
  BY <1>1
<1> QED BY <1>2

\* The slices that fit in a target.
Cut(t, sz) == (t - allowance) \div sz

\* A pool of slices it does not leave to the system: sz bytes each.
Short(sz) ==
  /\ sz \in Nat \ {0}
  /\ 2 * (sz + allowance) <= MinLoafBytes
  /\ MinSlices * sz + allowance <= MaxLoafBytes

LEMMA BytesAreShort ==
  ASSUME NEW r \in Requests, r <= MaxSliceSize
  PROVE  Short(SliceBytes(r))
<1> PICK b, m : b = SliceBytes(r) /\ m = SliceBytes(MaxSliceSize)
  OBVIOUS
<1>1. /\ {WordSize, MaxSliceSize, r, MinLoafBytes, MaxLoafBytes, MinSlices} \subseteq Nat \ {0}
      /\ allowance \in Nat \ {0}
      /\ 2 * (m + allowance) <= MinLoafBytes /\ MinSlices * m + allowance <= MaxLoafBytes
  BY SizeAssumption
<1>2. b \in Nat \ {0} /\ b <= m /\ m \in Nat \ {0}
  <2>1. WordSize \in Nat \ {0} /\ r \in Nat \ {0} /\ MaxSliceSize \in Nat \ {0}
    BY <1>1
  <2>2. /\ b = WordSize * (1 + ((r - 1) \div WordSize))
        /\ m = WordSize * (1 + ((MaxSliceSize - 1) \div WordSize))
    BY DEF SliceBytes
  <2>3. b \in Nat \ {0} /\ b <= m
    BY <2>1, <2>2, SliceBytesMonotone, Zenon
  <2>4. MaxSliceSize <= MaxSliceSize
    BY <2>1
  <2> QED BY <2>1, <2>2, <2>3, <2>4, SliceBytesMonotone, Zenon
<1>3. MinSlices * b <= MinSlices * m /\ MinSlices * b \in Nat /\ MinSlices * m \in Nat
  <2>1. b * MinSlices <= m * MinSlices
    BY <1>1, <1>2, MulMonotone
  <2>2. b * MinSlices = MinSlices * b /\ m * MinSlices = MinSlices * m
    BY <1>1, <1>2
  <2> QED BY <1>1, <1>2, <2>1, <2>2
<1>4. 2 * (b + allowance) <= MinLoafBytes
  BY <1>1, <1>2
<1>5. MinSlices * b + allowance <= MaxLoafBytes
  BY <1>1, <1>3
<1> QED BY <1>2, <1>4, <1>5 DEF Short

\* How full a loaf is that has been cut from a target.
LEMMA CutFacts ==
  ASSUME NEW sz, Short(sz), NEW t \in TargetLoafSizes
  PROVE  /\ Cut(t, sz) \in Nat
         /\ Cut(t, sz) * sz + allowance <= t
         /\ Cut(t, sz) * sz + allowance + sz > t
         /\ 2 * (Cut(t, sz) * sz) > t
<1>1. t \in Nat \ {0} /\ MinLoafBytes <= t
  BY LoafTargets
<1>2. /\ sz \in Nat \ {0} /\ allowance \in Nat \ {0} /\ MinLoafBytes \in Nat
      /\ 2 * (sz + allowance) <= MinLoafBytes
  BY SizeAssumption DEF Short
<1> PICK x, q : x = t - allowance /\ q = x \div sz
  OBVIOUS
<1>3. x \in Int /\ 0 * sz <= x /\ 0 \in Int
  BY <1>1, <1>2
<1>4. q \in Int /\ q * sz <= x /\ x < q * sz + sz
  BY <1>2, <1>3, Division
<1>5. 0 <= q
  BY <1>2, <1>3, QuotientAtLeast
<1>6. q \in Nat /\ q * sz \in Int
  BY <1>2, <1>4, <1>5
<1>7. q * sz + allowance <= t /\ q * sz + allowance + sz > t /\ 2 * (q * sz) > t
  BY <1>1, <1>2, <1>4, <1>6
<1> QED BY <1>6, <1>7 DEF Cut

LEMMA InitialFits ==
  ASSUME NEW sz, Short(sz)
  PROVE  \E t \in TargetLoafSizes :
            /\ t <= MaxLoafBytes
            /\ InitialLoafSlices(sz, MinSlices) = Cut(t, sz)
            /\ Cut(t, sz) >= MinSlices
<1>1. /\ sz \in Nat \ {0} /\ allowance \in Nat \ {0} /\ MinSlices \in Nat /\ MaxLoafBytes \in Nat \ {0}
      /\ MinLoafBytes \in Nat /\ MaxLoafBytes \in TargetLoafSizes
      /\ 2 * (sz + allowance) <= MinLoafBytes /\ MinSlices * sz + allowance <= MaxLoafBytes
  BY SizeAssumption DEF Short
<1>2. /\ TargetLoafSizes \subseteq Nat \ {0} /\ MinLoafBytes <= MaxLoafBytes
      /\ \A t \in TargetLoafSizes : t < MaxLoafBytes => 2 * t <= MaxLoafBytes
  BY <1>1, LoafTargets
<1> PICK h \in Nat : h = MaxLoafBytes \div 2 /\ 2 * h <= MaxLoafBytes /\ MaxLoafBytes <= 2 * h + 1
  <2>1. MaxLoafBytes \div 2 \in Nat
    BY <1>1
  <2> WITNESS MaxLoafBytes \div 2 \in Nat
  <2> QED BY <1>1
<1> DEFINE Enough(t) == t > h \/ (t - allowance) \div sz >= MinSlices
           T == {t \in TargetLoafSizes : Enough(t)}
<1>3. ~(sz > h)
  BY <1>1, <1>2
<1>4. MaxLoafBytes \in T
  BY <1>1
<1>5. T \in SUBSET Nat
  BY <1>2
<1> PICK m \in T : \A n \in T : m <= n
  <2> HIDE DEF T
  <2> QED BY <1>4, <1>5, LeastElement
<1>6. InitialLoafSlices(sz, MinSlices) = Cut(m, sz)
  <2>1. Least(T) = m
    <3> HIDE DEF T
    <3> QED BY <1>5, LeastIs
  <2>2. InitialLoafSlices(sz, MinSlices) = (Least(T) - allowance) \div sz
    BY <1>3 DEF InitialLoafSlices
  <2> HIDE DEF T
  <2> QED BY <2>1, <2>2 DEF Cut
<1>7. m \in TargetLoafSizes /\ m <= MaxLoafBytes /\ m \in Nat
  BY <1>2, <1>4
<1>8. Cut(m, sz) >= MinSlices
  <2>1. CASE m > h
    <3>1. m = MaxLoafBytes
      BY <1>1, <1>2, <1>7, <2>1
    <3> PICK x : x = m - allowance
      OBVIOUS
    <3>2. x \in Int /\ MinSlices * sz <= x /\ MinSlices \in Int
      <4>1. MinSlices * sz \in Nat
        BY <1>1
      <4> QED BY <1>1, <3>1, <4>1
    <3>3. MinSlices <= x \div sz /\ x \div sz \in Int
      BY <1>1, <3>2, QuotientAtLeast, Division
    <3> QED BY <1>1, <3>3 DEF Cut
  <2>2. CASE ~(m > h)
    BY <2>2 DEF Cut
  <2> QED BY <2>1, <2>2
<1> QED BY <1>6, <1>7, <1>8

LEMMA IncrGrows ==
  ASSUME NEW sz, Short(sz), NEW t \in TargetLoafSizes, t <= MaxLoafBytes
  PROVE  LET s == Cut(t, sz)
         IN  \/ IncrLoafSlices(s, sz) = s /\ 2 * (s * sz) > MaxLoafBytes
             \/ /\ 2 * t \in TargetLoafSizes /\ 2 * t <= MaxLoafBytes
                /\ IncrLoafSlices(s, sz) = Cut(2 * t, sz)
                /\ Cut(2 * t, sz) >= 2 * s
<1> PICK s : s = Cut(t, sz)
  OBVIOUS
<1> PICK c : c = s * sz
  OBVIOUS
<1>1. /\ s \in Nat /\ c \in Nat /\ c + allowance <= t /\ c + allowance + sz > t
      /\ 2 * c > t
  <2>1. s * sz \in Nat
    BY CutFacts DEF Short
  <2> QED BY <2>1, CutFacts
<1>2. /\ sz \in Nat \ {0} /\ allowance \in Nat \ {0} /\ MaxLoafBytes \in Nat \ {0}
      /\ MaxLoafBytes \in TargetLoafSizes /\ t \in Nat \ {0}
  BY LoafTargets, SizeAssumption DEF Short
<1>3. CASE c > MaxLoafBytes \div 2
  <2>1. IncrLoafSlices(s, sz) = s
    BY <1>3 DEF IncrLoafSlices
  <2>2. 2 * c > MaxLoafBytes
    BY <1>1, <1>2, <1>3
  <2> QED BY <2>1, <2>2
<1>4. CASE ~(c > MaxLoafBytes \div 2)
  <2>1. t < MaxLoafBytes
    BY <1>1, <1>2, <1>4
  <2>2. 2 * t <= MaxLoafBytes /\ 2 * t \in TargetLoafSizes
    BY <1>2, <2>1, LoafTargets
  <2> DEFINE T == {u \in TargetLoafSizes : u > c}
  <2>3. t \in T /\ T \subseteq Nat
    <3>1. t > c
      BY <1>1, <1>2
    <3>2. TargetLoafSizes \subseteq Nat \ {0}
      BY LoafTargets
    <3> QED BY <3>1, <3>2
  <2>4. ASSUME NEW u \in T PROVE t <= u
    <3>1. u \in TargetLoafSizes /\ u \in Nat /\ u > c /\ (u < t => 2 * u <= t)
      BY LoafTargets
    <3> HIDE DEF T
    <3> QED BY <1>1, <1>2, <3>1
  <2>5. Least(T) = t
    <3> HIDE DEF T
    <3> QED BY <2>3, <2>4, LeastIs
  <2>6. IncrLoafSlices(s, sz) = (2 * Least(T) - allowance) \div sz
    BY <1>4 DEF IncrLoafSlices
  <2> HIDE DEF T
  <2>7. IncrLoafSlices(s, sz) = Cut(2 * t, sz)
    BY <2>5, <2>6 DEF Cut
  <2>8. Cut(2 * t, sz) >= 2 * s
    <3> PICK x : x = 2 * t - allowance
      OBVIOUS
    <3>1. (2 * s) * sz = 2 * c
      BY <1>1, <1>2
    <3>2. x \in Int /\ 2 * s \in Int /\ (2 * s) * sz <= x
      BY <1>1, <1>2, <3>1
    <3>3. 2 * s <= x \div sz /\ x \div sz \in Int
      BY <1>2, <3>2, QuotientAtLeast, Division
    <3> QED BY <1>1, <3>3 DEF Cut
  <2> QED BY <2>2, <2>7, <2>8
<1> QED BY <1>3, <1>4

-----------------------------------------------------------------------------
\* A pool that makes loaves cuts each from a target.
SizesInv ==
  /\ request \in Requests
  /\ request <= MaxSliceSize =>
       \E t \in TargetLoafSizes : /\ t <= MaxLoafBytes
                                  /\ slicesPerLoaf = Cut(t, bytes)
                                  /\ slicesPerLoaf >= MinSlices

LEMMA NextSizesInv ==
  ASSUME SizesInv, [LoafNext]_loafVars
  PROVE  /\ SizesInv'
         /\ loafVars' # loafVars /\ made > 0 =>
              \/ slicesPerLoaf' >= 2 * slicesPerLoaf
              \/ slicesPerLoaf' = slicesPerLoaf /\ 2 * LoafBytes > MaxLoafBytes
<1>1. CASE MakeNewLoaf
  <2> PICK b : b = bytes
    OBVIOUS
  <2>1. request \in Requests /\ request' = request /\ request <= MaxSliceSize /\ b = bytes'
    BY <1>1 DEF MakeNewLoaf, SizesInv, bytes
  <2>2. Short(b)
    BY <2>1, BytesAreShort DEF bytes
  <2> PICK t \in TargetLoafSizes : /\ t <= MaxLoafBytes
                                   /\ slicesPerLoaf = Cut(t, b)
                                   /\ slicesPerLoaf >= MinSlices
    BY <2>1 DEF SizesInv
  <2> PICK s : s = Cut(t, b)
    OBVIOUS
  <2>3. CASE made = 0
    BY <1>1, <2>1, <2>3 DEF MakeNewLoaf, SizesInv
  <2>4. CASE made # 0
    <3>1. slicesPerLoaf' = IncrLoafSlices(s, b)
      BY <1>1, <2>4 DEF MakeNewLoaf
    <3>2. \/ IncrLoafSlices(s, b) = s /\ 2 * (s * b) > MaxLoafBytes
          \/ /\ 2 * t \in TargetLoafSizes /\ 2 * t <= MaxLoafBytes
             /\ IncrLoafSlices(s, b) = Cut(2 * t, b) /\ Cut(2 * t, b) >= 2 * s
      BY <2>2, IncrGrows
    <3>3. CASE IncrLoafSlices(s, b) = s /\ 2 * (s * b) > MaxLoafBytes
      BY <2>1, <3>1, <3>3 DEF SizesInv, LoafBytes
    <3>4. CASE /\ 2 * t \in TargetLoafSizes /\ 2 * t <= MaxLoafBytes
               /\ IncrLoafSlices(s, b) = Cut(2 * t, b) /\ Cut(2 * t, b) >= 2 * s
      <4>1. s \in Nat /\ MinSlices \in Nat /\ Cut(2 * t, b) \in Nat
        BY <2>2, <3>4, CutFacts, SizeAssumption
      <4>2. slicesPerLoaf' = Cut(2 * t, b) /\ slicesPerLoaf' >= 2 * slicesPerLoaf
        BY <3>1, <3>4
      <4>3. slicesPerLoaf' >= MinSlices
        BY <3>4, <4>1, <4>2
      <4> QED BY <2>1, <3>4, <4>2, <4>3 DEF SizesInv
    <3> QED BY <3>2, <3>3, <3>4
  <2> QED BY <2>3, <2>4
<1>2. CASE UNCHANGED loafVars
  BY <1>2 DEF loafVars, SizesInv, bytes
<1> QED BY <1>1, <1>2 DEF LoafNext

LEMMA SizesInvariance == LoafSpec => []SizesInv
<1>1. LoafInit => SizesInv
  <2> SUFFICES ASSUME LoafInit PROVE SizesInv
    OBVIOUS
  <2> SUFFICES ASSUME request <= MaxSliceSize
               PROVE  \E t \in TargetLoafSizes : /\ t <= MaxLoafBytes
                                                 /\ slicesPerLoaf = Cut(t, bytes)
                                                 /\ slicesPerLoaf >= MinSlices
    BY DEF LoafInit, SizesInv
  <2> PICK b : b = bytes
    OBVIOUS
  <2>1. Short(b) /\ slicesPerLoaf = InitialLoafSlices(b, MinSlices)
    BY BytesAreShort DEF bytes, LoafInit
  <2> QED BY <2>1, InitialFits
<1>2. SizesInv /\ [LoafNext]_loafVars => SizesInv'
  BY NextSizesInv
<1> QED BY <1>1, <1>2, PTL DEF LoafSpec

\* MaxLoafBytes: with its allowance no loaf is longer, although IncrLoafSlices
\* doubles a target that it has rounded up; and each has the MinSlices slices.
THEOREM LoavesFit == LoafSpec => []LoafFits
<1>1. SizesInv => LoafFits
  <2> SUFFICES ASSUME SizesInv, request <= MaxSliceSize
               PROVE  LoafBytes + allowance <= MaxLoafBytes /\ slicesPerLoaf >= MinSlices
    BY DEF LoafFits
  <2> PICK b : b = bytes
    OBVIOUS
  <2>1. Short(b)
    BY BytesAreShort DEF SizesInv, bytes
  <2> PICK t \in TargetLoafSizes : /\ t <= MaxLoafBytes
                                   /\ slicesPerLoaf = Cut(t, b)
                                   /\ slicesPerLoaf >= MinSlices
    BY DEF SizesInv
  <2> PICK c : c = Cut(t, b) * b
    OBVIOUS
  <2>2. c + allowance <= t /\ c \in Int /\ t \in Int /\ allowance \in Int /\ MaxLoafBytes \in Int
    <3>1. Cut(t, b) * b \in Int
      BY <2>1, CutFacts DEF Short
    <3>2. t \in Int
      BY LoafTargets
    <3> QED BY <2>1, <3>1, <3>2, CutFacts, SizeAssumption
  <2>3. c + allowance <= MaxLoafBytes
    BY <2>2
  <2> QED BY <2>3 DEF LoafBytes
<1> QED BY <1>1, SizesInvariance, PTL

\* IncrLoafSlices: loaves at least double in slices until one is longer than half
\* of MaxLoafBytes, and stay as they are from then on.
THEOREM LoavesDouble == LoafSpec => DoublesToTheCap
<1>1. SizesInv /\ [LoafNext]_loafVars =>
        [made > 0 => \/ slicesPerLoaf' >= 2 * slicesPerLoaf
                     \/ slicesPerLoaf' = slicesPerLoaf /\ 2 * LoafBytes > MaxLoafBytes]_loafVars
  BY NextSizesInv
<1> QED BY <1>1, SizesInvariance, PTL DEF LoafSpec, DoublesToTheCap

=============================================================================
