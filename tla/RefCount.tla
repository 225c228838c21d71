------------------------------ MODULE RefCount ------------------------------
(***************************************************************************)
(* SmartPtrIRC and IntrusiveReferenceCount (SmartPtrIRC.H), and how rings  *)
(* use them: an object may hold a pointer to its base object, and pointers *)
(* to itself (a ring's zero and one) which its constructor takes out of    *)
(* the count.  A decrement is two steps, --count and the test for zero;    *)
(* the destructor it starts decrements in its turn.                        *)
(***************************************************************************)
EXTENDS Integers, Sequences, FiniteSets

CONSTANTS
  Objects, Threads,
  PerThread,     \* bound: SmartPtrIRC variables of one thread
  SelfRefs,      \* pointers an object holds to itself
  W,             \* 2^w for counts of w bits
  SoleRebase,    \* whether h = h->base may give up the last pointer to *h
  none

Handles == Threads \X (1..PerThread)

ASSUME CountAssumption ==
  /\ {SelfRefs, PerThread, W} \subseteq Nat
  /\ IsFiniteSet(Objects) /\ IsFiniteSet(Threads)
  /\ SelfRefs + Cardinality(Handles) + Cardinality(Objects) + 1 < W

ASSUME NoneIsNoValue == none \notin Objects \cup [obj : Objects, var : Handles]

VARIABLES
  state,    \* of an object: "raw", "building", "alive" or "deleted"
  count,    \* myRefCountValue
  base,     \* the pointer held by an object
  selfs,    \* how many of its pointers to itself an object has made
  ptr,      \* the object a variable points to, none outside its lifetime
  making,   \* the object a thread is constructing, and the variable for it
  pend,     \* the decrements a thread is in, the innermost last
  rhsIn,    \* the object in which the right hand side of a running = lies
  bad       \* a deleted object was used, deleted again, or deleted unborn

vars == <<state, count, base, selfs, ptr, making, pend, rhsIn, bad>>

Of(t) == {h \in Handles : h[1] = t}
Idle(t) == making[t] = none /\ pend[t] = << >> /\ rhsIn[t] = none
Dec(o) == [obj |-> o, stage |-> "subtract"]

Init ==
  /\ state = [o \in Objects |-> "raw"]
  /\ count = [o \in Objects |-> 0]
  /\ base = [o \in Objects |-> none]
  /\ selfs = [o \in Objects |-> 0]
  /\ ptr = [h \in Handles |-> none]
  /\ making = [t \in Threads |-> none]
  /\ pend = [t \in Threads |-> << >>]
  /\ rhsIn = [t \in Threads |-> none]
  /\ bad = FALSE

\* n decrements, in unsigned arithmetic
Less(c, n) == (c - n) % W

\* myRefCountInc
Inc(counts, o) == [counts EXCEPT ![o] = (@ + 1) % W]

-----------------------------------------------------------------------------
\* The constructor of a ring starts: the base is copied, and the count
\* raised, "needed for exception cleanliness".
Bug_StartAtZero == 0
StartCount == 1
BeginNew(t, h, o, b) ==
  /\ Idle(t) /\ h \in Of(t) /\ ptr[h] = none
  /\ state[o] = "raw"
  /\ b = none \/ \E g \in Of(t) : ptr[g] = b
  /\ state' = [state EXCEPT ![o] = "building"]
  /\ base' = [base EXCEPT ![o] = b]
  /\ count' = [IF b = none THEN count ELSE Inc(count, b) EXCEPT ![o] = StartCount]
  /\ selfs' = [selfs EXCEPT ![o] = 0]
  /\ making' = [making EXCEPT ![t] = [obj |-> o, var |-> h]]
  /\ UNCHANGED <<ptr, pend, rhsIn, bad>>

\* new RingElem(ring(this)): a temporary and a copy, then one decrement.
MakeSelfRef(t) ==
  /\ making[t] # none
  /\ LET o == making[t].obj
     IN  /\ selfs[o] < SelfRefs
         /\ selfs' = [selfs EXCEPT ![o] = @ + 1]
         /\ count' = Inc(count, o)
  /\ UNCHANGED <<state, base, ptr, making, pend, rhsIn, bad>>

\* That throws: the copy, the temporary and the members made so far are
\* destroyed; the count is tested at each value from count+1 downwards.
BuildThrows(t) ==
  /\ making[t] # none
  /\ LET o == making[t].obj
     IN  /\ selfs[o] < SelfRefs
         /\ bad' = (bad \/ 0 \in (count[o] - selfs[o]) .. (count[o] + 1))
         /\ state' = [state EXCEPT ![o] = "raw"]
         /\ count' = [count EXCEPT ![o] = 0]
         /\ selfs' = [selfs EXCEPT ![o] = 0]
         /\ base' = [base EXCEPT ![o] = none]
         /\ pend' = [pend EXCEPT ![t] = IF base[o] = none THEN << >> ELSE <<Dec(base[o])>>]
  /\ making' = [making EXCEPT ![t] = none]
  /\ UNCHANGED <<ptr, rhsIn>>

\* myRefCountZero, and the first SmartPtrIRC to the object.
Bug_NotZeroed(o) == (count[o] + 1) % W
CountWhenMade(o) == 1
EndNew(t) ==
  /\ making[t] # none
  /\ LET o == making[t].obj
     IN  /\ selfs[o] = SelfRefs
         /\ count' = [count EXCEPT ![o] = CountWhenMade(o)]
         /\ state' = [state EXCEPT ![o] = "alive"]
         /\ ptr' = [ptr EXCEPT ![making[t].var] = o]
  /\ making' = [making EXCEPT ![t] = none]
  /\ UNCHANGED <<base, selfs, pend, rhsIn, bad>>

-----------------------------------------------------------------------------
\* The copy constructor; the copy may be for another thread.
Copy(t, h, g) ==
  /\ Idle(t) /\ g \in Of(t) /\ ptr[g] # none /\ ptr[h] = none
  /\ \A u \in Threads : making[u] # none => making[u].var # h
  /\ count' = Inc(count, ptr[g])
  /\ ptr' = [ptr EXCEPT ![h] = ptr[g]]
  /\ UNCHANGED <<state, base, selfs, making, pend, rhsIn, bad>>

\* The destructor.
Destroy(t, h) ==
  /\ Idle(t) /\ h \in Of(t) /\ ptr[h] # none
  /\ pend' = [pend EXCEPT ![t] = <<Dec(ptr[h])>>]
  /\ ptr' = [ptr EXCEPT ![h] = none]
  /\ UNCHANGED <<state, count, base, selfs, making, rhsIn, bad>>

mySwap(t, h, g) ==
  /\ Idle(t) /\ {h, g} \subseteq Of(t) /\ none \notin {ptr[h], ptr[g]}
  /\ ptr' = [ptr EXCEPT ![h] = ptr[g], ![g] = ptr[h]]
  /\ UNCHANGED <<state, count, base, selfs, making, pend, rhsIn, bad>>

\* What operator= has incremented by the time it decrements.
Bug_NotIncremented(o) == count
CountAtDec(o) == Inc(count, o)

\* operator= between variables, the same one included.
Assign(t, h, g) ==
  /\ Idle(t) /\ {h, g} \subseteq Of(t) /\ none \notin {ptr[h], ptr[g]}
  /\ count' = CountAtDec(ptr[g])
  /\ pend' = [pend EXCEPT ![t] = <<Dec(ptr[h])>>]
  /\ ptr' = [ptr EXCEPT ![h] = ptr[g]]
  /\ UNCHANGED <<state, base, selfs, making, rhsIn, bad>>

\* h = BaseRing(h): the right hand side is a member of the object that h
\* points to, and is read after the decrement.
AssignBase(t, h) ==
  /\ Idle(t) /\ h \in Of(t) /\ ptr[h] # none
  /\ LET o == ptr[h]
     IN  /\ base[o] # none
         /\ SoleRebase \/ count[o] > 1
         /\ count' = CountAtDec(base[o])
         /\ pend' = [pend EXCEPT ![t] = <<Dec(o)>>]
         /\ ptr' = [ptr EXCEPT ![h] = base[o]]
         /\ rhsIn' = [rhsIn EXCEPT ![t] = o]
  /\ UNCHANGED <<state, base, selfs, making, bad>>

EndAssignBase(t) ==
  /\ rhsIn[t] # none /\ pend[t] = << >>
  /\ bad' = (bad \/ state[rhsIn[t]] = "deleted")
  /\ rhsIn' = [rhsIn EXCEPT ![t] = none]
  /\ UNCHANGED <<state, count, base, selfs, ptr, making, pend>>

-----------------------------------------------------------------------------
\* myRefCountDec
Inner(t) == pend[t][Len(pend[t])]
Outer(t) == SubSeq(pend[t], 1, Len(pend[t]) - 1)

Subtract(t) ==
  /\ pend[t] # << >> /\ Inner(t).stage = "subtract"
  /\ LET o == Inner(t).obj
     IN  /\ bad' = (bad \/ state[o] = "deleted")
         /\ count' = [count EXCEPT ![o] = Less(@, 1)]
         /\ pend' = [pend EXCEPT ![t] = Append(Outer(t), [obj |-> o, stage |-> "test"])]
  /\ UNCHANGED <<state, base, selfs, ptr, making, rhsIn>>

\* The test finds another value than 0.
TestLive(t) ==
  /\ pend[t] # << >> /\ Inner(t).stage = "test"
  /\ count[Inner(t).obj] # 0
  /\ bad' = (bad \/ state[Inner(t).obj] = "deleted")
  /\ pend' = [pend EXCEPT ![t] = Outer(t)]
  /\ UNCHANGED <<state, count, base, selfs, ptr, making, rhsIn>>

\* The test finds 0: delete this.  The pointers to itself take the count
\* below 0, past which no test finds it 0 again; then the base goes.
TestDead(t) ==
  /\ pend[t] # << >> /\ Inner(t).stage = "test"
  /\ LET o == Inner(t).obj
     IN  /\ count[o] = 0
         /\ bad' = (bad \/ state[o] = "deleted")
         /\ state' = [state EXCEPT ![o] = "deleted"]
         /\ count' = [count EXCEPT ![o] = Less(0, selfs[o])]
         /\ pend' = [pend EXCEPT ![t] =
              IF base[o] = none THEN Outer(t) ELSE Append(Outer(t), Dec(base[o]))]
  /\ UNCHANGED <<base, selfs, ptr, making, rhsIn>>

Next ==
  \E t \in Threads :
    \/ \E h \in Handles, o \in Objects, b \in Objects \cup {none} : BeginNew(t, h, o, b)
    \/ MakeSelfRef(t) \/ BuildThrows(t) \/ EndNew(t)
    \/ \E h, g \in Handles : Copy(t, h, g) \/ mySwap(t, h, g) \/ Assign(t, h, g)
    \/ \E h \in Handles : Destroy(t, h) \/ AssignBase(t, h)
    \/ EndAssignBase(t)
    \/ Subtract(t) \/ TestLive(t) \/ TestDead(t)

\* A thread goes on with a decrement it is in.
Fairness == \A t \in Threads : WF_vars(Subtract(t) \/ TestLive(t) \/ TestDead(t))

Spec == Init /\ [][Next]_vars
FairSpec == Spec /\ Fairness

-----------------------------------------------------------------------------
TypeOK ==
  /\ state \in [Objects -> {"raw", "building", "alive", "deleted"}]
  /\ count \in [Objects -> 0..W - 1]
  /\ base \in [Objects -> Objects \cup {none}]
  /\ selfs \in [Objects -> 0..SelfRefs]
  /\ ptr \in [Handles -> Objects \cup {none}]
  /\ rhsIn \in [Threads -> Objects \cup {none}]
  /\ bad \in BOOLEAN

(* No object is used or deleted after its deletion, nor deleted while its  *)
(* constructor still runs or unwinds.                                      *)
NeverUsedDead ==
  /\ ~bad
  /\ \A h \in Handles : ptr[h] # none => state[ptr[h]] = "alive"
  /\ \A o \in Objects : state[o] \in {"building", "alive"} /\ base[o] # none
                        => state[base[o]] = "alive"

Subtractions(o) ==
  {ti \in Threads \X (1..Cardinality(Objects)) :
     ti[2] <= Len(pend[ti[1]]) /\ pend[ti[1]][ti[2]] = Dec(o)}

Holders(o) ==
  Cardinality({h \in Handles : ptr[h] = o})
  + Cardinality({p \in Objects : state[p] \in {"building", "alive"} /\ base[p] = o})

(* The count of a live object is exactly the number of variables and of    *)
(* live objects that point to it, its pointers to itself left out, plus    *)
(* the decrements that have yet to come.                                   *)
CountIsHolders ==
  \A o \in Objects :
    state[o] = "alive" => count[o] = Holders(o) + Cardinality(Subtractions(o))

(* The circular pointers make no object immortal: one that nothing else    *)
(* points to is being deleted by the thread that gave up the last pointer, *)
(* and in the end is deleted.                                              *)
NoImmortals ==
  \A o \in Objects : (state[o] = "alive" /\ Holders(o) = 0) ~> (state[o] = "deleted")

(* IntrusiveReferenceCount: "self destructs if count becomes 0", once, and *)
(* is not used any more.                                                   *)
DeletedOnce == ~bad

(* "Default assignment works fine" for class ring.                         *)
AssignmentReadsLive == \A t \in Threads :
  rhsIn[t] # none => state[rhsIn[t]] # "deleted"

=============================================================================
