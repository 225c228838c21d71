---------------------------- MODULE GlobalManager ----------------------------
(***************************************************************************)
(* The life of a GlobalManager (GlobalManager.C): its constructor installs *)
(* the memory functions of GMP and makes the rings ZZ and QQ; its          *)
(* destructor runs the registered pseudo-destructors, checks that ZZ and   *)
(* QQ are no longer in use, and puts the memory functions back.  Values    *)
(* (big integers, elements of ZZ and of QQ) own one block of GMP memory    *)
(* each, and elements one reference to their ring.                         *)
(***************************************************************************)
EXTENDS Integers, Sequences, FiniteSets

CONSTANTS
  Values,            \* names of values; at most so many are alive at once
  MaxSize,           \* bound: sizes of GMP blocks
  SliceSize,         \* mySliceSize of a pool
  Leftovers,         \* kinds of values a client may leave to outlive the manager
  SecondChoices,     \* allocators asked for when a second manager is tried
  LateRegistration,  \* whether a pseudo-destructor may register another global
  nullptr

ASSUME SettingsAssumption ==
  /\ SliceSize \in 1..MaxSize
  /\ Leftovers \subseteq {"BigInt", "ZZ", "QQ"}
  /\ SecondChoices \subseteq {"SystemDefault", "cocoa"}
  /\ LateRegistration \in BOOLEAN
  /\ nullptr \notin {"system", "cocoa", "pool"}

VARIABLES
  phase,          \* how far the manager has come, see Phases
  gmpFns,         \* the memory functions GMP uses: "system" or CoCoA_GMP_*
  myPrevFns,      \* what GMPMemMgr saved, nullptr if it installed nothing
  GMPPoolPtr,     \* and GMPSliceSize, which is 0 exactly when this is null
  myRefCount,     \* of the rings "ZZ" and "QQ"
  ringMem,        \* where the zero and one of the two rings were allocated
  val,            \* the live values
  myDtorStack,    \* the globals with a registered pseudo-destructor
  registered, ran,  \* history: those registered, those destroyed
  DtorFailed,
  misplaced       \* some block went back where it did not come from

memory == <<gmpFns, myPrevFns, GMPPoolPtr>>
globals == <<myDtorStack, registered, ran>>
managerVars == <<phase, memory, myRefCount, ringMem, val, globals, DtorFailed, misplaced>>

Phases == {"none", "alive", "unwinding", "unregistered", "checked", "gone", "crashed"}
Rings == {"ZZ", "QQ"}
cleared == "cleared"     \* a PseudoDtor whose pointers RunDtor has cleared

IsInitialized == phase \in {"alive", "unwinding"}
Alive == DOMAIN val
Registered == {registered[i] : i \in 1..Len(registered)}
Unregistered == Alive \ Registered

-----------------------------------------------------------------------------
\* The memory functions.
Small(sz) == GMPPoolPtr # nullptr /\ sz <= SliceSize

\* CoCoA_GMP_alloc, or malloc
AllocatedIn(sz) == IF gmpFns = "cocoa" /\ Small(sz) THEN GMPPoolPtr ELSE "malloc"

\* CoCoA_GMP_free, or free: whether a block of that origin gets home.
Home(origin, sz) == origin = AllocatedIn(sz)

Block(sz) == [size |-> sz, origin |-> AllocatedIn(sz)]

\* CoCoA_GMP_realloc, or realloc: the block afterwards, and whether the old
\* block was treated as what it is.
Bug_AlwaysInPlace(b, sz) == [size |-> sz, origin |-> b.origin]
Reallocated(b, sz) ==
  IF gmpFns = "cocoa" /\ Small(b.size) # Small(sz) THEN Block(sz)
  ELSE [size |-> sz, origin |-> b.origin]
ReallocHome(b, sz) ==
  \/ gmpFns = "cocoa" /\ Small(b.size) /\ Small(sz)
  \/ Home(b.origin, b.size)

\* The reference counts when one reference to ring R is dropped: with its
\* last reference QQ goes, and gives up ZZ, its base ring.
Dropped(counts, R) ==
  LET after == [counts EXCEPT ![R] = @ - 1]
  IN  IF R = "QQ" /\ after["QQ"] = 0 THEN [after EXCEPT !["ZZ"] = @ - 1] ELSE after

\* Whether some ring dies between two states of the counts; its zero and one
\* then go back to the allocator of the moment.
RingsFreed(before, after) ==
  \E R \in Rings : before[R] > 0 /\ after[R] = 0

-----------------------------------------------------------------------------
ManagerInit ==
  /\ phase = "none"
  /\ gmpFns = "system" /\ myPrevFns = nullptr /\ GMPPoolPtr = nullptr
  /\ myRefCount = [R \in Rings |-> 0]
  /\ ringMem = nullptr
  /\ val = << >>
  /\ myDtorStack = << >> /\ registered = << >> /\ ran = << >>
  /\ DtorFailed = FALSE
  /\ misplaced = FALSE

\* GMPMemMgr first, then ZZ and QQ, whose zeros and ones use that memory.
Construct(choice) ==
  /\ phase = "none"
  /\ phase' = "alive"
  /\ IF choice = "cocoa"
       THEN gmpFns' = "cocoa" /\ myPrevFns' = gmpFns /\ GMPPoolPtr' = "pool"
       ELSE UNCHANGED memory
  /\ ringMem' = IF choice = "cocoa" THEN "pool" ELSE "malloc"
  /\ myRefCount' = [ZZ |-> 2, QQ |-> 1]   \* ZZ also as the base ring of QQ
  /\ UNCHANGED <<val, globals, DtorFailed, misplaced>>

\* A second manager: the body of the constructor refuses it (GlobalManager2),
\* but its members have been made, and are destroyed again.
ConstructSecond(choice) ==
  /\ IsInitialized
  /\ choice \in SecondChoices
  /\ GMPPoolPtr' = IF choice = "cocoa" THEN nullptr ELSE GMPPoolPtr
  /\ UNCHANGED <<phase, gmpFns, myPrevFns, myRefCount, ringMem, val, globals,
                 DtorFailed, misplaced>>

\* The map val with a new value v.
With(v, kind, sz) ==
  [w \in Alive \cup {v} |-> IF w = v THEN [kind |-> kind, block |-> Block(sz)] ELSE val[w]]
Counted(kind) ==
  IF kind \in Rings THEN [myRefCount EXCEPT ![kind] = @ + 1] ELSE myRefCount

New(v, kind, sz) ==
  /\ phase = "alive"
  /\ v \notin Alive \cup Registered
  /\ val' = With(v, kind, sz)
  /\ myRefCount' = Counted(kind)
  /\ UNCHANGED <<phase, memory, ringMem, globals, DtorFailed, misplaced>>

Resize(v, sz) ==
  /\ phase = "alive" /\ v \in Alive
  /\ val' = [val EXCEPT ![v].block = Reallocated(val[v].block, sz)]
  /\ misplaced' = (misplaced \/ ~ReallocHome(val[v].block, sz))
  /\ UNCHANGED <<phase, memory, myRefCount, ringMem, globals, DtorFailed>>

\* The destructor of the value v.
Delete(v) ==
  LET kind == val[v].kind
      counts == IF kind \in Rings THEN Dropped(myRefCount, kind) ELSE myRefCount
  IN  /\ val' = [w \in Alive \ {v} |-> val[w]]
      /\ myRefCount' = counts
      /\ misplaced' = \/ misplaced
                      \/ ~Home(val[v].block.origin, val[v].block.size)
                      \/ /\ RingsFreed(myRefCount, counts)
                         /\ ~Home(ringMem, 1)

\* A client destroys a value, in time or after the manager has gone.
Drop(v) ==
  /\ phase \in {"alive", "gone"} /\ v \in Unregistered
  /\ Delete(v)
  /\ UNCHANGED <<phase, memory, ringMem, globals, DtorFailed>>

\* RegisterDtorForGlobal
Bug_Queued(v) == <<v>> \o myDtorStack
Pushed(v) == Append(myDtorStack, v)
Register(v) ==
  /\ phase = "alive" /\ v \in Unregistered
  /\ myDtorStack' = Pushed(v)
  /\ registered' = Append(registered, v)
  /\ UNCHANGED <<phase, memory, myRefCount, ringMem, val, ran, DtorFailed, misplaced>>

-----------------------------------------------------------------------------
Top == myDtorStack[Len(myDtorStack)]
Popped == SubSeq(myDtorStack, 1, Len(myDtorStack) - 1)

\* ~GlobalManager starts; what clients have left is of the kinds Leftovers.
DestroyValue ==
  /\ phase = "alive"
  /\ \A v \in Unregistered : val[v].kind \in Leftovers
  /\ phase' = "unwinding"
  /\ UNCHANGED <<memory, myRefCount, ringMem, val, globals, DtorFailed, misplaced>>

\* top().RunDtor(), then pop().
RunDtor ==
  /\ phase = "unwinding" /\ myDtorStack # << >> /\ Top # cleared
  /\ Delete(Top)
  /\ ran' = Append(ran, Top)
  /\ myDtorStack' = Popped
  /\ UNCHANGED <<phase, memory, ringMem, registered, DtorFailed>>

\* A pseudo-destructor that itself registers a global: pop() takes the new
\* entry away, and the one that ran stays, cleared.
RunDtorThatRegisters(v) ==
  /\ LateRegistration
  /\ phase = "unwinding" /\ myDtorStack # << >> /\ Top # cleared
  /\ v \in Unregistered
  /\ Delete(Top)
  /\ ran' = Append(ran, Top)
  /\ registered' = Append(registered, v)
  /\ myDtorStack' = Append(Popped, cleared)
  /\ UNCHANGED <<phase, memory, ringMem, DtorFailed>>

\* RunDtor calls a null pointer.
RunClearedDtor ==
  /\ phase = "unwinding" /\ myDtorStack # << >> /\ Top = cleared
  /\ phase' = "crashed"
  /\ UNCHANGED <<memory, myRefCount, ringMem, val, globals, DtorFailed, misplaced>>

\* ourGlobalDataPtr = nullptr
Unregister ==
  /\ phase = "unwinding" /\ myDtorStack = << >>
  /\ phase' = "unregistered"
  /\ UNCHANGED <<memory, myRefCount, ringMem, val, globals, DtorFailed, misplaced>>

\* RingZZStillInUse or RingQQStillInUse.  The library's own references to ZZ are
\* two, the manager's and that of QQ; the code reckons with a third.
Bug_OneMoreAllowed == myRefCount["ZZ"] > 4 \/ myRefCount["QQ"] > 1
StillInUse == myRefCount["ZZ"] > 3 \/ myRefCount["QQ"] > 1

\* ~ZZQQMgr, then its members myRingQQ and myRingZZ.
DestroyZZQQMgr ==
  LET counts == Dropped(Dropped(myRefCount, "QQ"), "ZZ")
  IN  /\ phase = "unregistered"
      /\ phase' = "checked"
      /\ DtorFailed' = (DtorFailed \/ StillInUse)
      /\ myRefCount' = counts
      /\ misplaced' = (misplaced \/ (RingsFreed(myRefCount, counts) /\ ~Home(ringMem, 1)))
      /\ UNCHANGED <<memory, ringMem, val, globals>>

\* The memory functions left by ~GMPMemMgr.
RestoredFns == IF myPrevFns = nullptr THEN gmpFns ELSE myPrevFns

DestroyGMPMemMgr ==
  /\ phase = "checked"
  /\ phase' = "gone"
  /\ gmpFns' = RestoredFns
  /\ GMPPoolPtr' = IF myPrevFns = nullptr THEN GMPPoolPtr ELSE nullptr
  /\ UNCHANGED <<myPrevFns, myRefCount, ringMem, val, globals, DtorFailed, misplaced>>

ManagerNext ==
  \/ \E choice \in {"SystemDefault", "cocoa"} : Construct(choice) \/ ConstructSecond(choice)
  \/ \E v \in Values :
       \/ \E sz \in 1..MaxSize :
            \/ \E kind \in {"BigInt", "ZZ", "QQ"} : New(v, kind, sz)
            \/ Resize(v, sz)
       \/ Drop(v) \/ Register(v) \/ RunDtorThatRegisters(v)
  \/ DestroyValue \/ RunDtor \/ RunClearedDtor
  \/ Unregister \/ DestroyZZQQMgr \/ DestroyGMPMemMgr

ManagerSpec == ManagerInit /\ [][ManagerNext]_managerVars

-----------------------------------------------------------------------------
ManagerTypeOK ==
  /\ phase \in Phases
  /\ gmpFns \in {"system", "cocoa"} /\ myPrevFns \in {nullptr, "system", "cocoa"}
  /\ GMPPoolPtr \in {nullptr, "pool"}
  /\ myRefCount \in [Rings -> Nat]
  /\ Alive \subseteq Values
  /\ \A v \in Alive : /\ val[v].kind \in {"BigInt", "ZZ", "QQ"}
                      /\ val[v].block.origin \in {"pool", "malloc"}
                      /\ val[v].block.size \in 1..MaxSize
  /\ \A i \in 1..Len(myDtorStack) : myDtorStack[i] \in Values \cup {cleared}
  /\ {DtorFailed, misplaced} \subseteq BOOLEAN

(* The assertions of CoCoA_GMP_alloc, _realloc and _free: whenever GMP     *)
(* calls them the slice size is set, so there is a pool to ask.            *)
SliceSizeIsSet == gmpFns = "cocoa" => GMPPoolPtr # nullptr

(* What the check overlooks: a single element of ZZ, the only value that   *)
(* still refers to either ring.                                            *)
LoneInteger ==
  \E v \in Alive : /\ val[v].kind = "ZZ"
                   /\ \A w \in Alive \ {v} : val[w].kind \notin Rings

(* "A program crash is likely once the GlobalManager has been destroyed",  *)
(* but only after the rude message: no block is ever handed to an          *)
(* allocator that did not make it unless DtorError has been called before, *)
(* or the block is that of the one element of ZZ which is overlooked.      *)
WarnedBeforeDamage ==
  [][ misplaced' => misplaced \/ DtorFailed \/ (phase = "gone" /\ LoneInteger) ]_managerVars

(* The check in ~ZZQQMgr compares two counts with constants.  It complains *)
(* exactly if values that refer to ZZ or QQ have outlived the manager,     *)
(* however they came to be there, and are more than one element of ZZ.     *)
CleanUpVerdict ==
  [][ DestroyZZQQMgr =>
        (DtorFailed' <=> (\E v \in Alive : val[v].kind \in Rings) /\ ~LoneInteger)
    ]_managerVars

(* "These dtors are called in reverse order of registration", each once,   *)
(* and all before ZZ and QQ are checked, unless one of them registers      *)
(* another global.                                                         *)
DtorsInReverse ==
  LET n == Len(registered)
  IN  (\A i \in 1..Len(myDtorStack) : myDtorStack[i] # cleared) =>
        /\ \A i \in 1..Len(ran) : ran[i] = registered[n + 1 - i]
        /\ phase \in {"unregistered", "checked", "gone"} => Len(ran) = n

(* "The dtor for GlobalManager will call dtor", of every registered global. *)
NoDtorForgotten ==
  phase \in {"unregistered", "checked", "gone", "crashed"} =>
    Registered = {ran[i] : i \in 1..Len(ran)}

(* A ring lives as long as something refers to it: its count is that of    *)
(* the manager's copy, of QQ as a user of ZZ, and of the values in it.     *)
CountsAreRight ==
  LET mine == IF phase \in {"none", "checked", "gone"} THEN 0 ELSE 1
      valuesOf(R) == Cardinality({v \in Alive : val[v].kind = R})
  IN  /\ myRefCount["QQ"] = mine + valuesOf("QQ")
      /\ myRefCount["ZZ"] = mine + valuesOf("ZZ") + (IF myRefCount["QQ"] > 0 THEN 1 ELSE 0)

=============================================================================
