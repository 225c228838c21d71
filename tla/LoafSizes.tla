------------------------------ MODULE LoafSizes ------------------------------
(***************************************************************************)
(* How many slices a MemPoolFast puts in each loaf: InitialLoafSlices and  *)
(* IncrLoafSlices of MemPool.C, and the sequence of loaf sizes one pool    *)
(* goes through.  Sizes are in bytes.                                      *)
(***************************************************************************)
EXTENDS Integers, FiniteSets

CONSTANTS
  MaxSliceSize,    \* larger slices are left to ::operator new
  WordSize,        \* sizeof(slice_t)
  allowance,       \* a loaf is kept this much below a power of 2
  MinLoafBytes,
  MaxLoafBytes,
  MinSlices,       \* slices wanted in the first loaf
  MaxDoublings,    \* bound: how often MinLoafBytes may be doubled
  Requests,        \* the slice sizes a client asks of the constructor
  MaxLoaves        \* bound: loaves made by one pool

Least(S) == CHOOSE m \in S : \A n \in S : m <= n

\* The values the local variable TargetLoafSize can take in both functions.
Doubled[k \in Nat] == IF k = 0 THEN MinLoafBytes ELSE 2 * Doubled[k - 1]
TargetLoafSizes == {Doubled[k] : k \in 0..MaxDoublings}

\* mySliceBytes of a pool whose constructor is given sz.
SliceBytes(sz) == WordSize * (1 + (sz - 1) \div WordSize)

\* The longest loaf is a target too, slices are short beside the shortest loaf,
\* and MinSlices of them fit in the longest.
ASSUME SizeAssumption ==
  /\ {MaxSliceSize, WordSize, MinLoafBytes, MaxLoafBytes, MinSlices} \subseteq Nat \ {0}
  /\ allowance \in Nat \ {0} /\ {MaxDoublings, MaxLoaves} \subseteq Nat
  /\ Requests \subseteq Nat \ {0}
  /\ Doubled[MaxDoublings] > 2 * MaxLoafBytes
  /\ MaxLoafBytes \in TargetLoafSizes
  /\ 2 * (SliceBytes(MaxSliceSize) + allowance) <= MinLoafBytes
  /\ MinSlices * SliceBytes(MaxSliceSize) + allowance <= MaxLoafBytes

InitialLoafSlices(sz, NumSlices) ==
  IF sz > MaxLoafBytes \div 2 THEN 2
  ELSE LET Enough(t) == \/ t > MaxLoafBytes \div 2
                        \/ (t - allowance) \div sz >= NumSlices
       IN  (Least({t \in TargetLoafSizes : Enough(t)}) - allowance) \div sz

Bug_NoCap(SlicesPerLoaf, sz) ==
  LET CurrLoafBytes == SlicesPerLoaf * sz
      Target == 2 * Least({t \in TargetLoafSizes : t > CurrLoafBytes \/ t > MaxLoafBytes})
  IN  (Target - allowance) \div sz
Bug_NotDoubled(SlicesPerLoaf, sz) ==
  LET CurrLoafBytes == SlicesPerLoaf * sz
      Target == Least({t \in TargetLoafSizes : t > CurrLoafBytes})
  IN  IF CurrLoafBytes > MaxLoafBytes \div 2
        THEN SlicesPerLoaf
        ELSE (Target - allowance) \div sz
IncrLoafSlices(SlicesPerLoaf, sz) ==
  LET CurrLoafBytes == SlicesPerLoaf * sz
      Target == 2 * Least({t \in TargetLoafSizes : t > CurrLoafBytes})
  IN  IF CurrLoafBytes > MaxLoafBytes \div 2
        THEN SlicesPerLoaf
        ELSE (Target - allowance) \div sz

-----------------------------------------------------------------------------
VARIABLES
  request,        \* mySliceSizeReq, fixed by the constructor
  slicesPerLoaf,  \* mySlicesPerLoaf
  made            \* loaves requested so far

loafVars == <<request, slicesPerLoaf, made>>

bytes == SliceBytes(request)
LoafBytes == slicesPerLoaf * bytes

LoafTypeOK ==
  /\ request \in Requests
  /\ slicesPerLoaf \in Nat \ {0}
  /\ made \in 0..MaxLoaves

LoafInit ==
  /\ request \in Requests
  /\ slicesPerLoaf = InitialLoafSlices(SliceBytes(request), MinSlices)
  /\ made = 0

\* MakeNewLoaf, of which only the choice of the size matters here.
MakeNewLoaf ==
  /\ request <= MaxSliceSize
  /\ made < MaxLoaves
  /\ slicesPerLoaf' = IF made = 0 THEN slicesPerLoaf
                      ELSE IncrLoafSlices(slicesPerLoaf, bytes)
  /\ made' = made + 1
  /\ UNCHANGED request

LoafNext == MakeNewLoaf
LoafSpec == LoafInit /\ [][LoafNext]_loafVars

-----------------------------------------------------------------------------
(* "We do not make any single loaf bigger than this": with its allowance   *)
(* no loaf exceeds MaxLoafBytes, although IncrLoafSlices doubles a target  *)
(* that is itself rounded up to a power of 2; and yet each holds at least  *)
(* the MinSlices slices asked for in the constructor of MemPoolFast        *)
(* (slices that the pool forwards to the system never get a loaf).         *)
LoafFits ==
  request <= MaxSliceSize =>
    LoafBytes + allowance <= MaxLoafBytes /\ slicesPerLoaf >= MinSlices

(* Growth is geometric until the cap: a loaf after the first either has at *)
(* least twice the slices of the one before, or the one before was already *)
(* above half of MaxLoafBytes and the size stays.                          *)
DoublesToTheCap ==
  [][ made > 0 => \/ slicesPerLoaf' >= 2 * slicesPerLoaf
                  \/ /\ slicesPerLoaf' = slicesPerLoaf
                     /\ 2 * LoafBytes > MaxLoafBytes ]_loafVars

=============================================================================
