----------------------------- MODULE MemPoolFast -----------------------------
(***************************************************************************)
(* MemPoolFast of MemPool.C: a pool of slices of one size.  The free       *)
(* slices form a linked list threaded through their first words; a client  *)
(* that holds a slice may write anything into that word.  Slice i of the   *)
(* n-th loaf is the pair <<n, i>>.  Requests of another size, and all      *)
(* requests of a pool whose slices are large, go to ::operator new.        *)
(*                                                                         *)
(* The clients of this module respect the interface: they free what they   *)
(* hold, with the size they asked for, and write only to what they hold.   *)
(* Those that do not are the subject of MemPoolDebug.                      *)
(***************************************************************************)
EXTENDS Integers, Sequences, FiniteSets

CONSTANTS
  Sizes,              \* slice sizes that occur in calls
  MaxSliceSize,       \* larger slices are left to ::operator new
  FirstLoafSlices,    \* InitialLoafSlices(mySliceBytes, 16), see LoafSizes
  IncrLoafSlices(_),  \* IncrLoafSlices(_, mySliceBytes), see LoafSizes
  MaxLoafSlices,      \* bound on what IncrLoafSlices returns
  MaxLoaves,          \* bound: loaves in one pool
  SysAddrs,           \* addresses ::operator new may return
  Data,               \* what a client may write into a word
  nullptr

Addresses == Nat \X Nat

ASSUME LoafAssumption ==
  /\ MaxSliceSize \in Nat /\ MaxLoafSlices \in Nat /\ MaxLoaves \in Nat
  /\ FirstLoafSlices \in 1..MaxLoafSlices
  /\ \A n \in 1..MaxLoafSlices : IncrLoafSlices(n) \in 1..MaxLoafSlices

ASSUME AddressAssumption ==
  /\ nullptr \notin Addresses
  /\ nullptr \notin SysAddrs
  /\ \A a \in SysAddrs : a \notin Addresses

VARIABLES
  mySliceSizeReq,
  mySlicesPerLoaf,
  myHeadOfFreeList,
  myLoaves,   \* number of slices of each loaf, the oldest first
  word,       \* the first word of every slice
  held        \* what the clients hold: pairs <<address, size asked for>>

vars == <<mySliceSizeReq, mySlicesPerLoaf, myHeadOfFreeList, myLoaves, word, held>>

\* The slices of a sequence of loaves.
SlicesOf(loaves) ==
  UNION {{<<n, i>> : i \in 1..loaves[n]} : n \in 1..Len(loaves)}

Slices == SlicesOf(myLoaves)
Words == Addresses \cup SysAddrs \cup Data \cup {nullptr}
InUse == {s \in Slices : \E sz \in Sizes : <<s, sz>> \in held}
Free == Slices \ InUse

\* Whether a request of sz bytes is served from the free list.
Pooled(sz) == sz = mySliceSizeReq /\ mySliceSizeReq <= MaxSliceSize

\* The first words of loaf n with k slices once its constructor has sliced it.
Bug_LastLinkMissing(n, k) ==
  [s \in {<<n, i>> : i \in 1..k} |->
     IF s[2] + 1 < k THEN <<n, s[2] + 1>> ELSE nullptr]
LoafLinks(n, k) ==
  [s \in {<<n, i>> : i \in 1..k} |->
     IF s[2] < k THEN <<n, s[2] + 1>> ELSE nullptr]

-----------------------------------------------------------------------------
Init ==
  /\ mySliceSizeReq \in Sizes \ {0}      \* 0 is refused: ERR::MemPoolZero
  /\ mySlicesPerLoaf = FirstLoafSlices
  /\ myHeadOfFreeList = nullptr
  /\ myLoaves = << >>
  /\ word = << >>
  /\ held = {}

Hand(p, sz) == held' = held \cup {<<p, sz>>}

\* alloc() or alloc(sz) when the request is not for the pool.
Bug_SystemForAnySize(sz) ==
  /\ \E a \in SysAddrs : held' = held \cup {<<a, sz>>}
  /\ UNCHANGED <<mySliceSizeReq, mySlicesPerLoaf, myHeadOfFreeList, myLoaves, word>>
AllocFromSystem(sz) ==
  /\ ~Pooled(sz)
  /\ \E a \in SysAddrs :
       /\ \A z \in Sizes : <<a, z>> \notin held
       /\ Hand(a, sz)
  /\ UNCHANGED <<mySliceSizeReq, mySlicesPerLoaf, myHeadOfFreeList, myLoaves, word>>

\* What is left of the list when its head is taken.
Bug_HeadStays == myHeadOfFreeList
Rest == word[myHeadOfFreeList]

\* alloc() when there is a free slice.
AllocFromFreeList(sz) ==
  /\ Pooled(sz)
  /\ myHeadOfFreeList # nullptr
  /\ Hand(myHeadOfFreeList, sz)
  /\ myHeadOfFreeList' = Rest
  /\ UNCHANGED <<mySliceSizeReq, mySlicesPerLoaf, myLoaves, word>>

NextSlicesPerLoaf ==
  IF myLoaves = << >> THEN mySlicesPerLoaf ELSE IncrLoafSlices(mySlicesPerLoaf)

\* The test by which alloc() decides to make a loaf.
Bug_OneSliceLeft ==
  IF myHeadOfFreeList = nullptr THEN TRUE ELSE word[myHeadOfFreeList] = nullptr
NeedLoaf == myHeadOfFreeList = nullptr

\* alloc() on an empty list: MakeNewLoaf, then its first slice is handed out.
AllocFromNewLoaf(sz) ==
  LET n == Len(myLoaves) + 1
      k == NextSlicesPerLoaf
      links == LoafLinks(n, k)
  IN  /\ Pooled(sz)
      /\ NeedLoaf
      /\ Len(myLoaves) < MaxLoaves
      /\ mySlicesPerLoaf' = k
      /\ myLoaves' = Append(myLoaves, k)
      /\ word' = [s \in SlicesOf(myLoaves') |->
                    IF s \in Slices THEN word[s] ELSE links[s]]
      /\ myHeadOfFreeList' = links[<<n, 1>>]
      /\ Hand(<<n, 1>>, sz)
      /\ UNCHANGED mySliceSizeReq

\* MakeNewLoaf when malloc returns null: bad_alloc leaves alloc() after
\* mySlicesPerLoaf has been advanced.
AllocThrows(sz) ==
  /\ Pooled(sz)
  /\ NeedLoaf
  /\ mySlicesPerLoaf' = NextSlicesPerLoaf
  /\ UNCHANGED <<mySliceSizeReq, myHeadOfFreeList, myLoaves, word, held>>

\* free(ptr) or free(ptr, sz); a null ptr changes nothing.
Bug_FreeIgnoresSize(p, sz) ==
  /\ myHeadOfFreeList' = p
  /\ held' = held \ {<<p, sz>>}
  /\ UNCHANGED <<mySliceSizeReq, mySlicesPerLoaf, myLoaves, word>>
FreeToPool(p, sz) ==
  /\ Pooled(sz)
  /\ myHeadOfFreeList' = p
  /\ word' = [word EXCEPT ![p] = myHeadOfFreeList]
  /\ held' = held \ {<<p, sz>>}
  /\ UNCHANGED <<mySliceSizeReq, mySlicesPerLoaf, myLoaves>>

FreeToSystem(p, sz) ==
  /\ ~Pooled(sz)
  /\ held' = held \ {<<p, sz>>}
  /\ UNCHANGED <<mySliceSizeReq, mySlicesPerLoaf, myHeadOfFreeList, myLoaves, word>>

\* A client writes into the first word of a slice it holds; the value may
\* be data or any address it knows.
ClientWrites ==
  /\ \E s \in InUse, d \in Data \cup Slices \cup {nullptr} :
       word' = [word EXCEPT ![s] = d]
  /\ UNCHANGED <<mySliceSizeReq, mySlicesPerLoaf, myHeadOfFreeList, myLoaves, held>>

Alloc(sz) == \/ AllocFromSystem(sz)
             \/ AllocFromFreeList(sz)
             \/ AllocFromNewLoaf(sz)
             \/ AllocThrows(sz)

Dealloc(p, sz) == FreeToPool(p, sz) \/ FreeToSystem(p, sz)

Next == \/ \E sz \in Sizes \ {0} : Alloc(sz)
        \/ \E b \in held : Dealloc(b[1], b[2])
        \/ ClientWrites

Spec == Init /\ [][Next]_vars

-----------------------------------------------------------------------------
TypeOK ==
  /\ mySliceSizeReq \in Sizes
  /\ mySlicesPerLoaf \in 1..MaxLoafSlices
  /\ myLoaves \in Seq(1..MaxLoafSlices)
  /\ myHeadOfFreeList \in Slices \cup {nullptr}
  /\ DOMAIN word = Slices
  /\ \A s \in Slices : word[s] \in Words
  /\ held \subseteq (Slices \cup SysAddrs) \X Sizes

(* The free list never reaches a slice that a client holds, so no client   *)
(* can overwrite a link, nor alloc hand out a slice twice: the head and    *)
(* every link of a free slice is a free slice or null, although the same   *)
(* words hold client data while a slice is in use.                         *)
FreeListIsFree ==
  /\ myHeadOfFreeList \in Free \cup {nullptr}
  /\ \A s \in Free : word[s] \in Free \cup {nullptr}

(* No slice is lost and the list has no cycle: every free slice is on the  *)
(* list.  Without a walk: a set of slices that holds the head and is       *)
(* closed under the links holds every free slice.                          *)
NoSliceLost ==
  \A S \in SUBSET Free :
    /\ myHeadOfFreeList \in S \cup {nullptr}
    /\ \A s \in S : word[s] \in S \cup {nullptr}
    => S = Free

(* A block goes back where it came from: system blocks never enter the     *)
(* pool, and a slice of the pool is held under the pool's own size only.   *)
BlocksGoHome ==
  \A b \in held : b[1] \in Slices <=> Pooled(b[2])

(* The pool keeps the promise of SlicePool.                                *)
Pool == INSTANCE SlicePool WITH slices <- Slices, inUse <- InUse
ImplementsSlicePool == Pool!Spec

=============================================================================
