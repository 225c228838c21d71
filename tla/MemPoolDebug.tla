----------------------------- MODULE MemPoolDebug -----------------------------
(***************************************************************************)
(* MemPoolDebug of MemPool.C: a MemPoolFast whose slices carry margins and *)
(* known contents, so that clients that misuse it are found out.  Words    *)
(* 0..myMarginWords-1 and the last myMarginWords of a slice are margins;   *)
(* word 0 is also the link of a free slice.  Margins may be empty: then    *)
(* the checks made by free see nothing, and word 0 is the client's.  A     *)
(* client pointer is named by the slice it lies in.                        *)
(***************************************************************************)
EXTENDS Integers, Sequences, FiniteSets

CONSTANTS
  myMarginWords,                  \* words of each of a slice's two margins, perhaps none
  Widths,                         \* words of data: the sizes pools are made for
  MaxSliceSize,                   \* in words; larger blocks are not pooled
  FirstLoafSlices, IncrLoafSlices(_), MaxLoafSlices, MaxLoaves,
  Blocks,                         \* addresses outside every loaf
  Misuse,                         \* the mistakes the clients make
  MaxMistakes,                    \* bound: how many of them
  BEFORE, AFTER, FREE,            \* the values of MEMPOOL_ALLOCATED_WORD_BEFORE etc.
  DATA,                           \* MEMPOOL_ALLOCATED_WORD_INSIDE, or what a client wrote,
                                  \* which is no address of a slice
  JUNK,                           \* a value that is none of the marks
  nullptr

ASSUME DebugAssumption ==
  /\ myMarginWords \in Nat
  /\ ({MaxSliceSize} \cup Widths) \subseteq Nat \ {0}
  /\ FREE \notin {BEFORE, AFTER, DATA, JUNK}
  /\ JUNK \notin {BEFORE, AFTER, DATA}
  /\ Misuse \subseteq {"overrun", "write after free", "double free", "foreign free"}

ASSUME LoavesAssumption ==
  /\ MaxLoafSlices \in Nat
  /\ FirstLoafSlices \in 1..MaxLoafSlices
  /\ \A n \in 1..MaxLoafSlices : IncrLoafSlices(n) \in 1..MaxLoafSlices

\* A slice is named by a pair of numbers; the marks and null are no addresses.
ASSUME MarksAssumption ==
  /\ nullptr \notin {BEFORE, DATA}
  /\ \A a \in Blocks \cup {nullptr, BEFORE, DATA} : a \notin Nat \X Nat

Levels == 0..2

VARIABLES
  VisibleWords,      \* words of data in a slice of this pool, fixed by its constructor
  myDebugLevel,
  mySlicesPerLoaf, myHeadOfFreeList, myLoaves,   \* of the member myMemMgr
  word,              \* word 0 of every slice
  body,              \* words 1..mySliceWords-1 of every slice
  myHeadOfUsedList,
  myInUseCount,
  allocated,         \* myAllocCount > 0
  held,              \* slices (or blocks) that were handed out and not taken back
  reports,           \* what the last call printed on the error stream
  mistakes,          \* how many mistakes the clients have made
  status             \* "alive", "dead" after the destructor, or "crashed"

mySliceWords == 2 * myMarginWords + VisibleWords

fast == <<mySlicesPerLoaf, myHeadOfFreeList, myLoaves>>
vars == <<VisibleWords, myDebugLevel, fast, word, body, myHeadOfUsedList, myInUseCount,
          allocated, held, reports, mistakes, status>>

\* myMemMgr.alloc() forwards to ::operator new when the margins make the
\* slice too large; MemPoolDebug itself forwards when the data is too large.
Forwarded == mySliceWords > MaxSliceSize
Pooled == VisibleWords <= MaxSliceSize

-----------------------------------------------------------------------------
Body == 1 .. mySliceWords - 1
FirstMark == IF myMarginWords = 0 THEN DATA ELSE BEFORE     \* AllocMark's, of word 0
LastMargin == (mySliceWords - myMarginWords) .. (mySliceWords - 1)
FirstMargin == 1 .. myMarginWords - 1       \* without word 0

AllocBody == [i \in Body |-> IF i \in FirstMargin THEN BEFORE
                             ELSE IF i \in LastMargin THEN AFTER ELSE DATA]
FreeBody == [i \in Body |-> FREE]

\* The slices met when the links are followed from head.
ListFrom(head) ==
  LET chain[k \in 0..Cardinality(DOMAIN word)] ==
        IF k = 0 THEN head
        ELSE IF chain[k - 1] \in DOMAIN word THEN word[chain[k - 1]] ELSE nullptr
  IN  {chain[k] : k \in 0..Cardinality(DOMAIN word)} \cap DOMAIN word

UsedList == ListFrom(myHeadOfUsedList)
Taken == held \cup UsedList

\* The slices and loaves of myMemMgr, and what MemPoolFast asks of its list.
Mgr == INSTANCE MemPoolFast WITH
         Sizes <- {1}, MaxSliceSize <- 1, mySliceSizeReq <- 1,
         SysAddrs <- Blocks, Data <- {BEFORE, JUNK, DATA}, held <- Taken \X {1}

Slices == Mgr!Slices

Overwritten(b) == b # FreeBody

\* FullOverwriteFreeCheck, made first by every alloc and free at level 2.
Checked == IF myDebugLevel > 1 THEN UsedList ELSE {}
Bug_NoReports == {}
CheckReports == {<<"overwritten", s>> : s \in {t \in Checked : Overwritten(body[t])}}
CheckedBody == [s \in DOMAIN body |-> IF s \in Checked THEN FreeBody ELSE body[s]]

\* The check follows the links of the retired slices.  It comes to an end
\* unless they form a cycle or lead to a client's word, and a call whose
\* check does not end is no step.
CheckEnds == Checked = {} \/ \E s \in Checked : word[s] = nullptr

\* Only the margins are looked at, and without margins nothing is.
AlreadyFreed(s) ==
  /\ myMarginWords # 0
  /\ \A i \in FirstMargin \cup LastMargin : CheckedBody[s][i] = FREE

WrittenOutOfRange(s) ==
  \/ myMarginWords # 0 /\ word[s] # BEFORE
  \/ \E i \in FirstMargin : CheckedBody[s][i] # BEFORE
  \/ \E i \in LastMargin : CheckedBody[s][i] # AFTER

-----------------------------------------------------------------------------
Init ==
  /\ VisibleWords \in Widths
  /\ myDebugLevel \in Levels
  /\ mySlicesPerLoaf = FirstLoafSlices
  /\ myHeadOfFreeList = nullptr
  /\ myLoaves = << >>
  /\ word = << >> /\ body = << >>
  /\ myHeadOfUsedList = nullptr
  /\ myInUseCount = 0
  /\ allocated = FALSE
  /\ held = {}
  /\ reports = {}
  /\ mistakes = 0
  /\ status = "alive"

SetDebugLevel(lev) ==
  /\ status = "alive"
  /\ myDebugLevel' = IF allocated THEN myDebugLevel ELSE lev
  /\ reports' = {}
  /\ UNCHANGED <<fast, word, body, myHeadOfUsedList, myInUseCount, allocated,
                 held, mistakes, status>>

\* The end of alloc: check and mark the slice s, of which the pool says that
\* its words are w and b, and hand it out.
HandOut(s, words, bodies) ==
  /\ IF myDebugLevel > 0
       THEN /\ word' = [words EXCEPT ![s] = FirstMark]
            /\ body' = [bodies EXCEPT ![s] = AllocBody]
            /\ reports' = CheckReports \cup
                 (IF Overwritten(bodies[s]) THEN {<<"overwritten", s>>} ELSE {})
       ELSE /\ word' = words
            /\ body' = bodies
            /\ reports' = {}
  /\ allocated' = TRUE
  /\ held' = held \cup {s}
  /\ myInUseCount' = myInUseCount + 1
  /\ UNCHANGED <<myDebugLevel, myHeadOfUsedList, mistakes, status>>

\* A head that is no slice is a client's word, taken for a link after a
\* double free that was accepted.
AllocFromFreeList ==
  /\ status = "alive" /\ Pooled /\ ~Forwarded
  /\ myHeadOfFreeList # nullptr
  /\ UNCHANGED <<mySlicesPerLoaf, myLoaves>>
  /\ IF myHeadOfFreeList \in Slices
       THEN /\ myHeadOfFreeList' = word[myHeadOfFreeList]
            /\ HandOut(myHeadOfFreeList, word, CheckedBody)
       ELSE /\ status' = "crashed"
            /\ reports' = CheckReports
            /\ UNCHANGED <<myDebugLevel, myHeadOfFreeList, word, body, myHeadOfUsedList,
                           myInUseCount, allocated, held, mistakes>>

\* A new loaf is filled with MEMPOOL_FREE_WORD before it is sliced.
AllocFromNewLoaf ==
  LET n == Len(myLoaves) + 1
      k == Mgr!NextSlicesPerLoaf
      links == Mgr!LoafLinks(n, k)
      all == Mgr!SlicesOf(Append(myLoaves, k))
  IN  /\ status = "alive" /\ Pooled /\ ~Forwarded
      /\ myHeadOfFreeList = nullptr
      /\ n <= MaxLoaves
      /\ mySlicesPerLoaf' = k
      /\ myLoaves' = Append(myLoaves, k)
      /\ myHeadOfFreeList' = links[<<n, 1>>]
      /\ HandOut(<<n, 1>>,
                 [s \in all |-> IF s \in Slices THEN word[s] ELSE links[s]],
                 [s \in all |-> IF s \in Slices THEN CheckedBody[s] ELSE FreeBody])

\* myMemMgr.alloc() throws bad_alloc: the calls and checks made so far stay.
AllocThrows ==
  /\ status = "alive" /\ Pooled /\ ~Forwarded
  /\ myHeadOfFreeList = nullptr
  /\ mySlicesPerLoaf' = Mgr!NextSlicesPerLoaf
  /\ body' = CheckedBody
  /\ reports' = CheckReports
  /\ allocated' = TRUE
  /\ UNCHANGED <<myDebugLevel, myHeadOfFreeList, myLoaves, word,
                 myHeadOfUsedList, myInUseCount, held, mistakes, status>>

\* The memory comes from ::operator new and is not filled: the check for
\* overwriting sees whatever it holds.
AllocForwarded ==
  /\ status = "alive" /\ Pooled /\ Forwarded
  /\ \E p \in Blocks \ held :
       /\ held' = held \cup {p}
       /\ \E clean \in BOOLEAN :
            reports' = IF myDebugLevel = 0 \/ clean THEN {} ELSE {<<"overwritten", p>>}
  /\ myInUseCount' = myInUseCount + 1
  /\ allocated' = TRUE
  /\ UNCHANGED <<myDebugLevel, fast, word, body, myHeadOfUsedList, mistakes, status>>

\* alloc(sz) of another size, or any alloc of a pool of large slices.
AllocFromSystem ==
  /\ status = "alive"
  /\ allocated' = TRUE
  /\ body' = CheckedBody
  /\ reports' = CheckReports
  /\ UNCHANGED <<myDebugLevel, fast, word, myHeadOfUsedList, myInUseCount,
                 held, mistakes, status>>

Alloc == \/ AllocFromFreeList \/ AllocFromNewLoaf \/ AllocThrows
         \/ AllocForwarded \/ AllocFromSystem

-----------------------------------------------------------------------------
\* The words of the slices once FreeMark has filled a freed slice.
Bug_FreeUnmarked(s) == CheckedBody
FreeMark(s) ==
  IF myDebugLevel > 0 THEN [CheckedBody EXCEPT ![s] = FreeBody] ELSE CheckedBody

\* myMemMgr.free(p).
Bug_GiveBackForgets(s) ==
  /\ word' = [word EXCEPT ![s] = myHeadOfFreeList]
  /\ UNCHANGED <<myHeadOfFreeList, myHeadOfUsedList>>
GiveBack(s) ==
  /\ word' = [word EXCEPT ![s] = myHeadOfFreeList]
  /\ myHeadOfFreeList' = s
  /\ UNCHANGED myHeadOfUsedList

\* Level 2 keeps a freed slice on a list of its own.
Bug_Retire(s) == GiveBack(s)
Retire(s) ==
  /\ word' = [word EXCEPT ![s] = myHeadOfUsedList]
  /\ myHeadOfUsedList' = s
  /\ UNCHANGED myHeadOfFreeList

CountAfterFree == myInUseCount - 1

\* free(ptr) when FreeError finds nothing, or is not asked (level 0).
FreeAccepted(s) ==
  /\ body' = FreeMark(s)
  /\ IF myDebugLevel > 1 THEN Retire(s) ELSE GiveBack(s)
  /\ myInUseCount' = CountAfterFree
  /\ held' = held \ {s}
  /\ reports' = CheckReports
  /\ UNCHANGED status

\* What a refused free does to myInUseCount: nothing.
CountAfterRefusal == myInUseCount

\* FreeError prints its complaint and free returns; AlreadyFreed has also
\* repaired, and reported, any overwriting.
FreeRefused(s) ==
  /\ IF AlreadyFreed(s)
       THEN /\ reports' = CheckReports \cup {<<"already freed", s>>} \cup
                 (IF Overwritten(CheckedBody[s]) THEN {<<"overwritten", s>>} ELSE {})
            /\ body' = [CheckedBody EXCEPT ![s] = FreeBody]
       ELSE /\ reports' = CheckReports \cup {<<"out of range", s>>}
            /\ body' = CheckedBody
  /\ myInUseCount' = CountAfterRefusal
  /\ UNCHANGED <<myHeadOfFreeList, myHeadOfUsedList, word, held, status>>

\* IamOriginator on a pointer outside every loaf; with no loaf it
\* dereferences the null myLoaves.
FreeForeign(p) ==
  IF myLoaves = << >>
    THEN /\ status' = "crashed"
         /\ reports' = {}
         /\ UNCHANGED <<myHeadOfFreeList, myHeadOfUsedList, word, body, myInUseCount, held>>
    ELSE /\ reports' = CheckReports \cup {<<"not mine", p>>}
         /\ body' = CheckedBody
         /\ UNCHANGED <<myHeadOfFreeList, myHeadOfUsedList, word, myInUseCount, held, status>>

\* At level 0 a forwarded block goes to ::operator delete.
FreeForwarded(p) ==
  /\ held' = held \ {p}
  /\ myInUseCount' = CountAfterFree
  /\ reports' = {}
  /\ UNCHANGED <<myHeadOfFreeList, myHeadOfUsedList, word, body, status>>

Bug_FreeUnchecked(s) == FreeAccepted(s)
Bug_FreeAtLevelTwoOnly(s) ==
  IF myDebugLevel > 1 /\ (AlreadyFreed(s) \/ WrittenOutOfRange(s))
    THEN FreeRefused(s)
    ELSE FreeAccepted(s)
FreeSlice(s) ==
  IF myDebugLevel > 0 /\ (AlreadyFreed(s) \/ WrittenOutOfRange(s))
    THEN FreeRefused(s)
    ELSE FreeAccepted(s)

\* A client frees a pointer it was handed.
FreeHeld ==
  /\ status = "alive"
  /\ \E p \in held :
       \/ p \in Slices /\ FreeSlice(p)
       \/ p \notin Slices /\ myDebugLevel > 0 /\ FreeForeign(p)
       \/ p \notin Slices /\ myDebugLevel = 0 /\ FreeForwarded(p)
  /\ UNCHANGED <<myDebugLevel, mySlicesPerLoaf, myLoaves, allocated, mistakes>>

\* free(nullptr), or free(ptr, sz) of another size or of a large slice.
FreeOther ==
  /\ status = "alive"
  /\ body' = CheckedBody
  /\ \E null \in BOOLEAN :
       reports' = CheckReports \cup
                  (IF null /\ myDebugLevel > 0 THEN {<<"zero ptr", nullptr>>} ELSE {})
  /\ UNCHANGED <<myDebugLevel, fast, word, myHeadOfUsedList, myInUseCount,
                 allocated, held, mistakes, status>>

\* The destructor.
Destroy ==
  /\ status = "alive"
  /\ status' = "dead"
  /\ reports' = IF myInUseCount # 0 THEN {<<"unfreed", myInUseCount>>} ELSE {}
  /\ UNCHANGED <<myDebugLevel, fast, word, body, myHeadOfUsedList, myInUseCount,
                 allocated, held, mistakes>>

-----------------------------------------------------------------------------
\* The mistakes of clients.  The checks are off at level 0, so there the
\* clients of this model make none.
Errs(kind) ==
  /\ status = "alive" /\ myDebugLevel > 0 /\ kind \in Misuse
  /\ mistakes < MaxMistakes
  /\ mistakes' = mistakes + 1

\* Writing just outside a slice that is held, into a margin if it has any.
Overrun ==
  /\ Errs("overrun")
  /\ \E s \in held \cap Slices :
       \/ /\ myMarginWords # 0
          /\ word' = [word EXCEPT ![s] = JUNK]
          /\ UNCHANGED body
       \/ /\ \E i \in FirstMargin \cup LastMargin :
               body' = [body EXCEPT ![s][i] = JUNK]
          /\ UNCHANGED word
  /\ reports' = {}
  /\ UNCHANGED <<myDebugLevel, fast, myHeadOfUsedList, myInUseCount,
                 allocated, held, status>>

\* Writing to a slice that is not held, anywhere but into its link.
WriteAfterFree ==
  /\ Errs("write after free")
  /\ \E s \in Slices \ held, i \in Body : body' = [body EXCEPT ![s][i] = JUNK]
  /\ reports' = {}
  /\ UNCHANGED <<myDebugLevel, fast, word, myHeadOfUsedList, myInUseCount,
                 allocated, held, status>>

DoubleFree ==
  /\ Errs("double free")
  /\ \E s \in Slices \ held : FreeSlice(s)
  /\ UNCHANGED <<myDebugLevel, mySlicesPerLoaf, myLoaves, allocated>>

ForeignFree ==
  /\ Errs("foreign free")
  /\ \E p \in Blocks \ held : FreeForeign(p)
  /\ UNCHANGED <<myDebugLevel, mySlicesPerLoaf, myLoaves, allocated>>

Free == FreeHeld \/ FreeOther \/ DoubleFree \/ ForeignFree

Next == /\ UNCHANGED VisibleWords
        /\ \/ \E lev \in Levels : SetDebugLevel(lev)
           \/ CheckEnds /\ (Alloc \/ Free)
           \/ Overrun \/ WriteAfterFree
           \/ Destroy

Spec == Init /\ [][Next]_vars

-----------------------------------------------------------------------------
TypeOK ==
  /\ VisibleWords \in Widths /\ myDebugLevel \in Levels
  /\ DOMAIN word = Slices /\ DOMAIN body = Slices
  /\ \A s \in Slices : /\ word[s] \in Slices \cup {nullptr, BEFORE, JUNK, DATA}
                       /\ body[s] \in [Body -> {BEFORE, AFTER, FREE, DATA, JUNK}]
  /\ myHeadOfUsedList \in Slices \cup {nullptr}
  /\ myInUseCount \in Int
  /\ allocated \in BOOLEAN /\ mistakes \in 0..MaxMistakes
  /\ held \subseteq Slices \cup Blocks
  /\ status \in {"alive", "dead", "crashed"}

(* With margins the checks keep the pool sound: after any mix of overruns, *)
(* writes to freed slices, double and foreign frees, no slice that is held *)
(* or retired lies on the free list, and none is lost from it.             *)
FreeListSurvives == Mgr!FreeListIsFree /\ Mgr!NoSliceLost

(* Seen by a client, and taking a retired slice as still in use, the pool  *)
(* still behaves as SlicePool whatever the misuse, if there are margins.   *)
Pool == INSTANCE SlicePool WITH slices <- Slices, inUse <- Taken \cap Slices
ImplementsSlicePool == Pool!Spec

(* myInUseCount, which the destructor trusts, counts exactly what was      *)
(* handed out and not accepted back, refused frees included.               *)
CountIsRight == myInUseCount = Cardinality(held)

(* A write to a free slice is never hidden: neither by handing the slice   *)
(* out and marking it again nor by repairing it without a report.          *)
DamageIsReported ==
  [][ \A s \in Slices \ held :
        /\ Overwritten(body[s])
        /\ s \in held' \/ ~Overwritten(body'[s])
        => <<"overwritten", s>> \in reports' ]_vars

(* With margins, freeing what is not held never changes the pool: a call   *)
(* that misuses free is refused with a report, however the slice was       *)
(* overwritten.  (Without margins every free of a slice is accepted.)      *)
BadFreeRefused ==
  [][ DoubleFree => /\ reports' # {}
                    /\ UNCHANGED <<myHeadOfFreeList, myHeadOfUsedList, word,
                                   myInUseCount, held>> ]_vars

(* "A freed block is never reallocated" at level 2: it is retired, and     *)
(* stays so, also through later frees of it.                               *)
NeverReallocated ==
  [][ myDebugLevel > 1 => /\ UsedList \cup ((held \ held') \cap Slices) \subseteq UsedList'
                          /\ held' \cap UsedList' = {} ]_vars

(* Clients that make no mistake get no error message but for what they     *)
(* leave unfreed and for null pointers, and the pool does not crash.  (A   *)
(* pool whose margins make its slices too large reads the uninitialized    *)
(* memory it forwards, and does neither: see LegalFreeWorks.)              *)
NoFalseAlarm ==
  mistakes = 0 /\ ~Forwarded => /\ \A r \in reports : r[1] \in {"unfreed", "zero ptr"}
              /\ status # "crashed"

(* Freeing a block that alloc returned is legal and works: false in a pool *)
(* with Forwarded, at level 1 or 2.                                        *)
LegalFreeWorks == [][ FreeHeld => status' = "alive" ]_vars

(* Level 1 "should detect ... trying to free a block not allocated by the  *)
(* given MemPool object": it reports such a free and lives on; false as    *)
(* long as the pool has no loaf.                                           *)
ForeignFreeReported ==
  [][ ForeignFree => \E p \in Blocks : <<"not mine", p>> \in reports' ]_vars

=============================================================================
