# Models of CoCoALib

TLA+ modules for the parts of CoCoALib whose correctness depends on sequences
of calls, or on two threads, rather than on one formula: memory pools, reference
counts, the global manager, signals, time limits, geobuckets, the pairs of
Buchberger's algorithm, ideals and what they remember, and the threads of the
CoCoA-5 console. Every module is translated from the source; TLC checks it on
small instances, and TLAPS proves, for all values of their constants, every safety
property that the passing runs check, and that the pools and the geobuckets
implement their abstract specifications.

## 1. Inventory

CoCoALib is a C++ library for computations with polynomials. Nearly all of it
(`src/src/AlgebraicCore`, 97 000 lines, with headers in `src/include/CoCoA`) is
mathematics executed by one thread; other directories hold the CoCoA-5
interpreter with its GUI (the one place with two threads), a server, tests and
examples. The library has no persistence and no messages. What makes its behaviour hard is

- memory that is laid out by hand (free lists threaded through user memory),
- ownership by intrusive counts with circular references,
- the order of construction and destruction of globals,
- asynchronous signal handlers, and clocks that are looked at only sometimes,
- lazily maintained data (certificates, bounds, caches) which each operation
  must update or withdraw,
- work that is skipped because other work, done or still queued, implies it,
- in the GUI, a status that no lock protects and four locks that two threads
  take in different orders.

| component | state | operations | interacts with | what makes it correct |
|---|---|---|---|---|
| `MemPoolFast` | free list head, loaves, slices per loaf; links inside free slices | alloc, free (with or without size), status | clients' writes to slices they hold; malloc | a slice is handed out once, none is lost, loaf sizes grow within bounds |
| `MemPoolDebug` | a `MemPoolFast`, margins and fill patterns, list of retired slices, counts, debug level | alloc, free, set level, destructor | the inner pool's IamOriginator | misuse is reported and, where slices have margins, does not corrupt the pool; no false alarms |
| `GlobalManager` | GMP's memory functions, static slice size and pool, stack of destructors, rings ZZ and QQ | constructor, destructor, registration | GMP, reference counts, the GMP pool | reverse order, final check right, blocks go home or a warning is given |
| `SmartPtrIRC`, ring constructors | count in each object, pointers of objects to their base and to themselves | copy, assign, destroy, swap, make an object | every ring, homomorphism, monoid | counts are exact; nothing dies early or twice, nothing is immortal |
| `SignalWatcher`, interrupts | handlers, the register of the last signal | install, deactivate, note, read and reset, throw | the operating system | handlers reinstated, signals noticed once |
| `CpuTimeLimit` | countdown, checking interval, reference points, trigger | IamTimedOut, myReset | clocks; every long loop | the limit is kept although few calls look at the clock |
| `geobucket` | buckets (coefficient, polynomial, capacity, length bound), certificate `IhaveLM` | add, add a multiple, take the leading term, scale, reduce, empty | reduction cogs, multiplication, evaluation | it is one polynomial; certificate and bounds are true |
| reduction cogs | ignored and active part of a reduction, delayed scale factor | reset, next term, reduce, release | geobuckets, Buchberger | the value is preserved up to the recorded scale |
| `GReductor`, pairs, `GPoly` | queue of pairs, basis, reducers, truncation degree, sugar | insert pairs, criteria, reduce, update, finalise, export | reduction cogs, time limits, interrupts | no relation is lost with a dropped pair; degrees in order; a reduced basis; truncation reported |
| `QBGenerator`, `LinDepMill` | corners, order ideal, avoid list; rows so far | next, accept or reject a corner | Buchberger-Moeller | the accepted terms are an order ideal; corners are its border |
| rational reconstruction, CRT | residue, modulus, cached result and flags | add residues, query | modular algorithms | a convincing result is right if few residues are bad |
| ideals | generators, cached basis and minimal generators, six three-valued flags, reference count | queries that fill the caches, assertions, operations that change the ideal, copies | Buchberger, time limits, interrupts | a cached answer belongs to the current generators; flags agree and are true; handles are values |
| CoCoA-5 console | interpreter status, debugger switches, posted commands, entered lines, locks | read, run, pause, flush; timer, buttons | two threads; the signal register | no hang, no line lost, frames read only while no statement runs |
| `DistrMPolyInlPP` | singly linked summands, end pointer | add, move, append, delete | memory pools | ordered summands, end pointer right |
| others | see `components` in `PROJECT.json` | | | |

Not modelled at all: the mathematics of single calls (arithmetic of rings,
matrices, factoring, Hilbert series), lexer, parser and evaluator of CoCoA-5,
input and output, code of external libraries and interfaces to them, the server,
and the windows of the GUI that share no state with the interpreter. Each is listed
in `PROJECT.json` with its reason. The hazards found in the survey, each at its
line with the properties aimed at it, are under `hazards`.

## 2. Plan

Done, in this order: (1) `LoafSizes`, `SlicePool`, `MemPoolFast` and its proofs;
(2) `MemPoolDebug`; (3) `RefCount`, `GlobalManager`;
(4) `SignalWatcher`, `CpuTimeLimit`; (5) `PolySum`, `Geobucket`;
(6) `GReductor`; (7) `Console`; (8) `Ideal`; (9) proofs about `MemPoolDebug`,
`RefCount`, `SignalWatcher`, `Console`, `GReductor` and `Ideal`; (10) proofs about
`LoafSizes`, `GlobalManager`, `CpuTimeLimit` and `Geobucket`.

To come:

1. `ReductionCog` over `Geobucket`: active and ignored part, with the GCD
   variant over integer coefficients, where the delayed scale factors matter;
   abstract specification: reduction of one polynomial. `ReductionStepGCD` and
   `RemoveBigContent` of `geobucket.C` belong there.
2. `QBGenerator` against the definition of an order ideal and its border.
3. `RatReconstruct` and `CRTMill`: residues that arrive in any order, some bad.
   The reconstruction computes its result lazily and keeps two flags on it, which
   every added residue must withdraw (`NumTheory-RatReconstruct.C:74`).
4. `DistrMPolyInlPP` linked lists, composed with `MemPoolFast`.
5. Sugar in `GReductor`, and interrupts and time-outs in the middle of it.
6. Proofs: that the growth function of `MemPoolFast` may be that of `LoafSizes`
   (which would compose the two), and liveness, when a prover for it is at hand.

## 3. Modules

Names follow the source. `Init`, `Next`, `Spec` and `vars` have the component's name in
front (`ManagerInit`, `consoleVars`) where two components are extended by one module of
proofs. In every module the operators named `Bug_...` are
mutated forms of the definition that follows them; they are used for mutation
testing only: `PROJECT.json` pairs every property with one that must break it.

- **LoafSizes** (`MemPool.C:101-139`, `MakeNewLoaf`). The two functions that
  choose how many slices a loaf holds. The loops that double a target become
  the least target with a property, among the targets that doubling `MinLoafBytes`
  gives. Checked with the constants of a 64-bit build; `SizeAssumption` states the
  relations between the constants that the proofs need.
- **SlicePool**. What a pool promises: it hands out slices not in use, makes new
  ones only when all are in use, and takes back what was handed out.
- **MemPoolFast**. `word[s]` is the first word of slice `s`: its link while it is
  free, anything the client likes (other slices' addresses included) while it is
  held. Slices are pairs <<loaf, index>>. `AllocFromSystem` and `FreeToSystem` are
  the calls with another size; `AllocThrows` is a failing malloc, after
  `mySlicesPerLoaf` has been advanced. The growth function is a constant operator
  with the assumption that `LoafSizes` justifies.
- **MemPoolDebug**. The words of a slice are kept one by one with the marks that
  `AllocMark` and `FreeMark` write; the inner pool is an instance of `MemPoolFast`,
  whose invariants it reuses. Clients make mistakes (bounded by `MaxMistakes`):
  writing into margins, writing to free slices, freeing twice, freeing foreign
  pointers. The link word of a free slice is never overwritten by a client here:
  the pool cannot survive that, and does not claim to. A pointer is named by its
  slice, so misaligned pointers (`myAlignmentCheck`) are left out, as are the
  intercepts and statistics. The width of the data is chosen once, in `Init`.
  Margins may be empty, as the constructor allows: then the checks of `free` see
  nothing, and a slice's first word is the client's. A client's word that is followed
  as a link crashes the program, and a check of the retired slices that would
  never end is no step.
- **RefCount**. A decrement is two steps, `--count` and the test. A ring's
  constructor starts at 1, its zero and one add themselves, and `myRefCountZero`
  ends it; in the destructor they drive the count below 0 in unsigned arithmetic
  (`W` = 2^w). `BuildThrows` is a constructor that throws between them.
- **GlobalManager**. Values own one GMP block each and elements count their ring.
  The destructor is cut into its stages: registered destructors, deregistration,
  check of ZZ and QQ, memory functions. Constants choose which misuses the
  documentation warns of happen: values left over, second managers, late
  registrations. Block sizes are 1 (fits a slice) and 2.
- **SignalWatcher**. The register, nested watchers, and a signal between any two
  steps; `GetAndResetSignalReceived` is two steps, as it is in the code.
- **CpuTimeLimit**. Time is counted in ticks, quotients are compared as products,
  so no rounding is modelled. A loop has a shortest iteration and iterations that
  are longer by at most the stated variability; each may use the CPU or wait.
- **PolySum, Geobucket**. Polynomials in one indeterminate modulo a prime: what
  matters to a geobucket is which terms coincide and which cancel. A pass of
  `mySetLM`, the repeated passes, the cascade, the sum and the capacities are
  recursive functions, which the proofs can speak of; `MaxPasses` and `MaxDeg` bound
  their arguments, and that the bounds suffice is proved, not assumed.
  `ReductionStepGCD` over a field is `ReductionStep`.
- **GReductor** (`TmpGReductor.C`, `TmpGPair.C`, parts of `TmpGPoly.C`). A
  polynomial is its leading power product and its component in a module. What a
  reduction yields is left open: zero, or any leading term that no reducer divides
  and that is smaller in the term ordering (of the same degree for homogeneous
  input). So one model has the runs of every ideal with these inputs' leading
  terms, and more. `mode` chooses among the five main loops (standard, first
  elimination polynomial, saturating, real radical; homogeneous or not). One step
  takes the first pair, reduces it and updates basis and queue, as one turn of the
  loop does; nothing else runs meanwhile. Degrees, and the elements that `myClean`
  deactivates and erases one after another, are recursive functions. Where sugar would decide the order, any
  pair may be first. `treated` is history: the pairs whose S-polynomial has been
  reduced. The queue is a set with the order `Less`; equal pairs cannot occur.
- **Console** (`C5.C`, the main loop of `Interpreter.C`). The interpreter's thread
  is cut where it takes or waits for a lock, the GUI's where it takes one or reads
  the shared status; one `Tick` to the next `AllExecuted` is `processCommands`.
  Wake-ups may be spurious. `sync.woken` tells that the wait the interpreter is in
  was notified; a notification without a waiter is lost, as it is in C++. Lines
  are of five kinds, according to what they do to an unfinished statement. The thread
  begins with the packages, whose statements are executed with the status still
  "waiting" and no flush, while the GUI ticks. The debugger's handlers which fill in
  local variables (a frame selected, choices of what to hide, the two buttons) are `Inspect`.
- **Ideal** (`ideal.C`, `SparsePolyOps-ideal*.C`). Handles, objects, and every
  operation that changes an object. The ring has one indeterminate, where a
  polynomial is x^a (x-1)^b and an ideal may be monomial or not, or two, where all
  generators are monomial: between them they take every branch of the caches and
  flags except those of the general case in several indeterminates. Flag
  assignments are modelled one by one with the exception they may throw: `raised`
  stops the rest, and `Caught` is the caller's catch. `suspect` is history: flags
  kept from another ideal or asserted wrongly by a client, minimal generators taken
  over from another ideal (`"mins"`), or those having become the generators (`"gens"`).
  The ring `P` is chosen in `Init`, with the generators and the number of calls.
- **NatFacts** and the modules named **...Proofs**. Section 5.
- **MCLoafSizes, MCMemPoolFast, MCMemPoolDebug, MCGeobucket, MCGReductor, MCIdeal**.
  Values of constants that a .cfg cannot write, and symmetries. The other modules
  are instantiated by .cfg alone.

Nearly every module defines `TypeOK`; only that of `MemPoolFast`, which is proved, is a
property of a run.

## 4. Runs

Passing runs:

| run | asks | bounds, and why they are enough |
|---|---|---|
| `loaf_sizes` | are loaves large enough, small enough and growing for every slice size? | all sizes to 256 bytes in steps that reach every word count, and larger ones; 9 loaves pass the cap |
| `pool_fast` | does the pool keep its list sound and implement `SlicePool`? | loaves of one and then three slices: a list that crosses loaves; three sizes: the pool's, another, zero |
| `pool_debug` | is misuse found, reported and survived at each level? | margins of two words; up to 3 slices, 3 mistakes of 4 kinds, so that a second mistake can hide a first; two widths, so that the inner pool either pools or forwards; two foreign blocks |
| `manager` | order of destructors, warning, memory functions, counts, with leftover elements of ZZ and QQ, a refused second manager and late registrations | three values of two sizes: one registered, one registered by its destructor, one left over; or up to three of either ring left over, so that both counts are met on either side of the constants they are compared with |
| `ref_count` | are counts exact, nothing dead used, nothing immortal? | three objects (a chain of bases), three pointers, `W` = 16 |
| `signals` | are handlers reinstated, signals reported at most once, and in the end reported? | two watchers on two signals (nested on one signal, or side by side), three signals |
| `time_limit` | can the limit pass while calls are ignored? | a limit of 18 ticks, variability 1 and 4, 24 ticks: intervals grow to 8 and shrink again, and the trigger moves |
| `geobucket` | are certificate and length bounds true, and is it one polynomial? | modulo 3, five terms, capacities 2, 4, 8; five operations, four of which can make a bucket spill; coefficients 2 that wait to be multiplied in |
| `buchberger` | do the criteria, in whatever order, lose a relation; are degrees worked off in order; is truncation reported; is the exported basis reduced? | exponents up to (2,3,3); bases of up to 7 elements (4 where degrees do not bound the choice); four lists of inputs, one of a module; truncation at 2, 3 and none: long enough for pairs replaced, killed and deactivated one after another |
| `console` | can the GUI hang, a line be forgotten, ticks read frames while a statement from the console runs, a file be read inside a statement? | packages first, then two lines of four kinds, one file, one click, one piece of output at a time: each lock is contended, and every wait can be notified, passed over and spurious |
| `ideal` | do flags contradict one another or the ideal, do caches outlive their generators, do handles share more than they should? | two handles and three objects (a copy is shared and cloned), exponents up to 2, and any number of queries and copies between the calls. `Plane` (two indeterminates, three lists of generators) and `Line` (one, two lists): three calls that make ideals or assert flags. `LongLine` (one, the list x²(x-1), x(x-1)²): six calls that make ideals, none that assert, long enough for stale minimal generators to become the generators |

Scaled constants: `gbk_minlen` 2 and `gbk_factor` 2 for 128 and 4, loaves of a few
slices for thousands, `IntMax` 33 for 2^31 - 1 (the code needs more than the
largest checking interval, 32), `W` 16 for 2^64.

Deadlock is not checked where the system stops: a pool or manager destroyed or
crashed, objects used up (`RefCount`), and where a counter reaches its bound
(`MaxLoaves`, `MaxTime`, `MaxOps`).

One run is refuted by TLC: a disagreement between the code and its documentation
(details under `findings`):

| run | shows |
|---|---|
| `ideal_kept` | products, intersections and quotients of monomial ideals keep the flags of their left operand: `I = ideal(x,y)`, asked whether it is radical and then squared in place, is still believed radical, and `radical(I)` returns it |

Other divergences that came up while modelling. The models contain them; where a
property is named, it is defined in the module and TLC refutes it with the
constants given here.

- `GlobalManager`: the members of a refused second manager are made before its body
  throws, and its `~GMPMemMgr` sets `GMPSliceSize` and `GMPPoolPtr` to 0 while the
  first one's memory functions stay installed; `GlobalManager.C:58` asserts that
  the slice size is not 0 (`SliceSizeIsSet`, `SecondChoices = {"cocoa"}`).
- `SmartPtrIRC`: `operator=` reads its right hand side after dropping the left;
  `R = BaseRing(R)` with the last pointer to R reads a deleted object, although
  `ring.H:57` says "Default assignment works fine." (`AssignmentReadsLive`,
  `SoleRebase = TRUE`).
- `geobucket`: `MoveLMToFront` and `MoveLMToBack` do not normalise the first bucket,
  so after `myMulByCoeff` the leading term they move lacks the coefficient
  (`geobucket.C:391`, against `geobucket.txt:53`; `MovesTheLM`). The library's
  callers ask for the leading term first.
- `Ideal`: `I += I` appends to the vector it iterates over
  (`SparsePolyOps-ideal.C:506-516`), against `ideal.txt:45` (`NeverUndefined`). The
  zero ideal of K[x]: `IsMaximal` also assigns "not prime", and an assertion that
  it is prime makes it maximal (`ideal.C:430`, `466`); `IsPrimary` reads the first
  element of an empty basis (`SparsePolyOps-ideal.C:415`; `NeverUndefined`).
  `IsRadical` of a non-monomial ideal of K[x]: two simple factors contradict
  themselves (not prime, then maximal) and throw "Contradictory user assertion", a
  multiple factor leaves the flag undecided and the assertion `ideal.C:407` fails
  (`SparsePolyOps-ideal.C:441-442`).
- Monomial operations in place replace generators and basis, but not
  `myMinGensValue`, of their left operand (`SparsePolyOps-ideal-monomial.C:149`, `190`
  and `227`, where the assignment is commented out as "not necessary").
  It is when minimal generators are noted while the ideal is not
  known to be monomial: I not monomial and asked whether its generators are, `I += ideal(one)`
  (which keeps the answer, `SparsePolyOps-ideal.C:517-521`), `J = IdealOfMinGens(I)`
  (generators 1, the answer forgotten, `606`), `J *= K` for a monomial K:
  `MinGens(J)` (`884`) is still 1. In the model `"mins"` in `suspect` marks such an
  ideal, and `CachesAreCurrent` excepts its minimal generators. One call more,
  `IdealOfMinGens(J)`, makes the stale ones the generators (`605`, `884`), beside the
  cached basis of the product, so that the cached basis is not one of the generators;
  `"gens"` marks this, and is the exception in `CachesAreCurrent` and
  `FlagsAreTrueUnlessKept`. In the models' rings such generators are always {1}; in
  more indeterminates they need not be.
- `Console`: `resume` takes no lock, so a click between the status PAUSED and the
  wait (`C5.C:160-166`) is overwritten or not noticed, and the interpreter stays
  paused with the debugger's buttons disabled; `LinesAreRead` therefore assumes that it
  is not left paused. The flush that ends a pause waits for commands to be executed,
  but the status shown was read before (`C5.C:1052`), so it may return while the
  GUI still shows the pause, against the comments at `C5.C:170` and `1052`
  (`FlushSyncs`). The debugger's hook resets the signal register (`C5.C:84`, `123`):
  an interrupt while stepping is swallowed. The debugger's box is forgotten when the
  label turns to "waiting" after the click (`C5.C:1886`). A line that ends one statement and begins another lets a
  file be read inside the second, because the status is set to waiting again
  (`FullCommandsWhole`, with "mixed" among `LineKinds`). The interpreter loads packages
  before its loop (`Interpreter.C:3036-3038`, `C5.C:1819-1855`) without a flush, while the
  first tick of the GUI reads frames (`C5.C:1723`, `1877-1917`); `TicksReadSafely` promises
  nothing of them. The debugger's handlers read frames outside the tick
  (`C5.C:1342-1383`, `1481-1508`), and the debugger may still be enabled when a statement is
  executed (`InspectsSafely`): either the flush is done in a tick that looked at the status
  before, or the tick reads RUNNING and `Debugger::update` reads a status which by then
  is WAITING again. `resume` asserts that the interpreter is paused (`C5.C:177`), which
  nothing ensures after the tests that enabled the buttons.
- `MemPoolDebug` without margins, which the constructor accepts
  (`MemPool.C:679-684`): `AlreadyFreed` returns false (`510`), so a slice freed twice is
  accepted. The free list becomes a cycle, a slice is handed out twice, a client's word
  may become the list's head, and a level 2 check may never end
  (`myMarginWords = 0`: `BadFreeRefused`, `FreeListSurvives`, `ImplementsSlicePool`,
  `NeverReallocated`, `DamageIsReported`; without double frees, and with margins of one
  word, all six properties of the run hold).
- `MemPoolDebug`, with data just small enough to be pooled but not with its
  margins: the inner pool never makes a loaf, `myLoaves` stays null, and freeing a
  block that `alloc` returned dereferences it at level 1 or 2 (`MemPool.C:342`;
  `LegalFreeWorks`, `Widths = {2}`). For the same reason a foreign free before the
  first loaf crashes instead of being reported, contrary to `MemPool.txt:222`
  (`ForeignFreeReported`).
- `GlobalManager`: a pseudo-destructor that registers another global loses that
  global's destructor, and is itself run again, cleared (`GlobalManager.C:276`;
  `NoDtorForgotten`, `LateRegistration = TRUE`). The check of ZZ compares its count
  with 3, as if QQ stored an embedding homomorphism; the true count is 2, so one
  element of ZZ on its own can outlive the manager unnoticed (`RingZZ.C:841`), and its
  block goes to the wrong allocator without the "rude message" of
  `GlobalManager.txt:203`. `LoneInteger` is this case; `CleanUpVerdict` and
  `WarnedBeforeDamage` except it and nothing else.
- `IntrusiveReferenceCount`: the count is atomic, but the test is a second read, so
  two threads can both delete an object (`SmartPtrIRC.H:104`; `DeletedOnce`, two
  threads). A single thread never meets it.
- `SignalWatcher`: a signal between read and reset is lost (`SignalWatcher.C:103`;
  `NoSignalLost`). Watchers of one signal that end in another order than the reverse
  of their construction leave a wrong handler (`SignalWatcher.C:79`;
  `HandlerIsRight`, `OutOfOrder = TRUE`).
- `CpuTimeLimit`: after a time-out the next call says that there was none
  (`CpuTimeLimit.C:111`; `StaysTimedOut`).
- `geobucket`: a bucket can hold up to three times the terms that `geobucket.txt:86`
  allows (`BucketsStayShort`).
- `MemPool.txt:33` gives 128 as the largest slice size (the code has 256);
  `interrupt.txt:58-61` says that `CheckForInterrupt` also checks for time-outs,
  which it does not.

Fairness is assumed in three runs. `RefCount`: a thread goes on with a decrement that
it is in (a call that does not block and has nothing to wait for). `SignalWatcher`:
a program which polls, that is, calls `CheckForInterrupt` again and again and
catches what it throws; without that no interrupt is ever seen, as
`interrupt.txt` says. `Console`: both threads go on (weakly for the GUI, whose
timer calls `processCommands` again and again, and whose handlers return), and
statements and packages end. The interpreter's fairness
is strong, because a lock it waits for may be taken and released by the GUI every
20 ms; it is free most of that time, and the operating system lets a waiting thread
have it. Nothing is assumed of spurious wake-ups or of users.
Nothing is assumed of clients otherwise: they need not free,
destroy or ask for anything.

## 5. Proofs

Theorems are in eight modules, one or more components to each. All hold for every
value of the constants that satisfies the named assumptions of the module they are
about; the few that need more say so. Where a stated property is not inductive, its
strengthening was checked with TLC before it was proved. There is one lemma
per action.

**NatFacts**. Induction on a set of numbers, through its least element; the
existence of recursive functions on an interval (`Recursion`), and that what every
step of one keeps holds at its end.

**MemPoolFastProofs** (`LoafAssumption`, `AddressAssumption`: loaf sizes lie in a
finite range; null, slices and system addresses differ).

- `Invariance`: `Spec => []IInv`, where `IInv` is `TypeOK`, `BlocksGoHome` and
  `Threaded`. The stated properties are not inductive. `NoSliceLost` quantifies over
  sets closed under links, which a step changes in ways it cannot describe;
  `Threaded` says instead that some sequence lists the free slices without
  repetition in the order of the links, null-terminated. Taking a slice drops the
  head of that sequence, freeing one prepends it, a new loaf makes one from the
  loaf's slices, and a client's write cannot touch it because it happens outside.
  `BlocksGoHome` is needed so that a freed slice is known to be held exactly once.
- `TypeCorrect`, `Homing`, `NeverHandedOutTwice`, `EverySliceReachable`: the four
  properties, each from `IInv`. The last needs an induction along the sequence,
  done once in `NatFacts` with a least element instead of an induction scheme.
- `Refinement`: initial states map to initial states and each action to `Reuse`,
  `Grow`, `Release` or a stutter; `EmptyListMeansNoneFree` is why a loaf is only
  made when every slice is in use.

**MemPoolDebugProofs** (`DebugAssumption`, `LoavesAssumption`, `MarksAssumption`:
the mark of a free word and junk differ from the others, and no mark is a slice's
address or null). All six properties of the run, for margins of any size and any
misuse, if double frees are seen: slices have margins, or clients free none twice
(`DoubleFreesAreSeen`). Without it TLC refutes five of the six (section 4).

- Two lists run through the same words here. Each is described by a *rank*: a number
  for every member, so that the head has the highest and each link leads to the next
  lower one (`List`). Seven lemmas say how push, pop and a new loaf change a list,
  that a set closed under the links is the whole of it, and (`ListFromIs`) that
  the walk of `FullOverwriteFreeCheck` meets exactly its members: all ranks are
  taken, so that a list is no longer than there are slices.
- `ListInv`: one list threads the slices that are neither held nor retired, the other
  the retired ones. So a link is a slice or null and never the mark that
  `WrittenOutOfRange` looks for: a free of what is not held is always refused
  (`BadFreesAreRefused`), and no misuse reaches the lists (`MisuseNeverBreaksTheList`,
  `Refinement`, `RetiredForGood`).
- `BodyInv` says that at level 0 nothing is marked, `CleanInv` that without mistakes
  every slice bears exactly the marks of its state, which gives
  `LegalUseIsNeverReported`. Every step is shown to be a `GoodStep`, which contains
  `DamageIsAlwaysReported`.

**MemoryProofs**, on reference counts (`CountAssumption`, `NoneIsNoValue`).
`DeletedIsNeverUsed` and `CountIsAlwaysHolders` have two hypotheses which the code
needs: one counting thread (only the count is atomic, not the decrement with its
test), and `SoleRebase = FALSE` (nobody assigns `R = BaseRing(R)` to the last pointer;
section 4). The invariant adds what one step hands to the next: an object under
construction has count 1 and one for each pointer to itself, and nobody else knows
it; a decrement in progress is part of its object's count; what an assignment still
reads is held. A decrement that leaves 0 has then met the last holder. Holders are
cardinalities; a lemma says what redirecting one pointer does to them.

On the global manager (`SettingsAssumption`):

- `GlobalsDieInReverse`. `OrderInv`: as long as no entry of the stack has been
  cleared, the stack is a prefix of the registrations and what has been popped is the
  rest in reverse; `StackInv` adds that entries are live registered values, each there
  once, so that every pop destroys something.
- `RingCountsAreRight` (`CountInv`): the counts are the manager's references, QQ's
  reference to ZZ and one for each value. `VerdictIsRight` follows, with no hypothesis:
  the code's constant for ZZ, one too many, hides exactly the case of a lone element of
  ZZ (section 4); any other leftover of ZZ or QQ is seen, and nothing else is.
- `DamageIsWarnedOf`. `HomeInv`: while memory functions are installed, every block of
  a value goes back to the allocator it came from under them; they are taken down only
  after the check, so that what is still alive then has been reported, unless it is a
  lone element of ZZ. Two hypotheses, both needed: no big integer of no ring is left
  over (none is counted, and nothing warns of it), and no second manager asks for a GMP
  pool (its refused construction clears the first one's settings; section 4).

On loaf sizes (`SizeAssumption`: the longest loaf is one of the
targets, slices are short beside the shortest loaf, and `MinSlices` of them fit in
the longest; all true of the constants of `MemPool.C:101-106`). `SizesInv`: the
slices of a pool that makes loaves are what fits in *one target* of at most
`MaxLoafBytes`. That is the point where rounding could hurt: `IncrLoafSlices` sees
only the bytes that the slices fill, less than the target they were cut from, and it
must find that target again, not the one before. It does because a slice
and the allowance together are at most half of the shortest loaf. Hence `LoavesFit`
and `LoavesDouble`.

**InterruptProofs**, on time limits (`TimeAssumption`). Any limit, any variability
among those that the code allows, loops of any lengths within it, any resets:

- `PaceInv`: the iterations since a reference point took at least the shortest time
  each, so that an average is never below the shortest iteration
  (`EstimateIsSafe`), and the longest is at most `myVariability` times it.
- `FitsInv`: the calls up to the next look at the clocks, each as slow as can be, end
  before the trigger, or there is only one. The three cases of `NextInterval` keep it
  (`NextIntervalIsSafe`); `LateCallsAreNotIgnored` follows.
- `BudgetInv`: CPU time passes no faster than the clock, so that what it can still
  be at the trigger is bounded by the limit and the tolerance; each postponed trigger
  keeps the bound. This gives `LimitHolds`, for a positive limit: with a limit of 0 the
  strict inequality fails before the first call, and nowhere else.
- `NoEmptyAverages`: a point is moved only to where calls have been counted since.

On signal watchers (`SignalAssumption`): `HandlerIsAlwaysRight` assumes `OutOfOrder = FALSE`, the
discipline that scopes and exceptions give. The watchers active on one signal form a
chain, each with the handler of the one below it to put back (`ChainInv`).
`NothingIsReportedTwice` has no hypothesis: reports, and one more if the register or a running check holds a
signal, never exceed the signals noted.

On the console (`LineAssumption`): no lock protects the status; what replaces one is an order of steps.
The interpreter sets RUNNING, marks the flush as not done and only then waits for it;
the GUI does the flush after it has looked at the status and read the frames.
`RunningInv` says that from there to the end of a statement the status is RUNNING and,
once the flush is done, no tick of the GUI is reading (`TicksReadFramesSafely`; packages
and the debugger's handlers have no such order, section 4). `FlushInv`
says that at most one `FlushQC` is queued and only while the interpreter waits for it,
hence with its mutex free: `NoDeadlock`, the two threads never close the cycle of
`Console::mut` and `FlushQC`'s mutex. `FullCommandsAreWhole` assumes that `"mixed"` is
no kind of line (section 4).

**GeobucketProofs** (`FieldAssumption`: numbers modulo `p` other than 0 have inverses;
`GeobucketAssumption`). Any prime, degree, capacities, growth factor and addends. Three
layers:

- Polynomials modulo `p`: sums, multiples, shifts, supports, and how the number of
  terms and the leading exponent of a sum are bounded by those of its parts.
- Sequences of buckets. What a step of the code does to several buckets is stated
  once as `Kept(s, t, k)`: the sum of the buckets is the same, and at least `k` terms
  have vanished. `PassInv` says that after the comparisons with the buckets up to j the
  first bucket is above them all, or the pass has been cut short by a cancellation and
  two terms have vanished. So a pass that is cut short pays for the next one:
  `PassesInv` shows that `mySetLM` ends within `MaxPasses`, with a certified leading
  term. `CascadeInv` says the same of sums for the cascade, which may add buckets at the
  end, with the capacity that its place demands.
- The operations. `Inv`: every bucket has a nonzero coefficient, its place's capacity
  and a true bound of its length, and `IhaveLM` certifies the first bucket
  (`BucketsAreWellFormed`, `LengthsAreBounds`, `LeadingTermCertified`). `BucketsAddUp` needs
  the certificate, since only a certified first bucket may lose its leading term in
  the name of the sum. It maps each action to one of `PolySum` or to a
  stutter, `ReductionStep` to the addition of a
  multiple that cancels the leading term, which the code takes away on both sides
  first.

**GReductorProofs** (the assumptions of `GReductor`: power products are vectors of one
length, inputs and modes are what they are said to be). Any number of indeterminates,
any inputs, all modes, any outcome of reductions. The degree is a recursive function;
`NatFacts!Recursion` gives its existence. Beside types (`TypesAreKept`) four
invariants, each inductive on top of the types:

- `TruncInv`: from the end of the loop on the truncation degree is withdrawn exactly
  if the queue is empty (`TruncationIsAlwaysReported`).
- `ReducedInv`: no active leading term is divisible by another element's, and
  every element's is divisible by an active one's (`ExportIsAlwaysReduced`): a
  polynomial found is reduced by what was there, so only older ones can be deactivated.
- `DegreeByDegree` itself, since the queue's first pair is least in degree
  (`DegreesAreWorkedOffInOrder`).
- `AccountInv`: every two elements are joined by treated or queued pairs whose lcms
  divide theirs (`EveryPairIsAccounted`). When the basis grows by n, an edge (a, b) may be
  lost to the B-criterion, and a new one (k, n) because `myGMInsert` drops it or because
  k makes no more pairs. `GrowthKeepsJoins` replaces the first by (a, n) and
  (n, b), whose lcms are of smaller degree because the criterion is strict,
  and the second by a path through an element that is kept. The replacements may
  need one another; an induction on the degree of the lcm shows that they end.

**IdealProofs** (`NoMoreLiveObjects`, `BoundsAreNats`).
Every handle, object, generator set and number of calls, assertions by clients that
are wrong included.

- `FlagsAlwaysAgree`. `Closed` (the flags of one object do not contradict one
  another, and what follows from one has been noted) is kept by each of the eight
  assignments, thrown exceptions included. That is not obvious: an assignment sets its
  own flag first and then makes the next, which may throw and leave half of the
  consequences unnoted. On closed flags this cannot happen: if a consequence
  would contradict a flag, the assignment's own flag is already settled, so that it
  throws before it has changed anything.
- `FlagsAreAlwaysTrueUnlessKept`. Assigning a truth to true flags leaves them true,
  consequences included, and what the tests assign is the truth about the ideal: this
  rests on a reduced basis of monomials being primary, radical or maximal exactly when the
  conditions that the code tests hold. Objects whose flags came from elsewhere are
  excepted through `suspect`, as are those whose generators were stale minimal ones.
- `CachesAreAlwaysCurrent`. Every operation that changes generators resets or
  replaces what is noted of them, and the bases computed in place by monomial
  operations are reduced bases of the new generators. Excepted are the minimal
  generators that such an operation leaves stale, and ideals to which
  `IdealOfMinGens` has given these as generators.
- `HandlesAlwaysAreValues`. A step that writes to an object writes to one that only
  its handle points to, or changes only what is noted and not the ideal.
- `IInv` adds that handles point to objects and that every object is one.

What is only model-checked:

- all liveness (`NoImmortals`, `SignalsAreHeeded`, `GuiResponds`, `LinesAreRead`): the
  provers do not reason about ENABLED, on which fairness rests;
- `FlagsAreTrue`, which the code violates. `StaysTimedOut` and the other refuted
  properties of section 4 are false and have no theorem either.

Not proved, because it cannot be stated in the form of a theorem here, is that the
models are those of the code: that is for the reader of `map` to judge.
