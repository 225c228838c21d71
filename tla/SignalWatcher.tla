---------------------------- MODULE SignalWatcher ----------------------------
(***************************************************************************)
(* SignalWatcher.C and interrupt.C: scoped objects that install handlers   *)
(* for signals, the register in which CoCoA's handler notes the last       *)
(* signal, and the calls that read and reset it.  A signal may arrive      *)
(* between any two steps of the program, the read and the reset included.  *)
(***************************************************************************)
EXTENDS Integers, Sequences, FiniteSets

CONSTANTS
  Signals,       \* signal numbers
  MaxWatchers,   \* bound: watchers alive at once
  MaxNoted,      \* bound: signals noted in a run
  OutOfOrder,    \* whether a watcher may end before a younger one
  InWindow       \* whether signals arrive between the read and the reset

ASSUME SignalAssumption ==
  /\ Signals \subseteq Nat \ {0}
  /\ {OutOfOrder, InWindow} \subseteq BOOLEAN
  /\ {MaxWatchers, MaxNoted} \subseteq Nat

VARIABLES
  handler,         \* the process's handler of each signal
  original,        \* history: the handlers before any watcher
  watchers,        \* the SignalWatcher objects, in the order of construction
  SignalReceived,  \* the register, 0 if no signal has been noted
  pc,              \* "idle", "read" (in GetAndReset...) or "throwing"
  sig,             \* the local variable of that name
  noted, reported, \* history: signals noted, and reported to the program
  unheeded         \* history: the last signal noted since the last read

watcherVars == <<handler, original, watchers, SignalReceived, pc, sig, noted, reported, unheeded>>

Handlers == {"default", "SetSignalReceived", "other"}

WatcherInit ==
  /\ handler \in [Signals -> {"default", "other"}]
  /\ original = handler
  /\ watchers = << >>
  /\ SignalReceived = 0
  /\ pc = "idle" /\ sig = 0
  /\ noted = 0 /\ reported = 0 /\ unheeded = 0

\* The constructor (one that sigaction refuses throws and leaves no trace).
Construct(s, FnPtr) ==
  /\ pc = "idle"
  /\ Len(watchers) < MaxWatchers
  /\ watchers' = Append(watchers, [mySig |-> s, fn |-> FnPtr,
                                   active |-> TRUE, prev |-> handler[s]])
  /\ handler' = [handler EXCEPT ![s] = FnPtr]
  /\ UNCHANGED <<original, SignalReceived, pc, sig, noted, reported, unheeded>>

\* The handlers once watcher w has been deactivated.
Bug_ResetToDefault(w) ==
  IF w.active THEN [handler EXCEPT ![w.mySig] = "default"] ELSE handler
Deactivated(w) ==
  IF w.active THEN [handler EXCEPT ![w.mySig] = w.prev] ELSE handler

\* Whether the i-th watcher may be deactivated or destroyed now.
MayEnd(i) == OutOfOrder \/ \A j \in i + 1 .. Len(watchers) : ~watchers[j].active

myDeactivate(i) ==
  /\ pc = "idle" /\ watchers[i].active /\ MayEnd(i)
  /\ handler' = Deactivated(watchers[i])
  /\ watchers' = [watchers EXCEPT ![i].active = FALSE]
  /\ UNCHANGED <<original, SignalReceived, pc, sig, noted, reported, unheeded>>

\* The destructor, in the normal course or while an exception passes.
Destroy(i) ==
  /\ pc # "read" /\ MayEnd(i)
  /\ handler' = Deactivated(watchers[i])
  /\ watchers' = SubSeq(watchers, 1, i - 1) \o SubSeq(watchers, i + 1, Len(watchers))
  /\ UNCHANGED <<original, SignalReceived, pc, sig, noted, reported, unheeded>>

\* A signal arrives (or the program itself calls SetSignalReceived).  With
\* the default handler the process would end: nothing more to see.
SetSignalReceived(s) ==
  /\ handler[s] = "SetSignalReceived"
  /\ InWindow \/ pc # "read"
  /\ noted < MaxNoted
  /\ SignalReceived' = s
  /\ noted' = noted + 1
  /\ unheeded' = s
  /\ UNCHANGED <<handler, original, watchers, pc, sig, reported>>

Bug_ResetFirst ==
  /\ pc = "idle"
  /\ pc' = "read"
  /\ sig' = 0 /\ SignalReceived' = 0
  /\ unheeded' = 0
  /\ UNCHANGED <<handler, original, watchers, noted, reported>>
\* The first line of GetAndResetSignalReceived.
Read ==
  /\ pc = "idle"
  /\ pc' = "read"
  /\ sig' = SignalReceived
  /\ unheeded' = 0
  /\ UNCHANGED <<handler, original, watchers, SignalReceived, noted, reported>>

\* The register after the call.
Bug_NotReset == SignalReceived
ResetRegister == 0

\* The rest; CheckForInterrupt throws if there was a signal, the program
\* that calls GetAndResetSignalReceived itself gets the number.
Reset ==
  /\ pc = "read"
  /\ SignalReceived' = ResetRegister
  /\ reported' = IF sig = 0 THEN reported ELSE reported + 1
  /\ pc' \in IF sig = 0 THEN {"idle"} ELSE {"idle", "throwing"}
  /\ UNCHANGED <<handler, original, watchers, sig, noted, unheeded>>

Catch ==
  /\ pc = "throwing"
  /\ pc' = "idle"
  /\ UNCHANGED <<handler, original, watchers, SignalReceived, sig, noted, reported, unheeded>>

WatcherNext ==
  \/ \E s \in Signals :
       \/ \E FnPtr \in Handlers \ {"default"} : Construct(s, FnPtr)
       \/ SetSignalReceived(s)
  \/ \E i \in 1..Len(watchers) : myDeactivate(i) \/ Destroy(i)
  \/ Read \/ Reset \/ Catch

\* A program that calls CheckForInterrupt again and again.
WatcherFairness == WF_watcherVars(Read) /\ WF_watcherVars(Reset) /\ WF_watcherVars(Catch)

WatcherSpec == WatcherInit /\ [][WatcherNext]_watcherVars
WatcherFairSpec == WatcherSpec /\ WatcherFairness

-----------------------------------------------------------------------------
WatcherTypeOK ==
  /\ handler \in [Signals -> Handlers]
  /\ watchers \in Seq([mySig : Signals, fn : Handlers, active : BOOLEAN, prev : Handlers])
  /\ SignalReceived \in Signals \cup {0} /\ sig \in Signals \cup {0}
  /\ pc \in {"idle", "read", "throwing"}

ActiveOn(s) == {i \in 1..Len(watchers) : watchers[i].active /\ watchers[i].mySig = s}

(* Creating a watcher "installs CoCoA's signal handler for the given       *)
(* signal; destroying it reinstates the previous one": with any nesting of *)
(* watchers, exceptions included, the handler of a signal is that of its   *)
(* youngest active watcher, and the original one when there is none.       *)
HandlerIsRight ==
  \A s \in Signals :
    \/ ActiveOn(s) = {} /\ handler[s] = original[s]
    \/ \E i \in ActiveOn(s) : /\ \A j \in ActiveOn(s) : j <= i
                              /\ handler[s] = watchers[i].fn

(* A signal is reported at most once, however checks and signals meet.     *)
ReportedOnce ==
  reported + (IF SignalReceived # 0 /\ pc # "read" THEN 1 ELSE 0) <= noted

(* "Zero if no signal has arrived, otherwise the integer value of the      *)
(* signal" (the last one): between two calls the register holds the last   *)
(* signal that no call has returned yet.                                   *)
NoSignalLost == pc # "read" => SignalReceived = unheeded

(* A program that keeps checking learns of a signal that it finds noted    *)
(* when it is about to check, or of a later one, whatever arrives and      *)
(* whichever watchers end meanwhile.                                       *)
SignalsAreHeeded ==
  \A r \in 0..MaxNoted :
    (SignalReceived # 0 /\ pc = "idle" /\ reported = r) ~> (reported > r)

=============================================================================
