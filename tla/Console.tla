------------------------------ MODULE Console ------------------------------
(***************************************************************************)
(* The two threads of the CoCoA-5 console (C5.C): the interpreter, which   *)
(* loads packages, then reads lines, executes statements and pauses in the *)
(* debugger, and the GUI, which every 20 ms updates what it shows of the   *)
(* interpreter's status and then executes the commands (output, mostly)    *)
(* which the interpreter has posted.  They share the interpreter's status, *)
(* which no lock protects, four mutexes and three condition variables.     *)
(*                                                                         *)
(* Who holds a mutex follows from where the threads are: Console::mut is   *)
(* the GUI's while it executes commands, FlushQC's mut is the              *)
(* interpreter's from "flushPost" to its wait, the line provider's mut is  *)
(* the interpreter's at "clearPost".  Every other critical section is one  *)
(* step.  IS_RUNNING_BUILTIN is treated as IS_RUNNING, as the GUI does;    *)
(* the statement that quits is left out.                                   *)
(***************************************************************************)
EXTENDS Naturals, Sequences

CONSTANTS LineKinds,                      \* kinds of lines that users enter
          MaxLines, MaxFulls, MaxClicks,  \* bounds on what users do
          MaxQueue                        \* bound on output waiting to be shown

ASSUME LineAssumption == LineKinds \subseteq {"whole", "open", "close", "blank", "mixed"}

VARIABLES
  int,       \* the interpreter: where it is, where it goes on after a flush, the
             \* kind of the line just read, whether a statement is unfinished
  status,    \* Interpreter::status
  debug,     \* singleStepExecution; armed: doStepOver or a frame's singleStepOnPop
  signal,    \* the register of the last signal
  sync,      \* flushed, mustResume; woken: the current wait has been notified
  commands,  \* Console::commands
  input,     \* enteredLines, and the number of enteredFullCommands
  gui,       \* the GUI: where it is, oldInterpreterStatus, and what is enabled:
             \* the debugger, its buttons, and the entry of lines
  bounds     \* lines and full commands entered so far, clicks
consoleVars == <<int, status, debug, signal, sync, commands, input, gui, bounds>>

ConsoleMutFree == gui.pc \notin {"drain", "flushExecute"}
FlushMutFree   == int.pc # "flushPost"
LinesMutFree   == int.pc # "clearPost"

ConsoleInit ==
  /\ int = [pc |-> "packages", after |-> "exec", line |-> "blank", open |-> FALSE]
  /\ status = "WAITING"
  /\ debug = [singleStep |-> FALSE, armed |-> FALSE]
  /\ signal = FALSE
  /\ sync = [woken |-> FALSE, flushed |-> FALSE, mustResume |-> FALSE]
  /\ commands = <<>>
  /\ input = [lines |-> <<>>, fulls |-> 0]
  /\ gui = [pc |-> "idle", old |-> "NONE", debugger |-> TRUE, buttons |-> FALSE,
            entry |-> FALSE]
  /\ bounds = [lines |-> 0, fulls |-> 0, clicks |-> 0]

(***************************************************************************)
(* The interpreter's thread.  An action may change int, and what it names. *)
(***************************************************************************)
At(from) == int.pc = from /\ UNCHANGED <<gui, bounds>>
Goto(to) == int' = [int EXCEPT !.pc = to]
postCommand(c) == ConsoleMutFree /\ commands' = Append(commands, c)
notReading == UNCHANGED input
notDebugging == UNCHANGED <<debug, signal>>

\* Console::myLoadPackages, before Interpreter::run begins to read: the statements
\* of the packages are executed with the status still WAITING and without a flush.
\* (The debugger does not stop in them: nobody can have asked it to.)
PackageOutput ==
  /\ At("packages") /\ Len(commands) < MaxQueue
  /\ postCommand("print")
  /\ notReading /\ notDebugging
  /\ UNCHANGED <<int, status, sync>>

\* The last package is loaded, or one has failed and its message is flushed.
EndOfPackages ==
  /\ At("packages")
  /\ \/ Goto("loaded")
     \/ int' = [int EXCEPT !.pc = "flush", !.after = "loaded"]
  /\ notReading /\ notDebugging
  /\ UNCHANGED <<status, sync, commands>>

\* The IncrementProgressBarQC that fills the bar.
PostProgress ==
  /\ At("loaded") /\ Goto("top")
  /\ postCommand("progress")
  /\ notReading /\ notDebugging
  /\ UNCHANGED <<status, sync>>

\* Interpreter::run begins to read a statement.
Top ==
  /\ At("top") /\ Goto("prompt")
  /\ status' = "WAITING"
  /\ notReading /\ notDebugging
  /\ UNCHANGED <<sync, commands>>

\* doReadNextLine: the prompt; then, under the lock, an entered line; or a full
\* command, if no line of the statement has been read; or a wait.
Prompt ==
  /\ At("prompt") /\ Goto("readLock")
  /\ postCommand("print")
  /\ notReading /\ notDebugging
  /\ UNCHANGED <<status, sync>>

Bug_StatusIgnored == input.fulls > 0
MayTakeFull == status = "WAITING" /\ input.fulls > 0
TakeLine ==
  /\ input.lines # <<>>
  /\ int' = [int EXCEPT !.pc = "echo", !.line = Head(input.lines)]
  /\ input' = [input EXCEPT !.lines = Tail(@)]
  /\ status' = IF Head(input.lines) = "blank" THEN status ELSE "COMPLETION"
  /\ UNCHANGED sync
TakeFull ==
  /\ input.lines = <<>> /\ MayTakeFull
  /\ int' = [int EXCEPT !.pc = "clearPost", !.line = "full"]
  /\ input' = [input EXCEPT !.fulls = @ - 1]
  /\ UNCHANGED <<status, sync>>
WaitForLine ==
  /\ input.lines = <<>> /\ ~MayTakeFull
  /\ Goto("lineWait")
  /\ sync' = [sync EXCEPT !.woken = FALSE]
  /\ UNCHANGED <<input, status>>
ReadLine ==
  /\ At("readLock")
  /\ TakeLine \/ TakeFull \/ WaitForLine
  /\ notDebugging
  /\ UNCHANGED commands
LineWaitEnd ==
  /\ At("lineWait") /\ sync.woken /\ Goto("readLock")
  /\ notReading /\ notDebugging
  /\ UNCHANGED <<status, sync, commands>>

PostClear ==
  /\ At("clearPost") /\ Goto("echo")
  /\ postCommand("clear")
  /\ notReading /\ notDebugging
  /\ UNCHANGED <<status, sync>>
Echo ==
  /\ At("echo") /\ Goto("parse")
  /\ postCommand("print")
  /\ notReading /\ notDebugging
  /\ UNCHANGED <<status, sync>>

\* The parser has a statement, needs another line, or finds an error.  A "mixed"
\* line completes a statement and starts another.  With a statement the
\* interpreter is running, and flushes so that the GUI shows it.
Completes ==
  int.line \in (IF int.open THEN {"close", "mixed"} ELSE {"whole", "full", "mixed"})
IsError == int.line = "close" /\ ~int.open
Bug_RunUnflushed(open) == int' = [int EXCEPT !.pc = "exec", !.open = open]
StartRunning(open) ==
  int' = [int EXCEPT !.pc = "flush", !.after = "exec", !.open = open]
Parse ==
  /\ At("parse")
  /\ CASE Completes -> StartRunning(int.line = "mixed") /\ status' = "RUNNING"
       [] IsError   -> Goto("top") /\ UNCHANGED status
       [] OTHER     -> /\ int' = [int EXCEPT !.pc = "prompt", !.open = @ \/ int.line = "open"]
                       /\ UNCHANGED status
  /\ notReading /\ notDebugging
  /\ UNCHANGED <<sync, commands>>

\* IdeOutputStream::flush: post the one FlushQC and wait until it is executed.
Flush ==
  /\ At("flush") /\ Goto("flushPost")
  /\ sync' = [sync EXCEPT !.flushed = FALSE]
  /\ notReading /\ notDebugging
  /\ UNCHANGED <<status, commands>>
FlushPost ==
  /\ At("flushPost") /\ Goto("flushWait")
  /\ postCommand("flush")
  /\ sync' = [sync EXCEPT !.woken = FALSE]
  /\ notReading /\ notDebugging
  /\ UNCHANGED status
Bug_WaitOnce == TRUE
FlushSeen == sync.flushed
FlushEnd ==
  /\ At("flushWait") /\ sync.woken
  /\ IF FlushSeen THEN Goto(int.after) /\ UNCHANGED sync
                  ELSE sync' = [sync EXCEPT !.woken = FALSE] /\ UNCHANGED int
  /\ notReading /\ notDebugging
  /\ UNCHANGED <<status, commands>>

\* Pending signals are discarded, and the statement is executed.
StartExecution ==
  /\ At("exec") /\ Goto("run")
  /\ signal' = FALSE
  /\ notReading
  /\ UNCHANGED <<status, debug, sync, commands>>
PrintOutput ==
  /\ At("run") /\ Len(commands) < MaxQueue
  /\ postCommand("print")
  /\ notReading /\ notDebugging
  /\ UNCHANGED <<int, status, sync>>

\* The statement ends: normally, by an error, or by a signal noticed.
EndOfStatement ==
  /\ At("run") /\ Goto("top")
  /\ signal' \in {signal, FALSE}
  /\ debug' = [debug EXCEPT !.armed = FALSE]
  /\ notReading
  /\ UNCHANGED <<status, sync, commands>>

\* The debugger's hook in eval and execute: it pauses, unless it finds a signal,
\* which it resets.
Hook ==
  /\ At("run") /\ debug.singleStep
  /\ signal' = FALSE
  /\ IF signal THEN UNCHANGED <<int, status, debug>>
     ELSE /\ Goto("pauseLock")
          /\ status' = "PAUSED"
          /\ debug' = [debug EXCEPT !.armed = FALSE]
  /\ notReading
  /\ UNCHANGED <<sync, commands>>

\* An expression stepped over has ended, or a frame stepped out of is popped.
StepDone ==
  /\ At("run") /\ debug.armed
  /\ debug' = [singleStep |-> TRUE, armed |-> FALSE]
  /\ notReading
  /\ UNCHANGED <<int, status, signal, sync, commands>>

\* Interpreter::pause after the status is set.  Interpreter::resume takes no
\* lock, so it may come between any of these steps.
PauseLock ==
  /\ At("pauseLock") /\ Goto("pauseLocked")
  /\ sync' = [sync EXCEPT !.mustResume = FALSE]
  /\ notReading /\ notDebugging
  /\ UNCHANGED <<status, commands>>
PauseWait ==
  /\ At("pauseLocked") /\ Goto("pauseWait")
  /\ sync' = [sync EXCEPT !.woken = FALSE]
  /\ notReading /\ notDebugging
  /\ UNCHANGED <<status, commands>>
PauseEnd ==
  /\ At("pauseWait") /\ sync.woken
  /\ IF sync.mustResume
     THEN /\ int' = [int EXCEPT !.pc = "flush", !.after = "resumed"]
          /\ status' = "RUNNING"
          /\ UNCHANGED sync
     ELSE sync' = [sync EXCEPT !.woken = FALSE] /\ UNCHANGED <<int, status>>
  /\ notReading /\ notDebugging
  /\ UNCHANGED commands
CheckAfterPause ==
  /\ At("resumed") /\ Goto(IF signal THEN "top" ELSE "run")
  /\ signal' = FALSE
  /\ notReading
  /\ UNCHANGED <<status, debug, sync, commands>>

\* A condition variable may wake its waiter without having been notified.
Waiting == int.pc \in {"flushWait", "pauseWait", "lineWait"}
SpuriousWakeUp ==
  /\ Waiting /\ ~sync.woken
  /\ sync' = [sync EXCEPT !.woken = TRUE]
  /\ UNCHANGED <<int, status, debug, signal, commands, input, gui, bounds>>

Interpret ==
  \/ PostProgress \/ Top \/ Prompt \/ ReadLine \/ LineWaitEnd \/ PostClear \/ Echo \/ Parse
  \/ Flush \/ FlushPost \/ FlushEnd \/ StartExecution
  \/ PauseLock \/ PauseWait \/ PauseEnd \/ CheckAfterPause
Execute == PackageOutput \/ EndOfPackages \/ PrintOutput \/ Hook \/ StepDone \/ EndOfStatement

(***************************************************************************)
(* The GUI's thread: processCommands, at every tick of its timer.          *)
(***************************************************************************)
InGui(from) == gui.pc = from /\ UNCHANGED <<int, status, signal, input, bounds>>
GuiGoto(to) == gui' = [gui EXCEPT !.pc = to]

\* updateStatusLabel.  A change of status is shown; the debugger is updated, and
\* looks at the status again.
Tick ==
  /\ InGui("idle")
  /\ IF status = gui.old THEN GuiGoto("lock")
     ELSE gui' = [gui EXCEPT !.pc = "debugger", !.old = status]
  /\ debug' = [debug EXCEPT !.singleStep = @ /\ (status = gui.old \/ status # "WAITING")]
  /\ UNCHANGED <<sync, commands>>

\* Debugger::update: if the interpreter is running the debugger is disabled; if not
\* it is filled from the interpreter's frames.  Once the call stack is listed its
\* first row is selected, and the buttons are enabled if the interpreter is paused.
UpdateDebugger ==
  /\ InGui("debugger")
  /\ IF status = "RUNNING"
       THEN gui' = [gui EXCEPT !.pc = "lock", !.debugger = FALSE, !.buttons = FALSE]
       ELSE GuiGoto("fill")
  /\ UNCHANGED <<debug, sync, commands>>
FilledCallStack ==
  /\ InGui("fill")
  /\ gui' = [gui EXCEPT !.pc = "fillLocals", !.buttons = status = "PAUSED"]
  /\ UNCHANGED <<debug, sync, commands>>
FilledDebugger ==
  /\ InGui("fillLocals")
  /\ gui' = [gui EXCEPT !.pc = "lock", !.debugger = TRUE]
  /\ UNCHANGED <<debug, sync, commands>>

LockCommands ==
  /\ InGui("lock") /\ GuiGoto("drain")
  /\ UNCHANGED <<debug, sync, commands>>
ExecuteCommand ==
  /\ InGui("drain")
  /\ commands # <<>>
  /\ IF Head(commands) = "flush" THEN GuiGoto("flushExecute") /\ UNCHANGED commands
     ELSE /\ commands' = Tail(commands)
          /\ gui' = [gui EXCEPT !.entry = @ \/ Head(commands) = "progress"]
  /\ UNCHANGED <<debug, sync>>
ExecuteFlush ==
  /\ InGui("flushExecute") /\ GuiGoto("drain")
  /\ FlushMutFree
  /\ commands' = Tail(commands)
  /\ sync' = [sync EXCEPT !.flushed = TRUE, !.woken = @ \/ int.pc = "flushWait"]
  /\ UNCHANGED debug
AllExecuted ==
  /\ InGui("drain") /\ GuiGoto("idle")
  /\ commands = <<>>
  /\ UNCHANGED <<debug, sync, commands>>
ProcessCommands ==
  \/ Tick \/ UpdateDebugger \/ FilledCallStack \/ FilledDebugger
  \/ LockCommands \/ ExecuteCommand \/ ExecuteFlush \/ AllExecuted

(***************************************************************************)
(* What users do, between two ticks.                                       *)
(***************************************************************************)
User == gui.pc = "idle" /\ UNCHANGED <<int, status, commands>>

Bug_NotNotified(newInput) == LinesMutFree /\ input' = newInput /\ UNCHANGED sync
EnterIn(newInput) ==
  /\ LinesMutFree
  /\ input' = newInput
  /\ sync' = [sync EXCEPT !.woken = @ \/ int.pc = "lineWait"]
\* onEnterCommandClicked, with the debugger's box checked or not.
EnterLine ==
  /\ User /\ gui.entry /\ bounds.lines < MaxLines
  /\ bounds' = [bounds EXCEPT !.lines = @ + 1]
  /\ \E kind \in LineKinds : EnterIn([input EXCEPT !.lines = Append(@, kind)])
  /\ \E checked \in BOOLEAN :
       debug' = [debug EXCEPT !.singleStep = @ \/ checked]
  /\ UNCHANGED <<signal, gui>>
\* SourceEditor::saveAndRun.
EnterFullCommand ==
  /\ User /\ bounds.fulls < MaxFulls
  /\ bounds' = [bounds EXCEPT !.fulls = @ + 1]
  /\ EnterIn([input EXCEPT !.fulls = @ + 1])
  /\ UNCHANGED <<debug, signal, gui>>

Click == /\ User /\ bounds.clicks < MaxClicks
         /\ bounds' = [bounds EXCEPT !.clicks = @ + 1]
         /\ UNCHANGED input
\* The pause and interrupt buttons are enabled while the label says "running".
ClickPause ==
  /\ Click /\ gui.old = "RUNNING"
  /\ debug' = [debug EXCEPT !.singleStep = TRUE]
  /\ UNCHANGED <<signal, sync, gui>>
ClickInterrupt ==
  /\ Click /\ gui.old = "RUNNING"
  /\ signal' = TRUE
  /\ UNCHANGED <<debug, sync, gui>>

\* The debugger's buttons: each disables them all and resumes.
Resume == sync' = [sync EXCEPT !.mustResume = TRUE, !.woken = @ \/ int.pc = "pauseWait"]
ClickInDebugger ==
  /\ Click /\ gui.buttons
  /\ gui' = [gui EXCEPT !.debugger = FALSE, !.buttons = FALSE]
  /\ Resume
  /\ \/ UNCHANGED <<debug, signal>>                              \* step into
     \/ debug' = [singleStep |-> FALSE, armed |-> TRUE] /\ UNCHANGED signal
                                                                 \* step over, out
     \/ debug' = [debug EXCEPT !.singleStep = FALSE] /\ signal' \in {signal, TRUE}
                                                                 \* continue, stop

\* What else the debugger offers while it is enabled: to fill in the locals, to hide
\* some of them, to select a frame (which sets the buttons).  All of these read the
\* interpreter's frames, without another look at its status.
Inspect ==
  /\ Click /\ gui.debugger /\ gui.old # "NONE"
  /\ \E buttons \in {gui.buttons, status = "PAUSED"} :
       gui' = [gui EXCEPT !.pc = "inspect", !.buttons = buttons]
  /\ UNCHANGED <<debug, signal, sync>>
Inspected ==
  /\ InGui("inspect") /\ GuiGoto("idle")
  /\ UNCHANGED <<debug, sync, commands>>

UserActs ==
  \/ EnterLine \/ EnterFullCommand
  \/ ClickPause \/ ClickInterrupt \/ ClickInDebugger \/ Inspect

ConsoleNext ==
  \/ Interpret \/ Execute \/ SpuriousWakeUp
  \/ ProcessCommands \/ UserActs \/ Inspected

\* Both threads go on, and statements and packages end.  The interpreter's
\* fairness is strong because the GUI takes Console::mut again and again: it is
\* free for most of every 20 ms, so a thread that waits for it gets it.  Nothing
\* is assumed of users, and nothing rests on spurious wake-ups.
ConsoleFairness ==
  /\ SF_consoleVars(Interpret)
  /\ WF_consoleVars(EndOfStatement) /\ WF_consoleVars(EndOfPackages)
  /\ WF_consoleVars(ProcessCommands \/ Inspected)
ConsoleSpec == ConsoleInit /\ [][ConsoleNext]_consoleVars /\ ConsoleFairness

(***************************************************************************)
(* Properties.                                                             *)
(***************************************************************************)

\* At its ticks the GUI reads the interpreter's frames without a lock; it is the
\* flush at the start of each statement, and the pause, that keep the interpreter
\* from executing meanwhile.  The packages have no flush, so there is no such
\* promise while they are loaded; nor for Inspect, see InspectsSafely.
TicksReadSafely == gui.pc \in {"fill", "fillLocals"} => int.pc \notin {"exec", "run"}

\* Debugger::update disables the debugger of a running interpreter.  But it is not
\* called while the GUI has not noticed that the interpreter runs.
InspectsSafely == gui.pc = "inspect" => int.pc \notin {"exec", "run"}

\* A command entered in full (a file to run) is never read as the continuation
\* of a statement that was begun on the command line.
FullCommandsWhole == int.pc = "clearPost" => ~int.open

\* The GUI holds Console::mut and asks for FlushQC's mutex, the interpreter holds
\* that and asks for Console::mut: yet whatever the GUI does it comes back to its
\* event loop.  It relies on a FlushQC never being posted while one is queued.
GuiResponds == gui.pc # "idle" ~> gui.pc = "idle"

\* No wake-up of the line reader is lost: if the interpreter is not left paused,
\* every line that was entered is in the end read.
LinesAreRead ==
  []<>(status # "PAUSED") =>
    \A n \in 1..MaxLines : bounds.lines >= n ~> bounds.lines - Len(input.lines) >= n

\* The comment on the flush that ends a pause: it "is used to sync (that is, wait
\* until the GUI notices the status has changed)".
FlushSyncs == int.pc = "resumed" => gui.old # "PAUSED"
=============================================================================
