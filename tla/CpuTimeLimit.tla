---------------------------- MODULE CpuTimeLimit ----------------------------
(***************************************************************************)
(* CpuTimeLimit.C: a loop calls IamTimedOut once per iteration, and only   *)
(* every myCheckingInterval-th call looks at the clocks.  Times are in     *)
(* ticks since the constructor; an average is kept as its two terms, so    *)
(* that a comparison of quotients becomes one of products.                 *)
(***************************************************************************)
EXTENDS Integers, FiniteSets

CONSTANTS
  Interval,       \* the limit given to the constructor
  Slack,          \* 0.002*interval, by which the elapsed trigger is later
  myExtraTime,    \* interval/32
  Variabilities,  \* values of QuantifyVariability that occur (of 1, 4, 16)
  ShortTimes,     \* how short the iterations of a loop can be
  MaxTime,        \* bound: ticks of one run
  IntMax          \* the largest int

ASSUME TimeAssumption ==
  /\ {Interval, Slack, myExtraTime, MaxTime} \subseteq Nat
  /\ Variabilities \subseteq {1, 4, 16}
  /\ ShortTimes \subseteq Nat \ {0}
  /\ IntMax \in Nat /\ IntMax >= 32

VARIABLES
  myCountdown, myCheckingInterval,
  myTotalCount, myRefPt1Count, myRefPt2Count,
  myRefPt1Time, myRefPt2Time,
  myTriggerTime, myVariability, myScaleFactor,
  now, cpu,      \* ElapsedTime() and CpuTime()
  short,         \* the shortest iteration of the present loop
  answer,        \* what the last call returned
  fired          \* history: some call has returned true

counts == <<myTotalCount, myRefPt1Count, myRefPt2Count>>
refs == <<myRefPt1Time, myRefPt2Time>>
vars == <<myCountdown, myCheckingInterval, counts, refs, myTriggerTime,
          myVariability, myScaleFactor, now, cpu, short, answer, fired>>

IamUnlimited == myCheckingInterval < 0

\* Either a limited object, or the one of NoCpuTimeLimit.
Init ==
  /\ now = 0 /\ cpu = 0
  /\ short \in ShortTimes
  /\ answer = FALSE /\ fired = FALSE
  /\ \/ /\ myCountdown = 1 /\ myCheckingInterval = 1
        /\ myTotalCount = 0 /\ myRefPt1Count = 0 /\ myRefPt2Count = 0
        /\ myRefPt1Time = 0 /\ myRefPt2Time = 0
        /\ myTriggerTime = Interval + Slack
        /\ myVariability \in Variabilities
        /\ myScaleFactor = 1
     \/ /\ myCountdown = -1 /\ myCheckingInterval = -1
        /\ myTotalCount = -1 /\ myRefPt1Count = -1 /\ myRefPt2Count = -1
        /\ myRefPt1Time = -1 /\ myRefPt2Time = -1
        /\ myTriggerTime = -1
        /\ myVariability = -1
        /\ myScaleFactor = 0       \* uninitialized in the code, and never read

\* --myCountdown; below the smallest int the machine wraps around.
Decremented == IF myCountdown = -IntMax - 1 THEN IntMax ELSE myCountdown - 1

-----------------------------------------------------------------------------
\* The next checking interval when average iterations take dt/dc ticks and
\* the trigger is ttd ticks ahead: EstNextTimeInterval is v*c*dt/dc.
Bug_GrowsTooSoon(c, v, dt, dc, ttd) ==
  IF v * c * dt < ttd * dc /\ c < 32 THEN 2 * c ELSE c
NextInterval(c, v, dt, dc, ttd) ==
  LET Est(i) == v * i * dt
      halvings == {i \in {1, 2, 4, 8, 16, 32} : i <= c /\ (i = 1 \/ Est(i) <= ttd * dc)}
  IN  IF 4 * Est(c) < ttd * dc THEN IF c < 32 THEN 2 * c ELSE c
      ELSE IF Est(c) > ttd * dc
        THEN CHOOSE i \in halvings : \A j \in halvings : j <= i
        ELSE c

\* The trigger, once the elapsed time t has reached it but the CPU time p
\* is still below the limit.
Bug_TriggerTooLate(t, p, scale) == t + Interval + scale * myExtraTime
NewTrigger(t, p, scale) == t + (Interval - p) + scale * myExtraTime

\* IamTimedOut_ProperCheck at elapsed time t and CPU time p: times out.
myTriggerTimeCPU == IF IamUnlimited THEN -1 ELSE Interval
TimesOut(t, p) == t >= myTriggerTime /\ p >= myTriggerTimeCPU

\* The reference point from which the average is taken; when the second is
\* more than 15 calls old it becomes the first.
Bug_BothPointsMove(move, total, t) ==
  IF move THEN <<total, t>> ELSE <<myRefPt1Count, myRefPt1Time>>
FirstPoint(move, total, t) ==
  IF move THEN <<myRefPt2Count, myRefPt2Time>> ELSE <<myRefPt1Count, myRefPt1Time>>

\* Or goes on.
GoesOn(t, p) ==
  LET late == t >= myTriggerTime
      total == myTotalCount + myCheckingInterval
      move == total - myRefPt2Count > 15
      ref1 == FirstPoint(move, total, t)
  IN  /\ myTotalCount' = total
      /\ myScaleFactor' = IF late THEN myScaleFactor + 1 ELSE myScaleFactor
      /\ myTriggerTime' = IF late THEN NewTrigger(t, p, myScaleFactor') ELSE myTriggerTime
      /\ myRefPt1Count' = ref1[1]
      /\ myRefPt1Time' = ref1[2]
      /\ myRefPt2Count' = IF move THEN total ELSE myRefPt2Count
      /\ myRefPt2Time' = IF move THEN t ELSE myRefPt2Time
      /\ myCheckingInterval' =
           NextInterval(myCheckingInterval, myVariability,
                        t - ref1[2], total - ref1[1], myTriggerTime' - t)
      /\ myCountdown' = myCheckingInterval'

\* One iteration of the loop, of d ticks and c ticks of CPU time.
Passes(d, c) ==
  /\ now + d <= MaxTime
  /\ now' = now + d /\ cpu' = cpu + c

\* IamTimedOut, when it does not look at the clocks.
CallIgnored ==
  /\ Decremented # 0
  /\ myCountdown' = Decremented
  /\ answer' = FALSE
  /\ UNCHANGED <<myCheckingInterval, counts, refs, myTriggerTime, myScaleFactor, fired>>

CallUnlimited ==
  /\ Decremented = 0 /\ IamUnlimited
  /\ myCountdown' = 0
  /\ answer' = FALSE
  /\ UNCHANGED <<myCheckingInterval, counts, refs, myTriggerTime, myScaleFactor, fired>>

CallGoesOn ==
  /\ Decremented = 0 /\ ~IamUnlimited
  /\ ~TimesOut(now', cpu')
  /\ GoesOn(now', cpu')
  /\ answer' = FALSE
  /\ UNCHANGED fired

CallTimesOut ==
  /\ Decremented = 0 /\ ~IamUnlimited
  /\ TimesOut(now', cpu')
  /\ answer' = TRUE /\ fired' = TRUE
  /\ myCountdown' = 0
  /\ myTotalCount' = myTotalCount + myCheckingInterval
  /\ UNCHANGED <<myCheckingInterval, myRefPt1Count, myRefPt2Count, refs,
                 myTriggerTime, myScaleFactor>>

\* The iterations of a loop vary by at most the factor its author stated.
Iterate ==
  /\ IF IamUnlimited THEN Passes(0, 0)      \* no clock is looked at
     ELSE \E d \in {short, myVariability * short} : \E c \in {0, d} : Passes(d, c)
  /\ CallIgnored \/ CallUnlimited \/ CallGoesOn \/ CallTimesOut
  /\ UNCHANGED <<myVariability, short>>

\* myReset before a new loop.
ResetPoints ==
  /\ myCheckingInterval' = 1
  /\ myCountdown' = 1
  /\ myRefPt1Count' = myTotalCount /\ myRefPt2Count' = myTotalCount
  /\ myRefPt1Time' = now /\ myRefPt2Time' = now

myReset ==
  /\ IF IamUnlimited
       THEN UNCHANGED <<myCheckingInterval, myCountdown, counts, refs, myVariability>>
       ELSE /\ ResetPoints
            /\ UNCHANGED myTotalCount
            /\ myVariability' \in Variabilities
  /\ short' \in ShortTimes
  /\ answer' = FALSE
  /\ UNCHANGED <<myTriggerTime, myScaleFactor, now, cpu, fired>>

Next == Iterate \/ myReset
Spec == Init /\ [][Next]_vars

-----------------------------------------------------------------------------
TypeOK ==
  /\ myCountdown \in -IntMax - 1 .. IntMax
  /\ myCheckingInterval \in {-1, 1, 2, 4, 8, 16, 32}
  /\ myTotalCount >= myRefPt2Count /\ myRefPt2Count >= myRefPt1Count
  /\ cpu \in 0..now

(* "An estimate of how many iterations can safely be performed before the  *)
(* next proper check": in loops whose iterations vary no more than stated, *)
(* no call that comes when the trigger time has been reached is ignored.   *)
NoLateCallIgnored ==
  [][ ~fired /\ ~IamUnlimited /\ CallIgnored => now' < myTriggerTime ]_vars

(* So the limit is kept although most calls do not look at the clocks: no  *)
(* call returns false when the CPU time exceeds the limit by the tolerance *)
(* that the times waited for other reasons have earned.                    *)
LimitIsKept ==
  ~fired /\ ~IamUnlimited =>
    \/ cpu < Interval + Slack
    \/ cpu < Interval + myScaleFactor * myExtraTime

(* The checks get their average from at least one iteration: no division   *)
(* by zero, across any pattern of resets.                                  *)
AveragesExist ==
  [][ CallGoesOn => myTotalCount' > myRefPt1Count' /\ now' > myRefPt1Time' ]_vars

(* "IamTimedOut() returns true if time-out has occurred, otherwise false". *)
StaysTimedOut == [][ fired /\ Iterate => answer' ]_vars

=============================================================================
