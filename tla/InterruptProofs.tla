-------------------------- MODULE InterruptProofs --------------------------
(***************************************************************************)
(* What interrupts a long computation: the CPU time limit it checks, the   *)
(* signals it looks for, and the console of CoCoA-5, whose two threads     *)
(* pass commands, pauses and interrupts to one another.  The three keep    *)
(* separate states, and are proved about one after the other.              *)
(***************************************************************************)
EXTENDS CpuTimeLimit, SignalWatcher, Console, SequenceTheorems, TLAPS

(***************************************************************************)
(* The time limit (CpuTimeLimit), for any limit, any variability that is   *)
(* named and any lengths of the iterations within what the variability     *)
(* promises.                                                               *)
(*                                                                         *)
(* The calls up to the next check of the clocks, each as long as the       *)
(* slowest iteration, fit before the trigger; and at the trigger the CPU   *)
(* time cannot have passed the limit by more than the allowance, since CPU *)
(* time passes no faster than the clock.  The estimate that doubles or     *)
(* halves the interval is safe because the iterations since the first      *)
(* reference point took at least the shortest time each.                   *)
(***************************************************************************)
Powers == {1, 2, 4, 8, 16, 32}

Calls == myTotalCount + myCheckingInterval - myCountdown

TypeInv ==
  /\ now \in Nat /\ cpu \in Nat /\ short \in ShortTimes
  /\ myCountdown \in Int /\ myScaleFactor \in Nat /\ myTriggerTime \in Int
  /\ myTotalCount \in Int /\ myRefPt1Count \in Int /\ myRefPt2Count \in Int
  /\ myRefPt1Time \in Int /\ myRefPt2Time \in Int
  /\ myCheckingInterval \in Powers \cup {-1}
  /\ myRefPt1Count <= myRefPt2Count /\ myRefPt2Count <= myTotalCount
  /\ myRefPt1Time <= now /\ myRefPt2Time <= now
  /\ ~IamUnlimited => myVariability \in Variabilities

\* Iterations since a reference point took at least the time of the shortest.
Paced(count, time) == now - time >= short * (Calls - count)
PaceInv ==
  /\ Paced(myRefPt1Count, myRefPt1Time)
  /\ Paced(myRefPt2Count, myRefPt2Time)

\* The calls up to the next check fit before the trigger.
Longest == myVariability * short
FitsInv ==
  /\ myCountdown \in 1..myCheckingInterval
  /\ myCountdown = 1 \/ now + myCountdown * Longest <= myTriggerTime

\* At the trigger the CPU time cannot exceed the limit by more than is allowed.
CpuAtTrigger == cpu + (myTriggerTime - now)
BudgetInv ==
  /\ now < myTriggerTime
  /\ \/ CpuAtTrigger <= Interval + Slack
     \/ CpuAtTrigger <= Interval + myScaleFactor * myExtraTime

RunInv == ~fired /\ ~IamUnlimited => PaceInv /\ FitsInv
-----------------------------------------------------------------------------
LEMMA Settings ==
  /\ Interval \in Nat /\ Slack \in Nat /\ myExtraTime \in Nat /\ IntMax \in Nat
  /\ Variabilities \subseteq {1, 4, 16} /\ \A s \in ShortTimes : s \in Nat \ {0}
  BY TimeAssumption

LEMMA Limited ==
  ASSUME TypeInv, ~IamUnlimited
  PROVE  /\ myCheckingInterval \in Powers
         /\ myCheckingInterval \in Nat \ {0} /\ myCheckingInterval <= 32
         /\ myVariability \in {1, 4, 16} /\ myVariability \in Nat \ {0}
         /\ short \in Nat \ {0}
<1>1. myCheckingInterval \in Powers
  BY DEF TypeInv, IamUnlimited
<1>2. myVariability \in {1, 4, 16}
  BY Settings DEF TypeInv
<1>3. short \in Nat \ {0}
  BY Settings DEF TypeInv
<1> QED BY <1>1, <1>2, <1>3 DEF Powers

LEMMA NatIsInt == \A n \in Nat : n \in Int
  OBVIOUS

LEMMA Times ==
  ASSUME NEW a \in Nat, NEW b \in Int, NEW c \in Int, b <= c PROVE a * b <= a * c
  OBVIOUS

LEMMA Cancel ==
  ASSUME NEW a \in Int, NEW b \in Int, NEW d \in Nat \ {0}, a * d <= b * d PROVE a <= b
<1> SUFFICES ASSUME b < a PROVE FALSE
  OBVIOUS
<1>1. b + 1 <= a
  OBVIOUS
<1>2. d * (b + 1) <= d * a
  BY <1>1, Times
<1>3. d * (b + 1) = b * d + d /\ d * a = a * d
  OBVIOUS
<1>4. a * d \in Int /\ b * d \in Int
  OBVIOUS
<1> QED BY <1>2, <1>3, <1>4

\* What is estimated from an average is not too short.
LEMMA EstimateIsSafe ==
  ASSUME NEW k \in Nat, NEW s \in Nat, NEW dt \in Int, NEW dc \in Nat \ {0}, NEW ttd \in Int,
         dt >= s * dc, k * dt <= ttd * dc
  PROVE  k * s <= ttd
<1>1. k * (s * dc) <= k * dt /\ s * dc \in Int
  BY Times
<1>2. k * (s * dc) = (k * s) * dc
  OBVIOUS
<1>3. k * s \in Int /\ (k * s) * dc <= ttd * dc
  <2>1. k * dt \in Int /\ ttd * dc \in Int /\ k * s \in Int /\ (k * s) * dc \in Int
    OBVIOUS
  <2> QED BY <1>1, <1>2, <2>1
<1> QED BY <1>3, Cancel

LEMMA Halve ==
  ASSUME NEW c \in Powers, NEW H, H \subseteq Powers, 1 \in H
  PROVE  (CHOOSE i \in H : \A j \in H : j <= i) \in H
<1>1. \E i \in H : \A j \in H : j <= i
  BY DEF Powers
<1> QED BY <1>1

LEMMA NextIntervalIsSafe ==
  ASSUME NEW c \in Powers, NEW v \in {1, 4, 16}, NEW dt \in Nat, NEW dc \in Nat, NEW ttd \in Int
  PROVE  LET r == NextInterval(c, v, dt, dc, ttd)
         IN  r \in Powers /\ (r = 1 \/ (v * r) * dt <= ttd * dc)
<1> DEFINE Est(i) == v * i * dt
           halvings == {i \in Powers : i <= c /\ (i = 1 \/ Est(i) <= ttd * dc)}
           r == NextInterval(c, v, dt, dc, ttd)
<1>1. ttd * dc \in Int /\ \A i \in Powers : Est(i) \in Nat
  BY DEF Powers
<1>2. CASE 4 * Est(c) < ttd * dc /\ c < 32
  <2>1. r = 2 * c /\ 2 * c \in Powers
    BY <1>2 DEF NextInterval, Powers
  <2>2. v * (2 * c) * dt = 2 * Est(c)
    <3>1. v \in Int /\ c \in Int /\ dt \in Int
      BY DEF Powers
    <3> QED BY <3>1
  <2>3. 2 * Est(c) <= ttd * dc
    BY <1>1, <1>2
  <2> QED BY <2>1, <2>2, <2>3
<1>3. CASE 4 * Est(c) < ttd * dc /\ ~(c < 32)
  <2>1. r = c
    BY <1>3 DEF NextInterval
  <2>2. Est(c) <= ttd * dc
    BY <1>1, <1>3
  <2> QED BY <2>1, <2>2
<1>4. CASE ~(4 * Est(c) < ttd * dc) /\ Est(c) > ttd * dc
  <2>1. r = CHOOSE i \in halvings : \A j \in halvings : j <= i
    BY <1>4 DEF NextInterval, Powers
  <2>2. 1 \in halvings /\ halvings \subseteq Powers
    BY DEF Powers
  <2>3. r \in halvings
    <3> HIDE DEF halvings, r
    <3> QED BY <2>1, <2>2, Halve
  <2> QED BY <2>3
<1>5. CASE ~(4 * Est(c) < ttd * dc) /\ ~(Est(c) > ttd * dc)
  <2>1. r = c
    BY <1>5 DEF NextInterval
  <2>2. Est(c) <= ttd * dc
    BY <1>1, <1>5
  <2> QED BY <2>1, <2>2
<1> QED BY <1>2, <1>3, <1>4, <1>5

-----------------------------------------------------------------------------
IgnoredStep ==
  /\ \E d \in {short, myVariability * short}, c \in Nat :
       c <= d /\ now' = now + d /\ cpu' = cpu + c
  /\ UNCHANGED <<myVariability, short>>

LEMMA LimitedStep ==
  ASSUME TypeInv, ~IamUnlimited, Iterate
  PROVE  /\ IgnoredStep
         /\ Longest \in Nat \ {0} /\ short \in Nat \ {0}
         /\ now' \in Nat /\ cpu' \in Nat
         /\ now' >= now + short /\ now' <= now + Longest
         /\ cpu' - now' <= cpu - now
<1>1. short \in Nat \ {0} /\ myVariability \in {1, 4, 16}
  BY Limited
<1>2. Longest \in Nat \ {0} /\ Longest >= short
  BY <1>1 DEF Longest
<1>3. PICK d \in {short, myVariability * short} : \E c \in {0, d} : Passes(d, c)
  BY DEF Iterate
<1>4. PICK c \in {0, d} : Passes(d, c)
  BY <1>3
<1>5. d \in Nat /\ c \in Nat /\ c <= d /\ d >= short /\ d <= Longest
  BY <1>1, <1>2 DEF Longest
<1>6. now' = now + d /\ cpu' = cpu + c
  BY <1>4 DEF Passes
<1>7. IgnoredStep
  BY <1>5, <1>6 DEF Iterate, IgnoredStep
<1> QED BY <1>1, <1>2, <1>5, <1>6, <1>7 DEF TypeInv

\* What a check that goes on leaves: the reference points, the trigger and the
\* next interval.
PointsKept ==
  /\ myRefPt1Count' = myRefPt1Count /\ myRefPt1Time' = myRefPt1Time
  /\ myRefPt2Count' = myRefPt2Count /\ myRefPt2Time' = myRefPt2Time
PointsMoved ==
  /\ myRefPt1Count' = myRefPt2Count /\ myRefPt1Time' = myRefPt2Time
  /\ myRefPt2Count' = myTotalCount' /\ myRefPt2Time' = now'
InTime == now' < myTriggerTime /\ UNCHANGED <<myScaleFactor, myTriggerTime>>
Late ==
  /\ now' >= myTriggerTime /\ cpu' < Interval
  /\ myScaleFactor' = myScaleFactor + 1
  /\ myTriggerTime' = now' + (Interval - cpu') + myScaleFactor' * myExtraTime

LEMMA GoesOnFacts ==
  ASSUME TypeInv, ~IamUnlimited, Iterate, CallGoesOn
  PROVE  /\ myTotalCount' = myTotalCount + myCheckingInterval
         /\ myCheckingInterval \in Nat \ {0}
         /\ PointsKept \/ PointsMoved
         /\ InTime \/ Late
         /\ myCountdown' = myCheckingInterval' /\ myCheckingInterval' \in Powers
         /\ now' - myRefPt1Time' \in Nat \ {0} /\ myTotalCount' - myRefPt1Count' \in Nat \ {0}
         /\ myScaleFactor' \in Nat /\ myTriggerTime' \in Int
         /\ \/ myCheckingInterval' = 1
            \/ (myVariability * myCheckingInterval') * (now' - myRefPt1Time')
                 <= (myTriggerTime' - now') * (myTotalCount' - myRefPt1Count')
<1> USE Settings
<1>1. /\ myCheckingInterval \in Powers /\ myCheckingInterval \in Nat \ {0}
      /\ myVariability \in {1, 4, 16}
  BY Limited
<1>2. now' \in Nat /\ cpu' \in Nat /\ now' > now
  BY LimitedStep DEF TypeInv
<1>3. /\ myTotalCount' = myTotalCount + myCheckingInterval
      /\ myCountdown' = myCheckingInterval'
  BY DEF CallGoesOn, GoesOn
<1>4. PointsKept \/ PointsMoved
  BY <1>3 DEF CallGoesOn, GoesOn, FirstPoint, PointsKept, PointsMoved
<1>5. InTime \/ Late
  <2>1. CASE now' >= myTriggerTime
    <3>1. cpu' < Interval
      BY <1>2, <2>1 DEF CallGoesOn, TimesOut, myTriggerTimeCPU, TypeInv
    <3> QED BY <2>1, <3>1 DEF CallGoesOn, GoesOn, NewTrigger, Late
  <2>2. CASE ~(now' >= myTriggerTime)
    <3>1. now' < myTriggerTime
      BY <1>2, <2>2 DEF TypeInv
    <3> QED BY <2>2, <3>1 DEF CallGoesOn, GoesOn, InTime
  <2> QED BY <2>1, <2>2
<1>6. now' - myRefPt1Time' \in Nat \ {0} /\ myTotalCount' - myRefPt1Count' \in Nat \ {0}
  BY <1>1, <1>2, <1>3, <1>4 DEF PointsKept, PointsMoved, TypeInv
<1>7. myScaleFactor' \in Nat /\ myTriggerTime' \in Int
  BY <1>2, <1>5 DEF InTime, Late, TypeInv
<1>8. myCheckingInterval' = NextInterval(myCheckingInterval, myVariability,
                              now' - myRefPt1Time', myTotalCount' - myRefPt1Count',
                              myTriggerTime' - now')
  BY <1>3, Zenon DEF CallGoesOn, GoesOn
<1>9. /\ myCheckingInterval' \in Powers
      /\ \/ myCheckingInterval' = 1
         \/ (myVariability * myCheckingInterval') * (now' - myRefPt1Time')
              <= (myTriggerTime' - now') * (myTotalCount' - myRefPt1Count')
  <2> PICK c, v, dt, dc, ttd :
        /\ c = myCheckingInterval /\ v = myVariability /\ dt = now' - myRefPt1Time'
        /\ dc = myTotalCount' - myRefPt1Count' /\ ttd = myTriggerTime' - now'
    OBVIOUS
  <2>1. c \in Powers /\ v \in {1, 4, 16} /\ dt \in Nat /\ dc \in Nat /\ ttd \in Int
    BY <1>1, <1>2, <1>6, <1>7
  <2>2. LET r == NextInterval(c, v, dt, dc, ttd)
        IN  r \in Powers /\ (r = 1 \/ (v * r) * dt <= ttd * dc)
    BY <2>1, NextIntervalIsSafe
  <2> QED BY <1>8, <2>2
<1> QED BY <1>1, <1>3, <1>4, <1>5, <1>6, <1>7, <1>9

LEMMA TypeStep == TypeInv /\ [Next]_vars => TypeInv'
<1> SUFFICES ASSUME TypeInv, [Next]_vars PROVE TypeInv'
  OBVIOUS
<1> USE Settings
<1>1. ASSUME Iterate, IamUnlimited PROVE TypeInv'
  <2>1. now' = now /\ cpu' = cpu /\ UNCHANGED <<myVariability, short>>
    BY <1>1 DEF Iterate, Passes, TypeInv
  <2>2. CASE CallIgnored
    BY <1>1, <2>1, <2>2 DEF CallIgnored, TypeInv, Decremented, IamUnlimited, counts, refs
  <2>3. CASE CallUnlimited
    BY <1>1, <2>1, <2>3 DEF CallUnlimited, TypeInv, IamUnlimited, counts, refs
  <2> QED BY <1>1, <2>2, <2>3 DEF Iterate, CallGoesOn, CallTimesOut
<1>2. ASSUME Iterate, ~IamUnlimited PROVE TypeInv'
  <2>1. now' \in Nat /\ cpu' \in Nat /\ now' >= now /\ short' = short /\ myVariability' = myVariability
    BY <1>2, LimitedStep DEF IgnoredStep, TypeInv
  <2>2. CASE CallIgnored
    BY <1>2, <2>1, <2>2 DEF CallIgnored, TypeInv, Decremented, IamUnlimited, counts, refs
  <2>3. CASE CallTimesOut
    <3>1. myTotalCount' = myTotalCount + myCheckingInterval /\ myCheckingInterval \in Nat
      BY <1>2, <2>3 DEF CallTimesOut, TypeInv, IamUnlimited, Powers
    <3> QED BY <1>2, <2>1, <2>3, <3>1 DEF CallTimesOut, TypeInv, IamUnlimited, refs
  <2>4. CASE CallGoesOn
    <3>1. /\ myTotalCount' = myTotalCount + myCheckingInterval
          /\ myCheckingInterval \in Nat
          /\ PointsKept \/ PointsMoved
          /\ myCountdown' = myCheckingInterval' /\ myCheckingInterval' \in Powers
          /\ myScaleFactor' \in Nat /\ myTriggerTime' \in Int
      BY <1>2, <2>4, GoesOnFacts
    <3>2. myCheckingInterval' \in Int
      BY <3>1 DEF Powers
    <3>3. CASE PointsKept
      BY <1>2, <2>1, <3>1, <3>2, <3>3 DEF TypeInv, PointsKept, IamUnlimited
    <3>4. CASE PointsMoved
      BY <1>2, <2>1, <3>1, <3>2, <3>4 DEF TypeInv, PointsMoved, IamUnlimited
    <3> QED BY <3>1, <3>3, <3>4
  <2> QED BY <1>2, <2>2, <2>3, <2>4 DEF Iterate, CallUnlimited
<1>3. CASE myReset
  <2>1. CASE IamUnlimited
    BY <1>3, <2>1 DEF myReset, TypeInv, IamUnlimited, counts, refs
  <2>2. CASE ~IamUnlimited
    BY <1>3, <2>2 DEF myReset, ResetPoints, TypeInv, IamUnlimited, Powers
  <2> QED BY <2>1, <2>2
<1>4. CASE UNCHANGED vars
  BY <1>4 DEF vars, TypeInv, IamUnlimited, counts, refs
<1> QED BY <1>1, <1>2, <1>3, <1>4 DEF Next

-----------------------------------------------------------------------------
LEMMA PaceGoesOn ==
  ASSUME NEW a \in Int, NEW b \in Int, NEW s \in Nat, b >= a + s,
         NEW c \in Int, NEW t \in Int, NEW n \in Int, a - t >= s * (c - n)
  PROVE  b - t >= s * ((c + 1) - n)
<1> DEFINE m == c - n
<1>1. m \in Int /\ (c + 1) - n = m + 1 /\ a - t >= s * m
  OBVIOUS
<1> HIDE DEF m
<1>2. s * (m + 1) = s * m + s /\ s * m \in Int
  BY <1>1
<1> QED BY <1>1, <1>2

LEMMA Integers1 ==
  /\ \A n \in Int : n + 1 - 1 = n
  /\ \A m, n \in Nat : m * n \in Nat
  OBVIOUS

LEMMA PaceStarts ==
  ASSUME NEW s \in Nat, NEW t \in Int, NEW n \in Int PROVE t - t >= s * (n - n)
  OBVIOUS

\* A call from which the averages keep their pace.
LEMMA PaceOfOneCall ==
  ASSUME TypeInv, ~IamUnlimited, Iterate, PaceInv
  PROVE  /\ now' - myRefPt1Time >= short * ((Calls + 1) - myRefPt1Count)
         /\ now' - myRefPt2Time >= short * ((Calls + 1) - myRefPt2Count)
<1>1. /\ now' >= now + short /\ short \in Nat /\ now' \in Nat
  BY LimitedStep
<1>2. Calls \in Int
  BY DEF Calls, TypeInv, Powers
<1> PICK b : b = now'
  OBVIOUS
<1>3. b \in Int /\ b >= now + short
  BY <1>1
<1>4. short \in Nat
  BY <1>1
<1>5. /\ b - myRefPt1Time >= short * ((Calls + 1) - myRefPt1Count)
      /\ b - myRefPt2Time >= short * ((Calls + 1) - myRefPt2Count)
  <2>1. now \in Int /\ myRefPt1Time \in Int /\ myRefPt2Time \in Int
        /\ myRefPt1Count \in Int /\ myRefPt2Count \in Int
    BY DEF TypeInv
  <2>2. /\ now - myRefPt1Time >= short * (Calls - myRefPt1Count)
        /\ now - myRefPt2Time >= short * (Calls - myRefPt2Count)
    BY DEF PaceInv, Paced
  <2> QED BY <1>2, <1>3, <1>4, <2>1, <2>2, PaceGoesOn, Zenon
<1> QED BY <1>5

LEMMA RunStep == TypeInv /\ RunInv /\ [Next]_vars => RunInv'
<1> SUFFICES ASSUME TypeInv, RunInv, [Next]_vars, ~fired', ~IamUnlimited'
             PROVE  PaceInv' /\ FitsInv'
  BY DEF RunInv
<1> USE Settings
<1>0. TypeInv'
  BY TypeStep
<1>1. CASE Iterate
  <2>1. ~IamUnlimited
    BY <1>1 DEF Iterate, CallIgnored, CallUnlimited, CallGoesOn, CallTimesOut, IamUnlimited
  <2>2. ~fired
    BY <1>1 DEF Iterate, CallIgnored, CallUnlimited, CallGoesOn, CallTimesOut
  <2>3. PaceInv /\ FitsInv
    BY <2>1, <2>2 DEF RunInv
  <2>4. /\ now' - myRefPt1Time >= short * ((Calls + 1) - myRefPt1Count)
        /\ now' - myRefPt2Time >= short * ((Calls + 1) - myRefPt2Count)
    BY <1>1, <2>1, <2>3, PaceOfOneCall
  <2>5. /\ Longest \in Nat \ {0} /\ short \in Nat \ {0} /\ now' \in Nat
        /\ now' <= now + Longest /\ short' = short /\ Longest' = Longest
    BY <1>1, <2>1, LimitedStep DEF IgnoredStep, Longest
  <2>6. /\ myCheckingInterval \in Nat \ {0} /\ myCountdown \in 1..myCheckingInterval
        /\ Decremented = myCountdown - 1
    BY <2>1, <2>3, Limited DEF FitsInv, Decremented
  <2>7. CASE CallIgnored
    <3>1. /\ myCountdown' = myCountdown - 1 /\ myCountdown # 1
          /\ UNCHANGED <<myCheckingInterval, counts, refs, myTriggerTime>>
      BY <2>6, <2>7 DEF CallIgnored, TypeInv
    <3>2. Calls' = Calls + 1
      BY <3>1, <2>6 DEF Calls, counts, TypeInv
    <3>3. PaceInv'
      BY <2>4, <2>5, <3>1, <3>2 DEF PaceInv, Paced, counts, refs
    <3>4. now + myCountdown * Longest <= myTriggerTime
      BY <2>3, <3>1 DEF FitsInv
    <3>5. myCountdown * Longest = (myCountdown - 1) * Longest + Longest
          /\ (myCountdown - 1) * Longest \in Int
      BY <2>5, <2>6
    <3>6. now' + (myCountdown - 1) * Longest <= myTriggerTime
      <4>1. now \in Int /\ myTriggerTime \in Int
        BY DEF TypeInv
      <4> QED BY <2>5, <3>4, <3>5, <4>1
    <3> QED BY <2>5, <2>6, <3>1, <3>3, <3>6 DEF FitsInv
  <2>8. CASE CallGoesOn
    <3>1. /\ myTotalCount' = myTotalCount + myCheckingInterval
          /\ PointsKept \/ PointsMoved
          /\ myCountdown' = myCheckingInterval' /\ myCheckingInterval' \in Powers
          /\ now' - myRefPt1Time' \in Nat \ {0} /\ myTotalCount' - myRefPt1Count' \in Nat \ {0}
          /\ myTriggerTime' \in Int
          /\ \/ myCheckingInterval' = 1
             \/ (myVariability * myCheckingInterval') * (now' - myRefPt1Time')
                  <= (myTriggerTime' - now') * (myTotalCount' - myRefPt1Count')
      BY <1>1, <2>1, <2>8, GoesOnFacts
    <3>2. myCountdown = 1 /\ Calls + 1 = myTotalCount'
      BY <2>6, <2>8, <3>1 DEF CallGoesOn, Calls, TypeInv
    <3>3. Calls' = myTotalCount' /\ myTotalCount' \in Int
      <4>1. myTotalCount' \in Int /\ myCheckingInterval' \in Int
        BY <1>0, <3>1 DEF TypeInv, Powers
      <4> QED BY <3>1, <4>1 DEF Calls
    <3>4. Paced(myRefPt1Count, myRefPt1Time)' /\ Paced(myRefPt2Count, myRefPt2Time)'
      <4>1. CASE PointsKept
        BY <2>4, <2>5, <3>2, <3>3, <4>1 DEF PointsKept, Paced
      <4>2. CASE PointsMoved
        <5>1. Paced(myRefPt1Count, myRefPt1Time)'
          BY <2>4, <2>5, <3>2, <3>3, <4>2 DEF PointsMoved, Paced
        <5>2. Paced(myRefPt2Count, myRefPt2Time)'
          <6> PICK t, n : t = now' /\ n = myTotalCount'
            OBVIOUS
          <6>1. myRefPt2Time' = t /\ myRefPt2Count' = n /\ now' = t /\ Calls' = n
            BY <3>3, <4>2 DEF PointsMoved
          <6>2. t - t >= short * (n - n)
            <7>1. t \in Int /\ n \in Int
              BY <2>5, <3>3
            <7>2. short \in Nat
              BY <2>5
            <7> QED BY <7>1, <7>2, PaceStarts
          <6>3. short' = short
            BY <2>5
          <6> QED BY <6>1, <6>2, <6>3, Zenon DEF Paced
        <5> QED BY <5>1, <5>2
      <4> QED BY <3>1, <4>1, <4>2
    <3>5. ASSUME myCheckingInterval' # 1
          PROVE  now' + myCheckingInterval' * Longest <= myTriggerTime'
      <4> PICK k, dt, dc, ttd : /\ k = myVariability * myCheckingInterval'
                                /\ dt = now' - myRefPt1Time'
                                /\ dc = myTotalCount' - myRefPt1Count'
                                /\ ttd = myTriggerTime' - now'
        OBVIOUS
      <4>1. myVariability \in Nat /\ myCheckingInterval' \in Nat
        <5>1. myCheckingInterval' \in Nat
          BY <3>1 DEF Powers
        <5> QED BY <2>1, <5>1, Limited
      <4> PICK i : i = myCheckingInterval'
        OBVIOUS
      <4>2. k \in Nat /\ dt \in Int /\ dc \in Nat \ {0} /\ ttd \in Int
        <5>1. k \in Nat
          <6>1. i \in Nat /\ k = myVariability * i
            BY <4>1
          <6>2. myVariability \in Nat
            BY <4>1
          <6> QED BY <6>1, <6>2, Integers1, Zenon
        <5>2. dt \in Int /\ dc \in Nat \ {0}
          BY <3>1
        <5>3. ttd \in Int
          BY <2>5, <3>1
        <5> QED BY <5>1, <5>2, <5>3
      <4>3. dt >= short * dc
        BY <2>5, <3>3, <3>4 DEF Paced
      <4>4. k * dt <= ttd * dc
        BY <3>1, <3>5
      <4>5. k * short <= ttd
        BY <2>5, <4>2, <4>3, <4>4, EstimateIsSafe
      <4>6. k * short = myCheckingInterval' * Longest
        BY <2>5, <4>1 DEF Longest
      <4> QED BY <2>5, <3>1, <4>2, <4>5, <4>6
    <3>6. myCheckingInterval' \in 1..myCheckingInterval'
      BY <3>1 DEF Powers
    <3> QED BY <2>5, <3>1, <3>4, <3>5, <3>6 DEF PaceInv, FitsInv
  <2> QED BY <1>1, <2>1, <2>2, <2>7, <2>8 DEF Iterate, CallUnlimited, CallTimesOut
<1>2. CASE myReset
  <2>1. ~IamUnlimited /\ short' \in ShortTimes
    BY <1>2 DEF myReset, IamUnlimited
  <2>2. /\ myCountdown' = 1 /\ myCheckingInterval' = 1
        /\ myRefPt1Count' = myTotalCount' /\ myRefPt2Count' = myTotalCount'
        /\ myRefPt1Time' = now' /\ myRefPt2Time' = now'
    BY <1>2, <2>1 DEF myReset, ResetPoints
  <2> PICK t, n, l : t = now' /\ n = myTotalCount' /\ l = short'
    OBVIOUS
  <2>3. t \in Int /\ n \in Int /\ l \in Nat
    BY <1>0, <2>1 DEF TypeInv
  <2>4. t - t >= l * (n - n)
    BY <2>3, PaceStarts
  <2>5. Calls' = n + 1 - 1
    BY <2>2 DEF Calls
  <2>6. n + 1 - 1 = n
    BY <2>3, Integers1, Zenon
  <2>7. PaceInv'
    BY <2>2, <2>4, <2>5, <2>6, Zenon DEF PaceInv, Paced
  <2> QED BY <2>2, <2>7 DEF FitsInv
<1>3. CASE UNCHANGED vars
  <2>1. ~fired /\ ~IamUnlimited
    BY <1>3 DEF vars, IamUnlimited
  <2> QED BY <1>3, <2>1 DEF vars, RunInv, PaceInv, Paced, FitsInv, Calls, Longest, counts, refs
<1> QED BY <1>1, <1>2, <1>3 DEF Next

-----------------------------------------------------------------------------
\* A limited object that ignores a call has been called by a loop.
LEMMA OnlyCallsCall ==
  ASSUME TypeInv, ~IamUnlimited, [Next]_vars, CallIgnored \/ CallGoesOn,
         CallIgnored => ~fired /\ FitsInv, vars' # vars
  PROVE  Iterate
<1>1. /\ myCheckingInterval \in Nat \ {0}
  BY Limited
<1> SUFFICES ASSUME myReset PROVE FALSE
  BY DEF Next
<1>2. myTotalCount' = myTotalCount /\ myCountdown' = 1 /\ myCheckingInterval' = 1
  BY DEF myReset, ResetPoints
<1>3. CASE CallGoesOn
  <2>1. myTotalCount' = myTotalCount + myCheckingInterval
    BY <1>3 DEF CallGoesOn, GoesOn
  <2>2. myTotalCount \in Int
    BY DEF TypeInv
  <2>3. myTotalCount + myCheckingInterval = myTotalCount
    BY <1>2, <2>1
  <2> QED BY <1>1, <2>2, <2>3
<1>4. CASE CallIgnored
  <2>1. myCheckingInterval = 1
    BY <1>2, <1>4 DEF CallIgnored
  <2>2. Decremented # 0
    BY <1>4 DEF CallIgnored
  <2> QED BY <1>4, <2>1, <2>2, Settings DEF FitsInv, Decremented
<1> QED BY <1>3, <1>4

LEMMA IgnoredInTime ==
  ASSUME TypeInv, FitsInv, ~IamUnlimited, Iterate, CallIgnored
  PROVE  now' < myTriggerTime
<1>1. Longest \in Nat \ {0} /\ now' <= now + Longest
  BY LimitedStep
<1>2. myCountdown \in Nat /\ myCountdown >= 2
  <2>1. Decremented # 0 /\ myCheckingInterval \in Nat /\ IntMax \in Nat
    BY Limited, Settings DEF CallIgnored
  <2> QED BY <2>1 DEF FitsInv, Decremented
<1>3. now + myCountdown * Longest <= myTriggerTime
  BY <1>2 DEF FitsInv
<1>4. myCountdown * Longest >= 2 * Longest /\ myCountdown * Longest \in Int
  <2>1. Longest * 2 <= Longest * myCountdown
    BY <1>1, <1>2, Times
  <2> QED BY <1>1, <1>2, <2>1
<1> PICK t : t = now'
  OBVIOUS
<1>5. t <= now + Longest /\ t \in Int /\ now \in Int /\ myTriggerTime \in Int
  BY <1>1, LimitedStep DEF TypeInv
<1>6. t < myTriggerTime
  BY <1>1, <1>3, <1>4, <1>5
<1> QED BY <1>6

\* Arithmetic, stated over constants: it is cited about primed variables.
LEMMA NoLessToCome ==
  ASSUME NEW t \in Int, NEW p \in Int, NEW t0 \in Int, NEW p0 \in Int, NEW g \in Int,
         p - t <= p0 - t0
  PROVE  p + (g - t) <= p0 + (g - t0)
  OBVIOUS

LEMMA LaterTrigger ==
  ASSUME NEW t \in Int, NEW p \in Int, NEW m \in Nat, p < Interval
  PROVE  /\ t < t + (Interval - p) + m
         /\ p + ((t + (Interval - p) + m) - t) <= Interval + m
  BY Settings

LEMMA PositiveGap ==
  ASSUME NEW a \in Int, NEW b \in Int, a - b \in Nat \ {0} PROVE a > b
  OBVIOUS

CpuInv == ~fired /\ ~IamUnlimited => BudgetInv

LEMMA CpuStep == TypeInv /\ RunInv /\ CpuInv /\ [Next]_vars => CpuInv'
<1> SUFFICES ASSUME TypeInv, RunInv, CpuInv, [Next]_vars, ~fired', ~IamUnlimited'
             PROVE  BudgetInv'
  BY DEF CpuInv
<1>1. CASE Iterate
  <2>1. ~IamUnlimited
    BY <1>1 DEF Iterate, CallIgnored, CallUnlimited, CallGoesOn, CallTimesOut, IamUnlimited
  <2>2. ~fired
    BY <1>1 DEF Iterate, CallIgnored, CallUnlimited, CallGoesOn, CallTimesOut
  <2>3. FitsInv /\ BudgetInv
    BY <2>1, <2>2 DEF RunInv, CpuInv
  <2>4. /\ now' \in Nat /\ cpu' \in Nat /\ cpu' - now' <= cpu - now
        /\ now \in Nat /\ cpu \in Nat /\ myTriggerTime \in Int
    BY <1>1, <2>1, LimitedStep DEF TypeInv
  <2> PICK t, p : t = now' /\ p = cpu'
    OBVIOUS
  <2>5. t \in Nat /\ p \in Nat /\ p - t <= cpu - now
    BY <2>4
  <2>6. p + (myTriggerTime - t) <= cpu + (myTriggerTime - now)
    <3>1. t \in Int /\ p \in Int /\ now \in Int /\ cpu \in Int
      BY <2>4, <2>5, NatIsInt, Zenon
    <3> QED BY <2>4, <2>5, <3>1, NoLessToCome, Zenon
  <2>7. ASSUME t < myTriggerTime, UNCHANGED <<myScaleFactor, myTriggerTime>> PROVE BudgetInv'
    <3>1. Interval \in Int /\ Slack \in Int /\ myExtraTime \in Int /\ myScaleFactor \in Int
      BY Settings DEF TypeInv
    <3>2. \/ p + (myTriggerTime - t) <= Interval + Slack
          \/ p + (myTriggerTime - t) <= Interval + myScaleFactor * myExtraTime
      <4> PICK a, b, x, y : /\ a = p + (myTriggerTime - t) /\ b = cpu + (myTriggerTime - now)
                            /\ x = Interval + Slack
                            /\ y = Interval + myScaleFactor * myExtraTime
        OBVIOUS
      <4>1. a \in Int /\ b \in Int /\ x \in Int /\ y \in Int
        BY <2>4, <2>5, <3>1
      <4>2. a <= b /\ (b <= x \/ b <= y)
        BY <2>3, <2>6 DEF BudgetInv, CpuAtTrigger
      <4>3. a <= x \/ a <= y
        BY <4>1, <4>2
      <4> QED BY <4>3
    <3> QED BY <2>7, <3>2, Zenon DEF BudgetInv, CpuAtTrigger
  <2>8. CASE CallIgnored
    <3>1. t < myTriggerTime
      BY <1>1, <2>1, <2>3, <2>8, IgnoredInTime
    <3> QED BY <2>7, <2>8, <3>1 DEF CallIgnored
  <2>9. CASE CallGoesOn
    <3>1. InTime \/ Late
      BY <1>1, <2>1, <2>9, GoesOnFacts
    <3>2. CASE InTime
      BY <2>7, <3>2 DEF InTime
    <3>3. CASE Late
      <4> PICK f, g : f = myScaleFactor' /\ g = myTriggerTime'
        OBVIOUS
      <4>1. /\ f \in Nat /\ g = t + (Interval - p) + f * myExtraTime /\ p < Interval
        BY <3>3 DEF Late, TypeInv
      <4>2. Interval \in Nat /\ myExtraTime \in Nat
        BY Settings
      <4> PICK m : m = f * myExtraTime
        OBVIOUS
      <4>3. m \in Nat
        BY <4>1, <4>2, Integers1, Zenon
      <4>4. t < g /\ p + (g - t) <= Interval + m
        <5>1. t \in Int /\ p \in Int
          BY <2>5, NatIsInt, Zenon
        <5> QED BY <4>1, <4>3, <5>1, LaterTrigger, Zenon
      <4> QED BY <4>4, Zenon DEF BudgetInv, CpuAtTrigger
    <3> QED BY <3>1, <3>2, <3>3
  <2> QED BY <1>1, <2>1, <2>2, <2>8, <2>9 DEF Iterate, CallUnlimited, CallTimesOut
<1>2. CASE myReset
  BY <1>2 DEF myReset, CpuInv, BudgetInv, CpuAtTrigger, IamUnlimited, ResetPoints
<1>3. CASE UNCHANGED vars
  BY <1>3 DEF vars, CpuInv, BudgetInv, CpuAtTrigger, IamUnlimited
<1> QED BY <1>1, <1>2, <1>3 DEF Next

-----------------------------------------------------------------------------
IInv == TypeInv /\ RunInv

LEMMA InitIInv == Init => IInv
<1> SUFFICES ASSUME Init PROVE IInv
  OBVIOUS
<1>1. TypeInv
  BY Settings DEF Init, TypeInv, Powers, IamUnlimited
<1>2. ASSUME ~IamUnlimited PROVE PaceInv /\ FitsInv
  <2>1. /\ myCountdown = 1 /\ myCheckingInterval = 1 /\ now = 0
        /\ myTotalCount = 0 /\ myRefPt1Count = 0 /\ myRefPt2Count = 0
        /\ myRefPt1Time = 0 /\ myRefPt2Time = 0
    BY <1>2 DEF Init, IamUnlimited
  <2>2. short \in Nat
    BY Settings DEF Init
  <2>3. Calls = 0
    BY <2>1 DEF Calls
  <2> QED BY <2>1, <2>2, <2>3 DEF PaceInv, Paced, FitsInv
<1> QED BY <1>1, <1>2 DEF IInv, RunInv

LEMMA IInvInvariant == Spec => []IInv
<1>1. IInv /\ [Next]_vars => IInv'
  BY TypeStep, RunStep DEF IInv
<1> QED BY <1>1, InitIInv, PTL DEF Spec

\* IamTimedOut: in loops that vary no more than stated, a call which comes when the
\* trigger time has been reached looks at the clocks, whatever the estimates were.
THEOREM LateCallsAreNotIgnored == Spec => NoLateCallIgnored
<1>1. IInv /\ [Next]_vars =>
        [~fired /\ ~IamUnlimited /\ CallIgnored => now' < myTriggerTime]_vars
  <2> SUFFICES ASSUME IInv, [Next]_vars, vars' # vars, ~fired, ~IamUnlimited, CallIgnored
               PROVE  now' < myTriggerTime
    BY DEF vars
  <2>1. TypeInv /\ FitsInv
    BY DEF IInv, RunInv
  <2>2. Iterate
    BY <2>1, OnlyCallsCall
  <2> QED BY <2>1, <2>2, IgnoredInTime
<1> QED BY <1>1, IInvInvariant, PTL DEF Spec, NoLateCallIgnored

\* IamTimedOut_ProperCheck: no call returns false when the CPU time has passed the
\* limit by more than the tolerance, however the trigger was moved before.  For a
\* limit of 0 the strict inequality fails before the first call.
THEOREM LimitHolds == ASSUME Interval > 0 PROVE Spec => []LimitIsKept
<1>1. Init => CpuInv
  <2> SUFFICES ASSUME Init, ~IamUnlimited PROVE BudgetInv
    BY DEF CpuInv
  <2>1. now = 0 /\ cpu = 0 /\ myTriggerTime = Interval + Slack
    BY DEF Init, IamUnlimited
  <2> QED BY <2>1, Settings DEF BudgetInv, CpuAtTrigger
<1>2. IInv /\ CpuInv /\ [Next]_vars => CpuInv'
  BY CpuStep DEF IInv
<1>3. IInv /\ CpuInv => LimitIsKept
  <2> SUFFICES ASSUME IInv, CpuInv, ~fired, ~IamUnlimited
               PROVE  cpu < Interval + Slack \/ cpu < Interval + myScaleFactor * myExtraTime
    BY DEF LimitIsKept
  <2>1. /\ now < myTriggerTime /\ now \in Int /\ cpu \in Int /\ myTriggerTime \in Int
        /\ Interval \in Int /\ Slack \in Int /\ myExtraTime \in Int /\ myScaleFactor \in Int
    BY Settings DEF IInv, TypeInv, CpuInv, BudgetInv
  <2>2. cpu < CpuAtTrigger /\ CpuAtTrigger \in Int
    BY <2>1 DEF CpuAtTrigger
  <2>3. \/ CpuAtTrigger <= Interval + Slack
        \/ CpuAtTrigger <= Interval + myScaleFactor * myExtraTime
    BY DEF CpuInv, BudgetInv
  <2>4. Interval + Slack \in Int /\ Interval + myScaleFactor * myExtraTime \in Int
    BY <2>1
  <2> QED BY <2>1, <2>2, <2>3, <2>4
<1> QED BY <1>1, <1>2, <1>3, IInvInvariant, PTL DEF Spec

\* IamTimedOut_ProperCheck: both terms of the average are positive after any calls
\* and resets, so that nothing is divided by zero.
THEOREM NoEmptyAverages == Spec => AveragesExist
<1>1. IInv /\ [Next]_vars =>
        [CallGoesOn => myTotalCount' > myRefPt1Count' /\ now' > myRefPt1Time']_vars
  <2> SUFFICES ASSUME IInv, [Next]_vars, vars' # vars, CallGoesOn
               PROVE  myTotalCount' > myRefPt1Count' /\ now' > myRefPt1Time'
    BY DEF vars
  <2>1. TypeInv /\ ~IamUnlimited
    BY DEF IInv, CallGoesOn
  <2>2. Iterate
    BY <2>1, OnlyCallsCall DEF CallGoesOn, CallIgnored
  <2>3. now' - myRefPt1Time' \in Nat \ {0} /\ myTotalCount' - myRefPt1Count' \in Nat \ {0}
    BY <2>1, <2>2, GoesOnFacts
  <2>4. TypeInv'
    BY <2>1, TypeStep
  <2>5. now' \in Nat /\ myRefPt1Time' \in Int /\ myTotalCount' \in Int /\ myRefPt1Count' \in Int
    BY <2>4, Zenon DEF TypeInv
  <2> QED BY <2>3, <2>5, NatIsInt, PositiveGap, Zenon
<1> QED BY <1>1, IInvInvariant, PTL DEF Spec, AveragesExist

(***************************************************************************)
(* Watchers (SignalWatcher) that end in the reverse order of their         *)
(* construction, for any signals, any nesting and any number of signals    *)
(* that arrive: the handler in force is the one of the youngest watcher    *)
(* still active, and nothing is reported twice.                            *)
(*                                                                         *)
(* The watchers active on one signal form a chain: what each saved is the  *)
(* handler of the one below it, and the lowest one saved the original.     *)
(***************************************************************************)
Watchers == [mySig : Signals, fn : Handlers, active : BOOLEAN, prev : Handlers]
WatcherTypes ==
  /\ handler \in [Signals -> Handlers]
  /\ original \in [Signals -> Handlers]
  /\ watchers \in Seq(Watchers)
  /\ {SignalReceived, sig} \subseteq Signals \cup {0}
  /\ pc \in {"idle", "read", "throwing"}
  /\ {noted, reported} \subseteq Nat

\* The handler that watcher i will put back is the right one without it.
Restores(i) ==
  LET s == watchers[i].mySig
      below == {j \in ActiveOn(s) : j < i}
  IN  \/ below = {} /\ watchers[i].prev = original[s]
      \/ \E j \in below : (\A k \in below : k <= j) /\ watchers[i].prev = watchers[j].fn
ChainInv == \A i \in 1..Len(watchers) : watchers[i].active => Restores(i)

\* A signal that a running check has read counts as still in the register.
Pending == IF pc = "read" THEN sig ELSE SignalReceived
PendingInv == reported + (IF Pending # 0 THEN 1 ELSE 0) <= noted

StackInv == WatcherTypes /\ ChainInv /\ HandlerIsRight
CountInv ==
  /\ {SignalReceived, sig} \subseteq Signals \cup {0}
  /\ pc \in {"idle", "read", "throwing"}
  /\ {noted, reported} \subseteq Nat
  /\ PendingInv

-----------------------------------------------------------------------------
\* The handler when a watcher has been ended above which none is active, whether
\* it stays in the sequence, inactive, or goes.
LEMMA Ending ==
  ASSUME StackInv, NEW i \in 1..Len(watchers), watchers' \in Seq(Watchers),
         handler' = Deactivated(watchers[i]), original' = original,
         \A j \in i + 1 .. Len(watchers) : ~watchers[j].active,
         \A j \in 1..Len(watchers') : watchers'[j].active => j < i,
         \A j \in 1 .. i - 1 : j \in 1..Len(watchers') /\ watchers'[j] = watchers[j]
  PROVE  handler' \in [Signals -> Handlers] /\ ChainInv' /\ HandlerIsRight'
<1> DEFINE w == watchers[i]
<1>0. w \in Watchers /\ Len(watchers) \in Nat /\ Len(watchers') \in Nat
  BY ElementOfSeq, LenProperties DEF StackInv, WatcherTypes
<1>1. ASSUME NEW s PROVE ActiveOn(s)' = {j \in ActiveOn(s) : j < i}
  BY <1>0 DEF ActiveOn
<1>2. ASSUME NEW s, NEW j \in ActiveOn(s) PROVE j \in 1..Len(watchers) /\ j <= i
  BY <1>0 DEF ActiveOn
<1>3. handler' \in [Signals -> Handlers]
  BY <1>0 DEF StackInv, WatcherTypes, Deactivated, Watchers
<1>4. ChainInv'
  <2> SUFFICES ASSUME NEW j \in 1..Len(watchers'), watchers'[j].active PROVE Restores(j)'
    BY DEF ChainInv
  <2>1. j < i /\ j \in 1..Len(watchers) /\ watchers'[j] = watchers[j]
    BY <1>0
  <2>2. Restores(j)
    BY <2>1 DEF StackInv, ChainInv
  <2> DEFINE s == watchers[j].mySig
             below == {k \in ActiveOn(s) : k < j}
  <2>3. {k \in ActiveOn(s)' : k < j} = below
    BY <1>0, <1>1, <1>2, <2>1
  <2>4. \A k \in below : watchers'[k] = watchers[k]
    BY <1>2, <2>1
  <2> QED BY <2>1, <2>2, <2>3, <2>4 DEF Restores
<1>5. HandlerIsRight'
  <2> SUFFICES ASSUME NEW s \in Signals
               PROVE  \/ ActiveOn(s)' = {} /\ handler'[s] = original[s]
                      \/ \E j \in ActiveOn(s)' : /\ \A k \in ActiveOn(s)' : k <= j
                                                 /\ handler'[s] = watchers'[j].fn
    BY DEF HandlerIsRight
  <2>1. CASE w.active /\ w.mySig = s
    <3>1. handler'[s] = w.prev
      BY <1>0, <2>1 DEF StackInv, WatcherTypes, Deactivated, Watchers
    <3>2. Restores(i)
      BY <2>1 DEF StackInv, ChainInv
    <3>3. \A k \in ActiveOn(s)' : watchers'[k] = watchers[k]
      BY <1>1, <1>2
    <3> QED BY <1>1, <2>1, <3>1, <3>2, <3>3 DEF Restores
  <2>2. CASE ~(w.active /\ w.mySig = s)
    <3>1. handler'[s] = handler[s]
      BY <1>0, <2>2 DEF StackInv, WatcherTypes, Deactivated, Watchers
    <3>2. i \notin ActiveOn(s)
      BY <2>2 DEF ActiveOn
    <3>3. ActiveOn(s)' = ActiveOn(s)
      <4>1. \A j \in ActiveOn(s) : j < i
        BY <1>0, <1>2, <3>2
      <4> QED BY <1>1, <4>1
    <3>4. \A k \in ActiveOn(s) : watchers'[k] = watchers[k]
      BY <1>1, <1>2, <3>3
    <3> QED BY <3>1, <3>3, <3>4 DEF StackInv, HandlerIsRight
  <2> QED BY <2>1, <2>2
<1> QED BY <1>3, <1>4, <1>5

\* A sequence without its i-th element.
LEMMA RemoveAt ==
  ASSUME NEW S, NEW q \in Seq(S), NEW i \in 1..Len(q)
  PROVE LET r == SubSeq(q, 1, i - 1) \o SubSeq(q, i + 1, Len(q)) IN
        /\ r \in Seq(S) /\ Len(r) = Len(q) - 1
        /\ \A j \in 1..Len(q) - 1 : r[j] = IF j < i THEN q[j] ELSE q[j + 1]
<1> DEFINE a == SubSeq(q, 1, i - 1)
           b == SubSeq(q, i + 1, Len(q))
<1>1. Len(q) \in Nat
  OBVIOUS
<1>2. a \in Seq(S) /\ Len(a) = i - 1 /\ \A j \in 1 .. i - 1 : a[j] = q[j]
  BY <1>1
<1>3. b \in Seq(S) /\ Len(b) = Len(q) - i /\ \A j \in 1 .. Len(q) - i : b[j] = q[i + j]
  BY <1>1
<1> HIDE DEF a, b
<1>4. /\ a \o b \in Seq(S) /\ Len(a \o b) = Len(a) + Len(b)
      /\ \A j \in 1 .. Len(a) + Len(b) : (a \o b)[j] = IF j <= Len(a) THEN a[j] ELSE b[j - Len(a)]
  BY <1>2, <1>3, ConcatProperties
<1>5. Len(a) + Len(b) = Len(q) - 1
  BY <1>1, <1>2, <1>3
<1>6. ASSUME NEW j \in 1..Len(q) - 1 PROVE (a \o b)[j] = IF j < i THEN q[j] ELSE q[j + 1]
  <2>0. (a \o b)[j] = IF j <= i - 1 THEN a[j] ELSE b[j - (i - 1)]
    BY <1>2, <1>4, <1>5, Zenon
  <2>1. CASE j < i
    <3>1. j \in 1..i - 1 /\ j <= i - 1
      BY <1>1, <2>1
    <3> QED BY <1>2, <2>0, <2>1, <3>1, Zenon
  <2>2. CASE ~(j < i)
    <3>1. j - (i - 1) \in 1 .. Len(q) - i /\ i + (j - (i - 1)) = j + 1 /\ ~(j <= i - 1)
      BY <1>1, <2>2
    <3>2. b[j - (i - 1)] = q[j + 1]
      BY <1>3, <3>1, Zenon
    <3> QED BY <2>0, <3>1, <3>2, <2>2, Zenon
  <2> QED BY <2>1, <2>2
<1>7. Len(a \o b) = Len(q) - 1
  BY <1>4, <1>5, Zenon
<1> QED BY <1>4, <1>6, <1>7, Zenon DEF a, b

-----------------------------------------------------------------------------
LEMMA InitStack == WatcherInit => StackInv
<1> SUFFICES ASSUME WatcherInit PROVE StackInv
  OBVIOUS
<1>1. WatcherTypes
  BY DEF WatcherInit, WatcherTypes, Handlers
<1>2. ChainInv /\ \A s : ActiveOn(s) = {}
  BY DEF WatcherInit, ChainInv, ActiveOn
<1> QED BY <1>1, <1>2 DEF WatcherInit, StackInv, HandlerIsRight

\* A new watcher is the youngest, and saves the handler of the one that was.
LEMMA Construction ==
  ASSUME StackInv, NEW s \in Signals, NEW FnPtr \in Handlers, Construct(s, FnPtr)
  PROVE  StackInv'
<1> DEFINE n == Len(watchers) + 1
           new == [mySig |-> s, fn |-> FnPtr, active |-> TRUE, prev |-> handler[s]]
<1>1. /\ watchers \in Seq(Watchers) /\ Len(watchers) \in Nat
      /\ new \in Watchers
  BY LenProperties DEF StackInv, WatcherTypes, Watchers
<1>2. /\ watchers' \in Seq(Watchers) /\ Len(watchers') = n
      /\ \A i \in 1..Len(watchers) : watchers'[i] = watchers[i]
      /\ watchers'[n] = new
  BY <1>1 DEF Construct
<1>3. WatcherTypes'
  BY <1>2 DEF Construct, StackInv, WatcherTypes
<1>4. ASSUME NEW u \in Signals
      PROVE  ActiveOn(u)' = IF u = s THEN ActiveOn(u) \cup {n} ELSE ActiveOn(u)
  BY <1>1, <1>2 DEF ActiveOn
<1>5. ASSUME NEW u, NEW j \in ActiveOn(u)
      PROVE  j \in 1..Len(watchers) /\ watchers'[j] = watchers[j] /\ j < n
  BY <1>1, <1>2 DEF ActiveOn
<1>6. ChainInv'
  <2> SUFFICES ASSUME NEW i \in 1..n, watchers'[i].active PROVE Restores(i)'
    BY <1>2 DEF ChainInv
  <2>1. CASE i = n
    <3>1. watchers'[i].mySig = s /\ watchers'[i].prev = handler[s]
      BY <1>2, <2>1
    <3>2. {j \in ActiveOn(s)' : j < n} = ActiveOn(s)
      BY <1>1, <1>4, <1>5
    <3>3. original' = original
      BY DEF Construct
    <3>4. \/ ActiveOn(s) = {} /\ handler[s] = original[s]
          \/ \E j \in ActiveOn(s) : /\ \A k \in ActiveOn(s) : k <= j
                                    /\ handler[s] = watchers'[j].fn
      BY <1>5 DEF StackInv, HandlerIsRight
    <3> QED BY <2>1, <3>1, <3>2, <3>3, <3>4 DEF Restores
  <2>2. CASE i # n
    <3>0. i \in 1..Len(watchers) /\ watchers'[i] = watchers[i] /\ i < n
      BY <1>1, <1>2, <2>2
    <3> DEFINE u == watchers[i].mySig
    <3>1. Restores(i) /\ u \in Signals
      <4>1. watchers[i] \in Watchers
        BY <1>1, <3>0, ElementOfSeq, Zenon
      <4>2. u \in Signals
        BY <4>1 DEF Watchers
      <4>3. watchers[i].active
        BY <3>0
      <4> QED BY <3>0, <4>2, <4>3 DEF StackInv, ChainInv
    <3>2. {j \in ActiveOn(u)' : j < i} = {j \in ActiveOn(u) : j < i}
      BY <1>1, <1>4, <3>0, <3>1
    <3>3. original' = original
      BY DEF Construct
    <3>4. \A j \in ActiveOn(u) : watchers'[j] = watchers[j]
      BY <1>5
    <3> HIDE DEF u
    <3> QED BY <3>0, <3>1, <3>2, <3>3, <3>4 DEF Restores, u
  <2> QED BY <2>1, <2>2
<1>7. HandlerIsRight'
  <2> SUFFICES ASSUME NEW u \in Signals
               PROVE  \/ ActiveOn(u)' = {} /\ handler'[u] = original'[u]
                      \/ \E j \in ActiveOn(u)' : /\ \A k \in ActiveOn(u)' : k <= j
                                                 /\ handler'[u] = watchers'[j].fn
    BY DEF HandlerIsRight
  <2>1. CASE u = s
    <3>1. handler'[s] = FnPtr
      BY DEF Construct, StackInv, WatcherTypes
    <3>2. \A k \in ActiveOn(s)' : k <= n
      BY <1>1, <1>4, <1>5
    <3> QED BY <1>2, <1>4, <2>1, <3>1, <3>2
  <2>2. CASE u # s
    <3>1. handler'[u] = handler[u] /\ original' = original
      BY <2>2 DEF Construct, StackInv, WatcherTypes
    <3> QED BY <1>4, <1>5, <2>2, <3>1 DEF StackInv, HandlerIsRight
  <2> QED BY <2>1, <2>2
<1> QED BY <1>3, <1>6, <1>7 DEF StackInv

LEMMA NextStack ==
  ASSUME OutOfOrder = FALSE
  PROVE  StackInv /\ [WatcherNext]_watcherVars => StackInv'
<1> SUFFICES ASSUME StackInv, [WatcherNext]_watcherVars PROVE StackInv'
  OBVIOUS
<1>0. watchers \in Seq(Watchers) /\ Len(watchers) \in Nat
  BY LenProperties DEF StackInv, WatcherTypes
<1>1. ASSUME UNCHANGED <<handler, original, watchers>>, WatcherTypes' PROVE StackInv'
  <2>1. \A i : Restores(i)' <=> Restores(i)
    BY <1>1 DEF Restores, ActiveOn
  <2>2. HandlerIsRight'
    BY <1>1 DEF StackInv, HandlerIsRight, ActiveOn
  <2> QED BY <1>1, <2>1, <2>2 DEF StackInv, ChainInv
<1>2. ASSUME NEW s \in Signals, NEW FnPtr \in Handlers, Construct(s, FnPtr)
      PROVE  StackInv'
  BY <1>2, Construction
<1>3. ASSUME NEW i \in 1..Len(watchers), myDeactivate(i) PROVE StackInv'
  <2>1. /\ \A j \in i + 1 .. Len(watchers) : ~watchers[j].active
        /\ handler' = Deactivated(watchers[i]) /\ original' = original
    BY <1>3 DEF myDeactivate, MayEnd
  <2>2. [watchers[i] EXCEPT !.active = FALSE] \in Watchers
    <3>1. watchers[i] \in Watchers
      BY <1>0, ElementOfSeq, Zenon
    <3> QED BY <3>1 DEF Watchers
  <2>3. /\ watchers' \in Seq(Watchers) /\ Len(watchers') = Len(watchers)
        /\ \A j \in 1..Len(watchers) : j # i => watchers'[j] = watchers[j]
        /\ ~watchers'[i].active
    BY <1>0, <1>3, <2>2 DEF myDeactivate, Watchers
  <2>4. /\ \A j \in 1..Len(watchers') : watchers'[j].active => j < i
        /\ \A j \in 1 .. i - 1 : j \in 1..Len(watchers') /\ watchers'[j] = watchers[j]
    <3>1. ASSUME NEW j \in 1..Len(watchers'), watchers'[j].active PROVE j < i
      <4>1. j \in 1..Len(watchers) /\ i \in Nat /\ j # i
        BY <1>0, <2>3, <3>1
      <4>2. ~(j \in i + 1 .. Len(watchers))
        BY <2>1, <2>3, <3>1, <4>1
      <4> QED BY <1>0, <4>1, <4>2
    <3>2. ASSUME NEW j \in 1 .. i - 1
          PROVE  j \in 1..Len(watchers') /\ watchers'[j] = watchers[j]
      BY <1>0, <2>3
    <3> QED BY <3>1, <3>2
  <2>5. handler' \in [Signals -> Handlers] /\ ChainInv' /\ HandlerIsRight'
    BY <2>1, <2>3, <2>4, Ending
  <2>6. WatcherTypes'
    BY <1>3, <2>3, <2>5 DEF myDeactivate, StackInv, WatcherTypes
  <2> QED BY <2>5, <2>6 DEF StackInv
<1>4. ASSUME NEW i \in 1..Len(watchers), Destroy(i) PROVE StackInv'
  <2>1. /\ \A j \in i + 1 .. Len(watchers) : ~watchers[j].active
        /\ handler' = Deactivated(watchers[i]) /\ original' = original
    BY <1>4 DEF Destroy, MayEnd
  <2>2. /\ watchers' \in Seq(Watchers) /\ Len(watchers') = Len(watchers) - 1
        /\ \A j \in 1..Len(watchers) - 1 :
             watchers'[j] = IF j < i THEN watchers[j] ELSE watchers[j + 1]
    BY <1>0, <1>4, RemoveAt, Zenon DEF Destroy
  <2>3. /\ \A j \in 1..Len(watchers') : watchers'[j].active => j < i
        /\ \A j \in 1 .. i - 1 : j \in 1..Len(watchers') /\ watchers'[j] = watchers[j]
    BY <1>0, <2>1, <2>2
  <2>4. handler' \in [Signals -> Handlers] /\ ChainInv' /\ HandlerIsRight'
    BY <2>1, <2>2, <2>3, Ending
  <2>5. WatcherTypes'
    BY <1>4, <2>2, <2>4 DEF Destroy, StackInv, WatcherTypes
  <2> QED BY <2>4, <2>5 DEF StackInv
<1>5. ASSUME NEW s \in Signals, SetSignalReceived(s) PROVE StackInv'
  BY <1>1, <1>5 DEF SetSignalReceived, StackInv, WatcherTypes
<1>6. CASE Read
  BY <1>1, <1>6 DEF Read, StackInv, WatcherTypes
<1>7. CASE Reset
  BY <1>1, <1>7 DEF Reset, ResetRegister, StackInv, WatcherTypes
<1>8. CASE Catch
  BY <1>1, <1>8 DEF Catch, StackInv, WatcherTypes
<1>9. CASE UNCHANGED watcherVars
  BY <1>1, <1>9 DEF watcherVars, StackInv, WatcherTypes
<1> QED BY <1>2, <1>3, <1>4, <1>5, <1>6, <1>7, <1>8, <1>9 DEF WatcherNext, Handlers

\* SignalWatcher.C: with any nesting of watchers, and however exceptions unwind
\* them, the handler of a signal is that of its youngest active watcher, and the
\* original one when there is none.
THEOREM HandlerIsAlwaysRight ==
  ASSUME OutOfOrder = FALSE
  PROVE  WatcherSpec => []HandlerIsRight
<1>1. StackInv => HandlerIsRight
  BY DEF StackInv
<1> QED BY InitStack, NextStack, <1>1, PTL DEF WatcherSpec

LEMMA NextCount == CountInv /\ [WatcherNext]_watcherVars => CountInv'
<1> SUFFICES ASSUME CountInv, [WatcherNext]_watcherVars PROVE CountInv'
  OBVIOUS
<1> USE SignalAssumption DEF CountInv, PendingInv, Pending
<1>1. ASSUME NEW s \in Signals, NEW FnPtr \in Handlers, Construct(s, FnPtr)
      PROVE  CountInv'
  BY <1>1 DEF Construct
<1>2. ASSUME NEW i \in 1..Len(watchers), myDeactivate(i) PROVE CountInv'
  BY <1>2 DEF myDeactivate
<1>3. ASSUME NEW i \in 1..Len(watchers), Destroy(i) PROVE CountInv'
  BY <1>3 DEF Destroy
<1>4. ASSUME NEW s \in Signals, SetSignalReceived(s) PROVE CountInv'
  BY <1>4 DEF SetSignalReceived
<1>5. CASE Read
  BY <1>5 DEF Read
<1>6. CASE Reset
  BY <1>6 DEF Reset, ResetRegister
<1>7. CASE Catch
  BY <1>7 DEF Catch
<1>8. CASE UNCHANGED watcherVars
  BY <1>8 DEF watcherVars
<1> QED BY <1>1, <1>2, <1>3, <1>4, <1>5, <1>6, <1>7, <1>8 DEF WatcherNext, Handlers

\* GetAndResetSignalReceived: whatever the watchers do, and wherever signals
\* arrive, between the read and the reset too, none is reported twice.
THEOREM NothingIsReportedTwice == WatcherSpec => []ReportedOnce
<1>1. WatcherInit => CountInv
  BY DEF WatcherInit, CountInv, PendingInv, Pending
<1>2. CountInv => ReportedOnce
  BY DEF CountInv, PendingInv, Pending, ReportedOnce
<1> QED BY NextCount, <1>1, <1>2, PTL DEF WatcherSpec

(***************************************************************************)
(* The console's two threads (Console), for any number of lines, full      *)
(* commands, clicks and queued output: the GUI's ticks never read frames   *)
(* that a statement is changing, a full command is never taken for the     *)
(* rest of a statement, and the GUI never waits for FlushQC's mutex.       *)
(*                                                                         *)
(* No lock protects the status: what replaces one is an order of steps.    *)
(* The interpreter sets the status to RUNNING, marks the flush as not done *)
(* and only then waits for it; the flush is done by a GUI that is past the *)
(* point at which it looks at the status.  None of this holds of packages, *)
(* and it does not bind the debugger's own handlers.                       *)
(***************************************************************************)
IntPcs == {"packages", "loaded", "top", "prompt", "readLock", "lineWait", "clearPost", "echo", "parse",
           "flush", "flushPost", "flushWait", "exec", "run",
           "pauseLock", "pauseLocked", "pauseWait", "resumed"}
GuiPcs == {"idle", "debugger", "fill", "fillLocals", "lock", "drain", "flushExecute",
           "inspect"}
Statuses == {"WAITING", "COMPLETION", "RUNNING", "PAUSED"}

IntStates == [pc : IntPcs, after : {"exec", "resumed", "loaded"},
              line : LineKinds \cup {"blank", "full"}, open : BOOLEAN]
SyncStates == [woken : BOOLEAN, flushed : BOOLEAN, mustResume : BOOLEAN]
Commands == {"print", "clear", "progress", "flush"}
InputStates == [lines : Seq(LineKinds), fulls : Nat]
GuiStates == [pc : GuiPcs, old : Statuses \cup {"NONE"},
              debugger : BOOLEAN, buttons : BOOLEAN, entry : BOOLEAN]

ConsoleTypes ==
  /\ int \in IntStates
  /\ status \in Statuses
  /\ sync \in SyncStates
  /\ commands \in Seq(Commands)
  /\ input \in InputStates
  /\ gui \in GuiStates

\* From the flush before a statement to the statement's end, pauses apart, the
\* status is RUNNING, and the GUI is not between its look at the status and the
\* end of its reading once the flush is done.  (The flush after the packages
\* leads to no statement.)
Executing ==
  \/ int.pc \in {"exec", "run", "resumed"}
  \/ int.pc \in {"flush", "flushPost", "flushWait"} /\ int.after # "loaded"
FlushedBy ==
  \/ int.pc \in {"exec", "run", "resumed"}
  \/ int.pc \in {"flushPost", "flushWait"} /\ int.after # "loaded" /\ sync.flushed
RunningInv ==
  /\ Executing => status = "RUNNING"
  /\ FlushedBy => gui.pc \notin {"fill", "fillLocals"}

\* Whether a statement has been begun shows in the status, on which the line
\* provider decides about full commands.
Reading == int.pc \in {"prompt", "readLock", "lineWait", "clearPost", "echo", "parse"}
StatementInv ==
  /\ int.open => Reading /\ status # "WAITING"
  /\ int.pc \in {"echo", "parse"} /\ int.line \notin {"blank", "full"}
       => status = "COMPLETION"
  /\ int.pc \in {"clearPost", "echo", "parse"} /\ int.line = "full" => ~int.open
  /\ int.pc = "clearPost" => int.line = "full"

\* At most one FlushQC is queued, and only while the interpreter waits for it.
FlushInv ==
  /\ \A i \in 1..Len(commands) : commands[i] = "flush" =>
       /\ int.pc = "flushWait" /\ ~sync.flushed
       /\ \A j \in 1..Len(commands) : commands[j] = "flush" => j = i
  /\ int.pc = "flushPost" => ~sync.flushed
  /\ gui.pc = "flushExecute" => commands # <<>> /\ Head(commands) = "flush"

\* The GUI, about to execute FlushQC under Console::mut, finds FlushQC's own
\* mutex free: the two threads cannot wait for one another's.
GuiFindsMutexFree == gui.pc = "flushExecute" => FlushMutFree

-----------------------------------------------------------------------------
USE DEF At, Goto, notReading, notDebugging, InGui, GuiGoto, User,
     Click, ConsoleMutFree

\* What the interpreter posts leaves a queue of commands.
LEMMA QueueType ==
  ASSUME NEW c \in Commands, ConsoleTypes, postCommand(c)
  PROVE  commands' \in Seq(Commands)
BY DEF ConsoleTypes, postCommand

LEMMA GotoType ==
  ASSUME NEW to \in IntPcs, ConsoleTypes, Goto(to)
  PROVE  int' \in IntStates
BY DEF ConsoleTypes, IntStates

LEMMA WokenType ==
  ASSUME NEW b \in BOOLEAN, ConsoleTypes
  PROVE  /\ [sync EXCEPT !.woken = b] \in SyncStates
         /\ [sync EXCEPT !.flushed = b] \in SyncStates
         /\ [sync EXCEPT !.mustResume = b] \in SyncStates
BY DEF ConsoleTypes, SyncStates

LEMMA InitConsoleTypes == ConsoleInit => ConsoleTypes
BY DEF ConsoleInit, ConsoleTypes, IntStates, SyncStates, InputStates, GuiStates, IntPcs, GuiPcs,
     Statuses

\* The interpreter's steps keep the types.
LEMMA InterpreterKeepsType ==
  ASSUME ConsoleTypes, Interpret \/ Execute \/ SpuriousWakeUp
  PROVE  ConsoleTypes'
<1> USE DEF ConsoleTypes
<1>0. /\ \A to \in IntPcs : Goto(to) => int' \in IntStates
      /\ \A c \in Commands : postCommand(c) => commands' \in Seq(Commands)
  BY QueueType, GotoType
<1>a. {"print", "clear", "progress", "flush"} \subseteq Commands
  BY DEF Commands
<1>b. {"WAITING", "COMPLETION", "RUNNING", "PAUSED"} \subseteq Statuses
  BY DEF Statuses
<1> HIDE DEF Goto
<1>17. CASE PackageOutput \/ PostProgress
  BY <1>0, <1>17, <1>a DEF PackageOutput, PostProgress, IntPcs
<1>18. CASE EndOfPackages
  <2>1. [int EXCEPT !.pc = "flush", !.after = "loaded"] \in IntStates
    BY DEF IntStates, IntPcs
  <2> QED BY <1>0, <1>18, <2>1 DEF EndOfPackages, IntPcs
<1>1. CASE Top
  BY <1>0, <1>1, <1>b DEF Top, IntPcs
<1>2. CASE Prompt \/ PostClear \/ Echo
  BY <1>0, <1>2, <1>a DEF Prompt, PostClear, Echo, IntPcs
<1>3. CASE ReadLine
  <2>1. CASE TakeLine
    <3>1. Head(input.lines) \in LineKinds /\ Tail(input.lines) \in Seq(LineKinds)
      BY <2>1 DEF TakeLine, InputStates
    <3>2. int' \in IntStates
      BY <2>1, <3>1 DEF TakeLine, IntStates, IntPcs
    <3>3. input' \in InputStates
      BY <2>1, <3>1 DEF TakeLine, InputStates
    <3> QED BY <1>3, <1>b, <2>1, <3>2, <3>3 DEF ReadLine, TakeLine
  <2>2. CASE TakeFull
    <3>1. int' \in IntStates
      BY <2>2 DEF TakeFull, IntStates, IntPcs
    <3>2. input' \in InputStates
      BY <2>2 DEF TakeFull, MayTakeFull, InputStates
    <3> QED BY <1>3, <2>2, <3>1, <3>2 DEF ReadLine, TakeFull
  <2>3. CASE WaitForLine
    BY <1>0, <1>3, <2>3, WokenType DEF ReadLine, WaitForLine, IntPcs
  <2> QED BY <1>3, <2>1, <2>2, <2>3 DEF ReadLine
<1>4. CASE LineWaitEnd
  BY <1>0, <1>4 DEF LineWaitEnd, IntPcs
<1>7. CASE Parse
  <2>1. int' \in IntStates
    <3>1. CASE Completes
      <4>1. int' = [int EXCEPT !.pc = "flush", !.after = "exec", !.open = (int.line = "mixed")]
        BY <1>7, <3>1 DEF Parse, StartRunning, Completes, IsError
      <4> QED BY <4>1 DEF IntStates, IntPcs
    <3>2. CASE ~Completes /\ IsError
      BY <1>0, <1>7, <3>2 DEF Parse, IntPcs
    <3>3. CASE ~Completes /\ ~IsError
      <4>1. int' = [int EXCEPT !.pc = "prompt", !.open = @ \/ int.line = "open"]
        BY <1>7, <3>3 DEF Parse
      <4> QED BY <4>1 DEF IntStates, IntPcs
    <3> QED BY <3>1, <3>2, <3>3
  <2>2. status' \in Statuses
    BY <1>7, <1>b DEF Parse
  <2> QED BY <1>7, <2>1, <2>2 DEF Parse
<1>8. CASE Flush \/ FlushPost
  BY <1>0, <1>8, <1>a, WokenType DEF Flush, FlushPost, IntPcs
<1>10. CASE FlushEnd
  <2>1. Goto(int.after) => int' \in IntStates
    BY <1>0 DEF IntStates, IntPcs
  <2> QED BY <1>10, <2>1, WokenType DEF FlushEnd
<1>11. CASE StartExecution \/ CheckAfterPause \/ EndOfStatement \/ PrintOutput
            \/ StepDone
  BY <1>0, <1>11, <1>a DEF StartExecution, CheckAfterPause, EndOfStatement,
       PrintOutput,
     StepDone, IntPcs
<1>12. CASE PauseLock \/ PauseWait
  BY <1>0, <1>12, WokenType DEF PauseLock, PauseWait, IntPcs
<1>13. CASE PauseEnd
  <2>1. [int EXCEPT !.pc = "flush", !.after = "resumed"] \in IntStates
    BY DEF IntStates, IntPcs
  <2> QED BY <1>13, <1>b, <2>1, WokenType DEF PauseEnd
<1>16. CASE Hook
  BY <1>0, <1>16, <1>b DEF Hook, IntPcs
<1>19. CASE SpuriousWakeUp
  BY <1>19, WokenType DEF SpuriousWakeUp
<1> QED
  BY <1>1, <1>2, <1>3, <1>4, <1>7, <1>8, <1>10, <1>11, <1>12, <1>13, <1>16, <1>17,
     <1>18, <1>19 DEF Interpret, Execute

\* So do the GUI's, and what users do.
LEMMA GuiKeepsType ==
  ASSUME ConsoleTypes, FlushInv, ProcessCommands \/ UserActs \/ Inspected
  PROVE  ConsoleTypes'
<1> USE DEF ConsoleTypes
<1>1. CASE Tick \/ UpdateDebugger \/ FilledCallStack \/ FilledDebugger \/ LockCommands
           \/ AllExecuted \/ Inspected
  BY <1>1 DEF Tick, UpdateDebugger, FilledCallStack, FilledDebugger, LockCommands,
     AllExecuted, Inspected, GuiStates, GuiPcs
<1>2. CASE ExecuteCommand \/ ExecuteFlush
  <2>1. commands' \in Seq(Commands)
    <3>1. CASE commands # <<>>
      <4>1. Tail(commands) \in Seq(Commands)
        BY <3>1
      <4> QED BY <1>2, <4>1 DEF ExecuteCommand, ExecuteFlush
    <3>2. CASE commands = <<>>
      BY <1>2, <3>2 DEF ExecuteCommand, ExecuteFlush, FlushInv
    <3> QED BY <3>1, <3>2
  <2>2. gui' \in GuiStates
    BY <1>2 DEF ExecuteCommand, ExecuteFlush, GuiStates, GuiPcs
  <2>3. sync' \in SyncStates
    BY <1>2 DEF ExecuteCommand, ExecuteFlush, SyncStates
  <2> QED BY <1>2, <2>1, <2>2, <2>3 DEF ExecuteCommand, ExecuteFlush
<1>3. CASE EnterLine
  <2>1. PICK kind \in LineKinds : EnterIn([input EXCEPT !.lines = Append(@, kind)])
    BY <1>3 DEF EnterLine
  <2>2. Append(input.lines, kind) \in Seq(LineKinds)
    BY DEF InputStates
  <2>4. input' \in InputStates
    BY <2>1, <2>2 DEF EnterIn, InputStates
  <2>3. sync' \in SyncStates
    BY <2>1 DEF EnterIn, SyncStates
  <2> QED BY <1>3, <2>4, <2>3 DEF EnterLine
<1>4. CASE EnterFullCommand
  <2>2. input' \in InputStates
    BY <1>4 DEF EnterFullCommand, EnterIn, InputStates
  <2>3. sync' \in SyncStates
    BY <1>4 DEF EnterFullCommand, EnterIn, SyncStates
  <2> QED BY <1>4, <2>2, <2>3 DEF EnterFullCommand
<1>5. CASE ClickPause \/ ClickInterrupt
  BY <1>5 DEF ClickPause, ClickInterrupt
<1>6. CASE ClickInDebugger
  <2>2. gui' \in GuiStates
    BY <1>6 DEF ClickInDebugger, GuiStates
  <2>3. sync' \in SyncStates
    BY <1>6 DEF ClickInDebugger, Resume, SyncStates
  <2> QED BY <1>6, <2>2, <2>3 DEF ClickInDebugger
<1>7. CASE Inspect
  <2>1. PICK b \in BOOLEAN : gui' = [gui EXCEPT !.pc = "inspect", !.buttons = b]
    BY <1>7 DEF Inspect, GuiStates
  <2>2. gui' \in GuiStates
    BY <2>1 DEF GuiStates, GuiPcs
  <2> QED BY <1>7, <2>2 DEF Inspect
<1> QED BY <1>1, <1>2, <1>3, <1>4, <1>5, <1>6, <1>7 DEF ProcessCommands, UserActs

LEMMA NextKeepsType == ConsoleTypes /\ FlushInv /\ [ConsoleNext]_consoleVars => ConsoleTypes'
<1>1. UNCHANGED consoleVars /\ ConsoleTypes => ConsoleTypes'
  BY DEF consoleVars, ConsoleTypes
<1> QED BY <1>1, InterpreterKeepsType, GuiKeepsType DEF ConsoleNext

\* The GUI looks at the status in UpdateDebugger, and while the interpreter is
\* in a flush or executes it sees RUNNING; the flush ends with the GUI in "drain".
LEMMA NextKeepsRunning == ConsoleTypes /\ RunningInv /\ [ConsoleNext]_consoleVars => RunningInv'
<1> SUFFICES ASSUME ConsoleTypes, RunningInv, [ConsoleNext]_consoleVars PROVE RunningInv'
  OBVIOUS
<1> USE DEF RunningInv, Executing, FlushedBy
<1>0. /\ int \in IntStates /\ sync \in SyncStates /\ gui \in GuiStates
      /\ \A to : Goto(to) => int'.pc = to
  BY DEF ConsoleTypes, IntStates
<1> HIDE DEF Goto
<1>1. CASE \/ PackageOutput \/ EndOfPackages \/ PostProgress
           \/ Top \/ Prompt \/ LineWaitEnd \/ PostClear \/ Echo
  BY <1>0, <1>1 DEF PackageOutput, EndOfPackages, PostProgress, Top, Prompt, LineWaitEnd,
     PostClear, Echo, IntStates
<1>2. CASE ReadLine
  BY <1>0, <1>2 DEF ReadLine, TakeLine, TakeFull, WaitForLine, IntStates
<1>3. CASE Parse
  BY <1>0, <1>3 DEF Parse, StartRunning, Completes, IsError, IntStates
<1>4. CASE Flush
  <2>1. int'.pc = "flushPost" /\ int'.after = int.after
    BY <1>0, <1>4 DEF Flush, Goto, IntStates
  <2> QED BY <1>0, <1>4, <2>1 DEF Flush, SyncStates
<1>5. CASE FlushPost
  <2>1. int'.pc = "flushWait" /\ int'.after = int.after
    BY <1>0, <1>5 DEF FlushPost, Goto, IntStates
  <2> QED BY <1>0, <1>5, <2>1 DEF FlushPost, SyncStates
<1>6. CASE FlushEnd
  <2>1. int.after \in {"exec", "resumed", "loaded"}
    BY <1>0 DEF IntStates
  <2> QED BY <1>0, <1>6, <2>1 DEF FlushEnd, FlushSeen, SyncStates
<1>7. CASE StartExecution \/ CheckAfterPause \/ EndOfStatement \/ PrintOutput
           \/ StepDone \/ Hook
  BY <1>0, <1>7 DEF StartExecution, CheckAfterPause, EndOfStatement, PrintOutput,
     StepDone, Hook
<1>8. CASE PauseLock \/ PauseWait \/ PauseEnd
  BY <1>0, <1>8 DEF PauseLock, PauseWait, PauseEnd, IntStates
<1>9. CASE SpuriousWakeUp
  BY <1>0, <1>9 DEF SpuriousWakeUp, SyncStates
<1>10. CASE Tick \/ UpdateDebugger \/ FilledCallStack \/ FilledDebugger \/ LockCommands
            \/ AllExecuted \/ Inspected
  BY <1>0, <1>10 DEF Tick, UpdateDebugger, FilledCallStack, FilledDebugger, LockCommands,
     AllExecuted, Inspected, GuiStates
<1>11. CASE ExecuteCommand \/ ExecuteFlush
  BY <1>0, <1>11 DEF ExecuteCommand, ExecuteFlush, GuiStates
<1>12. CASE EnterLine \/ EnterFullCommand
  BY <1>0, <1>12 DEF EnterLine, EnterFullCommand, EnterIn, SyncStates
<1>13. CASE ClickPause \/ ClickInterrupt \/ ClickInDebugger \/ Inspect
  BY <1>0, <1>13 DEF ClickPause, ClickInterrupt, ClickInDebugger, Inspect, Resume,
       SyncStates, GuiStates
<1>14. CASE UNCHANGED consoleVars
  BY <1>14 DEF consoleVars
<1> QED
  BY <1>1, <1>2, <1>3, <1>4, <1>5, <1>6, <1>7, <1>8, <1>9, <1>10, <1>11, <1>12, <1>13,
     <1>14 DEF ConsoleNext, Interpret, Execute, ProcessCommands, UserActs

\* The queue of commands holds a FlushQC only during the interpreter's wait.
LEMMA NextKeepsFlush == ConsoleTypes /\ FlushInv /\ [ConsoleNext]_consoleVars => FlushInv'
<1> SUFFICES ASSUME ConsoleTypes, FlushInv, [ConsoleNext]_consoleVars PROVE FlushInv'
  OBVIOUS
<1>0. /\ int \in IntStates /\ sync \in SyncStates /\ gui \in GuiStates
      /\ commands \in Seq(Commands)
      /\ \A to : Goto(to) => int'.pc = to
  BY DEF ConsoleTypes, IntStates
<1> HIDE DEF Goto
\* Outside the wait a command other than FlushQC may be posted, or none.
<1>1. ASSUME int.pc # "flushWait", UNCHANGED gui,
             int'.pc = "flushPost" => ~sync'.flushed,
             \/ UNCHANGED commands
             \/ \E c \in {"print", "clear", "progress"} : postCommand(c)
      PROVE  FlushInv'
  BY <1>0, <1>1 DEF FlushInv, postCommand, GuiStates
\* Other threads leave the interpreter and the queue alone.
<1>2. ASSUME UNCHANGED commands, int'.pc = int.pc, sync'.flushed = sync.flushed,
             gui'.pc # "flushExecute" \/ gui'.pc = gui.pc
      PROVE  FlushInv'
  BY <1>2 DEF FlushInv
<1>3. CASE \/ PostProgress \/ Top \/ Prompt \/ ReadLine \/ LineWaitEnd \/ PostClear \/ Echo
           \/ StartExecution \/ Execute
           \/ PauseLock \/ PauseWait \/ PauseEnd \/ CheckAfterPause
  BY <1>0, <1>1, <1>3 DEF PostProgress, Top, Prompt, ReadLine, TakeLine, TakeFull,
     WaitForLine, LineWaitEnd, PostClear, Echo, StartExecution,
     Execute, PackageOutput, EndOfPackages, PrintOutput, Hook, StepDone, EndOfStatement,
     PauseLock, PauseWait, PauseEnd, CheckAfterPause, IntStates
<1>4. CASE Parse
  BY <1>0, <1>1, <1>4 DEF Parse, StartRunning, Completes, IsError, IntStates
<1>5. CASE Flush
  BY <1>0, <1>1, <1>5 DEF Flush, SyncStates
<1>6. CASE FlushPost
  <2>1. \A i \in 1..Len(commands) : commands[i] # "flush"
    BY <1>6 DEF FlushPost, FlushInv
  <2>2. commands' = Append(commands, "flush") /\ gui' = gui /\ gui.pc # "flushExecute"
    BY <1>6 DEF FlushPost, postCommand
  <2>3. int'.pc = "flushWait"
    BY <1>0, <1>6 DEF FlushPost
  <2>4. ~sync'.flushed
    BY <1>0, <1>6 DEF FlushPost, SyncStates, FlushInv
  <2> QED BY <1>0, <2>1, <2>2, <2>3, <2>4 DEF FlushInv
<1>7. CASE FlushEnd
  <2>1. CASE FlushSeen
    <3>1. UNCHANGED <<commands, sync, gui>> /\ int'.pc = int.after /\ sync.flushed
      BY <1>0, <1>7, <2>1 DEF FlushEnd, FlushSeen
    <3>2. int.after # "flushPost"
      BY <1>0 DEF IntStates
    <3> QED BY <3>1, <3>2 DEF FlushInv
  <2>2. CASE ~FlushSeen
    BY <1>0, <1>2, <1>7, <2>2 DEF FlushEnd, SyncStates
  <2> QED BY <2>1, <2>2
<1>8. CASE SpuriousWakeUp
  BY <1>0, <1>2, <1>8 DEF SpuriousWakeUp, SyncStates
<1>9. CASE Tick \/ UpdateDebugger \/ FilledCallStack \/ FilledDebugger \/ LockCommands
           \/ AllExecuted \/ Inspected
  BY <1>0, <1>2, <1>9 DEF Tick, UpdateDebugger, FilledCallStack, FilledDebugger, LockCommands,
     AllExecuted, Inspected, GuiStates
<1>10. CASE ExecuteCommand
  <2>1. CASE Head(commands) = "flush"
    BY <1>0, <1>10, <2>1 DEF ExecuteCommand, FlushInv, GuiStates
  <2>2. CASE Head(commands) # "flush"
    <3>1. /\ commands # <<>> /\ commands' = Tail(commands)
          /\ UNCHANGED <<int, sync>> /\ gui'.pc = gui.pc /\ gui.pc # "flushExecute"
      BY <1>0, <1>10, <2>2 DEF ExecuteCommand, GuiStates
    <3>2. /\ Len(commands') = Len(commands) - 1
          /\ \A i \in 1..Len(commands') : i + 1 \in 1..Len(commands) /\ commands'[i] = commands[i + 1]
      BY <1>0, <3>1
    <3> QED BY <3>1, <3>2 DEF FlushInv
  <2> QED BY <2>1, <2>2
<1>11. CASE ExecuteFlush
  <2>1. /\ commands # <<>> /\ Head(commands) = "flush" /\ commands' = Tail(commands)
        /\ gui'.pc = "drain" /\ int' = int
    BY <1>0, <1>11 DEF ExecuteFlush, FlushInv, GuiStates
  <2>2. /\ Len(commands') = Len(commands) - 1
        /\ \A i \in 1..Len(commands') : i + 1 \in 1..Len(commands) /\ commands'[i] = commands[i + 1]
    BY <1>0, <2>1
  <2>3. \A i \in 1..Len(commands') : commands'[i] # "flush"
    <3> SUFFICES ASSUME NEW i \in 1..Len(commands'), commands[i + 1] = "flush" PROVE FALSE
      BY <2>2
    <3>1. 1 \in 1..Len(commands) /\ commands[1] = "flush" /\ i + 1 \in 1..Len(commands)
      BY <1>0, <2>1, <2>2
    <3> QED BY <3>1 DEF FlushInv
  <2>4. int.pc # "flushPost"
    BY <1>11 DEF ExecuteFlush, FlushMutFree
  <2> QED BY <2>1, <2>3, <2>4 DEF FlushInv
<1>12. CASE EnterLine \/ EnterFullCommand
  BY <1>0, <1>2, <1>12 DEF EnterLine, EnterFullCommand, EnterIn, SyncStates
<1>13. CASE ClickPause \/ ClickInterrupt \/ ClickInDebugger \/ Inspect
  BY <1>0, <1>2, <1>13 DEF ClickPause, ClickInterrupt, ClickInDebugger, Inspect, Resume,
     SyncStates, GuiStates
<1>14. CASE UNCHANGED consoleVars
  BY <1>2, <1>14 DEF consoleVars
<1> QED
  BY <1>3, <1>4, <1>5, <1>6, <1>7, <1>8, <1>9, <1>10, <1>11, <1>12, <1>13, <1>14
     DEF ConsoleNext, Interpret, ProcessCommands, UserActs

\* A statement that has been begun shows in the status until it is complete.
LEMMA NextKeepsStatement ==
  ASSUME "mixed" \notin LineKinds
  PROVE  ConsoleTypes /\ StatementInv /\ [ConsoleNext]_consoleVars => StatementInv'
<1> SUFFICES ASSUME ConsoleTypes, StatementInv, [ConsoleNext]_consoleVars PROVE StatementInv'
  OBVIOUS
<1> USE DEF StatementInv, Reading
<1>0. /\ int \in IntStates
      /\ \A to : Goto(to) => /\ int'.pc = to
                             /\ int'.line = int.line /\ int'.open = int.open
  BY DEF ConsoleTypes, IntStates
<1> HIDE DEF Goto
<1>1. CASE Top \/ Prompt \/ LineWaitEnd \/ PostClear \/ Echo
  BY <1>0, <1>1 DEF Top, Prompt, LineWaitEnd, PostClear, Echo
<1>5. CASE PackageOutput \/ EndOfPackages \/ PostProgress
  <2>1. ~int.open /\ int'.open = int.open
    BY <1>0, <1>5 DEF PackageOutput, EndOfPackages, PostProgress, IntStates
  <2>2. int'.pc \in {"packages", "flush", "loaded", "top"}
    BY <1>0, <1>5 DEF PackageOutput, EndOfPackages, PostProgress, IntStates
  <2> QED BY <2>1, <2>2
<1>2. CASE ReadLine
  <2>1. CASE TakeLine
    <3>1. Head(input.lines) \in LineKinds
      BY <2>1 DEF TakeLine, ConsoleTypes, InputStates
    <3>2. /\ int'.pc = "echo" /\ int'.line = Head(input.lines) /\ int'.open = int.open
          /\ status' = IF Head(input.lines) = "blank" THEN status ELSE "COMPLETION"
      BY <1>0, <2>1 DEF TakeLine, IntStates
    <3>3. Head(input.lines) = "full" => ~int.open \/ status' = "COMPLETION"
      BY <3>2
    <3> QED BY <3>1, <3>2, <3>3, LineAssumption
  <2>2. CASE TakeFull
    BY <1>0, <2>2 DEF TakeFull, MayTakeFull, IntStates
  <2>3. CASE WaitForLine
    BY <1>0, <1>2, <2>3 DEF ReadLine, WaitForLine
  <2> QED BY <1>2, <2>1, <2>2, <2>3 DEF ReadLine
<1>3. CASE Parse
  <2>0. int.pc = "parse" /\ int.line # "mixed"
    BY <1>0, <1>3 DEF Parse, IntStates
  <2>1. CASE Completes
    <3>1. int'.pc = "flush" /\ int'.open = FALSE
      BY <1>0, <1>3, <2>0, <2>1 DEF Parse, StartRunning, Completes, IsError,
           IntStates
    <3> QED BY <3>1
  <2>2. CASE ~Completes /\ IsError
    <3>1. Goto("top") /\ ~int.open
      BY <1>3, <2>2 DEF Parse, IsError
    <3> QED BY <1>0, <3>1
  <2>3. CASE ~Completes /\ ~IsError
    <3>1. /\ int' = [int EXCEPT !.pc = "prompt", !.open = @ \/ int.line = "open"]
          /\ status' = status
      BY <1>3, <2>3 DEF Parse
    <3>2. int'.pc = "prompt" /\ int'.open = (int.open \/ int.line = "open")
      BY <1>0, <3>1 DEF IntStates
    <3>3. int.line = "open" => status = "COMPLETION"
      BY <2>0
    <3> QED BY <3>1, <3>2, <3>3
  <2> QED BY <2>1, <2>2, <2>3
<1>4. CASE Flush \/ FlushPost
  BY <1>0, <1>4 DEF Flush, FlushPost
<1>6. CASE FlushEnd
  <2>1. int.after \in {"exec", "resumed", "loaded"}
    BY <1>0 DEF IntStates
  <2> QED BY <1>0, <1>6, <2>1 DEF FlushEnd
<1>7. CASE StartExecution \/ CheckAfterPause \/ EndOfStatement \/ PrintOutput
           \/ StepDone \/ Hook
  <2>1. ~int.open /\ int'.open = int.open
    BY <1>0, <1>7 DEF StartExecution, CheckAfterPause, EndOfStatement,
         PrintOutput, StepDone, Hook
  <2>2. int'.pc \in {"run", "top", "pauseLock"}
    BY <1>0, <1>7 DEF StartExecution, CheckAfterPause, EndOfStatement,
         PrintOutput, StepDone, Hook
  <2> QED BY <2>1, <2>2
<1>8. CASE PauseLock \/ PauseWait
  BY <1>0, <1>8 DEF PauseLock, PauseWait
<1>9. CASE PauseEnd
  BY <1>0, <1>9 DEF PauseEnd, IntStates
<1>10. CASE \/ SpuriousWakeUp \/ ProcessCommands \/ UserActs \/ Inspected
            \/ UNCHANGED consoleVars
  <2>1. UNCHANGED <<int, status>>
    BY <1>10 DEF consoleVars, SpuriousWakeUp, ProcessCommands, UserActs, Tick,
       UpdateDebugger, FilledCallStack, FilledDebugger, LockCommands, AllExecuted,
       ExecuteCommand, ExecuteFlush, EnterLine, EnterFullCommand, ClickPause,
       ClickInterrupt, ClickInDebugger, Inspect, Inspected
  <2> QED BY <2>1
<1> QED
  BY <1>1, <1>2, <1>3, <1>4, <1>5, <1>6, <1>7, <1>8, <1>9, <1>10
     DEF ConsoleNext, Interpret, Execute

-----------------------------------------------------------------------------
ConsoleInv == ConsoleTypes /\ RunningInv /\ FlushInv

LEMMA InitConsoleInv == ConsoleInit => ConsoleInv /\ StatementInv
BY InitConsoleTypes DEF ConsoleInit, ConsoleInv, RunningInv, Executing, FlushedBy, FlushInv,
     StatementInv

LEMMA NextConsoleInv == ConsoleInv /\ [ConsoleNext]_consoleVars => ConsoleInv'
BY NextKeepsType, NextKeepsRunning, NextKeepsFlush DEF ConsoleInv

LEMMA ConsoleInvariance == ConsoleSpec => []ConsoleInv
BY InitConsoleInv, NextConsoleInv, PTL DEF ConsoleSpec

\* C5.C: a statement is executed only after a flush, and a flush ends only when
\* the GUI has executed it; so no tick of the GUI is in the middle of reading the
\* frames when a statement entered at the console changes them.  (It may be when
\* a package does, and so may the debugger's handlers: neither has a flush.)
THEOREM TicksReadFramesSafely == ConsoleSpec => []TicksReadSafely
<1>1. ConsoleInv => TicksReadSafely
  BY DEF ConsoleInv, RunningInv, FlushedBy, TicksReadSafely
<1> QED BY ConsoleInvariance, <1>1, PTL

\* C5.C: a file to run is read only at the beginning of a statement, provided no
\* line ends a statement and begins another.
THEOREM FullCommandsAreWhole ==
  ASSUME "mixed" \notin LineKinds
  PROVE  ConsoleSpec => []FullCommandsWhole
<1>1. StatementInv => FullCommandsWhole
  BY DEF StatementInv, FullCommandsWhole
<1>2. ConsoleInv /\ StatementInv /\ [ConsoleNext]_consoleVars => StatementInv'
  BY NextKeepsStatement DEF ConsoleInv
<1> QED BY ConsoleInvariance, InitConsoleInv, <1>1, <1>2, PTL DEF ConsoleSpec

\* C5.C: the GUI holds Console::mut when it asks for FlushQC's mutex, and the
\* interpreter asks for them in the other order, yet the two never wait for one
\* another, since the interpreter has begun its wait when its FlushQC is executed.
THEOREM NoDeadlock == ConsoleSpec => []GuiFindsMutexFree
<1>1. ConsoleInv => GuiFindsMutexFree
  <2> SUFFICES ASSUME ConsoleInv, gui.pc = "flushExecute" PROVE FlushMutFree
    BY DEF GuiFindsMutexFree
  <2>1. 1 \in 1..Len(commands) /\ commands[1] = "flush"
    BY DEF ConsoleInv, ConsoleTypes, FlushInv
  <2> QED BY <2>1 DEF ConsoleInv, FlushInv, FlushMutFree
<1> QED BY ConsoleInvariance, <1>1, PTL

=============================================================================
