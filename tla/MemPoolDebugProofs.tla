------------------------- MODULE MemPoolDebugProofs -------------------------
(***************************************************************************)
(* The two lists of a MemPoolDebug, and what its checks make of clients    *)
(* that misuse it, for every size of slices, margins, loaves and number of *)
(* mistakes, under one assumption: without margins no client frees a slice *)
(* twice.  A list is described by a rank: its head has the highest, and    *)
(* every link leads to the next lower one.                                 *)
(***************************************************************************)
EXTENDS MemPoolDebug, NatFacts, FiniteSetTheorems, TLAPS

\* r ranks the n members of F along the links w, from head downwards.
Ranked(r, n, head, w, F) ==
  /\ \A s, t \in F : r[s] = r[t] => s = t
  /\ IF n = 0 THEN head = nullptr ELSE head \in F /\ r[head] = n
  /\ \A s \in F : IF r[s] = 1 THEN w[s] = nullptr ELSE w[s] \in F /\ r[w[s]] = r[s] - 1

\* The links w thread F into a list that starts at head.
List(head, w, F) == \E n \in Nat : \E r \in [F -> 1..n] : Ranked(r, n, head, w, F)

\* free looks for the margins of a slice to tell whether it is held.  Where
\* there are none it accepts every slice, and the theorems are about clients
\* that do not free one twice.
DoubleFreesAreSeen == myMarginWords # 0 \/ "double free" \notin Misuse

-----------------------------------------------------------------------------
LEMMA ListOfNone ==
  ASSUME NEW w PROVE List(nullptr, w, {})
<1>1. << >> \in [{} -> 1..0] /\ Ranked(<< >>, 0, nullptr, w, {})
  BY DEF Ranked
<1> QED
  BY <1>1 DEF List

LEMMA NoneOnNull ==
  ASSUME NEW w, NEW F, nullptr \notin F, List(nullptr, w, F) PROVE F = {}
<1>1. PICK n \in Nat : \E r \in [F -> 1..n] : Ranked(r, n, nullptr, w, F)
  BY DEF List
<1>2. PICK r \in [F -> 1..n] : Ranked(r, n, nullptr, w, F)
  BY <1>1
<1>3. n = 0
  BY <1>2 DEF Ranked
<1> QED
  BY <1>3

LEMMA ListStays ==
  ASSUME NEW head, NEW w, NEW F, List(head, w, F)
  PROVE  head \in F \cup {nullptr} /\ \A s \in F : w[s] \in F \cup {nullptr}
<1>1. PICK n \in Nat : \E r \in [F -> 1..n] : Ranked(r, n, head, w, F)
  BY DEF List
<1>2. PICK r \in [F -> 1..n] : Ranked(r, n, head, w, F)
  BY <1>1
<1> QED
  BY <1>2 DEF Ranked

LEMMA ListSame ==
  ASSUME NEW head, NEW w, NEW v, NEW F, List(head, w, F), \A s \in F : v[s] = w[s]
  PROVE  List(head, v, F)
<1>1. PICK n \in Nat : \E r \in [F -> 1..n] : Ranked(r, n, head, w, F)
  BY DEF List
<1>2. PICK r \in [F -> 1..n] : Ranked(r, n, head, w, F)
  BY <1>1
<1>3. Ranked(r, n, head, v, F)
  BY <1>2 DEF Ranked
<1> QED
  BY <1>3 DEF List

\* Taking the head leaves the list that starts at its link.
LEMMA ListPop ==
  ASSUME NEW head, NEW w, NEW F, head \in F, nullptr \notin F, List(head, w, F)
  PROVE  List(w[head], w, F \ {head})
<1>1. PICK n \in Nat : \E r \in [F -> 1..n] : Ranked(r, n, head, w, F)
  BY DEF List
<1>2. PICK r \in [F -> 1..n] : Ranked(r, n, head, w, F)
  BY <1>1
<1> DEFINE G == F \ {head}
           q == [s \in G |-> r[s]]
<1>3. n # 0 /\ r[head] = n /\ n - 1 \in Nat
  BY <1>2 DEF Ranked
<1>4. \A s \in G : r[s] \in 1..(n - 1)
  <2>1. \A s \in G : r[s] \in 1..n /\ r[s] # n
    BY <1>2, <1>3 DEF Ranked
  <2> QED BY <2>1
<1>5. q \in [G -> 1..(n - 1)]
  BY <1>4
<1>6. IF n - 1 = 0 THEN w[head] = nullptr ELSE w[head] \in G /\ r[w[head]] = n - 1
  BY <1>2, <1>3 DEF Ranked
<1>7. \A s \in G : IF r[s] = 1 THEN w[s] = nullptr ELSE w[s] \in G /\ r[w[s]] = r[s] - 1
  <2> SUFFICES ASSUME NEW s \in G, r[s] # 1 PROVE w[s] \in G /\ r[w[s]] = r[s] - 1
    BY <1>2 DEF Ranked
  <2>1. w[s] \in F /\ r[w[s]] = r[s] - 1
    BY <1>2 DEF Ranked
  <2>2. r[w[s]] # n
    BY <2>1, <1>4, <1>3
  <2> QED BY <2>1, <2>2, <1>3
<1>8. Ranked(q, n - 1, w[head], w, G)
  BY <1>2, <1>5, <1>6, <1>7 DEF Ranked
<1> HIDE DEF q
<1> QED
  BY <1>3, <1>5, <1>8 DEF List

\* A new element is put in front by linking it to the old head.
LEMMA ListPush ==
  ASSUME NEW head, NEW w, NEW v, NEW F, NEW a, a \notin F, List(head, w, F),
         v[a] = head, \A s \in F : v[s] = w[s]
  PROVE  List(a, v, F \cup {a})
<1>1. PICK n \in Nat : \E r \in [F -> 1..n] : Ranked(r, n, head, w, F)
  BY DEF List
<1>2. PICK r \in [F -> 1..n] : Ranked(r, n, head, w, F)
  BY <1>1
<1> DEFINE G == F \cup {a}
           q == [s \in G |-> IF s = a THEN n + 1 ELSE r[s]]
<1>3. q \in [G -> 1..(n + 1)] /\ q[a] = n + 1 /\ \A s \in F : q[s] = r[s] /\ q[s] \in 1..n
  OBVIOUS
<1> HIDE DEF q
<1>4. \A s, t \in G : q[s] = q[t] => s = t
  BY <1>2, <1>3 DEF Ranked
<1>5. IF q[a] = 1 THEN v[a] = nullptr ELSE v[a] \in G /\ q[v[a]] = q[a] - 1
  BY <1>2, <1>3 DEF Ranked
<1>6. \A s \in F : IF q[s] = 1 THEN v[s] = nullptr ELSE v[s] \in G /\ q[v[s]] = q[s] - 1
  BY <1>2, <1>3 DEF Ranked
<1>7. Ranked(q, n + 1, a, v, G)
  BY <1>3, <1>4, <1>5, <1>6 DEF Ranked
<1> QED
  BY <1>3, <1>7 DEF List

\* The slices of a new loaf but its first, which is handed out.
LEMMA ListLoaf ==
  ASSUME NEW n \in Nat, NEW k \in Nat, k >= 1, NEW v,
         \A i \in 2..k : v[<<n, i>>] = IF i < k THEN <<n, i + 1>> ELSE nullptr
  PROVE  List(IF 1 < k THEN <<n, 2>> ELSE nullptr, v, {<<n, i>> : i \in 2..k})
<1> DEFINE F == {<<n, i>> : i \in 2..k}
           q == [s \in F |-> k + 1 - s[2]]
           head == IF 1 < k THEN <<n, 2>> ELSE nullptr
<1>1. \A i \in 2..k : <<n, i>> \in F /\ q[<<n, i>>] = k + 1 - i
  OBVIOUS
<1>2. q \in [F -> 1..(k - 1)]
  OBVIOUS
<1>3. \A s \in F : \E i \in 2..k : s = <<n, i>>
  OBVIOUS
<1> HIDE DEF q, F
<1>4. \A s, t \in F : q[s] = q[t] => s = t
  <2> SUFFICES ASSUME NEW s \in F, NEW t \in F, q[s] = q[t] PROVE s = t
    OBVIOUS
  <2>1. PICK i \in 2..k : s = <<n, i>>
    BY <1>3
  <2>2. PICK j \in 2..k : t = <<n, j>>
    BY <1>3
  <2>3. i = j
    BY <1>1, <2>1, <2>2
  <2> QED BY <2>1, <2>2, <2>3
<1>5. IF k - 1 = 0 THEN head = nullptr ELSE head \in F /\ q[head] = k - 1
  BY <1>1
<1>6. \A s \in F : IF q[s] = 1 THEN v[s] = nullptr ELSE v[s] \in F /\ q[v[s]] = q[s] - 1
  <2> SUFFICES ASSUME NEW s \in F
        PROVE IF q[s] = 1 THEN v[s] = nullptr ELSE v[s] \in F /\ q[v[s]] = q[s] - 1
    OBVIOUS
  <2>1. PICK i \in 2..k : s = <<n, i>>
    BY <1>3
  <2>2. q[s] = k + 1 - i /\ v[s] = IF i < k THEN <<n, i + 1>> ELSE nullptr
    BY <1>1, <2>1
  <2>3. CASE i < k
    <3>1. i + 1 \in 2..k
      BY <2>3
    <3>2. <<n, i + 1>> \in F /\ q[<<n, i + 1>>] = k + 1 - (i + 1)
      BY <1>1, <3>1
    <3> QED BY <2>2, <2>3, <3>2
  <2>4. CASE ~(i < k)
    BY <2>2, <2>4
  <2> QED BY <2>3, <2>4
<1> HIDE DEF head
<1>7. Ranked(q, k - 1, head, v, F) /\ k - 1 \in Nat
  BY <1>4, <1>5, <1>6 DEF Ranked
<1>8. List(head, v, F)
  BY <1>2, <1>7 DEF List
<1> QED
  BY <1>8 DEF head, F

\* A set that holds the head and is closed under the links is the whole list.
LEMMA ListIsClosed ==
  ASSUME NEW head, NEW w, NEW F, nullptr \notin F, List(head, w, F),
         NEW S \in SUBSET F, head \in S \cup {nullptr},
         \A s \in S : w[s] \in S \cup {nullptr}
  PROVE  S = F
<1>1. PICK n \in Nat : \E r \in [F -> 1..n] : Ranked(r, n, head, w, F)
  BY DEF List
<1>2. PICK r \in [F -> 1..n] : Ranked(r, n, head, w, F)
  BY <1>1
<1> DEFINE T == {k \in Nat : k < n => \E s \in S : r[s] = n - k}
<1>3. 0 \in T
  BY <1>2 DEF Ranked
<1>4. ASSUME NEW k \in Nat, k \in T PROVE k + 1 \in T
  <2> SUFFICES ASSUME k + 1 < n PROVE \E s \in S : r[s] = n - (k + 1)
    OBVIOUS
  <2>1. PICK s \in S : r[s] = n - k
    BY <1>4
  <2>2. r[s] # 1 /\ s \in F
    BY <2>1
  <2>3. w[s] \in F /\ r[w[s]] = r[s] - 1
    BY <1>2, <2>2 DEF Ranked
  <2>4. w[s] \in S
    BY <2>3
  <2> QED BY <2>1, <2>3, <2>4
<1> HIDE DEF T
<1>5. Nat \subseteq T
  BY <1>3, <1>4, SetInduction
<1>6. ASSUME NEW t \in F PROVE t \in S
  <2>1. r[t] \in 1..n
    BY <1>2
  <2>2. n - r[t] \in T /\ n - r[t] < n /\ n - (n - r[t]) = r[t]
    BY <2>1, <1>5
  <2>3. PICK s \in S : r[s] = r[t]
    BY <2>2 DEF T
  <2>4. s = t
    BY <1>2, <2>3 DEF Ranked
  <2> QED BY <2>4
<1> QED
  BY <1>6

\* Every rank is taken.
RanksTaken(r, n, F) == \A k \in Nat : k < n => \E s \in F : r[s] = n - k

LEMMA RanksAreTaken ==
  ASSUME NEW head, NEW w, NEW F, NEW n, n \in Nat, NEW r, r \in [F -> 1..n],
         Ranked(r, n, head, w, F)
  PROVE  RanksTaken(r, n, F)
<1> DEFINE T == {i \in Nat : i < n => \E s \in F : r[s] = n - i}
<1>1. 0 \in T
  BY DEF Ranked
<1>2. ASSUME NEW i \in Nat, i \in T PROVE i + 1 \in T
  <2> SUFFICES ASSUME i + 1 < n PROVE \E s \in F : r[s] = n - (i + 1)
    OBVIOUS
  <2>1. PICK s \in F : r[s] = n - i
    BY <1>2
  <2>2. w[s] \in F /\ r[w[s]] = r[s] - 1
    BY <2>1 DEF Ranked
  <2> QED BY <2>1, <2>2
<1> HIDE DEF T
<1>3. Nat \subseteq T
  BY <1>1, <1>2, SetInduction
<1> QED
  BY <1>3 DEF T, RanksTaken

\* Following the links from the head of a list meets its members, no others.
LEMMA ListFromIs ==
  ASSUME NEW head, NEW F, IsFiniteSet(DOMAIN word), nullptr \notin DOMAIN word,
         F \subseteq DOMAIN word, List(head, word, F)
  PROVE  ListFrom(head) = F
<1> DEFINE D == DOMAIN word
           N == Cardinality(D)
           Is(f) == f = [k \in 0..N |-> IF k = 0 THEN head
                                        ELSE IF f[k - 1] \in D THEN word[f[k - 1]] ELSE nullptr]
           c == CHOOSE f : Is(f)
<1>1. ListFrom(head) = {c[k] : k \in 0..N} \cap D
  BY Zenon DEF ListFrom
<1>2. PICK n \in Nat : \E r \in [F -> 1..n] : Ranked(r, n, head, word, F)
  BY DEF List
<1>3. PICK r \in [F -> 1..n] : Ranked(r, n, head, word, F)
  BY <1>2
<1>4. \A k \in Nat : k < n => \E s \in F : r[s] = n - k
  <2>1. n \in Nat /\ r \in [F -> 1..n] /\ Ranked(r, n, head, word, F)
    BY <1>3
  <2>2. RanksTaken(r, n, F)
    BY <2>1, RanksAreTaken
  <2> QED BY <2>2 DEF RanksTaken
<1>5. N \in Nat /\ n <= N
  <2>1. r \in Surjection(F, 1..n)
    <3> SUFFICES ASSUME NEW t \in 1..n PROVE \E s \in F : r[s] = t
      BY DEF Surjection
    <3>1. n - t \in Nat /\ n - t < n /\ n - (n - t) = t
      OBVIOUS
    <3> QED BY <1>4, <3>1
  <2>2. IsFiniteSet(F) /\ Cardinality(F) <= N
    BY FS_Subset
  <2>3. Cardinality(1..n) <= Cardinality(F)
    BY <2>1, <2>2, FS_Surjection
  <2>4. Cardinality(1..n) = n
    BY FS_Interval
  <2>5. N \in Nat /\ Cardinality(F) \in Nat
    BY <2>2, FS_CardinalityType
  <2> QED BY <2>2, <2>3, <2>4, <2>5
<1> HIDE DEF N
<1> DEFINE at(k) == CHOOSE s \in F : r[s] = n - k
           g == [k \in 0..N |-> IF k < n THEN at(k) ELSE nullptr]
<1>6. \A k \in Nat : k < n => at(k) \in F /\ r[at(k)] = n - k
  BY <1>4
<1> HIDE DEF at
<1>7. /\ n = 0 => head = nullptr
      /\ n # 0 => head = at(0)
  BY <1>3, <1>6 DEF Ranked
<1>8. ASSUME NEW k \in Nat, k < n
      PROVE  word[at(k)] = IF k + 1 < n THEN at(k + 1) ELSE nullptr
  <2>1. at(k) \in F /\ r[at(k)] = n - k
    BY <1>6, <1>8
  <2>2. CASE k + 1 < n
    <3>1. r[at(k)] # 1
      BY <2>1, <2>2
    <3>2. word[at(k)] \in F /\ r[word[at(k)]] = r[at(k)] - 1
      BY <1>3, <2>1, <3>1 DEF Ranked
    <3>3. at(k + 1) \in F /\ r[at(k + 1)] = n - (k + 1)
      BY <1>6, <2>2
    <3>4. r[word[at(k)]] = r[at(k + 1)]
      BY <2>1, <3>2, <3>3
    <3>5. word[at(k)] = at(k + 1)
      BY <1>3, <3>2, <3>3, <3>4 DEF Ranked
    <3> QED BY <2>2, <3>5
  <2>3. CASE ~(k + 1 < n)
    <3>1. r[at(k)] = 1
      BY <1>8, <2>1, <2>3
    <3> QED BY <1>3, <2>1, <2>3, <3>1 DEF Ranked
  <2> QED BY <2>2, <2>3
<1>9. Is(g)
  <2>1. ASSUME NEW k \in 0..N
        PROVE  g[k] = IF k = 0 THEN head
                      ELSE IF g[k - 1] \in D THEN word[g[k - 1]] ELSE nullptr
    <3>1. CASE k = 0
      BY <1>5, <1>7, <3>1
    <3>2. CASE k # 0
      <4>1. k - 1 \in 0..N /\ k - 1 \in Nat /\ (k - 1) + 1 = k
        BY <3>2, <1>5
      <4>2. CASE k - 1 < n
        <5>1. g[k - 1] = at(k - 1) /\ at(k - 1) \in D
          BY <1>6, <4>1, <4>2
        <5>2. word[at(k - 1)] = IF k < n THEN at(k) ELSE nullptr
          BY <1>8, <4>1, <4>2
        <5> QED BY <3>2, <5>1, <5>2
      <4>3. CASE ~(k - 1 < n)
        <5>1. g[k - 1] = nullptr /\ g[k] = nullptr
          BY <4>1, <4>3
        <5> QED BY <3>2, <5>1
      <4> QED BY <4>2, <4>3
    <3> QED BY <3>1, <3>2
  <2> DEFINE e(k) == IF k = 0 THEN head
                     ELSE IF g[k - 1] \in D THEN word[g[k - 1]] ELSE nullptr
  <2>2. g = [k \in 0..N |-> g[k]]
    OBVIOUS
  <2> HIDE DEF g
  <2>3. g = [k \in 0..N |-> e(k)]
    BY <2>1, <2>2
  <2> QED BY <2>3
<1>10. Is(c)
  <2> HIDE DEF Is, g
  <2> QED BY <1>9
<1> HIDE DEF c
<1>11. \A k \in 0..N : c[k] = IF k = 0 THEN head
                              ELSE IF c[k - 1] \in D THEN word[c[k - 1]] ELSE nullptr
  BY <1>10
<1> HIDE DEF Is
<1> DEFINE T == {k \in Nat : k <= N => c[k] = IF k < n THEN at(k) ELSE nullptr}
<1>12. 0 \in T
  <2>1. 0 \in 0..N
    BY <1>5
  <2> QED BY <1>7, <1>11, <2>1
<1>13. ASSUME NEW k \in Nat, k \in T PROVE k + 1 \in T
  <2> SUFFICES ASSUME k + 1 <= N PROVE c[k + 1] = IF k + 1 < n THEN at(k + 1) ELSE nullptr
    OBVIOUS
  <2>1. k + 1 \in 0..N /\ k + 1 # 0 /\ (k + 1) - 1 = k /\ k <= N
    BY <1>5
  <2>2. c[k] = IF k < n THEN at(k) ELSE nullptr
    BY <1>13, <2>1
  <2>3. c[k + 1] = IF c[k] \in D THEN word[c[k]] ELSE nullptr
    BY <1>11, <2>1
  <2>4. CASE k < n
    <3>1. at(k) \in D
      BY <1>6, <2>4
    <3>2. word[at(k)] = IF k + 1 < n THEN at(k + 1) ELSE nullptr
      BY <1>8, <2>4
    <3> QED BY <2>2, <2>3, <2>4, <3>1, <3>2
  <2>5. CASE ~(k < n)
    BY <2>2, <2>3, <2>5
  <2> QED BY <2>4, <2>5
<1> HIDE DEF T
<1>14. Nat \subseteq T
  BY <1>12, <1>13, SetInduction
<1>15. \A k \in 0..N : c[k] = IF k < n THEN at(k) ELSE nullptr
  BY <1>5, <1>14 DEF T
<1>16. ASSUME NEW s \in F PROVE \E k \in 0..N : c[k] = s
  <2>1. r[s] \in 1..n
    BY <1>3
  <2>2. n - r[s] \in 0..N /\ n - r[s] \in Nat /\ n - r[s] < n /\ n - (n - r[s]) = r[s]
    BY <2>1, <1>5
  <2>3. c[n - r[s]] = at(n - r[s]) /\ at(n - r[s]) \in F /\ r[at(n - r[s])] = r[s]
    BY <1>6, <1>15, <2>2
  <2>4. c[n - r[s]] = s
    BY <1>3, <2>3 DEF Ranked
  <2> QED BY <2>2, <2>4
<1>17. \A k \in 0..N : c[k] \in D => c[k] \in F
  BY <1>6, <1>15
<1> QED
  BY <1>1, <1>16, <1>17

-----------------------------------------------------------------------------
Marks == {BEFORE, AFTER, FREE, DATA, JUNK}

\* The links of the free and the retired slices are sound, and no client
\* holds a retired slice.
ListInv ==
  /\ mySlicesPerLoaf \in 1..MaxLoafSlices
  /\ myLoaves \in Seq(1..MaxLoafSlices)
  /\ DOMAIN word = Slices
  /\ held \subseteq Slices \cup Blocks
  /\ UsedList \cap held = {}
  /\ List(myHeadOfFreeList, word, Slices \ Taken)
  /\ List(myHeadOfUsedList, word, UsedList)

\* At level 0 nothing is ever marked, and no call was made before there
\* is a slice.
BodyInv ==
  /\ VisibleWords \in Widths
  /\ myDebugLevel \in Levels
  /\ mistakes \in Nat
  /\ body \in [Slices -> [Body -> Marks]]
  /\ myDebugLevel = 0 => \A s \in Slices : body[s] = FreeBody
  /\ ~allocated => Slices = {}

\* Without mistakes every slice bears the marks of its state.
Marked(s) ==
  IF s \in held THEN word[s] = FirstMark /\ body[s] = AllocBody ELSE body[s] = FreeBody

CleanInv ==
  /\ ~Forwarded => held \subseteq Slices
  /\ mistakes = 0 /\ myDebugLevel > 0 => \A s \in Slices : Marked(s)
  /\ NoFalseAlarm

IInv == ListInv /\ BodyInv /\ CleanInv

-----------------------------------------------------------------------------
LEMMA SliceFacts ==
  ASSUME NEW l \in Seq(1..MaxLoafSlices)
  PROVE  /\ Mgr!SlicesOf(l) \subseteq Nat \X Nat
         /\ \A s \in Mgr!SlicesOf(l) : s[1] \in 1..Len(l)
         /\ IsFiniteSet(Mgr!SlicesOf(l))
         /\ nullptr \notin Mgr!SlicesOf(l) /\ BEFORE \notin Mgr!SlicesOf(l)
         /\ Mgr!SlicesOf(l) \cap Blocks = {}
<1> DEFINE S == Mgr!SlicesOf(l)
<1>1. \A n \in 1..Len(l) : l[n] \in Nat /\ l[n] <= MaxLoafSlices
  BY LoavesAssumption
<1>2. Len(l) \in Nat /\ MaxLoafSlices \in Nat
  BY LoavesAssumption
<1>3. S \subseteq (1..Len(l)) \X (1..MaxLoafSlices) /\ S \subseteq Nat \X Nat
  BY <1>1, <1>2 DEF Mgr!SlicesOf
<1> HIDE DEF S
<1>4. IsFiniteSet((1..Len(l)) \X (1..MaxLoafSlices))
  <2>1. IsFiniteSet(1..Len(l))
    BY <1>2, FS_Interval
  <2>2. IsFiniteSet(1..MaxLoafSlices)
    BY <1>2, FS_Interval
  <2> QED BY <2>1, <2>2, FS_Product
<1>5. IsFiniteSet(S)
  BY <1>3, <1>4, FS_Subset
<1>6. \A s \in S : s[1] \in 1..Len(l)
  BY <1>3
<1>7. nullptr \notin S /\ BEFORE \notin S /\ S \cap Blocks = {}
  BY <1>3, MarksAssumption
<1> QED
  BY <1>3, <1>5, <1>6, <1>7 DEF S

\* A new loaf adds its own slices and leaves the others alone.
LEMMA SlicesOfAppend ==
  ASSUME NEW l \in Seq(1..MaxLoafSlices), NEW k \in 1..MaxLoafSlices
  PROVE  /\ Mgr!SlicesOf(Append(l, k))
              = Mgr!SlicesOf(l) \cup {<<Len(l) + 1, i>> : i \in 1..k}
         /\ Mgr!SlicesOf(l) \cap {<<Len(l) + 1, i>> : i \in 1..k} = {}
         /\ Append(l, k) \in Seq(1..MaxLoafSlices)
<1> DEFINE m == Append(l, k)
           new == {<<Len(l) + 1, i>> : i \in 1..k}
<1>1. /\ m \in Seq(1..MaxLoafSlices)
      /\ Len(m) = Len(l) + 1
      /\ m[Len(l) + 1] = k
      /\ \A n \in 1..Len(l) : m[n] = l[n]
  OBVIOUS
<1>2. 1..Len(m) = 1..Len(l) \cup {Len(l) + 1}
  BY <1>1
<1>3. Mgr!SlicesOf(m) \subseteq Mgr!SlicesOf(l) \cup new
  BY <1>1, <1>2 DEF Mgr!SlicesOf
<1>4. Mgr!SlicesOf(l) \cup new \subseteq Mgr!SlicesOf(m)
  BY <1>1, <1>2 DEF Mgr!SlicesOf
<1>5. Mgr!SlicesOf(l) \cap new = {}
  BY SliceFacts
<1> QED
  BY <1>1, <1>3, <1>4, <1>5

\* The slices of this state are finitely many, and neither blocks nor marks.
LEMMA SlicesNow ==
  ASSUME myLoaves \in Seq(1..MaxLoafSlices)
  PROVE  /\ IsFiniteSet(Slices)
         /\ nullptr \notin Slices /\ BEFORE \notin Slices /\ Slices \cap Blocks = {}
         /\ \A s \in Slices : s \in Nat \X Nat /\ s[1] \in 1..Len(myLoaves)
<1>1. Slices = Mgr!SlicesOf(myLoaves)
  BY DEF Slices, Mgr!Slices
<1> QED
  BY <1>1, SliceFacts

\* UsedList is whatever set the links of the retired slices thread.
UsedListKnown ==
  myLoaves \in Seq(1..MaxLoafSlices) /\ DOMAIN word = Slices =>
    \A U \in SUBSET Slices : List(myHeadOfUsedList, word, U) => UsedList = U

LEMMA UsedListIs == UsedListKnown
<1> SUFFICES ASSUME myLoaves \in Seq(1..MaxLoafSlices), DOMAIN word = Slices,
                    NEW U \in SUBSET Slices, List(myHeadOfUsedList, word, U)
             PROVE  UsedList = U
  BY DEF UsedListKnown
<1>1. IsFiniteSet(DOMAIN word) /\ nullptr \notin DOMAIN word
  BY SlicesNow
<1> QED
  BY <1>1, ListFromIs DEF UsedList

LEMMA NewUsedList ==
  ASSUME myLoaves' \in Seq(1..MaxLoafSlices), DOMAIN word' = Slices',
         NEW U, U \subseteq Slices', List(myHeadOfUsedList', word', U)
  PROVE  UsedList' = U
<1>1. UsedListKnown'
  BY UsedListIs, PTL
<1> QED
  BY <1>1 DEF UsedListKnown

\* What the lists say of the slices that no client holds.
LEMMA ListFacts ==
  ASSUME ListInv
  PROVE  /\ UsedList \subseteq Slices
         /\ myHeadOfFreeList \in (Slices \ Taken) \cup {nullptr}
         /\ myHeadOfFreeList = nullptr => Slices \ Taken = {}
         /\ \A s \in Slices \ held : word[s] \in Slices \cup {nullptr} /\ word[s] # BEFORE
<1>1. UsedList \subseteq Slices
  BY DEF ListInv, UsedList, ListFrom
<1>2. nullptr \notin Slices /\ BEFORE \notin Slices /\ nullptr # BEFORE
  BY SlicesNow, MarksAssumption DEF ListInv
<1>3. myHeadOfFreeList \in (Slices \ Taken) \cup {nullptr}
  BY ListStays DEF ListInv
<1>4. myHeadOfFreeList = nullptr => Slices \ Taken = {}
  <2> SUFFICES ASSUME myHeadOfFreeList = nullptr PROVE Slices \ Taken = {}
    OBVIOUS
  <2>1. List(nullptr, word, Slices \ Taken) /\ nullptr \notin Slices \ Taken
    BY <1>2 DEF ListInv
  <2> HIDE DEF Taken
  <2> QED BY <2>1, NoneOnNull
<1>5. \A s \in Slices \ Taken : word[s] \in (Slices \ Taken) \cup {nullptr}
  BY ListStays DEF ListInv
<1>6. \A s \in UsedList : word[s] \in UsedList \cup {nullptr}
  BY ListStays DEF ListInv
<1> QED
  BY <1>1, <1>2, <1>3, <1>4, <1>5, <1>6 DEF Taken

-----------------------------------------------------------------------------
\* The five ways in which a step treats the lists.  First: not at all, even
\* if clients write to the words of what they hold.
LEMMA QuietStep ==
  ASSUME ListInv, UNCHANGED <<myHeadOfFreeList, myLoaves, myHeadOfUsedList>>,
         mySlicesPerLoaf' \in 1..MaxLoafSlices,
         DOMAIN word' = DOMAIN word, \A s \in Slices \ held : word'[s] = word[s],
         held' \subseteq Slices \cup Blocks, held' \cap Slices = held \cap Slices
  PROVE  ListInv' /\ Slices' = Slices /\ UsedList' = UsedList
<1>1. Slices' = Slices
  BY DEF Slices, Mgr!Slices
<1>2. UsedList \subseteq Slices \ held
  BY ListFacts DEF ListInv
<1>3. List(myHeadOfUsedList', word', UsedList)
  BY <1>2, ListSame DEF ListInv
<1>4. UsedList' = UsedList
  BY <1>1, <1>2, <1>3, NewUsedList DEF ListInv
<1>5. Slices' \ Taken' = Slices \ Taken /\ Slices \ Taken \subseteq Slices \ held
  BY <1>1, <1>4 DEF Taken
<1>6. List(myHeadOfFreeList', word', Slices' \ Taken')
  <2>1. List(myHeadOfFreeList, word, Slices \ Taken)
    BY DEF ListInv
  <2>2. \A s \in Slices \ Taken : word'[s] = word[s]
    BY <1>5
  <2> HIDE DEF Taken
  <2>3. List(myHeadOfFreeList, word', Slices \ Taken)
    BY <2>1, <2>2, ListSame
  <2> QED BY <1>5, <2>3
<1>7. UsedList' \cap held' = {}
  BY <1>2, <1>4
<1> QED
  BY <1>1, <1>3, <1>4, <1>6, <1>7 DEF ListInv

\* The head of the free list is handed out, whatever mark its word gets.
LEMMA PopStep ==
  ASSUME ListInv, UNCHANGED <<mySlicesPerLoaf, myLoaves, myHeadOfUsedList>>,
         myHeadOfFreeList # nullptr, myHeadOfFreeList' = word[myHeadOfFreeList],
         DOMAIN word' = DOMAIN word,
         \A s \in Slices \ {myHeadOfFreeList} : word'[s] = word[s],
         held' = held \cup {myHeadOfFreeList}
  PROVE  /\ ListInv' /\ Slices' = Slices /\ UsedList' = UsedList
         /\ myHeadOfFreeList \in Slices \ Taken
<1> DEFINE h == myHeadOfFreeList
<1>1. Slices' = Slices
  BY DEF Slices, Mgr!Slices
<1>2. h \in Slices \ Taken
  BY ListFacts
<1>3. UsedList \subseteq Slices /\ h \notin UsedList /\ h \notin held
  BY <1>2, ListFacts DEF Taken
<1>4. List(myHeadOfUsedList', word', UsedList)
  BY <1>3, ListSame DEF ListInv
<1>5. UsedList' = UsedList
  BY <1>1, <1>3, <1>4, NewUsedList DEF ListInv
<1>6. Slices' \ Taken' = (Slices \ Taken) \ {h}
  BY <1>1, <1>5 DEF Taken
<1>7. List(myHeadOfFreeList', word', Slices' \ Taken')
  <2>1. List(h, word, Slices \ Taken) /\ nullptr \notin Slices \ Taken
    BY SlicesNow DEF ListInv
  <2>2. \A s \in (Slices \ Taken) \ {h} : word'[s] = word[s]
    OBVIOUS
  <2> HIDE DEF Taken, h
  <2>3. List(word[h], word, (Slices \ Taken) \ {h})
    BY <1>2, <2>1, ListPop
  <2>4. List(word[h], word', (Slices \ Taken) \ {h})
    BY <2>2, <2>3, ListSame
  <2> QED BY <1>6, <2>4 DEF h
<1>8. UsedList' \cap held' = {} /\ held' \subseteq Slices \cup Blocks
  BY <1>2, <1>3, <1>5 DEF ListInv
<1> QED
  BY <1>1, <1>2, <1>4, <1>5, <1>7, <1>8 DEF ListInv

\* A loaf is added when the free list is empty; its first slice is handed out.
LEMMA LoafStep ==
  ASSUME ListInv, UNCHANGED myHeadOfUsedList, myHeadOfFreeList = nullptr,
         NEW n, NEW k, n = Len(myLoaves) + 1, k \in 1..MaxLoafSlices,
         mySlicesPerLoaf' = k, myLoaves' = Append(myLoaves, k),
         myHeadOfFreeList' = IF 1 < k THEN <<n, 2>> ELSE nullptr,
         DOMAIN word' = Slices', \A s \in Slices : word'[s] = word[s],
         \A i \in 2..k : word'[<<n, i>>] = IF i < k THEN <<n, i + 1>> ELSE nullptr,
         held' = held \cup {<<n, 1>>}
  PROVE  /\ ListInv' /\ UsedList' = UsedList
         /\ Slices' = Slices \cup {<<n, i>> : i \in 1..k}
         /\ Slices \cap {<<n, i>> : i \in 1..k} = {}
         /\ Slices = Taken \cap Slices /\ <<n, 1>> \in Slices' \ Slices
<1> DEFINE new == {<<n, i>> : i \in 1..k}
           rest == {<<n, i>> : i \in 2..k}
<1>1. /\ Slices' = Slices \cup new /\ Slices \cap new = {}
      /\ myLoaves' \in Seq(1..MaxLoafSlices)
  BY SlicesOfAppend DEF Slices, Mgr!Slices, ListInv
<1>2. k \in Nat /\ k >= 1 /\ n \in Nat
  BY LoavesAssumption DEF ListInv
<1>3. new = {<<n, 1>>} \cup rest /\ <<n, 1>> \notin rest
  BY <1>2
<1>4. Slices \subseteq Taken /\ UsedList \subseteq Slices
  BY ListFacts
<1>5. List(myHeadOfUsedList', word', UsedList)
  BY <1>4, ListSame DEF ListInv
<1>6. UsedList' = UsedList
  BY <1>1, <1>4, <1>5, NewUsedList
<1>7. held \cap new = {}
  <2>1. held \subseteq Slices \cup Blocks /\ Slices' \cap Blocks = {}
    <3>1. Slices' = Mgr!SlicesOf(myLoaves')
      BY DEF Slices, Mgr!Slices
    <3>2. Mgr!SlicesOf(myLoaves') \cap Blocks = {}
      BY <1>1, SliceFacts
    <3> QED BY <3>1, <3>2 DEF ListInv
  <2> HIDE DEF new
  <2> QED BY <1>1, <2>1
<1>8. Slices' \ Taken' = rest
  <2> HIDE DEF new, rest
  <2> QED BY <1>1, <1>3, <1>4, <1>6, <1>7 DEF Taken
<1>9. List(myHeadOfFreeList', word', rest)
  <2> HIDE DEF rest
  <2>1. List(IF 1 < k THEN <<n, 2>> ELSE nullptr, word', rest)
    BY <1>2, ListLoaf DEF rest
  <2> QED BY <2>1
<1>10. held' \subseteq Slices' \cup Blocks /\ UsedList' \cap held' = {}
  <2> HIDE DEF new, rest
  <2> QED BY <1>1, <1>3, <1>4, <1>6 DEF ListInv
<1> HIDE DEF new, rest
<1>11. ListInv'
  BY <1>1, <1>5, <1>6, <1>8, <1>9, <1>10 DEF ListInv
<1> QED
  BY <1>1, <1>3, <1>4, <1>6, <1>11 DEF new

\* A slice that was held goes to the front of the free list.
LEMMA GiveBackStep ==
  ASSUME ListInv, UNCHANGED <<mySlicesPerLoaf, myLoaves>>,
         NEW s \in held \cap Slices, GiveBack(s), held' = held \ {s}
  PROVE  /\ ListInv' /\ Slices' = Slices /\ UsedList' = UsedList
         /\ Taken' \cap Slices = (Taken \cap Slices) \ {s}
<1>1. Slices' = Slices
  BY DEF Slices, Mgr!Slices
<1>2. /\ DOMAIN word' = Slices /\ word'[s] = myHeadOfFreeList
      /\ \A t \in Slices \ {s} : word'[t] = word[t]
      /\ myHeadOfFreeList' = s /\ myHeadOfUsedList' = myHeadOfUsedList
  BY DEF GiveBack, ListInv
<1>3. UsedList \subseteq Slices \ {s} /\ s \in Taken
  BY ListFacts DEF Taken, ListInv
<1>4. List(myHeadOfUsedList', word', UsedList)
  BY <1>2, <1>3, ListSame DEF ListInv
<1>5. UsedList' = UsedList
  BY <1>1, <1>2, <1>3, <1>4, NewUsedList DEF ListInv
<1>6. Slices' \ Taken' = (Slices \ Taken) \cup {s} /\ s \notin Slices \ Taken
  BY <1>1, <1>3, <1>5 DEF Taken
<1>7. List(myHeadOfFreeList', word', Slices' \ Taken')
  <2>1. List(myHeadOfFreeList, word, Slices \ Taken)
    BY DEF ListInv
  <2>2. \A t \in Slices \ Taken : word'[t] = word[t]
    BY <1>2, <1>6
  <2> HIDE DEF Taken
  <2>3. List(s, word', (Slices \ Taken) \cup {s})
    BY <1>2, <1>6, <2>1, <2>2, ListPush
  <2> QED BY <1>2, <1>6, <2>3
<1>8. held' \subseteq Slices \cup Blocks /\ UsedList' \cap held' = {}
  BY <1>5 DEF ListInv
<1>9. Taken' \cap Slices = (Taken \cap Slices) \ {s}
  BY <1>3, <1>5 DEF Taken
<1> QED
  BY <1>1, <1>2, <1>4, <1>5, <1>7, <1>8, <1>9 DEF ListInv

\* A slice that was held goes to the front of the retired ones.
LEMMA RetireStep ==
  ASSUME ListInv, UNCHANGED <<mySlicesPerLoaf, myLoaves>>,
         NEW s \in held \cap Slices, Retire(s), held' = held \ {s}
  PROVE  /\ ListInv' /\ Slices' = Slices /\ UsedList' = UsedList \cup {s}
         /\ Taken' = Taken
<1>1. Slices' = Slices
  BY DEF Slices, Mgr!Slices
<1>2. /\ DOMAIN word' = Slices /\ word'[s] = myHeadOfUsedList
      /\ \A t \in Slices \ {s} : word'[t] = word[t]
      /\ myHeadOfUsedList' = s /\ myHeadOfFreeList' = myHeadOfFreeList
  BY DEF Retire, ListInv
<1>3. UsedList \subseteq Slices \ {s} /\ s \in Taken /\ s \notin UsedList
  BY ListFacts DEF Taken, ListInv
<1>4. List(myHeadOfUsedList', word', UsedList \cup {s})
  BY <1>2, <1>3, ListPush DEF ListInv
<1>5. UsedList' = UsedList \cup {s}
  BY <1>1, <1>2, <1>3, <1>4, NewUsedList DEF ListInv
<1>6. Taken' = Taken
  BY <1>5 DEF Taken
<1>7. List(myHeadOfFreeList', word', Slices' \ Taken')
  <2>1. List(myHeadOfFreeList, word, Slices \ Taken)
    BY DEF ListInv
  <2>2. \A t \in Slices \ Taken : word'[t] = word[t]
    BY <1>2, <1>3
  <2> HIDE DEF Taken
  <2>3. List(myHeadOfFreeList, word', Slices \ Taken)
    BY <2>1, <2>2, ListSame
  <2> QED BY <1>1, <1>2, <1>6, <2>3
<1>8. held' \subseteq Slices \cup Blocks /\ UsedList' \cap held' = {}
  BY <1>5 DEF ListInv
<1> QED
  BY <1>1, <1>2, <1>4, <1>5, <1>6, <1>7, <1>8 DEF ListInv

-----------------------------------------------------------------------------
\* What every step does besides keeping the invariant: it is a step of
\* SlicePool, hides no damage, and brings no retired slice back.
PoolStep == [Pool!Next]_<<Slices, Taken \cap Slices>>

DamageStep ==
  \A s \in Slices \ held :
    Overwritten(body[s]) /\ (s \in held' \/ ~Overwritten(body'[s]))
      => <<"overwritten", s>> \in reports'

RetiredStep ==
  myDebugLevel > 1 =>
    /\ UsedList \cup ((held \ held') \cap Slices) \subseteq UsedList'
    /\ held' \cap UsedList' = {}

GoodStep == PoolStep /\ DamageStep /\ RetiredStep

Harmless(rs) == \A r \in rs : r[1] \in {"unfreed", "zero ptr"}

LEMMA MarkFacts ==
  ASSUME BodyInv
  PROVE  /\ AllocBody \in [Body -> Marks] /\ FreeBody \in [Body -> Marks]
         /\ FirstMargin \subseteq Body /\ LastMargin \subseteq Body
         /\ (myMarginWords # 0 => LastMargin # {}) /\ FirstMargin \cap LastMargin = {}
         /\ \A i \in FirstMargin : AllocBody[i] = BEFORE
         /\ \A i \in LastMargin : AllocBody[i] = AFTER
         /\ \A i \in Body : FreeBody[i] = FREE
<1>1. myMarginWords \in Nat /\ VisibleWords \in Nat \ {0}
  BY DebugAssumption DEF BodyInv
<1>2. /\ mySliceWords \in Nat /\ mySliceWords = 2 * myMarginWords + VisibleWords
      /\ mySliceWords - myMarginWords = myMarginWords + VisibleWords
  BY <1>1 DEF mySliceWords
<1>3. FirstMargin \subseteq Body /\ LastMargin \subseteq Body
  BY <1>1, <1>2 DEF FirstMargin, LastMargin, Body
<1>4. FirstMargin \cap LastMargin = {}
  BY <1>1, <1>2 DEF FirstMargin, LastMargin
<1>5. myMarginWords # 0 => mySliceWords - 1 \in LastMargin
  BY <1>1, <1>2 DEF LastMargin
<1>6. AllocBody \in [Body -> Marks] /\ FreeBody \in [Body -> Marks]
  BY DEF AllocBody, FreeBody, Marks
<1>7. /\ \A i \in FirstMargin : AllocBody[i] = BEFORE
      /\ \A i \in LastMargin : AllocBody[i] = AFTER
      /\ \A i \in Body : FreeBody[i] = FREE
  BY <1>3, <1>4 DEF AllocBody, FreeBody
<1> QED
  BY <1>3, <1>4, <1>5, <1>6, <1>7

\* What the check for overwriting does to the slices and reports.
LEMMA CheckFacts ==
  ASSUME ListInv, BodyInv
  PROVE  /\ CheckedBody \in [Slices -> [Body -> Marks]]
         /\ \A s \in Slices :
              \/ CheckedBody[s] = body[s]
              \/ /\ CheckedBody[s] = FreeBody /\ s \in UsedList
                 /\ <<"overwritten", s>> \in CheckReports
         /\ \A s \in held \cap Slices : CheckedBody[s] = body[s]
         /\ \A s \in UsedList : myDebugLevel > 1 => CheckedBody[s] = FreeBody
         /\ myDebugLevel = 0 => CheckedBody = body /\ CheckReports = {}
         /\ (\A s \in Slices \ held : body[s] = FreeBody)
              => CheckedBody = body /\ CheckReports = {}
<1>1. Checked \subseteq UsedList /\ UsedList \subseteq Slices \ held
      /\ (myDebugLevel > 1 => Checked = UsedList) /\ (myDebugLevel = 0 => Checked = {})
  BY ListFacts DEF Checked, ListInv
<1>2. body \in [Slices -> [Body -> Marks]] /\ FreeBody \in [Body -> Marks]
  BY MarkFacts DEF BodyInv
<1>3. /\ CheckedBody \in [Slices -> [Body -> Marks]]
      /\ \A s \in Slices : CheckedBody[s] = IF s \in Checked THEN FreeBody ELSE body[s]
  <2>1. CheckedBody = [s \in Slices |-> IF s \in Checked THEN FreeBody ELSE body[s]]
    BY <1>2 DEF CheckedBody
  <2> QED BY <1>2, <2>1
<1>4. \A s \in Checked : body[s] # FreeBody => <<"overwritten", s>> \in CheckReports
  BY DEF CheckReports, Overwritten
<1>5. (\A s \in Checked : body[s] = FreeBody) => CheckedBody = body /\ CheckReports = {}
  BY <1>2, <1>3 DEF CheckReports, Overwritten
<1> QED
  BY <1>1, <1>3, <1>4, <1>5

\* Without mistakes the check finds nothing.
LEMMA NothingToReport ==
  ASSUME IInv, mistakes = 0
  PROVE  CheckedBody = body /\ CheckReports = {}
<1>1. CASE myDebugLevel = 0
  BY <1>1, CheckFacts DEF IInv
<1>2. CASE myDebugLevel # 0
  <2>1. myDebugLevel > 0
    BY <1>2 DEF IInv, BodyInv, Levels
  <2>2. \A s \in Slices \ held : body[s] = FreeBody
    BY <2>1 DEF IInv, CleanInv, Marked
  <2> QED BY <2>2, CheckFacts DEF IInv
<1> QED
  BY <1>1, <1>2

\* The margins and marks do not change while the pool lives.
LEMMA ShapeStays ==
  ASSUME UNCHANGED VisibleWords
  PROVE  Body' = Body /\ FreeBody' = FreeBody /\ AllocBody' = AllocBody
         /\ (Forwarded' <=> Forwarded)
<1>1. mySliceWords' = mySliceWords
  BY DEF mySliceWords
<1> QED
  BY <1>1 DEF Body, FreeBody, AllocBody, Forwarded, FirstMargin, LastMargin

\* Steps that leave the lists and the marks of held slices alone, and may
\* make the check.
LEMMA QuietGood ==
  ASSUME IInv, UNCHANGED VisibleWords,
         UNCHANGED <<myHeadOfFreeList, myLoaves, myHeadOfUsedList, word, myDebugLevel, mistakes>>,
         mySlicesPerLoaf' \in 1..MaxLoafSlices,
         allocated' = allocated \/ allocated' = TRUE,
         held' \subseteq Slices \cup Blocks, held' \cap Slices = held \cap Slices,
         ~Forwarded => held' = held,
         body' = body \/ (body' = CheckedBody /\ CheckReports \subseteq reports'),
         mistakes = 0 /\ ~Forwarded => Harmless(reports') /\ status' # "crashed"
  PROVE  IInv' /\ GoodStep
<1>1. ListInv' /\ Slices' = Slices /\ UsedList' = UsedList
  BY QuietStep DEF IInv
<1>2. /\ Body' = Body /\ FreeBody' = FreeBody /\ AllocBody' = AllocBody
      /\ (Forwarded' <=> Forwarded)
  BY ShapeStays
<1>3. body' \in [Slices -> [Body -> Marks]]
  BY CheckFacts DEF IInv, BodyInv
<1>4. myDebugLevel = 0 => body' = body
  BY CheckFacts DEF IInv
<1>5. BodyInv'
  BY <1>1, <1>2, <1>3, <1>4 DEF IInv, BodyInv
<1>6. mistakes = 0 => body' = body
  BY NothingToReport
<1>7. CleanInv'
  <2>1. NoFalseAlarm'
    BY <1>2 DEF NoFalseAlarm, Harmless
  <2>2. mistakes' = 0 /\ myDebugLevel' > 0 => \A s \in Slices' : Marked(s)'
    BY <1>1, <1>2, <1>6 DEF IInv, CleanInv, Marked
  <2> QED BY <1>1, <1>2, <2>1, <2>2 DEF IInv, CleanInv
<1>8. PoolStep
  BY <1>1 DEF PoolStep, Taken
<1>9. DamageStep
  BY CheckFacts DEF DamageStep, IInv, Overwritten
<1>10. RetiredStep
  BY <1>1 DEF RetiredStep, ListInv
<1> QED
  BY <1>1, <1>5, <1>7, <1>8, <1>9, <1>10 DEF IInv, GoodStep

-----------------------------------------------------------------------------
LEMMA NextSlicesInRange ==
  ASSUME ListInv PROVE Mgr!NextSlicesPerLoaf \in 1..MaxLoafSlices
  BY LoavesAssumption DEF ListInv, Mgr!NextSlicesPerLoaf

LEMMA InitIInv == Init => IInv
<1> SUFFICES ASSUME Init PROVE IInv
  OBVIOUS
<1> USE DEF Init
<1>1. Slices = {}
  BY DEF Slices, Mgr!Slices, Mgr!SlicesOf
<1>2. UsedList = {}
  BY DEF UsedList, ListFrom
<1>3. ListInv
  <2>1. List(nullptr, word, {})
    BY ListOfNone
  <2>2. Slices \ Taken = {}
    BY <1>1
  <2> QED BY <1>1, <1>2, <2>1, <2>2, LoavesAssumption DEF ListInv
<1>4. BodyInv
  BY <1>1 DEF BodyInv
<1>5. CleanInv
  BY <1>1 DEF CleanInv, NoFalseAlarm
<1> QED
  BY <1>3, <1>4, <1>5 DEF IInv

LEMMA LevelGood ==
  ASSUME IInv, UNCHANGED VisibleWords, NEW lev \in Levels, SetDebugLevel(lev)
  PROVE  IInv' /\ GoodStep
<1> USE DEF SetDebugLevel
<1>1. ListInv' /\ Slices' = Slices /\ UsedList' = UsedList
  BY QuietStep DEF IInv, ListInv, fast
<1>2. /\ Body' = Body /\ FreeBody' = FreeBody /\ AllocBody' = AllocBody
      /\ (Forwarded' <=> Forwarded)
  BY ShapeStays
<1>3. myDebugLevel' \in Levels /\ (myDebugLevel' = myDebugLevel \/ Slices = {})
  BY DEF IInv, BodyInv
<1>4. BodyInv'
  BY <1>1, <1>2, <1>3 DEF IInv, BodyInv
<1>5. CleanInv'
  BY <1>1, <1>2, <1>3 DEF IInv, CleanInv, Marked, NoFalseAlarm
<1>6. PoolStep /\ RetiredStep
  BY <1>1 DEF PoolStep, Taken, RetiredStep, ListInv
<1>7. DamageStep
  BY DEF DamageStep, IInv, ListInv
<1> QED
  BY <1>1, <1>4, <1>5, <1>6, <1>7 DEF IInv, GoodStep

LEMMA ThrowsGood ==
  ASSUME IInv, UNCHANGED VisibleWords, AllocThrows PROVE IInv' /\ GoodStep
<1> USE DEF AllocThrows
<1>1. mySlicesPerLoaf' \in 1..MaxLoafSlices
  BY NextSlicesInRange DEF IInv
<1>2. mistakes = 0 /\ ~Forwarded => Harmless(reports') /\ status' # "crashed"
  BY NothingToReport DEF Harmless
<1>3. held \subseteq Slices \cup Blocks
  BY DEF IInv, ListInv
<1> QED
  BY <1>1, <1>2, <1>3, QuietGood

LEMMA ForwardedGood ==
  ASSUME IInv, UNCHANGED VisibleWords, AllocForwarded PROVE IInv' /\ GoodStep
<1> USE DEF AllocForwarded, fast
<1>1. PICK p \in Blocks \ held : held' = held \cup {p}
  OBVIOUS
<1>2. held' \subseteq Slices \cup Blocks /\ held' \cap Slices = held \cap Slices
  BY <1>1, SlicesNow DEF IInv, ListInv
<1>3. mySlicesPerLoaf' \in 1..MaxLoafSlices
  BY DEF IInv, ListInv
<1>4. Forwarded /\ allocated' = TRUE /\ body' = body
  OBVIOUS
<1>5. UNCHANGED <<myHeadOfFreeList, myLoaves, myHeadOfUsedList, word, myDebugLevel, mistakes>>
  OBVIOUS
<1> QED
  BY ONLY IInv, UNCHANGED VisibleWords, <1>2, <1>3, <1>4, <1>5, QuietGood

LEMMA SystemGood ==
  ASSUME IInv, UNCHANGED VisibleWords, AllocFromSystem PROVE IInv' /\ GoodStep
<1> USE DEF AllocFromSystem, fast
<1>1. mySlicesPerLoaf' \in 1..MaxLoafSlices /\ held \subseteq Slices \cup Blocks
  BY DEF IInv, ListInv
<1>2. mistakes = 0 /\ ~Forwarded => Harmless(reports') /\ status' # "crashed"
  BY NothingToReport DEF Harmless
<1> QED
  BY <1>1, <1>2, QuietGood

LEMMA OtherGood ==
  ASSUME IInv, UNCHANGED VisibleWords, FreeOther PROVE IInv' /\ GoodStep
<1> USE DEF FreeOther, fast
<1>1. mySlicesPerLoaf' \in 1..MaxLoafSlices /\ held \subseteq Slices \cup Blocks
  BY DEF IInv, ListInv
<1>2. PICK null \in BOOLEAN :
        reports' = CheckReports \cup
                   (IF null /\ myDebugLevel > 0 THEN {<<"zero ptr", nullptr>>} ELSE {})
  OBVIOUS
<1>3. mistakes = 0 /\ ~Forwarded => Harmless(reports') /\ status' # "crashed"
  <2>1. mistakes = 0 => reports' \subseteq {<<"zero ptr", nullptr>>}
    BY <1>2, NothingToReport
  <2>2. <<"zero ptr", nullptr>>[1] = "zero ptr"
    OBVIOUS
  <2> QED BY <2>1, <2>2 DEF Harmless
<1>4. CheckReports \subseteq reports'
  BY <1>2
<1> QED
  BY <1>1, <1>3, <1>4, QuietGood

LEMMA DestroyGood ==
  ASSUME IInv, UNCHANGED VisibleWords, Destroy PROVE IInv' /\ GoodStep
<1> USE DEF Destroy, fast
<1>1. mySlicesPerLoaf' \in 1..MaxLoafSlices /\ held \subseteq Slices \cup Blocks
  BY DEF IInv, ListInv
<1>2. Harmless(reports') /\ status' # "crashed"
  <2>1. reports' \subseteq {<<"unfreed", myInUseCount>>} /\ status' # "crashed"
    OBVIOUS
  <2>2. <<"unfreed", myInUseCount>>[1] = "unfreed"
    OBVIOUS
  <2> QED BY <2>1, <2>2 DEF Harmless
<1>3. body' = body /\ allocated' = allocated /\ held' = held
  OBVIOUS
<1> QED
  BY <1>1, <1>2, <1>3, QuietGood

LEMMA StutterGood ==
  ASSUME IInv, UNCHANGED vars PROVE IInv' /\ GoodStep
<1> USE DEF vars, fast
<1>1. mySlicesPerLoaf' \in 1..MaxLoafSlices /\ held \subseteq Slices \cup Blocks
  BY DEF IInv, ListInv
<1>2. mistakes = 0 /\ ~Forwarded => Harmless(reports') /\ status' # "crashed"
  BY DEF IInv, CleanInv, NoFalseAlarm, Harmless
<1> QED
  BY <1>1, <1>2, QuietGood

-----------------------------------------------------------------------------

\* HandOut marks the slice s of S and reports it if it was overwritten.
HandedOut(s, words, bodies, S) ==
  /\ DOMAIN word' = S /\ body' \in [S -> [Body -> Marks]]
  /\ \A t \in S \ {s} : word'[t] = words[t] /\ body'[t] = bodies[t]
  /\ myDebugLevel > 0 =>
       /\ word'[s] = FirstMark /\ body'[s] = AllocBody
       /\ CheckReports \subseteq reports'
       /\ bodies[s] # FreeBody => <<"overwritten", s>> \in reports'
       /\ bodies[s] = FreeBody => reports' = CheckReports
  /\ ~(myDebugLevel > 0) => word' = words /\ body' = bodies /\ reports' = {}
  /\ allocated' = TRUE /\ held' = held \cup {s}
  /\ UNCHANGED <<myDebugLevel, myHeadOfUsedList, mistakes, status>>

LEMMA HandOutFacts ==
  ASSUME NEW s, NEW words, NEW bodies, HandOut(s, words, bodies), BodyInv,
         NEW S, DOMAIN words = S, bodies \in [S -> [Body -> Marks]], s \in S
  PROVE  HandedOut(s, words, bodies, S)
<1> USE DEF HandedOut
<1>1. AllocBody \in [Body -> Marks]
  BY MarkFacts
<1>2. CASE myDebugLevel > 0
  <2>1. word' = [words EXCEPT ![s] = FirstMark] /\ body' = [bodies EXCEPT ![s] = AllocBody]
    BY <1>2 DEF HandOut
  <2>2. reports' = CheckReports \cup
                     (IF Overwritten(bodies[s]) THEN {<<"overwritten", s>>} ELSE {})
    BY <1>2 DEF HandOut
  <2>3. DOMAIN word' = S /\ word'[s] = FirstMark /\ \A t \in S \ {s} : word'[t] = words[t]
    BY <2>1
  <2>4. /\ body' \in [S -> [Body -> Marks]] /\ body'[s] = AllocBody
        /\ \A t \in S \ {s} : body'[t] = bodies[t]
    BY <1>1, <2>1
  <2> QED BY <1>2, <2>2, <2>3, <2>4 DEF HandOut, Overwritten
<1>3. CASE ~(myDebugLevel > 0)
  BY <1>3 DEF HandOut
<1> QED
  BY <1>2, <1>3

LEMMA ReuseGood ==
  ASSUME IInv, UNCHANGED VisibleWords, AllocFromFreeList PROVE IInv' /\ GoodStep
<1>0. PICK h : h = myHeadOfFreeList
  OBVIOUS
<1>2. h \in Slices \ Taken /\ h \in Slices /\ h \notin held /\ h \notin UsedList
  BY <1>0, ListFacts DEF AllocFromFreeList, IInv, Taken
<1>1. /\ ~Forwarded /\ h # nullptr /\ myHeadOfFreeList' = word[h]
      /\ UNCHANGED <<mySlicesPerLoaf, myLoaves>> /\ HandOut(h, word, CheckedBody)
      /\ status = "alive"
  BY <1>0, <1>2 DEF AllocFromFreeList
<1>3. /\ DOMAIN word = Slices /\ CheckedBody \in [Slices -> [Body -> Marks]] /\ BodyInv
  BY CheckFacts DEF IInv, ListInv
<1>4. HandedOut(h, word, CheckedBody, Slices)
  BY <1>1, <1>2, <1>3, HandOutFacts
<1> USE <1>4 DEF HandedOut
<1>5. ListInv' /\ Slices' = Slices /\ UsedList' = UsedList
  <2>1. /\ DOMAIN word' = DOMAIN word /\ held' = held \cup {h}
        /\ \A s \in Slices \ {h} : word'[s] = word[s] /\ myHeadOfUsedList' = myHeadOfUsedList
    BY <1>3
  <2> HIDE <1>4
  <2> QED BY <1>0, <1>1, <1>4, <2>1, PopStep DEF IInv
<1>6. /\ Body' = Body /\ FreeBody' = FreeBody /\ AllocBody' = AllocBody
      /\ (Forwarded' <=> Forwarded)
  BY ShapeStays
<1>7. myDebugLevel \in Levels /\ (~(myDebugLevel > 0) <=> myDebugLevel = 0)
  BY DEF IInv, BodyInv, Levels
<1>8. BodyInv'
  <2>1. myDebugLevel = 0 => body' = body
    BY <1>7, CheckFacts DEF IInv
  <2> QED BY <1>5, <1>6, <2>1 DEF IInv, BodyInv
<1>9. CheckedBody[h] = body[h]
  BY <1>2, CheckFacts DEF IInv
<1>10. CleanInv'
  <2>1. ASSUME mistakes = 0, myDebugLevel > 0
        PROVE  (\A s \in Slices : Marked(s)') /\ reports' = {}
    <3>1. CheckedBody = body /\ CheckReports = {} /\ \A s \in Slices : Marked(s)
      BY <2>1, NothingToReport DEF IInv, CleanInv
    <3>2. body[h] = FreeBody
      BY <1>2, <3>1 DEF Marked
    <3>3. \A s \in Slices \ {h} : Marked(s)'
      BY <1>6, <3>1 DEF Marked
    <3>4. Marked(h)'
      BY <1>6, <2>1 DEF Marked
    <3>5. reports' = {}
      BY <2>1, <3>1, <3>2
    <3> QED BY <3>3, <3>4, <3>5
  <2>2. NoFalseAlarm'
    BY <1>1, <2>1 DEF NoFalseAlarm
  <2>3. held' \subseteq Slices
    BY <1>1, <1>2 DEF IInv, CleanInv
  <2> QED BY <1>5, <2>1, <2>2, <2>3 DEF CleanInv
<1>11. PoolStep
  <2>1. Taken' \cap Slices = (Taken \cap Slices) \cup {h}
    BY <1>2, <1>5 DEF Taken
  <2>2. h \in Slices \ (Taken \cap Slices)
    BY <1>2
  <2> HIDE DEF Taken
  <2> QED BY <1>5, <2>1, <2>2 DEF PoolStep, Pool!Next, Pool!Reuse, Pool!Hand
<1>12. DamageStep
  <2> SUFFICES ASSUME NEW s \in Slices \ held, body[s] # FreeBody,
                      s \in held' \/ body'[s] = FreeBody
               PROVE  <<"overwritten", s>> \in reports'
    BY DEF DamageStep, Overwritten
  <2>1. myDebugLevel > 0
    BY <1>7 DEF IInv, BodyInv
  <2>2. CASE s = h
    BY <1>9, <2>1, <2>2
  <2>3. CASE s # h
    <3>1. body'[s] = FreeBody /\ body'[s] = CheckedBody[s]
      BY <2>3
    <3> QED BY <2>1, <3>1, CheckFacts DEF IInv
  <2> QED BY <2>2, <2>3
<1>13. RetiredStep
  BY <1>5 DEF RetiredStep, ListInv
<1> QED
  BY <1>5, <1>8, <1>10, <1>11, <1>12, <1>13 DEF IInv, GoodStep

LEMMA LoafGood ==
  ASSUME IInv, UNCHANGED VisibleWords, AllocFromNewLoaf PROVE IInv' /\ GoodStep
<1>0. PICK n, k, all, words, bodies, links, first :
        /\ n = Len(myLoaves) + 1 /\ k = Mgr!NextSlicesPerLoaf
        /\ first = <<n, 1>> /\ links = Mgr!LoafLinks(n, k)
        /\ all = Mgr!SlicesOf(Append(myLoaves, k))
        /\ words = [s \in all |-> IF s \in Slices THEN word[s] ELSE links[s]]
        /\ bodies = [s \in all |-> IF s \in Slices THEN CheckedBody[s] ELSE FreeBody]
  OBVIOUS
<1>1. /\ status = "alive" /\ ~Forwarded /\ myHeadOfFreeList = nullptr
      /\ mySlicesPerLoaf' = k /\ myLoaves' = Append(myLoaves, k)
      /\ myHeadOfFreeList' = links[first]
      /\ HandOut(first, words, bodies)
  BY <1>0 DEF AllocFromNewLoaf
<1> DEFINE new == {<<n, i>> : i \in 1..k}
<1>2. k \in 1..MaxLoafSlices /\ k \in Nat /\ 1 \in 1..k /\ n \in Nat
  BY <1>0, NextSlicesInRange, LoavesAssumption DEF IInv, ListInv
<1>3. all = Slices \cup new /\ Slices \cap new = {} /\ Slices' = all
  BY <1>0, <1>1, <1>2, SlicesOfAppend DEF Slices, Mgr!Slices, IInv, ListInv
<1>4. first \in new /\ \A i \in 1..k : <<n, i>> \in new
  BY <1>0, <1>2
<1>5. \A i \in 1..k : links[<<n, i>>] = IF i < k THEN <<n, i + 1>> ELSE nullptr
  BY <1>0, <1>2 DEF Mgr!LoafLinks
<1> HIDE DEF new
<1>6. /\ CheckedBody \in [Slices -> [Body -> Marks]] /\ FreeBody \in [Body -> Marks]
      /\ BodyInv
  BY CheckFacts, MarkFacts DEF IInv
<1>7. /\ DOMAIN words = all /\ bodies \in [all -> [Body -> Marks]] /\ first \in all
      /\ \A s \in Slices : words[s] = word[s] /\ bodies[s] = CheckedBody[s]
      /\ \A s \in new : words[s] = links[s] /\ bodies[s] = FreeBody
  BY <1>0, <1>3, <1>4, <1>6
<1>8. HandedOut(first, words, bodies, all)
  BY <1>1, <1>6, <1>7, HandOutFacts
<1> USE DEF HandedOut
<1>9. /\ DOMAIN word' = Slices' /\ \A s \in Slices : word'[s] = word[s]
      /\ \A i \in 2..k : word'[<<n, i>>] = IF i < k THEN <<n, i + 1>> ELSE nullptr
      /\ myHeadOfFreeList' = IF 1 < k THEN <<n, 2>> ELSE nullptr
      /\ held' = held \cup {<<n, 1>>} /\ myHeadOfUsedList' = myHeadOfUsedList
  <2>1. \A s \in Slices : s # first
    BY <1>3, <1>4
  <2>2. ASSUME NEW i \in 2..k
        PROVE  word'[<<n, i>>] = IF i < k THEN <<n, i + 1>> ELSE nullptr
    <3>1. i \in 1..k /\ <<n, i>> # first
      BY <1>0, <1>2
    <3>2. <<n, i>> \in new /\ <<n, i>> \in all \ {first}
      BY <1>3, <1>4, <3>1
    <3>3. word'[<<n, i>>] = words[<<n, i>>]
      BY <1>8, <3>2
    <3> QED BY <1>5, <1>7, <3>1, <3>2, <3>3
  <2>3. \A s \in Slices : word'[s] = word[s]
    BY <1>3, <1>7, <1>8, <2>1
  <2>4. links[first] = IF 1 < k THEN <<n, 2>> ELSE nullptr
    BY <1>0, <1>2, <1>5
  <2> QED BY <1>0, <1>1, <1>3, <1>8, <2>2, <2>3, <2>4
<1>10. /\ ListInv' /\ UsedList' = UsedList
       /\ Slices = Taken \cap Slices /\ first \in Slices' \ Slices
  BY <1>0, <1>1, <1>2, <1>9, LoafStep DEF IInv
<1>11. /\ Body' = Body /\ FreeBody' = FreeBody /\ AllocBody' = AllocBody
       /\ (Forwarded' <=> Forwarded)
  BY ShapeStays
<1>12. myDebugLevel \in Levels /\ (~(myDebugLevel > 0) <=> myDebugLevel = 0)
  BY DEF IInv, BodyInv, Levels
<1>13. BodyInv'
  <2>1. myDebugLevel = 0 => \A s \in all : body'[s] = FreeBody
    <3> SUFFICES ASSUME myDebugLevel = 0, NEW s \in all PROVE bodies[s] = FreeBody
      BY <1>8, <1>12
    <3>1. \A t \in Slices : CheckedBody[t] = FreeBody
      BY CheckFacts DEF IInv, BodyInv
    <3> QED BY <1>3, <1>7, <3>1
  <2> QED BY <1>3, <1>8, <1>11, <2>1 DEF IInv, BodyInv
<1>14. CleanInv'
  <2>1. ASSUME mistakes = 0, myDebugLevel > 0
        PROVE  (\A s \in all : Marked(s)') /\ reports' = {}
    <3>1. CheckedBody = body /\ CheckReports = {} /\ \A s \in Slices : Marked(s)
      BY <2>1, NothingToReport DEF IInv, CleanInv
    <3>2. Marked(first)' /\ reports' = {}
      BY <1>4, <1>7, <1>8, <1>11, <2>1, <3>1 DEF Marked
    <3>3. ASSUME NEW s \in Slices PROVE Marked(s)'
      <4>1. s \in all \ {first}
        BY <1>3, <1>4
      <4>2. word'[s] = word[s] /\ body'[s] = body[s] /\ (s \in held' <=> s \in held)
        BY <1>7, <1>8, <3>1, <4>1
      <4> QED BY <1>11, <3>1, <4>2 DEF Marked
    <3>4. ASSUME NEW s \in new, s # first PROVE Marked(s)'
      <4>1. s \in all \ {first} /\ s \notin Slices
        BY <1>3, <3>4
      <4>2. s \notin held
        BY <1>1, <4>1 DEF IInv, CleanInv
      <4>3. body'[s] = FreeBody /\ s \notin held'
        BY <1>7, <1>8, <3>4, <4>1, <4>2
      <4> QED BY <1>11, <4>3 DEF Marked
    <3> QED BY <1>3, <3>2, <3>3, <3>4
  <2>2. NoFalseAlarm'
    BY <1>1, <1>8, <2>1 DEF NoFalseAlarm
  <2>3. held' \subseteq Slices'
    BY <1>1, <1>3, <1>4, <1>8 DEF IInv, CleanInv
  <2> QED BY <1>3, <1>8, <2>1, <2>2, <2>3 DEF CleanInv
<1>15. PoolStep
  <2>1. Taken' \cap Slices' = (Taken \cap Slices) \cup {first}
    <3>1. UsedList \subseteq Slices /\ held \subseteq Slices
      BY <1>1, ListFacts DEF IInv, CleanInv
    <3>2. held' = held \cup {first}
      BY <1>8
    <3> QED BY <1>3, <1>10, <3>1, <3>2 DEF Taken
  <2>2. Slices \subseteq Slices'
    BY <1>3
  <2> HIDE DEF Taken
  <2> QED BY <1>10, <2>1, <2>2 DEF PoolStep, Pool!Next, Pool!Grow, Pool!Hand
<1>16. DamageStep
  <2> SUFFICES ASSUME NEW s \in Slices \ held, body[s] # FreeBody,
                      s \in held' \/ body'[s] = FreeBody
               PROVE  <<"overwritten", s>> \in reports'
    BY DEF DamageStep, Overwritten
  <2>1. myDebugLevel > 0
    BY <1>12 DEF IInv, BodyInv
  <2>2. s # first /\ s \in all
    BY <1>3, <1>4
  <2>3. body'[s] = FreeBody /\ body'[s] = CheckedBody[s]
    BY <1>7, <1>8, <2>2
  <2> QED BY <1>8, <2>1, <2>3, CheckFacts DEF IInv
<1>17. RetiredStep
  <2>1. held \subseteq held'
    BY <1>8
  <2> QED BY <1>10, <2>1 DEF RetiredStep, ListInv
<1> QED
  BY <1>10, <1>13, <1>14, <1>15, <1>16, <1>17 DEF IInv, GoodStep

-----------------------------------------------------------------------------
\* With margins a slice that is not held never bears the mark of one that is,
\* so that to free it is always refused, however it was overwritten.
LEMMA FreeSliceRefused ==
  ASSUME myMarginWords # 0, ListInv, myDebugLevel > 0, NEW s \in Slices \ held, FreeSlice(s)
  PROVE  FreeRefused(s)
<1>1. WrittenOutOfRange(s)
  BY ListFacts DEF WrittenOutOfRange
<1> QED
  BY <1>1 DEF FreeSlice

\* Clients that make no mistake have their slices taken back.
LEMMA HeldIsFine ==
  ASSUME IInv, mistakes = 0, myDebugLevel > 0, NEW s \in held \cap Slices
  PROVE  ~AlreadyFreed(s) /\ ~WrittenOutOfRange(s)
<1>1. word[s] = FirstMark /\ body[s] = AllocBody
  BY DEF IInv, CleanInv, Marked
<1>2. CheckedBody[s] = AllocBody
  BY <1>1, CheckFacts DEF IInv
<1>3. /\ \A i \in FirstMargin : CheckedBody[s][i] = BEFORE
      /\ \A i \in LastMargin : CheckedBody[s][i] = AFTER
      /\ myMarginWords # 0 => LastMargin # {} /\ word[s] = BEFORE
  BY <1>1, <1>2, MarkFacts DEF IInv, FirstMark
<1>4. AFTER # FREE
  BY DebugAssumption
<1> QED
  <2>1. ~AlreadyFreed(s)
    BY <1>3, <1>4 DEF AlreadyFreed
  <2>2. ~(myMarginWords # 0 /\ word[s] # BEFORE)
    BY <1>3
  <2>3. ~WrittenOutOfRange(s)
    BY <1>3, <2>2 DEF WrittenOutOfRange
  <2> QED BY <2>1, <2>3

\* Steps that come after a mistake, or are one: the lists stay as they are.
LEMMA MistakeGood ==
  ASSUME IInv, UNCHANGED VisibleWords,
         UNCHANGED <<myHeadOfFreeList, mySlicesPerLoaf, myLoaves, myHeadOfUsedList,
                     myDebugLevel, allocated, held>>,
         myDebugLevel > 0, mistakes' \in Nat \ {0},
         DOMAIN word' = DOMAIN word, \A s \in Slices \ held : word'[s] = word[s],
         body' \in [Slices -> [Body -> Marks]], DamageStep
  PROVE  IInv' /\ GoodStep
<1>1. ListInv' /\ Slices' = Slices /\ UsedList' = UsedList
  BY QuietStep DEF IInv, ListInv
<1>2. /\ Body' = Body /\ FreeBody' = FreeBody /\ AllocBody' = AllocBody
      /\ (Forwarded' <=> Forwarded)
  BY ShapeStays
<1>3. BodyInv'
  BY <1>1, <1>2 DEF IInv, BodyInv
<1>4. CleanInv'
  BY <1>1, <1>2 DEF IInv, CleanInv, NoFalseAlarm
<1>5. PoolStep /\ RetiredStep
  BY <1>1 DEF PoolStep, Taken, RetiredStep, ListInv
<1> QED
  BY <1>1, <1>3, <1>4, <1>5 DEF IInv, GoodStep

\* A refused free changes no link and reports what it repairs.
LEMMA RefusedGood ==
  ASSUME IInv, UNCHANGED VisibleWords,
         UNCHANGED <<mySlicesPerLoaf, myLoaves, myDebugLevel, allocated>>,
         myDebugLevel > 0, mistakes' \in Nat \ {0},
         NEW s \in Slices, FreeRefused(s)
  PROVE  IInv' /\ GoodStep
<1>1. /\ CheckReports \subseteq reports'
      /\ body' = CheckedBody \/ body' = [CheckedBody EXCEPT ![s] = FreeBody]
      /\ CheckedBody[s] # FreeBody =>
           body' = CheckedBody \/ <<"overwritten", s>> \in reports'
  BY DEF FreeRefused, Overwritten
<1>2. CheckedBody \in [Slices -> [Body -> Marks]] /\ FreeBody \in [Body -> Marks]
  BY CheckFacts, MarkFacts DEF IInv
<1>3. /\ body' \in [Slices -> [Body -> Marks]]
      /\ \A t \in Slices : body'[t] = CheckedBody[t] \/ (t = s /\ body'[t] = FreeBody)
  BY <1>1, <1>2
<1>4. DamageStep
  <2> SUFFICES ASSUME NEW t \in Slices \ held, body[t] # FreeBody, body'[t] = FreeBody
               PROVE  <<"overwritten", t>> \in reports'
    BY DEF DamageStep, Overwritten, FreeRefused
  <2>1. CASE CheckedBody[t] = FreeBody
    BY <1>1, <2>1, CheckFacts DEF IInv
  <2>2. CASE CheckedBody[t] # FreeBody
    <3>1. t = s /\ body' # CheckedBody
      BY <1>3, <2>2
    <3> QED BY <1>1, <2>2, <3>1
  <2> QED BY <2>1, <2>2
<1>5. UNCHANGED <<myHeadOfFreeList, myHeadOfUsedList, word, held>>
  BY DEF FreeRefused
<1> QED
  BY <1>3, <1>4, <1>5, MistakeGood

\* An accepted free marks the slice and puts it on one of the lists.
LEMMA AcceptedGood ==
  ASSUME IInv, UNCHANGED VisibleWords, status = "alive",
         UNCHANGED <<mySlicesPerLoaf, myLoaves, myDebugLevel, allocated, mistakes>>,
         NEW s \in held \cap Slices, FreeAccepted(s)
  PROVE  IInv' /\ GoodStep
<1>1. /\ body' = FreeMark(s) /\ held' = held \ {s} /\ reports' = CheckReports
      /\ status' = "alive"
      /\ myDebugLevel > 1 => Retire(s)
      /\ ~(myDebugLevel > 1) => GiveBack(s)
  BY DEF FreeAccepted
<1>2. /\ ListInv' /\ Slices' = Slices
      /\ myDebugLevel > 1 => UsedList' = UsedList \cup {s} /\ Taken' = Taken
      /\ ~(myDebugLevel > 1) => Taken' \cap Slices = (Taken \cap Slices) \ {s}
  BY <1>1, RetireStep, GiveBackStep DEF IInv
<1>3. \A t \in Slices \ {s} : word'[t] = word[t]
  BY <1>1 DEF Retire, GiveBack, IInv, ListInv
<1>4. /\ Body' = Body /\ FreeBody' = FreeBody /\ AllocBody' = AllocBody
      /\ (Forwarded' <=> Forwarded)
  BY ShapeStays
<1>5. myDebugLevel \in Levels /\ (~(myDebugLevel > 0) <=> myDebugLevel = 0)
  BY DEF IInv, BodyInv, Levels
<1>6. CheckedBody \in [Slices -> [Body -> Marks]] /\ FreeBody \in [Body -> Marks]
  BY CheckFacts, MarkFacts DEF IInv
<1>7. /\ body' \in [Slices -> [Body -> Marks]]
      /\ \A t \in Slices \ {s} : body'[t] = CheckedBody[t]
      /\ myDebugLevel > 0 => body'[s] = FreeBody
      /\ myDebugLevel = 0 => body' = body
  BY <1>1, <1>5, <1>6, CheckFacts DEF FreeMark, IInv
<1>8. BodyInv'
  BY <1>2, <1>4, <1>7 DEF IInv, BodyInv
<1>9. CleanInv'
  <2>1. ASSUME mistakes = 0, myDebugLevel > 0, NEW t \in Slices PROVE Marked(t)'
    <3>1. CASE t = s
      BY <1>1, <1>4, <1>7, <2>1, <3>1 DEF Marked
    <3>2. CASE t # s
      <4>1. body'[t] = body[t] /\ word'[t] = word[t] /\ (t \in held' <=> t \in held)
        BY <1>1, <1>3, <1>7, <2>1, <3>2, NothingToReport
      <4>2. Marked(t)
        BY <2>1 DEF IInv, CleanInv
      <4> QED BY <1>4, <4>1, <4>2 DEF Marked
    <3> QED BY <3>1, <3>2
  <2>2. NoFalseAlarm'
    BY <1>1, NothingToReport DEF NoFalseAlarm
  <2>3. ~Forwarded => held' \subseteq Slices
    BY <1>1 DEF IInv, CleanInv
  <2> QED BY <1>2, <1>4, <2>1, <2>2, <2>3 DEF CleanInv
<1>10. PoolStep
  <2>1. s \in Taken \cap Slices
    BY DEF Taken
  <2> HIDE DEF Taken
  <2> QED BY <1>2, <2>1 DEF PoolStep, Pool!Next, Pool!Release
<1>11. DamageStep
  <2> SUFFICES ASSUME NEW t \in Slices \ held, body[t] # FreeBody, body'[t] = FreeBody
               PROVE  <<"overwritten", t>> \in reports'
    BY <1>1 DEF DamageStep, Overwritten
  <2>1. CheckedBody[t] = FreeBody
    BY <1>7
  <2> QED BY <1>1, <2>1, CheckFacts DEF IInv
<1>12. RetiredStep
  BY <1>1, <1>2 DEF RetiredStep, ListInv
<1> QED
  BY <1>2, <1>8, <1>9, <1>10, <1>11, <1>12 DEF IInv, GoodStep

LEMMA FreeHeldGood ==
  ASSUME IInv, UNCHANGED VisibleWords, FreeHeld PROVE IInv' /\ GoodStep
<1>1. PICK p \in held : \/ p \in Slices /\ FreeSlice(p)
                        \/ p \notin Slices /\ myDebugLevel > 0 /\ FreeForeign(p)
                        \/ p \notin Slices /\ myDebugLevel = 0 /\ FreeForwarded(p)
  BY DEF FreeHeld
<1>2. UNCHANGED <<myDebugLevel, mySlicesPerLoaf, myLoaves, allocated, mistakes>>
      /\ status = "alive"
  BY DEF FreeHeld
<1>3. CASE p \in Slices /\ FreeSlice(p)
  <2>1. CASE FreeAccepted(p)
    BY <1>2, <1>3, <2>1, AcceptedGood
  <2>2. CASE myDebugLevel > 0 /\ (AlreadyFreed(p) \/ WrittenOutOfRange(p))
    <3>1. FreeRefused(p)
      BY <1>3, <2>2 DEF FreeSlice
    <3>2. mistakes' \in Nat \ {0}
      BY <1>2, <1>3, <2>2, HeldIsFine DEF IInv, BodyInv
    <3> QED BY <1>2, <1>3, <2>2, <3>1, <3>2, RefusedGood
  <2> QED BY <1>3, <2>1, <2>2 DEF FreeSlice
<1>4. CASE p \notin Slices
  <2>1. Forwarded
    BY <1>4 DEF IInv, CleanInv
  <2>2. mySlicesPerLoaf' \in 1..MaxLoafSlices /\ held \subseteq Slices \cup Blocks
    BY <1>2 DEF IInv, ListInv
  <2>3. /\ UNCHANGED <<myHeadOfFreeList, myLoaves, myHeadOfUsedList, word, myDebugLevel, mistakes>>
        /\ allocated' = allocated
        /\ held' = held \/ held' = held \ {p}
        /\ body' = body \/ (body' = CheckedBody /\ CheckReports \subseteq reports')
    BY <1>1, <1>2, <1>4 DEF FreeForeign, FreeForwarded
  <2>4. held' \subseteq Slices \cup Blocks /\ held' \cap Slices = held \cap Slices
    BY <1>4, <2>2, <2>3
  <2> QED BY <2>1, <2>2, <2>3, <2>4, QuietGood
<1> QED
  BY <1>1, <1>3, <1>4

-----------------------------------------------------------------------------
LEMMA ErrsFacts ==
  ASSUME IInv, NEW kind, Errs(kind) PROVE mistakes' \in Nat \ {0} /\ myDebugLevel > 0
<1>1. mistakes \in Nat
  BY DEF IInv, BodyInv
<1>2. mistakes' = mistakes + 1 /\ myDebugLevel > 0
  BY DEF Errs
<1> QED
  BY <1>1, <1>2

\* Writing into a margin of a slice that is held.
LEMMA OverrunGood ==
  ASSUME IInv, UNCHANGED VisibleWords, Overrun PROVE IInv' /\ GoodStep
<1> USE DEF Overrun, fast
<1>1. PICK s \in held \cap Slices :
        \/ /\ word' = [word EXCEPT ![s] = JUNK]
           /\ UNCHANGED body
        \/ /\ \E i \in FirstMargin \cup LastMargin : body' = [body EXCEPT ![s][i] = JUNK]
           /\ UNCHANGED word
  OBVIOUS
<1>2. body \in [Slices -> [Body -> Marks]] /\ JUNK \in Marks
  BY DEF IInv, BodyInv, Marks
<1>3. /\ body' \in [Slices -> [Body -> Marks]]
      /\ \A t \in Slices \ {s} : body'[t] = body[t]
  BY <1>1, <1>2
<1>4. DOMAIN word' = DOMAIN word /\ \A t \in Slices \ held : word'[t] = word[t]
  BY <1>1 DEF IInv, ListInv
<1>5. DamageStep
  BY <1>1, <1>3 DEF DamageStep, Overwritten
<1>6. mistakes' \in Nat \ {0} /\ myDebugLevel > 0
  BY ErrsFacts
<1>7. UNCHANGED <<myHeadOfFreeList, mySlicesPerLoaf, myLoaves, myHeadOfUsedList,
                  myDebugLevel, allocated, held>>
  OBVIOUS
<1> QED
  BY <1>3, <1>4, <1>5, <1>6, <1>7, MistakeGood

\* Writing into a slice that is not held.
LEMMA WriteGood ==
  ASSUME IInv, UNCHANGED VisibleWords, WriteAfterFree PROVE IInv' /\ GoodStep
<1> USE DEF WriteAfterFree, fast
<1>1. PICK s \in Slices \ held, i \in Body : body' = [body EXCEPT ![s][i] = JUNK]
  OBVIOUS
<1>2. body \in [Slices -> [Body -> Marks]] /\ JUNK \in Marks /\ JUNK # FREE
  BY DebugAssumption DEF IInv, BodyInv, Marks
<1>3. /\ body' \in [Slices -> [Body -> Marks]]
      /\ \A t \in Slices \ {s} : body'[t] = body[t]
      /\ body'[s][i] = JUNK
  BY <1>1, <1>2
<1>4. body'[s] # FreeBody
  BY <1>2, <1>3, MarkFacts DEF IInv
<1>5. DamageStep
  BY <1>3, <1>4 DEF DamageStep, Overwritten
<1>6. mistakes' \in Nat \ {0} /\ myDebugLevel > 0
  BY ErrsFacts
<1>7. UNCHANGED <<myHeadOfFreeList, mySlicesPerLoaf, myLoaves, myHeadOfUsedList, word,
                  myDebugLevel, allocated, held>>
  OBVIOUS
<1> QED
  BY <1>3, <1>5, <1>6, <1>7, MistakeGood

LEMMA DoubleFreeIsRefused ==
  ASSUME DoubleFreesAreSeen, IInv, DoubleFree PROVE \E s \in Slices \ held : FreeRefused(s)
<1>1. PICK s \in Slices \ held : FreeSlice(s)
  BY DEF DoubleFree
<1>2. myDebugLevel > 0 /\ myMarginWords # 0
  BY DEF DoubleFree, Errs, DoubleFreesAreSeen
<1> QED
  BY <1>1, <1>2, FreeSliceRefused DEF IInv

LEMMA DoubleFreeGood ==
  ASSUME DoubleFreesAreSeen, IInv, UNCHANGED VisibleWords, DoubleFree
  PROVE  IInv' /\ GoodStep
<1>1. PICK s \in Slices \ held : FreeRefused(s)
  BY DoubleFreeIsRefused
<1>2. mistakes' \in Nat \ {0} /\ myDebugLevel > 0
  BY ErrsFacts DEF DoubleFree
<1>3. UNCHANGED <<mySlicesPerLoaf, myLoaves, myDebugLevel, allocated>>
  BY DEF DoubleFree
<1> QED
  BY <1>1, <1>2, <1>3, RefusedGood

LEMMA ForeignGood ==
  ASSUME IInv, UNCHANGED VisibleWords, ForeignFree PROVE IInv' /\ GoodStep
<1>1. PICK p \in Blocks \ held : FreeForeign(p)
  BY DEF ForeignFree
<1>2. mistakes' \in Nat \ {0} /\ myDebugLevel > 0
  BY ErrsFacts DEF ForeignFree
<1>3. UNCHANGED <<myHeadOfFreeList, mySlicesPerLoaf, myLoaves, myHeadOfUsedList, word,
                  myDebugLevel, allocated, held>>
      /\ (body' = body \/ (body' = CheckedBody /\ CheckReports \subseteq reports'))
  BY <1>1 DEF ForeignFree, FreeForeign
<1>4. body' \in [Slices -> [Body -> Marks]]
  BY <1>3, CheckFacts DEF IInv, BodyInv
<1>5. DamageStep
  BY <1>3, CheckFacts DEF DamageStep, IInv, Overwritten
<1> QED
  BY <1>2, <1>3, <1>4, <1>5, MistakeGood

-----------------------------------------------------------------------------
LEMMA NextStep ==
  ASSUME DoubleFreesAreSeen, IInv, [Next]_vars PROVE IInv' /\ GoodStep
<1>1. CASE UNCHANGED vars
  BY <1>1, StutterGood
<1>2. CASE Next
  <2>1. UNCHANGED VisibleWords
    BY <1>2 DEF Next
  <2>2. ASSUME NEW lev \in Levels, SetDebugLevel(lev) PROVE IInv' /\ GoodStep
    BY <2>1, <2>2, LevelGood
  <2>3. CASE AllocFromFreeList
    BY <2>1, <2>3, ReuseGood
  <2>4. CASE AllocFromNewLoaf
    BY <2>1, <2>4, LoafGood
  <2>5. CASE AllocThrows
    BY <2>1, <2>5, ThrowsGood
  <2>6. CASE AllocForwarded
    BY <2>1, <2>6, ForwardedGood
  <2>7. CASE AllocFromSystem
    BY <2>1, <2>7, SystemGood
  <2>8. CASE FreeHeld
    BY <2>1, <2>8, FreeHeldGood
  <2>9. CASE FreeOther
    BY <2>1, <2>9, OtherGood
  <2>10. CASE Destroy
    BY <2>1, <2>10, DestroyGood
  <2>11. CASE Overrun
    BY <2>1, <2>11, OverrunGood
  <2>12. CASE WriteAfterFree
    BY <2>1, <2>12, WriteGood
  <2>13. CASE DoubleFree
    BY <2>1, <2>13, DoubleFreeGood
  <2>14. CASE ForeignFree
    BY <2>1, <2>14, ForeignGood
  <2> QED
    BY <1>2, <2>2, <2>3, <2>4, <2>5, <2>6, <2>7, <2>8, <2>9, <2>10, <2>11, <2>12,
       <2>13, <2>14 DEF Next, Alloc, Free
<1> QED
  BY <1>1, <1>2

(* The inductive invariant holds in every reachable state.                 *)
THEOREM Invariance ==
  ASSUME DoubleFreesAreSeen PROVE Spec => []IInv
<1>1. IInv /\ [Next]_vars => IInv'
  BY NextStep
<1> QED
  BY InitIInv, <1>1, PTL DEF Spec

(* If slices have margins, or are not freed twice: whatever clients do at  *)
(* debug level 1 or 2 to the margins, to freed slices but for their links, *)
(* and to the arguments of free, the pool's own list stays sound: no slice *)
(* that is held or retired lies on it, and none is lost from it.           *)
THEOREM MisuseNeverBreaksTheList ==
  ASSUME DoubleFreesAreSeen PROVE Spec => []FreeListSurvives
<1>1. ASSUME IInv PROVE FreeListSurvives
  <2>1. Mgr!Slices = Slices /\ Mgr!Free = Slices \ Taken
    BY DEF Slices, Mgr!Free, Mgr!InUse
  <2>2. nullptr \notin Slices \ Taken
    BY <1>1, SlicesNow DEF IInv, ListInv
  <2>3. List(myHeadOfFreeList, word, Slices \ Taken)
    BY <1>1 DEF IInv, ListInv
  <2> HIDE DEF Taken
  <2>4. Mgr!FreeListIsFree
    BY <2>1, <2>3, ListStays DEF Mgr!FreeListIsFree
  <2>5. Mgr!NoSliceLost
    <3> SUFFICES ASSUME NEW S \in SUBSET (Slices \ Taken),
                        myHeadOfFreeList \in S \cup {nullptr},
                        \A s \in S : word[s] \in S \cup {nullptr}
                 PROVE  S = Slices \ Taken
      BY <2>1 DEF Mgr!NoSliceLost
    <3> QED BY <2>2, <2>3, ListIsClosed
  <2> QED BY <2>4, <2>5 DEF FreeListSurvives
<1> QED
  BY Invariance, <1>1, PTL

(* Clients that make no mistake get no complaint at any debug level: what  *)
(* alloc and free mark, with margins or without, is what the next check    *)
(* expects.                                                                *)
THEOREM LegalUseIsNeverReported ==
  ASSUME DoubleFreesAreSeen PROVE Spec => []NoFalseAlarm
<1>1. IInv => NoFalseAlarm
  BY DEF IInv, CleanInv
<1> QED
  BY Invariance, <1>1, PTL

(* Retired slices taken as in use, the pool behaves as SlicePool promises, *)
(* whatever the misuse, double frees of slices without margins excepted.   *)
THEOREM Refinement ==
  ASSUME DoubleFreesAreSeen PROVE Spec => ImplementsSlicePool
<1>1. Init => Pool!Init
  BY DEF Init, Pool!Init, Slices, Mgr!Slices, Mgr!SlicesOf
<1>2. IInv /\ [Next]_vars => [Pool!Next]_<<Slices, Taken \cap Slices>>
  BY NextStep DEF GoodStep, PoolStep
<1> QED
  BY <1>1, <1>2, Invariance, PTL DEF Spec, Pool!Spec, ImplementsSlicePool

(* No write to a free slice, but for its link, goes unnoticed: before the  *)
(* slice is handed out again or repaired, the overwriting is reported,     *)
(* provided that slices have margins or are not freed twice.               *)
THEOREM DamageIsAlwaysReported ==
  ASSUME DoubleFreesAreSeen PROVE Spec => DamageIsReported
<1>1. IInv /\ [Next]_vars =>
        [ \A s \in Slices \ held :
            /\ Overwritten(body[s])
            /\ s \in held' \/ ~Overwritten(body'[s])
            => <<"overwritten", s>> \in reports' ]_vars
  BY NextStep DEF GoodStep, DamageStep
<1> QED
  BY <1>1, Invariance, PTL DEF Spec, DamageIsReported

(* A slice that has margins and is not held is not taken back at debug     *)
(* level 1 or 2: such a free is reported and changes neither the lists nor *)
(* the count, because no link of either list can be mistaken for the mark  *)
(* of a held slice.                                                        *)
THEOREM BadFreesAreRefused ==
  ASSUME DoubleFreesAreSeen PROVE Spec => BadFreeRefused
<1>1. ASSUME IInv, DoubleFree
      PROVE  /\ reports' # {}
             /\ UNCHANGED <<myHeadOfFreeList, myHeadOfUsedList, word, myInUseCount, held>>
  <2>1. PICK s \in Slices \ held : FreeRefused(s)
    BY <1>1, DoubleFreeIsRefused
  <2>2. reports' # {}
    BY <2>1 DEF FreeRefused
  <2> QED BY <2>1, <2>2 DEF FreeRefused, CountAfterRefusal
<1>2. IInv /\ [Next]_vars =>
        [ DoubleFree => /\ reports' # {}
                        /\ UNCHANGED <<myHeadOfFreeList, myHeadOfUsedList, word,
                                       myInUseCount, held>> ]_vars
  BY <1>1
<1> QED
  BY <1>2, Invariance, PTL DEF Spec, BadFreeRefused

(* At level 2 a freed slice is retired for good, if slices have margins or *)
(* are not freed twice.                                                    *)
THEOREM RetiredForGood ==
  ASSUME DoubleFreesAreSeen PROVE Spec => NeverReallocated
<1>1. IInv /\ [Next]_vars =>
        [ myDebugLevel > 1 => /\ UsedList \cup ((held \ held') \cap Slices) \subseteq UsedList'
                              /\ held' \cap UsedList' = {} ]_vars
  BY NextStep DEF GoodStep, RetiredStep
<1> QED
  BY <1>1, Invariance, PTL DEF Spec, NeverReallocated

=============================================================================
