-------------------------- MODULE MemPoolFastProofs --------------------------
(***************************************************************************)
(* The free list of MemPoolFast is sound for every size, growth rule and   *)
(* number of loaves, whatever clients write into the slices they hold.     *)
(* The inductive invariant says that some sequence lists the free slices,  *)
(* each once, in the order of the links.                                   *)
(***************************************************************************)
EXTENDS MemPoolFast, NatFacts, TLAPS

USE DEF Addresses, Words

\* fl lists the free slices as the links thread them.
Threads(fl) ==
  /\ \A i, j \in 1..Len(fl) : fl[i] = fl[j] => i = j
  /\ \A s \in Free : \E i \in 1..Len(fl) : fl[i] = s
  /\ myHeadOfFreeList = IF Len(fl) = 0 THEN nullptr ELSE fl[1]
  /\ \A i \in 1..Len(fl) :
       word[fl[i]] = IF i < Len(fl) THEN fl[i + 1] ELSE nullptr

Threaded == \E fl \in Seq(Free) : Threads(fl)

IInv == TypeOK /\ BlocksGoHome /\ Threaded

-----------------------------------------------------------------------------
\* A sequence whose elements lie in T is a sequence over T.
LEMMA SeqOver ==
  ASSUME NEW S, NEW T, NEW f \in Seq(S), \A i \in 1..Len(f) : f[i] \in T
  PROVE  f \in Seq(T)
<1>1. f \in [1..Len(f) -> T] /\ Len(f) \in Nat
  OBVIOUS
<1> QED
  BY <1>1

LEMMA SliceIsAddress ==
  ASSUME NEW l \in Seq(1..MaxLoafSlices)
  PROVE  /\ SlicesOf(l) \subseteq Nat \X Nat
         /\ \A s \in SlicesOf(l) : s[1] \in 1..Len(l)
         /\ nullptr \notin SlicesOf(l)
         /\ SlicesOf(l) \cap SysAddrs = {}
<1>1. \A n \in 1..Len(l) : l[n] \in Nat
  BY LoafAssumption
<1>2. SlicesOf(l) \subseteq Nat \X Nat /\ \A s \in SlicesOf(l) : s[1] \in 1..Len(l)
  BY <1>1 DEF SlicesOf
<1> QED
  BY <1>2, AddressAssumption

\* A new loaf adds its own slices and leaves the others alone.
LEMMA SlicesOfAppend ==
  ASSUME NEW l \in Seq(1..MaxLoafSlices), NEW k \in 1..MaxLoafSlices
  PROVE  /\ SlicesOf(Append(l, k)) = SlicesOf(l) \cup {<<Len(l) + 1, i>> : i \in 1..k}
         /\ SlicesOf(l) \cap {<<Len(l) + 1, i>> : i \in 1..k} = {}
         /\ Append(l, k) \in Seq(1..MaxLoafSlices)
<1> DEFINE m == Append(l, k)  new == {<<Len(l) + 1, i>> : i \in 1..k}
<1>1. /\ m \in Seq(1..MaxLoafSlices)
      /\ Len(m) = Len(l) + 1
      /\ m[Len(l) + 1] = k
      /\ \A n \in 1..Len(l) : m[n] = l[n]
  OBVIOUS
<1>2. 1..Len(m) = 1..Len(l) \cup {Len(l) + 1}
  BY <1>1
<1>3. SlicesOf(m) \subseteq SlicesOf(l) \cup new
  BY <1>1, <1>2 DEF SlicesOf
<1>4. SlicesOf(l) \cup new \subseteq SlicesOf(m)
  BY <1>1, <1>2 DEF SlicesOf
<1>5. SlicesOf(l) \cap new = {}
  BY SliceIsAddress
<1> QED
  BY <1>1, <1>3, <1>4, <1>5

\* Under the type and the homing invariant a slice is in use exactly when
\* the client holds it under the pool's own size.
LEMMA InUseMeansHeld ==
  ASSUME TypeOK, BlocksGoHome
  PROVE  /\ InUse = {s \in Slices : <<s, mySliceSizeReq>> \in held}
         /\ \A b \in held : /\ b = <<b[1], b[2]>>
                            /\ b[2] \in Sizes
                            /\ Pooled(b[2]) => b[1] \in InUse /\ b[2] = mySliceSizeReq
                            /\ ~Pooled(b[2]) => b[1] \notin Slices /\ b[1] \in SysAddrs
<1>1. \A b \in held : /\ b = <<b[1], b[2]>>
                      /\ b[2] \in Sizes
                      /\ b[1] \in Slices \cup SysAddrs
  BY DEF TypeOK
<1>2. \A b \in held : b[1] \in Slices <=> Pooled(b[2])
  BY DEF BlocksGoHome
<1>3. \A s, sz : <<s, sz>> \in held => (s \in Slices <=> Pooled(sz))
  BY <1>2
<1>4. InUse = {s \in Slices : <<s, mySliceSizeReq>> \in held}
  BY <1>3 DEF InUse, Pooled, TypeOK
<1> QED
  BY <1>1, <1>2, <1>4 DEF InUse, Pooled

-----------------------------------------------------------------------------
LEMMA InitIInv == Init => IInv
<1> SUFFICES ASSUME Init PROVE IInv
  OBVIOUS
<1> USE DEF Init
<1>1. Slices = {}
  BY DEF Slices, SlicesOf
<1>2. TypeOK
  BY <1>1, LoafAssumption DEF TypeOK
<1>3. BlocksGoHome
  BY DEF BlocksGoHome
<1>4. Threads(<< >>) /\ << >> \in Seq(Free)
  BY <1>1 DEF Threads, Free
<1> QED
  BY <1>2, <1>3, <1>4 DEF IInv, Threaded

\* The steps that hand out or take back a system block leave the pool alone.
LEMMA SystemStep ==
  ASSUME IInv, NEW b \in SysAddrs \X Sizes, ~Pooled(b[2]),
         held' = held \cup {b} \/ held' = held \ {b},
         UNCHANGED <<mySliceSizeReq, mySlicesPerLoaf, myHeadOfFreeList, myLoaves, word>>
  PROVE  IInv' /\ InUse' = InUse /\ Slices' = Slices
<1>1. Slices' = Slices /\ \A sz : Pooled(sz)' <=> Pooled(sz)
  BY DEF Slices, Pooled
<1>2. b[1] \notin Slices
  BY SliceIsAddress DEF IInv, TypeOK, Slices
<1>3. TypeOK'
  BY <1>1 DEF IInv, TypeOK
<1>4. BlocksGoHome'
  BY <1>1, <1>2 DEF IInv, BlocksGoHome
<1>5. InUse' = InUse
  BY <1>1, <1>2 DEF InUse
<1>6. Threaded'
  BY <1>1, <1>5 DEF IInv, Threaded, Threads, Free
<1> QED
  BY <1>1, <1>3, <1>4, <1>5, <1>6 DEF IInv

\* Taking the head leaves the tail of the list.
LEMMA PopStep ==
  ASSUME IInv, NEW sz \in Sizes, AllocFromFreeList(sz)
  PROVE  /\ IInv'
         /\ myHeadOfFreeList \in Free
         /\ Slices' = Slices
         /\ InUse' = InUse \cup {myHeadOfFreeList}
<1> DEFINE h == myHeadOfFreeList
<1> USE DEF IInv, AllocFromFreeList, Rest
<1>1. PICK fl \in Seq(Free) : Threads(fl)
  BY DEF Threaded
<1>2. Slices' = Slices /\ \A z : Pooled(z)' <=> Pooled(z)
  BY DEF Slices, Pooled
<1>3. Len(fl) # 0 /\ h = fl[1] /\ h \in Free
  BY <1>1 DEF Threads
<1>4. h \in Slices /\ sz = mySliceSizeReq
  BY <1>3 DEF Free, Pooled
<1>5. BlocksGoHome'
  BY <1>2, <1>4 DEF BlocksGoHome, Hand
<1>6. myHeadOfFreeList' = IF 1 < Len(fl) THEN fl[2] ELSE nullptr
  BY <1>1, <1>3 DEF Threads
<1>7. TypeOK'
  <2>1. myHeadOfFreeList' \in Slices \cup {nullptr}
    BY <1>6 DEF Free
  <2> QED
    BY <1>2, <1>4, <2>1 DEF TypeOK, Hand
<1>8. InUse' = InUse \cup {h}
  BY <1>2, <1>4, <1>5, <1>7, InUseMeansHeld DEF InUse, Hand
<1>9. Threaded'
  <2> DEFINE tl == Tail(fl)
  <2>1. /\ tl \in Seq(Free)
        /\ Len(tl) = Len(fl) - 1
        /\ \A i \in 1..Len(tl) : tl[i] = fl[i + 1]
    BY <1>3
  <2>2. Free' = Free \ {h}
    BY <1>2, <1>8 DEF Free
  <2>3. \A i \in 1..Len(tl) : tl[i] # h
    BY <1>1, <1>3, <2>1 DEF Threads
  <2>4. tl \in Seq(Free')
    <3>1. \A i \in 1..Len(tl) : tl[i] \in Free
      BY <2>1
    <3>2. \A i \in 1..Len(tl) : tl[i] \in Free'
      BY <2>2, <2>3, <3>1
    <3> QED
      BY <2>1, <3>2, SeqOver
  <2>5. \A i, j \in 1..Len(tl) : tl[i] = tl[j] => i = j
    BY <1>1, <2>1 DEF Threads
  <2>6. ASSUME NEW s \in Free' PROVE \E i \in 1..Len(tl) : tl[i] = s
    <3>1. PICK j \in 1..Len(fl) : fl[j] = s
      BY <1>1, <2>2 DEF Threads
    <3>2. j # 1
      BY <1>3, <2>2, <3>1
    <3>3. j - 1 \in 1..Len(tl) /\ tl[j - 1] = s
      BY <2>1, <3>1, <3>2
    <3> QED
      BY <3>3
  <2>7. myHeadOfFreeList' = IF Len(tl) = 0 THEN nullptr ELSE tl[1]
    BY <1>3, <1>6, <2>1
  <2>8. \A i \in 1..Len(tl) : word'[tl[i]] = IF i < Len(tl) THEN tl[i + 1] ELSE nullptr
    BY <1>1, <2>1 DEF Threads
  <2> QED
    BY <2>4, <2>5, <2>6, <2>7, <2>8 DEF Threaded, Threads
<1> QED
  BY <1>2, <1>3, <1>5, <1>7, <1>8, <1>9

LEMMA EmptyListMeansNoneFree ==
  ASSUME IInv, myHeadOfFreeList = nullptr
  PROVE  Free = {} /\ Slices = InUse
<1>1. PICK fl \in Seq(Free) : Threads(fl)
  BY DEF IInv, Threaded
<1>2. nullptr \notin Free
  BY SliceIsAddress DEF IInv, TypeOK, Free, Slices
<1>3. Len(fl) = 0
  BY <1>1, <1>2 DEF Threads
<1>4. Free = {}
  BY <1>1, <1>3 DEF Threads
<1> QED
  BY <1>4 DEF Free, InUse

LEMMA NextSlicesInRange ==
  ASSUME TypeOK PROVE NextSlicesPerLoaf \in 1..MaxLoafSlices
  BY LoafAssumption DEF TypeOK, NextSlicesPerLoaf

\* A new loaf arrives sliced into a list whose first slice is handed out.
LEMMA LoafStep ==
  ASSUME IInv, NEW sz \in Sizes, AllocFromNewLoaf(sz)
  PROVE  /\ IInv'
         /\ Slices = InUse
         /\ Slices \subseteq Slices'
         /\ \E s \in Slices' \ Slices : InUse' = InUse \cup {s}
<1> DEFINE n == Len(myLoaves) + 1
           k == NextSlicesPerLoaf
           new == {<<n, i>> : i \in 1..k}
           links == LoafLinks(n, k)
           first == <<n, 1>>
<1>1. /\ Pooled(sz)
      /\ myHeadOfFreeList = nullptr
      /\ mySlicesPerLoaf' = k
      /\ myLoaves' = Append(myLoaves, k)
      /\ word' = [s \in SlicesOf(myLoaves') |-> IF s \in Slices THEN word[s] ELSE links[s]]
      /\ myHeadOfFreeList' = links[first]
      /\ held' = held \cup {<<first, sz>>}
      /\ mySliceSizeReq' = mySliceSizeReq
  BY DEF AllocFromNewLoaf, NeedLoaf, Hand
<1>2. k \in 1..MaxLoafSlices /\ k \in Nat /\ 1 \in 1..k
  BY NextSlicesInRange, LoafAssumption DEF IInv
<1>3. Len(myLoaves) \in Nat /\ n \in Nat
  BY DEF IInv, TypeOK
<1>4. /\ Slices' = Slices \cup new
      /\ Slices \cap new = {}
      /\ myLoaves' \in Seq(1..MaxLoafSlices)
  BY <1>1, <1>2, SlicesOfAppend DEF Slices, IInv, TypeOK
<1>5. first \in new
  BY <1>2
<1>6. Free = {} /\ Slices = InUse
  BY <1>1, EmptyListMeansNoneFree
<1>7. /\ DOMAIN word' = Slices'
      /\ \A i \in 1..k : word'[<<n, i>>] = IF i < k THEN <<n, i + 1>> ELSE nullptr
      /\ myHeadOfFreeList' = IF 1 < k THEN <<n, 2>> ELSE nullptr
      /\ \A s \in Slices : word'[s] = word[s]
  <2>1. DOMAIN word' = Slices'
    BY <1>1 DEF Slices
  <2>2. \A i \in 1..k : links[<<n, i>>] = IF i < k THEN <<n, i + 1>> ELSE nullptr
    BY <1>2, <1>3 DEF LoafLinks
  <2>3. \A i \in 1..k : <<n, i>> \in Slices' /\ <<n, i>> \notin Slices
    BY <1>4
  <2>4. \A s \in Slices' : word'[s] = IF s \in Slices THEN word[s] ELSE links[s]
    BY <1>1 DEF Slices
  <2> HIDE DEF links
  <2>5. \A i \in 1..k : word'[<<n, i>>] = links[<<n, i>>]
    BY <2>3, <2>4
  <2>6. \A s \in Slices : word'[s] = word[s]
    BY <2>4, <1>4
  <2>7. links[first] = IF 1 < k THEN <<n, 2>> ELSE nullptr
    BY <1>2, <2>2
  <2> QED
    BY <1>1, <2>1, <2>2, <2>5, <2>6, <2>7
<1>8. sz = mySliceSizeReq /\ \A z : Pooled(z)' <=> Pooled(z)
  BY <1>1 DEF Pooled
<1>9. BlocksGoHome'
  <2> SUFFICES ASSUME NEW b \in held' PROVE b[1] \in Slices' <=> Pooled(b[2])
    BY <1>8 DEF BlocksGoHome
  <2>1. CASE b \in held
    <3>1. b[1] \in Slices <=> Pooled(b[2])
      BY <2>1 DEF IInv, BlocksGoHome
    <3>2. b[1] \in Slices \cup SysAddrs
      BY <2>1 DEF IInv, TypeOK
    <3>3. Slices' \cap SysAddrs = {}
      BY <1>4, SliceIsAddress DEF Slices
    <3> QED
      BY <1>4, <3>1, <3>2, <3>3
  <2>2. CASE b = <<first, sz>>
    BY <1>1, <1>4, <1>5, <2>2
  <2> QED
    BY <1>1, <2>1, <2>2
<1>10. TypeOK'
  <2>1. myHeadOfFreeList' \in Slices' \cup {nullptr}
    BY <1>2, <1>4, <1>7
  <2>2. \A i \in 1..k : word'[<<n, i>>] \in Words
    <3>1. \A i \in 1..k : <<n, i>> \in Nat \X Nat /\ (i < k => <<n, i + 1>> \in Nat \X Nat)
      BY <1>2, <1>3
    <3> HIDE DEF n, k
    <3> QED
      BY <1>7, <3>1
  <2>3. \A s \in Slices' : word'[s] \in Words
    BY <1>4, <1>7, <2>2 DEF IInv, TypeOK
  <2>4. held' \subseteq (Slices' \cup SysAddrs) \X Sizes
    BY <1>1, <1>4, <1>5 DEF IInv, TypeOK
  <2> QED
    BY <1>1, <1>2, <1>4, <1>7, <2>1, <2>3, <2>4 DEF TypeOK, IInv
<1>11. InUse' = InUse \cup {first}
  <2>1. InUse' = {s \in Slices' : <<s, mySliceSizeReq>> \in held'}
    <3>1. \A s, z : <<s, z>> \in held' /\ s \in Slices' => Pooled(z)'
      BY <1>9 DEF BlocksGoHome
    <3>2. \A s, z : <<s, z>> \in held' /\ s \in Slices' => z = mySliceSizeReq
      BY <1>8, <3>1 DEF Pooled
    <3>3. mySliceSizeReq \in Sizes
      BY <1>8
    <3> QED
      BY <3>2, <3>3, <1>1 DEF InUse
  <2>2. InUse = {s \in Slices : <<s, mySliceSizeReq>> \in held}
    BY InUseMeansHeld DEF IInv
  <2>3. \A s \in new : <<s, mySliceSizeReq>> \notin held
    BY <1>4, <1>3, AddressAssumption DEF IInv, TypeOK
  <2> QED
    BY <1>1, <1>4, <1>5, <1>8, <2>1, <2>2, <2>3
<1>12. Threaded'
  <2> DEFINE fl == [i \in 1..(k - 1) |-> <<n, i + 1>>]
  <2>1. Free' = new \ {first}
    BY <1>4, <1>6, <1>11 DEF Free
  <2>2. \A i \in 1..(k - 1) : <<n, i + 1>> \in Free'
    BY <1>2, <2>1
  <2>3. fl \in Seq(Free') /\ Len(fl) = k - 1
    <3>1. fl \in [1..(k - 1) -> Free']
      BY <2>2
    <3> QED
      BY <1>2, <3>1
  <2>4. ASSUME NEW s \in Free' PROVE \E i \in 1..Len(fl) : fl[i] = s
    <3>1. PICK j \in 1..k : s = <<n, j>>
      BY <2>1
    <3>2. j # 1
      BY <2>1, <3>1
    <3>3. j - 1 \in 1..(k - 1) /\ fl[j - 1] = s
      BY <1>2, <3>1, <3>2
    <3> QED
      BY <2>3, <3>3
  <2>5. \A i, j \in 1..Len(fl) : fl[i] = fl[j] => i = j
    BY <1>2, <2>3
  <2>6. myHeadOfFreeList' = IF Len(fl) = 0 THEN nullptr ELSE fl[1]
    BY <1>2, <1>7, <2>3
  <2>7. ASSUME NEW i \in 1..Len(fl)
        PROVE  word'[fl[i]] = IF i < Len(fl) THEN fl[i + 1] ELSE nullptr
    <3>1. i + 1 \in 1..k /\ fl[i] = <<n, i + 1>>
      BY <1>2, <2>3
    <3>2. word'[fl[i]] = IF i + 1 < k THEN <<n, i + 1 + 1>> ELSE nullptr
      BY <1>7, <3>1
    <3>3. i < Len(fl) => i + 1 < k /\ fl[i + 1] = <<n, i + 1 + 1>>
      BY <1>2, <2>3
    <3>4. ~(i < Len(fl)) => ~(i + 1 < k)
      BY <1>2, <2>3
    <3> QED
      BY <3>2, <3>3, <3>4
  <2> HIDE DEF fl
  <2> QED
    BY <2>3, <2>4, <2>5, <2>6, <2>7 DEF Threaded, Threads
<1> QED
  BY <1>4, <1>5, <1>6, <1>9, <1>10, <1>11, <1>12 DEF IInv

\* A failed malloc loses nothing: only the next loaf's size has moved on.
LEMMA ThrowStep ==
  ASSUME IInv, NEW sz \in Sizes, AllocThrows(sz)
  PROVE  IInv' /\ Slices' = Slices /\ InUse' = InUse
<1> USE DEF IInv, AllocThrows
<1>1. Slices' = Slices /\ InUse' = InUse /\ \A z : Pooled(z)' <=> Pooled(z)
  BY DEF Slices, InUse, Pooled
<1>2. TypeOK'
  BY <1>1, NextSlicesInRange DEF TypeOK
<1> QED
  BY <1>1, <1>2 DEF BlocksGoHome, Threaded, Threads, Free

\* A freed slice is put in front of the list, over whatever it held.
LEMMA PushStep ==
  ASSUME IInv, NEW b \in held, FreeToPool(b[1], b[2])
  PROVE  /\ IInv'
         /\ b[1] \in InUse
         /\ Slices' = Slices
         /\ InUse' = InUse \ {b[1]}
<1> DEFINE p == b[1]
<1>1. PICK fl \in Seq(Free) : Threads(fl)
  BY DEF IInv, Threaded
<1>2. /\ Slices' = Slices
      /\ mySliceSizeReq' = mySliceSizeReq
      /\ \A z : Pooled(z)' <=> Pooled(z)
  BY DEF FreeToPool, Slices, Pooled
<1>3. /\ b = <<p, mySliceSizeReq>>
      /\ p \in InUse
      /\ InUse = {s \in Slices : <<s, mySliceSizeReq>> \in held}
  BY InUseMeansHeld DEF FreeToPool, IInv
<1>4. p \in Slices /\ p \notin Free
  BY <1>3 DEF InUse, Free
<1>5. held' = held \ {<<p, mySliceSizeReq>>}
  BY <1>3 DEF FreeToPool
<1>6. /\ DOMAIN word' = Slices
      /\ word'[p] = myHeadOfFreeList
      /\ \A s \in Slices \ {p} : word'[s] = word[s]
      /\ myHeadOfFreeList' = p
  BY <1>4 DEF FreeToPool, IInv, TypeOK
<1>7. BlocksGoHome'
  BY <1>2, <1>5 DEF BlocksGoHome, IInv
<1>8. TypeOK'
  <2>1. \A s \in Slices : word'[s] \in Words
    BY <1>6, SliceIsAddress DEF IInv, TypeOK, Slices
  <2>2. held' \subseteq (Slices \cup SysAddrs) \X Sizes
    BY <1>5 DEF IInv, TypeOK
  <2>3. UNCHANGED <<mySliceSizeReq, mySlicesPerLoaf, myLoaves>>
    BY DEF FreeToPool
  <2> QED
    BY <1>2, <1>4, <1>6, <2>1, <2>2, <2>3 DEF IInv, TypeOK
<1>9. InUse' = InUse \ {p}
  <2>1. \A s, z : <<s, z>> \in held' /\ s \in Slices => z = mySliceSizeReq
    BY <1>2, <1>7 DEF BlocksGoHome, Pooled
  <2>2. mySliceSizeReq \in Sizes
    BY DEF IInv, TypeOK
  <2>3. InUse' = {s \in Slices : <<s, mySliceSizeReq>> \in held'}
    BY <1>2, <2>1, <2>2 DEF InUse
  <2> QED
    BY <1>3, <1>5, <2>3
<1>10. Threaded'
  <2> DEFINE gl == <<p>> \o fl
  <2>1. Free' = Free \cup {p} /\ p \in Free'
    BY <1>2, <1>4, <1>9 DEF Free
  <2>2. /\ gl \in Seq(Free')
        /\ Len(gl) = Len(fl) + 1
        /\ gl[1] = p
        /\ \A i \in 1..Len(fl) : gl[i + 1] = fl[i]
        /\ \A i \in 2..Len(gl) : gl[i] = fl[i - 1] /\ i - 1 \in 1..Len(fl)
    <3>1. /\ gl \in Seq(Free \cup {p})
          /\ Len(gl) = Len(fl) + 1
          /\ gl[1] = p
          /\ \A i \in 1..Len(fl) : gl[i + 1] = fl[i]
      OBVIOUS
    <3>2. \A i \in 2..Len(gl) : i - 1 \in 1..Len(fl) /\ (i - 1) + 1 = i
      BY <3>1
    <3> HIDE DEF gl
    <3> QED
      BY <2>1, <3>1, <3>2
  <2> HIDE DEF gl
  <2>3. 1..Len(gl) = {1} \cup 2..Len(gl)
    BY <2>2
  <2>4. \A i \in 1..Len(fl) : fl[i] \in Free /\ fl[i] # p /\ fl[i] \in Slices
    BY <1>4 DEF Free
  <2>5. \A i, j \in 1..Len(gl) : gl[i] = gl[j] => i = j
    <3>1. ASSUME NEW i \in 2..Len(gl), NEW j \in 2..Len(gl), gl[i] = gl[j] PROVE i = j
      <4>1. fl[i - 1] = fl[j - 1] /\ i - 1 \in 1..Len(fl) /\ j - 1 \in 1..Len(fl)
        BY <2>2, <3>1
      <4>2. i - 1 = j - 1
        BY <1>1, <4>1 DEF Threads
      <4> QED
        BY <4>2
    <3>2. \A i \in 2..Len(gl) : gl[i] # gl[1]
      BY <2>2, <2>4
    <3> QED
      BY <2>3, <3>1, <3>2
  <2>6. \A s \in Free' : \E i \in 1..Len(gl) : gl[i] = s
    <3>1. ASSUME NEW s \in Free PROVE \E i \in 1..Len(gl) : gl[i] = s
      <4>1. PICK j \in 1..Len(fl) : fl[j] = s
        BY <1>1 DEF Threads
      <4>2. j + 1 \in 1..Len(gl) /\ gl[j + 1] = s
        BY <2>2, <4>1
      <4> QED
        BY <4>2
    <3>2. 1 \in 1..Len(gl)
      BY <2>2
    <3> QED
      BY <2>1, <2>2, <3>1, <3>2
  <2>7. \A i \in 1..Len(gl) : word'[gl[i]] = IF i < Len(gl) THEN gl[i + 1] ELSE nullptr
    <3>1. word'[gl[1]] = IF 1 < Len(gl) THEN gl[2] ELSE nullptr
      <4>1. myHeadOfFreeList = IF Len(fl) = 0 THEN nullptr ELSE fl[1]
        BY <1>1 DEF Threads
      <4>2. Len(fl) # 0 => gl[2] = fl[1]
        BY <2>2
      <4> QED
        BY <1>6, <2>2, <4>1, <4>2
    <3>2. ASSUME NEW i \in 2..Len(gl)
          PROVE  word'[gl[i]] = IF i < Len(gl) THEN gl[i + 1] ELSE nullptr
      <4>1. i - 1 \in 1..Len(fl) /\ gl[i] = fl[i - 1] /\ i \in Nat
        BY <2>2
      <4>2. word'[gl[i]] = word[fl[i - 1]]
        BY <1>6, <2>4, <4>1
      <4>3. word[fl[i - 1]] = IF i - 1 < Len(fl) THEN fl[(i - 1) + 1] ELSE nullptr
        BY <1>1, <4>1 DEF Threads
      <4>4. i - 1 < Len(fl) <=> i < Len(gl)
        BY <2>2, <4>1
      <4>5. i < Len(gl) => gl[i + 1] = fl[(i - 1) + 1]
        <5>1. SUFFICES ASSUME i < Len(gl) PROVE gl[i + 1] = fl[i]
          BY <4>1
        <5>2. i \in 1..Len(fl)
          BY <2>2, <4>1, <5>1
        <5> QED
          BY <2>2, <5>2
      <4> QED
        BY <4>2, <4>3, <4>4, <4>5
    <3> QED
      BY <2>3, <3>1, <3>2
  <2>8. myHeadOfFreeList' = IF Len(gl) = 0 THEN nullptr ELSE gl[1]
    BY <1>6, <2>2
  <2> QED
    BY <2>2, <2>5, <2>6, <2>7, <2>8 DEF Threaded, Threads
<1> QED
  BY <1>2, <1>3, <1>7, <1>8, <1>9, <1>10 DEF IInv

\* Client data cannot disturb the list: the slice written to is not on it.
LEMMA WriteStep ==
  ASSUME IInv, ClientWrites
  PROVE  IInv' /\ Slices' = Slices /\ InUse' = InUse
<1>1. PICK s \in InUse, d \in Data \cup Slices \cup {nullptr} :
        word' = [word EXCEPT ![s] = d]
  BY DEF ClientWrites
<1>2. /\ Slices' = Slices /\ InUse' = InUse /\ Free' = Free
      /\ \A z : Pooled(z)' <=> Pooled(z)
  BY DEF ClientWrites, Slices, InUse, Free, Pooled
<1>3. s \in Slices /\ s \notin Free
  BY DEF InUse, Free
<1>4. d \in Words
  BY SliceIsAddress DEF IInv, TypeOK, Slices
<1>5. TypeOK'
  BY <1>1, <1>2, <1>3, <1>4 DEF IInv, TypeOK, ClientWrites
<1>6. \A t \in Free : word'[t] = word[t]
  BY <1>1, <1>3 DEF IInv, TypeOK, Free
<1>7. Threaded'
  <2>1. PICK fl \in Seq(Free) : Threads(fl)
    BY DEF IInv, Threaded
  <2>2. \A i \in 1..Len(fl) : word'[fl[i]] = word[fl[i]]
    BY <1>6
  <2>3. Threads(fl)'
    BY <1>2, <2>1, <2>2 DEF Threads, ClientWrites
  <2> QED
    BY <1>2, <2>1, <2>3 DEF Threaded
<1> QED
  BY <1>2, <1>5, <1>7 DEF IInv, BlocksGoHome, ClientWrites

-----------------------------------------------------------------------------
\* Every step keeps the invariant and is a step of SlicePool or a stutter.
LEMMA NextStep ==
  ASSUME IInv, [Next]_vars
  PROVE  IInv' /\ [Pool!Next]_<<Slices, InUse>>
<1> USE DEF Pool!Next, Pool!Reuse, Pool!Grow, Pool!Release, Pool!Hand
<1>1. ASSUME NEW sz \in Sizes, AllocFromSystem(sz)
      PROVE  IInv' /\ [Pool!Next]_<<Slices, InUse>>
  <2>1. PICK a \in SysAddrs : Hand(a, sz)
    BY <1>1 DEF AllocFromSystem
  <2>2. <<a, sz>> \in SysAddrs \X Sizes /\ <<a, sz>>[2] = sz
    OBVIOUS
  <2>3. held' = held \cup {<<a, sz>>}
    BY <2>1 DEF Hand
  <2> QED
    BY <1>1, <2>2, <2>3, SystemStep DEF AllocFromSystem
<1>2. ASSUME NEW sz \in Sizes, AllocFromFreeList(sz)
      PROVE  IInv' /\ [Pool!Next]_<<Slices, InUse>>
  BY <1>2, PopStep DEF Free
<1>3. ASSUME NEW sz \in Sizes, AllocFromNewLoaf(sz)
      PROVE  IInv' /\ [Pool!Next]_<<Slices, InUse>>
  BY <1>3, LoafStep
<1>4. ASSUME NEW sz \in Sizes, AllocThrows(sz)
      PROVE  IInv' /\ [Pool!Next]_<<Slices, InUse>>
  BY <1>4, ThrowStep
<1>5. ASSUME NEW b \in held, FreeToPool(b[1], b[2])
      PROVE  IInv' /\ [Pool!Next]_<<Slices, InUse>>
  BY <1>5, PushStep
<1>6. ASSUME NEW b \in held, FreeToSystem(b[1], b[2])
      PROVE  IInv' /\ [Pool!Next]_<<Slices, InUse>>
  <2>1. b = <<b[1], b[2]>> /\ b \in SysAddrs \X Sizes /\ ~Pooled(b[2])
    BY <1>6, InUseMeansHeld DEF IInv, FreeToSystem
  <2>2. held' = held \ {b}
    BY <1>6, <2>1 DEF FreeToSystem
  <2> QED
    BY <1>6, <2>1, <2>2, SystemStep DEF FreeToSystem
<1>7. CASE ClientWrites
  BY <1>7, WriteStep
<1>8. CASE UNCHANGED vars
  <2>1. Slices' = Slices /\ InUse' = InUse /\ \A z : Pooled(z)' <=> Pooled(z)
    BY <1>8 DEF vars, Slices, InUse, Pooled
  <2> QED
    BY <1>8, <2>1 DEF vars, IInv, TypeOK, BlocksGoHome, Threaded, Threads, Free
<1> QED
  BY <1>1, <1>2, <1>3, <1>4, <1>5, <1>6, <1>7, <1>8 DEF Next, Alloc, Dealloc

(* The inductive invariant holds in every reachable state.                 *)
THEOREM Invariance == Spec => []IInv
<1>1. IInv /\ [Next]_vars => IInv'
  BY NextStep
<1> QED
  BY InitIInv, <1>1, PTL DEF Spec

(* The state of a MemPoolFast has its type for all sizes and loaf sizes.   *)
THEOREM TypeCorrect == Spec => []TypeOK
<1>1. IInv => TypeOK
  BY DEF IInv
<1> QED
  BY Invariance, <1>1, PTL

(* Blocks of ::operator new never enter the pool, and slices never leave   *)
(* it: the two size tests of alloc and free always agree.                  *)
THEOREM Homing == Spec => []BlocksGoHome
<1>1. IInv => BlocksGoHome
  BY DEF IInv
<1> QED
  BY Invariance, <1>1, PTL

(* alloc never hands out a slice that a client holds, whatever clients     *)
(* write into the words that serve as links.                               *)
THEOREM NeverHandedOutTwice == Spec => []FreeListIsFree
<1>1. ASSUME IInv PROVE FreeListIsFree
  <2>1. PICK fl \in Seq(Free) : Threads(fl)
    BY <1>1 DEF IInv, Threaded
  <2>2. myHeadOfFreeList \in Free \cup {nullptr}
    BY <2>1 DEF Threads
  <2>3. ASSUME NEW s \in Free PROVE word[s] \in Free \cup {nullptr}
    <3>1. PICK i \in 1..Len(fl) : fl[i] = s
      BY <2>1 DEF Threads
    <3>2. i < Len(fl) => fl[i + 1] \in Free
      OBVIOUS
    <3> QED
      BY <2>1, <3>1, <3>2 DEF Threads
  <2> QED
    BY <2>2, <2>3 DEF FreeListIsFree
<1> QED
  BY Invariance, <1>1, PTL

(* Every free slice is on the free list: repeated calls of alloc and free  *)
(* lose no memory.  The first slice of the list outside a closed set       *)
(* would be reached from its predecessor, which is inside.                 *)
THEOREM EverySliceReachable == Spec => []NoSliceLost
<1>1. ASSUME IInv PROVE NoSliceLost
  <2>1. PICK fl \in Seq(Free) : Threads(fl)
    BY <1>1 DEF IInv, Threaded
  <2>2. SUFFICES ASSUME NEW S \in SUBSET Free,
                        myHeadOfFreeList \in S \cup {nullptr},
                        \A s \in S : word[s] \in S \cup {nullptr},
                        S # Free
                 PROVE  FALSE
    BY DEF NoSliceLost
  <2>3. nullptr \notin Free
    BY <1>1, SliceIsAddress DEF IInv, TypeOK, Free, Slices
  <2> DEFINE Out == {i \in 1..Len(fl) : fl[i] \notin S}
  <2>4. Out # {}
    <3>1. PICK s \in Free : s \notin S
      BY <2>2
    <3>2. PICK i \in 1..Len(fl) : fl[i] = s
      BY <2>1 DEF Threads
    <3> QED
      BY <3>1, <3>2
  <2>5. PICK i \in Out : \A j \in Out : i <= j
    <3>1. Out \in SUBSET Nat
      OBVIOUS
    <3> HIDE DEF Out
    <3> QED
      BY <2>4, <3>1, LeastElement
  <2>6. i # 1
    BY <2>1, <2>2, <2>3 DEF Threads
  <2>7. i - 1 \in 1..Len(fl) /\ fl[i - 1] \in S
    BY <2>5, <2>6
  <2>8. word[fl[i - 1]] = fl[i] /\ fl[i] \in Free
    <3>1. i \in 1..Len(fl) /\ i - 1 < Len(fl) /\ (i - 1) + 1 = i
      OBVIOUS
    <3>2. word[fl[i - 1]] = fl[(i - 1) + 1]
      BY <2>1, <2>7, <3>1 DEF Threads
    <3> QED
      BY <3>1, <3>2
  <2> QED
    BY <2>2, <2>3, <2>7, <2>8
<1> QED
  BY Invariance, <1>1, PTL

(* MemPoolFast implements SlicePool: it reuses only free slices and makes  *)
(* a loaf only when none is left.                                          *)
THEOREM Refinement == Spec => ImplementsSlicePool
<1>1. Init => Pool!Init
  BY DEF Init, Pool!Init, Slices, SlicesOf, InUse
<1>2. IInv /\ [Next]_vars => [Pool!Next]_<<Slices, InUse>>
  BY NextStep
<1> QED
  BY <1>1, <1>2, Invariance, PTL DEF Spec, Pool!Spec, ImplementsSlicePool

==============================================================================
