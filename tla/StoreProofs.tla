----------------------------- MODULE StoreProofs -----------------------------
(***************************************************************************)
(* The stores a service keeps in memory: the sliding windows, the webhook  *)
(* queue, the verification cache and the settlement ledger; for any keys,  *)
(* any limits, any lives and any number of deliveries or records.          *)
(***************************************************************************)
EXTENDS SlidingWindow, Webhook, VerificationCache, SettlementLedger,
        FiniteSetTheorems, SequenceTheorems, NaturalsInduction, WellFoundedInduction, TLAPS

(* A set of naturals that holds 0 and each successor of its members.        *)
LEMMA NatSet ==
    ASSUME NEW S \in SUBSET Nat, 0 \in S, \A n \in S : n + 1 \in S
    PROVE  S = Nat
<1> DEFINE R == OpToRel(<, Nat)
           T == Nat \ S
<1>1. IsWellFoundedOn(R, Nat)
  BY NatLessThanWellFounded
<1>2. \A x, y \in Nat : y < x => <<y, x>> \in R
  BY DEF OpToRel
<1>3. SUFFICES ASSUME T # {} PROVE FALSE
  OBVIOUS
<1>4. PICK x \in T : \A y \in T : ~ (<<y, x>> \in R)
  <2> HIDE DEF R
  <2> QED BY <1>1, <1>3, WFMin
<1>5. x # 0 /\ x - 1 \in Nat /\ x - 1 < x
  OBVIOUS
<1>6. x - 1 \in T
  BY <1>5
<1> HIDE DEF R
<1> QED
  BY <1>2, <1>4, <1>5, <1>6

---------------------------------------------------------------------------
(* The sliding windows.                                                    *)

(* A nonempty set of naturals has a least element.                         *)
LEMMA LeastExists ==
    ASSUME NEW S \in SUBSET Nat, S # {}
    PROVE  Min(S) \in S /\ \A n \in S : Min(S) <= n
<1> DEFINE R == OpToRel(<, Nat)
<1>1. IsWellFoundedOn(R, Nat)
  BY NatLessThanWellFounded
<1>2. \A m, n \in Nat : m < n => <<m, n>> \in R
  BY DEF OpToRel
<1>3. PICK x \in S : \A y \in S : ~ (<<y, x>> \in R)
  <2> HIDE DEF R
  <2> QED BY <1>1, WFMin
<1> HIDE DEF R
<1>4. ASSUME NEW y \in S PROVE x <= y
  <2>1. ~ (y < x)
    BY <1>2, <1>3
  <2> QED BY <2>1
<1> QED
  BY <1>3, <1>4 DEF Min

(* What is left of a queue is a suffix of it, and what was popped is stale.*)
LEMMA PoppedStale ==
    ASSUME NEW S \in SUBSET Nat, NEW q \in Seq(S), NEW least \in Int
    PROVE  \E d \in 0..Len(q) :
              /\ PopStale(q, least) \in Seq(S)
              /\ Len(PopStale(q, least)) = Len(q) - d
              /\ \A i \in 1..(Len(q) - d) : PopStale(q, least)[i] = q[d + i]
              /\ \A i \in 1..d : q[i] < least
              /\ d < Len(q) => q[d + 1] >= least
<1> DEFINE fresh == {i \in DOMAIN q : q[i] >= least}
<1>0. Len(q) \in Nat /\ DOMAIN q = 1..Len(q) /\ \A i \in 1..Len(q) : q[i] \in Nat
  <2>1. Len(q) \in Nat /\ DOMAIN q = 1..Len(q)
    OBVIOUS
  <2>2. \A i \in 1..Len(q) : q[i] \in S
    OBVIOUS
  <2> QED BY <2>1, <2>2
<1>1. CASE fresh = {}
  <2>1. PopStale(q, least) = <<>>
    BY <1>1 DEF PopStale
  <2>2. ASSUME NEW i \in 1..Len(q) PROVE q[i] < least
    <3>1. ~ (q[i] >= least) /\ q[i] \in Nat
      BY <1>0, <1>1
    <3> QED BY <3>1
  <2>3. <<>> \in Seq(S) /\ Len(<<>>) = 0
    OBVIOUS
  <2> DEFINE d == Len(q)
  <2>4. d \in 0..Len(q) /\ Len(q) - d = 0 /\ ~ (d < Len(q))
    BY <1>0
  <2>6. \A i \in 1..d : q[i] < least
    BY <2>2
  <2> HIDE DEF d
  <2>5. \A i \in 1..(Len(q) - d) : <<>>[i] = q[d + i]
    BY <2>4
  <2> QED BY <2>1, <2>3, <2>4, <2>5, <2>6
<1>2. CASE fresh # {}
  <2> DEFINE m == Min(fresh)
  <2>1. fresh \in SUBSET Nat
    BY <1>0
  <2>2. m \in fresh /\ \A n \in fresh : m <= n
    BY <1>2, <2>1, LeastExists
  <2>3. PopStale(q, least) = SubSeq(q, m, Len(q))
    BY <1>2 DEF PopStale
  <2>4. m \in 1..Len(q) /\ q[m] >= least
    BY <1>0, <2>2
  <2>5. ASSUME NEW i \in 1..(m - 1) PROVE q[i] < least
    <3>1. i \in DOMAIN q /\ i < m /\ q[i] \in Nat
      BY <1>0, <2>4
    <3>2. ~ (q[i] >= least)
      <4> SUFFICES ASSUME q[i] >= least PROVE FALSE
        OBVIOUS
      <4>1. i \in fresh
        BY <3>1
      <4>2. m <= i
        BY <4>1, <2>2
      <4> QED BY <4>2, <3>1, <2>4
    <3> QED BY <3>1, <3>2
  <2> HIDE DEF m
  <2>6. /\ SubSeq(q, m, Len(q)) \in Seq(S)
        /\ Len(SubSeq(q, m, Len(q))) = Len(q) - m + 1
        /\ \A i \in 1..(Len(q) - m + 1) : SubSeq(q, m, Len(q))[i] = q[m + i - 1]
    BY <1>0, <2>4, SubSeqProperties
  <2>7. ASSUME NEW i \in 1..(Len(q) - (m - 1)) PROVE SubSeq(q, m, Len(q))[i] = q[(m - 1) + i]
    <3>1. i \in 1..(Len(q) - m + 1) /\ m + i - 1 = (m - 1) + i
      BY <1>0, <2>4
    <3> QED BY <3>1, <2>6
  <2>8. m - 1 \in 0..Len(q) /\ Len(q) - m + 1 = Len(q) - (m - 1) /\ (m - 1) + 1 = m
    BY <1>0, <2>4
  <2> DEFINE d == m - 1
  <2> HIDE DEF d
  <2> QED
    BY <2>3, <2>4, <2>5, <2>6, <2>7, <2>8 DEF d
<1> QED BY <1>1, <1>2

(* Every admission that is still remembered is a suffix of those granted,  *)
(* in order; and what was forgotten is older than the window.              *)
Remembered(k) ==
    LET g == granted[k]  q == timestamps[k]
    IN  /\ Len(q) <= Len(g)
        /\ \A i \in 1..Len(q) : q[i] = g[Len(g) - Len(q) + i]
        /\ epoch >= Window =>
              \A i \in 1..(Len(g) - Len(q)) : g[i] + Window < instant

InOrder(k) ==
    /\ \A i \in 1..Len(granted[k]) : granted[k][i] <= instant
    /\ \A i, j \in 1..Len(granted[k]) : i <= j => granted[k][i] <= granted[k][j]

(* An admission and the one a limit later are more than a window apart.    *)
Spaced(k) ==
    epoch >= Window =>
        \A i, j \in 1..(Len(granted[k]) + max_requests) :
            j = i + max_requests /\ j <= Len(granted[k])
                => granted[k][i] + Window < granted[k][j]

(* Nothing was admitted since a refusal, so its hint still names the       *)
(* oldest request.                                                         *)
Hinted(k) ==
    refused[k] # NoVerdict =>
        /\ Len(timestamps[k]) > 0
        /\ refused[k] = timestamps[k][1] + Window

KeyIInv(k) ==
    /\ Len(timestamps[k]) <= max_requests
    /\ Remembered(k) /\ InOrder(k) /\ Spaced(k) /\ Hinted(k)

WindowIInv == WindowTypeOK /\ NeverPanics /\ \A k \in WindowKeys : KeyIInv(k)

LEMMA WindowIInvInitially == WindowInit => WindowIInv
<1> SUFFICES ASSUME WindowInit PROVE WindowIInv
  OBVIOUS
<1>1. WindowTypeOK /\ NeverPanics
  <2>1. epoch \in Nat /\ WindowHorizon \in Nat
    BY WindowAssumption DEF WindowInit
  <2>2. instant \in epoch..(epoch + WindowHorizon)
    BY <2>1 DEF WindowInit
  <2>3. \A S : <<>> \in Seq(S)
    OBVIOUS
  <2> QED
    BY <2>2, <2>3 DEF WindowInit, WindowTypeOK, NeverPanics
<1>2. ASSUME NEW k \in WindowKeys
      PROVE  KeyIInv(k)
  <2>1. timestamps[k] = <<>> /\ granted[k] = <<>> /\ refused[k] = NoVerdict
    BY DEF WindowInit
  <2>2. max_requests \in Nat /\ Len(<<>>) = 0
    BY WindowAssumption DEF WindowInit
  <2>3. Remembered(k) /\ InOrder(k) /\ Hinted(k)
    BY <2>1, <2>2 DEF Remembered, InOrder, Hinted
  <2>4. Spaced(k)
    BY <2>1, <2>2 DEF Spaced
  <2> QED BY <2>1, <2>2, <2>3, <2>4 DEF KeyIInv
<1> QED BY <1>1, <1>2 DEF WindowIInv, KeyIInv

(* What is left of a key's queue when it is called.                        *)
LEMMA LiveFacts ==
    ASSUME WindowIInv, NEW k \in WindowKeys
    PROVE  /\ Live(k) \in Seq(epoch..(epoch + WindowHorizon))
           /\ Len(Live(k)) <= Len(timestamps[k])
           /\ \A i \in 1..Len(Live(k)) :
                 Live(k)[i] = granted[k][Len(granted[k]) - Len(Live(k)) + i]
           /\ Len(Live(k)) > 0 => cutoff <= Live(k)[1]
           /\ epoch >= Window =>
                 \A i \in 1..(Len(granted[k]) - Len(Live(k))) : granted[k][i] + Window < instant
<1> DEFINE q == timestamps[k]  g == granted[k]
<1>1. /\ q \in Seq(epoch..(epoch + WindowHorizon)) /\ g \in Seq(epoch..(epoch + WindowHorizon))
      /\ epoch \in Nat /\ WindowHorizon \in Nat /\ Window \in Nat /\ instant \in Nat
  BY WindowAssumption DEF WindowIInv, KeyIInv, WindowTypeOK
<1>2. cutoff \in Int /\ epoch..(epoch + WindowHorizon) \in SUBSET Nat
  BY <1>1 DEF cutoff
<1>3. PICK d \in 0..Len(q) :
         /\ Live(k) \in Seq(epoch..(epoch + WindowHorizon))
         /\ Len(Live(k)) = Len(q) - d
         /\ \A i \in 1..(Len(q) - d) : Live(k)[i] = q[d + i]
         /\ \A i \in 1..d : q[i] < cutoff
         /\ d < Len(q) => q[d + 1] >= cutoff
  BY <1>1, <1>2, PoppedStale DEF Live
<1>5. /\ Len(q) <= Len(g)
      /\ \A i \in 1..Len(q) : q[i] = g[Len(g) - Len(q) + i]
      /\ epoch >= Window => \A i \in 1..(Len(g) - Len(q)) : g[i] + Window < instant
  BY DEF WindowIInv, KeyIInv, Remembered
<1> DEFINE m == Len(q)  n == Len(g)  l == Len(Live(k))
<1>4. m \in Nat /\ n \in Nat /\ d \in 0..m /\ l = m - d /\ l \in Nat /\ m <= n
  BY <1>1, <1>3, <1>5
<1>x. \A i \in 1..m : q[i] \in Nat
  BY <1>1
<1>y. \A i \in 1..n : g[i] \in Nat
  BY <1>1
<1> HIDE DEF m, n, l
<1>6. ASSUME NEW i \in 1..l
      PROVE  Live(k)[i] = g[n - l + i]
  <2>1. d + i \in 1..m /\ n - m + (d + i) = n - l + i
    BY <1>4
  <2>2. Live(k)[i] = q[d + i]
    BY <1>3, <1>4 DEF m
  <2>3. q[d + i] = g[n - m + (d + i)]
    BY <2>1, <1>5 DEF m, n
  <2> QED BY <2>1, <2>2, <2>3
<1>7. l > 0 => cutoff <= Live(k)[1]
  <2> SUFFICES ASSUME l > 0 PROVE cutoff <= Live(k)[1]
    OBVIOUS
  <2>1. d < m /\ 1 \in 1..(m - d) /\ d + 1 \in 1..m
    BY <1>4
  <2>2. q[d + 1] >= cutoff /\ Live(k)[1] = q[d + 1]
    BY <2>1, <1>3 DEF m
  <2> QED BY <2>1, <2>2, <1>x, <1>2
<1>8. ASSUME epoch >= Window, NEW i \in 1..(n - l)
      PROVE  g[i] + Window < instant
  <2>0. i \in Nat /\ 1 <= i /\ i <= n - l
    BY <1>4
  <2>1. CASE i <= n - m
    <3>1. i \in 1..(n - m)
      BY <2>1, <2>0, <1>4
    <3> QED BY <3>1, <1>5, <1>8 DEF m, n
  <2>2. CASE i > n - m
    <3> DEFINE j == i - (n - m)
    <3>1. j \in 1..d /\ j \in 1..m /\ n - m + j = i
      BY <2>2, <2>0, <1>4
    <3>2. q[j] = g[i] /\ q[j] < cutoff /\ q[j] \in Nat
      <4> HIDE DEF j
      <4> QED BY <3>1, <1>5, <1>3, <1>x DEF m, n
    <3>3. cutoff = instant - Window
      <4>1. instant >= Window
        BY <1>8, <1>1 DEF WindowIInv, KeyIInv, WindowTypeOK
      <4> QED BY <4>1 DEF cutoff
    <3> HIDE DEF j
    <3> QED BY <3>2, <3>3, <1>1
  <2> QED BY <2>0, <2>1, <2>2, <1>4
<1>9. l <= m
  BY <1>4
<1> QED
  BY <1>3, <1>9, <1>6, <1>7, <1>8 DEF m, n, l

(* Nothing is changed but some entries of timestamps, granted and refused. *)
LEMMA KeyStep ==
    ASSUME WindowIInv, NEW k \in WindowKeys,
           NEW q \in Seq(epoch..(epoch + WindowHorizon)),
           NEW g \in Seq(epoch..(epoch + WindowHorizon)),
           NEW r \in Nat \cup {NoVerdict},
           timestamps' = [timestamps EXCEPT ![k] = q],
           granted' = [granted EXCEPT ![k] = g],
           refused' = [refused EXCEPT ![k] = r],
           UNCHANGED <<max_requests, epoch, instant>>,
           poisoned' \in BOOLEAN, NeverPanics', KeyIInv(k)'
    PROVE  WindowIInv'
<1>1. WindowTypeOK'
  BY DEF WindowIInv, KeyIInv, WindowTypeOK
<1>2. ASSUME NEW j \in WindowKeys PROVE KeyIInv(j)'
  <2>1. CASE j = k BY <2>1
  <2>2. CASE j # k
    <3>1. /\ timestamps'[j] = timestamps[j] /\ granted'[j] = granted[j]
          /\ refused'[j] = refused[j]
      BY <2>2 DEF WindowIInv, KeyIInv, WindowTypeOK
    <3>2. KeyIInv(j)
      BY DEF WindowIInv, KeyIInv
    <3> QED BY <3>1, <3>2 DEF KeyIInv, Remembered, InOrder, Spaced, Hinted
  <2> QED BY <2>1, <2>2
<1> QED BY <1>1, <1>2 DEF WindowIInv, KeyIInv

LEMMA AdmitStep ==
    ASSUME WindowIInv, NEW k \in WindowKeys, Admit(k)
    PROVE  WindowIInv'
<1> DEFINE l == Live(k)  g == granted[k]  H == epoch..(epoch + WindowHorizon)
           newq == Append(l, instant)  newg == Append(g, instant)
<1>1. /\ g \in Seq(H) /\ instant \in H /\ Len(g) \in Nat
      /\ epoch \in Nat /\ WindowHorizon \in Nat /\ Window \in Nat /\ instant \in Nat
      /\ max_requests \in Nat
  BY WindowAssumption DEF WindowIInv, KeyIInv, WindowTypeOK
<1>2. /\ l \in Seq(H) /\ Len(l) \in Nat
      /\ \A i \in 1..Len(l) : l[i] = g[Len(g) - Len(l) + i]
      /\ epoch >= Window =>
            \A i \in 1..(Len(g) - Len(l)) : g[i] + Window < instant
  BY LiveFacts
<1>3. Len(l) <= Len(g) /\ Len(l) < max_requests
  <2>1. Len(l) <= Len(timestamps[k]) /\ Len(timestamps[k]) <= Len(g)
    BY LiveFacts DEF WindowIInv, KeyIInv, Remembered
  <2>2. timestamps[k] \in Seq(H)
    BY DEF WindowIInv, KeyIInv, WindowTypeOK
  <2> QED BY <2>1, <2>2, <1>1, <1>2 DEF Admit, AtLimit
<1>4. /\ InOrder(k) /\ Spaced(k)
  BY DEF WindowIInv, KeyIInv
<1>5. /\ newq \in Seq(H) /\ newg \in Seq(H)
      /\ Len(newq) = Len(l) + 1 /\ Len(newg) = Len(g) + 1
      /\ \A i \in 1..Len(l) : newq[i] = l[i]
      /\ newq[Len(l) + 1] = instant
      /\ \A i \in 1..Len(g) : newg[i] = g[i]
      /\ newg[Len(g) + 1] = instant
  BY <1>1, <1>2
<1>6. /\ timestamps' = [timestamps EXCEPT ![k] = newq]
      /\ granted' = [granted EXCEPT ![k] = newg]
      /\ refused' = [refused EXCEPT ![k] = NoVerdict]
      /\ UNCHANGED <<max_requests, epoch, instant, poisoned>>
  BY <1>1 DEF Admit, WindowIInv, KeyIInv, WindowTypeOK
<1>7. timestamps'[k] = newq /\ granted'[k] = newg /\ refused'[k] = NoVerdict
  BY <1>6 DEF WindowIInv, KeyIInv, WindowTypeOK
<1>g. \A i \in 1..Len(g) : g[i] \in Nat
  BY <1>1
<1> DEFINE m == Len(l)  n == Len(g)
<1> HIDE DEF l, g, newq, newg
<1>8. Remembered(k)'
  <2>1. Len(newq) <= Len(newg)
    BY <1>1, <1>2, <1>3, <1>5
  <2>2. ASSUME NEW i \in 1..Len(newq) PROVE newq[i] = newg[Len(newg) - Len(newq) + i]
    <3>0. /\ m \in Nat /\ n \in Nat /\ m <= n /\ Len(newq) = m + 1 /\ Len(newg) = n + 1
      BY <1>1, <1>2, <1>3, <1>5
    <3> HIDE DEF m, n
    <3>1. CASE i \in 1..m
      <4>1. n - m + i \in 1..n /\ Len(newg) - Len(newq) + i = n - m + i
        BY <3>0, <3>1
      <4> QED BY <4>1, <3>1, <1>2, <1>5 DEF m, n
    <3>2. CASE i = m + 1
      <4>1. Len(newg) - Len(newq) + i = n + 1
        BY <3>0, <3>2
      <4> QED BY <4>1, <3>2, <1>5 DEF m, n
    <3> QED BY <3>0, <3>1, <3>2
  <2>3. ASSUME epoch >= Window, NEW i \in 1..(Len(newg) - Len(newq))
        PROVE  newg[i] + Window < instant
    <3>0. Len(newg) - Len(newq) = n - m /\ n \in Nat /\ m \in Nat
      BY <1>1, <1>2, <1>5
    <3>1. i \in 1..(n - m) /\ i \in 1..n
      <4> HIDE DEF n, m
      <4> QED BY <3>0
    <3> QED BY <3>1, <1>2, <1>5, <2>3
  <2> QED BY <2>1, <2>2, <2>3, <1>6, <1>7 DEF Remembered
<1>9. InOrder(k)'
  <2>1. \A i \in 1..n : g[i] <= instant
    BY <1>4 DEF InOrder, g
  <2>2. \A i, j \in 1..n : i <= j => g[i] <= g[j]
    BY <1>4 DEF InOrder, g
  <2>3. n \in Nat
    BY <1>1
  <2> HIDE DEF n
  <2>4. \A i \in 1..(n + 1) : newg[i] <= instant
    <3> SUFFICES ASSUME NEW i \in 1..(n + 1) PROVE newg[i] <= instant
      OBVIOUS
    <3>1. CASE i \in 1..n BY <3>1, <2>1, <1>5 DEF n
    <3>2. CASE i = n + 1 BY <3>2, <1>5, <1>1 DEF n
    <3> QED BY <3>1, <3>2, <2>3
  <2>5. ASSUME NEW i \in 1..(n + 1), NEW j \in 1..(n + 1), i <= j
        PROVE  newg[i] <= newg[j]
    <3>1. CASE j = n + 1
      <4>1. newg[j] = instant
        BY <3>1, <1>5 DEF n
      <4> QED BY <4>1, <2>4
    <3>2. CASE j # n + 1
      <4>1. i \in 1..n /\ j \in 1..n
        BY <3>2, <2>3, <2>5
      <4> QED BY <4>1, <2>2, <2>5, <1>5 DEF n
    <3> QED BY <3>1, <3>2
  <2> QED BY <2>4, <2>5, <1>5, <1>6, <1>7 DEF InOrder, n
<1>10. Spaced(k)'
  <2> SUFFICES ASSUME epoch >= Window,
                      NEW i \in 1..(n + 1 + max_requests), NEW j \in 1..(n + 1 + max_requests),
                      j = i + max_requests, j <= n + 1
               PROVE  newg[i] + Window < newg[j]
    BY <1>5, <1>6, <1>7 DEF Spaced
  <2>0. n \in Nat /\ m \in Nat /\ m <= n /\ m < max_requests
    BY <1>1, <1>2, <1>3
  <2>1. CASE j <= n
    <3>1. /\ i \in 1..n /\ j \in 1..n
          /\ i \in 1..(n + max_requests) /\ j \in 1..(n + max_requests)
      <4> HIDE DEF n, m
      <4> QED BY <2>0, <2>1, <1>1
    <3>2. g[i] + Window < g[j]
      BY <3>1, <1>4 DEF Spaced, g
    <3> QED BY <3>1, <3>2, <1>5
  <2>2. CASE j = n + 1
    <3>1. i \in 1..(n - m) /\ i \in 1..n
      <4> HIDE DEF n, m
      <4>1. i = n + 1 - max_requests /\ i >= 1
        BY <2>0, <2>2, <1>1
      <4> QED BY <4>1, <2>0, <1>1
    <3>2. g[i] + Window < instant
      BY <3>1, <1>2
    <3> QED BY <3>1, <3>2, <2>2, <1>5
  <2>3. j <= n \/ j = n + 1
    <3> HIDE DEF n
    <3> QED BY <2>0, <1>1
  <2> QED BY <2>1, <2>2, <2>3
<1>11. KeyIInv(k)'
  <2>1. Hinted(k)'
    BY <1>7 DEF Hinted
  <2>2. Len(newq) <= max_requests
    BY <1>1, <1>2, <1>3, <1>5
  <2> QED BY <2>1, <2>2, <1>6, <1>7, <1>8, <1>9, <1>10 DEF KeyIInv
<1>12. NeverPanics' /\ poisoned' \in BOOLEAN
  BY <1>6 DEF WindowIInv, KeyIInv, NeverPanics, WindowTypeOK
<1> QED BY <1>5, <1>6, <1>11, <1>12, KeyStep

(* A call that admits nothing leaves what it pruned, or nothing at all.    *)
LEMMA RefuseStep ==
    ASSUME WindowIInv, NEW k \in WindowKeys, Refuse(k)
    PROVE  WindowIInv'
<1> DEFINE l == Live(k)  g == granted[k]  H == epoch..(epoch + WindowHorizon)
<1>1. /\ g \in Seq(H) /\ instant \in H /\ Len(g) \in Nat
      /\ epoch \in Nat /\ WindowHorizon \in Nat /\ Window \in Nat /\ instant \in Nat
      /\ max_requests \in Nat
  BY WindowAssumption DEF WindowIInv, KeyIInv, WindowTypeOK
<1>2. /\ l \in Seq(H) /\ Len(l) \in Nat
      /\ \A i \in 1..Len(l) : l[i] = g[Len(g) - Len(l) + i]
      /\ epoch >= Window =>
            \A i \in 1..(Len(g) - Len(l)) : g[i] + Window < instant
  BY LiveFacts
<1>3. /\ Len(l) <= Len(timestamps[k]) /\ Len(timestamps[k]) <= Len(g)
      /\ Len(timestamps[k]) <= max_requests /\ Len(timestamps[k]) \in Nat
  BY LiveFacts DEF WindowIInv, KeyIInv, Remembered, WindowTypeOK
<1>4. Len(l) > 0 /\ l[1] \in Nat
  BY <1>1, <1>2 DEF Refuse
<1>5. RetryAfter(k) = l[1] + Window - instant
  BY <1>2, <1>4 DEF RetryAfter
<1>6. instant + RetryAfter(k) = l[1] + Window /\ l[1] + Window \in Nat
  BY <1>1, <1>4, <1>5
<1>7. /\ timestamps' = [timestamps EXCEPT ![k] = l]
      /\ refused' = [refused EXCEPT ![k] = l[1] + Window]
      /\ UNCHANGED <<max_requests, epoch, instant, poisoned, granted>>
  BY <1>6 DEF Refuse
<1>8. timestamps'[k] = l /\ granted'[k] = g /\ refused'[k] = l[1] + Window
  BY <1>7 DEF WindowIInv, KeyIInv, WindowTypeOK
<1>9. granted' = [granted EXCEPT ![k] = g]
  BY <1>7 DEF WindowIInv, KeyIInv, WindowTypeOK
<1> HIDE DEF l, g
<1>10. KeyIInv(k)'
  <2>1. Remembered(k)'
    <3>1. Len(l) <= Len(g)
      BY <1>1, <1>2, <1>3
    <3> QED BY <3>1, <1>2, <1>7, <1>8 DEF Remembered
  <2>2. InOrder(k)' /\ Spaced(k)'
    BY <1>7, <1>8 DEF InOrder, Spaced, WindowIInv, KeyIInv
  <2>3. Hinted(k)'
    BY <1>4, <1>7, <1>8 DEF Hinted
  <2>4. Len(l) <= max_requests
    BY <1>1, <1>2, <1>3
  <2> QED BY <2>1, <2>2, <2>3, <2>4, <1>7, <1>8 DEF KeyIInv
<1>11. NeverPanics' /\ poisoned' \in BOOLEAN
  BY <1>7 DEF WindowIInv, KeyIInv, NeverPanics, WindowTypeOK
<1>12. g \in Seq(H) /\ l \in Seq(H) /\ l[1] + Window \in Nat \cup {NoVerdict}
  BY <1>1, <1>2, <1>6
<1> HIDE DEF H
<1> QED BY <1>7, <1>9, <1>10, <1>11, <1>12, KeyStep DEF H

(* The last of a full limit's admissions may have gone stale only where    *)
(* the limit is zero.                                                      *)
LEMMA PanicStep ==
    ASSUME WindowIInv, NEW k \in WindowKeys, Panic(k)
    PROVE  WindowIInv'
<1>1. max_requests = 0 /\ timestamps[k] = <<>>
  <2>1. Len(Live(k)) = 0 /\ max_requests \in Nat
    BY WindowAssumption DEF Panic, WindowIInv, KeyIInv, WindowTypeOK
  <2>2. max_requests = 0
    BY <2>1 DEF Panic, AtLimit
  <2>3. Len(timestamps[k]) <= 0 /\ timestamps[k] \in Seq(epoch..(epoch + WindowHorizon))
    BY <2>2 DEF WindowIInv, KeyIInv, WindowTypeOK
  <2> QED BY <2>2, <2>3
<1>2. timestamps' = timestamps
  BY <1>1 DEF Panic, WindowIInv, KeyIInv, WindowTypeOK
<1>3. /\ UNCHANGED <<max_requests, epoch, instant, timestamps, granted, refused>>
      /\ poisoned' = TRUE
  BY <1>2 DEF Panic
<1>4. WindowTypeOK' /\ NeverPanics'
  BY <1>1, <1>3 DEF WindowIInv, WindowTypeOK, NeverPanics
<1>5. \A j \in WindowKeys : KeyIInv(j)'
  BY <1>3 DEF WindowIInv, KeyIInv, Remembered, InOrder, Spaced, Hinted
<1> QED BY <1>4, <1>5 DEF WindowIInv

LEMMA ResetStep ==
    ASSUME WindowIInv, NEW k \in WindowKeys, Reset(k)
    PROVE  WindowIInv'
<1>1. max_requests \in Nat /\ Len(<<>>) = 0
  BY WindowAssumption DEF WindowIInv, KeyIInv, WindowTypeOK
<1>2. timestamps'[k] = <<>> /\ granted'[k] = <<>> /\ refused'[k] = NoVerdict
  BY DEF Reset, WindowIInv, KeyIInv, WindowTypeOK
<1>3. Remembered(k)' /\ InOrder(k)' /\ Hinted(k)'
  BY <1>1, <1>2 DEF Remembered, InOrder, Hinted
<1>4. Spaced(k)'
  BY <1>1, <1>2 DEF Spaced, Reset
<1>5. KeyIInv(k)'
  BY <1>1, <1>2, <1>3, <1>4 DEF KeyIInv, Reset
<1>6. \A S : <<>> \in Seq(S)
  OBVIOUS
<1>7. /\ timestamps' = [timestamps EXCEPT ![k] = <<>>]
      /\ granted' = [granted EXCEPT ![k] = <<>>]
      /\ refused' = [refused EXCEPT ![k] = NoVerdict]
      /\ UNCHANGED <<max_requests, epoch, instant, poisoned>>
  BY DEF Reset
<1>8. NeverPanics' /\ poisoned' \in BOOLEAN
  BY <1>7 DEF WindowIInv, KeyIInv, NeverPanics, WindowTypeOK
<1> QED BY <1>5, <1>6, <1>7, <1>8, KeyStep

LEMMA TickStep ==
    ASSUME WindowIInv, WindowTick
    PROVE  WindowIInv'
<1>1. /\ instant' = instant + 1 /\ instant \in Nat /\ instant' \in epoch..(epoch + WindowHorizon)
      /\ UNCHANGED <<max_requests, epoch, timestamps, poisoned, granted, refused>>
  BY WindowAssumption DEF WindowTick, WindowIInv, KeyIInv, WindowTypeOK
<1>2. WindowTypeOK' /\ NeverPanics'
  BY <1>1 DEF WindowIInv, KeyIInv, WindowTypeOK, NeverPanics
<1>3. ASSUME NEW k \in WindowKeys
      PROVE  KeyIInv(k)'
  <2>1. granted[k] \in Seq(Nat) /\ Len(timestamps[k]) \in Nat /\ Window \in Nat
    BY WindowAssumption DEF WindowIInv, KeyIInv, WindowTypeOK
  <2>2. \A i \in 1..Len(granted[k]) : granted[k][i] \in Nat
    BY <2>1
  <2>3. Remembered(k)'
    <3>1. ASSUME epoch >= Window, NEW i \in 1..(Len(granted[k]) - Len(timestamps[k]))
          PROVE  granted[k][i] + Window < instant'
      <4>0. Len(granted[k]) \in Nat
        BY <2>1
      <4>1. i \in 1..Len(granted[k])
        BY <4>0, <2>1
      <4>2. granted[k][i] + Window < instant
        BY <3>1 DEF WindowIInv, KeyIInv, Remembered
      <4> QED BY <4>1, <4>2, <2>1, <2>2, <1>1
    <3>2. /\ Len(timestamps[k]) <= Len(granted[k])
          /\ \A i \in 1..Len(timestamps[k]) :
                timestamps[k][i] = granted[k][Len(granted[k]) - Len(timestamps[k]) + i]
      BY DEF WindowIInv, KeyIInv, Remembered
    <3> QED BY <3>1, <3>2, <1>1 DEF Remembered
  <2>4. InOrder(k)'
    <3>1. ASSUME NEW i \in 1..Len(granted[k]) PROVE granted[k][i] <= instant'
      <4>1. granted[k][i] <= instant
        BY DEF WindowIInv, KeyIInv, InOrder
      <4> QED BY <4>1, <2>2, <1>1
    <3> QED BY <3>1, <1>1 DEF WindowIInv, KeyIInv, InOrder
  <2>5. Spaced(k)' /\ Hinted(k)'
    BY <1>1 DEF WindowIInv, KeyIInv, Spaced, Hinted
  <2> QED BY <1>1, <2>3, <2>4, <2>5 DEF WindowIInv, KeyIInv
<1> QED BY <1>1, <1>2, <1>3 DEF WindowIInv

LEMMA WindowIInvHolds == WindowSpec => []WindowIInv
<1>1. WindowIInv /\ [WindowNext]_window => WindowIInv'
  <2> SUFFICES ASSUME WindowIInv, [WindowNext]_window PROVE WindowIInv'
    OBVIOUS
  <2>1. CASE WindowTick BY <2>1, TickStep
  <2>2. CASE UNCHANGED window
    BY <2>2 DEF window, WindowIInv, KeyIInv, WindowTypeOK, NeverPanics,
                Remembered, InOrder, Spaced, Hinted
  <2>3. ASSUME NEW k \in WindowKeys, Admit(k) PROVE WindowIInv'
    BY <2>3, AdmitStep
  <2>4. ASSUME NEW k \in WindowKeys, Refuse(k) PROVE WindowIInv'
    BY <2>4, RefuseStep
  <2>5. ASSUME NEW k \in WindowKeys, Panic(k) PROVE WindowIInv'
    BY <2>5, PanicStep
  <2>6. ASSUME NEW k \in WindowKeys, Reset(k) PROVE WindowIInv'
    BY <2>6, ResetStep
  <2> QED BY <2>1, <2>2, <2>3, <2>4, <2>5, <2>6 DEF WindowNext, Unusable
<1> QED BY <1>1, WindowIInvInitially, PTL DEF WindowSpec

(* Of a key's admissions within a span as long as the window, the last     *)
(* comes less than a limit after the first.                                *)
LEMMA SpanHolds ==
    ASSUME WindowIInv, epoch >= Window, NEW k \in WindowKeys, NEW start \in Nat
    PROVE  Cardinality({i \in DOMAIN granted[k] :
                           start <= granted[k][i] /\ granted[k][i] <= start + Window})
              <= max_requests
<1> DEFINE g == granted[k]  n == Len(g)
           I == {i \in DOMAIN g : start <= g[i] /\ g[i] <= start + Window}
<1>1. /\ n \in Nat /\ DOMAIN g = 1..n /\ max_requests \in Nat /\ Window \in Nat
  BY WindowAssumption DEF WindowIInv, WindowTypeOK
<1>2. \A i \in 1..n : g[i] \in Nat
  BY WindowAssumption DEF WindowIInv, WindowTypeOK
<1>3. CASE I = {}
  <2>1. Cardinality(I) = 0
    BY <1>3, FS_EmptySet
  <2> QED BY <2>1, <1>1
<1>4. CASE I # {}
  <2> DEFINE lo == Min(I)  hi == lo + max_requests - 1
  <2>1. I \in SUBSET Nat
    BY <1>1
  <2>2. lo \in I /\ \A i \in I : lo <= i
    BY <2>1, <1>4, LeastExists
  <2>3. lo \in 1..n /\ start <= g[lo]
    BY <1>1, <2>2
  <2> HIDE DEF lo
  <2>4. ASSUME NEW i \in I PROVE i \in lo..hi
    <3>1. i \in 1..n /\ i \in Nat /\ lo <= i /\ g[i] <= start + Window
      BY <1>1, <2>2
    <3>2. CASE i >= lo + max_requests
      <4> DEFINE j == lo + max_requests
      <4>1. j \in 1..n /\ j <= i /\ lo \in 1..(n + max_requests) /\ j \in 1..(n + max_requests)
        BY <1>1, <2>3, <3>1, <3>2
      <4>2. g[lo] + Window < g[j]
        BY <4>1 DEF WindowIInv, KeyIInv, Spaced
      <4> HIDE DEF j
      <4>3. g[j] <= g[i]
        BY <4>1, <3>1 DEF WindowIInv, KeyIInv, InOrder
      <4>4. /\ g[lo] \in Nat /\ g[j] \in Nat /\ g[i] \in Nat /\ start \in Nat /\ Window \in Nat
            /\ start <= g[lo] /\ g[i] <= start + Window
        BY <4>1, <3>1, <2>3, <1>1, <1>2
      <4> HIDE DEF g
      <4> QED BY <4>2, <4>3, <4>4
    <3>3. CASE ~ (i >= lo + max_requests)
      BY <3>3, <3>1, <2>3, <1>1
    <3> QED BY <3>2, <3>3
  <2>5. lo \in Int /\ hi \in Int
    BY <1>1, <2>3
  <2>6. IsFiniteSet(lo..hi) /\ Cardinality(lo..hi) = max_requests
    <3>1. lo <= hi => hi - lo + 1 = max_requests
      BY <1>1, <2>5
    <3>2. lo > hi => max_requests = 0
      BY <1>1, <2>5
    <3> HIDE DEF hi
    <3> QED BY <2>5, <3>1, <3>2, FS_Interval
  <2>7. I \subseteq lo..hi
    BY <2>4
  <2> HIDE DEF I, hi
  <2>8. Cardinality(I) <= Cardinality(lo..hi)
    BY <2>6, <2>7, FS_Subset
  <2> QED BY <2>6, <2>8 DEF I
<1> QED BY <1>3, <1>4

(* Whatever the limit, the window and the calls, a span as long as the     *)
(* window holds no more admissions of a key than its limit                 *)
(* (sliding_limiter.rs, check_and_record).                                 *)
THEOREM QuotaOfAnyWindow == WindowSpec => []WindowQuota
<1>1. WindowIInv => WindowQuota
  <2> SUFFICES ASSUME WindowIInv, epoch >= Window,
                      NEW k \in WindowKeys, NEW start \in epoch..(epoch + WindowHorizon)
               PROVE  Cardinality({i \in DOMAIN granted[k] :
                                     start <= granted[k][i] /\ granted[k][i] <= start + Window})
                         <= max_requests
    BY DEF WindowQuota
  <2>1. start \in Nat
    BY WindowAssumption DEF WindowIInv, WindowTypeOK
  <2> QED BY <2>1, SpanHolds
<1> QED BY <1>1, WindowIInvHolds, PTL

(* A refusal's hint is enough, asks for no more than a window, and always  *)
(* comes: only a limit of zero panics (sliding_limiter.rs).                *)
THEOREM RefusalsHelp == WindowSpec => []RefusalsHelpful
<1>1. WindowIInv => RefusalsHelpful
  <2> SUFFICES ASSUME WindowIInv PROVE HintSufficient
    BY DEF RefusalsHelpful, WindowIInv
  <2> SUFFICES ASSUME NEW k \in WindowKeys, refused[k] # NoVerdict
               PROVE  /\ instant > refused[k] => ~AtLimit(k)
                      /\ refused[k] <= instant + Window
    BY DEF HintSufficient
  <2> DEFINE q == timestamps[k]  g == granted[k]
  <2>1. /\ q \in Seq(Nat) /\ g \in Seq(Nat) /\ epoch \in Nat /\ instant \in Nat /\ Window \in Nat
        /\ max_requests \in Nat /\ Len(q) \in Nat /\ Len(g) \in Nat
    BY WindowAssumption DEF WindowIInv, WindowTypeOK
  <2>2. Len(q) > 0 /\ refused[k] = q[1] + Window /\ Len(q) <= max_requests
    BY DEF WindowIInv, KeyIInv, Hinted
  <2>3. q[1] = g[Len(g) - Len(q) + 1] /\ Len(g) - Len(q) + 1 \in 1..Len(g)
    <3>1. Len(q) <= Len(g) /\ \A i \in 1..Len(q) : q[i] = g[Len(g) - Len(q) + i]
      BY DEF WindowIInv, KeyIInv, Remembered
    <3>2. 1 \in 1..Len(q)
      BY <2>1, <2>2
    <3>3. q[1] = g[Len(g) - Len(q) + 1]
      BY <3>1, <3>2
    <3>4. Len(g) - Len(q) + 1 \in 1..Len(g)
      <4>1. Len(q) \in Nat /\ Len(g) \in Nat /\ Len(q) <= Len(g) /\ Len(q) > 0
        BY <3>1, <2>1, <2>2
      <4> HIDE DEF q, g
      <4> QED BY <4>1
    <3> QED BY <3>3, <3>4
  <2>4. q[1] <= instant /\ q[1] \in Nat
    <3>1. \A i \in 1..Len(g) : g[i] <= instant
      BY DEF WindowIInv, KeyIInv, InOrder
    <3>2. q[1] <= instant
      BY <3>1, <2>3
    <3> QED BY <3>2, <2>1, <2>2
  <2>5. refused[k] <= instant + Window
    BY <2>1, <2>2, <2>4
  <2>6. ASSUME instant > refused[k] PROVE ~AtLimit(k)
    <3>1. q[1] < cutoff
      BY <2>1, <2>2, <2>4, <2>6 DEF cutoff
    <3>2. Len(Live(k)) < Len(q)
      <4> DEFINE l == Live(k)
      <4>1. /\ Len(l) \in Nat /\ Len(l) <= Len(q)
            /\ Len(l) > 0 => cutoff <= l[1]
            /\ \A i \in 1..Len(l) : l[i] = g[Len(g) - Len(l) + i]
        BY LiveFacts
      <4> HIDE DEF l
      <4> SUFFICES ASSUME Len(l) = Len(q) PROVE FALSE
        BY <4>1, <2>1 DEF l
      <4>2. 1 \in 1..Len(l) /\ Len(l) > 0
        BY <4>1, <2>2
      <4>3. l[1] = g[Len(g) - Len(l) + 1] /\ cutoff <= l[1]
        BY <4>1, <4>2
      <4>4. l[1] = q[1]
        BY <4>3, <2>3
      <4>5. cutoff \in Int
        BY <2>1 DEF cutoff
      <4> QED BY <4>3, <4>4, <4>5, <3>1, <2>4
    <3>3. Len(Live(k)) \in Nat
      BY LiveFacts
    <3> QED BY <3>2, <3>3, <2>1, <2>2 DEF AtLimit
  <2> QED BY <2>5, <2>6
<1> QED BY <1>1, WindowIInvHolds, PTL

---------------------------------------------------------------------------
(* The webhook dispatcher.                                                 *)

(* What is left of a sequence without its i-th element.                    *)
LEMMA RemovedAt ==
    ASSUME NEW S, NEW q \in Seq(S), NEW i \in 1..Len(q)
    PROVE  /\ RemoveAt(q, i) \in Seq(S)
           /\ Len(RemoveAt(q, i)) = Len(q) - 1
           /\ \A j \in 1..(Len(q) - 1) :
                 RemoveAt(q, i)[j] = q[IF j < i THEN j ELSE j + 1]
<1> DEFINE n == Len(q)  a == SubSeq(q, 1, i - 1)  b == SubSeq(q, i + 1, n)
<1>1. n \in Nat /\ i \in Nat /\ 1 <= i /\ i <= n /\ \A j \in 1..n : q[j] \in S
  OBVIOUS
<1> HIDE DEF n
<1>2. /\ a \in Seq(S) /\ Len(a) = i - 1
      /\ \A j \in 1..(i - 1) : a[j] = q[j]
  <2>1. \A j \in 1..(i - 1) : q[j] \in S
    BY <1>1
  <2>2. 1 \in Int /\ i - 1 \in Int
    BY <1>1
  <2>3. /\ a \in Seq(S)
        /\ Len(a) = IF 1 <= i - 1 THEN (i - 1) - 1 + 1 ELSE 0
        /\ \A j \in 1..((i - 1) - 1 + 1) : a[j] = q[1 + j - 1]
    BY <2>1, <2>2, SubSeqProperties
  <2>4. \A j \in 1..(i - 1) : j \in 1..((i - 1) - 1 + 1) /\ 1 + j - 1 = j
    BY <1>1
  <2> HIDE DEF a
  <2> QED BY <2>3, <2>4, <1>1
<1>3. /\ b \in Seq(S) /\ Len(b) = n - i
      /\ \A j \in 1..(n - i) : b[j] = q[i + j]
  <2>1. \A j \in (i + 1)..n : q[j] \in S
    BY <1>1
  <2>2. i + 1 \in Int /\ n \in Int
    BY <1>1
  <2>3. /\ b \in Seq(S)
        /\ Len(b) = IF i + 1 <= n THEN n - (i + 1) + 1 ELSE 0
        /\ \A j \in 1..(n - (i + 1) + 1) : b[j] = q[(i + 1) + j - 1]
    BY <2>1, <2>2, SubSeqProperties
  <2>4. \A j \in 1..(n - i) : j \in 1..(n - (i + 1) + 1) /\ (i + 1) + j - 1 = i + j
    BY <1>1
  <2> HIDE DEF b
  <2> QED BY <2>3, <2>4, <1>1
<1>4. RemoveAt(q, i) = a \o b
  BY DEF RemoveAt, n
<1> HIDE DEF a, b
<1>5. a \o b \in Seq(S) /\ Len(a \o b) = n - 1
  <2>1. a \o b \in Seq(S)
    BY <1>2, <1>3
  <2>2. Len(a \o b) = Len(a) + Len(b)
    BY <1>2, <1>3, ConcatProperties
  <2> QED BY <2>1, <2>2, <1>1, <1>2, <1>3
<1>6. ASSUME NEW j \in 1..(n - 1)
      PROVE  (a \o b)[j] = q[IF j < i THEN j ELSE j + 1]
  <2>1. j \in 1..(Len(a) + Len(b)) /\ j \in Nat
    BY <1>1, <1>2, <1>3
  <2>2. (a \o b)[j] = IF j <= Len(a) THEN a[j] ELSE b[j - Len(a)]
    BY <2>1, <1>2, <1>3
  <2>3. CASE j < i
    <3>1. j \in 1..(i - 1) /\ j <= Len(a)
      BY <2>3, <1>1, <1>2
    <3> QED BY <3>1, <2>2, <2>3, <1>2
  <2>4. CASE ~ (j < i)
    <3>1. ~ (j <= Len(a)) /\ j - Len(a) \in 1..(n - i) /\ i + (j - Len(a)) = j + 1
      BY <2>4, <2>1, <1>1, <1>2
    <3> QED BY <3>1, <2>2, <2>4, <1>3
  <2> QED BY <2>3, <2>4
<1> QED BY <1>4, <1>5, <1>6 DEF n

(* A queue that is full loses its first element, or nothing.               *)
LEMMA Pushed ==
    ASSUME NEW S, NEW q \in Seq(S), NEW d \in S, max_queue_size \in Nat
    PROVE  \E e \in {0, 1} :
              /\ PushBounded(q, d) \in Seq(S)
              /\ Len(PushBounded(q, d)) = Len(q) + 1 - e
              /\ \A j \in 1..(Len(q) - e) : PushBounded(q, d)[j] = q[j + e]
              /\ PushBounded(q, d)[Len(q) + 1 - e] = d
              /\ e = 1 <=> Len(q) >= max_queue_size /\ q # <<>>
<1>1. Len(q) \in Nat
  OBVIOUS
<1>2. CASE Len(q) >= max_queue_size /\ q # <<>>
  <2>1. /\ Tail(q) \in Seq(S) /\ Len(Tail(q)) = Len(q) - 1
        /\ \A j \in 1..Len(Tail(q)) : Tail(q)[j] = q[j + 1]
    BY <1>2, HeadTailProperties
  <2>2. PushBounded(q, d) = Append(Tail(q), d)
    BY <1>2 DEF PushBounded
  <2>3. /\ Append(Tail(q), d) \in Seq(S)
        /\ Len(Append(Tail(q), d)) = Len(q)
        /\ \A j \in 1..(Len(q) - 1) : Append(Tail(q), d)[j] = q[j + 1]
        /\ Append(Tail(q), d)[Len(q)] = d
    BY <2>1, <1>1
  <2>4. 1 \in {0, 1} /\ Len(q) + 1 - 1 = Len(q)
    BY <1>1
  <2> QED BY <2>2, <2>3, <2>4, <1>2
<1>3. CASE ~ (Len(q) >= max_queue_size /\ q # <<>>)
  <2>1. PushBounded(q, d) = Append(q, d)
    BY <1>3 DEF PushBounded
  <2>2. /\ Append(q, d) \in Seq(S)
        /\ Len(Append(q, d)) = Len(q) + 1
        /\ \A j \in 1..Len(q) : Append(q, d)[j] = q[j]
        /\ Append(q, d)[Len(q) + 1] = d
    BY <1>1
  <2> DEFINE e == 0
  <2>3. e \in {0, 1} /\ Len(q) + 1 - e = Len(q) + 1 /\ Len(q) - e = Len(q) /\ e # 1
        /\ \A j \in 1..Len(q) : j + e = j
    BY <1>1
  <2> HIDE DEF e
  <2> QED BY <2>1, <2>2, <2>3, <1>3
<1> QED BY <1>2, <1>3

WebhookState == [next_delivery_id : Nat, queue : Seq(Delivery), history : Seq(Delivery)]

(* A delivery as it may be queued, and as it may have finished.            *)
Waiting(d) ==
    /\ d.attempts <= MaxDeliveryRetries
    /\ d.status = IF d.attempts = 0 THEN "pending" ELSE "failed"

Over(d) ==
    \/ d.status = "delivered" /\ d.attempts \in 1..(MaxDeliveryRetries + 1)
    \/ d.status = "abandoned" /\ d.attempts = MaxDeliveryRetries + 1

Distinct(q) == \A i, j \in 1..Len(q) : q[i].id = q[j].id => i = j

Fits(q) == Len(q) <= max_queue_size \/ Len(q) = 1

(* A state of the dispatcher, between two calls or within one.             *)
Sound(st) ==
    /\ st \in WebhookState
    /\ st.next_delivery_id \in 1..(MaxDeliveries + 1)
    /\ \A i \in 1..Len(st.queue) : st.queue[i].id < st.next_delivery_id /\ Waiting(st.queue[i])
    /\ \A i \in 1..Len(st.history) : st.history[i].id < st.next_delivery_id /\ Over(st.history[i])
    /\ Distinct(st.queue) /\ Distinct(st.history)
    /\ \A i \in 1..Len(st.queue), j \in 1..Len(st.history) : st.queue[i].id # st.history[j].id
    /\ Fits(st.queue) /\ Fits(st.history)

LEMMA PushedFits ==
    ASSUME NEW S, NEW q \in Seq(S), NEW d \in S, max_queue_size \in Nat, Fits(q)
    PROVE  Fits(PushBounded(q, d))
<1>1. PICK e \in {0, 1} :
         /\ Len(PushBounded(q, d)) = Len(q) + 1 - e
         /\ e = 1 <=> Len(q) >= max_queue_size /\ q # <<>>
  BY Pushed
<1>2. Len(q) \in Nat /\ (q = <<>> => Len(q) = 0)
  OBVIOUS
<1> DEFINE p == PushBounded(q, d)
<1> HIDE DEF p
<1>3. CASE e = 1
  BY <1>1, <1>2, <1>3 DEF Fits, p
<1>4. CASE e = 0 /\ q = <<>>
  BY <1>1, <1>2, <1>4 DEF Fits, p
<1>5. CASE e = 0 /\ q # <<>>
  BY <1>1, <1>2, <1>5 DEF Fits, p
<1> QED BY <1>3, <1>4, <1>5

(* One delivery more keeps the dispatcher sound.                           *)
LEMMA QueueForSound ==
    ASSUME max_queue_size \in Nat, NEW st, Sound(st), st.next_delivery_id <= MaxDeliveries
    PROVE  Sound(QueueFor(st))
<1> DEFINE n == st.next_delivery_id  q == st.queue
           d == [id |-> n, attempts |-> 0, status |-> "pending"]
           p == PushBounded(q, d)
<1>1. /\ st \in WebhookState /\ n \in Nat /\ n \in 1..MaxDeliveries
      /\ q \in Seq(Delivery) /\ st.history \in Seq(Delivery)
      /\ MaxDeliveries \in Nat /\ MaxDeliveryRetries \in Nat
  BY WebhookAssumption DEF Sound, WebhookState
<1>2. d \in Delivery /\ Waiting(d) /\ d.id = n
  BY <1>1 DEF Delivery, DeliveryStatus, Waiting
<1>3. QueueFor(st) = [next_delivery_id |-> n + 1, queue |-> p, history |-> st.history]
  BY DEF QueueFor
<1>4. Fits(p)
  BY <1>1, <1>2, PushedFits DEF Sound
<1> HIDE DEF d, q, n
<1>5. PICK e \in {0, 1} :
         /\ p \in Seq(Delivery)
         /\ Len(p) = Len(q) + 1 - e
         /\ \A j \in 1..(Len(q) - e) : p[j] = q[j + e]
         /\ p[Len(q) + 1 - e] = d
         /\ e = 1 <=> Len(q) >= max_queue_size /\ q # <<>>
  BY <1>1, <1>2, Pushed
<1>6. Len(q) \in Nat /\ Len(p) \in Nat /\ \A j \in 1..Len(q) : q[j].id \in Nat
  <2>1. \A j \in 1..Len(q) : q[j] \in Delivery
    BY <1>1
  <2>2. \A x \in Delivery : x.id \in Nat
    BY <1>1 DEF Delivery
  <2> QED BY <1>1, <1>5, <2>1, <2>2
<1>h. \A j \in 1..Len(st.history) : st.history[j].id \in Nat
  <2>1. \A j \in 1..Len(st.history) : st.history[j] \in Delivery
    BY <1>1
  <2>2. \A x \in Delivery : x.id \in Nat
    BY <1>1 DEF Delivery
  <2> QED BY <2>1, <2>2
<1> DEFINE m == Len(p)
<1> HIDE DEF p
<1>7. ASSUME NEW j \in 1..Len(p)
      PROVE  \/ j = m /\ p[j] = d
             \/ j < m /\ j + e \in 1..Len(q) /\ p[j] = q[j + e]
  <2>1. CASE j = m
    BY <2>1, <1>5
  <2>2. CASE j # m
    <3>1. j < m /\ j + e \in 1..Len(q) /\ j \in 1..(Len(q) - e)
      BY <2>2, <1>5, <1>6
    <3> QED BY <3>1, <1>5
  <2> QED BY <2>1, <2>2
<1>8. ASSUME NEW j \in 1..Len(p) PROVE p[j].id < n + 1 /\ Waiting(p[j])
  <2>1. CASE p[j] = d
    BY <2>1, <1>2, <1>1
  <2>2. CASE j + e \in 1..Len(q) /\ p[j] = q[j + e]
    <3>1. q[j + e].id < n /\ Waiting(q[j + e])
      BY <2>2 DEF Sound, q, n
    <3> QED BY <3>1, <2>2, <1>1, <1>6
  <2> QED BY <2>1, <2>2, <1>7
<1>9. \A j \in 1..Len(q) : q[j].id < n
  BY DEF Sound, q, n
<1>10. Distinct(p)
  <2> SUFFICES ASSUME NEW j \in 1..Len(p), NEW k \in 1..Len(p), p[j].id = p[k].id
               PROVE  j = k
    BY DEF Distinct
  <2>1. CASE p[j] = d /\ p[k] = d /\ j = m /\ k = m
    BY <2>1
  <2>2. ASSUME p[j] = d, k + e \in 1..Len(q), p[k] = q[k + e] PROVE FALSE
    BY <2>2, <1>2, <1>9, <1>6, <1>1
  <2>3. ASSUME p[k] = d, j + e \in 1..Len(q), p[j] = q[j + e] PROVE FALSE
    BY <2>3, <1>2, <1>9, <1>6, <1>1
  <2>4. CASE j + e \in 1..Len(q) /\ p[j] = q[j + e] /\ k + e \in 1..Len(q) /\ p[k] = q[k + e]
    <3>1. Distinct(q)
      BY DEF Sound, q
    <3>2. j + e = k + e
      BY <2>4, <3>1 DEF Distinct
    <3> QED BY <3>2
  <2> QED BY <2>1, <2>2, <2>3, <2>4, <1>7
<1>11. ASSUME NEW j \in 1..Len(p), NEW k \in 1..Len(st.history)
       PROVE  p[j].id # st.history[k].id
  <2>1. st.history[k].id < n /\ st.history[k].id \in Nat
    BY <1>h DEF Sound, n
  <2>2. CASE p[j] = d
    BY <2>1, <2>2, <1>2, <1>1
  <2>3. CASE j + e \in 1..Len(q) /\ p[j] = q[j + e]
    BY <2>3 DEF Sound, q
  <2> QED BY <2>2, <2>3, <1>7
<1>12. ASSUME NEW k \in 1..Len(st.history)
       PROVE  st.history[k].id < n + 1 /\ Over(st.history[k])
  <2>1. st.history[k].id < n /\ Over(st.history[k]) /\ st.history[k].id \in Nat
    BY <1>h DEF Sound, n
  <2> QED BY <2>1, <1>1
<1>13. n + 1 \in 1..(MaxDeliveries + 1)
  BY <1>1
<1>14. Distinct(st.history) /\ Fits(st.history)
  BY DEF Sound
<1> DEFINE new == [next_delivery_id |-> n + 1, queue |-> p, history |-> st.history]
<1>15. /\ new \in WebhookState /\ new.next_delivery_id = n + 1
       /\ new.queue = p /\ new.history = st.history
  BY <1>1, <1>5 DEF WebhookState
<1> HIDE DEF new
<1>16. Sound(new)
  BY <1>4, <1>8, <1>10, <1>11, <1>12, <1>13, <1>14, <1>15 DEF Sound
<1> QED BY <1>3, <1>16 DEF new

LEMMA EnqueuedSteps ==
    /\ Enqueued[0] = dispatcher
    /\ \A n \in Nat : Enqueued[n + 1] = QueueFor(Enqueued[n])
<1> DEFINE Next(v, n) == QueueFor(v)
<1>1. NatInductiveDefHypothesis(Enqueued, dispatcher, Next)
  BY DEF NatInductiveDefHypothesis, Enqueued
<1>2. NatInductiveDefConclusion(Enqueued, dispatcher, Next)
  BY <1>1, NatInductiveDef
<1>3. Enqueued[0] = dispatcher
  BY <1>2 DEF NatInductiveDefConclusion
<1>4. ASSUME NEW n \in Nat PROVE Enqueued[n + 1] = Next(Enqueued[n], n + 1)
  <2>1. n + 1 \in Nat /\ n + 1 # 0 /\ (n + 1) - 1 = n
    OBVIOUS
  <2> HIDE DEF Next
  <2> QED BY <1>2, <2>1 DEF NatInductiveDefConclusion
<1> QED BY <1>3, <1>4

(* After n targets e deliveries were given up, those at the front first,   *)
(* and only because the n new ones needed their places.                    *)
Given(st, n, e) ==
    LET before == dispatcher.queue
    IN  /\ Len(st.queue) = Len(before) + n - e
        /\ \A j \in 1..Len(st.queue) :
              IF j + e <= Len(before) THEN st.queue[j] = before[j + e]
                                      ELSE st.queue[j].id >= dispatcher.next_delivery_id
        /\ e > 0 => e + max_queue_size <= Len(before) + n

(* One delivery more is given from the same queue.                         *)
LEMMA QueueForGiven ==
    ASSUME max_queue_size \in Nat, Sound(dispatcher),
           NEW st, Sound(st), NEW n \in Nat, NEW e \in Nat, Given(st, n, e),
           st.next_delivery_id = dispatcher.next_delivery_id + n
    PROVE  \E f \in Nat : Given(QueueFor(st), n + 1, f)
<1> DEFINE q == st.queue  before == dispatcher.queue
           d == [id |-> st.next_delivery_id, attempts |-> 0, status |-> "pending"]
           p == PushBounded(q, d)  S == Delivery \cup {d}
<1>1. /\ q \in Seq(S) /\ d \in S /\ Len(q) \in Nat /\ Len(before) \in Nat
      /\ st.next_delivery_id \in Nat /\ dispatcher.next_delivery_id \in Nat
  BY DEF Sound, WebhookState
<1>2. QueueFor(st).queue = p /\ d.id = st.next_delivery_id
  BY DEF QueueFor
<1>3. /\ Len(q) = Len(before) + n - e
      /\ \A j \in 1..Len(q) :
            IF j + e <= Len(before) THEN q[j] = before[j + e]
                                    ELSE q[j].id >= dispatcher.next_delivery_id
      /\ e > 0 => e + max_queue_size <= Len(before) + n
  BY DEF Given
<1> HIDE DEF d, q, S
<1>4. PICK g \in {0, 1} :
         /\ Len(p) = Len(q) + 1 - g
         /\ \A j \in 1..(Len(q) - g) : p[j] = q[j + g]
         /\ p[Len(q) + 1 - g] = d
         /\ g = 1 <=> Len(q) >= max_queue_size /\ q # <<>>
  BY <1>1, Pushed
<1> HIDE DEF p, before
<1> DEFINE f == e + g
<1>5. f \in Nat /\ Len(p) = Len(before) + (n + 1) - f
  BY <1>1, <1>3, <1>4
<1>6. ASSUME NEW j \in 1..Len(p)
      PROVE  IF j + f <= Len(before) THEN p[j] = before[j + f]
                                     ELSE p[j].id >= dispatcher.next_delivery_id
  <2>0. j \in Nat /\ 1 <= j /\ j <= Len(q) + 1 - g
    BY <1>1, <1>4
  <2>1. CASE j = Len(q) + 1 - g
    <3>1. p[j] = d /\ d.id >= dispatcher.next_delivery_id
      BY <2>1, <1>1, <1>2, <1>4
    <3>2. ~ (j + f <= Len(before))
      BY <2>1, <1>1, <1>3, <1>4
    <3> QED BY <3>1, <3>2
  <2>2. CASE j # Len(q) + 1 - g
    <3>1. j \in 1..(Len(q) - g) /\ j + g \in 1..Len(q) /\ (j + g) + e = j + f
      BY <2>0, <2>2, <1>1, <1>4
    <3>2. p[j] = q[j + g]
      BY <3>1, <1>4
    <3>3. IF (j + g) + e <= Len(before) THEN q[j + g] = before[(j + g) + e]
                                        ELSE q[j + g].id >= dispatcher.next_delivery_id
      BY <3>1, <1>3
    <3> HIDE DEF f
    <3> QED BY <3>1, <3>2, <3>3
  <2> QED BY <2>1, <2>2
<1>7. f > 0 => f + max_queue_size <= Len(before) + (n + 1)
  BY <1>1, <1>3, <1>4
<1> HIDE DEF f
<1>8. Given(QueueFor(st), n + 1, f)
  BY <1>2, <1>5, <1>6, <1>7 DEF Given, before
<1> QED BY <1>5, <1>8

(* The loop over the targets, to its end.                                  *)
LEMMA EnqueuedSound ==
    ASSUME max_queue_size \in Nat, Sound(dispatcher),
           dispatcher.next_delivery_id + Targets <= MaxDeliveries + 1
    PROVE  LET st == Enqueued[Targets]
           IN  /\ Sound(st)
               /\ st.next_delivery_id = dispatcher.next_delivery_id + Targets
               /\ \E e \in Nat : Given(st, Targets, e)
<1> DEFINE Good(n) ==
             n <= Targets =>
                /\ Sound(Enqueued[n])
                /\ Enqueued[n].next_delivery_id = dispatcher.next_delivery_id + n
                /\ \E e \in Nat : Given(Enqueued[n], n, e)
           S == {n \in Nat : Good(n)}
<1>0. dispatcher.next_delivery_id \in Nat /\ Len(dispatcher.queue) \in Nat
      /\ Targets \in Nat /\ MaxDeliveries \in Nat
  BY WebhookAssumption DEF Sound, WebhookState
<1>1. Good(0)
  <2>1. Given(dispatcher, 0, 0)
    BY <1>0 DEF Given
  <2>2. dispatcher.next_delivery_id = dispatcher.next_delivery_id + 0
    BY <1>0
  <2> QED BY <2>1, <2>2, EnqueuedSteps
<1>2. ASSUME NEW n \in Nat, Good(n) PROVE Good(n + 1)
  <2> SUFFICES ASSUME n + 1 <= Targets
               PROVE  /\ Sound(Enqueued[n + 1])
                      /\ Enqueued[n + 1].next_delivery_id = dispatcher.next_delivery_id + (n + 1)
                      /\ \E e \in Nat : Given(Enqueued[n + 1], n + 1, e)
    OBVIOUS
  <2> DEFINE st == Enqueued[n]
  <2>1. /\ Sound(st) /\ st.next_delivery_id = dispatcher.next_delivery_id + n
        /\ \E e \in Nat : Given(st, n, e)
    BY <1>0, <1>2
  <2>2. st.next_delivery_id <= MaxDeliveries
    BY <1>0, <2>1
  <2>3. Enqueued[n + 1] = QueueFor(st)
    BY EnqueuedSteps
  <2> HIDE DEF st
  <2>4. Sound(QueueFor(st))
    BY <2>1, <2>2, QueueForSound
  <2>5. \E e \in Nat : Given(QueueFor(st), n + 1, e)
    BY <2>1, QueueForGiven
  <2>6. QueueFor(st).next_delivery_id = st.next_delivery_id + 1
    BY DEF QueueFor
  <2>7. st.next_delivery_id + 1 = dispatcher.next_delivery_id + (n + 1)
    BY <2>1, <1>0
  <2> QED BY <2>3, <2>4, <2>5, <2>6, <2>7
<1> HIDE DEF Good
<1>3. S = Nat
  <2>1. S \in SUBSET Nat /\ 0 \in S /\ \A n \in S : n + 1 \in S
    BY <1>1, <1>2
  <2> HIDE DEF S
  <2> QED BY <2>1, NatSet
<1>4. Good(Targets)
  BY <1>0, <1>3
<1> QED BY <1>0, <1>4 DEF Good

LEMMA OutcomeOf ==
    ASSUME NEW d \in Delivery, Waiting(d), NEW success \in BOOLEAN
    PROVE  LET o == Outcome(d, success)
           IN  /\ o \in Delivery /\ o.id = d.id
               /\ IF Finished(o) THEN Over(o) ELSE Waiting(o)
<1>1. /\ MaxDeliveryRetries \in Nat /\ d.attempts \in Nat /\ d.attempts <= MaxDeliveryRetries
      /\ d = [id |-> d.id, attempts |-> d.attempts, status |-> d.status]
      /\ d.id \in 1..MaxDeliveries
  BY WebhookAssumption DEF Delivery, Waiting
<1> DEFINE Counted(status) == [id |-> d.id, attempts |-> d.attempts + 1, status |-> status]
<1>2. \A status \in DeliveryStatus : Counted(status) \in Delivery
  BY <1>1 DEF Delivery
<1>3. [d EXCEPT !.attempts = @ + 1] = Counted(d.status)
  BY <1>1 DEF Delivery
<1>4. \A status : [Counted(d.status) EXCEPT !.status = status] = Counted(status)
  OBVIOUS
<1>5. CASE success
  <2>1. Outcome(d, success) = Counted("delivered")
    BY <1>3, <1>4, <1>5 DEF Outcome
  <2> QED BY <2>1, <1>1, <1>2 DEF Finished, Over, DeliveryStatus
<1>6. CASE ~success /\ d.attempts + 1 > MaxDeliveryRetries
  <2>1. Outcome(d, success) = Counted("abandoned")
    BY <1>3, <1>4, <1>6 DEF Outcome
  <2> QED BY <2>1, <1>1, <1>2, <1>6 DEF Finished, Over, DeliveryStatus
<1>7. CASE ~success /\ ~ (d.attempts + 1 > MaxDeliveryRetries)
  <2>1. Outcome(d, success) = Counted("failed")
    BY <1>3, <1>4, <1>7 DEF Outcome
  <2> QED BY <2>1, <1>1, <1>2, <1>7 DEF Finished, Waiting, DeliveryStatus
<1> QED BY <1>5, <1>6, <1>7

(* Reporting an attempt of the i-th delivery.                              *)
LEMMA SettleSound ==
    ASSUME max_queue_size \in Nat, Sound(dispatcher),
           NEW i \in 1..Len(dispatcher.queue), NEW success \in BOOLEAN
    PROVE  LET st == Settle(dispatcher, i, success)
           IN  /\ Sound(st)
               /\ st.next_delivery_id = dispatcher.next_delivery_id
               /\ \A j \in 1..Len(dispatcher.queue) :
                     \/ \E k \in 1..Len(st.queue) : st.queue[k].id = dispatcher.queue[j].id
                     \/ \E k \in 1..Len(st.history) : st.history[k].id = dispatcher.queue[j].id
               /\ \A k \in 1..Len(st.queue) :
                     \E j \in 1..Len(dispatcher.queue) : st.queue[k].id = dispatcher.queue[j].id
<1> DEFINE q == dispatcher.queue  h == dispatcher.history  next == dispatcher.next_delivery_id
           d == q[i]  o == Outcome(d, success)  n == Len(q)  r == RemoveAt(q, i)
           st == Settle(dispatcher, i, success)
<1>1. /\ q \in Seq(Delivery) /\ h \in Seq(Delivery) /\ next \in Nat
      /\ n \in Nat /\ Len(h) \in Nat /\ i \in 1..n
      /\ \A x \in Delivery : x.id \in Nat
      /\ \A j \in 1..n : q[j] \in Delivery
      /\ \A j \in 1..Len(h) : h[j] \in Delivery
      /\ next \in 1..(MaxDeliveries + 1)
      /\ dispatcher = [next_delivery_id |-> next, queue |-> q, history |-> h]
  <2>1. dispatcher \in WebhookState
    BY DEF Sound
  <2>2. q \in Seq(Delivery) /\ h \in Seq(Delivery) /\ next \in Nat
    BY <2>1 DEF WebhookState
  <2>3. dispatcher = [next_delivery_id |-> next, queue |-> q, history |-> h]
    BY <2>1 DEF WebhookState
  <2>4. \A x \in Delivery : x.id \in Nat
    BY WebhookAssumption DEF Delivery
  <2>5. next \in 1..(MaxDeliveries + 1)
    BY DEF Sound
  <2> HIDE DEF q, h, next
  <2> QED BY <2>2, <2>3, <2>4, <2>5 DEF q
<1>2. /\ Distinct(q) /\ Distinct(h) /\ Fits(q) /\ Fits(h)
      /\ \A j \in 1..n : q[j].id < next /\ Waiting(q[j])
      /\ \A k \in 1..Len(h) : h[k].id < next /\ Over(h[k])
      /\ \A j \in 1..n, k \in 1..Len(h) : q[j].id # h[k].id
  BY DEF Sound
<1>3. /\ o \in Delivery /\ o.id = d.id
      /\ IF Finished(o) THEN Over(o) ELSE Waiting(o)
  BY <1>1, <1>2, OutcomeOf
<1>4. st = IF Finished(o)
           THEN [next_delivery_id |-> next, queue |-> r, history |-> PushBounded(h, o)]
           ELSE [next_delivery_id |-> next, queue |-> Append(r, o), history |-> h]
  <2>1. st = IF Finished(o)
             THEN [dispatcher EXCEPT !.queue = r, !.history = PushBounded(h, o)]
             ELSE [dispatcher EXCEPT !.queue = Append(r, o)]
    BY Zenon DEF Settle
  <2> DEFINE x == PushBounded(h, o)  y == Append(r, o)
  <2> HIDE DEF q, h, next, x, y, r
  <2>2. [dispatcher EXCEPT !.queue = r, !.history = x]
           = [next_delivery_id |-> next, queue |-> r, history |-> x]
    <3> DEFINE A == [dispatcher EXCEPT !.queue = r]
    <3>1. A = [next_delivery_id |-> next, queue |-> r, history |-> h]
      BY <1>1
    <3>2. [dispatcher EXCEPT !.queue = r, !.history = x] = [A EXCEPT !.history = x]
      BY Zenon
    <3> HIDE DEF A
    <3> QED BY <3>1, <3>2
  <2>3. [dispatcher EXCEPT !.queue = y]
           = [next_delivery_id |-> next, queue |-> y, history |-> h]
    BY <1>1
  <2> HIDE DEF st
  <2> QED BY <2>1, <2>2, <2>3 DEF x, y
<1> HIDE DEF q, h, next, o, n, st
<1>5. /\ r \in Seq(Delivery) /\ Len(r) = n - 1
      /\ \A j \in 1..(n - 1) : r[j] = q[IF j < i THEN j ELSE j + 1]
  BY <1>1, RemovedAt DEF n
<1> HIDE DEF r
<1> DEFINE At(j) == IF j < i THEN j ELSE j + 1
<1>6. /\ \A j \in 1..(n - 1) : At(j) \in 1..n /\ At(j) # i /\ r[j] = q[At(j)]
      /\ \A j, k \in 1..(n - 1) : At(j) = At(k) => j = k
      /\ \A j \in 1..n : j # i => \E k \in 1..(n - 1) : At(k) = j
  <2>1. \A j \in 1..(n - 1) : At(j) \in 1..n /\ At(j) # i /\ r[j] = q[At(j)]
    BY <1>1, <1>5
  <2>2. \A j, k \in 1..(n - 1) : At(j) = At(k) => j = k
    BY <1>1
  <2>3. ASSUME NEW j \in 1..n, j # i PROVE \E k \in 1..(n - 1) : At(k) = j
    <3>1. CASE j < i
      <4>1. j \in 1..(n - 1) /\ At(j) = j
        BY <3>1, <1>1
      <4> QED BY <4>1
    <3>2. CASE j > i
      <4>1. j - 1 \in 1..(n - 1) /\ At(j - 1) = j
        BY <3>2, <1>1
      <4> QED BY <4>1
    <3> QED BY <3>1, <3>2, <2>3, <1>1
  <2> QED BY <2>1, <2>2, <2>3
<1> HIDE DEF At
<1>7. /\ \A j \in 1..Len(r) : r[j].id < next /\ Waiting(r[j]) /\ r[j].id # d.id
      /\ Distinct(r)
      /\ \A j \in 1..Len(r), k \in 1..Len(h) : r[j].id # h[k].id
  <2>1. /\ Len(r) = n - 1
        /\ \A j \in 1..Len(r) : At(j) \in 1..n /\ At(j) # i /\ r[j] = q[At(j)]
        /\ \A j, k \in 1..Len(r) : At(j) = At(k) => j = k
    BY <1>5, <1>6
  <2>2. \A j, k \in 1..n : q[j].id = q[k].id => j = k
    BY <1>2 DEF Distinct, n
  <2>3. ASSUME NEW j \in 1..Len(r)
        PROVE  r[j].id < next /\ Waiting(r[j]) /\ r[j].id # d.id
    BY <1>1, <1>2, <2>1, <2>2 DEF d
  <2>4. Distinct(r)
    BY <2>1, <2>2 DEF Distinct
  <2>5. \A j \in 1..Len(r), k \in 1..Len(h) : r[j].id # h[k].id
    BY <1>2, <2>1
  <2> QED BY <2>3, <2>4, <2>5
<1>8. d.id < next /\ d.id \in Nat /\ \A k \in 1..Len(h) : h[k].id # d.id
  BY <1>1, <1>2
<1> HIDE DEF d
<1>9. CASE Finished(o)
  <2> DEFINE p == PushBounded(h, o)
  <2>1. PICK e \in {0, 1} :
           /\ p \in Seq(Delivery)
           /\ Len(p) = Len(h) + 1 - e
           /\ \A j \in 1..(Len(h) - e) : p[j] = h[j + e]
           /\ p[Len(h) + 1 - e] = o
           /\ e = 1 <=> Len(h) >= max_queue_size /\ h # <<>>
    BY <1>1, <1>3, Pushed
  <2>2. Fits(p)
    BY <1>1, <1>2, <1>3, PushedFits
  <2>3. st.queue = r /\ st.history = p /\ st.next_delivery_id = next /\ st \in WebhookState
    BY <1>1, <1>4, <1>5, <1>9, <2>1 DEF WebhookState
  <2> HIDE DEF p
  <2>4. ASSUME NEW j \in 1..Len(p)
        PROVE  \/ j = Len(p) /\ p[j] = o
               \/ j + e \in 1..Len(h) /\ p[j] = h[j + e]
    <3>0. Len(h) \in Nat /\ Len(p) = Len(h) + 1 - e
      BY <1>1, <2>1
    <3>1. CASE j = Len(p)
      BY <3>0, <3>1, <2>1
    <3>2. CASE j # Len(p)
      <4>1. j \in 1..(Len(h) - e) /\ j + e \in 1..Len(h)
        BY <3>0, <3>2
      <4> QED BY <4>1, <2>1
    <3> QED BY <3>1, <3>2
  <2>5. \A j \in 1..Len(p) : p[j].id < next /\ Over(p[j])
    BY <2>4, <1>2, <1>3, <1>8, <1>9
  <2>6. Distinct(p)
    <3> SUFFICES ASSUME NEW j \in 1..Len(p), NEW k \in 1..Len(p), p[j].id = p[k].id
                 PROVE  j = k
      BY DEF Distinct
    <3>1. CASE p[j] = o /\ p[k] = o /\ j = Len(p) /\ k = Len(p)
      BY <3>1
    <3>2. CASE j + e \in 1..Len(h) /\ p[j] = h[j + e] /\ k + e \in 1..Len(h) /\ p[k] = h[k + e]
      <4>1. j + e = k + e
        BY <3>2, <1>2 DEF Distinct
      <4> QED BY <4>1
    <3> QED BY <3>1, <3>2, <2>4, <1>3, <1>8
  <2>7. \A j \in 1..Len(r), k \in 1..Len(p) : r[j].id # p[k].id
    BY <2>4, <1>3, <1>7
  <2>8. Fits(r)
    BY <1>1, <1>2, <1>5 DEF Fits, n
  <2>9. Sound(st)
    BY <2>2, <2>3, <2>5, <2>6, <2>7, <2>8, <1>1, <1>7 DEF Sound
  <2>10. ASSUME NEW j \in 1..n
         PROVE  \/ \E k \in 1..Len(st.queue) : st.queue[k].id = q[j].id
                \/ \E k \in 1..Len(st.history) : st.history[k].id = q[j].id
    <3>1. CASE j = i
      <4>1. Len(p) \in 1..Len(p) /\ p[Len(p)].id = q[i].id
        BY <2>1, <1>1, <1>3 DEF d
      <4> QED BY <3>1, <4>1, <2>3
    <3>2. CASE j # i
      BY <3>2, <2>3, <1>5, <1>6
    <3> QED BY <3>1, <3>2
  <2>11. \A k \in 1..Len(r) : \E j \in 1..n : r[k].id = q[j].id
    BY <1>5, <1>6
  <2> QED BY <2>3, <2>9, <2>10, <2>11 DEF n, q, st, next
<1>10. CASE ~Finished(o)
  <2> DEFINE p == Append(r, o)
  <2>1. /\ p \in Seq(Delivery) /\ Len(p) = n
        /\ \A j \in 1..(n - 1) : p[j] = r[j]
        /\ p[n] = o
    BY <1>1, <1>3, <1>5
  <2>2. st.queue = p /\ st.history = h /\ st.next_delivery_id = next /\ st \in WebhookState
    BY <1>1, <1>4, <1>10, <2>1 DEF WebhookState
  <2> HIDE DEF p
  <2>3. ASSUME NEW j \in 1..Len(p)
        PROVE  \/ j = n /\ p[j] = o
               \/ j \in 1..(n - 1) /\ j \in 1..Len(r) /\ p[j] = r[j]
    BY <1>1, <1>5, <2>1
  <2>4. \A j \in 1..Len(p) : p[j].id < next /\ Waiting(p[j])
    BY <2>3, <1>3, <1>7, <1>8, <1>10
  <2>5. Distinct(p)
    <3> SUFFICES ASSUME NEW j \in 1..Len(p), NEW k \in 1..Len(p), p[j].id = p[k].id
                 PROVE  j = k
      BY DEF Distinct
    <3> QED BY <2>3, <1>3, <1>7 DEF Distinct
  <2>6. \A j \in 1..Len(p), k \in 1..Len(h) : p[j].id # h[k].id
    BY <2>3, <1>3, <1>7, <1>8
  <2>7. Fits(p)
    BY <1>2, <2>1 DEF Fits, n
  <2>8. Sound(st)
    BY <2>2, <2>4, <2>5, <2>6, <2>7, <1>1, <1>2 DEF Sound
  <2>9. ASSUME NEW j \in 1..n PROVE \E k \in 1..Len(p) : p[k].id = q[j].id
    <3>1. CASE j = i
      <4>1. n \in 1..Len(p) /\ p[n].id = q[i].id
        BY <2>1, <1>1, <1>3 DEF d
      <4> QED BY <3>1, <4>1
    <3>2. CASE j # i
      <4>1. PICK k \in 1..(n - 1) : r[k] = q[j]
        BY <3>2, <1>6
      <4>2. k \in 1..Len(p)
        BY <1>1, <2>1
      <4> QED BY <4>1, <4>2, <2>1
    <3> QED BY <3>1, <3>2
  <2>10. \A k \in 1..Len(p) : \E j \in 1..n : p[k].id = q[j].id
    <3> SUFFICES ASSUME NEW k \in 1..Len(p) PROVE \E j \in 1..n : p[k].id = q[j].id
      OBVIOUS
    <3>1. CASE p[k] = o
      BY <3>1, <1>1, <1>3 DEF d
    <3>2. CASE k \in 1..(n - 1) /\ p[k] = r[k]
      BY <3>2, <1>6
    <3> QED BY <2>3, <3>1, <3>2
  <2> QED BY <2>2, <2>8, <2>9, <2>10 DEF n, q, st, next
<1> QED BY <1>9, <1>10

WebhookIInv == max_queue_size \in QueueSizes /\ Sound(dispatcher)

LEMMA WebhookIInvHolds == WebhookSpec => []WebhookIInv
<1>0. \A x \in QueueSizes : x \in Nat
  BY WebhookAssumption
<1>1. WebhookInit => WebhookIInv
  <2> SUFFICES ASSUME WebhookInit PROVE Sound(dispatcher)
    BY DEF WebhookInit, WebhookIInv
  <2>1. /\ dispatcher.queue = <<>> /\ dispatcher.history = <<>> /\ dispatcher.next_delivery_id = 1
        /\ dispatcher \in WebhookState /\ Len(<<>>) = 0
    BY DEF WebhookInit, WebhookState
  <2>2. max_queue_size \in Nat /\ MaxDeliveries \in Nat
    BY WebhookAssumption DEF WebhookInit
  <2>3. Distinct(<<>>) /\ Fits(<<>>)
    BY <2>2 DEF Distinct, Fits
  <2> QED BY <2>1, <2>2, <2>3 DEF Sound
<1>2. WebhookIInv /\ [WebhookNext]_hooks => WebhookIInv'
  <2> SUFFICES ASSUME WebhookIInv, [WebhookNext]_hooks PROVE WebhookIInv'
    OBVIOUS
  <2>0. max_queue_size \in Nat
    BY <1>0 DEF WebhookIInv
  <2>s. ASSUME max_queue_size' = max_queue_size, NEW st, Sound(st), dispatcher' = st
        PROVE  WebhookIInv'
    BY <2>s DEF WebhookIInv, Sound, Fits, Distinct
  <2>1. CASE enqueue_event
    <3>1. Sound(Enqueued[Targets])
      BY <2>0, <2>1, EnqueuedSound DEF enqueue_event, WebhookIInv
    <3> QED BY <2>1, <2>s, <3>1 DEF enqueue_event
  <2>2. ASSUME NEW id \in 1..MaxDeliveries, NEW success \in BOOLEAN,
               record_attempt_result(id, success)
        PROVE  WebhookIInv'
    <3>1. PICK i \in 1..Len(dispatcher.queue) : dispatcher' = Settle(dispatcher, i, success)
      BY <2>2 DEF record_attempt_result
    <3>2. Sound(Settle(dispatcher, i, success))
      BY <2>0, SettleSound DEF WebhookIInv
    <3> QED BY <2>2, <2>s, <3>1, <3>2 DEF record_attempt_result
  <2>3. CASE UNCHANGED hooks
    BY <2>3, <2>s DEF hooks, WebhookIInv
  <2> QED BY <2>1, <2>2, <2>3 DEF WebhookNext, WebhookIdle
<1> QED BY <1>1, <1>2, PTL DEF WebhookSpec

(* Whatever the targets, the retries and the size of the queue, and        *)
(* whatever reports arrive: a delivery has one place, its status follows   *)
(* from its attempts, and both queues stay bounded (webhook.rs).           *)
THEOREM EveryDeliveryAccounted == WebhookSpec => []DeliveriesAccounted
<1>1. WebhookIInv => DeliveriesAccounted
  <2> SUFFICES ASSUME WebhookIInv PROVE DeliveriesAccounted
    OBVIOUS
  <2>1. Sound(dispatcher) /\ max_queue_size \in QueueSizes
    BY DEF WebhookIInv
  <2>2. WebhookTypeOK
    BY <2>1 DEF WebhookTypeOK, Sound, WebhookState
  <2>3. AttemptsAccounted
    BY <2>1 DEF AttemptsAccounted, Sound, Waiting, Over
  <2>4. ASSUME NEW q, Distinct(q) PROVE IsInjective([i \in 1..Len(q) |-> q[i].id])
    BY <2>4 DEF Distinct, IsInjective
  <2>5. OnePlaceEach
    BY <2>1, <2>4 DEF OnePlaceEach, Sound, Ids, Fits
  <2> QED BY <2>2, <2>3, <2>5 DEF DeliveriesAccounted
<1> QED BY <1>1, WebhookIInvHolds, PTL

(* A delivery leaves the queue for the history or for want of room, the    *)
(* oldest first, and never returns (webhook.rs, enqueue_event and          *)
(* record_attempt_result).                                                 *)
THEOREM DeliveriesLeaveForCause == WebhookSpec => LeavesForCause
<1> DEFINE Caused ==
             LET before == dispatcher.queue
                 after  == dispatcher'.queue
                 queued == dispatcher'.next_delivery_id - dispatcher.next_delivery_id
             IN  /\ \A i \in 1..Len(before) :
                       \/ before[i].id \in Ids(after) \cup Ids(dispatcher'.history)
                       \/ queued > 0 /\ i + max_queue_size <= Len(before) + queued
                 /\ \A id \in Ids(after) \ Ids(before) : id >= dispatcher.next_delivery_id
<1>1. WebhookIInv /\ [WebhookNext]_hooks => [Caused]_hooks
  <2> SUFFICES ASSUME WebhookIInv, WebhookNext PROVE [Caused]_hooks
    BY DEF Caused
  <2> DEFINE before == dispatcher.queue  after == dispatcher'.queue
  <2>0. /\ max_queue_size \in Nat /\ Sound(dispatcher) /\ Len(before) \in Nat
        /\ dispatcher.next_delivery_id \in Nat /\ Targets \in Nat /\ Targets > 0
    BY WebhookAssumption DEF WebhookIInv, Sound, WebhookState
  <2>1. CASE enqueue_event
    <3>1. /\ dispatcher' = Enqueued[Targets]
          /\ dispatcher'.next_delivery_id = dispatcher.next_delivery_id + Targets
          /\ \E e \in Nat : Given(dispatcher', Targets, e)
      BY <2>0, <2>1, EnqueuedSound DEF enqueue_event
    <3>2. PICK e \in Nat : Given(dispatcher', Targets, e)
      BY <3>1
    <3>3. dispatcher'.next_delivery_id - dispatcher.next_delivery_id = Targets
      BY <2>0, <3>1
    <3>4. /\ Len(after) = Len(before) + Targets - e
          /\ \A j \in 1..Len(after) :
                IF j + e <= Len(before) THEN after[j] = before[j + e]
                                        ELSE after[j].id >= dispatcher.next_delivery_id
          /\ e > 0 => e + max_queue_size <= Len(before) + Targets
      BY <3>2 DEF Given
    <3> HIDE DEF before, after
    <3>5. ASSUME NEW i \in 1..Len(before)
          PROVE  \/ before[i].id \in Ids(after)
                 \/ i + max_queue_size <= Len(before) + Targets
      <4>1. CASE i <= e
        BY <4>1, <3>4, <2>0
      <4>2. CASE i > e
        <5>1. i - e \in 1..Len(after) /\ (i - e) + e = i /\ i <= Len(before)
          BY <4>2, <3>4, <2>0
        <5>2. after[i - e] = before[i]
          BY <5>1, <3>4
        <5> QED BY <5>1, <5>2 DEF Ids
      <4> QED BY <4>1, <4>2, <2>0
    <3>6. ASSUME NEW j \in 1..Len(after)
          PROVE  after[j].id \in Ids(before) \/ after[j].id >= dispatcher.next_delivery_id
      <4>1. CASE j + e <= Len(before)
        <5>1. j + e \in 1..Len(before)
          BY <4>1, <3>4, <2>0
        <5> QED BY <4>1, <5>1, <3>4 DEF Ids
      <4> QED BY <4>1, <3>4
    <3>7. \A id \in Ids(after) \ Ids(before) : id >= dispatcher.next_delivery_id
      BY <3>6 DEF Ids
    <3> QED BY <3>3, <3>5, <3>7, <2>0 DEF before, after
  <2>2. ASSUME NEW id \in 1..MaxDeliveries, NEW success \in BOOLEAN,
               record_attempt_result(id, success)
        PROVE  Caused
    <3>1. PICK i \in 1..Len(dispatcher.queue) : dispatcher' = Settle(dispatcher, i, success)
      BY <2>2 DEF record_attempt_result
    <3>2. /\ \A j \in 1..Len(dispatcher.queue) :
                \/ \E k \in 1..Len(dispatcher'.queue) :
                      dispatcher'.queue[k].id = dispatcher.queue[j].id
                \/ \E k \in 1..Len(dispatcher'.history) :
                      dispatcher'.history[k].id = dispatcher.queue[j].id
          /\ \A k \in 1..Len(dispatcher'.queue) :
                \E j \in 1..Len(dispatcher.queue) :
                   dispatcher'.queue[k].id = dispatcher.queue[j].id
      BY <3>1, <2>0, SettleSound
    <3> DEFINE gone == dispatcher'.history
    <3>3. \A j \in 1..Len(before) : before[j].id \in Ids(after) \cup Ids(gone)
      <4> HIDE DEF before, after, gone
      <4> QED BY <3>2 DEF Ids, before, after, gone
    <3>4. Ids(after) \subseteq Ids(before)
      <4>1. \A k \in 1..Len(after) : \E j \in 1..Len(before) : after[k].id = before[j].id
        BY <3>2
      <4> HIDE DEF before, after
      <4> QED BY <4>1 DEF Ids
    <3> QED BY <3>3, <3>4
  <2>3. CASE WebhookIdle
    BY <2>3 DEF WebhookIdle
  <2> HIDE DEF Caused
  <2> QED BY <2>1, <2>2, <2>3 DEF WebhookNext
<1> QED BY <1>1, WebhookIInvHolds, PTL DEF WebhookSpec, LeavesForCause

---------------------------------------------------------------------------
(* The verification cache.                                                 *)

Proofs == [is_valid : Verdicts, until : Nat]

LEMMA Lives == \A ttl \in CustomTtls \cup {DefaultTtl} : ttl \in Nat
BY CacheAssumption

(* An entry is the latest verification of its signature, until the instant *)
(* that one was stored for; an answer is one such, and still fresh.        *)
CInv ==
    /\ CacheTypeOK
    /\ proof \in [Signatures -> Proofs \cup {NoEntry}]
    /\ \A s \in Signatures : cache[s] # NoEntry =>
          /\ proof[s] # NoEntry
          /\ cache[s].is_valid = proof[s].is_valid
          /\ cache[s].cached_at + cache[s].ttl = proof[s].until
    /\ answer # NoEntry =>
          /\ answer.signature \in Signatures
          /\ proof[answer.signature] # NoEntry
          /\ answer.is_valid = proof[answer.signature].is_valid
          /\ uptime < proof[answer.signature].until

LEMMA InitCInv == CacheInit => CInv
BY CacheAssumption DEF CacheInit, CInv, CacheTypeOK

(* get: what is fresh is answered, what is not goes.                       *)
LEMMA GetCInv == ASSUME CInv, NEW s \in Signatures, get(s) PROVE CInv'
<1> USE CacheAssumption DEF CInv
<1>1. CASE cache[s] # NoEntry /\ Fresh(cache[s])
  <2>1. /\ answer' = [signature |-> s, is_valid |-> cache[s].is_valid]
        /\ cache' = cache /\ uptime' = uptime /\ proof' = proof
    BY <1>1 DEF get
  <2>2. cache[s] \in CachedVerification /\ uptime \in Nat
    BY <1>1 DEF CacheTypeOK
  <2>3. uptime < cache[s].cached_at + cache[s].ttl
    <3>1. cache[s].cached_at \in Nat
      BY <2>2 DEF CachedVerification
    <3>2. cache[s].ttl \in Nat
      BY <2>2, Lives DEF CachedVerification
    <3>3. uptime - cache[s].cached_at < cache[s].ttl
      BY <1>1 DEF Fresh
    <3> QED
      BY <2>2, <3>1, <3>2, <3>3
  <2>4. answer'.signature = s /\ answer'.is_valid = cache[s].is_valid
    BY <2>1
  <2>5. uptime < proof[s].until /\ proof[s] # NoEntry /\ answer'.is_valid = proof[s].is_valid
    BY <1>1, <2>3, <2>4
  <2>6. CacheTypeOK'
    BY <2>1 DEF CacheTypeOK
  <2> QED
    BY <2>1, <2>4, <2>5, <2>6
<1>2. CASE ~(cache[s] # NoEntry /\ Fresh(cache[s]))
  <2>1. /\ answer' = NoEntry /\ cache' = [cache EXCEPT ![s] = NoEntry]
        /\ uptime' = uptime /\ proof' = proof
    BY <1>2 DEF get
  <2> QED
    BY <2>1 DEF CacheTypeOK
<1> QED
  BY <1>1, <1>2

(* insert: the entry, and with it the latest verification, is replaced.    *)
LEMMA InsertCInv ==
    ASSUME CInv, NEW s \in Signatures, NEW v \in Verdicts,
           NEW ttl \in CustomTtls \cup {DefaultTtl}, insert(s, v, ttl)
    PROVE  CInv'
<1> USE CacheAssumption DEF CInv
<1> DEFINE entry == [is_valid |-> v, cached_at |-> uptime, ttl |-> ttl]
           latest == [is_valid |-> v, until |-> uptime + ttl]
<1>1. /\ cache' = [cache EXCEPT ![s] = entry] /\ proof' = [proof EXCEPT ![s] = latest]
      /\ answer' = NoEntry /\ uptime' = uptime
  BY DEF insert
<1>2. entry \in CachedVerification /\ uptime \in Nat /\ ttl \in Nat
  <2>1. uptime \in 0..CacheHorizon
    BY DEF CacheTypeOK
  <2>2. uptime \in Nat /\ ttl \in Nat
    BY <2>1, Lives
  <2> QED
    BY <2>1, <2>2 DEF CachedVerification
<1>3. latest \in Proofs /\ latest # NoEntry
  BY <1>2 DEF Proofs
<1>4. /\ entry.is_valid = latest.is_valid
      /\ entry.cached_at + entry.ttl = latest.until
  OBVIOUS
<1> HIDE DEF entry, latest
<1>5. CacheTypeOK' /\ proof' \in [Signatures -> Proofs \cup {NoEntry}]
  BY <1>1, <1>2, <1>3 DEF CacheTypeOK
<1>6. ASSUME NEW q \in Signatures, cache'[q] # NoEntry
      PROVE  /\ proof'[q] # NoEntry
             /\ cache'[q].is_valid = proof'[q].is_valid
             /\ cache'[q].cached_at + cache'[q].ttl = proof'[q].until
  <2>1. CASE q = s
    BY <1>1, <1>3, <1>4, <2>1 DEF CacheTypeOK
  <2>2. CASE q # s
    BY <1>1, <1>6, <2>2 DEF CacheTypeOK
  <2> QED
    BY <2>1, <2>2
<1> QED
  BY <1>1, <1>5, <1>6

LEMMA NextCInv == CInv /\ [CacheNext]_store => CInv'
<1> SUFFICES ASSUME CInv, [CacheNext]_store PROVE CInv'
  OBVIOUS
<1>1. CASE CacheTick
  BY <1>1, CacheAssumption DEF CacheTick, CInv, CacheTypeOK
<1>2. CASE clear
  BY <1>2 DEF clear, CInv, CacheTypeOK
<1>3. CASE UNCHANGED store
  BY <1>3 DEF store, CInv, CacheTypeOK
<1> QED
  BY <1>1, <1>2, <1>3, GetCInv, InsertCInv DEF CacheNext

(* VerificationCache::get: an answer is the latest verification stored for *)
(* its signature since the cache was cleared, and within that one's life.  *)
THEOREM AnswersAreCurrent == CacheSpec => []AnswersCurrent
<1>1. CInv => AnswersCurrent
  BY DEF CInv, AnswersCurrent
<1> QED
  BY <1>1, InitCInv, NextCInv, PTL DEF CacheSpec

---------------------------------------------------------------------------
(* The settlement ledger.                                                  *)

Holds(s, x) == \E i \in 1..Len(s) : s[i] = x

LEMMA HoldsAppended ==
    ASSUME NEW T, NEW s \in Seq(T), NEW x \in T, NEW y
    PROVE  Holds(Append(s, x), y) <=> Holds(s, y) \/ x = y
<1>1. /\ Len(s) \in Nat /\ Len(Append(s, x)) = Len(s) + 1 /\ Append(s, x)[Len(s) + 1] = x
      /\ \A i \in 1..Len(s) : Append(s, x)[i] = s[i]
  OBVIOUS
<1>2. QED
  BY <1>1 DEF Holds

(* The first of its positions.                                             *)
LEMMA FirstHeld ==
    ASSUME NEW T, NEW s \in Seq(T), NEW e, Holds(s, e)
    PROVE  \E k \in 1..Len(s) : s[k] = e /\ \A j \in 1..(k - 1) : s[j] # e
<1> DEFINE I == {i \in 1..Len(s) : s[i] = e}
<1>1. Len(s) \in Nat /\ I \in SUBSET Nat /\ I # {}
  BY DEF Holds
<1>2. Min(I) \in I /\ \A n \in I : Min(I) <= n
  <2> HIDE DEF I
  <2> QED BY <1>1, LeastExists
<1>3. \A j \in 1..(Min(I) - 1) : j \notin I
  <2>1. Min(I) \in Nat
    BY <1>1, <1>2
  <2> HIDE DEF I
  <2> QED BY <1>2, <2>1
<1>4. \A j \in 1..(Min(I) - 1) : s[j] # e
  <2>1. Min(I) \in 1..Len(s)
    BY <1>2
  <2>2. \A j \in 1..(Min(I) - 1) : j \in 1..Len(s)
    BY <1>1, <2>1
  <2> QED BY <1>3, <2>2
<1>5. QED
  BY <1>2, <1>4

(* It is the one removed.                                                  *)
LEMMA FirstRemoved ==
    ASSUME NEW T, NEW s \in Seq(T), NEW e, NEW k \in 1..Len(s), s[k] = e,
           \A j \in 1..(k - 1) : s[j] # e
    PROVE  RemoveFirst(s, e) = RemoveAt(s, k)
<1> DEFINE I == {i \in 1..Len(s) : s[i] = e}
<1>1. Len(s) \in Nat /\ I \in SUBSET Nat /\ I # {} /\ k \in I
  OBVIOUS
<1>2. Min(I) \in I /\ \A n \in I : Min(I) <= n
  <2> HIDE DEF I
  <2> QED BY <1>1, LeastExists
<1>3. Min(I) = k
  <2>1. Min(I) \in Nat /\ Min(I) >= 1 /\ Min(I) <= k /\ k \in Nat /\ s[Min(I)] = e
    BY <1>1, <1>2
  <2>2. Min(I) \notin 1..(k - 1)
    BY <2>1
  <2> HIDE DEF I
  <2> QED BY <2>1, <2>2
<1>4. SelectInSeq(s, LAMBDA v : v = e) = Min(I)
  BY <1>1 DEF SelectInSeq
<1>5. \E i \in 1..Len(s) : s[i] = e
  OBVIOUS
<1>6. QED
  BY <1>3, <1>4, <1>5 DEF RemoveFirst

LEMMA AbsentRemoved ==
    ASSUME NEW s, NEW e, ~Holds(s, e)
    PROVE  RemoveFirst(s, e) = s
BY DEF Holds, RemoveFirst

LEMMA RemovalType ==
    ASSUME NEW T, NEW s \in Seq(T), NEW e
    PROVE  /\ RemoveFirst(s, e) \in Seq(T)
           /\ Len(RemoveFirst(s, e)) = IF Holds(s, e) THEN Len(s) - 1 ELSE Len(s)
<1>1. CASE Holds(s, e)
  <2>1. PICK k \in 1..Len(s) : s[k] = e /\ \A j \in 1..(k - 1) : s[j] # e
    BY <1>1, FirstHeld
  <2>2. RemoveFirst(s, e) = RemoveAt(s, k)
    BY <2>1, FirstRemoved
  <2>3. RemoveAt(s, k) \in Seq(T) /\ Len(RemoveAt(s, k)) = Len(s) - 1
    BY RemovedAt
  <2>4. QED
    BY <1>1, <2>2, <2>3
<1>2. CASE ~Holds(s, e)
  BY <1>2, AbsentRemoved
<1>3. QED
  BY <1>1, <1>2

(* Removal and a member more at the end.                                   *)
LEMMA RemovedBefore ==
    ASSUME NEW T, NEW s \in Seq(T), NEW e, NEW x \in T, Holds(s, e)
    PROVE  RemoveFirst(Append(s, x), e) = Append(RemoveFirst(s, e), x)
<1> DEFINE longer == Append(s, x)  m == Len(s)
<1>1. PICK k \in 1..m : s[k] = e /\ \A j \in 1..(k - 1) : s[j] # e
  BY FirstHeld
<1>2. /\ m \in Nat /\ longer \in Seq(T) /\ Len(longer) = m + 1 /\ longer[m + 1] = x
      /\ \A i \in 1..m : longer[i] = s[i]
  OBVIOUS
<1> HIDE DEF longer, m
<1>3. k \in 1..Len(longer) /\ longer[k] = e /\ \A j \in 1..(k - 1) : longer[j] # e
  BY <1>1, <1>2
<1>4. RemoveFirst(longer, e) = RemoveAt(longer, k)
  BY <1>2, <1>3, FirstRemoved
<1>5. RemoveFirst(s, e) = RemoveAt(s, k)
  BY <1>1, FirstRemoved DEF m
<1> DEFINE a == RemoveAt(longer, k)  b == RemoveAt(s, k)
<1>6. /\ a \in Seq(T) /\ Len(a) = m
      /\ \A j \in 1..m : a[j] = longer[IF j < k THEN j ELSE j + 1]
  <2>1. /\ a \in Seq(T) /\ Len(a) = Len(longer) - 1
        /\ \A j \in 1..(Len(longer) - 1) : a[j] = longer[IF j < k THEN j ELSE j + 1]
    BY <1>2, <1>3, RemovedAt
  <2> HIDE DEF a
  <2> QED BY <1>2, <2>1
<1>7. /\ b \in Seq(T) /\ Len(b) = m - 1
      /\ \A j \in 1..(m - 1) : b[j] = s[IF j < k THEN j ELSE j + 1]
  BY <1>1, RemovedAt DEF m
<1> HIDE DEF a, b
<1>8. /\ Append(b, x) \in Seq(T) /\ Len(Append(b, x)) = m /\ Append(b, x)[m] = x
      /\ \A j \in 1..(m - 1) : Append(b, x)[j] = b[j]
  BY <1>1, <1>2, <1>7
<1>9. \A j \in 1..m : a[j] = Append(b, x)[j]
  <2> SUFFICES ASSUME NEW j \in 1..m PROVE a[j] = Append(b, x)[j]
    OBVIOUS
  <2>1. CASE j = m
    BY <1>1, <1>2, <1>6, <1>8, <2>1
  <2>2. CASE j # m
    <3>1. j \in 1..(m - 1) /\ (IF j < k THEN j ELSE j + 1) \in 1..m
      BY <1>2, <2>2
    <3>2. QED
      BY <1>2, <1>6, <1>7, <1>8, <3>1
  <2>3. QED
    BY <2>1, <2>2
<1>10. a = Append(b, x)
  BY <1>6, <1>8, <1>9, SeqEqual
<1>11. QED
  BY <1>4, <1>5, <1>10 DEF a, b, longer

LEMMA RemovedLast ==
    ASSUME NEW T, NEW s \in Seq(T), NEW e \in T, ~Holds(s, e)
    PROVE  RemoveFirst(Append(s, e), e) = s
<1> DEFINE longer == Append(s, e)  m == Len(s)
<1>1. /\ m \in Nat /\ longer \in Seq(T) /\ Len(longer) = m + 1 /\ longer[m + 1] = e
      /\ \A i \in 1..m : longer[i] = s[i]
  OBVIOUS
<1>2. \A i \in 1..m : s[i] # e
  BY DEF Holds
<1> HIDE DEF longer, m
<1>3. /\ m + 1 \in 1..Len(longer) /\ \A j \in 1..(m + 1 - 1) : longer[j] # e
  BY <1>1, <1>2
<1>4. RemoveFirst(longer, e) = RemoveAt(longer, m + 1)
  BY <1>1, <1>3, FirstRemoved
<1> DEFINE a == RemoveAt(longer, m + 1)
<1>5. /\ a \in Seq(T) /\ Len(a) = m
      /\ \A j \in 1..m : a[j] = longer[j]
  <2>1. /\ a \in Seq(T) /\ Len(a) = Len(longer) - 1
        /\ \A j \in 1..(Len(longer) - 1) : a[j] = longer[IF j < m + 1 THEN j ELSE j + 1]
    BY <1>1, <1>3, RemovedAt
  <2> HIDE DEF a
  <2> QED BY <1>1, <2>1
<1> HIDE DEF a
<1>6. a = s
  BY <1>1, <1>5, SeqEqual DEF m
<1>7. QED
  BY <1>4, <1>6 DEF a, longer

(* f gathers those of s that are in S.                                     *)
Gathers(f, s, S) ==
    /\ f[0] = << >>
    /\ \A n \in Nat : f[n + 1] = IF s[n + 1] \in S THEN Append(f[n], s[n + 1]) ELSE f[n]
    /\ Those(s, S) = f[Len(s)]

LEMMA ThoseGathered == \A s, S : \E f : Gathers(f, s, S)
<1> SUFFICES ASSUME NEW s, NEW S PROVE \E f : Gathers(f, s, S)
  OBVIOUS
<1> DEFINE kept[n \in Nat] ==
               IF n = 0 THEN << >>
               ELSE IF s[n] \in S THEN Append(kept[n - 1], s[n]) ELSE kept[n - 1]
           Grown(v, n) == IF s[n] \in S THEN Append(v, s[n]) ELSE v
<1>1. Those(s, S) = kept[Len(s)]
  BY DEF Those
<1>2. NatInductiveDefHypothesis(kept, << >>, Grown)
  BY DEF NatInductiveDefHypothesis
<1> HIDE DEF kept, Grown
<1>3. NatInductiveDefConclusion(kept, << >>, Grown)
  BY <1>2, NatInductiveDef
<1>4. /\ kept[0] = << >>
      /\ \A n \in Nat : kept[n + 1] = Grown(kept[n], n + 1)
  BY <1>3 DEF NatInductiveDefConclusion
<1>5. QED
  BY <1>1, <1>4 DEF Grown, Gathers

LEMMA ThoseOfNone == \A S : Those(<< >>, S) = << >>
<1> SUFFICES ASSUME NEW S PROVE Those(<< >>, S) = << >>
  OBVIOUS
<1>1. Len(<< >>) = 0
  OBVIOUS
<1>2. QED
  BY <1>1, ThoseGathered DEF Gathers

LEMMA ThoseAppended ==
    ASSUME NEW T, NEW s \in Seq(T), NEW x \in T, NEW S
    PROVE  Those(Append(s, x), S) = IF x \in S THEN Append(Those(s, S), x) ELSE Those(s, S)
<1> DEFINE longer == Append(s, x)  m == Len(s)
<1>1. /\ m \in Nat /\ Len(longer) = m + 1 /\ longer[m + 1] = x
      /\ \A i \in 1..m : longer[i] = s[i]
  OBVIOUS
<1> HIDE DEF longer
<1>2. PICK g : Gathers(g, longer, S)
  BY ThoseGathered
<1>3. PICK f : Gathers(f, s, S)
  BY ThoseGathered
<1> HIDE DEF m
<1> DEFINE I == {n \in Nat : n <= m => g[n] = f[n]}
<1>4. I \in SUBSET Nat /\ 0 \in I
  BY <1>2, <1>3 DEF Gathers
<1>5. ASSUME NEW n \in I PROVE n + 1 \in I
  <2> SUFFICES ASSUME n + 1 <= m PROVE g[n + 1] = f[n + 1]
    OBVIOUS
  <2>1. n \in Nat /\ n + 1 \in 1..m /\ g[n] = f[n]
    BY <1>1
  <2>2. longer[n + 1] = s[n + 1]
    BY <1>1, <2>1
  <2>3. QED
    BY <1>2, <1>3, <2>1, <2>2 DEF Gathers
<1>6. I = Nat
  <2> HIDE DEF I
  <2> QED BY <1>4, <1>5, NatSet
<1>7. g[m] = f[m]
  BY <1>1, <1>6
<1>8. g[m + 1] = IF x \in S THEN Append(g[m], x) ELSE g[m]
  BY <1>1, <1>2 DEF Gathers
<1>9. Those(longer, S) = g[m + 1] /\ Those(s, S) = f[m]
  BY <1>1, <1>2, <1>3 DEF Gathers, m
<1>10. QED
  BY <1>7, <1>8, <1>9 DEF longer

(* What is gathered is a sequence of those members of s that are in S.     *)
LEMMA ThoseHeld ==
    ASSUME NEW T, NEW s \in Seq(T), NEW S
    PROVE  Those(s, S) \in Seq(T) /\ \A y : Holds(Those(s, S), y) <=> Holds(s, y) /\ y \in S
<1> DEFINE P(t) == Those(t, S) \in Seq(T) /\ \A y : Holds(Those(t, S), y) <=> Holds(t, y) /\ y \in S
           I == {n \in Nat : \A t \in Seq(T) : Len(t) = n => P(t)}
<1>1. P(<< >>)
  <2>1. Those(<< >>, S) = << >> /\ << >> \in Seq(T)
    BY ThoseOfNone
  <2>2. \A y : ~Holds(<< >>, y)
    BY DEF Holds
  <2>3. QED
    BY <2>1, <2>2
<1>2. ASSUME NEW t \in Seq(T), NEW x \in T, P(t) PROVE P(Append(t, x))
  <2>1. CASE x \in S
    <3>1. Those(Append(t, x), S) = Append(Those(t, S), x)
      BY <2>1, ThoseAppended
    <3>2. Append(Those(t, S), x) \in Seq(T)
      BY <1>2
    <3>3. \A y : Holds(Append(Those(t, S), x), y) <=> Holds(Those(t, S), y) \/ x = y
      BY <1>2, HoldsAppended
    <3>4. \A y : Holds(Append(t, x), y) <=> Holds(t, y) \/ x = y
      BY HoldsAppended
    <3>5. QED
      BY <1>2, <2>1, <3>1, <3>2, <3>3, <3>4
  <2>2. CASE x \notin S
    <3>1. Those(Append(t, x), S) = Those(t, S)
      BY <2>2, ThoseAppended
    <3>2. \A y : Holds(Append(t, x), y) <=> Holds(t, y) \/ x = y
      BY HoldsAppended
    <3>3. QED
      BY <1>2, <2>2, <3>1, <3>2
  <2>3. QED
    BY <2>1, <2>2
<1> HIDE DEF P
<1>3. I \in SUBSET Nat /\ 0 \in I
  <2>1. \A t \in Seq(T) : Len(t) = 0 => t = << >>
    OBVIOUS
  <2>2. QED
    BY <1>1, <2>1
<1>4. ASSUME NEW n \in I PROVE n + 1 \in I
  <2> SUFFICES ASSUME NEW t \in Seq(T), Len(t) = n + 1 PROVE P(t)
    OBVIOUS
  <2> n \in Nat /\ t # << >>
    BY <1>3
  <2>1. PICK u \in Seq(T), x \in T : t = Append(u, x)
    BY SequenceEmptyOrAppend
  <2>2. Len(u) = n
    BY <2>1
  <2>3. QED
    BY <1>2, <2>1, <2>2
<1>5. I = Nat
  <2> HIDE DEF I
  <2> QED BY <1>3, <1>4, NatSet
<1>6. P(s)
  <2>1. Len(s) \in Nat
    OBVIOUS
  <2>2. QED
    BY <1>5, <2>1
<1>7. QED
  BY <1>6 DEF P

(* Removal and gathering commute.                                          *)
LEMMA ThoseRemoved ==
    ASSUME NEW T, NEW s \in Seq(T), NEW S, NEW e
    PROVE  Those(RemoveFirst(s, e), S) =
              IF e \in S THEN RemoveFirst(Those(s, S), e) ELSE Those(s, S)
<1> DEFINE P(t) == Those(RemoveFirst(t, e), S) =
                      IF e \in S THEN RemoveFirst(Those(t, S), e) ELSE Those(t, S)
           I == {n \in Nat : \A t \in Seq(T) : Len(t) = n => P(t)}
<1>1. P(<< >>)
  <2>1. Those(<< >>, S) = << >> /\ ~Holds(<< >>, e)
    BY ThoseOfNone DEF Holds
  <2>2. QED
    BY <2>1, AbsentRemoved
<1>2. ASSUME NEW t \in Seq(T), NEW x \in T, P(t) PROVE P(Append(t, x))
  <2> DEFINE l == Append(t, x)  k == Those(t, S)
  <2>1. k \in Seq(T) /\ \A y : Holds(k, y) <=> Holds(t, y) /\ y \in S
    BY ThoseHeld
  <2>2. Those(l, S) = IF x \in S THEN Append(k, x) ELSE k
    BY ThoseAppended
  <2>3. CASE Holds(t, e)
    <3>1. RemoveFirst(l, e) = Append(RemoveFirst(t, e), x)
      BY <2>3, RemovedBefore
    <3>2. RemoveFirst(t, e) \in Seq(T)
      BY RemovalType
    <3>3. Those(RemoveFirst(l, e), S) =
             IF x \in S THEN Append(Those(RemoveFirst(t, e), S), x)
                        ELSE Those(RemoveFirst(t, e), S)
      BY <3>1, <3>2, ThoseAppended
    <3>4. e \in S => RemoveFirst(Append(k, x), e) = Append(RemoveFirst(k, e), x)
      BY <2>1, <2>3, RemovedBefore
    <3> HIDE DEF l, k
    <3>5. QED
      BY <1>2, <2>2, <3>3, <3>4 DEF l, k
  <2>4. CASE ~Holds(t, e) /\ x = e
    <3>1. RemoveFirst(l, e) = t
      BY <2>4, RemovedLast
    <3>2. e \in S => RemoveFirst(Append(k, e), e) = k
      BY <2>1, <2>4, RemovedLast
    <3> HIDE DEF l, k
    <3>3. QED
      BY <2>2, <2>4, <3>1, <3>2 DEF l, k
  <2>5. CASE ~Holds(t, e) /\ x # e
    <3>1. ~Holds(l, e)
      BY <2>5, HoldsAppended
    <3>2. RemoveFirst(l, e) = l
      BY <3>1, AbsentRemoved
    <3>3. ~Holds(Those(l, S), e)
      <4>1. l \in Seq(T)
        OBVIOUS
      <4> HIDE DEF l
      <4>2. QED
        BY <3>1, <4>1, ThoseHeld
    <3>4. RemoveFirst(Those(l, S), e) = Those(l, S)
      BY <3>3, AbsentRemoved
    <3> HIDE DEF l
    <3>5. QED
      BY <3>2, <3>4 DEF l
  <2>6. QED
    BY <2>3, <2>4, <2>5
<1> HIDE DEF P
<1>3. I \in SUBSET Nat /\ 0 \in I
  <2>1. \A t \in Seq(T) : Len(t) = 0 => t = << >>
    OBVIOUS
  <2>2. QED
    BY <1>1, <2>1
<1>4. ASSUME NEW n \in I PROVE n + 1 \in I
  <2> SUFFICES ASSUME NEW t \in Seq(T), Len(t) = n + 1 PROVE P(t)
    OBVIOUS
  <2> n \in Nat /\ t # << >>
    BY <1>3
  <2>1. PICK u \in Seq(T), x \in T : t = Append(u, x)
    BY SequenceEmptyOrAppend
  <2>2. Len(u) = n
    BY <2>1
  <2>3. QED
    BY <1>2, <2>1, <2>2
<1>5. I = Nat
  <2> HIDE DEF I
  <2> QED BY <1>3, <1>4, NatSet
<1>6. P(s)
  <2>1. Len(s) \in Nat
    OBVIOUS
  <2>2. QED
    BY <1>5, <2>1
<1>7. QED
  BY <1>6 DEF P

(* The indexes of a ledger are in step with its queue.                     *)
Indexed(inner) ==
    /\ inner.records \in Seq(SettlementRecord)
    /\ inner.by_tx \in [Keyed -> SettlementRecord \cup {NoRecord}]
    /\ inner.by_payer \in [Payers -> Seq(SettlementRecord)]
    /\ \A n \in Networks, h \in Hashes :
          Those(inner.records, OfKey(n, h)) =
              IF inner.by_tx[<<n, h>>] = NoRecord THEN << >> ELSE <<inner.by_tx[<<n, h>>]>>
    /\ \A a \in Accounts :
          Those(inner.by_payer[Lower[a]], InAscii(a)) = Those(inner.records, InAscii(a))

(* The keys of the indexes, and whom a record counts for.                  *)
LEMMA KeysOfRecords ==
    ASSUME NEW r \in SettlementRecord
    PROVE  /\ r # NoRecord
           /\ r.network \in Networks /\ r.payer \in Payers /\ r.payer.account \in Accounts
           /\ HasKey(r) => r.tx \in Hashes /\ transaction_key(r) \in Keyed
           /\ \A n \in Networks, h \in Hashes :
                 r \in OfKey(n, h) <=> HasKey(r) /\ transaction_key(r) = <<n, h>>
           /\ ToLower(r.payer) \in Payers /\ ToAsciiLower(r.payer) \in Payers
           /\ ToLower(r.payer) = Lower[r.payer.account]
           /\ \A a \in Accounts : Lower[a] \in Payers /\ (r \in InAscii(a) <=>
                 r.payer.account = a /\ r.payer.spelling # "unicode_upper")
           /\ \A a \in Accounts : r \in InAscii(a) <=> ToAsciiLower(r.payer) = Lower[a]
<1>1. r # NoRecord
  BY LedgerAssumption DEF SettlementRecord, Payers
<1>2. r.network \in Networks /\ r.payer \in Payers /\ r.payer.account \in Accounts
  BY DEF SettlementRecord, Payers
<1>3. HasKey(r) => r.tx \in Hashes /\ transaction_key(r) \in Keyed
  BY <1>2 DEF SettlementRecord, HasKey, transaction_key, Keyed
<1>4. \A n \in Networks, h \in Hashes :
         r \in OfKey(n, h) <=> HasKey(r) /\ transaction_key(r) = <<n, h>>
  BY <1>2, <1>3, LedgerAssumption DEF OfKey, HasKey, transaction_key
<1>5. \A a \in Accounts : Lower[a] = [account |-> a, spelling |-> "lower"] /\ Lower[a] \in Payers
  BY LedgerAssumption DEF Lower, Payers
<1>6. /\ ToLower(r.payer) = Lower[r.payer.account] /\ ToLower(r.payer) \in Payers
      /\ ToAsciiLower(r.payer) \in Payers
  BY <1>2, <1>5 DEF ToLower, ToAsciiLower
<1>7. \A a \in Accounts : r \in InAscii(a) <=> r.payer.account = a /\ r.payer.spelling # "unicode_upper"
  BY DEF InAscii
<1>8. \A a \in Accounts : r \in InAscii(a) <=> ToAsciiLower(r.payer) = Lower[a]
  <2> SUFFICES ASSUME NEW a \in Accounts
               PROVE  r \in InAscii(a) <=> ToAsciiLower(r.payer) = Lower[a]
    OBVIOUS
  <2>0. \A b \in Accounts : Lower[b].account = b /\ Lower[b].spelling = "lower"
    BY DEF Lower
  <2>1. Lower[r.payer.account] = Lower[a] <=> r.payer.account = a
    BY <1>2, <2>0
  <2>2. r.payer.spelling = "unicode_upper" => r.payer # Lower[a]
    BY <2>0
  <2>3. QED
    BY <1>7, <2>1, <2>2 DEF ToAsciiLower, ToLower
<1>9. QED
  BY <1>1, <1>2, <1>3, <1>4, <1>5, <1>6, <1>7, <1>8

(* A record of the queue is the one its transaction is known by.           *)
LEMMA IndexOfHeld ==
    ASSUME NEW inner, Indexed(inner), NEW r \in SettlementRecord, HasKey(r),
           Holds(inner.records, r)
    PROVE  inner.by_tx[transaction_key(r)] = r
<1> DEFINE n == r.network  h == r.tx  k == Those(inner.records, OfKey(n, h))
<1>1. n \in Networks /\ h \in Hashes /\ transaction_key(r) = <<n, h>> /\ r \in OfKey(n, h)
  BY KeysOfRecords DEF transaction_key
<1>2. Holds(k, r)
  BY <1>1, ThoseHeld DEF Indexed
<1>3. k = IF inner.by_tx[<<n, h>>] = NoRecord THEN << >> ELSE <<inner.by_tx[<<n, h>>]>>
  BY <1>1 DEF Indexed
<1> HIDE DEF k
<1>4. QED
  BY <1>1, <1>2, <1>3 DEF Holds

(* And the one a transaction is known by is in the queue.                  *)
LEMMA HeldOfIndex ==
    ASSUME NEW inner, Indexed(inner), NEW n \in Networks, NEW h \in Hashes,
           inner.by_tx[<<n, h>>] # NoRecord
    PROVE  /\ inner.by_tx[<<n, h>>] \in OfKey(n, h)
           /\ Holds(inner.records, inner.by_tx[<<n, h>>])
<1> DEFINE p == inner.by_tx[<<n, h>>]  k == Those(inner.records, OfKey(n, h))
<1>1. k = <<p>>
  BY DEF Indexed
<1>2. Holds(<<p>>, p)
  BY DEF Holds
<1>3. QED
  BY <1>1, <1>2, ThoseHeld DEF Indexed

(* A record leaves the queue and the indexes together.                     *)
LEMMA DiscardIndexed ==
    ASSUME NEW inner, Indexed(inner), NEW r \in SettlementRecord,
           HasKey(r) => inner.by_tx[transaction_key(r)] = r
    PROVE  /\ Indexed(Discard(inner, r))
           /\ Discard(inner, r).records = RemoveFirst(inner.records, r)
           /\ \A k \in Keyed : Discard(inner, r).by_tx[k] =
                 IF HasKey(r) /\ k = transaction_key(r) THEN NoRecord ELSE inner.by_tx[k]
<1> DEFINE d == Discard(inner, r)
<1>1. /\ d.records = RemoveFirst(inner.records, r)
      /\ d.by_tx = IF HasKey(r) THEN [inner.by_tx EXCEPT ![transaction_key(r)] = NoRecord]
                                ELSE inner.by_tx
      /\ d.by_payer = [inner.by_payer EXCEPT
                          ![ToAsciiLower(r.payer)] = RemoveFirst(inner.by_payer[ToAsciiLower(r.payer)], r)]
  BY DEF Discard, remove_indexes
<1> HIDE DEF d
<1>2. d.records \in Seq(SettlementRecord)
  BY <1>1, RemovalType DEF Indexed
<1>3. /\ d.by_tx \in [Keyed -> SettlementRecord \cup {NoRecord}]
      /\ \A k \in Keyed : d.by_tx[k] =
            IF HasKey(r) /\ k = transaction_key(r) THEN NoRecord ELSE inner.by_tx[k]
  BY <1>1, KeysOfRecords DEF Indexed
<1>4. /\ d.by_payer \in [Payers -> Seq(SettlementRecord)]
      /\ \A p \in Payers : d.by_payer[p] =
            IF p = ToAsciiLower(r.payer) THEN RemoveFirst(inner.by_payer[p], r) ELSE inner.by_payer[p]
  <2>1. RemoveFirst(inner.by_payer[ToAsciiLower(r.payer)], r) \in Seq(SettlementRecord)
    BY KeysOfRecords, RemovalType DEF Indexed
  <2>2. QED
    BY <1>1, <2>1, KeysOfRecords DEF Indexed
<1>5. ASSUME NEW n \in Networks, NEW h \in Hashes
      PROVE  Those(d.records, OfKey(n, h)) =
                IF d.by_tx[<<n, h>>] = NoRecord THEN << >> ELSE <<d.by_tx[<<n, h>>]>>
  <2> DEFINE k == Those(inner.records, OfKey(n, h))
  <2>1. Those(d.records, OfKey(n, h)) = IF r \in OfKey(n, h) THEN RemoveFirst(k, r) ELSE k
    BY <1>1, ThoseRemoved DEF Indexed
  <2>2. k = IF inner.by_tx[<<n, h>>] = NoRecord THEN << >> ELSE <<inner.by_tx[<<n, h>>]>>
    BY DEF Indexed
  <2>3. <<n, h>> \in Keyed
    BY DEF Keyed
  <2>4. CASE r \in OfKey(n, h)
    <3>1. HasKey(r) /\ transaction_key(r) = <<n, h>> /\ r # NoRecord
      BY <2>4, KeysOfRecords
    <3>2. k = <<r>>
      BY <2>2, <3>1
    <3>3. RemoveFirst(<<r>>, r) = << >>
      <4>1. <<r>> = Append(<< >>, r) /\ << >> \in Seq(SettlementRecord)
        OBVIOUS
      <4>2. ~Holds(<< >>, r)
        BY DEF Holds
      <4>3. RemoveFirst(Append(<< >>, r), r) = << >>
        BY <4>1, <4>2, RemovedLast
      <4>4. QED
        BY <4>1, <4>3
    <3>4. d.by_tx[<<n, h>>] = NoRecord
      BY <1>3, <2>3, <3>1
    <3> HIDE DEF k
    <3>5. QED
      BY <2>1, <2>4, <3>2, <3>3, <3>4
  <2>5. CASE r \notin OfKey(n, h)
    <3>1. d.by_tx[<<n, h>>] = inner.by_tx[<<n, h>>]
      BY <1>3, <2>3, <2>5, KeysOfRecords
    <3> HIDE DEF k
    <3>2. QED
      BY <2>1, <2>2, <2>5, <3>1
  <2>6. QED
    BY <2>4, <2>5
<1>6. ASSUME NEW a \in Accounts
      PROVE  Those(d.by_payer[Lower[a]], InAscii(a)) = Those(d.records, InAscii(a))
  <2> DEFINE q == inner.by_payer[Lower[a]]
  <2>1. /\ Lower[a] \in Payers /\ q \in Seq(SettlementRecord)
        /\ Those(q, InAscii(a)) = Those(inner.records, InAscii(a))
    BY KeysOfRecords DEF Indexed
  <2>2. Those(d.records, InAscii(a)) =
           IF r \in InAscii(a) THEN RemoveFirst(Those(inner.records, InAscii(a)), r)
                               ELSE Those(inner.records, InAscii(a))
    BY <1>1, ThoseRemoved DEF Indexed
  <2>3. d.by_payer[Lower[a]] = IF r \in InAscii(a) THEN RemoveFirst(q, r) ELSE q
    BY <1>4, <2>1, KeysOfRecords
  <2> HIDE DEF q
  <2>4. Those(RemoveFirst(q, r), InAscii(a)) =
           IF r \in InAscii(a) THEN RemoveFirst(Those(q, InAscii(a)), r) ELSE Those(q, InAscii(a))
    BY <2>1, ThoseRemoved
  <2>5. QED
    BY <2>1, <2>2, <2>3, <2>4
<1>7. QED
  BY <1>1, <1>2, <1>3, <1>4, <1>5, <1>6 DEF Indexed, d

(* What is replaced leaves nothing of its transaction.                     *)
LEMMA SupersedeIndexed ==
    ASSUME NEW inner, Indexed(inner), NEW r \in SettlementRecord
    PROVE  /\ Indexed(Supersede(inner, r))
           /\ HasKey(r) => Supersede(inner, r).by_tx[transaction_key(r)] = NoRecord
           /\ \A k \in Keyed : ~(HasKey(r) /\ k = transaction_key(r))
                 => Supersede(inner, r).by_tx[k] = inner.by_tx[k]
           /\ Previous(inner, r) = NoRecord => Supersede(inner, r) = inner
           /\ Previous(inner, r) # NoRecord =>
                 Len(Supersede(inner, r).records) = Len(inner.records) - 1
<1>1. CASE Previous(inner, r) = NoRecord
  BY <1>1 DEF Supersede, Previous
<1>2. CASE Previous(inner, r) # NoRecord
  <2> DEFINE p == Previous(inner, r)  n == r.network  h == r.tx
  <2>1. HasKey(r) /\ p = inner.by_tx[<<n, h>>] /\ n \in Networks /\ h \in Hashes
    BY <1>2, KeysOfRecords DEF Previous, transaction_key
  <2>2. p \in OfKey(n, h) /\ Holds(inner.records, p)
    BY <1>2, <2>1, HeldOfIndex
  <2>3. p \in SettlementRecord /\ HasKey(p) /\ transaction_key(p) = <<n, h>>
    BY <2>1, <2>2, KeysOfRecords DEF OfKey
  <2>4. Supersede(inner, r) = Discard(inner, p) /\ transaction_key(r) = <<n, h>> /\ <<n, h>> \in Keyed
    BY <1>2, <2>1 DEF Supersede, transaction_key, Keyed
  <2> HIDE DEF p
  <2>5. /\ Indexed(Discard(inner, p))
        /\ Discard(inner, p).records = RemoveFirst(inner.records, p)
        /\ \A k \in Keyed : Discard(inner, p).by_tx[k] =
              IF HasKey(p) /\ k = transaction_key(p) THEN NoRecord ELSE inner.by_tx[k]
    BY <2>1, <2>3, DiscardIndexed
  <2>6. Len(RemoveFirst(inner.records, p)) = Len(inner.records) - 1
    BY <2>2, RemovalType DEF Indexed
  <2>7. \A k \in Keyed : Supersede(inner, r).by_tx[k] =
              IF k = transaction_key(r) THEN NoRecord ELSE inner.by_tx[k]
    BY <2>3, <2>4, <2>5
  <2>8. Supersede(inner, r).by_tx[transaction_key(r)] = NoRecord
    BY <2>4, <2>7
  <2>9. Indexed(Supersede(inner, r)) /\ Len(Supersede(inner, r).records) = Len(inner.records) - 1
    BY <2>4, <2>5, <2>6
  <2>10. QED
    BY <1>2, <2>1, <2>7, <2>8, <2>9
<1>3. QED
  BY <1>1, <1>2

(* There is room for a record.                                             *)
LEMMA MakeRoomIndexed ==
    ASSUME NEW inner, Indexed(inner), Len(inner.records) <= MaxRecords
    PROVE  /\ Indexed(MakeRoom(inner))
           /\ Len(MakeRoom(inner).records) < MaxRecords
           /\ \A k \in Keyed : MakeRoom(inner).by_tx[k] =
                 IF /\ Len(inner.records) >= MaxRecords /\ HasKey(inner.records[1])
                    /\ k = transaction_key(inner.records[1])
                 THEN NoRecord ELSE inner.by_tx[k]
           /\ Len(inner.records) >= MaxRecords =>
                 MakeRoom(inner).records = Tail(inner.records) /\ inner.records # << >>
<1>1. MaxRecords \in Nat /\ MaxRecords > 0 /\ Len(inner.records) \in Nat
  BY LedgerAssumption DEF MaxRecords, Indexed
<1>2. CASE Len(inner.records) < MaxRecords
  BY <1>1, <1>2 DEF MakeRoom
<1>3. CASE Len(inner.records) >= MaxRecords
  <2> DEFINE e == inner.records[1]
  <2>1. inner.records \in Seq(SettlementRecord) /\ 1 \in 1..Len(inner.records)
    BY <1>1, <1>3 DEF Indexed
  <2>2. e \in SettlementRecord /\ Holds(inner.records, e) /\ Head(inner.records) = e
    BY <2>1 DEF Holds
  <2>3. HasKey(e) => inner.by_tx[transaction_key(e)] = e
    BY <2>2, IndexOfHeld
  <2>4. MakeRoom(inner) = Discard(inner, e)
    BY <1>3, <2>2 DEF MakeRoom
  <2>5. RemoveFirst(inner.records, e) = Tail(inner.records)
    <3>1. RemoveFirst(inner.records, e) = RemoveAt(inner.records, 1)
      BY <2>1, FirstRemoved
    <3> DEFINE s == inner.records  a == RemoveAt(s, 1)
    <3>2. /\ a \in Seq(SettlementRecord) /\ Len(a) = Len(s) - 1
          /\ \A j \in 1..(Len(s) - 1) : a[j] = s[IF j < 1 THEN j ELSE j + 1]
      BY <2>1, RemovedAt
    <3>3. /\ Tail(s) \in Seq(SettlementRecord) /\ Len(Tail(s)) = Len(s) - 1
          /\ \A j \in 1..(Len(s) - 1) : Tail(s)[j] = s[j + 1]
      BY <2>1
    <3> HIDE DEF a, s
    <3>4. \A j \in 1..Len(a) : a[j] = Tail(s)[j]
      BY <3>2, <3>3
    <3>5. a = Tail(s)
      BY <3>2, <3>3, <3>4, SeqEqual
    <3>6. QED
      BY <3>1, <3>5 DEF a, s
  <2> HIDE DEF e
  <2>6. /\ Indexed(Discard(inner, e))
        /\ Discard(inner, e).records = RemoveFirst(inner.records, e)
        /\ \A k \in Keyed : Discard(inner, e).by_tx[k] =
              IF HasKey(e) /\ k = transaction_key(e) THEN NoRecord ELSE inner.by_tx[k]
    BY <2>2, <2>3, DiscardIndexed
  <2>7. Len(RemoveFirst(inner.records, e)) = Len(inner.records) - 1
    BY <2>1, <2>2, RemovalType
  <2>8. inner.records # << >>
    BY <2>1
  <2>9. QED
    BY <1>1, <1>3, <2>4, <2>5, <2>6, <2>7, <2>8 DEF e
<1>4. QED
  BY <1>1, <1>2, <1>3

(* A record enters them together.                                          *)
LEMMA InsertIndexed ==
    ASSUME NEW inner, Indexed(inner), NEW r \in SettlementRecord,
           HasKey(r) => inner.by_tx[transaction_key(r)] = NoRecord
    PROVE  /\ Indexed(Insert(inner, r))
           /\ Insert(inner, r).records = Append(inner.records, r)
           /\ \A k \in Keyed : Insert(inner, r).by_tx[k] =
                 IF HasKey(r) /\ k = transaction_key(r) THEN r ELSE inner.by_tx[k]
<1> DEFINE d == Insert(inner, r)
<1>1. /\ d.records = Append(inner.records, r)
      /\ d.by_tx = IF HasKey(r) THEN [inner.by_tx EXCEPT ![transaction_key(r)] = r]
                                ELSE inner.by_tx
      /\ d.by_payer = [inner.by_payer EXCEPT
                          ![ToLower(r.payer)] = Append(inner.by_payer[ToLower(r.payer)], r)]
  BY DEF Insert
<1> HIDE DEF d
<1>2. d.records \in Seq(SettlementRecord)
  BY <1>1 DEF Indexed
<1>3. /\ d.by_tx \in [Keyed -> SettlementRecord \cup {NoRecord}]
      /\ \A k \in Keyed : d.by_tx[k] =
            IF HasKey(r) /\ k = transaction_key(r) THEN r ELSE inner.by_tx[k]
  BY <1>1, KeysOfRecords DEF Indexed
<1>4. /\ d.by_payer \in [Payers -> Seq(SettlementRecord)]
      /\ \A p \in Payers : d.by_payer[p] =
            IF p = ToLower(r.payer) THEN Append(inner.by_payer[p], r) ELSE inner.by_payer[p]
  <2>1. Append(inner.by_payer[ToLower(r.payer)], r) \in Seq(SettlementRecord)
    BY KeysOfRecords DEF Indexed
  <2>2. QED
    BY <1>1, <2>1, KeysOfRecords DEF Indexed
<1>5. ASSUME NEW n \in Networks, NEW h \in Hashes
      PROVE  Those(d.records, OfKey(n, h)) =
                IF d.by_tx[<<n, h>>] = NoRecord THEN << >> ELSE <<d.by_tx[<<n, h>>]>>
  <2> DEFINE k == Those(inner.records, OfKey(n, h))
  <2>1. Those(d.records, OfKey(n, h)) = IF r \in OfKey(n, h) THEN Append(k, r) ELSE k
    <3>1. inner.records \in Seq(SettlementRecord)
      BY DEF Indexed
    <3>2. Those(Append(inner.records, r), OfKey(n, h)) =
             IF r \in OfKey(n, h) THEN Append(k, r) ELSE k
      BY <3>1, ThoseAppended
    <3>3. QED
      BY <1>1, <3>2
  <2>2. k = IF inner.by_tx[<<n, h>>] = NoRecord THEN << >> ELSE <<inner.by_tx[<<n, h>>]>>
    BY DEF Indexed
  <2>3. <<n, h>> \in Keyed
    BY DEF Keyed
  <2>4. CASE r \in OfKey(n, h)
    <3>1. HasKey(r) /\ transaction_key(r) = <<n, h>> /\ r # NoRecord
      BY <2>4, KeysOfRecords
    <3>2. k = << >> /\ d.by_tx[<<n, h>>] = r
      BY <1>3, <2>2, <2>3, <3>1
    <3>3. Append(<< >>, r) = <<r>>
      OBVIOUS
    <3> HIDE DEF k
    <3>4. QED
      BY <2>1, <2>4, <3>1, <3>2, <3>3
  <2>5. CASE r \notin OfKey(n, h)
    <3>1. d.by_tx[<<n, h>>] = inner.by_tx[<<n, h>>]
      BY <1>3, <2>3, <2>5, KeysOfRecords
    <3> HIDE DEF k
    <3>2. QED
      BY <2>1, <2>2, <2>5, <3>1
  <2>6. QED
    BY <2>4, <2>5
<1>6. ASSUME NEW a \in Accounts
      PROVE  Those(d.by_payer[Lower[a]], InAscii(a)) = Those(d.records, InAscii(a))
  <2> DEFINE q == inner.by_payer[Lower[a]]
  <2>1. /\ Lower[a] \in Payers /\ q \in Seq(SettlementRecord)
        /\ Those(q, InAscii(a)) = Those(inner.records, InAscii(a))
    BY KeysOfRecords DEF Indexed
  <2>2. Those(d.records, InAscii(a)) =
           IF r \in InAscii(a) THEN Append(Those(inner.records, InAscii(a)), r)
                               ELSE Those(inner.records, InAscii(a))
    <3>1. inner.records \in Seq(SettlementRecord)
      BY DEF Indexed
    <3>2. Those(Append(inner.records, r), InAscii(a)) =
             IF r \in InAscii(a) THEN Append(Those(inner.records, InAscii(a)), r)
                                 ELSE Those(inner.records, InAscii(a))
      BY <3>1, ThoseAppended
    <3>3. QED
      BY <1>1, <3>2
  <2>3. d.by_payer[Lower[a]] = IF Lower[a] = ToLower(r.payer) THEN Append(q, r) ELSE q
    BY <1>4, <2>1
  <2>4. r \in InAscii(a) => Lower[a] = ToLower(r.payer)
    BY KeysOfRecords
  <2> HIDE DEF q
  <2>5. Those(Append(q, r), InAscii(a)) =
           IF r \in InAscii(a) THEN Append(Those(q, InAscii(a)), r) ELSE Those(q, InAscii(a))
    BY <2>1, ThoseAppended
  <2>6. CASE r \in InAscii(a)
    BY <2>1, <2>2, <2>3, <2>4, <2>5, <2>6
  <2>7. CASE r \notin InAscii(a)
    BY <2>1, <2>2, <2>3, <2>5, <2>7
  <2>8. QED
    BY <2>6, <2>7
<1>7. QED
  BY <1>1, <1>2, <1>3, <1>4, <1>5, <1>6 DEF Indexed, d

LedgerIInv == Indexed(ledger) /\ Len(ledger.records) <= MaxRecords

(* A step, by its three sections.                                          *)
LEMMA RecordIndexed ==
    ASSUME LedgerIInv, NEW r \in SettlementRecord, Record(r)
    PROVE  /\ LedgerIInv'
           /\ \A k \in Keyed : ledger'.by_tx[k] =
                 IF HasKey(r) /\ k = transaction_key(r) THEN r
                 ELSE MakeRoom(Supersede(ledger, r)).by_tx[k]
<1> DEFINE s == Supersede(ledger, r)  m == MakeRoom(s)
<1>1. /\ Indexed(s)
      /\ HasKey(r) => s.by_tx[transaction_key(r)] = NoRecord
      /\ Previous(ledger, r) = NoRecord => s = ledger
      /\ Previous(ledger, r) # NoRecord => Len(s.records) = Len(ledger.records) - 1
  BY SupersedeIndexed DEF LedgerIInv
<1>2. MaxRecords \in Nat /\ Len(ledger.records) \in Nat /\ Len(s.records) \in Nat
  BY <1>1, LedgerAssumption DEF MaxRecords, Indexed, LedgerIInv
<1>3. Len(s.records) <= MaxRecords
  BY <1>1, <1>2 DEF LedgerIInv
<1> HIDE DEF s
<1>4. /\ Indexed(m) /\ Len(m.records) < MaxRecords
      /\ \A k \in Keyed : m.by_tx[k] = s.by_tx[k] \/ m.by_tx[k] = NoRecord
  BY <1>1, <1>3, MakeRoomIndexed
<1>5. HasKey(r) => m.by_tx[transaction_key(r)] = NoRecord
  BY <1>1, <1>4, KeysOfRecords
<1> HIDE DEF m
<1>6. /\ Indexed(Insert(m, r))
      /\ Insert(m, r).records = Append(m.records, r)
      /\ \A k \in Keyed : Insert(m, r).by_tx[k] =
            IF HasKey(r) /\ k = transaction_key(r) THEN r ELSE m.by_tx[k]
  BY <1>4, <1>5, InsertIndexed
<1>7. ledger' = Insert(m, r)
  BY DEF Record, m, s
<1>8. Len(Append(m.records, r)) <= MaxRecords
  BY <1>2, <1>4 DEF Indexed
<1>9. Indexed(ledger)'
  BY <1>6, <1>7 DEF Indexed
<1>10. QED
  BY <1>6, <1>7, <1>8, <1>9 DEF LedgerIInv, m, s

LEMMA LedgerStarts == LedgerInit => LedgerIInv
<1> SUFFICES ASSUME LedgerInit PROVE LedgerIInv
  OBVIOUS
<1>1. /\ ledger.records = << >>
      /\ ledger.by_tx = [k \in Keyed |-> NoRecord]
      /\ ledger.by_payer = [p \in Payers |-> << >>]
  BY DEF LedgerInit
<1>2. MaxRecords \in Nat /\ Len(<< >>) = 0
  BY LedgerAssumption DEF MaxRecords
<1>3. << >> \in Seq(SettlementRecord)
  OBVIOUS
<1>4. \A n \in Networks, h \in Hashes : ledger.by_tx[<<n, h>>] = NoRecord
  BY <1>1 DEF Keyed
<1>5. \A a \in Accounts : ledger.by_payer[Lower[a]] = << >>
  BY <1>1, LedgerAssumption DEF Lower, Payers
<1>6. Indexed(ledger)
  BY <1>1, <1>3, <1>4, <1>5, ThoseOfNone DEF Indexed
<1>7. QED
  BY <1>1, <1>2, <1>6 DEF LedgerIInv

LEMMA LedgerIInvHolds == LedgerSpec => []LedgerIInv
<1>1. LedgerIInv /\ [LedgerNext]_ledger => LedgerIInv'
  BY RecordIndexed DEF LedgerNext, LedgerIInv, Indexed
<1>2. QED
  BY <1>1, LedgerStarts, PTL DEF LedgerSpec

(* The records summed up to n, by a walk along the queue.                  *)
LEMMA SummaryCounts ==
    ASSUME ledger.records \in Seq(SettlementRecord)
    PROVE  /\ summary.successful_count = Len(Those(ledger.records, Confirmed))
           /\ summary.successful_count + summary.failed_count = Len(ledger.records)
<1> DEFINE Zero == [total_settled_volume |-> 0, successful_count |-> 0, failed_count |-> 0]
           counted[n \in Nat] ==
              IF n = 0
              THEN [total_settled_volume |-> 0, successful_count |-> 0, failed_count |-> 0]
              ELSE LET sum == counted[n - 1]  r == ledger.records[n]
                   IN  IF r.success
                       THEN [total_settled_volume |-> AddVolume(sum.total_settled_volume, r.amount),
                             successful_count |-> sum.successful_count + 1,
                             failed_count |-> sum.failed_count]
                       ELSE [sum EXCEPT !.failed_count = @ + 1]
           Added(sum, n) ==
              IF ledger.records[n].success
              THEN [total_settled_volume |->
                       AddVolume(sum.total_settled_volume, ledger.records[n].amount),
                    successful_count |-> sum.successful_count + 1,
                    failed_count |-> sum.failed_count]
              ELSE [sum EXCEPT !.failed_count = @ + 1]
           m == Len(ledger.records)
<1>1. summary = counted[m]
  BY DEF summary
<1>2. NatInductiveDefHypothesis(counted, Zero, Added)
  BY DEF NatInductiveDefHypothesis
<1> HIDE DEF counted, Added
<1>3. NatInductiveDefConclusion(counted, Zero, Added)
  BY <1>2, NatInductiveDef
<1>4. /\ counted[0] = Zero
      /\ \A n \in Nat : counted[n + 1] = Added(counted[n], n + 1)
  BY <1>3 DEF NatInductiveDefConclusion
<1>5. PICK f : Gathers(f, ledger.records, Confirmed)
  BY ThoseGathered
<1> DEFINE Tallied(v, n) ==
              /\ v \in [total_settled_volume : Nat, successful_count : Nat, failed_count : Nat]
              /\ f[n] \in Seq(SettlementRecord) /\ v.successful_count = Len(f[n])
              /\ v.successful_count + v.failed_count = n
           I == {n \in Nat : n <= m => Tallied(counted[n], n)}
<1>6. I \in SUBSET Nat /\ 0 \in I
  <2>1. f[0] = << >> /\ << >> \in Seq(SettlementRecord) /\ Len(<< >>) = 0
    BY <1>5 DEF Gathers
  <2>2. Tallied(counted[0], 0)
    BY <1>4, <2>1
  <2> HIDE DEF Tallied
  <2>3. QED
    BY <2>2
<1>7. ASSUME NEW n \in I PROVE n + 1 \in I
  <2> HIDE DEF Tallied
  <2> SUFFICES ASSUME n + 1 <= m PROVE Tallied(counted[n + 1], n + 1)
    OBVIOUS
  <2> DEFINE v == counted[n]  r == ledger.records[n + 1]
  <2>1. m \in Nat /\ n \in Nat /\ n + 1 \in 1..m
    OBVIOUS
  <2>2. Tallied(v, n)
    BY <2>1
  <2> USE DEF Tallied
  <2>3. r \in SettlementRecord /\ r.success \in BOOLEAN /\ r.amount \in Nat
    <3>1. r \in SettlementRecord
      BY <2>1
    <3> HIDE DEF r
    <3>2. r.success \in BOOLEAN /\ r.amount \in Amounts
      BY <3>1 DEF SettlementRecord
    <3>3. Amounts \subseteq Nat
      <4>1. Amounts \subseteq 0..MaxVolume /\ MaxVolume \in Nat
        BY LedgerAssumption
      <4>2. QED
        BY <4>1
    <3>4. QED
      BY <3>1, <3>2, <3>3
  <2>4. counted[n + 1] = IF r.success
              THEN [total_settled_volume |-> AddVolume(v.total_settled_volume, r.amount),
                    successful_count |-> v.successful_count + 1,
                    failed_count |-> v.failed_count]
              ELSE [v EXCEPT !.failed_count = @ + 1]
    BY <1>4, <2>1 DEF Added
  <2>5. f[n + 1] = IF r.success THEN Append(f[n], r) ELSE f[n]
    BY <1>5, <2>1, <2>3 DEF Gathers, Confirmed
  <2> HIDE DEF v, r, m
  <2>6. AddVolume(v.total_settled_volume, r.amount) \in Nat
    BY <2>2, <2>3, LedgerAssumption DEF AddVolume
  <2>7. CASE r.success
    <3>1. counted[n + 1] = [total_settled_volume |-> AddVolume(v.total_settled_volume, r.amount),
                            successful_count |-> v.successful_count + 1,
                            failed_count |-> v.failed_count]
      BY <2>4, <2>7
    <3>2. counted[n + 1] \in [total_settled_volume : Nat, successful_count : Nat, failed_count : Nat]
      BY <2>2, <2>6, <3>1
    <3>3. /\ counted[n + 1].successful_count = v.successful_count + 1
          /\ counted[n + 1].failed_count = v.failed_count
      BY <3>1
    <3>4. f[n + 1] \in Seq(SettlementRecord) /\ Len(f[n + 1]) = Len(f[n]) + 1
      BY <2>2, <2>3, <2>5, <2>7
    <3>5. /\ v.successful_count \in Nat /\ v.failed_count \in Nat /\ n \in Nat
          /\ v.successful_count + v.failed_count = n
      BY <2>1, <2>2
    <3>6. Len(f[n]) = v.successful_count
      BY <2>2
    <3> DEFINE c == counted[n + 1]
    <3> HIDE DEF c
    <3>7. c.successful_count + c.failed_count = n + 1
      BY <3>3, <3>5 DEF c
    <3>8. counted[n + 1].successful_count = Len(f[n + 1])
      BY <3>3, <3>4, <3>6
    <3>9. QED
      BY <3>2, <3>4, <3>8, <3>7 DEF c
  <2>8. CASE ~r.success
    <3>1. counted[n + 1] = [v EXCEPT !.failed_count = @ + 1]
      BY <2>4, <2>8
    <3>2. counted[n + 1] \in [total_settled_volume : Nat, successful_count : Nat, failed_count : Nat]
      BY <2>2, <3>1
    <3>3. /\ counted[n + 1].successful_count = v.successful_count
          /\ counted[n + 1].failed_count = v.failed_count + 1
      BY <2>2, <3>1
    <3>4. f[n + 1] = f[n] /\ Len(f[n + 1]) = Len(f[n])
      BY <2>5, <2>8
    <3>5. /\ v.successful_count \in Nat /\ v.failed_count \in Nat /\ n \in Nat
          /\ v.successful_count + v.failed_count = n
      BY <2>1, <2>2
    <3>6. Len(f[n]) = v.successful_count
      BY <2>2
    <3> DEFINE c == counted[n + 1]
    <3> HIDE DEF c
    <3>7. c.successful_count + c.failed_count = n + 1
      BY <3>3, <3>5 DEF c
    <3>8. counted[n + 1].successful_count = Len(f[n + 1])
      BY <3>3, <3>4, <3>6
    <3>9. QED
      BY <2>2, <3>2, <3>4, <3>8, <3>7 DEF c
  <2>9. QED
    BY <2>7, <2>8
<1>8. I = Nat
  <2> HIDE DEF I
  <2> QED BY <1>6, <1>7, NatSet
<1>9. m \in Nat /\ m <= m
  OBVIOUS
<1>10. Tallied(counted[m], m)
  BY <1>8, <1>9
<1>11. Those(ledger.records, Confirmed) = f[m]
  BY <1>5 DEF Gathers
<1>12. QED
  BY <1>1, <1>10, <1>11

LEMMA RetainedHeld == \A r : r \in Retained <=> Holds(ledger.records, r)
BY DEF Retained, Holds

(* What a lookup without the network finds.                                *)
LEMMA HomesKnown ==
    ASSUME LedgerIInv, NEW h \in Hashes
    PROVE  LET homes == {r.network : r \in {q \in Retained : q.tx = h}}
           IN  /\ get_by_tx(h) # NoRecord => get_by_tx(h) \in Retained
               /\ get_by_tx(h) # NoRecord <=> \E n \in Networks : homes = {n}
<1> DEFINE homes == {r.network : r \in {q \in Retained : q.tx = h}}
           known == {n \in Networks : ledger.by_tx[<<n, h>>] # NoRecord}
<1>1. Indexed(ledger)
  BY DEF LedgerIInv
<1>2. \A r : Holds(ledger.records, r) => r \in SettlementRecord
  BY <1>1 DEF Holds, Indexed
<1>3. ASSUME NEW n \in known PROVE n \in homes /\ ledger.by_tx[<<n, h>>] \in Retained
  <2>1. /\ ledger.by_tx[<<n, h>>] \in OfKey(n, h)
        /\ Holds(ledger.records, ledger.by_tx[<<n, h>>])
    BY <1>1, HeldOfIndex
  <2>2. QED
    BY <2>1, RetainedHeld DEF OfKey
<1>4. ASSUME NEW n \in homes PROVE n \in known
  <2>1. PICK r \in Retained : r.tx = h /\ r.network = n
    OBVIOUS
  <2>2. Holds(ledger.records, r) /\ r \in SettlementRecord
    BY <1>2, <2>1, RetainedHeld
  <2>3. HasKey(r) /\ transaction_key(r) = <<n, h>> /\ n \in Networks /\ r # NoRecord
    BY <2>1, <2>2, KeysOfRecords, LedgerAssumption DEF HasKey, transaction_key
  <2>4. ledger.by_tx[<<n, h>>] = r
    BY <1>1, <2>2, <2>3, IndexOfHeld
  <2>5. QED
    BY <2>3, <2>4
<1>5. homes = known
  BY <1>3, <1>4
<1>6. get_by_tx(h) = IF \E n \in known : known = {n}
                    THEN ledger.by_tx[<<CHOOSE n \in known : TRUE, h>>] ELSE NoRecord
  BY DEF get_by_tx
<1>7. CASE \E n \in known : known = {n}
  <2>1. PICK n \in known : known = {n}
    BY <1>7
  <2>2. (CHOOSE x \in known : TRUE) = n
    <3> HIDE DEF known
    <3>1. (CHOOSE x \in known : TRUE) \in known
      BY <2>1
    <3>2. QED
      BY <2>1, <3>1
  <2>3. get_by_tx(h) = ledger.by_tx[<<n, h>>]
    BY <1>6, <1>7, <2>2
  <2>4. n \in Networks /\ ledger.by_tx[<<n, h>>] # NoRecord
    BY <2>1
  <2> HIDE DEF known, homes
  <2>5. QED
    BY <1>3, <1>5, <2>1, <2>3, <2>4 DEF homes
<1>8. CASE ~(\E n \in known : known = {n})
  <2>1. get_by_tx(h) = NoRecord
    BY <1>6, <1>8
  <2>2. ~(\E n \in Networks : known = {n})
    BY <1>8
  <2> HIDE DEF known
  <2>3. QED
    BY <1>5, <2>1, <2>2
<1>9. QED
  BY <1>7, <1>8

(* However records are replaced and evicted, every way to look one up      *)
(* agrees with the queue: by transaction, by payer and in sum.             *)
THEOREM LookupsInStep == LedgerSpec => []LookupsAgree
<1>1. LedgerIInv => LookupsAgree
  <2> SUFFICES ASSUME LedgerIInv PROVE LookupsAgree
    OBVIOUS
  <2>1. LedgerTypeOK
    BY DEF LedgerIInv, Indexed, LedgerTypeOK
  <2>2. \A n \in Networks, h \in Hashes :
          Those(ledger.records, OfKey(n, h)) =
              IF get_by_network_tx(n, h) = NoRecord THEN << >> ELSE <<get_by_network_tx(n, h)>>
    BY DEF LedgerIInv, Indexed, get_by_network_tx
  <2>3. /\ summary.successful_count = Len(Those(ledger.records, Confirmed))
        /\ summary.successful_count + summary.failed_count = Len(ledger.records)
    BY SummaryCounts DEF LedgerIInv, Indexed
  <2>4. TransactionsAgree
    BY <2>2, <2>3, HomesKnown DEF TransactionsAgree, LedgerIInv
  <2>5. \A a \in Accounts : find_by_payer(Lower[a]) = ledger.by_payer[Lower[a]]
    <3>1. \A a \in Accounts : Lower[a].account = a
      BY DEF Lower
    <3>2. QED
      BY <3>1 DEF find_by_payer, ToLower
  <2>6. PayersAgree
    BY <2>5 DEF PayersAgree, LedgerIInv, Indexed
  <2>7. QED
    BY <2>1, <2>4, <2>6 DEF LookupsAgree
<1>2. QED
  BY <1>1, LedgerIInvHolds, PTL

(* No call changes or drops a confirmation, but the eviction of the        *)
(* oldest record of a full ledger.                                         *)
THEOREM ConfirmationsStay == LedgerSpec => ConfirmationImmutable
<1> DEFINE Kept == \A i \in 1..Len(ledger.records) :
          LET r == ledger.records[i]
          IN  r.success /\ HasKey(r) /\ (i > 1 \/ Len(ledger.records) < MaxRecords)
              => ledger'.by_tx[transaction_key(r)] = r
<1>1. LedgerIInv /\ [LedgerNext]_ledger => [Kept]_ledger
  <2> SUFFICES ASSUME LedgerIInv, NEW q \in SettlementRecord, Record(q),
                      NEW i \in 1..Len(ledger.records),
                      ledger.records[i].success, HasKey(ledger.records[i]),
                      i > 1 \/ Len(ledger.records) < MaxRecords
               PROVE  ledger'.by_tx[transaction_key(ledger.records[i])] = ledger.records[i]
    BY DEF LedgerNext
  <2> DEFINE r == ledger.records[i]  k == transaction_key(r)  s == Supersede(ledger, q)
  <2>1. Indexed(ledger) /\ r \in SettlementRecord /\ Holds(ledger.records, r)
    BY DEF LedgerIInv, Indexed, Holds
  <2>2. k \in Keyed /\ ledger.by_tx[k] = r /\ r # NoRecord
    BY <2>1, IndexOfHeld, KeysOfRecords
  <2>3. ~(HasKey(q) /\ k = transaction_key(q))
    BY <2>2 DEF Record, Replaceable, Previous
  <2>4. ledger'.by_tx[k] = MakeRoom(s).by_tx[k]
    BY <2>2, <2>3, RecordIndexed
  <2>5. /\ Indexed(s) /\ s.by_tx[k] = r
        /\ Previous(ledger, q) = NoRecord => s = ledger
        /\ Previous(ledger, q) # NoRecord => Len(s.records) = Len(ledger.records) - 1
    BY <2>1, <2>2, <2>3, SupersedeIndexed
  <2>6. /\ MaxRecords \in Nat /\ Len(ledger.records) \in Nat /\ Len(s.records) \in Nat
        /\ Len(ledger.records) <= MaxRecords
    BY <2>1, <2>5, LedgerAssumption DEF MaxRecords, Indexed, LedgerIInv
  <2>7. Len(s.records) <= MaxRecords
    BY <2>5, <2>6
  <2> HIDE DEF s, k, r
  <2>8. /\ Indexed(MakeRoom(s))
        /\ MakeRoom(s).by_tx[k] =
              IF /\ Len(s.records) >= MaxRecords /\ HasKey(s.records[1])
                 /\ k = transaction_key(s.records[1])
              THEN NoRecord ELSE s.by_tx[k]
        /\ Len(s.records) >= MaxRecords => MakeRoom(s).records = Tail(s.records)
    BY <2>2, <2>5, <2>7, MakeRoomIndexed
  <2>9. CASE Len(s.records) >= MaxRecords
    <3>1. s = ledger /\ i > 1
      BY <2>5, <2>6, <2>9
    <3>2. Holds(Tail(ledger.records), r)
      <4>1. /\ ledger.records \in Seq(SettlementRecord) /\ i - 1 \in 1..Len(Tail(ledger.records))
            /\ Tail(ledger.records)[i - 1] = ledger.records[i]
        BY <2>1, <3>1 DEF Indexed
      <4>2. QED
        BY <4>1 DEF Holds, r
    <3>3. MakeRoom(s).by_tx[k] = r
      BY <2>1, <2>8, <2>9, <3>1, <3>2, IndexOfHeld DEF k, r
    <3>4. QED
      BY <2>4, <3>3 DEF k, r
  <2>10. CASE ~(Len(s.records) >= MaxRecords)
    BY <2>4, <2>5, <2>8, <2>10 DEF k, r
  <2>11. QED
    BY <2>9, <2>10
<1>2. QED
  BY <1>1, LedgerIInvHolds, PTL DEF LedgerSpec, ConfirmationImmutable
==============================================================================
