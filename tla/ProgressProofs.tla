--------------------------- MODULE ProgressProofs ---------------------------
(***************************************************************************)
(* What the login limiter and the manual DNS challenge promise, for any    *)
(* number of addresses and logins, of runs of certbot, of domains and of   *)
(* confirmations.                                                          *)
(*                                                                         *)
(* Limiter: the window of an address is bounded by the limit and by the    *)
(* logins that passed check before it was reached.  The invariant counts,  *)
(* for each address, its logins in flight beside its recorded failures: a  *)
(* login that is admitted finds less than the limit recorded, and from     *)
(* then on each failure that is recorded is one login in flight less.      *)
(*                                                                         *)
(* Challenge: the flag that lets a hook go on says nothing of whose it is. *)
(* The invariant says what the undisturbed run knows: no other certbot     *)
(* lives, pending.json and every confirmation that still waits for the DNS *)
(* are its own, and the flag was left for the challenge it shows.          *)
(***************************************************************************)
EXTENDS MCProgress, FiniteSetTheorems, SequenceTheorems, TLAPS

\* rate_limit.py, auth.py: the logins of an address between check and hit.
Verifying(k) == {h \in Handler : pc[h] = "verify" /\ key[h] = k}

Bounded(k) ==
    Len(Pruned(k)) + Cardinality(Verifying(k)) <= MaxAttempts - 1 + Cardinality(Handler)

IInv == TypeOK /\ \A k \in Key : Bounded(k)

-----------------------------------------------------------------------------
\* A set of naturals that is not empty has a least element.
LEMMA LeastNatural ==
    ASSUME NEW S \in SUBSET Nat, S # {}
    PROVE  \E m \in S : \A n \in S : m <= n
<1> DEFINE Below == OpToRel(<, Nat)
<1>1. IsWellFoundedOn(Below, Nat)
  BY NatLessThanWellFounded
<1>2. \A m, n \in S : n < m => <<n, m>> \in Below
  BY Zenon DEF OpToRel
<1> HIDE DEF Below
<1>3. PICK m \in S : \A n \in S : ~ (<<n, m>> \in Below)
  BY <1>1, WFMin
<1>4. \A n \in S : ~ (n < m)
  BY <1>2, <1>3
<1> QED BY <1>4

Age == 0..(Window + 1)

\* The number of hits _prune pops from a deque.
Popped(q) ==
    CHOOSE n \in 0..Len(q) :
        /\ \A i \in 1..n : q[i] > Window
        /\ n < Len(q) => q[n + 1] <= Window

\* What is left of a sequence without its first p elements.
LEMMA RestLength ==
    ASSUME NEW q \in Seq(Age), NEW p \in 0..Len(q)
    PROVE  Len(SubSeq(q, p + 1, Len(q))) = Len(q) - p
<1>1. Len(q) \in Nat /\ p \in Nat /\ p <= Len(q)
  OBVIOUS
<1>2. \A i \in (p + 1)..Len(q) : q[i] \in Age
  BY <1>1
<1> DEFINE m == p + 1
           n == Len(q)
<1>3. m \in Int /\ n \in Int /\ \A i \in m..n : q[i] \in Age
  BY <1>1, <1>2
<1> HIDE DEF m, n
<1>4. Len(SubSeq(q, m, n)) = IF m <= n THEN n - m + 1 ELSE 0
  BY <1>3, SubSeqProperties
<1> QED BY <1>1, <1>4 DEF m, n

\* _prune stops: there is a number of hits to pop, and the rest is left.
LEMMA PruneStops ==
    ASSUME NEW q \in Seq(Age)
    PROVE  /\ Popped(q) \in 0..Len(q)
           /\ \A i \in 1..Popped(q) : q[i] > Window
           /\ Popped(q) < Len(q) => q[Popped(q) + 1] <= Window
           /\ InWindow(q) \in Seq(Age)
           /\ Len(InWindow(q)) = Len(q) - Popped(q)
<1>1. Window \in Nat /\ Len(q) \in Nat
  BY LimiterAssumption
<1> DEFINE stops == {n \in 0..Len(q) : n < Len(q) => q[n + 1] <= Window}
<1>2. stops \in SUBSET Nat /\ Len(q) \in stops
  BY <1>1
<1>3. PICK n \in stops : \A m \in stops : n <= m
  <2> HIDE DEF stops
  <2> QED BY <1>2, LeastNatural
<1>4. \A i \in 1..n : q[i] > Window
  <2> SUFFICES ASSUME NEW i \in 1..n PROVE q[i] > Window
    OBVIOUS
  <2>1. i - 1 \in 0..Len(q) /\ i - 1 < Len(q) /\ ~ (n <= i - 1) /\ (i - 1) + 1 = i
    BY <1>1, <1>3
  <2>2. i - 1 \notin stops
    BY <1>3, <2>1
  <2>3. ~ (q[i] <= Window)
    BY <2>1, <2>2
  <2>4. q[i] \in Nat
    BY <1>1, <1>3 DEF Age
  <2> QED BY <1>1, <2>3, <2>4
<1>5. /\ Popped(q) \in 0..Len(q)
      /\ \A i \in 1..Popped(q) : q[i] > Window
      /\ Popped(q) < Len(q) => q[Popped(q) + 1] <= Window
  BY <1>3, <1>4 DEF Popped
<1>6. InWindow(q) = SubSeq(q, Popped(q) + 1, Len(q))
  BY DEF InWindow, Popped
<1>7. SubSeq(q, Popped(q) + 1, Len(q)) \in Seq(Age)
  BY <1>1, <1>5
<1>8. Len(SubSeq(q, Popped(q) + 1, Len(q))) = Len(q) - Popped(q)
  BY <1>5, RestLength
<1> QED BY <1>5, <1>6, <1>7, <1>8

\* Pruning never lengthens a deque.
LEMMA PruneShortens ==
    ASSUME NEW q \in Seq(Age)
    PROVE  /\ Len(InWindow(q)) \in Nat
           /\ Len(InWindow(q)) <= Len(q)
<1>1. Len(q) \in Nat
  OBVIOUS
<1> QED BY <1>1, PruneStops

\* What was popped at one time would be popped at every later one.
LEMMA AgeingShortens ==
    ASSUME NEW q \in Seq(Age), NEW r \in Seq(Age), Len(r) = Len(q),
           \A i \in 1..Len(q) : r[i] >= q[i]
    PROVE  Len(InWindow(r)) <= Len(InWindow(q))
<1>1. Window \in Nat /\ Len(q) \in Nat
  BY LimiterAssumption
<1>2. /\ Popped(q) \in 0..Len(q)
      /\ \A i \in 1..Popped(q) : q[i] > Window
      /\ Len(InWindow(q)) = Len(q) - Popped(q)
  BY PruneStops
<1>3. /\ Popped(r) \in 0..Len(r)
      /\ Popped(r) < Len(r) => r[Popped(r) + 1] <= Window
      /\ Len(InWindow(r)) = Len(r) - Popped(r)
  BY PruneStops
<1>4. Popped(q) <= Popped(r)
  <2> SUFFICES ASSUME Popped(r) < Popped(q) PROVE FALSE
    BY <1>1, <1>2, <1>3
  <2>1. Popped(r) + 1 \in 1..Popped(q) /\ Popped(r) + 1 \in 1..Len(q) /\ Popped(r) < Len(r)
    BY <1>1, <1>2, <1>3
  <2>2. q[Popped(r) + 1] > Window /\ r[Popped(r) + 1] >= q[Popped(r) + 1]
    BY <1>2, <2>1
  <2>3. q[Popped(r) + 1] \in Nat /\ r[Popped(r) + 1] \in Nat
    BY <1>1, <2>1 DEF Age
  <2> QED BY <1>1, <1>3, <2>1, <2>2, <2>3
<1> QED BY <1>1, <1>2, <1>3, <1>4

-----------------------------------------------------------------------------
\* Of the finitely many handlers, those that verify for an address.
LEMMA VerifyingFinite ==
    ASSUME NEW V \in SUBSET Handler
    PROVE  /\ IsFiniteSet(V)
           /\ Cardinality(V) \in Nat
           /\ Cardinality(Handler) \in Nat
           /\ Cardinality(V) <= Cardinality(Handler)
<1>1. IsFiniteSet(Handler)
  BY LimiterAssumption
<1> QED BY <1>1, FS_Subset, FS_CardinalityType

\* A step that leaves an address no more failures and no more logins keeps its bound.
LEMMA BoundedStays ==
    ASSUME NEW q \in Seq(Age), NEW r \in Seq(Age),
           NEW V \in SUBSET Handler, NEW W \in SUBSET V,
           Len(InWindow(r)) <= Len(InWindow(q)),
           Len(InWindow(q)) + Cardinality(V) <= MaxAttempts - 1 + Cardinality(Handler)
    PROVE  Len(InWindow(r)) + Cardinality(W) <= MaxAttempts - 1 + Cardinality(Handler)
<1>1. MaxAttempts \in Nat
  BY LimiterAssumption
<1>2. Len(InWindow(q)) \in Nat /\ Len(InWindow(r)) \in Nat
  BY PruneShortens
<1>3. IsFiniteSet(V) /\ Cardinality(V) \in Nat /\ Cardinality(Handler) \in Nat
  BY VerifyingFinite
<1>4. Cardinality(W) \in Nat /\ Cardinality(W) <= Cardinality(V)
  BY <1>3, FS_Subset, FS_CardinalityType
<1> QED BY <1>1, <1>2, <1>3, <1>4

-----------------------------------------------------------------------------
(***************************************************************************)
(* Each action keeps the types and the bound.                              *)
(***************************************************************************)
LEMMA InitInvariant == Init => IInv
<1> SUFFICES ASSUME Init PROVE IInv
  OBVIOUS
<1>1. Window \in Nat /\ Lockout \in Nat /\ MaxAttempts \in Nat \ {0}
  BY LimiterAssumption
<1>2. TypeOK
  BY <1>1 DEF Init, TypeOK
<1>3. ASSUME NEW k \in Key PROVE Bounded(k)
  <2>1. hits[k] = << >> /\ hits[k] \in Seq(Age) /\ Len(hits[k]) = 0
    BY DEF Init
  <2>2. Len(InWindow(hits[k])) = 0
    <3>1. Len(InWindow(hits[k])) \in Nat /\ Len(InWindow(hits[k])) <= Len(hits[k])
      BY <2>1, PruneShortens, Zenon
    <3> QED BY <2>1, <3>1
  <2>3. Verifying(k) = {}
    BY DEF Init, Verifying
  <2>4. Cardinality({}) = 0 /\ Cardinality(Handler) \in Nat
    BY FS_EmptySet, VerifyingFinite
  <2> QED BY <1>1, <2>2, <2>3, <2>4 DEF Bounded, Pruned
<1> QED BY <1>2, <1>3 DEF IInv

LEMMA TypeStep == TypeOK /\ [Next]_vars => TypeOK'
<1> SUFFICES ASSUME TypeOK, [Next]_vars PROVE TypeOK'
  OBVIOUS
<1>1. Window \in Nat /\ Lockout \in Nat /\ MaxAttempts \in Nat \ {0}
  BY LimiterAssumption
<1>2. \A k \in Key : hits[k] \in Seq(Age) /\ Pruned(k) \in Seq(Age)
                    /\ Append(Pruned(k), 0) \in Seq(Age)
  <2> SUFFICES ASSUME NEW k \in Key
               PROVE  /\ hits[k] \in Seq(Age) /\ Pruned(k) \in Seq(Age)
                      /\ Append(Pruned(k), 0) \in Seq(Age)
    OBVIOUS
  <2>1. hits[k] \in Seq(Age) /\ 0 \in Age
    BY <1>1 DEF TypeOK, Age
  <2>2. Pruned(k) \in Seq(Age)
    BY <2>1, PruneStops DEF Pruned
  <2> QED BY <2>1, <2>2
<1>3. ASSUME NEW h \in Handler, NEW k \in Key, LoginAdmitted(h, k) PROVE TypeOK'
  BY <1>2, <1>3 DEF LoginAdmitted, TypeOK, Age
<1>4. ASSUME NEW h \in Handler, NEW k \in Key, LoginRefused(h, k) PROVE TypeOK'
  BY <1>1, <1>2, <1>4 DEF LoginRefused, Refusal, TypeOK, Age
<1>5. ASSUME NEW h \in Handler, LoginFails(h) PROVE TypeOK'
  BY <1>1, <1>2, <1>5 DEF LoginFails, Hit, TypeOK, Age
<1>6. ASSUME NEW h \in Handler, LoginSucceeds(h) PROVE TypeOK'
  <2>1. << >> \in Seq(Age)
    OBVIOUS
  <2> QED BY <1>1, <1>6, <2>1 DEF LoginSucceeds, Clear, TypeOK, Age
<1>7. CASE Tick
  <2>1. ASSUME NEW k \in Key PROVE hits'[k] \in Seq(Age)
    <3>1. hits'[k] = [i \in DOMAIN hits[k] |->
              IF hits[k][i] <= Window THEN hits[k][i] + 1 ELSE hits[k][i]]
      BY <1>7, <2>1 DEF Tick
    <3>2. hits[k] \in Seq(Age)
      BY <1>2
    <3>3. Len(hits[k]) \in Nat /\ DOMAIN hits[k] = 1..Len(hits[k])
      BY <3>2
    <3>4. \A i \in 1..Len(hits[k]) : hits'[k][i] \in Age
      BY <1>1, <3>1, <3>2, <3>3 DEF Age
    <3>5. hits'[k] \in [1..Len(hits[k]) -> Age]
      BY <3>1, <3>3, <3>4
    <3> QED BY <3>3, <3>5, SeqDef
  <2>2. DOMAIN hits' = Key /\ locked' \in [Key -> 0..Lockout]
    BY <1>1, <1>7 DEF Tick, TypeOK
  <2>3. hits' \in [Key -> Seq(Age)]
    BY <1>7, <2>1 DEF Tick
  <2> QED BY <1>7, <2>2, <2>3 DEF Tick, TypeOK, Age
<1>8. CASE UNCHANGED vars
  BY <1>8 DEF vars, TypeOK
<1> QED BY <1>3, <1>4, <1>5, <1>6, <1>7, <1>8 DEF Next

\* The clock ages every hit, and the hits stay a deque.
LEMMA TickAges ==
    ASSUME TypeOK, Tick, NEW k \in Key
    PROVE  /\ Len(hits'[k]) = Len(hits[k])
           /\ \A i \in 1..Len(hits[k]) : hits'[k][i] >= hits[k][i]
<1>1. hits'[k] = [i \in DOMAIN hits[k] |->
          IF hits[k][i] <= Window THEN hits[k][i] + 1 ELSE hits[k][i]]
  BY DEF Tick
<1>2. hits[k] \in Seq(Age) /\ Window \in Nat
  BY LimiterAssumption DEF TypeOK, Age
<1>3. Len(hits[k]) \in Nat /\ DOMAIN hits[k] = 1..Len(hits[k])
  BY <1>2
<1>4. DOMAIN hits'[k] = 1..Len(hits[k])
  BY <1>1, <1>3
<1>5. hits'[k] \in [1..Len(hits[k]) -> Nat]
  BY <1>1, <1>2, <1>3 DEF Age
<1>6. hits'[k] \in Seq(Nat) /\ Len(hits'[k]) = Len(hits[k])
  <2>1. hits'[k] \in Seq(Nat)
    BY <1>3, <1>5, SeqDef
  <2>2. DOMAIN hits'[k] = 1..Len(hits'[k]) /\ Len(hits'[k]) \in Nat
    BY <2>1
  <2> QED BY <1>3, <1>4, <2>1, <2>2
<1> QED BY <1>1, <1>2, <1>3, <1>6 DEF Age

LEMMA BoundStep ==
    ASSUME NEW k \in Key
    PROVE  IInv /\ TypeOK' /\ [Next]_vars => Bounded(k)'
<1> SUFFICES ASSUME IInv, TypeOK', [Next]_vars PROVE Bounded(k)'
  OBVIOUS
<1>1. MaxAttempts \in Nat /\ MaxAttempts > 0 /\ Cardinality(Handler) \in Nat
  BY LimiterAssumption, VerifyingFinite
<1>2. /\ \A l \in Key : hits[l] \in Seq(Age)
      /\ hits[k] \in Seq(Age) /\ hits'[k] \in Seq(Age)
      /\ DOMAIN hits = Key
  BY DEF IInv, TypeOK, Age
<1>3. Len(InWindow(hits[k])) + Cardinality(Verifying(k)) <= MaxAttempts - 1 + Cardinality(Handler)
  BY DEF IInv, Bounded, Pruned
<1>4. /\ Verifying(k) \in SUBSET Handler /\ Verifying(k)' \in SUBSET Handler
      /\ Cardinality(Verifying(k)) \in Nat /\ Cardinality(Verifying(k)') \in Nat
      /\ IsFiniteSet(Verifying(k))
      /\ Cardinality(Verifying(k)') <= Cardinality(Handler)
  <2>1. Verifying(k) \in SUBSET Handler /\ Verifying(k)' \in SUBSET Handler
    BY DEF Verifying
  <2> QED BY <2>1, VerifyingFinite
<1>5. /\ Pruned(k) \in Seq(Age)
      /\ Len(Pruned(k)) \in Nat
      /\ Len(InWindow(Pruned(k))) <= Len(InWindow(hits[k]))
  <2>1. Pruned(k) \in Seq(Age)
    BY <1>2, PruneStops DEF Pruned
  <2> QED BY <2>1, PruneShortens DEF Pruned
<1>6. SUFFICES Len(InWindow(hits'[k])) + Cardinality(Verifying(k)')
                   <= MaxAttempts - 1 + Cardinality(Handler)
  BY DEF Bounded, Pruned
<1>7. ASSUME Len(InWindow(hits'[k])) <= Len(InWindow(hits[k])),
             Verifying(k)' \subseteq Verifying(k)
      PROVE  Len(InWindow(hits'[k])) + Cardinality(Verifying(k)')
                 <= MaxAttempts - 1 + Cardinality(Handler)
  BY <1>2, <1>3, <1>4, <1>7, BoundedStays
<1>8. ASSUME NEW h \in Handler, NEW l \in Key, LoginAdmitted(h, l)
      PROVE  Len(InWindow(hits'[k])) + Cardinality(Verifying(k)')
                 <= MaxAttempts - 1 + Cardinality(Handler)
  <2>1. CASE l = k
    <3>1. hits'[k] = Pruned(k) /\ Len(Pruned(k)) < MaxAttempts
      BY <1>2, <1>8, <2>1 DEF LoginAdmitted, Admits
    <3>2. /\ Len(InWindow(hits'[k])) \in Nat
          /\ Len(InWindow(hits'[k])) <= Len(Pruned(k))
      BY <1>5, <3>1, PruneShortens
    <3> QED BY <1>1, <1>4, <1>5, <3>1, <3>2
  <2>2. CASE l # k
    <3>1. hits'[k] = hits[k] /\ Len(InWindow(hits[k])) \in Nat
      BY <1>2, <1>8, <2>2, PruneShortens DEF LoginAdmitted
    <3>2. Verifying(k)' \subseteq Verifying(k)
      BY <1>8, <2>2 DEF LoginAdmitted, Verifying, IInv, TypeOK
    <3> QED BY <1>7, <3>1, <3>2
  <2> QED BY <2>1, <2>2
<1>9. ASSUME NEW h \in Handler, NEW l \in Key, LoginRefused(h, l)
      PROVE  Len(InWindow(hits'[k])) + Cardinality(Verifying(k)')
                 <= MaxAttempts - 1 + Cardinality(Handler)
  <2>1. hits'[k] = Pruned(k) \/ hits'[k] = hits[k]
    BY <1>2, <1>9 DEF LoginRefused, Refusal
  <2>2. Len(InWindow(hits'[k])) <= Len(InWindow(hits[k]))
    BY <1>2, <1>5, <2>1, PruneShortens
  <2>3. Verifying(k)' \subseteq Verifying(k)
    BY <1>9 DEF LoginRefused, Verifying
  <2> QED BY <1>7, <2>2, <2>3
<1>10. ASSUME NEW h \in Handler, LoginFails(h)
       PROVE  Len(InWindow(hits'[k])) + Cardinality(Verifying(k)')
                  <= MaxAttempts - 1 + Cardinality(Handler)
  <2>1. CASE key[h] = k
    <3>1. hits'[k] = Append(Pruned(k), 0)
      BY <1>2, <1>10, <2>1 DEF LoginFails, Hit
    <3>2. Len(hits'[k]) = Len(Pruned(k)) + 1
      BY <1>5, <3>1
    <3>3. /\ Len(InWindow(hits'[k])) \in Nat
          /\ Len(InWindow(hits'[k])) <= Len(hits'[k])
      BY <1>2, PruneShortens
    <3>4. h \in Verifying(k) /\ Verifying(k)' = Verifying(k) \ {h}
      BY <1>10, <2>1 DEF LoginFails, Verifying, IInv, TypeOK
    <3>5. Cardinality(Verifying(k) \ {h}) = Cardinality(Verifying(k)) - 1
      BY <1>4, <3>4, FS_RemoveElement
    <3>6. Len(Pruned(k)) + Cardinality(Verifying(k)) <= MaxAttempts - 1 + Cardinality(Handler)
      BY <1>3 DEF Pruned
    <3> QED BY <1>1, <1>4, <1>5, <3>2, <3>3, <3>4, <3>5, <3>6
  <2>2. CASE key[h] # k
    <3>1. hits'[k] = hits[k] /\ Len(InWindow(hits[k])) \in Nat
      BY <1>2, <1>10, <2>2, PruneShortens DEF LoginFails, Hit
    <3>2. Verifying(k)' \subseteq Verifying(k)
      BY <1>10, <2>2 DEF LoginFails, Verifying, IInv, TypeOK
    <3> QED BY <1>7, <3>1, <3>2
  <2> QED BY <2>1, <2>2
<1>11. ASSUME NEW h \in Handler, LoginSucceeds(h)
       PROVE  Len(InWindow(hits'[k])) + Cardinality(Verifying(k)')
                  <= MaxAttempts - 1 + Cardinality(Handler)
  <2>1. Verifying(k)' \subseteq Verifying(k)
    BY <1>11 DEF LoginSucceeds, Verifying, IInv, TypeOK
  <2>2. hits'[k] = hits[k] \/ hits'[k] = << >>
    BY <1>2, <1>11 DEF LoginSucceeds, Clear
  <2>3. Len(InWindow(hits'[k])) <= Len(InWindow(hits[k]))
    <3>1. /\ Len(InWindow(hits'[k])) \in Nat /\ Len(InWindow(hits[k])) \in Nat
          /\ Len(InWindow(hits'[k])) <= Len(hits'[k])
      BY <1>2, PruneShortens
    <3>2. CASE hits'[k] = << >>
      <4>1. Len(hits'[k]) = 0
        BY <3>2
      <4> QED BY <3>1, <4>1
    <3>3. CASE hits'[k] = hits[k]
      BY <3>1, <3>3
    <3> QED BY <2>2, <3>2, <3>3
  <2> QED BY <1>7, <2>1, <2>3
<1>12. CASE Tick
  <2>1. Len(InWindow(hits'[k])) <= Len(InWindow(hits[k]))
    BY <1>2, <1>12, TickAges, AgeingShortens DEF IInv
  <2>2. Verifying(k)' \subseteq Verifying(k)
    BY <1>12 DEF Tick, Verifying
  <2> QED BY <1>7, <2>1, <2>2
<1>13. CASE UNCHANGED vars
  <2>1. hits'[k] = hits[k] /\ Len(InWindow(hits[k])) \in Nat /\ Verifying(k)' \subseteq Verifying(k)
    BY <1>2, <1>13, PruneShortens DEF vars, Verifying
  <2> QED BY <1>7, <2>1
<1> QED BY <1>8, <1>9, <1>10, <1>11, <1>12, <1>13 DEF Next

LEMMA Invariance == Spec => []IInv
<1>1. IInv /\ [Next]_vars => IInv'
  BY TypeStep, BoundStep DEF IInv
<1> QED BY <1>1, InitInvariant, PTL DEF Spec

-----------------------------------------------------------------------------
\* rate_limit.py, auth.py: however the logins of an address interleave between
\* check and hit, its window holds no more failures than the limit less one and
\* one for every login that can be in flight.
THEOREM LoginWindowBounded == Spec => []WindowBounded
<1>1. IInv => WindowBounded
  <2> SUFFICES ASSUME IInv, NEW k \in Key
               PROVE  Len(Pruned(k)) <= MaxAttempts - 1 + Cardinality(Handler)
    BY DEF WindowBounded
  <2>1. Verifying(k) \in SUBSET Handler
    BY DEF Verifying
  <2>2. Cardinality(Verifying(k)) \in Nat /\ Cardinality(Handler) \in Nat
    BY <2>1, VerifyingFinite
  <2>3. Pruned(k) = InWindow(hits[k]) /\ Len(InWindow(hits[k])) \in Nat
    BY PruneShortens DEF IInv, TypeOK, Age, Pruned
  <2> QED BY <2>2, <2>3, LimiterAssumption DEF IInv, Bounded
<1> QED BY <1>1, Invariance, PTL

\* The types of the limiter's tables and of its handlers.
THEOREM LoginTypeCorrect == Spec => []TypeOK
<1>1. IInv => TypeOK
  BY DEF IInv
<1> QED BY <1>1, Invariance, PTL

-----------------------------------------------------------------------------
(***************************************************************************)
(* The manual DNS challenge.                                               *)
(***************************************************************************)
\* nginx.py: whose certbot lives, whose challenge pending.json shows and whose
\* confirmations still wait for the DNS, in a run that nothing disturbed.
AloneInv(r) ==
    /\ \A k \in Run \ {r} : ~Dns!Live(k)
    /\ pending # Nothing => pending[1] = r
    /\ \A c \in Confirmer : confirm[c] # Nothing => confirm[c][1] = r

\* nginx.py: a flag that the run finds was left for the challenge it shows.
FlagInv(r) ==
    flag => certbot[r].at \in {"wait", "gone"} /\ Dns!Shows(r) \in confirmed

DnsInv == Dns!TypeOK /\ \A r \in clean : AloneInv(r) /\ FlagInv(r)

Certbot ==
    [at : {"unborn", "auth", "wait", "settle", "check", "cleanup", "exit", "gone"},
     domains : 1..MaxDomains, domain : 1..MaxDomains, ok : BOOLEAN]

LEMMA DnsInitInvariant == Dns!Init => DnsInv
<1> SUFFICES ASSUME Dns!Init PROVE DnsInv
  OBVIOUS
<1>1. 1 \in 1..MaxDomains
  BY DomainsAssumption
<1>2. Dns!Unborn \in Certbot
  BY <1>1 DEF Dns!Unborn, Certbot
<1>3. certbot \in [Run -> Certbot]
  BY <1>2 DEF Dns!Init
<1>4. Dns!TypeOK
  BY <1>3 DEF Dns!Init, Dns!TypeOK, Certbot
<1> QED BY <1>4 DEF Dns!Init, DnsInv

LEMMA DnsTypes ==
    ASSUME Dns!TypeOK, [Dns!Next]_Dns!vars
    PROVE  Dns!TypeOK'
<1> USE DEF Dns!TypeOK, Dns!Challenge
<1>1. MaxDomains \in Nat \ {0}
  BY DomainsAssumption
<1>2. ASSUME NEW r \in Run, NEW n \in 1..MaxDomains, Dns!Issue(r, n) PROVE Dns!TypeOK'
  BY ZenonT(30), <1>2 DEF Dns!Issue, Dns!ResetFlag
<1>3. ASSUME NEW r \in Run, Dns!CertbotRefuses(r) PROVE Dns!TypeOK'
  <2>1. [certbot[r] EXCEPT !.at = "exit", !.ok = FALSE] \in Certbot
    BY DEF Certbot
  <2>2. certbot' \in [Run -> Certbot]
    BY <1>3, <2>1 DEF Dns!CertbotRefuses, Certbot
  <2> QED BY <1>3, <2>2 DEF Dns!CertbotRefuses, Dns!folder, Dns!ghosts, Certbot
<1>4. ASSUME NEW r \in Run, Dns!AuthHook(r) PROVE Dns!TypeOK'
  BY <1>4 DEF Dns!AuthHook, Dns!Moves, Dns!Shows, Dns!ghosts
<1>5. ASSUME NEW r \in Run, Dns!HookSees(r) PROVE Dns!TypeOK'
  BY ZenonT(30), <1>5 DEF Dns!HookSees, Dns!Moves, Dns!ghosts
<1>6. ASSUME NEW r \in Run, Dns!HookTimesOut(r) PROVE Dns!TypeOK'
  <2>1. [certbot[r] EXCEPT !.at = "settle", !.ok = FALSE] \in Certbot
    BY DEF Certbot
  <2>2. certbot' \in [Run -> Certbot]
    BY <1>6, <2>1 DEF Dns!HookTimesOut, Certbot
  <2> QED BY <1>6, <2>2 DEF Dns!HookTimesOut, Certbot
<1>7. ASSUME NEW r \in Run, Dns!NextDomain(r) PROVE Dns!TypeOK'
  <2>1. certbot[r] \in Certbot
    BY DEF Certbot
  <2>2. certbot'[r] \in Certbot
    <3>1. certbot[r].domain < certbot[r].domains => certbot[r].domain + 1 \in 1..MaxDomains
      BY <1>1, <2>1 DEF Certbot
    <3>2. /\ [certbot[r] EXCEPT !.at = "check"] \in Certbot
          /\ certbot[r].domain < certbot[r].domains
               => [certbot[r] EXCEPT !.at = "auth", !.domain = certbot[r].domain + 1] \in Certbot
      BY <2>1, <3>1 DEF Certbot
    <3>3. certbot'[r] = IF certbot[r].domain < certbot[r].domains
                          THEN [certbot[r] EXCEPT !.at = "auth", !.domain = certbot[r].domain + 1]
                          ELSE [certbot[r] EXCEPT !.at = "check"]
      BY <1>7 DEF Dns!NextDomain
    <3> QED BY <3>2, <3>3
  <2> QED BY <1>7, <2>2 DEF Dns!NextDomain, Dns!folder, Dns!ghosts, Certbot
<1>8. ASSUME NEW r \in Run, Dns!Validate(r) PROVE Dns!TypeOK'
  <2>1. PICK ok \in BOOLEAN : certbot' = [certbot EXCEPT ![r].at = "cleanup", ![r].ok = ok]
    BY <1>8 DEF Dns!Validate
  <2>2. [certbot[r] EXCEPT !.at = "cleanup", !.ok = ok] \in Certbot
    BY DEF Certbot
  <2>3. certbot' \in [Run -> Certbot]
    BY <2>1, <2>2 DEF Certbot
  <2> QED BY <1>8, <2>3 DEF Dns!Validate, Dns!folder, Dns!ghosts, Certbot
<1>9. ASSUME NEW r \in Run, Dns!CleanupHook(r) PROVE Dns!TypeOK'
  <2>1. certbot[r] \in Certbot
    BY DEF Certbot
  <2>2. certbot'[r] \in Certbot
    <3>1. certbot[r].domain > 1 => certbot[r].domain - 1 \in 1..MaxDomains
      BY <1>1, <2>1 DEF Certbot
    <3>2. /\ [certbot[r] EXCEPT !.at = "exit"] \in Certbot
          /\ certbot[r].domain > 1 => [certbot[r] EXCEPT !.domain = certbot[r].domain - 1] \in Certbot
      BY <2>1, <3>1 DEF Certbot
    <3>3. certbot'[r] = IF certbot[r].domain > 1 THEN [certbot[r] EXCEPT !.domain = certbot[r].domain - 1]
                          ELSE [certbot[r] EXCEPT !.at = "exit"]
      BY <1>9 DEF Dns!CleanupHook
    <3> QED BY <3>2, <3>3
  <2> QED BY <1>9, <2>2 DEF Dns!CleanupHook, Dns!ghosts, Certbot
<1>10. ASSUME NEW r \in Run, Dns!CertbotExits(r) PROVE Dns!TypeOK'
  BY <1>10 DEF Dns!CertbotExits, Dns!Moves, Dns!folder, Dns!ghosts
<1>11. ASSUME NEW r \in Run, Dns!Report(r) PROVE Dns!TypeOK'
  BY <1>11 DEF Dns!Report, Dns!Reported, Dns!ghosts
<1>12. ASSUME NEW r \in Run, Dns!GiveUp(r) PROVE Dns!TypeOK'
  BY <1>12 DEF Dns!GiveUp, Dns!Reported
<1>13. ASSUME NEW c \in Confirmer, Dns!ConfirmStarts(c) PROVE Dns!TypeOK'
  BY <1>13 DEF Dns!ConfirmStarts, Dns!folder
<1>14. ASSUME NEW c \in Confirmer, Dns!ConfirmEnds(c) PROVE Dns!TypeOK'
  BY <1>14 DEF Dns!ConfirmEnds
<1>15. ASSUME Dns!Crash PROVE Dns!TypeOK'
  BY <1>15 DEF Dns!Crash, Dns!folder
<1>16. CASE UNCHANGED Dns!vars
  BY <1>16 DEF Dns!vars, Dns!folder, Dns!ghosts
<1> QED
  BY <1>2, <1>3, <1>4, <1>5, <1>6, <1>7, <1>8, <1>9, <1>10, <1>11, <1>12, <1>13, <1>14, <1>15,
     <1>16 DEF Dns!Next, Dns!Step

\* A request starts a run: it is undisturbed if nobody else is there.
LEMMA IssueKeeps ==
    ASSUME DnsInv, NEW k \in Run, NEW n \in 1..MaxDomains, Dns!Issue(k, n), NEW r \in clean'
    PROVE  AloneInv(r)' /\ FlagInv(r)'
<1>1. /\ r = k /\ \A l \in Run \ {k} : ~Dns!Live(l)
      /\ \A c \in Confirmer : confirm[c] = Nothing
  BY DEF Dns!Issue
<1>2. \A l \in Run \ {k} : certbot'[l] = certbot[l]
  BY DEF Dns!Issue, DnsInv, Dns!TypeOK
<1> QED BY <1>1, <1>2 DEF Dns!Issue, Dns!ResetFlag, AloneInv, FlagInv, Dns!Live

\* A step of certbot, of a hook or of the runner.
LEMMA StepKeeps ==
    ASSUME DnsInv, NEW k \in Run, Dns!Step(k) \/ Dns!GiveUp(k), NEW r \in clean'
    PROVE  AloneInv(r)' /\ FlagInv(r)'
<1> DEFINE Rest == {"unborn", "gone"}
<1>1. r \in clean /\ r \in Run /\ AloneInv(r) /\ FlagInv(r)
  BY DEF DnsInv, Dns!TypeOK, Dns!Step, Dns!CertbotRefuses, Dns!AuthHook, Dns!HookSees,
         Dns!HookTimesOut, Dns!NextDomain, Dns!Validate, Dns!CleanupHook, Dns!CertbotExits,
         Dns!Report, Dns!GiveUp, Dns!ghosts
<1>2. /\ confirm' = confirm /\ confirmed' = confirmed
      /\ \A l \in Run \ {k} : certbot'[l] = certbot[l]
      /\ certbot[k].at \in Rest => certbot' = certbot
  BY DEF DnsInv, Dns!TypeOK, Dns!Step, Dns!CertbotRefuses, Dns!AuthHook, Dns!HookSees,
         Dns!HookTimesOut, Dns!NextDomain, Dns!Validate, Dns!CleanupHook, Dns!CertbotExits,
         Dns!Report, Dns!GiveUp, Dns!ghosts, Dns!Moves
<1>3. \A l \in Run \ {r} : certbot[l].at \in Rest
  BY <1>1 DEF AloneInv, Dns!Live
<1>4. \A l \in Run \ {r} : certbot'[l] = certbot[l]
  BY <1>2, <1>3
<1>5. pending' # Nothing => pending'[1] = r
  <2>1. CASE Dns!AuthHook(k)
    BY <1>1, <1>3, <2>1 DEF Dns!AuthHook, Dns!Shows
  <2>2. CASE ~Dns!AuthHook(k)
    <3>1. pending' = pending \/ pending' = Nothing
      BY <2>2 DEF Dns!Step, Dns!CertbotRefuses, Dns!HookSees,
         Dns!HookTimesOut, Dns!NextDomain, Dns!Validate, Dns!CleanupHook, Dns!CertbotExits,
         Dns!Report, Dns!GiveUp, Dns!folder
    <3> QED BY <1>1, <3>1 DEF AloneInv
  <2> QED BY <2>1, <2>2
<1>6. AloneInv(r)'
  BY <1>1, <1>2, <1>3, <1>4, <1>5 DEF AloneInv, Dns!Live
<1>7. FlagInv(r)'
  <2>1. SUFFICES ASSUME flag' PROVE certbot'[r].at \in {"wait", "gone"} /\ Dns!Shows(r)' \in confirmed
    BY <1>2 DEF FlagInv
  <2>2. flag /\ ~Dns!HookSees(k)
    BY <2>1 DEF Dns!Step, Dns!CertbotRefuses, Dns!AuthHook, Dns!HookSees,
         Dns!HookTimesOut, Dns!NextDomain, Dns!Validate, Dns!CleanupHook, Dns!CertbotExits,
         Dns!Report, Dns!GiveUp, Dns!folder
  <2>3. certbot[r].at \in {"wait", "gone"} /\ Dns!Shows(r) \in confirmed
    BY <1>1, <2>2 DEF FlagInv
  <2>4. certbot'[r] = certbot[r]
    <3>1. CASE k # r
      BY <1>1, <1>2, <3>1
    <3>2. CASE k = r
      BY <1>1, <2>2, <2>3, <3>2 DEF Dns!Step, Dns!CertbotRefuses, Dns!AuthHook,
         Dns!HookTimesOut, Dns!NextDomain, Dns!Validate, Dns!CleanupHook, Dns!CertbotExits,
         Dns!Report, Dns!GiveUp
    <3> QED BY <3>1, <3>2
  <2> QED BY <2>3, <2>4 DEF Dns!Shows
<1> QED BY <1>6, <1>7

\* A confirmation reads pending.json, and later leaves the flag.
LEMMA ConfirmKeeps ==
    ASSUME DnsInv, NEW c \in Confirmer, Dns!ConfirmStarts(c) \/ Dns!ConfirmEnds(c), NEW r \in clean'
    PROVE  AloneInv(r)' /\ FlagInv(r)'
<1>1. r \in clean /\ r \in Run /\ AloneInv(r) /\ FlagInv(r)
  BY DEF DnsInv, Dns!TypeOK, Dns!ConfirmStarts, Dns!ConfirmEnds
<1>2. CASE Dns!ConfirmStarts(c)
  BY <1>1, <1>2 DEF Dns!ConfirmStarts, Dns!folder, AloneInv, FlagInv, Dns!Live, Dns!Shows,
                    DnsInv, Dns!TypeOK
<1>3. CASE Dns!ConfirmEnds(c)
  <2>1. confirm[c] # Nothing /\ confirm[c][1] = r
    BY <1>1, <1>3 DEF Dns!ConfirmEnds, AloneInv
  <2>2. /\ certbot[r].at = "wait" /\ Dns!Shows(r) \in confirmed'
        /\ UNCHANGED <<pending, certbot, clean>>
    BY <1>3, <2>1 DEF Dns!ConfirmEnds, Dns!Shows
  <2>3. AloneInv(r)'
    BY <1>1, <1>3, <2>2 DEF Dns!ConfirmEnds, AloneInv, Dns!Live, DnsInv, Dns!TypeOK
  <2>4. FlagInv(r)'
    BY <2>2 DEF FlagInv, Dns!Shows
  <2> QED BY <2>3, <2>4
<1> QED BY <1>2, <1>3

\* What systemd takes with it does not come back; the confirmations are gone.
LEMMA CrashKeeps ==
    ASSUME DnsInv, Dns!Crash, NEW r \in clean'
    PROVE  AloneInv(r)' /\ FlagInv(r)'
<1>1. r \in clean /\ r \in Run /\ AloneInv(r) /\ FlagInv(r)
  BY DEF DnsInv, Dns!TypeOK, Dns!Crash
<1>2. \A k \in Run : certbot'[k] = certbot[k] \/ certbot'[k] = [certbot[k] EXCEPT !.at = "gone"]
  BY DEF Dns!Crash
<1>3. ASSUME NEW k \in Run
      PROVE  /\ certbot'[k].at \in {certbot[k].at, "gone"}
             /\ certbot'[k].domain = certbot[k].domain
  <2>1. certbot[k] \in Certbot
    BY DEF DnsInv, Dns!TypeOK, Certbot
  <2> QED BY <1>2, <2>1 DEF Certbot
<1>4. AloneInv(r)'
  BY <1>1, <1>3 DEF Dns!Crash, AloneInv, Dns!Live, Dns!folder
<1>5. FlagInv(r)'
  BY <1>1, <1>3 DEF Dns!Crash, FlagInv, Dns!Shows, Dns!folder
<1> QED BY <1>4, <1>5

LEMMA DnsStep == DnsInv /\ [Dns!Next]_Dns!vars => DnsInv'
<1> SUFFICES ASSUME DnsInv, [Dns!Next]_Dns!vars PROVE DnsInv'
  OBVIOUS
<1>1. Dns!TypeOK'
  BY DnsTypes DEF DnsInv
<1>2. ASSUME NEW r \in clean' PROVE AloneInv(r)' /\ FlagInv(r)'
  <2>1. CASE Dns!Next
    BY <1>2, <2>1, IssueKeeps, StepKeeps, ConfirmKeeps, CrashKeeps DEF Dns!Next
  <2>2. CASE UNCHANGED Dns!vars
    BY <1>2, <2>2 DEF Dns!vars, Dns!folder, Dns!ghosts, DnsInv, AloneInv, FlagInv, Dns!Live, Dns!Shows
  <2> QED BY <2>1, <2>2
<1> QED BY <1>1, <1>2 DEF DnsInv

LEMMA DnsInvariance == Dns!Spec => []DnsInv
<1> QED BY DnsInitInvariant, DnsStep, PTL DEF Dns!Spec

-----------------------------------------------------------------------------
\* nginx.py: in a run that nobody disturbed no hook goes on before its own
\* challenge was confirmed, for any number of runs, domains and confirmations and
\* whatever earlier ones left in the folder.
THEOREM DnsConfirmedFirst == Dns!Spec => ConfirmedFirst
<1>1. DnsInv => \A r \in clean : Dns!HookSees(r) => Dns!Shows(r) \in confirmed
  BY DEF DnsInv, FlagInv, Dns!HookSees
<1> QED BY <1>1, DnsInvariance, PTL DEF ConfirmedFirst, Dns!ConfirmedFirst

\* The folder, certbot, its runner and the confirmations are well typed.
THEOREM DnsTypeCorrect == Dns!Spec => []Dns!TypeOK
<1>1. DnsInv => Dns!TypeOK
  BY DEF DnsInv
<1> QED BY <1>1, DnsInvariance, PTL
=============================================================================
