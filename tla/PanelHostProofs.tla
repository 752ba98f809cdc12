-------------------------- MODULE PanelHostProofs ---------------------------
(***************************************************************************)
(* Theorems about what the panel does to its host, for every set of        *)
(* requests, tree of files, accounts, groups, parameters and addresses: the *)
(* files below the mounted folder, the users and groups, and a jail of     *)
(* fail2ban; and that the state of every part of the panel has its type.    *)
(***************************************************************************)
EXTENDS AccessProofs, PanelProofs, SequenceTheorems, WellFoundedInduction

\* A set of naturals that is not empty has a least element.
LEMMA LeastNatural ==
    ASSUME NEW S \in SUBSET Nat, S # {}
    PROVE  \E m \in S : \A n \in S : m <= n
<1> DEFINE R == OpToRel(<, Nat)
<1>1. IsWellFoundedOn(R, Nat)
  BY NatLessThanWellFounded
<1>2. \A m, n \in S : n < m => <<n, m>> \in R
  BY Zenon DEF OpToRel
<1> HIDE DEF R
<1>3. PICK m \in S : \A n \in S : ~ (<<n, m>> \in R)
  BY <1>1, WFMin
<1>4. \A n \in S : ~ (n < m)
  BY <1>2, <1>3
<1> QED BY <1>4

-----------------------------------------------------------------------------
(***************************************************************************)
(* The file manager.  A walk goes along the names of a path, one at a time, *)
(* and what is true of it is true of the least walk that would refute it.   *)
(***************************************************************************)
\* A walk of n steps: where it is after each of them.
Walks(f, n, t, from, names, panel) ==
    f = [i \in 0..n |-> IF i = 0 THEN from ELSE Files!Step(t, f[i - 1], names[i], panel)]

LEMMA WalkExists ==
  ASSUME NEW n \in Nat, NEW t, NEW from, NEW names, NEW panel
  PROVE  \E f : Walks(f, n, t, from, names, panel)
<1> DEFINE S == {m \in Nat : ~ \E f : Walks(f, m, t, from, names, panel)}
<1>1. CASE S = {}
  BY <1>1
<1>2. CASE S # {}
  <2>1. PICK m \in S : \A k \in S : m <= k
    BY <1>2, LeastNatural
  <2>2. m # 0
    <3>1. Walks([i \in 0..0 |-> from], 0, t, from, names, panel)
      BY DEF Walks
    <3> QED BY <2>1, <3>1
  <2>3. m - 1 \in Nat /\ m - 1 \notin S
    BY <2>1, <2>2
  <2>4. PICK g : Walks(g, m - 1, t, from, names, panel)
    BY <2>3
  <2> DEFINE h == [i \in 0..m |-> IF i < m THEN g[i] ELSE Files!Step(t, g[m - 1], names[m], panel)]
  <2>5. Walks(h, m, t, from, names, panel)
    <3>1. \A i \in 0..(m - 1) : g[i] = IF i = 0 THEN from ELSE Files!Step(t, g[i - 1], names[i], panel)
      BY <2>4, <2>3 DEF Walks
    <3>2. \A i \in 0..m : h[i] = IF i = 0 THEN from ELSE Files!Step(t, h[i - 1], names[i], panel)
      BY <2>2, <2>3, <3>1
    <3> QED BY <3>2 DEF Walks
  <2> QED BY <2>1, <2>5
<1> QED BY <1>1, <1>2

LEMMA TrailWalks ==
  ASSUME NEW t, NEW from, NEW names, NEW panel, Len(names) \in Nat
  PROVE  Walks(Files!Trail(t, from, names, panel), Len(names), t, from, names, panel)
<1>1. \E f : Walks(f, Len(names), t, from, names, panel)
  BY WalkExists
<1> QED BY <1>1 DEF Walks, Files!Trail

LEMMA TrailIs ==
  ASSUME NEW t, NEW from, NEW names, NEW panel, Len(names) \in Nat
  PROVE  /\ Files!Trail(t, from, names, panel)[0] = from
         /\ \A i \in 1..Len(names) : Files!Trail(t, from, names, panel)[i] =
                Files!Step(t, Files!Trail(t, from, names, panel)[i - 1], names[i], panel)
<1> DEFINE f == Files!Trail(t, from, names, panel)
<1>1. \A i \in 0..Len(names) :
        f[i] = IF i = 0 THEN from ELSE Files!Step(t, f[i - 1], names[i], panel)
  <2> HIDE DEF f
  <2>1. f = [i \in 0..Len(names) |->
              IF i = 0 THEN from ELSE Files!Step(t, f[i - 1], names[i], panel)]
    BY TrailWalks DEF Walks, f
  <2> QED BY <2>1
<1> QED BY <1>1

LEMMA FilesConstants ==
    FileRoot \in Files!Path /\ FileRoot # <<>> /\ MaxCopies \in Nat /\ MaxDepth \in Nat
<1>1. FileRoot \in Files!Path \ {<<>>} /\ MaxCopies \in Nat /\ MaxDepth \in Nat
  BY FilesAssumption, Zenon
<1> QED BY <1>1

LEMMA FilesTexts == \A x \in {"", "zip", "lnxadmin-up", "m"} : x \in FileText
BY FilesAssumption, Zenon

-----------------------------------------------------------------------------
\* Paths: sequences of names, and the one that stands for none.
LEMMA NoPathIsNone ==
    /\ Files!NoPath \notin Files!Path /\ Files!NoPath # <<>>
    /\ Files!Front(Files!NoPath) = <<>> /\ Append(<<>>, Files!Last(Files!NoPath)) = Files!NoPath
    /\ \A n \in Files!Name : Append(Files!NoPath, n) \notin Files!Path
<1> DEFINE none == <<"", "", 0>>
<1>1. Files!NoPath = <<none>>
  BY DEF Files!NoPath
<1>2. none \notin Files!Name
  BY DEF Files!Name
<1> HIDE DEF none
<1>3. ASSUME NEW s, s \in Files!Path, Len(s) >= 1 PROVE s[1] \in Files!Name
  BY <1>3, ElementOfSeq, LenProperties DEF Files!Path
<1>4. /\ Len(<<none>>) = 1 /\ <<none>>[1] = none /\ <<none>> # <<>>
      /\ Append(<<>>, none) = <<none>> /\ <<none>> \in Seq(Files!Name \cup {none})
  OBVIOUS
<1>5. Files!NoPath \notin Files!Path
  BY <1>1, <1>2, <1>3, <1>4
<1>6. Files!Front(Files!NoPath) = <<>>
  <2>1. Files!Front(Files!NoPath) = SubSeq(<<none>>, 1, 0)
    BY <1>1, <1>4 DEF Files!Front
  <2> QED BY <2>1, SubSeqEmpty
<1>7. Append(<<>>, Files!Last(Files!NoPath)) = Files!NoPath
  BY <1>1, <1>4 DEF Files!Last
<1>8. ASSUME NEW n \in Files!Name PROVE Append(Files!NoPath, n) \notin Files!Path
  <2>1. n \in Files!Name \cup {none} /\ 1 \in 1..Len(<<none>>)
    BY <1>4
  <2>2. Append(<<none>>, n)[1] = none /\ Len(Append(<<none>>, n)) = 2
    BY <1>4, <2>1, AppendProperties
  <2> DEFINE a == Append(<<none>>, n)
  <2>3. a[1] = none /\ Len(a) = 2
    BY <2>2
  <2> HIDE DEF a
  <2>4. a \notin Files!Path
    <3>1. SUFFICES ASSUME a \in Files!Path PROVE FALSE
      OBVIOUS
    <3>2. a[1] \in Files!Name
      BY <1>3, <2>3, <3>1
    <3> QED BY <1>2, <2>3, <3>2
  <2>5. Append(Files!NoPath, n) = a
    BY <1>1 DEF a
  <2> QED BY <2>4, <2>5
<1> QED BY <1>1, <1>4, <1>5, <1>6, <1>7, <1>8

LEMMA AppendPath ==
  ASSUME NEW p \in Files!Path, NEW n \in Files!Name
  PROVE  /\ Append(p, n) \in Files!Path \ {<<>>} /\ Len(Append(p, n)) = Len(p) + 1
         /\ Files!Front(Append(p, n)) = p /\ Files!Last(Append(p, n)) = n
         /\ \A i \in 1..Len(p) : Append(p, n)[i] = p[i]
<1>1. /\ Append(p, n) \in Seq(Files!Name) /\ Len(Append(p, n)) = Len(p) + 1
      /\ \A i \in 1..Len(p) : Append(p, n)[i] = p[i] /\ Append(p, n)[Len(p) + 1] = n
      /\ Len(p) \in Nat
  BY AppendProperties, LenProperties DEF Files!Path
<1>2. Files!Front(Append(p, n)) = p
  <2> DEFINE q == Append(p, n)
  <2> HIDE DEF q
  <2>1. q \in Seq(Files!Name) /\ Len(q) = Len(p) + 1 /\ \A i \in 1..Len(p) : q[i] = p[i]
    BY <1>1 DEF q
  <2>2. \A i \in 1..Len(p) : q[i] \in Files!Name
    BY <2>1, ElementOfSeq, <1>1
  <2>3. /\ SubSeq(q, 1, Len(p)) \in Seq(Files!Name)
        /\ Len(SubSeq(q, 1, Len(p))) = Len(p)
        /\ \A i \in 1..Len(p) : SubSeq(q, 1, Len(p))[i] = q[i]
    BY <1>1, <2>2, SubSeqProperties
  <2>4. SubSeq(q, 1, Len(p)) = p
    BY <2>1, <2>3, SeqEqual DEF Files!Path
  <2> QED BY <1>1, <2>1, <2>4 DEF q, Files!Front
<1>3. Append(p, n)[Len(p) + 1] = n
  BY AppendProperties DEF Files!Path
<1> QED BY <1>1, <1>2, <1>3 DEF Files!Last, Files!Path

LEMMA PartOfPath ==
  ASSUME NEW p \in Files!Path, NEW k \in 0..Len(p)
  PROVE  /\ SubSeq(p, 1, k) \in Files!Path /\ Len(SubSeq(p, 1, k)) = k
         /\ \A i \in 1..k : SubSeq(p, 1, k)[i] = p[i] /\ p[i] \in Files!Name
<1>1. Len(p) \in Nat /\ \A i \in 1..k : p[i] \in Files!Name
  BY ElementOfSeq, LenProperties DEF Files!Path
<1>2. /\ SubSeq(p, 1, k) \in Seq(Files!Name)
      /\ Len(SubSeq(p, 1, k)) = IF 1 <= k THEN k - 1 + 1 ELSE 0
      /\ \A i \in 1..k - 1 + 1 : SubSeq(p, 1, k)[i] = p[1 + i - 1]
  BY <1>1, SubSeqProperties
<1> QED BY <1>1, <1>2 DEF Files!Path

LEMMA SamePath ==
  ASSUME NEW p \in Files!Path, NEW q \in Files!Path, Len(p) = Len(q),
         \A i \in 1..Len(p) : p[i] = q[i]
  PROVE  p = q
BY SeqEqual DEF Files!Path

LEMMA PathLength ==
  ASSUME NEW p \in Files!Path
  PROVE  Len(p) \in Nat /\ (p = <<>> <=> Len(p) = 0) /\ SubSeq(p, 1, Len(p)) = p
<1>1. Len(p) \in Nat /\ (p = <<>> <=> Len(p) = 0)
  BY LenProperties, EmptySeq DEF Files!Path
<1>2. /\ SubSeq(p, 1, Len(p)) \in Files!Path /\ Len(SubSeq(p, 1, Len(p))) = Len(p)
      /\ \A i \in 1..Len(p) : SubSeq(p, 1, Len(p))[i] = p[i]
  BY <1>1, PartOfPath
<1> QED BY <1>1, <1>2, SamePath

LEMMA FrontLast ==
  ASSUME NEW p \in Files!Path, p # <<>>
  PROVE  /\ Files!Front(p) \in Files!Path /\ Files!Last(p) \in Files!Name
         /\ Len(Files!Front(p)) = Len(p) - 1 /\ Len(p) \in Nat \ {0}
         /\ \A i \in 1..Len(p) - 1 : Files!Front(p)[i] = p[i]
         /\ p = Append(Files!Front(p), Files!Last(p))
<1>1. Len(p) \in Nat \ {0} /\ Len(p) - 1 \in 0..Len(p)
  BY PathLength
<1>2. /\ Files!Front(p) \in Files!Path /\ Files!Last(p) \in Files!Name
      /\ Len(Files!Front(p)) = Len(p) - 1
      /\ \A i \in 1..Len(p) - 1 : Files!Front(p)[i] = p[i]
  <2>1. p[Len(p)] \in Files!Name
    BY <1>1, ElementOfSeq DEF Files!Path
  <2> QED BY <1>1, <2>1, PartOfPath DEF Files!Front, Files!Last
<1> DEFINE q == Append(Files!Front(p), Files!Last(p))
<1>3. /\ q \in Files!Path /\ Len(q) = Len(p) /\ q[Len(p)] = p[Len(p)]
      /\ \A i \in 1..Len(p) - 1 : q[i] = p[i]
  <2>1. /\ q \in Files!Path /\ Len(q) = Len(p) - 1 + 1
        /\ Files!Last(q) = Files!Last(p) /\ \A i \in 1..Len(p) - 1 : q[i] = p[i]
    BY <1>2, AppendPath
  <2> QED BY <1>1, <2>1 DEF Files!Last
<1>4. q = p
  <2> HIDE DEF q
  <2> QED BY <1>1, <1>3, SamePath
<1> QED BY <1>1, <1>2, <1>4

\* A prefix agrees with the whole as far as it goes.
LEMMA PrefixIs ==
  ASSUME NEW p \in Files!Path, NEW q \in Files!Path
  PROVE  /\ Files!IsPrefix(p, q) <=> Len(p) <= Len(q) /\ \A i \in 1..Len(p) : p[i] = q[i]
         /\ Files!IsPrefix(p, q) <=> Len(p) <= Len(q) /\ SubSeq(q, 1, Len(p)) = p
<1>1. Len(p) \in Nat /\ Len(q) \in Nat /\ SubSeq(p, 1, Len(p)) = p
  BY PathLength
<1>2. ASSUME Len(p) <= Len(q)
      PROVE  SubSeq(q, 1, Len(p)) = p <=> \A i \in 1..Len(p) : p[i] = q[i]
  <2>1. /\ SubSeq(q, 1, Len(p)) \in Files!Path /\ Len(SubSeq(q, 1, Len(p))) = Len(p)
        /\ \A i \in 1..Len(p) : SubSeq(q, 1, Len(p))[i] = q[i]
    BY <1>1, <1>2, PartOfPath
  <2> QED BY <2>1, SamePath
<1> QED BY <1>1, <1>2 DEF Files!IsPrefix

\* Cutting a path one name later adds that name.
LEMMA NextPart ==
  ASSUME NEW p \in Files!Path, NEW k \in 0..Len(p), k < Len(p)
  PROVE  /\ SubSeq(p, 1, k + 1) = Append(SubSeq(p, 1, k), p[k + 1])
         /\ Files!Front(SubSeq(p, 1, k + 1)) = SubSeq(p, 1, k)
         /\ SubSeq(p, 1, k + 1) # <<>> /\ p[k + 1] \in Files!Name
<1>1. Len(p) \in Nat /\ k + 1 \in 1..Len(p) /\ k + 1 \in 0..Len(p) /\ k \in Nat
  BY PathLength
<1> DEFINE one == SubSeq(p, 1, k)
           two == SubSeq(p, 1, k + 1)
<1>2. /\ one \in Files!Path /\ Len(one) = k /\ \A i \in 1..k : one[i] = p[i]
      /\ two \in Files!Path /\ Len(two) = k + 1 /\ \A i \in 1..k + 1 : two[i] = p[i]
      /\ p[k + 1] \in Files!Name
  BY <1>1, PartOfPath
<1> HIDE DEF one, two
<1>3. two # <<>>
  BY <1>1, <1>2, PathLength
<1>4. /\ Files!Front(two) \in Files!Path /\ Len(Files!Front(two)) = k
      /\ \A i \in 1..k : Files!Front(two)[i] = two[i]
      /\ two = Append(Files!Front(two), Files!Last(two)) /\ Files!Last(two) = two[k + 1]
  <2>1. (k + 1) - 1 = k /\ Files!Last(two) = two[k + 1]
    BY <1>1, <1>2 DEF Files!Last
  <2>2. /\ Files!Front(two) \in Files!Path /\ Len(Files!Front(two)) = Len(two) - 1
        /\ \A i \in 1..Len(two) - 1 : Files!Front(two)[i] = two[i]
        /\ two = Append(Files!Front(two), Files!Last(two))
    BY <1>2, <1>3, FrontLast
  <2> QED BY <1>2, <2>1, <2>2
<1>5. Files!Front(two) = one
  BY <1>1, <1>2, <1>4, SamePath
<1> QED BY <1>1, <1>2, <1>3, <1>4, <1>5 DEF one, two

-----------------------------------------------------------------------------
(***************************************************************************)
(* Trees: every node lies in a folder, and a link has a target.             *)
(***************************************************************************)
TreeOK(t) ==
    \A p \in DOMAIN t :
        /\ p \in Files!Path \ {<<>>} /\ t[p].kind \in {"dir", "file", "link"}
        /\ Files!Is(t, Files!Front(p), "dir")
        /\ t[p].kind = "link" => t[p].target \in Files!Path

LEMMA NodeIs ==
  ASSUME NEW t, TreeOK(t), NEW p, NEW kind, Files!Is(t, p, kind)
  PROVE  /\ p \in Files!Path /\ p # Files!NoPath
         /\ p # <<>> => p \in DOMAIN t /\ t[p].kind = kind
         /\ p = <<>> => kind = "dir"
<1>1. <<>> \in Files!Path
  BY EmptySeq DEF Files!Path
<1> QED BY <1>1, NoPathIsNone DEF Files!Is, TreeOK

\* What lies above a folder are folders.
LEMMA PartIsDir ==
  ASSUME NEW t, TreeOK(t), NEW p, Files!Is(t, p, "dir"), NEW k \in 0..Len(p)
  PROVE  Files!Is(t, SubSeq(p, 1, k), "dir")
<1>1. p \in Files!Path /\ Len(p) \in Nat /\ SubSeq(p, 1, Len(p)) = p
  BY NodeIs, PathLength
<1> DEFINE S == {j \in 0..Len(p) : ~Files!Is(t, SubSeq(p, 1, Len(p) - j), "dir")}
<1>2. CASE S = {}
  <2>1. Len(p) - k \in 0..Len(p) /\ Len(p) - (Len(p) - k) = k
    BY <1>1
  <2> QED BY <1>2, <2>1
<1>3. CASE S # {}
  <2>1. S \in SUBSET Nat
    BY <1>1
  <2>2. PICK m \in S : \A n \in S : m <= n
    BY <1>3, <2>1, LeastNatural
  <2>3. m \in 0..Len(p) /\ ~Files!Is(t, SubSeq(p, 1, Len(p) - m), "dir")
    BY <2>2
  <2>4. m # 0
    <3>1. ASSUME m = 0 PROVE FALSE
      <4>1. Len(p) - m = Len(p)
        BY <1>1, <3>1
      <4> QED BY <1>1, <2>3, <4>1
    <3> QED BY <3>1
  <2>5. m - 1 \in 0..Len(p) /\ m - 1 \notin S
    BY <1>1, <2>2, <2>3, <2>4
  <2> DEFINE c == Len(p) - m
  <2>6. c \in 0..Len(p) /\ c < Len(p) /\ Len(p) - (m - 1) = c + 1
    BY <1>1, <2>3, <2>4
  <2>7. Files!Is(t, SubSeq(p, 1, c + 1), "dir")
    BY <2>5, <2>6
  <2>8. SubSeq(p, 1, c + 1) # <<>> /\ Files!Front(SubSeq(p, 1, c + 1)) = SubSeq(p, 1, c)
    BY <1>1, <2>6, NextPart
  <2>9. SubSeq(p, 1, c + 1) \in DOMAIN t
    BY <2>7, <2>8, NodeIs
  <2>10. Files!Is(t, SubSeq(p, 1, c), "dir")
    BY <2>8, <2>9 DEF TreeOK
  <2> QED BY <2>3, <2>10
<1> QED BY <1>2, <1>3

\* What lies under a node lies in what is under it, and the node is a folder then.
LEMMA UnderNode ==
  ASSUME NEW t, TreeOK(t), NEW p \in Files!Path, p # <<>>, NEW q \in Files!Under(t, p), q # p
  PROVE  /\ Files!Is(t, p, "dir") /\ p \in DOMAIN t
         /\ Files!Front(q) \in Files!Under(t, p) /\ Files!Is(t, Files!Front(q), "dir")
<1>1. /\ q \in DOMAIN t /\ q \in Files!Path /\ q # <<>> /\ Files!Is(t, Files!Front(q), "dir")
      /\ Files!IsPrefix(p, q)
  BY DEF Files!Under, TreeOK
<1> DEFINE f == Files!Front(q)
<1>2. /\ Len(p) \in Nat /\ Len(q) \in Nat \ {0} /\ Len(p) <= Len(q)
      /\ \A i \in 1..Len(p) : p[i] = q[i]
  BY <1>1, PathLength, PrefixIs
<1>3. Len(p) < Len(q)
  BY <1>1, <1>2, SamePath
<1>4. /\ f \in Files!Path /\ Len(f) = Len(q) - 1 /\ \A i \in 1..Len(q) - 1 : f[i] = q[i]
  BY <1>1, FrontLast
<1> HIDE DEF f
<1>5. Files!IsPrefix(p, f) /\ Len(p) \in 0..Len(f) /\ SubSeq(f, 1, Len(p)) = p
  BY <1>2, <1>3, <1>4, PrefixIs
<1>6. Files!Is(t, p, "dir")
  BY <1>1, <1>5, PartIsDir DEF f
<1>7. p \in DOMAIN t
  BY <1>6, NodeIs
<1>8. f # <<>>
  BY <1>2, <1>3, <1>4, PathLength
<1>9. f \in DOMAIN t
  BY <1>1, <1>8, NodeIs DEF f
<1> QED BY <1>1, <1>5, <1>6, <1>7, <1>9 DEF f, Files!Under

LEMMA UnderOther ==
  ASSUME NEW t, TreeOK(t), NEW p \in Files!Path, p # <<>>, ~Files!Is(t, p, "dir")
  PROVE  Files!Under(t, p) = {p} \cap DOMAIN t
<1>1. \A q \in Files!Under(t, p) : q = p /\ q \in DOMAIN t
  BY UnderNode DEF Files!Under
<1>2. Files!IsPrefix(p, p)
  BY PathLength, PrefixIs
<1> QED BY <1>1, <1>2 DEF Files!Under

LEMMA UnderNone == ASSUME NEW t, TreeOK(t) PROVE Files!Under(t, Files!NoPath) = {}
<1>1. SUFFICES ASSUME NEW q \in DOMAIN t, Files!IsPrefix(Files!NoPath, q) PROVE FALSE
  BY DEF Files!Under
<1> DEFINE none == <<"", "", 0>>
<1>2. Files!NoPath = <<none>>
  BY DEF Files!NoPath
<1> HIDE DEF none
<1>3. Len(<<none>>) = 1 /\ SubSeq(<<none>>, 1, 1) = <<none>>
  <2>1. Len(<<none>>) = 1 /\ <<none>>[1] = none /\ <<none>> \in Seq({none})
    OBVIOUS
  <2> DEFINE one == SubSeq(<<none>>, 1, 1)
  <2>2. one \in Seq({none}) /\ Len(one) = 1 /\ one[1] = none
    <3>1. \A i \in 1..1 : <<none>>[i] \in {none}
      BY <2>1
    <3>2. /\ one \in Seq({none}) /\ Len(one) = IF 1 <= 1 THEN 1 - 1 + 1 ELSE 0
          /\ \A i \in 1..1 - 1 + 1 : one[i] = <<none>>[1 + i - 1]
      BY <3>1, SubSeqProperties
    <3> HIDE DEF one
    <3> QED BY <2>1, <3>2
  <2> HIDE DEF one
  <2>3. one = <<none>>
    BY <2>1, <2>2, SeqEqual
  <2> QED BY <2>1, <2>3 DEF one
<1>4. Len(q) \in Nat /\ 1 <= Len(q) /\ SubSeq(q, 1, 1) = Files!NoPath /\ q \in Files!Path
  BY <1>1, <1>2, <1>3, PathLength DEF Files!IsPrefix, TreeOK
<1>5. SubSeq(q, 1, 1) \in Files!Path
  BY <1>4, PartOfPath
<1> QED BY <1>4, <1>5, NoPathIsNone

-----------------------------------------------------------------------------
(***************************************************************************)
(* Where names lead: whichever links the tree has, the panel's own walk     *)
(* stays inside the mounted folder, and a path whose folder is one is its   *)
(* own place.                                                               *)
(***************************************************************************)
LEMMA TargetIs ==
  ASSUME NEW t, NEW p
  PROVE  Files!Target(t, p) = Files!NoPath \/ Files!Target(t, p) \in DOMAIN t
BY DEF Files!Target, Files!Exists

\* A chain of links ends at a path.
LEMMA EndIs ==
  ASSUME NEW t, TreeOK(t), NEW p \in Files!Path PROVE Files!End(t, p) \in Files!Path
<1> DEFINE hop(q) == IF Files!Is(t, q, "link") THEN t[q].target ELSE q
<1>1. ASSUME NEW q \in Files!Path PROVE hop(q) \in Files!Path
  BY DEF Files!Is, TreeOK
<1>2. Files!End(t, p) = hop(hop(p))
  BY DEF Files!End
<1> HIDE DEF hop
<1> QED BY <1>1, <1>2

LEMMA StepIs ==
  ASSUME NEW t, TreeOK(t), NEW dir, NEW name, NEW panel \in BOOLEAN
  PROVE  LET next == Files!Step(t, dir, name, panel) IN
         \/ next = Files!NoPath
         \/ /\ next \in DOMAIN t /\ Files!Is(t, dir, "dir")
            /\ next = Append(dir, name) \/ (panel => Files!Inside(next))
BY TargetIs DEF Files!Step, Files!Follow, Files!Exists

LEMMA WalkIs ==
  ASSUME NEW t, TreeOK(t), NEW from, NEW names \in Files!Path, NEW panel \in BOOLEAN
  PROVE  LET end == Files!Walk(t, from, names, panel) IN
         /\ names = <<>> => end = from
         /\ names # <<>> => end = Files!NoPath
                            \/ (end \in DOMAIN t /\ Files!Is(t, from, "dir"))
<1> DEFINE f == Files!Trail(t, from, names, panel)
<1>1. Len(names) \in Nat /\ (names = <<>> <=> Len(names) = 0)
  BY PathLength
<1>2. /\ f[0] = from
      /\ \A i \in 1..Len(names) : f[i] = Files!Step(t, f[i - 1], names[i], panel)
  BY <1>1, TrailIs
<1> HIDE DEF f
<1>3. \A i \in 1..Len(names) :
        f[i] = Files!NoPath \/ (f[i] \in DOMAIN t /\ Files!Is(t, f[i - 1], "dir"))
  BY <1>2, StepIs
<1>4. ~Files!Is(t, Files!NoPath, "dir")
  BY NodeIs
<1> DEFINE S == {i \in 1..Len(names) : f[i] # Files!NoPath /\ ~Files!Is(t, from, "dir")}
<1>5. S = {}
  <2>1. SUFFICES ASSUME S # {} PROVE FALSE
    OBVIOUS
  <2>2. S \in SUBSET Nat
    BY <1>1
  <2>3. PICK m \in S : \A n \in S : m <= n
    BY <2>1, <2>2, LeastNatural
  <2>4. m \in 1..Len(names) /\ f[m] # Files!NoPath /\ ~Files!Is(t, from, "dir")
    BY <2>3
  <2>5. Files!Is(t, f[m - 1], "dir")
    BY <1>3, <2>4
  <2>6. m # 1
    BY <1>2, <2>4, <2>5
  <2>7. m - 1 \in 1..Len(names) /\ m - 1 \notin S
    BY <1>1, <2>3, <2>4, <2>6
  <2>8. f[m - 1] = Files!NoPath
    BY <2>4, <2>7
  <2> QED BY <1>4, <2>5, <2>8
<1>6. Files!Walk(t, from, names, panel) = f[Len(names)]
  BY DEF Files!Walk, f
<1>7. ASSUME names # <<>>
      PROVE  f[Len(names)] = Files!NoPath
             \/ (f[Len(names)] \in DOMAIN t /\ Files!Is(t, from, "dir"))
  <2>1. Len(names) \in 1..Len(names)
    BY <1>1, <1>7
  <2> QED BY <1>3, <1>5, <2>1
<1> QED BY <1>1, <1>2, <1>6, <1>7

\* The panel never walks out of the mounted folder.
LEMMA WalkInside ==
  ASSUME NEW t, TreeOK(t), NEW names \in Files!Path
  PROVE  LET end == Files!Walk(t, FileRoot, names, TRUE) IN
         end = Files!NoPath \/ Files!Inside(end)
<1> DEFINE f == Files!Trail(t, FileRoot, names, TRUE)
<1>1. Len(names) \in Nat /\ \A i \in 1..Len(names) : names[i] \in Files!Name
  BY PathLength, PartOfPath
<1>2. /\ f[0] = FileRoot
      /\ \A i \in 1..Len(names) : f[i] = Files!Step(t, f[i - 1], names[i], TRUE)
  <2>1. \A panel : /\ Files!Trail(t, FileRoot, names, panel)[0] = FileRoot
                   /\ \A i \in 1..Len(names) : Files!Trail(t, FileRoot, names, panel)[i] =
                        Files!Step(t, Files!Trail(t, FileRoot, names, panel)[i - 1], names[i], panel)
    BY <1>1, TrailIs
  <2> QED BY ONLY <2>1, Zenon
<1> HIDE DEF f
<1>3. FileRoot \in Files!Path /\ Files!Inside(FileRoot)
  BY FilesConstants, PathLength, PrefixIs DEF Files!Inside
<1>4. ASSUME NEW dir, Files!Is(t, dir, "dir"), Files!Inside(dir), NEW n \in Files!Name
      PROVE  Files!Inside(Append(dir, n))
  <2>1. dir \in Files!Path
    BY <1>4, NodeIs
  <2>2. /\ Append(dir, n) \in Files!Path /\ Len(Append(dir, n)) = Len(dir) + 1
        /\ \A i \in 1..Len(dir) : Append(dir, n)[i] = dir[i]
    BY <2>1, AppendPath
  <2> DEFINE a == Append(dir, n)
  <2> HIDE DEF a
  <2>3. /\ Len(FileRoot) \in Nat /\ Len(dir) \in Nat /\ Len(FileRoot) <= Len(dir)
        /\ \A i \in 1..Len(FileRoot) : FileRoot[i] = dir[i]
    BY <1>3, <1>4, <2>1, PathLength, PrefixIs DEF Files!Inside
  <2>4. Files!IsPrefix(FileRoot, a)
    <3>1. Len(FileRoot) <= Len(a) /\ \A i \in 1..Len(FileRoot) : FileRoot[i] = a[i]
      BY <2>2, <2>3 DEF a
    <3>2. a \in Files!Path
      BY <2>2 DEF a
    <3> QED BY <1>3, <3>1, <3>2, PrefixIs
  <2> QED BY <2>4 DEF a, Files!Inside
<1>5. ~Files!Is(t, Files!NoPath, "dir")
  BY NodeIs
<1> DEFINE S == {i \in 0..Len(names) : f[i] # Files!NoPath /\ ~Files!Inside(f[i])}
<1>6. S = {}
  <2>1. SUFFICES ASSUME S # {} PROVE FALSE
    OBVIOUS
  <2>2. S \in SUBSET Nat
    BY <1>1
  <2>3. PICK m \in S : \A n \in S : m <= n
    BY <2>1, <2>2, LeastNatural
  <2>4. m \in 0..Len(names) /\ f[m] # Files!NoPath /\ ~Files!Inside(f[m])
    BY <2>3
  <2>5. m \in 1..Len(names) /\ m - 1 \in 0..Len(names) /\ m - 1 \notin S
    BY <1>1, <1>2, <1>3, <2>3, <2>4
  <2>6. /\ Files!Is(t, f[m - 1], "dir")
        /\ f[m] = Append(f[m - 1], names[m]) \/ Files!Inside(f[m])
    BY <1>2, <2>4, <2>5, StepIs
  <2>7. Files!Inside(f[m - 1])
    BY <1>5, <2>5, <2>6
  <2> QED BY <1>1, <1>4, <2>4, <2>5, <2>6, <2>7
<1>7. Files!Walk(t, FileRoot, names, TRUE) = f[Len(names)] /\ Len(names) \in 0..Len(names)
  BY <1>1 DEF Files!Walk, f
<1> QED BY <1>6, <1>7

\* The kernel finds a folder where its path says, for no name on the way is a link.
LEMMA WalkToDir ==
  ASSUME NEW t, TreeOK(t), NEW d, Files!Is(t, d, "dir")
  PROVE  Files!Walk(t, <<>>, d, FALSE) = d
<1> DEFINE f == Files!Trail(t, <<>>, d, FALSE)
<1>1. d \in Files!Path /\ Len(d) \in Nat /\ SubSeq(d, 1, Len(d)) = d
  BY NodeIs, PathLength
<1>2. /\ f[0] = <<>>
      /\ \A i \in 1..Len(d) : f[i] = Files!Step(t, f[i - 1], d[i], FALSE)
  <2>1. \A panel : /\ Files!Trail(t, <<>>, d, panel)[0] = <<>>
                   /\ \A i \in 1..Len(d) : Files!Trail(t, <<>>, d, panel)[i] =
                        Files!Step(t, Files!Trail(t, <<>>, d, panel)[i - 1], d[i], panel)
    BY <1>1, TrailIs
  <2> QED BY ONLY <2>1, Zenon
<1> HIDE DEF f
<1> DEFINE S == {i \in 0..Len(d) : f[i] # SubSeq(d, 1, i)}
<1>3. S = {}
  <2>1. SUFFICES ASSUME S # {} PROVE FALSE
    OBVIOUS
  <2>2. S \in SUBSET Nat
    BY <1>1
  <2>3. PICK m \in S : \A n \in S : m <= n
    BY <2>1, <2>2, LeastNatural
  <2>4. m \in 0..Len(d) /\ f[m] # SubSeq(d, 1, m)
    BY <2>3
  <2>5. m # 0
    <3>1. SubSeq(d, 1, 0) = <<>>
      BY SubSeqEmpty
    <3> QED BY <1>2, <2>4, <3>1
  <2> DEFINE c == m - 1
  <2>6. c \in 0..Len(d) /\ c < Len(d) /\ c \notin S /\ m = c + 1 /\ m \in 1..Len(d)
    BY <1>1, <2>3, <2>4, <2>5
  <2> HIDE DEF c
  <2>7. f[c] = SubSeq(d, 1, c)
    BY <2>6
  <2>8. /\ SubSeq(d, 1, c + 1) = Append(SubSeq(d, 1, c), d[c + 1])
        /\ SubSeq(d, 1, c + 1) # <<>>
    BY <1>1, <2>6, NextPart
  <2>9. c + 1 \in 0..Len(d)
    BY <2>4, <2>6
  <2>10. Files!Is(t, SubSeq(d, 1, c), "dir") /\ Files!Is(t, SubSeq(d, 1, c + 1), "dir")
    BY <2>6, <2>9, PartIsDir
  <2>11. f[m] = Files!Step(t, SubSeq(d, 1, c), d[c + 1], FALSE)
    <3>1. m - 1 = c
      BY <1>1, <2>6
    <3> QED BY <1>2, <2>6, <2>7, <3>1
  <2>12. /\ Files!Exists(t, SubSeq(d, 1, c + 1))
         /\ ~Files!Is(t, SubSeq(d, 1, c + 1), "link")
    BY <2>8, <2>10 DEF Files!Is, Files!Exists
  <2>13. f[m] = SubSeq(d, 1, c + 1)
    BY <2>8, <2>10, <2>11, <2>12 DEF Files!Step
  <2> QED BY <2>4, <2>6, <2>13
<1>4. Files!Walk(t, <<>>, d, FALSE) = f[Len(d)] /\ Len(d) \in 0..Len(d)
  BY <1>1 DEF Files!Walk, f
<1> QED BY <1>1, <1>3, <1>4

LEMMA PlaceOfEntry ==
  ASSUME NEW t, TreeOK(t), NEW p \in Files!Path, p # <<>>, Files!Is(t, Files!Front(p), "dir")
  PROVE  Files!Place(t, p) = p
<1>1. Files!Walk(t, <<>>, Files!Front(p), FALSE) = Files!Front(p)
  BY WalkToDir
<1>2. p = Append(Files!Front(p), Files!Last(p))
  BY FrontLast
<1> QED BY <1>1, <1>2 DEF Files!Place

LEMMA PlaceIs ==
  ASSUME NEW t, TreeOK(t), NEW p \in Files!Path, p # <<>>
  PROVE  LET at == Files!Place(t, p) IN
         \/ at = Files!NoPath
         \/ /\ at \in Files!Path \ {<<>>} /\ Files!Is(t, Files!Front(at), "dir")
            /\ Files!Last(at) = Files!Last(p)
<1> DEFINE dir == Files!Walk(t, <<>>, Files!Front(p), FALSE)
<1> HIDE DEF dir
<1>1. CASE Files!Is(t, dir, "dir")
  <2>1. Files!Place(t, p) = Append(dir, Files!Last(p))
    BY <1>1 DEF dir, Files!Place
  <2>2. Files!Last(p) \in Files!Name /\ dir \in Files!Path
    BY <1>1, FrontLast, NodeIs
  <2>3. /\ Append(dir, Files!Last(p)) \in Files!Path \ {<<>>}
        /\ Files!Front(Append(dir, Files!Last(p))) = dir
        /\ Files!Last(Append(dir, Files!Last(p))) = Files!Last(p)
    BY <2>2, AppendPath
  <2> QED BY <1>1, <2>1, <2>3
<1>2. CASE ~Files!Is(t, dir, "dir")
  <2>1. Files!Place(t, p) = Files!NoPath
    BY <1>2 DEF dir, Files!Place
  <2> QED BY <2>1
<1> QED BY <1>1, <1>2

LEMMA PlaceOfNone ==
  ASSUME NEW t, TreeOK(t) PROVE Files!Place(t, Files!NoPath) = Files!NoPath
<1>1. Files!Is(t, <<>>, "dir")
  BY DEF Files!Is
<1>2. Files!Walk(t, <<>>, <<>>, FALSE) = <<>>
  BY <1>1, WalkToDir
<1> QED BY <1>1, <1>2, NoPathIsNone DEF Files!Place

\* A path below the mounted folder, whose folder is one.
Below(t, p) ==
    /\ p \in Files!Path \ {<<>>} /\ Files!Is(t, Files!Front(p), "dir")
    /\ Files!Inside(Files!Front(p))

LEMMA BelowIs ==
  ASSUME NEW t, TreeOK(t), NEW p, Below(t, p)
  PROVE  /\ p \in Files!Path \ {<<>>} /\ Files!Place(t, p) = p
         /\ Files!Inside(p) /\ p # FileRoot
         /\ \A q \in Files!Path : Files!IsPrefix(p, q) => Files!Inside(q) /\ q # FileRoot
<1>1. p \in Files!Path /\ p # <<>> /\ Files!Place(t, p) = p
  BY PlaceOfEntry DEF Below
<1> DEFINE f == Files!Front(p)
<1>2. /\ f \in Files!Path /\ Len(f) = Len(p) - 1 /\ Len(p) \in Nat \ {0}
      /\ \A i \in 1..Len(p) - 1 : f[i] = p[i]
  BY <1>1, FrontLast
<1>3. FileRoot \in Files!Path /\ Len(FileRoot) \in Nat
  BY FilesConstants, PathLength
<1>4. Len(FileRoot) <= Len(f) /\ \A i \in 1..Len(FileRoot) : FileRoot[i] = f[i]
  BY <1>2, <1>3, PrefixIs DEF Below, Files!Inside
<1> HIDE DEF f
<1>5. ASSUME NEW q \in Files!Path, Files!IsPrefix(p, q) PROVE Files!Inside(q) /\ q # FileRoot
  <2>1. Len(q) \in Nat /\ Len(p) <= Len(q) /\ \A i \in 1..Len(p) : p[i] = q[i]
    BY <1>1, <1>5, PathLength, PrefixIs
  <2>2. Len(FileRoot) < Len(q) /\ \A i \in 1..Len(FileRoot) : FileRoot[i] = q[i]
    BY <1>2, <1>3, <1>4, <2>1
  <2> QED BY <1>3, <2>2, PrefixIs DEF Files!Inside
<1>6. Files!IsPrefix(p, p)
  BY <1>1, PathLength, PrefixIs
<1> QED BY <1>1, <1>5, <1>6

LEMMA EntryBelow ==
  ASSUME NEW t, TreeOK(t), NEW dir, Files!Is(t, dir, "dir"), Files!Inside(dir),
         NEW n \in Files!Name
  PROVE  Below(t, Append(dir, n)) /\ Files!Last(Append(dir, n)) = n
<1>1. dir \in Files!Path
  BY NodeIs
<1>2. /\ Append(dir, n) \in Files!Path \ {<<>>} /\ Files!Front(Append(dir, n)) = dir
      /\ Files!Last(Append(dir, n)) = n
  BY <1>1, AppendPath
<1> QED BY <1>2 DEF Below

LEMMA RootIs == FileRoot \in Files!Path /\ FileRoot # <<>> /\ ~Files!Inside(<<>>)
<1>1. FileRoot \in Files!Path /\ FileRoot # <<>>
  BY FilesConstants
<1>2. Len(FileRoot) \in Nat \ {0}
  BY <1>1, PathLength
<1>3. ~(Len(FileRoot) <= Len(<<>>))
  BY <1>2
<1> QED BY <1>1, <1>3 DEF Files!Inside, Files!IsPrefix

\* What a path of the panel resolves to.
LEMMA ResolveIs ==
  ASSUME NEW t, TreeOK(t), NEW names \in Files!Path, NEW expect \in {"dir", "file"}
  PROVE  LET end == Files!resolve_rel(t, names, expect) IN
         \/ end = Files!NoPath
         \/ /\ end \in DOMAIN t /\ Files!Is(t, end, expect) /\ Files!Inside(end)
            /\ Files!Is(t, FileRoot, "dir")
<1> DEFINE end == Files!Walk(t, FileRoot, names, TRUE)
<1>1. end = Files!NoPath \/ Files!Inside(end)
  BY WalkInside
<1>2. /\ names = <<>> => end = FileRoot
      /\ names # <<>> => end = Files!NoPath
                         \/ (end \in DOMAIN t /\ Files!Is(t, FileRoot, "dir"))
  <2>1. \A panel \in BOOLEAN :
            /\ names = <<>> => Files!Walk(t, FileRoot, names, panel) = FileRoot
            /\ names # <<>> => Files!Walk(t, FileRoot, names, panel) = Files!NoPath
                               \/ (/\ Files!Walk(t, FileRoot, names, panel) \in DOMAIN t
                                   /\ Files!Is(t, FileRoot, "dir"))
    BY WalkIs
  <2>2. TRUE \in BOOLEAN
    OBVIOUS
  <2> QED BY ONLY <2>1, <2>2, Zenon
<1>3. Files!resolve_rel(t, names, expect) =
        IF Files!Is(t, end, expect) /\ (names # <<>> \/ expect = "dir") THEN end
        ELSE Files!NoPath
  BY DEF Files!resolve_rel
<1> HIDE DEF end
<1>4. CASE Files!Is(t, end, expect) /\ (names # <<>> \/ expect = "dir")
  <2>1. end # Files!NoPath /\ Files!Inside(end)
    BY <1>1, <1>4, NodeIs
  <2>2. end # <<>>
    BY <2>1, RootIs
  <2>3. end \in DOMAIN t
    BY <1>4, <2>2, NodeIs
  <2>4. Files!Is(t, FileRoot, "dir")
    BY <1>2, <1>4, <2>1
  <2> QED BY <1>3, <1>4, <2>1, <2>3, <2>4
<1> QED BY <1>3, <1>4

\* A node that a request names lies below the mounted folder, under the name it gave.
LEMMA NamedNodeIs ==
  ASSUME NEW t, TreeOK(t), NEW names \in Files!Path
  PROVE  LET node == Files!Node(t, names) IN
         \/ node = Files!NoPath
         \/ /\ node \in DOMAIN t /\ Below(t, node) /\ names # <<>>
            /\ Files!Last(node) = Files!Last(names)
<1> DEFINE parent == Files!resolve_rel(t, Files!Front(names), "dir")
           p == Append(parent, Files!Last(names))
<1>1. CASE names # <<>> /\ Files!Exists(t, p)
  <2>1. Files!Front(names) \in Files!Path /\ Files!Last(names) \in Files!Name
    BY <1>1, FrontLast
  <2>2. p \in Files!Path /\ p \in DOMAIN t
    BY <1>1 DEF Files!Exists, TreeOK
  <2>3. parent # Files!NoPath
    BY <2>1, <2>2, NoPathIsNone
  <2>4. Files!Is(t, parent, "dir") /\ Files!Inside(parent)
    BY <2>1, <2>3, ResolveIs
  <2>5. Below(t, p) /\ Files!Last(p) = Files!Last(names)
    BY <2>1, <2>4, EntryBelow
  <2> QED BY <1>1, <2>2, <2>5 DEF Files!Node
<1>2. CASE ~(names # <<>> /\ Files!Exists(t, p))
  BY <1>2 DEF Files!Node
<1> QED BY <1>1, <1>2

\* A free name is free, and is the base that was asked for with another number.
LEMMA UniqueIs ==
  ASSUME NEW t, NEW dir \in Files!Path,
         NEW base \in FileText, NEW suffix \in FileText, NEW n \in Nat \ {0}
  PROVE  LET free == Files!_unique_name(t, dir, <<base, suffix, n>>) IN
         \/ free = Files!NoPath
         \/ /\ free \in Files!Path \ {<<>>} /\ Files!Front(free) = dir /\ ~Files!Exists(t, free)
            /\ Files!Last(free) \in Files!Name /\ Files!Last(free)[2] = suffix
<1> DEFINE Free == {m \in n..MaxCopies : ~Files!Exists(t, Append(dir, <<base, suffix, m>>))}
           first == CHOOSE m \in Free : \A k \in Free : m <= k
<1>1. Files!_unique_name(t, dir, <<base, suffix, n>>) =
        IF Free = {} THEN Files!NoPath ELSE Append(dir, <<base, suffix, first>>)
  BY DEF Files!_unique_name
<1>2. CASE Free # {}
  <2>1. Free \in SUBSET Nat
    BY FilesConstants
  <2>2. \E m \in Free : \A k \in Free : m <= k
    BY <1>2, <2>1, LeastNatural
  <2>3. first \in Free
    BY <2>2
  <2> HIDE DEF first
  <2>4. first \in Nat \ {0} /\ ~Files!Exists(t, Append(dir, <<base, suffix, first>>))
    BY <2>3, FilesConstants
  <2> DEFINE name == <<base, suffix, first>>
  <2>5. name \in Files!Name /\ name[2] = suffix
    BY <2>4 DEF Files!Name
  <2> HIDE DEF name
  <2>7. /\ Append(dir, name) \in Files!Path \ {<<>>} /\ Files!Front(Append(dir, name)) = dir
        /\ Files!Last(Append(dir, name)) = name
    BY <2>5, AppendPath
  <2>8. Files!_unique_name(t, dir, <<base, suffix, n>>) = Append(dir, name)
    BY <1>1, <1>2 DEF name
  <2>9. ~Files!Exists(t, Append(dir, name))
    BY <2>4 DEF name
  <2> QED BY <2>5, <2>7, <2>8, <2>9
<1> QED BY <1>1, <1>2

-----------------------------------------------------------------------------
(***************************************************************************)
(* Changes to the tree: each leaves every node in a folder.                 *)
(***************************************************************************)
LEMMA FrontUnder ==
  ASSUME NEW p \in Files!Path, NEW q \in Files!Path, q # <<>>,
         Files!IsPrefix(p, Files!Front(q))
  PROVE  Files!IsPrefix(p, q)
<1> DEFINE f == Files!Front(q)
<1>1. /\ f \in Files!Path /\ Len(f) = Len(q) - 1 /\ Len(q) \in Nat \ {0}
      /\ \A i \in 1..Len(q) - 1 : f[i] = q[i]
  BY FrontLast
<1>2. Len(p) \in Nat /\ Len(p) <= Len(f) /\ \A i \in 1..Len(p) : p[i] = f[i]
  BY <1>1, PathLength, PrefixIs
<1> HIDE DEF f
<1>3. Len(p) <= Len(q) /\ \A i \in 1..Len(p) : p[i] = q[i]
  BY <1>1, <1>2
<1> QED BY <1>3, PrefixIs

\* Nodes the panel makes: folders and files.
Made == {Files!Dir, Files!File("y"), Files!File("zip"), Files!File("m")}

LEMMA MadeIs == \A node \in Made : node.kind \in {"dir", "file"}
<1>1. \A d : Files!File(d).kind = "file"
  BY DEF Files!File
<1>2. Files!Dir.kind = "dir"
  BY DEF Files!Dir
<1> QED BY <1>1, <1>2 DEF Made

LEMMA PutOK ==
  ASSUME NEW t, TreeOK(t), NEW p \in Files!Path, p # <<>>, Files!Is(t, Files!Front(p), "dir"),
         ~Files!Is(t, p, "dir"), NEW node \in Made
  PROVE  TreeOK(Files!Put(t, p, node))
<1> DEFINE n == Files!Put(t, p, node)
<1>1. DOMAIN n = DOMAIN t \cup {p} /\ \A q \in DOMAIN n : n[q] = IF q = p THEN node ELSE t[q]
  BY DEF Files!Put
<1> HIDE DEF n
<1>2. SUFFICES ASSUME NEW q \in DOMAIN n
      PROVE  /\ q \in Files!Path \ {<<>>} /\ n[q].kind \in {"dir", "file", "link"}
             /\ Files!Is(n, Files!Front(q), "dir")
             /\ n[q].kind = "link" => n[q].target \in Files!Path
  BY DEF TreeOK, n
<1>3. Files!Is(t, Files!Front(q), "dir")
  BY <1>1 DEF TreeOK
<1>4. Files!Is(n, Files!Front(q), "dir")
  BY <1>1, <1>3 DEF Files!Is
<1> QED BY <1>1, <1>4, MadeIs DEF TreeOK

LEMMA DropOK ==
  ASSUME NEW t, TreeOK(t), NEW p \in Files!Path
  PROVE  TreeOK(Files!Drop(t, p))
<1> DEFINE n == Files!Drop(t, p)
<1>1. DOMAIN n = DOMAIN t \ Files!Under(t, p) /\ \A q \in DOMAIN n : n[q] = t[q]
  BY DEF Files!Drop
<1> HIDE DEF n
<1>2. SUFFICES ASSUME NEW q \in DOMAIN n PROVE Files!Is(n, Files!Front(q), "dir")
  BY <1>1 DEF TreeOK, n
<1>3. q \in Files!Path /\ q # <<>> /\ Files!Is(t, Files!Front(q), "dir")
  BY <1>1 DEF TreeOK
<1>4. ~Files!IsPrefix(p, Files!Front(q))
  BY <1>1, <1>3, FrontUnder DEF Files!Under
<1>5. Files!Front(q) # <<>> => Files!Front(q) \in DOMAIN n
  BY <1>1, <1>3, <1>4 DEF Files!Under, Files!Is
<1> QED BY <1>1, <1>3, <1>5 DEF Files!Is

\* Nothing is under no path.
LEMMA DropNone ==
  ASSUME NEW t, TreeOK(t)
  PROVE  TreeOK(Files!Drop(t, Files!NoPath))
<1>1. /\ DOMAIN Files!Drop(t, Files!NoPath) = DOMAIN t
      /\ \A q \in DOMAIN t : Files!Drop(t, Files!NoPath)[q] = t[q]
  BY UnderNone DEF Files!Drop
<1> QED BY <1>1 DEF TreeOK, Files!Is

LEMMA CreatedOK ==
  ASSUME NEW t, TreeOK(t), NEW p \in (Files!Path \ {<<>>}) \cup {Files!NoPath},
         NEW node \in Made
  PROVE  TreeOK(Files!Created(t, p, node))
<1> DEFINE at == Files!Place(t, p)
<1>1. CASE at = Files!NoPath \/ Files!Exists(t, at)
  BY <1>1 DEF Files!Created
<1>2. CASE at # Files!NoPath /\ ~Files!Exists(t, at)
  <2>1. Files!Created(t, p, node) = Files!Put(t, at, node)
    BY <1>2 DEF Files!Created
  <2>2. p \in Files!Path /\ p # <<>>
    BY <1>2, PlaceOfNone
  <2>3. at \in Files!Path /\ at # <<>> /\ Files!Is(t, Files!Front(at), "dir")
    BY <1>2, <2>2, PlaceIs
  <2>4. ~Files!Is(t, at, "dir")
    BY <1>2, <2>3 DEF Files!Is, Files!Exists
  <2> HIDE DEF at
  <2> QED BY <2>1, <2>3, <2>4, PutOK
<1> QED BY <1>1, <1>2

LEMMA ReplacedOK ==
  ASSUME NEW t, TreeOK(t), NEW p \in Files!Path \ {<<>>},
         NEW node \in Made
  PROVE  TreeOK(Files!Replaced(t, p, node))
<1> DEFINE at == Files!Place(t, p)
<1>1. CASE at = Files!NoPath \/ Files!Is(t, at, "dir")
  BY <1>1 DEF Files!Replaced
<1>2. CASE at # Files!NoPath /\ ~Files!Is(t, at, "dir")
  <2>1. Files!Replaced(t, p, node) = Files!Put(t, at, node)
    BY <1>2 DEF Files!Replaced
  <2>2. at \in Files!Path /\ at # <<>> /\ Files!Is(t, Files!Front(at), "dir")
    BY <1>2, PlaceIs
  <2> HIDE DEF at
  <2> QED BY <1>2, <2>1, <2>2, PutOK
<1> QED BY <1>1, <1>2

\* The path of what was under from, once from is called to, and back.
Graft(from, to, q) == to \o SubSeq(q, Len(from) + 1, Len(q))

LEMMA GraftIs ==
  ASSUME NEW from \in Files!Path, NEW to \in Files!Path, NEW q \in Files!Path,
         Files!IsPrefix(from, q)
  PROVE  LET c == Graft(from, to, q) IN
         /\ c \in Files!Path /\ Len(c) = Len(to) + (Len(q) - Len(from))
         /\ \A i \in 1..Len(to) : c[i] = to[i]
         /\ \A i \in 1..Len(q) - Len(from) : c[Len(to) + i] = q[Len(from) + i]
         /\ Files!IsPrefix(to, c)
<1>1. /\ Len(from) \in Nat /\ Len(to) \in Nat /\ Len(q) \in Nat /\ Len(from) <= Len(q)
  BY PathLength, PrefixIs
<1> DEFINE rest == SubSeq(q, Len(from) + 1, Len(q))
           c == to \o rest
<1>2. /\ rest \in Files!Path /\ Len(rest) = Len(q) - Len(from)
      /\ \A i \in 1..Len(q) - Len(from) : rest[i] = q[Len(from) + i]
  <2>1. \A i \in (Len(from) + 1)..Len(q) : q[i] \in Files!Name
    BY <1>1, PartOfPath, PathLength
  <2>2. /\ rest \in Seq(Files!Name)
        /\ Len(rest) = IF Len(from) + 1 <= Len(q) THEN Len(q) - (Len(from) + 1) + 1 ELSE 0
        /\ \A i \in 1..Len(q) - (Len(from) + 1) + 1 : rest[i] = q[Len(from) + 1 + i - 1]
    BY <1>1, <2>1, SubSeqProperties
  <2> HIDE DEF rest
  <2>3. \A i \in 1..Len(q) - Len(from) :
            i \in 1..Len(q) - (Len(from) + 1) + 1 /\ Len(from) + 1 + i - 1 = Len(from) + i
    BY <1>1
  <2> QED BY <1>1, <2>2, <2>3 DEF Files!Path
<1> HIDE DEF rest
<1>3. /\ c \in Files!Path /\ Len(c) = Len(to) + Len(rest)
      /\ \A i \in 1..Len(to) + Len(rest) : c[i] = IF i <= Len(to) THEN to[i] ELSE rest[i - Len(to)]
  BY <1>2, ConcatProperties DEF Files!Path
<1>4. Graft(from, to, q) = c
  BY DEF Graft, rest
<1> HIDE DEF c
<1>5. \A i \in 1..Len(to) : c[i] = to[i]
  BY <1>1, <1>2, <1>3
<1>6. \A i \in 1..Len(q) - Len(from) : c[Len(to) + i] = q[Len(from) + i]
  <2>1. \A i \in 1..Len(q) - Len(from) :
            /\ Len(to) + i \in 1..Len(to) + Len(rest) /\ ~(Len(to) + i <= Len(to))
            /\ (Len(to) + i) - Len(to) = i
    BY <1>1, <1>2
  <2> QED BY <1>2, <1>3, <2>1
<1>7. Files!IsPrefix(to, c)
  BY <1>1, <1>2, <1>3, <1>5, PrefixIs
<1> QED BY <1>2, <1>3, <1>4, <1>5, <1>6, <1>7

LEMMA GraftType ==
  ASSUME NEW from \in Files!Path, NEW to \in Files!Path, NEW q \in Files!Path,
         Files!IsPrefix(from, q)
  PROVE  Graft(from, to, q) \in Files!Path /\ Len(Graft(from, to, q)) = Len(to) + (Len(q) - Len(from))
BY GraftIs

LEMMA GraftBack ==
  ASSUME NEW from \in Files!Path, NEW to \in Files!Path, NEW q \in Files!Path,
         Files!IsPrefix(from, q)
  PROVE  Graft(to, from, Graft(from, to, q)) = q
<1> DEFINE c == Graft(from, to, q)
           b == Graft(to, from, c)
<1>1. /\ Len(from) \in Nat /\ Len(to) \in Nat /\ Len(q) \in Nat /\ Len(from) <= Len(q)
      /\ \A i \in 1..Len(from) : from[i] = q[i]
  BY PathLength, PrefixIs
<1>2. /\ c \in Files!Path /\ Len(c) = Len(to) + (Len(q) - Len(from))
      /\ \A i \in 1..Len(q) - Len(from) : c[Len(to) + i] = q[Len(from) + i]
      /\ Files!IsPrefix(to, c)
  BY GraftIs
<1> HIDE DEF c
<1>3. /\ b \in Files!Path /\ Len(b) = Len(from) + (Len(c) - Len(to))
      /\ \A i \in 1..Len(from) : b[i] = from[i]
      /\ \A i \in 1..Len(c) - Len(to) : b[Len(from) + i] = c[Len(to) + i]
  BY <1>2, GraftIs, ZenonT(60)
<1> HIDE DEF b
<1>4. Len(b) = Len(q) /\ Len(c) - Len(to) = Len(q) - Len(from)
  BY <1>1, <1>2, <1>3
<1>5. ASSUME NEW i \in 1..Len(q) PROVE b[i] = q[i]
  <2>1. CASE i <= Len(from)
    BY <1>1, <1>3, <2>1
  <2>2. CASE ~(i <= Len(from))
    <3>1. i - Len(from) \in 1..Len(q) - Len(from) /\ Len(from) + (i - Len(from)) = i
      BY <1>1, <2>2
    <3>2. b[Len(from) + (i - Len(from))] = q[Len(from) + (i - Len(from))]
      BY <1>2, <1>3, <1>4, <3>1
    <3> QED BY <3>1, <3>2
  <2> QED BY <2>1, <2>2
<1>6. b = q
  BY <1>3, <1>4, <1>5, SamePath
<1> QED BY <1>6 DEF b, c

\* Grafting keeps folders together and last names, save that of the node itself.
LEMMA GraftFront ==
  ASSUME NEW from \in Files!Path, NEW to \in Files!Path, NEW q \in Files!Path,
         Files!IsPrefix(from, q)
  PROVE  /\ q = from => Graft(from, to, q) = to
         /\ q # from => /\ Files!Front(Graft(from, to, q)) = Graft(from, to, Files!Front(q))
                        /\ Files!Last(Graft(from, to, q)) = Files!Last(q)
                        /\ Graft(from, to, q) # <<>>
<1> DEFINE c == Graft(from, to, q)
<1>1. /\ Len(from) \in Nat /\ Len(to) \in Nat /\ Len(q) \in Nat /\ Len(from) <= Len(q)
      /\ \A i \in 1..Len(from) : from[i] = q[i]
  BY PathLength, PrefixIs
<1>2. /\ c \in Files!Path /\ Len(c) = Len(to) + (Len(q) - Len(from))
      /\ \A i \in 1..Len(to) : c[i] = to[i]
      /\ \A i \in 1..Len(q) - Len(from) : c[Len(to) + i] = q[Len(from) + i]
  BY GraftIs
<1> HIDE DEF c
<1>3. ASSUME q = from PROVE c = to
  BY <1>1, <1>2, <1>3, SamePath
<1>4. ASSUME q # from
      PROVE  /\ Files!Front(c) = Graft(from, to, Files!Front(q))
             /\ Files!Last(c) = Files!Last(q) /\ c # <<>>
  <2>1. Len(from) < Len(q)
    BY <1>1, <1>4, SamePath
  <2>2. q # <<>> /\ c # <<>> /\ Len(c) \in Nat
    BY <1>1, <1>2, <2>1, PathLength
  <2> DEFINE f == Files!Front(q)
             g == Files!Front(c)
             h == Graft(from, to, f)
  <2>3. /\ f \in Files!Path /\ Len(f) = Len(q) - 1 /\ \A i \in 1..Len(q) - 1 : f[i] = q[i]
        /\ g \in Files!Path /\ Len(g) = Len(c) - 1 /\ \A i \in 1..Len(c) - 1 : g[i] = c[i]
    BY <1>2, <2>2, FrontLast
  <2> HIDE DEF f, g
  <2>4. Files!IsPrefix(from, f)
    BY <1>1, <2>1, <2>3, PrefixIs
  <2>5. /\ h \in Files!Path /\ Len(h) = Len(to) + (Len(f) - Len(from))
        /\ \A i \in 1..Len(to) : h[i] = to[i]
        /\ \A i \in 1..Len(f) - Len(from) : h[Len(to) + i] = f[Len(from) + i]
    BY <2>3, <2>4, GraftIs, ZenonT(60)
  <2> HIDE DEF h
  <2>6. Len(g) = Len(h) /\ Len(g) \in Nat
    BY <1>1, <1>2, <2>1, <2>3, <2>5
  <2>7. ASSUME NEW i \in 1..Len(g) PROVE g[i] = h[i]
    <3>1. i \in 1..Len(c) - 1 /\ g[i] = c[i]
      BY <2>3
    <3>2. CASE i <= Len(to)
      BY <1>1, <1>2, <2>5, <3>1, <3>2
    <3>3. CASE ~(i <= Len(to))
      <4> DEFINE k == i - Len(to)
      <4>1. /\ k \in 1..Len(q) - Len(from) /\ k \in 1..Len(f) - Len(from) /\ Len(to) + k = i
            /\ Len(from) + k \in 1..Len(q) - 1
        BY <1>1, <1>2, <2>1, <2>3, <3>1, <3>3
      <4> HIDE DEF k
      <4>2. c[Len(to) + k] = q[Len(from) + k] /\ h[Len(to) + k] = f[Len(from) + k]
            /\ f[Len(from) + k] = q[Len(from) + k]
        BY <1>2, <2>3, <2>5, <4>1
      <4> QED BY <3>1, <4>1, <4>2
    <3> QED BY <3>2, <3>3
  <2>8. g = h
    BY <2>3, <2>5, <2>6, <2>7, SamePath
  <2>9. Files!Last(c) = Files!Last(q)
    <3> DEFINE k == Len(q) - Len(from)
    <3>1. k \in 1..Len(q) - Len(from) /\ Len(to) + k = Len(c) /\ Len(from) + k = Len(q)
      BY <1>1, <1>2, <2>1
    <3> HIDE DEF k
    <3>2. c[Len(c)] = q[Len(q)]
      BY <1>2, <3>1
    <3> QED BY <3>2 DEF Files!Last
  <2> QED BY <2>2, <2>8, <2>9 DEF f, g, h
<1> QED BY <1>3, <1>4 DEF c

MovedTo(t, from, to) == {Graft(from, to, q) : q \in Files!Under(t, from)}

LEMMA MovedIs ==
  ASSUME NEW t, TreeOK(t), NEW from \in DOMAIN t, NEW to \in Files!Path \ {<<>>},
         Files!Under(t, to) \subseteq {to}
  PROVE  LET n == Files!Moved(t, from, to) IN
         /\ DOMAIN n = MovedTo(t, from, to) \cup (DOMAIN t \ Files!Under(t, from))
         /\ \A q \in Files!Under(t, from) : n[Graft(from, to, q)] = t[q]
         /\ \A q \in DOMAIN t \ Files!Under(t, from) :
                q # to => q \notin MovedTo(t, from, to) /\ n[q] = t[q]
         /\ \A q \in MovedTo(t, from, to) : q \in Files!Path /\ Files!IsPrefix(to, q)
<1> DEFINE n == Files!Moved(t, from, to)
           rest == Files!Drop(t, from)
           new == MovedTo(t, from, to)
<1>1. new = {to \o SubSeq(q, Len(from) + 1, Len(q)) : q \in Files!Under(t, from)}
  BY DEF MovedTo, Graft
<1>2. n = [q \in new \cup DOMAIN rest |-> IF q \in new THEN t[Graft(to, from, q)] ELSE rest[q]]
  BY <1>1 DEF Files!Moved, Graft
<1>3. DOMAIN rest = DOMAIN t \ Files!Under(t, from) /\ \A q \in DOMAIN rest : rest[q] = t[q]
  BY DEF Files!Drop
<1> HIDE DEF n, rest
<1>4. /\ from \in Files!Path
      /\ \A q \in Files!Under(t, from) : q \in Files!Path /\ Files!IsPrefix(from, q)
  BY DEF TreeOK, Files!Under
<1>5. \A q \in Files!Under(t, from) : Graft(from, to, q) \in new
  BY DEF MovedTo
<1>6. \A q \in Files!Under(t, from) : n[Graft(from, to, q)] = t[q]
  <2> TAKE q \in Files!Under(t, from)
  <2>1. Graft(to, from, Graft(from, to, q)) = q
    BY <1>4, GraftBack
  <2>2. n[Graft(from, to, q)] = t[Graft(to, from, Graft(from, to, q))]
    BY <1>2, <1>5
  <2> QED BY <2>1, <2>2
<1>7. \A q \in new : q \in Files!Path /\ Files!IsPrefix(to, q)
  BY <1>4, GraftIs DEF MovedTo
<1>8. ASSUME NEW q \in DOMAIN t \ Files!Under(t, from), q # to
      PROVE  q \notin new /\ n[q] = t[q]
  <2>2. q \notin new
    BY <1>7, <1>8 DEF Files!Under
  <2> HIDE DEF new
  <2> QED BY <1>2, <1>3, <1>8, <2>2
<1> HIDE DEF new
<1>9. DOMAIN n = new \cup (DOMAIN t \ Files!Under(t, from))
  BY <1>2, <1>3
<1> QED BY <1>6, <1>7, <1>8, <1>9 DEF n, new

LEMMA MovedOK ==
  ASSUME NEW t, TreeOK(t), NEW from \in DOMAIN t, NEW to \in Files!Path \ {<<>>},
         Files!Is(t, Files!Front(to), "dir"), ~Files!IsPrefix(from, to),
         Files!Under(t, to) \subseteq {to}, Files!Is(t, to, "dir") => Files!Is(t, from, "dir")
  PROVE  TreeOK(Files!Moved(t, from, to))
<1> DEFINE n == Files!Moved(t, from, to)
           new == MovedTo(t, from, to)
<1>1. /\ DOMAIN n = new \cup (DOMAIN t \ Files!Under(t, from))
      /\ \A q \in Files!Under(t, from) : n[Graft(from, to, q)] = t[q]
      /\ \A q \in DOMAIN t \ Files!Under(t, from) : q # to => q \notin new /\ n[q] = t[q]
      /\ \A q \in new : q \in Files!Path /\ Files!IsPrefix(to, q)
  BY MovedIs
<1>2. /\ from \in Files!Path /\ from # <<>>
      /\ \A q \in Files!Under(t, from) : q \in Files!Path /\ Files!IsPrefix(from, q) /\ q \in DOMAIN t
  BY DEF TreeOK, Files!Under
<1>3. \A q \in Files!Under(t, from) : Graft(from, to, q) \in new
  BY DEF MovedTo
<1>4. \A r \in new : \E q \in Files!Under(t, from) : r = Graft(from, to, q)
  BY DEF MovedTo
<1>6. from \in Files!Under(t, from) /\ Graft(from, to, from) = to
  <2>1. Files!IsPrefix(from, from)
    BY <1>2, PathLength, PrefixIs
  <2> QED BY <1>2, <2>1, GraftFront DEF Files!Under
<1>7. to \in new
  BY <1>3, <1>6
<1>5. ASSUME NEW q \in DOMAIN t, q \notin Files!Under(t, from), t[q].kind = "dir"
      PROVE  Files!Is(n, q, "dir") /\ q \in DOMAIN n
  <2>1. CASE q = to
    <3>1. Files!Is(t, from, "dir")
      BY <1>5, <2>1 DEF Files!Is
    <3>2. t[from].kind = "dir" /\ n[to] = t[from]
      BY <1>1, <1>2, <1>6, <3>1 DEF Files!Is
    <3> HIDE DEF n, new
    <3> QED BY <1>1, <1>7, <2>1, <3>2 DEF Files!Is
  <2>2. CASE q # to
    BY <1>1, <1>5, <2>2 DEF Files!Is
  <2> QED BY <2>1, <2>2
<1> HIDE DEF n, new
<1>8. ASSUME NEW q \in DOMAIN t, q \notin Files!Under(t, from), q # to
      PROVE  Files!Is(n, Files!Front(q), "dir")
  <2>1. q \in Files!Path /\ q # <<>> /\ Files!Is(t, Files!Front(q), "dir")
    BY DEF TreeOK
  <2>2. ~Files!IsPrefix(from, Files!Front(q))
    BY <1>2, <1>8, <2>1, FrontUnder DEF Files!Under
  <2>3. CASE Files!Front(q) = <<>>
    BY <2>3 DEF Files!Is
  <2>4. CASE Files!Front(q) # <<>>
    BY <1>5, <2>1, <2>2, <2>4 DEF Files!Is, Files!Under
  <2> QED BY <2>3, <2>4
<1>9. Files!Is(n, Files!Front(to), "dir")
  <2>1. ~Files!IsPrefix(from, Files!Front(to))
    BY <1>2, FrontUnder
  <2>2. CASE Files!Front(to) = <<>>
    BY <2>2 DEF Files!Is
  <2>3. CASE Files!Front(to) # <<>>
    BY <1>5, <2>1, <2>3 DEF Files!Is, Files!Under
  <2> QED BY <2>2, <2>3
<1>10. ASSUME NEW q \in Files!Under(t, from), q # from
       PROVE  /\ Files!Is(n, Files!Front(Graft(from, to, q)), "dir")
              /\ Graft(from, to, q) # <<>>
  <2>1. Files!Front(q) \in Files!Under(t, from) /\ Files!Is(t, Files!Front(q), "dir")
    BY <1>2, <1>10, UnderNode
  <2>2. /\ Files!Front(Graft(from, to, q)) = Graft(from, to, Files!Front(q))
        /\ Files!Last(Graft(from, to, q)) = Files!Last(q) /\ Graft(from, to, q) # <<>>
    BY <1>2, <1>10, GraftFront
  <2>3. Files!Front(q) # <<>>
    BY <1>2, <2>1 DEF TreeOK
  <2>4. t[Files!Front(q)].kind = "dir"
    BY <2>1, <2>3, NodeIs
  <2>5. /\ Graft(from, to, Files!Front(q)) \in DOMAIN n
        /\ n[Graft(from, to, Files!Front(q))].kind = "dir"
    BY <1>1, <1>3, <2>1, <2>4
  <2> QED BY <2>2, <2>5 DEF Files!Is
<1>11. SUFFICES ASSUME NEW r \in DOMAIN n
       PROVE  /\ r \in Files!Path \ {<<>>} /\ n[r].kind \in {"dir", "file", "link"}
              /\ Files!Is(n, Files!Front(r), "dir")
              /\ n[r].kind = "link" => n[r].target \in Files!Path
  BY DEF TreeOK, n
<1>12. CASE r \in new
  <2>1. PICK q \in Files!Under(t, from) : r = Graft(from, to, q)
    BY <1>4, <1>12
  <2>2. n[r] = t[q] /\ q \in DOMAIN t /\ r \in Files!Path
    BY <1>1, <1>2, <1>12, <2>1
  <2>3. /\ t[q].kind \in {"dir", "file", "link"}
        /\ t[q].kind = "link" => t[q].target \in Files!Path
    BY <2>2 DEF TreeOK
  <2>4. CASE q = from
    BY <1>6, <1>9, <2>1, <2>2, <2>3, <2>4
  <2>5. CASE q # from
    BY <1>10, <2>1, <2>2, <2>3, <2>5
  <2> QED BY <2>4, <2>5
<1>13. CASE r \notin new
  <2>1. r \in DOMAIN t /\ r \notin Files!Under(t, from) /\ r # to
    BY <1>1, <1>7, <1>13
  <2>2. n[r] = t[r] /\ Files!Is(n, Files!Front(r), "dir")
    BY <1>1, <1>8, <2>1
  <2> QED BY <2>1, <2>2 DEF TreeOK
<1> QED BY <1>12, <1>13

-----------------------------------------------------------------------------
(***************************************************************************)
(* Requests: what a check finds out is true of the tree it looked at, and   *)
(* stays true as long as nobody else moves.                                 *)
(***************************************************************************)
FileDoes == {"idle", "replace", "mkdir", "touch", "mkdirs", "delete", "move", "pack",
             "packed", "extract", "member"}
FileJob == [do : FileDoes, from : Files!Path \cup {Files!NoPath},
            to : Files!Path \cup {Files!NoPath}, lone : BOOLEAN]

\* The paths of a request that has something to do.
PathsOK(j) ==
    /\ j.do # "idle" => j.to \in Files!Path \ {<<>>}
    /\ j.do = "move" => j.from \in Files!Path \ {<<>>}
    /\ j.do = "mkdirs" => j.from \in Files!Path /\ Len(j.from) < Len(j.to)

\* The tree is still as the check of the request saw it.
Fits(t, j) ==
    /\ j.do # "mkdirs" => Below(t, j.to)
    /\ j.do = "mkdirs" => Files!Is(t, j.from, "dir") /\ Files!Inside(j.from)
    /\ j.do = "replace" => j.from = j.to \/ ~Files!Exists(t, j.to)
    /\ j.do = "delete" => j.from = j.to
    /\ j.do = "move" => Below(t, j.from) /\ ~Files!Exists(t, j.to)
    /\ j.do = "pack" => ~Files!Exists(t, j.to)
    /\ j.do \in {"pack", "packed"} => Files!Last(j.to)[2] # "lnxadmin-up"
    /\ j.do = "packed" => ~Files!Is(t, Files!TmpOf(j.to), "dir")
    /\ j.do = "member" => Files!Is(t, j.to, "dir")

LEMMA InsideFront ==
  ASSUME NEW p \in Files!Path, p # <<>>, Files!Inside(p), p # FileRoot
  PROVE  Files!Inside(Files!Front(p))
<1> DEFINE f == Files!Front(p)
<1>1. /\ f \in Files!Path /\ Len(f) = Len(p) - 1 /\ Len(p) \in Nat \ {0}
      /\ \A i \in 1..Len(p) - 1 : f[i] = p[i]
  BY FrontLast
<1> HIDE DEF f
<1>2. FileRoot \in Files!Path /\ Len(FileRoot) \in Nat
  BY FilesConstants, PathLength
<1>3. Len(FileRoot) <= Len(p) /\ \A i \in 1..Len(FileRoot) : FileRoot[i] = p[i]
  BY <1>2, PrefixIs DEF Files!Inside
<1>4. Len(FileRoot) # Len(p)
  BY <1>2, <1>3, SamePath
<1>5. Len(FileRoot) <= Len(f) /\ \A i \in 1..Len(FileRoot) : FileRoot[i] = f[i]
  BY <1>1, <1>2, <1>3, <1>4
<1> QED BY <1>1, <1>2, <1>5, PrefixIs DEF Files!Inside, f

LEMMA OperationIs ==
  ASSUME NEW o \in FileOperation
  PROVE  /\ o.rel \in Files!Path /\ o.dest \in Files!Path /\ o.name \in Files!Name
         /\ o.op \in {"write", "mkdir", "touch", "mkdirs", "upload", "delete", "move", "pack",
                      "extract"}
BY FilesAssumption, Zenon

LEMMA PlanIs ==
  ASSUME NEW do, NEW from, NEW to, Files!Plan(do, from, to) # Files!Refused
  PROVE  Files!Plan(do, from, to) = [do |-> do, from |-> from, to |-> to] /\ to # Files!NoPath
BY DEF Files!Plan

NameIs(n) == /\ n \in Files!Name => /\ n[1] \in FileText /\ n[2] \in FileText
                                   /\ n[3] \in Nat \ {0} /\ n = <<n[1], n[2], n[3]>>
LEMMA NameParts == \A n : NameIs(n)
BY DEF NameIs, Files!Name

LEMMA CheckedIs ==
  ASSUME NEW t, TreeOK(t), NEW o \in FileOperation, Files!Checked(t, o) # Files!Refused
  PROVE  LET plan == Files!Checked(t, o) IN
         /\ plan.do \in FileDoes \ {"idle"} /\ plan.from \in Files!Path \cup {Files!NoPath}
         /\ PathsOK(plan) /\ Fits(t, plan)
<1> DEFINE plan == Files!Checked(t, o)
           file == Files!resolve_rel(t, o.rel, "file")
           dir == Files!resolve_rel(t, o.rel, "dir")
           node == Files!Node(t, o.rel)
           real == Files!Exists(t, node) /\ ~Files!Is(t, node, "link")
           Good == /\ plan.do \in FileDoes \ {"idle"}
                   /\ plan.from \in Files!Path \cup {Files!NoPath}
                   /\ PathsOK(plan) /\ Fits(t, plan)
<1> SUFFICES Good
  OBVIOUS
<1>1. /\ o.rel \in Files!Path /\ o.dest \in Files!Path /\ o.name \in Files!Name
      /\ o.op \in {"write", "mkdir", "touch", "mkdirs", "upload", "delete", "move", "pack", "extract"}
  BY OperationIs
<1>2. /\ o.op = "write" => plan = Files!Plan("replace", file, file)
      /\ o.op \in {"mkdir", "touch"} => plan = Files!CheckNew(t, o)
      /\ o.op = "mkdirs" => plan = IF dir = Files!NoPath THEN Files!Refused
                                    ELSE Files!Plan("mkdirs", dir,
                                                    dir \o Append(o.dest, o.name))
      /\ o.op = "upload" => plan = IF dir = Files!NoPath THEN Files!Refused
                                    ELSE Files!Plan("replace", Files!NoPath,
                                                    Files!_unique_name(t, dir, o.name))
      /\ o.op = "delete" => plan = Files!Plan("delete", node, node)
      /\ o.op = "move" => plan = Files!CheckMove(t, o)
      /\ o.op = "pack" => plan =
            IF ~real THEN Files!Refused
            ELSE Files!Plan("pack", node,
                    Files!_unique_name(t, Files!Front(node),
                                       <<Files!Last(node)[1], "zip", Files!Last(node)[3]>>))
      /\ o.op = "extract" => plan =
            IF ~real \/ ~Files!Is(t, node, "file") \/ Files!Last(node)[2] # "zip"
            THEN Files!Refused ELSE Files!Plan("extract", node, Files!FolderFor(t, node))
  BY DEF Files!Checked
<1>3. plan # Files!Refused
  OBVIOUS
<1>4. /\ file = Files!NoPath \/ (/\ file \in DOMAIN t /\ Files!Is(t, file, "file")
                                 /\ Files!Inside(file) /\ Files!Is(t, FileRoot, "dir"))
      /\ dir = Files!NoPath \/ (dir \in DOMAIN t /\ Files!Is(t, dir, "dir") /\ Files!Inside(dir))
  BY <1>1, ResolveIs
<1>5. node = Files!NoPath \/ (/\ node \in DOMAIN t /\ Below(t, node) /\ o.rel # <<>>
                              /\ Files!Last(node) = Files!Last(o.rel))
  BY <1>1, NamedNodeIs
<1>6. real => node # Files!NoPath /\ NameIs(Files!Last(node)) /\ Files!Last(node) \in Files!Name
  <2>1. Files!NoPath \notin DOMAIN t
    BY NoPathIsNone DEF TreeOK
  <2>2. real => node # Files!NoPath
    BY <2>1 DEF Files!Exists
  <2>3. node # Files!NoPath => Files!Last(node) \in Files!Name
    BY <1>5, FrontLast DEF Below
  <2> QED BY <2>2, <2>3, NameParts
<1> HIDE DEF plan, file, dir, node
<1>7. ASSUME NEW do \in FileDoes \ {"idle", "move", "mkdirs", "member", "packed"},
             NEW from \in Files!Path \cup {Files!NoPath}, NEW to,
             plan = [do |-> do, from |-> from, to |-> to], Below(t, to),
             do = "replace" => from = to \/ ~Files!Exists(t, to), do = "delete" => from = to,
             do = "pack" => ~Files!Exists(t, to) /\ Files!Last(to)[2] # "lnxadmin-up"
      PROVE  Good
  <2>1. plan.do = do /\ plan.from = from /\ plan.to = to
    BY <1>7
  <2>2. to \in Files!Path \ {<<>>}
    BY <1>7 DEF Below
  <2>3. PathsOK(plan)
    BY <1>7, <2>1, <2>2 DEF PathsOK
  <2>4. Fits(t, plan)
    BY <1>7, <2>1 DEF Fits
  <2> QED BY <1>7, <2>1, <2>3, <2>4
<1> HIDE DEF Good
<1>8. CASE o.op = "write"
  <2>1. plan = [do |-> "replace", from |-> file, to |-> file] /\ file # Files!NoPath
    BY <1>2, <1>3, <1>8, PlanIs
  <2>2. /\ file \in Files!Path /\ file # <<>> /\ Files!Is(t, Files!Front(file), "dir")
        /\ Files!Inside(file)
    BY <1>4, <2>1 DEF TreeOK
  <2>3. file # FileRoot
    <3>1. t[file].kind = "file" /\ file # <<>>
      BY <1>4, <2>1, <2>2, NodeIs
    <3> QED BY <1>4, <2>1, <3>1, NodeIs
  <2>4. Below(t, file)
    BY <2>2, <2>3, InsideFront DEF Below
  <2> QED BY <1>7, <2>1, <2>2, <2>4 DEF FileDoes
<1>9. CASE o.op \in {"mkdir", "touch"}
  <2> DEFINE p == Append(dir, o.name)
  <2>1. plan = IF dir = Files!NoPath \/ Files!Exists(t, p) THEN Files!Refused
               ELSE Files!Plan(o.op, Files!NoPath, p)
    BY <1>2, <1>9 DEF Files!CheckNew, dir
  <2>2. dir # Files!NoPath /\ plan = [do |-> o.op, from |-> Files!NoPath, to |-> p]
    BY <1>3, <2>1, PlanIs
  <2>3. Below(t, p)
    BY <1>1, <1>4, <2>2, EntryBelow
  <2> QED BY <1>7, <1>9, <2>2, <2>3 DEF FileDoes
<1>10. CASE o.op = "mkdirs"
  <2> DEFINE names == Append(o.dest, o.name)
             p == dir \o names
  <2>1. dir # Files!NoPath /\ plan = [do |-> "mkdirs", from |-> dir, to |-> p]
    BY <1>2, <1>3, <1>10, PlanIs
  <2>2. Files!Is(t, dir, "dir") /\ Files!Inside(dir) /\ dir \in Files!Path
    BY <1>4, <2>1, NodeIs
  <2>3. names \in Files!Path /\ Len(names) = Len(o.dest) + 1
    BY <1>1, AppendPath
  <2> HIDE DEF names
  <2>4. p \in Files!Path /\ Len(p) = Len(dir) + Len(names)
    <3>1. <<>> \in Files!Path /\ Len(<<>>) = 0 /\ Files!IsPrefix(<<>>, names)
      BY <2>3, EmptySeq, PathLength DEF Files!Path, Files!IsPrefix
    <3>2. Graft(<<>>, dir, names) = dir \o SubSeq(names, 1, Len(names))
      BY <3>1 DEF Graft
    <3>3. SubSeq(names, 1, Len(names)) = names
      BY <2>3, PathLength
    <3>4. /\ Graft(<<>>, dir, names) \in Files!Path
          /\ Len(Graft(<<>>, dir, names)) = Len(dir) + (Len(names) - Len(<<>>))
      BY <2>2, <2>3, <3>1, GraftType
    <3>5. p = Graft(<<>>, dir, names)
      BY <3>2, <3>3
    <3>6. Len(names) - Len(<<>>) = Len(names)
      BY <2>3, <3>1, PathLength
    <3> HIDE DEF p
    <3> QED BY <3>4, <3>5, <3>6
  <2> HIDE DEF p
  <2>5. Len(dir) < Len(p) /\ p # <<>>
    BY <1>1, <2>2, <2>3, <2>4, PathLength
  <2>6. plan.do = "mkdirs" /\ plan.from = dir /\ plan.to = p
    BY <2>1
  <2>7. PathsOK(plan)
    BY <2>2, <2>4, <2>5, <2>6 DEF PathsOK
  <2>8. Fits(t, plan)
    BY <2>2, <2>6 DEF Fits
  <2>9. plan.do \in FileDoes \ {"idle"}
    BY <2>6 DEF FileDoes
  <2> QED BY <2>2, <2>6, <2>7, <2>8, <2>9 DEF Good
<1>11. CASE o.op = "upload"
  <2> DEFINE p == Files!_unique_name(t, dir, o.name)
  <2>1. /\ dir # Files!NoPath /\ plan = [do |-> "replace", from |-> Files!NoPath, to |-> p]
        /\ p # Files!NoPath
    BY <1>2, <1>3, <1>11, PlanIs
  <2>2. dir \in Files!Path
    BY <1>4, <2>1, NodeIs
  <2>3. /\ o.name[1] \in FileText /\ o.name[2] \in FileText /\ o.name[3] \in Nat \ {0}
        /\ o.name = <<o.name[1], o.name[2], o.name[3]>>
    BY <1>1, NameParts DEF NameIs
  <2>4. /\ p \in Files!Path \ {<<>>} /\ Files!Front(p) = dir /\ ~Files!Exists(t, p)
    <3> DEFINE b == o.name[1]
               x == o.name[2]
               k == o.name[3]
    <3>1. b \in FileText /\ x \in FileText /\ k \in Nat \ {0} /\ o.name = <<b, x, k>>
      BY <2>3
    <3> HIDE DEF b, x, k
    <3>2. \/ Files!_unique_name(t, dir, <<b, x, k>>) = Files!NoPath
          \/ /\ Files!_unique_name(t, dir, <<b, x, k>>) \in Files!Path \ {<<>>}
             /\ Files!Front(Files!_unique_name(t, dir, <<b, x, k>>)) = dir
             /\ ~Files!Exists(t, Files!_unique_name(t, dir, <<b, x, k>>))
      BY <2>2, <3>1, UniqueIs
    <3> QED BY <2>1, <3>1, <3>2, Zenon
  <2> HIDE DEF p
  <2>5. Below(t, p)
    BY <1>4, <2>1, <2>4 DEF Below
  <2> QED BY <1>7, <2>1, <2>4, <2>5 DEF FileDoes
<1>12. CASE o.op = "delete"
  <2>1. plan = [do |-> "delete", from |-> node, to |-> node] /\ node # Files!NoPath
    BY <1>2, <1>3, <1>12, PlanIs
  <2>2. Below(t, node) /\ node \in Files!Path
    BY <1>5, <2>1 DEF Below
  <2> QED BY <1>7, <2>1, <2>2 DEF FileDoes
<1>13. CASE o.op = "move"
  <2> DEFINE at == Files!resolve_rel(t, o.dest, "dir")
             p == Append(at, o.name)
  <2>1. plan = IF \/ Files!NoPath \in {node, at} \/ Files!Exists(t, p)
                  \/ (Files!Is(t, node, "dir") /\ Files!IsPrefix(node, at))
               THEN Files!Refused ELSE Files!Plan("move", node, p)
    BY <1>2, <1>13 DEF Files!CheckMove, node
  <2>2. /\ node # Files!NoPath /\ at # Files!NoPath /\ ~Files!Exists(t, p)
        /\ plan = [do |-> "move", from |-> node, to |-> p]
    BY <1>3, <2>1, PlanIs
  <2>3. Files!Is(t, at, "dir") /\ Files!Inside(at)
    BY <1>1, <2>2, ResolveIs
  <2>4. Below(t, p) /\ Files!Last(p) = o.name
    BY <1>1, <2>3, EntryBelow
  <2> HIDE DEF p
  <2>5. plan.do = "move" /\ plan.from = node /\ plan.to = p
    BY <2>2
  <2>6. /\ Below(t, node) /\ node \in Files!Path \ {<<>>} /\ p \in Files!Path \ {<<>>}
        /\ Files!Last(node) = Files!Last(o.rel)
    BY <1>5, <2>2, <2>4 DEF Below
  <2>7. PathsOK(plan)
    BY <1>1, <1>13, <2>4, <2>5, <2>6 DEF PathsOK
  <2>8. Fits(t, plan)
    BY <2>2, <2>4, <2>5, <2>6 DEF Fits
  <2>9. plan.do \in FileDoes \ {"idle"}
    BY <2>5 DEF FileDoes
  <2> QED BY <2>5, <2>6, <2>7, <2>8, <2>9 DEF Good
<1>14. CASE o.op = "pack"
  <2> DEFINE f == Files!Front(node)
             p == Files!_unique_name(t, f, <<Files!Last(node)[1], "zip", Files!Last(node)[3]>>)
  <2>1. real /\ plan = [do |-> "pack", from |-> node, to |-> p] /\ p # Files!NoPath
    BY <1>2, <1>3, <1>14, PlanIs
  <2>2. Files!Last(node)[1] \in FileText /\ Files!Last(node)[3] \in Nat \ {0} /\ "zip" \in FileText
    <3>1. "zip" \in FileText
      BY FilesTexts
    <3> QED BY <1>6, <2>1, <3>1 DEF NameIs
  <2>3. f \in Files!Path /\ Files!Is(t, f, "dir") /\ Files!Inside(f) /\ node \in Files!Path
    BY <1>5, <1>6, <2>1, FrontLast DEF Below
  <2>4. /\ p \in Files!Path \ {<<>>} /\ Files!Front(p) = f /\ ~Files!Exists(t, p)
        /\ Files!Last(p)[2] = "zip"
    <3> HIDE DEF f
    <3> QED BY <2>1, <2>2, <2>3, UniqueIs
  <2> HIDE DEF p
  <2>5. Below(t, p)
    BY <2>3, <2>4 DEF Below
  <2> QED BY <1>7, <2>1, <2>3, <2>4, <2>5 DEF FileDoes
<1>15. CASE o.op = "extract"
  <2> DEFINE f == Files!Front(node)
             p == Files!FolderFor(t, node)
  <2>1. real /\ plan = [do |-> "extract", from |-> node, to |-> p] /\ p # Files!NoPath
    BY <1>2, <1>3, <1>15, PlanIs
  <2>2. f \in Files!Path /\ Files!Is(t, f, "dir") /\ Files!Inside(f) /\ node \in Files!Path
    BY <1>5, <1>6, <2>1, FrontLast DEF Below
  <2>3. p \in Files!Path \ {<<>>} /\ Files!Front(p) = f
    <3>1. PICK empty \in FileText :
            p = Files!_unique_name(t, f, <<Files!Last(node)[1], empty, Files!Last(node)[3]>>)
      BY FilesTexts, Zenon DEF Files!FolderFor
    <3>2. Files!Last(node)[1] \in FileText /\ Files!Last(node)[3] \in Nat \ {0}
      BY <1>6, <2>1 DEF NameIs
    <3> HIDE DEF f, p
    <3> QED BY <2>1, <2>2, <3>1, <3>2, UniqueIs
  <2> HIDE DEF p
  <2>4. Below(t, p)
    BY <2>2, <2>3 DEF Below
  <2> QED BY <1>7, <2>1, <2>2, <2>4 DEF FileDoes
<1> QED BY <1>1, <1>8, <1>9, <1>10, <1>11, <1>12, <1>13, <1>14, <1>15

-----------------------------------------------------------------------------
\* Only a request with nobody beside it may count on what it saw.
Alone ==
    \A u \in Client : job[u].do # "idle" /\ job[u].lone =>
        (\A k \in Client \ {u} : job[k].do = "idle") /\ Fits(fs, job[u])

FilesInv ==
    /\ TreeOK(fs) /\ job \in [Client -> FileJob]
    /\ \A u \in Client : PathsOK(job[u])
    /\ Alone

KeepsTo(u) ==
    /\ job[u].do \in {"mkdir", "touch", "mkdirs", "extract"} => Files!Gone = {}
    /\ job[u].lone => \A p \in (Files!Gone \cup Files!New) \ Files!Through(u) :
                          Files!Inside(p) /\ p # FileRoot
    /\ job[u].lone => Files!Gone \subseteq
            CASE job[u].do = "replace" -> {job[u].from}
              [] job[u].do \in {"move", "delete"} -> Files!Under(fs, job[u].from)
              [] job[u].do = "member" -> Files!Under(fs, job[u].to)
              [] job[u].do = "pack" -> Files!Through(u)
              [] job[u].do = "packed" -> {job[u].to}
              [] OTHER -> {}
KeepStep == \A u \in Client : Files!Ends(u) => KeepsTo(u)

LEMMA InitFiles == Files!Init => FilesInv
<1> SUFFICES ASSUME Files!Init PROVE FilesInv
  OBVIOUS
<1>1. fs = FileTree /\ job = [u \in Client |-> Files!Idle]
  BY DEF Files!Init
<1>2. TreeOK(FileTree)
  BY FilesAssumption, Zenon DEF TreeOK
<1>3. Files!Idle \in FileJob /\ Files!Idle.do = "idle"
  BY DEF Files!Idle, FileJob, FileDoes
<1>4. PathsOK(Files!Idle)
  BY <1>3 DEF PathsOK
<1> QED BY <1>1, <1>2, <1>3, <1>4 DEF FilesInv, Alone

\* A request that is done leaves the others as they were.
LEMMA FinishFiles ==
  ASSUME FilesInv, NEW u \in Client, job[u].do # "idle",
         job' = [job EXCEPT ![u] = Files!Idle], TreeOK(fs)'
  PROVE  FilesInv'
<1>1. Files!Idle \in FileJob /\ Files!Idle.do = "idle"
  BY DEF Files!Idle, FileJob, FileDoes
<1>2. PathsOK(Files!Idle)
  BY <1>1 DEF PathsOK
<1>3. /\ job' \in [Client -> FileJob] /\ job'[u] = Files!Idle
      /\ \A k \in Client \ {u} : job'[k] = job[k]
  BY <1>1 DEF FilesInv
<1>4. \A k \in Client : PathsOK(job'[k])
  BY <1>2, <1>3 DEF FilesInv
<1>5. \A k \in Client : ~(job'[k].do # "idle" /\ job'[k].lone)
  BY <1>1, <1>3 DEF FilesInv, Alone
<1>6. (\A k \in Client : PathsOK(job[k]))' /\ Alone'
  BY <1>4, <1>5 DEF Alone, PathsOK
<1> QED BY <1>3, <1>6 DEF FilesInv

\* So does one that goes on to its next step.
LEMMA GoFiles ==
  ASSUME FilesInv, NEW u \in Client, job[u].do # "idle", NEW x \in FileJob, x.do # "idle",
         PathsOK(x), x.lone = job[u].lone, job' = [job EXCEPT ![u] = x],
         TreeOK(fs)', x.lone => Fits(fs', x)
  PROVE  FilesInv'
<1>1. /\ job' \in [Client -> FileJob] /\ \A k \in Client \ {u} : job'[k] = job[k]
      /\ job'[u] = x
  BY DEF FilesInv
<1>2. \A k \in Client : PathsOK(job'[k])
  BY <1>1 DEF FilesInv
<1>3. ASSUME NEW k \in Client, job'[k].do # "idle", job'[k].lone
      PROVE  (\A w \in Client \ {k} : job'[w].do = "idle") /\ Fits(fs', job'[k])
  <2>1. k = u
    BY <1>1, <1>3 DEF FilesInv, Alone
  <2> QED BY <1>1, <1>3, <2>1 DEF FilesInv, Alone
<1>4. (\A k \in Client : PathsOK(job[k]))' /\ Alone'
  BY <1>2, <1>3 DEF Alone, PathsOK, Fits, Below
<1> QED BY <1>1, <1>4 DEF FilesInv

\* A step of one request ends that one only.
LEMMA OnlyMover ==
  ASSUME FilesInv, NEW u \in Client, NEW x, job' = [job EXCEPT ![u] = x], KeepsTo(u)
  PROVE  KeepStep
<1>1. \A k \in Client \ {u} : job'[k] = job[k]
  BY DEF FilesInv
<1>2. ASSUME NEW k \in Client, Files!Ends(k) PROVE k = u
  BY <1>1, <1>2 DEF Files!Ends
<1> QED BY <1>2 DEF KeepStep

LEMMA TmpIs ==
  ASSUME NEW p \in Files!Path, p # <<>>
  PROVE  /\ Files!TmpOf(p) \in Files!Path \ {<<>>} /\ Files!Front(Files!TmpOf(p)) = Files!Front(p)
         /\ Files!Last(Files!TmpOf(p))[2] = "lnxadmin-up"
<1> DEFINE n == <<Files!Last(p)[1], "lnxadmin-up", Files!Last(p)[3]>>
<1>1. Files!Front(p) \in Files!Path /\ Files!Last(p) \in Files!Name
  BY FrontLast
<1>2. "lnxadmin-up" \in FileText
  BY FilesTexts
<1>3. n \in Files!Name /\ n[2] = "lnxadmin-up"
  BY <1>1, <1>2 DEF Files!Name
<1>4. Files!TmpOf(p) = Append(Files!Front(p), n)
  BY DEF Files!TmpOf
<1> HIDE DEF n
<1>5. /\ Append(Files!Front(p), n) \in Files!Path \ {<<>>}
      /\ Files!Front(Append(Files!Front(p), n)) = Files!Front(p)
      /\ Files!Last(Append(Files!Front(p), n)) = n
  BY <1>1, <1>3, AppendPath
<1> QED BY <1>3, <1>4, <1>5, Zenon

\* Nothing that was there changes when something is created, or when nothing happens.
LEMMA CreatedKeeps ==
  ASSUME NEW p, NEW node, fs' = Files!Created(fs, p, node)
  PROVE  Files!Gone = {} /\ Files!New \subseteq {Files!Place(fs, p)}
<1>1. CASE fs' = fs
  BY <1>1 DEF Files!Gone, Files!New, Files!Exists
<1>2. CASE /\ fs' = Files!Put(fs, Files!Place(fs, p), node)
           /\ Files!Place(fs, p) \notin DOMAIN fs
  BY <1>2 DEF Files!Gone, Files!New, Files!Exists, Files!Put
<1> QED BY <1>1, <1>2 DEF Files!Created, Files!Exists

LEMMA StillKeeps == ASSUME fs' = fs PROVE Files!Gone = {} /\ Files!New = {}
BY DEF Files!Gone, Files!New, Files!Exists

LEMMA PutKeeps ==
  ASSUME NEW p, NEW node, fs' = Files!Put(fs, p, node)
  PROVE  Files!Gone \subseteq {p} \cap DOMAIN fs /\ Files!New \subseteq {p}
BY DEF Files!Gone, Files!New, Files!Exists, Files!Put

LEMMA DropKeeps ==
  ASSUME NEW p, fs' = Files!Drop(fs, p)
  PROVE  Files!Gone \subseteq Files!Under(fs, p) /\ Files!New = {}
BY DEF Files!Gone, Files!New, Files!Exists, Files!Drop

-----------------------------------------------------------------------------
(***************************************************************************)
(* The steps: each leaves a tree, and a request that nobody overlaps keeps  *)
(* to what it names.                                                        *)
(***************************************************************************)
LEMMA JobFacts ==
  ASSUME FilesInv, NEW u \in Client, job[u].do # "idle"
  PROVE  /\ job[u].to \in Files!Path \ {<<>>} /\ TreeOK(fs)
         /\ job[u].lone => Fits(fs, job[u])
         /\ job[u].lone /\ job[u].do # "mkdirs" => Below(fs, job[u].to)
BY DEF FilesInv, Alone, PathsOK, Fits

\* mkdir, touch and the folder of an extraction.
LEMMA CreateStep ==
  ASSUME FilesInv, NEW u \in Client, job[u].do \in {"mkdir", "touch", "extract"},
         NEW node \in Made, fs' = Files!Created(fs, job[u].to, node)
  PROVE  TreeOK(fs)' /\ KeepsTo(u)
<1>1. /\ job[u].to \in Files!Path \ {<<>>} /\ TreeOK(fs)
      /\ job[u].lone => Below(fs, job[u].to)
  BY JobFacts
<1>2. TreeOK(fs')
  BY <1>1, CreatedOK
<1>3. Files!Gone = {} /\ Files!New \subseteq {Files!Place(fs, job[u].to)}
  BY CreatedKeeps
<1>4. job[u].lone => /\ Files!Place(fs, job[u].to) = job[u].to
                     /\ Files!Inside(job[u].to) /\ job[u].to # FileRoot
  BY <1>1, BelowIs
<1> QED BY <1>2, <1>3, <1>4 DEF KeepsTo, TreeOK

LEMMA ReplaceStep ==
  ASSUME FilesInv, NEW u \in Client, job[u].do = "replace",
         NEW node \in Made, fs' = Files!Replaced(fs, job[u].to, node)
  PROVE  TreeOK(fs)' /\ KeepsTo(u)
<1>1. /\ job[u].to \in Files!Path \ {<<>>} /\ TreeOK(fs)
      /\ job[u].lone => Fits(fs, job[u]) /\ Below(fs, job[u].to)
  BY JobFacts
<1>2. TreeOK(fs')
  BY <1>1, ReplacedOK
<1>3. job[u].lone => /\ Files!Place(fs, job[u].to) = job[u].to
                     /\ Files!Inside(job[u].to) /\ job[u].to # FileRoot
                     /\ job[u].from = job[u].to \/ job[u].to \notin DOMAIN fs
  BY <1>1, BelowIs DEF Fits, Files!Exists
<1>4. CASE fs' = fs
  BY <1>2, <1>4, StillKeeps DEF KeepsTo
<1>5. CASE fs' = Files!Put(fs, Files!Place(fs, job[u].to), node)
  <2>1. /\ Files!Gone \subseteq {Files!Place(fs, job[u].to)} \cap DOMAIN fs
        /\ Files!New \subseteq {Files!Place(fs, job[u].to)}
    BY <1>5, PutKeeps
  <2> QED BY <1>2, <1>3, <2>1 DEF KeepsTo
<1> QED BY <1>4, <1>5 DEF Files!Replaced

\* Taking away what is at a path, or nothing if there is none.
LEMMA RemovedOK ==
  ASSUME NEW t, TreeOK(t), NEW p \in Files!Path \ {<<>>}
  PROVE  TreeOK(Files!Removed(t, p))
<1>1. \/ Files!Place(t, p) = Files!NoPath
      \/ Files!Place(t, p) \in Files!Path
  BY PlaceIs
<1>2. CASE Files!Place(t, p) = Files!NoPath
  BY <1>2, DropNone DEF Files!Removed
<1>3. CASE Files!Place(t, p) \in Files!Path
  BY <1>3, DropOK DEF Files!Removed
<1> QED BY <1>1, <1>2, <1>3

\* What is taken away by a request that nobody overlaps is under the path it names.
LEMMA RemovedKeeps ==
  ASSUME TreeOK(fs), NEW p, Below(fs, p), fs' = Files!Removed(fs, p)
  PROVE  /\ Files!Gone \subseteq Files!Under(fs, p) /\ Files!New = {}
         /\ \A q \in Files!Gone : Files!Inside(q) /\ q # FileRoot
<1>1. /\ Files!Place(fs, p) = p
      /\ \A q \in Files!Path : Files!IsPrefix(p, q) => Files!Inside(q) /\ q # FileRoot
  BY BelowIs
<1>2. Files!Gone \subseteq Files!Under(fs, p) /\ Files!New = {}
  BY <1>1, DropKeeps DEF Files!Removed
<1>3. \A q \in Files!Under(fs, p) : q \in Files!Path /\ Files!IsPrefix(p, q)
  BY DEF Files!Under, TreeOK
<1> QED BY <1>1, <1>2, <1>3

LEMMA DeleteStep ==
  ASSUME FilesInv, NEW u \in Client, job[u].do = "delete", fs' = Files!Removed(fs, job[u].to)
  PROVE  TreeOK(fs)' /\ KeepsTo(u)
<1>1. /\ job[u].to \in Files!Path \ {<<>>} /\ TreeOK(fs)
      /\ job[u].lone => Fits(fs, job[u]) /\ Below(fs, job[u].to)
  BY JobFacts
<1>2. TreeOK(fs')
  BY <1>1, RemovedOK
<1>3. job[u].lone => job[u].from = job[u].to
  BY <1>1 DEF Fits
<1>4. job[u].lone => /\ Files!Gone \subseteq Files!Under(fs, job[u].from) /\ Files!New = {}
                     /\ \A q \in Files!Gone : Files!Inside(q) /\ q # FileRoot
  BY <1>1, <1>3, RemovedKeeps
<1> QED BY <1>2, <1>4 DEF KeepsTo

LEMMA MoveOK ==
  ASSUME NEW t, TreeOK(t), NEW from \in Files!Path \ {<<>>}, NEW to \in Files!Path \ {<<>>}
  PROVE  TreeOK(Files!shutil_move(t, from, to))
<1> DEFINE src == Files!Place(t, from)
           into == Files!Place(t, to)
           at == IF Files!Is(t, into, "link") THEN Files!Target(t, into) ELSE into
           final == IF Files!Is(t, at, "dir") THEN Append(at, Files!Last(from)) ELSE into
           clash == final \in DOMAIN t /\ (Files!Is(t, at, "dir") \/ Files!Is(t, src, "dir"))
<1>1. Files!shutil_move(t, from, to) =
        IF ~Files!Exists(t, src) \/ into = Files!NoPath \/ clash \/ Files!IsPrefix(src, final)
        THEN t ELSE Files!Moved(t, src, final)
  BY DEF Files!shutil_move
<1>2. CASE ~Files!Exists(t, src) \/ into = Files!NoPath \/ clash \/ Files!IsPrefix(src, final)
  BY <1>1, <1>2
<1>3. CASE ~(~Files!Exists(t, src) \/ into = Files!NoPath \/ clash \/ Files!IsPrefix(src, final))
  <2>1. src \in DOMAIN t /\ src # Files!NoPath
    BY <1>3, NoPathIsNone DEF Files!Exists, TreeOK
  <2>2. Files!Last(src) = Files!Last(from)
    BY <2>1, PlaceIs
  <2>3. /\ into \in Files!Path \ {<<>>} /\ Files!Is(t, Files!Front(into), "dir")
        /\ Files!Last(into) = Files!Last(to)
    BY <1>3, PlaceIs
  <2>4. Files!Last(from) \in Files!Name
    BY FrontLast
  <2> HIDE DEF src, into, at
  <2>5. CASE Files!Is(t, at, "dir")
    <3>1. final = Append(at, Files!Last(from)) /\ at \in Files!Path
      BY <2>5, NodeIs
    <3> HIDE DEF final
    <3>2. /\ final \in Files!Path \ {<<>>} /\ Files!Front(final) = at
          /\ Files!Last(final) = Files!Last(from)
      BY <2>4, <3>1, AppendPath
    <3>3. ~Files!Exists(t, final) /\ ~Files!IsPrefix(src, final)
      BY <1>3, <2>5 DEF Files!Exists
    <3>4. ~Files!Is(t, final, "dir")
      BY <3>2, <3>3 DEF Files!Is, Files!Exists
    <3>5. Files!Under(t, final) \subseteq {final}
      BY <3>2, <3>4, UnderOther
    <3>6. TreeOK(Files!Moved(t, src, final))
      BY <2>1, <2>5, <3>2, <3>3, <3>4, <3>5, MovedOK
    <3> QED BY <1>1, <1>3, <3>6
  <2>6. CASE ~Files!Is(t, at, "dir")
    <3>1. final = into
      BY <2>6
    <3> HIDE DEF final
    <3>2. ~Files!Is(t, into, "dir")
      <4>1. CASE Files!Is(t, into, "link")
        BY <2>3, <4>1 DEF Files!Is
      <4>2. CASE ~Files!Is(t, into, "link")
        BY <2>6, <4>2 DEF at
      <4> QED BY <4>1, <4>2
    <3>3. ~Files!IsPrefix(src, into)
      BY <1>3, <3>1
    <3>4. Files!Under(t, into) \subseteq {into}
      BY <2>3, <3>2, UnderOther
    <3>5. TreeOK(Files!Moved(t, src, into))
      BY <2>1, <2>3, <3>2, <3>3, <3>4, MovedOK
    <3> QED BY <1>1, <1>3, <3>1, <3>5
  <2> QED BY <2>5, <2>6
<1> QED BY <1>2, <1>3

LEMMA MoveStep ==
  ASSUME FilesInv, NEW u \in Client, job[u].do = "move",
         fs' = Files!shutil_move(fs, job[u].from, job[u].to)
  PROVE  TreeOK(fs)' /\ KeepsTo(u)
<1> DEFINE from == job[u].from
           to == job[u].to
<1>1. /\ to \in Files!Path \ {<<>>} /\ TreeOK(fs) /\ from \in Files!Path \ {<<>>}
      /\ job[u].lone => Fits(fs, job[u]) /\ Below(fs, job[u].to)
  BY JobFacts DEF FilesInv, PathsOK
<1>2. TreeOK(fs')
  BY <1>1, MoveOK
<1>3. SUFFICES ASSUME job[u].lone
      PROVE  /\ Files!Gone \subseteq Files!Under(fs, from)
             /\ \A p \in Files!Gone \cup Files!New : Files!Inside(p) /\ p # FileRoot
  BY <1>2 DEF KeepsTo
<1>4. Below(fs, from) /\ Below(fs, to) /\ ~Files!Exists(fs, to)
  BY <1>1, <1>3 DEF Fits
<1>5. /\ Files!Place(fs, from) = from /\ Files!Place(fs, to) = to
      /\ \A q \in Files!Path : Files!IsPrefix(from, q) \/ Files!IsPrefix(to, q) =>
            Files!Inside(q) /\ q # FileRoot
  BY <1>1, <1>4, BelowIs
<1>6. ~Files!Is(fs, to, "link") /\ ~Files!Is(fs, to, "dir")
  BY <1>1, <1>4 DEF Files!Is, Files!Exists
<1>7. fs' = fs \/ (fs' = Files!Moved(fs, from, to) /\ from \in DOMAIN fs)
  <2> HIDE DEF from, to
  <2>1. fs' = Files!shutil_move(fs, from, to)
    BY DEF from, to
  <2> QED BY <1>5, <1>6, <2>1 DEF Files!shutil_move, Files!Exists
<1> HIDE DEF from, to
<1>8. CASE fs' = fs
  BY <1>8, StillKeeps
<1>9. CASE fs' = Files!Moved(fs, from, to) /\ from \in DOMAIN fs
  <2>1. /\ DOMAIN fs' = MovedTo(fs, from, to) \cup (DOMAIN fs \ Files!Under(fs, from))
        /\ \A q \in DOMAIN fs \ Files!Under(fs, from) : q # to => fs'[q] = fs[q]
        /\ \A q \in MovedTo(fs, from, to) : q \in Files!Path /\ Files!IsPrefix(to, q)
    <3>1. Files!Under(fs, to) \subseteq {to}
      BY <1>1, <1>6, UnderOther
    <3> DEFINE n == Files!Moved(fs, from, to)
    <3>2. /\ DOMAIN n = MovedTo(fs, from, to) \cup (DOMAIN fs \ Files!Under(fs, from))
          /\ \A q \in DOMAIN fs \ Files!Under(fs, from) : q # to => n[q] = fs[q]
          /\ \A q \in MovedTo(fs, from, to) : q \in Files!Path /\ Files!IsPrefix(to, q)
      <4>1. TreeOK(fs) /\ from \in DOMAIN fs /\ to \in Files!Path \ {<<>>}
        BY <1>1, <1>9
      <4>2. /\ DOMAIN n = MovedTo(fs, from, to) \cup (DOMAIN fs \ Files!Under(fs, from))
            /\ \A q \in Files!Under(fs, from) : n[Graft(from, to, q)] = fs[q]
            /\ \A q \in DOMAIN fs \ Files!Under(fs, from) :
                   q # to => q \notin MovedTo(fs, from, to) /\ n[q] = fs[q]
            /\ \A q \in MovedTo(fs, from, to) : q \in Files!Path /\ Files!IsPrefix(to, q)
        BY ONLY <3>1, <4>1, MovedIs
      <4> QED BY <4>2
    <3> HIDE DEF n
    <3>3. fs' = n
      BY <1>9 DEF n
    <3> QED BY <3>2, <3>3
  <2>2. Files!Gone \subseteq Files!Under(fs, from)
    BY <1>4, <2>1 DEF Files!Gone, Files!Exists
  <2>3. Files!New \subseteq MovedTo(fs, from, to)
    BY <2>1 DEF Files!New
  <2>4. \A q \in Files!Under(fs, from) : q \in Files!Path /\ Files!IsPrefix(from, q)
    BY <1>1 DEF Files!Under, TreeOK
  <2> QED BY <1>5, <2>1, <2>2, <2>3, <2>4
<1> QED BY <1>7, <1>8, <1>9

LEMMA TmpBelow ==
  ASSUME NEW t, TreeOK(t), NEW p, Below(t, p)
  PROVE  /\ Below(t, Files!TmpOf(p)) /\ Files!Last(Files!TmpOf(p))[2] = "lnxadmin-up"
         /\ Files!Place(t, Files!TmpOf(p)) = Files!TmpOf(p)
         /\ Files!Inside(Files!TmpOf(p)) /\ Files!TmpOf(p) # FileRoot
<1>1. Below(t, Files!TmpOf(p)) /\ Files!Last(Files!TmpOf(p))[2] = "lnxadmin-up"
  BY TmpIs DEF Below
<1> QED BY <1>1, BelowIs

\* One level of nested folders.
LEMMA LevelStep ==
  ASSUME FilesInv, NEW u \in Client, Files!ensure_dirs(u)
  PROVE  FilesInv' /\ KeepStep
<1> DEFINE from == job[u].from
           to == job[u].to
           level == Len(from) + 1
           next == Append(from, to[level])
           rest == SubSeq(to, level + 1, Len(to))
           p == Files!Place(fs, next)
           new == p # Files!NoPath /\ ~Files!Exists(fs, p) /\ Files!Inside(Files!Front(p))
           at == IF new THEN next
                 ELSE IF Files!Is(fs, p, "link") THEN Files!Follow(fs, p) ELSE p
           on == rest # <<>> /\ (new \/ (Files!Inside(at) /\ Files!Is(fs, at, "dir")))
           x == [job[u] EXCEPT !.from = at, !.to = at \o rest]
<1>1. /\ job[u].do = "mkdirs" /\ fs' = IF new THEN Files!Put(fs, p, Files!Dir) ELSE fs
      /\ job' = [job EXCEPT ![u] = IF on THEN x ELSE Files!Idle]
  BY DEF Files!ensure_dirs, Files!Does
<1>2. /\ to \in Files!Path \ {<<>>} /\ TreeOK(fs) /\ from \in Files!Path /\ Len(from) < Len(to)
      /\ job[u].lone => Files!Is(fs, from, "dir") /\ Files!Inside(from)
  BY <1>1, JobFacts DEF FilesInv, PathsOK, Fits
<1> HIDE DEF from, to
<1>3. Len(from) \in Nat /\ Len(to) \in Nat /\ level \in 1..Len(to) /\ to[level] \in Files!Name
  <2>1. Len(from) \in Nat /\ Len(to) \in Nat
    BY <1>2, PathLength
  <2>2. level \in 1..Len(to) /\ Len(to) \in 0..Len(to)
    BY <1>2, <2>1
  <2> HIDE DEF level
  <2> QED BY <1>2, <2>1, <2>2, PartOfPath
<1>4. next \in Files!Path \ {<<>>} /\ Files!Front(next) = from
  BY <1>2, <1>3, AppendPath
<1>5. p = Files!NoPath \/ (p \in Files!Path \ {<<>>} /\ Files!Is(fs, Files!Front(p), "dir"))
  BY <1>2, <1>4, PlaceIs
<1>6. job[u].lone => p = next /\ Files!Inside(next) /\ next # FileRoot
  BY <1>2, <1>3, EntryBelow, BelowIs
<1> HIDE DEF next, rest, p
<1>7. Files!Dir \in Made /\ Files!Dir.kind = "dir"
  BY DEF Made, Files!Dir
<1>8. TreeOK(fs')
  <2>1. CASE new
    <3>1. ~Files!Is(fs, p, "dir")
      BY <1>5, <2>1 DEF Files!Is, Files!Exists
    <3> QED BY <1>1, <1>2, <1>5, <1>7, <2>1, <3>1, PutOK
  <2>2. CASE ~new
    BY <1>1, <1>2, <2>2
  <2> QED BY <2>1, <2>2
<1>9. Files!Gone = {} /\ Files!New \subseteq {p}
  <2>1. CASE new
    BY <1>1, <2>1 DEF Files!Gone, Files!New, Files!Exists, Files!Put
  <2>2. CASE ~new
    BY <1>1, <2>2, StillKeeps
  <2> QED BY <2>1, <2>2
<1>10. KeepsTo(u)
  BY <1>1, <1>6, <1>9 DEF KeepsTo
<1> HIDE DEF new
<1>11. CASE ~on
  <2>1. job' = [job EXCEPT ![u] = Files!Idle]
    BY <1>1, <1>11
  <2>2. TreeOK(fs)'
    BY <1>8 DEF TreeOK
  <2> QED BY <1>1, <1>10, <2>1, <2>2, FinishFiles, OnlyMover
<1>12. CASE on
  <2>1. /\ at \in Files!Path
        /\ new => at = next
        /\ ~new => Files!Inside(at) /\ Files!Is(fs, at, "dir")
    <3>1. new => at = next
      OBVIOUS
    <3>2. ~new => Files!Inside(at) /\ Files!Is(fs, at, "dir")
      BY <1>12
    <3> HIDE DEF at
    <3> QED BY <1>2, <1>4, <3>1, <3>2, NodeIs
  <2>2. rest # <<>>
    BY <1>12
  <2> HIDE DEF at, on
  <2> DEFINE two == at \o rest
             pre == SubSeq(to, 1, level)
  <2>3. pre \in Files!Path /\ Len(pre) = level /\ Files!IsPrefix(pre, to)
    <3>1. level \in 0..Len(to)
      BY <1>3
    <3> HIDE DEF level
    <3>2. pre \in Files!Path /\ Len(pre) = level
      BY <1>2, <3>1, PartOfPath
    <3>3. Len(pre) <= Len(to) /\ SubSeq(to, 1, Len(pre)) = pre
      BY <1>3, <3>1, <3>2
    <3> HIDE DEF pre
    <3> QED BY <1>2, <3>2, <3>3, PrefixIs
  <2>4. two \in Files!Path /\ Len(two) = Len(at) + (Len(to) - level)
    <3>1. /\ Graft(pre, at, to) \in Files!Path
          /\ Len(Graft(pre, at, to)) = Len(at) + (Len(to) - Len(pre))
      <4>1. pre \in Files!Path /\ at \in Files!Path /\ to \in Files!Path /\ Files!IsPrefix(pre, to)
        BY <1>2, <2>1, <2>3
      <4> HIDE DEF pre
      <4> QED BY <4>1, GraftType
    <3>2. Graft(pre, at, to) = two
      BY <2>3 DEF Graft, rest
    <3> QED BY <2>3, <3>1, <3>2
  <2>5. level < Len(to)
    <3>1. ASSUME level = Len(to) PROVE rest = <<>>
      BY <1>3, <3>1, SubSeqEmpty DEF rest
    <3> QED BY <1>3, <2>2, <3>1
  <2>6. Len(at) \in Nat /\ Len(at) < Len(two)
    <3>1. Len(at) \in Nat
      BY <2>1, PathLength
    <3> HIDE DEF two
    <3> QED BY <1>3, <2>4, <2>5, <3>1
  <2> HIDE DEF two, pre
  <2>7. /\ x \in FileJob /\ x.do = "mkdirs" /\ x.from = at /\ x.to = two
        /\ x.lone = job[u].lone
    <3>1. job[u] \in FileJob /\ two \in Files!Path /\ at \in Files!Path
      BY <2>1, <2>4 DEF FilesInv
    <3>2. x = [job[u] EXCEPT !.from = at, !.to = two]
      BY DEF two
    <3> HIDE DEF x
    <3> QED BY <1>1, <3>1, <3>2 DEF FileJob
  <2>8. two # <<>>
    <3>1. Len(<<>>) = 0
      OBVIOUS
    <3> QED BY <2>6, <3>1
  <2>9. job' = [job EXCEPT ![u] = x]
    BY <1>1, <1>12
  <2> HIDE DEF x
  <2>10. PathsOK(x)
    <3>1. /\ x.do = "mkdirs" /\ x.from \in Files!Path /\ x.to \in Files!Path \ {<<>>}
          /\ Len(x.from) < Len(x.to)
      BY <2>1, <2>4, <2>6, <2>7, <2>8
    <3> QED BY <3>1 DEF PathsOK
  <2>11. x.lone => Fits(fs', x)
    <3>1. ASSUME x.lone PROVE Files!Is(fs', at, "dir") /\ Files!Inside(at)
      <4>1. CASE new
        <5>0. job[u].lone
          BY <2>7, <3>1
        <5>1. /\ at = p /\ p # <<>> /\ Files!Inside(at) /\ fs' = Files!Put(fs, p, Files!Dir)
          <6>1. at = next /\ p = next /\ Files!Inside(next) /\ next # <<>>
            BY <1>4, <1>6, <2>1, <4>1, <5>0
          <6>2. fs' = Files!Put(fs, p, Files!Dir)
            BY <1>1, <4>1
          <6> QED BY <6>1, <6>2
        <5>2. p \in DOMAIN fs' /\ fs'[p] = Files!Dir
          BY <5>1 DEF Files!Put
        <5> QED BY <1>7, <5>1, <5>2 DEF Files!Is
      <4>2. CASE ~new
        BY <1>1, <2>1, <4>2
      <4> QED BY <4>1, <4>2
    <3> QED BY <2>7, <3>1 DEF Fits
  <2>12. TreeOK(fs)'
    BY <1>8 DEF TreeOK
  <2>13. FilesInv'
    BY <1>1, <2>7, <2>9, <2>10, <2>11, <2>12, GoFiles
  <2> QED BY <1>10, <2>9, <2>13, OnlyMover
<1> QED BY <1>11, <1>12

\* What is opened for writing is no folder and lies in one; only a link leads elsewhere.
LEMMA OpenedIs ==
  ASSUME NEW t, TreeOK(t), NEW path \in Files!Path \ {<<>>},
         Files!Opened(t, path) # Files!NoPath
  PROVE  LET at == Files!Opened(t, path) IN
         /\ at \in Files!Path \ {<<>>} /\ Files!Is(t, Files!Front(at), "dir")
         /\ ~Files!Is(t, at, "dir") /\ ~Files!Is(t, at, "link")
         /\ at = Files!Place(t, path) \/ Files!Is(t, Files!Place(t, path), "link")
<1> DEFINE p == Files!Place(t, path)
           end == Files!End(t, p)
<1>1. /\ Files!Opened(t, path) = end /\ p # Files!NoPath
      /\ ~Files!Is(t, end, "dir") /\ ~Files!Is(t, end, "link")
      /\ Files!Is(t, Files!Front(end), "dir")
  BY DEF Files!Opened
<1>2. p \in Files!Path
  BY <1>1, PlaceIs
<1>3. end \in Files!Path
  <2> HIDE DEF p
  <2> QED BY <1>2, EndIs
<1>4. end # <<>>
  BY <1>1 DEF Files!Is
<1>5. end = p \/ Files!Is(t, p, "link")
  BY DEF Files!End
<1> HIDE DEF p, end
<1> QED BY <1>1, <1>3, <1>4, <1>5 DEF p

LEMMA PackOpenStep ==
  ASSUME FilesInv, NEW u \in Client, job[u].do = "pack",
         NEW at, at = Files!Opened(fs, Files!TmpOf(job[u].to)), at # Files!NoPath,
         fs' = Files!Put(fs, at, Files!File("zip")), job' = [job EXCEPT ![u].do = "packed"]
  PROVE  FilesInv' /\ KeepStep
<1> DEFINE to == job[u].to
           tmp == Files!TmpOf(to)
           zip == Files!File("zip")
           x == [job[u] EXCEPT !.do = "packed"]
<1>1. /\ to \in Files!Path \ {<<>>} /\ TreeOK(fs)
      /\ job[u].lone => Fits(fs, job[u]) /\ Below(fs, job[u].to)
  BY JobFacts
<1>2. zip \in Made /\ zip.kind = "file"
  BY DEF Made, Files!File
<1>3. tmp \in Files!Path \ {<<>>} /\ at = Files!Opened(fs, tmp)
  BY <1>1, TmpIs
<1> HIDE DEF tmp
<1>4. /\ at \in Files!Path \ {<<>>} /\ Files!Is(fs, Files!Front(at), "dir")
      /\ ~Files!Is(fs, at, "dir") /\ ~Files!Is(fs, at, "link")
      /\ at = Files!Place(fs, tmp) \/ Files!Is(fs, Files!Place(fs, tmp), "link")
  BY <1>1, <1>3, OpenedIs
<1>5. TreeOK(fs')
  BY <1>1, <1>2, <1>4, PutOK
<1> HIDE DEF to, zip
<1>6. /\ DOMAIN fs' = DOMAIN fs \cup {at} /\ fs'[at] = zip
      /\ \A q \in DOMAIN fs : q # at => fs'[q] = fs[q]
  BY DEF Files!Put, zip
<1>7. /\ Files!Gone \subseteq {at} /\ Files!New \subseteq {at}
      /\ Files!Last(at)[2] = "lnxadmin-up" => Files!Gone = {}
  BY <1>6 DEF Files!Gone, Files!New, Files!Exists
<1>8. x \in FileJob /\ x.do = "packed" /\ x.to = to /\ x.lone = job[u].lone
  BY DEF FilesInv, FileJob, FileDoes, to
<1>9. ASSUME job[u].lone
      PROVE  /\ Fits(fs', x) /\ Files!Gone \subseteq Files!Through(u)
             /\ \A p \in (Files!Gone \cup Files!New) \ Files!Through(u) :
                    Files!Inside(p) /\ p # FileRoot
  <2>1. /\ Below(fs, to) /\ Files!Last(to)[2] # "lnxadmin-up"
        /\ Files!Is(fs, Files!Front(to), "dir") /\ Files!Inside(Files!Front(to))
    BY <1>1, <1>9 DEF Fits, Below, to
  <2>2. /\ Files!Place(fs, tmp) = tmp /\ Files!Last(tmp)[2] = "lnxadmin-up"
        /\ Files!Inside(tmp) /\ tmp # FileRoot
    BY <1>1, <2>1, TmpBelow DEF tmp
  <2>3. Files!Through(u) = IF Files!Is(fs, tmp, "link") THEN {at} ELSE {}
    BY <1>3, <2>2 DEF Files!Through, tmp, to
  <2>4. ~Files!Is(fs, tmp, "link") => at = tmp
    BY <1>4, <2>2
  <2>5. Files!Is(fs', Files!Front(to), "dir")
    BY <1>4, <1>6, <2>1 DEF Files!Is
  <2>6. ~Files!Is(fs', tmp, "dir")
    <3>1. tmp = at => fs'[tmp].kind = "file"
      BY <1>2, <1>6
    <3>2. tmp # at => Files!Is(fs, tmp, "link")
      BY <2>4
    <3> QED BY <1>3, <1>6, <3>1, <3>2 DEF Files!Is
  <2>7. Below(fs', to)
    BY <2>1, <2>5 DEF Below
  <2>8. Fits(fs', x)
    BY <1>8, <2>1, <2>6, <2>7 DEF Fits, tmp
  <2>9. Files!Gone \subseteq Files!Through(u)
    BY <1>7, <2>2, <2>3, <2>4
  <2>10. ASSUME NEW q \in (Files!Gone \cup Files!New) \ Files!Through(u)
         PROVE  Files!Inside(q) /\ q # FileRoot
    BY <1>7, <2>2, <2>3, <2>4
  <2> QED BY <2>8, <2>9, <2>10
<1>10. KeepsTo(u)
  BY <1>9 DEF KeepsTo
<1>11. PathsOK(x)
  BY <1>1, <1>8 DEF PathsOK
<1>12. job' = [job EXCEPT ![u] = x]
  BY DEF FilesInv, FileJob
<1> HIDE DEF x
<1>13. FilesInv'
  BY <1>5, <1>8, <1>9, <1>11, <1>12, GoFiles DEF TreeOK
<1> QED BY <1>10, <1>12, <1>13, OnlyMover

LEMMA os_replaceOK ==
  ASSUME NEW t, TreeOK(t), NEW from \in Files!Path \ {<<>>}, NEW to \in Files!Path \ {<<>>}
  PROVE  TreeOK(Files!os_replace(t, from, to))
<1> DEFINE src == Files!Place(t, from)
           dst == Files!Place(t, to)
           can == /\ Files!Exists(t, src) /\ dst # Files!NoPath /\ ~Files!IsPrefix(src, dst)
                  /\ Files!Under(t, dst) \subseteq {dst}
                  /\ Files!Exists(t, dst) => (Files!Is(t, src, "dir") <=> Files!Is(t, dst, "dir"))
<1>1. Files!os_replace(t, from, to) = IF can THEN Files!Moved(t, src, dst) ELSE t
  BY DEF Files!os_replace
<1>2. CASE can
  <2>1. dst \in Files!Path \ {<<>>} /\ Files!Is(t, Files!Front(dst), "dir")
    BY <1>2, PlaceIs
  <2>2. src \in DOMAIN t /\ ~Files!IsPrefix(src, dst) /\ Files!Under(t, dst) \subseteq {dst}
    BY <1>2 DEF Files!Exists
  <2>3. Files!Is(t, dst, "dir") => Files!Is(t, src, "dir")
    BY <1>2, <2>1 DEF Files!Is, Files!Exists
  <2>4. Files!os_replace(t, from, to) = Files!Moved(t, src, dst)
    BY <1>1, <1>2
  <2> HIDE DEF src, dst
  <2> QED BY <2>1, <2>2, <2>3, <2>4, MovedOK
<1>3. CASE ~can
  BY <1>1, <1>3
<1> QED BY <1>2, <1>3

LEMMA PackCloseStep ==
  ASSUME FilesInv, NEW u \in Client, job[u].do = "packed",
         \/ fs' = Files!os_replace(fs, Files!TmpOf(job[u].to), job[u].to)
         \/ fs' = Files!Unlinked(fs, Files!TmpOf(job[u].to))
  PROVE  TreeOK(fs)' /\ KeepsTo(u)
<1> DEFINE to == job[u].to
           tmp == Files!TmpOf(to)
<1>1. /\ to \in Files!Path \ {<<>>} /\ TreeOK(fs)
      /\ job[u].lone => Fits(fs, job[u]) /\ Below(fs, job[u].to)
  BY JobFacts
<1>2. tmp \in Files!Path \ {<<>>}
  BY <1>1, TmpIs
<1>3. fs' = Files!os_replace(fs, tmp, to) \/ fs' = Files!Unlinked(fs, tmp)
  OBVIOUS
<1>4. ASSUME job[u].lone
      PROVE  /\ Below(fs, to) /\ Files!Place(fs, to) = to /\ Files!Place(fs, tmp) = tmp
             /\ Files!Last(tmp)[2] = "lnxadmin-up" /\ ~Files!Is(fs, tmp, "dir")
             /\ \A q \in Files!Path : Files!IsPrefix(to, q) => Files!Inside(q) /\ q # FileRoot
             /\ Files!Inside(to) /\ to # FileRoot
  <2>1. Below(fs, to) /\ ~Files!Is(fs, tmp, "dir")
    BY <1>1, <1>4 DEF Fits
  <2> QED BY <1>1, <2>1, TmpBelow, BelowIs
<1> HIDE DEF to, tmp
<1>5. TreeOK(fs')
  <2>1. CASE fs' = Files!os_replace(fs, tmp, to)
    BY <1>1, <1>2, <2>1, os_replaceOK
  <2>2. CASE fs' = Files!Unlinked(fs, tmp)
    <3>1. fs' = fs \/ fs' = Files!Removed(fs, tmp)
      BY <2>2 DEF Files!Unlinked, Files!Removed
    <3> QED BY <1>1, <1>2, <3>1, RemovedOK
  <2> QED BY <1>3, <2>1, <2>2
<1>6. ASSUME job[u].lone
      PROVE  /\ Files!Gone \subseteq {to}
             /\ \A p \in Files!Gone \cup Files!New : Files!Inside(p) /\ p # FileRoot
  <2>1. Files!Under(fs, tmp) = {tmp} \cap DOMAIN fs
    BY <1>1, <1>2, <1>4, <1>6, UnderOther
  <2>2. CASE fs' = fs
    BY <2>2, StillKeeps
  <2>3. CASE fs' = Files!Drop(fs, tmp)
    <3>1. Files!Gone = {} /\ Files!New = {}
      BY <1>4, <1>6, <2>1, <2>3 DEF Files!Gone, Files!New, Files!Exists, Files!Drop
    <3> QED BY <3>1
  <2>4. CASE /\ fs' = Files!Moved(fs, tmp, to) /\ tmp \in DOMAIN fs
             /\ Files!Under(fs, to) \subseteq {to}
    <3> DEFINE n == Files!Moved(fs, tmp, to)
    <3>1. /\ DOMAIN n = MovedTo(fs, tmp, to) \cup (DOMAIN fs \ Files!Under(fs, tmp))
          /\ \A q \in Files!Under(fs, tmp) : n[Graft(tmp, to, q)] = fs[q]
          /\ \A q \in DOMAIN fs \ Files!Under(fs, tmp) :
                 q # to => q \notin MovedTo(fs, tmp, to) /\ n[q] = fs[q]
          /\ \A q \in MovedTo(fs, tmp, to) : q \in Files!Path /\ Files!IsPrefix(to, q)
      BY <1>1, <2>4, MovedIs
    <3> HIDE DEF n
    <3>2. fs' = n
      BY <2>4 DEF n
    <3>3. Files!Gone \subseteq {to}
      BY <1>4, <1>6, <2>1, <3>1, <3>2 DEF Files!Gone, Files!Exists
    <3>4. Files!New \subseteq MovedTo(fs, tmp, to)
      BY <3>1, <3>2 DEF Files!New
    <3> QED BY <1>4, <1>6, <3>1, <3>3, <3>4
  <2>5. \/ fs' = fs \/ fs' = Files!Drop(fs, tmp)
        \/ /\ fs' = Files!Moved(fs, tmp, to) /\ tmp \in DOMAIN fs
           /\ Files!Under(fs, to) \subseteq {to}
    BY <1>3, <1>4, <1>6 DEF Files!os_replace, Files!Unlinked, Files!Exists
  <2> QED BY <2>2, <2>3, <2>4, <2>5
<1>7. KeepsTo(u)
  BY <1>6 DEF KeepsTo, to
<1> QED BY <1>5, <1>7 DEF TreeOK

LEMMA MemberStep ==
  ASSUME FilesInv, NEW u \in Client, job[u].do = "member", NEW name,
         NEW base \in FileText, NEW empty \in FileText,
         name = Files!_unique_name(fs, job[u].to, <<base, empty, 1>>),
         fs' = Files!Created(fs, name, Files!File("m"))
  PROVE  TreeOK(fs)' /\ KeepsTo(u)
<1> DEFINE to == job[u].to
           m == Files!File("m")
<1>1. /\ to \in Files!Path \ {<<>>} /\ TreeOK(fs)
      /\ job[u].lone => Fits(fs, job[u]) /\ Below(fs, job[u].to)
  BY JobFacts
<1>2. m \in Made
  BY DEF Made
<1>3. 1 \in Nat \ {0} /\ name = Files!_unique_name(fs, to, <<base, empty, 1>>)
  OBVIOUS
<1>4. \/ name = Files!NoPath
      \/ name \in Files!Path \ {<<>>} /\ Files!Front(name) = to
  BY <1>1, <1>3, UniqueIs
<1>5. TreeOK(fs')
  BY <1>1, <1>2, <1>4, CreatedOK
<1>6. Files!Gone = {} /\ Files!New \subseteq {Files!Place(fs, name)}
  BY CreatedKeeps
<1> HIDE DEF to, m
<1>7. ASSUME job[u].lone
      PROVE  \A p \in Files!New : Files!Inside(p) /\ p # FileRoot
  <2>1. Below(fs, to) /\ Files!Is(fs, to, "dir")
    BY <1>1, <1>7 DEF Fits, to
  <2>2. Files!Inside(to)
    BY <1>1, <2>1, BelowIs
  <2>3. CASE name = Files!NoPath
    <3>1. fs' = fs
      BY <1>1, <2>3, PlaceOfNone DEF Files!Created
    <3> QED BY <3>1, StillKeeps
  <2>4. CASE name # Files!NoPath
    <3>1. Below(fs, name)
      BY <1>4, <2>1, <2>2, <2>4 DEF Below
    <3> QED BY <1>1, <1>6, <3>1, BelowIs
  <2> QED BY <2>3, <2>4
<1> QED BY <1>5, <1>6, <1>7 DEF KeepsTo, TreeOK

LEMMA MemberGoneStep ==
  ASSUME FilesInv, NEW u \in Client, job[u].do = "member", fs' = Files!Removed(fs, job[u].to)
  PROVE  TreeOK(fs)' /\ KeepsTo(u)
<1>1. /\ job[u].to \in Files!Path \ {<<>>} /\ TreeOK(fs)
      /\ job[u].lone => Fits(fs, job[u]) /\ Below(fs, job[u].to)
  BY JobFacts
<1>2. TreeOK(fs')
  BY <1>1, RemovedOK
<1>3. job[u].lone => /\ Files!Gone \subseteq Files!Under(fs, job[u].to) /\ Files!New = {}
                     /\ \A q \in Files!Gone : Files!Inside(q) /\ q # FileRoot
  BY <1>1, RemovedKeeps
<1> QED BY <1>2, <1>3 DEF KeepsTo, TreeOK

LEMMA StillStep ==
  ASSUME FilesInv, NEW u \in Client, fs' = fs
  PROVE  TreeOK(fs)' /\ KeepsTo(u)
<1>1. Files!Gone = {} /\ Files!New = {}
  BY StillKeeps
<1> QED BY <1>1 DEF KeepsTo, FilesInv, TreeOK

LEMMA ExtractStep ==
  ASSUME FilesInv, NEW u \in Client, Files!ExtractFolder(u)
  PROVE  FilesInv' /\ KeepStep
<1> DEFINE to == job[u].to
<1>1. /\ job[u].do = "extract" /\ fs' = Files!Created(fs, to, Files!Dir)
      /\ \/ fs' = fs /\ job' = [job EXCEPT ![u] = Files!Idle]
         \/ fs' # fs /\ job' = [job EXCEPT ![u].do = "member"]
  BY DEF Files!ExtractFolder, Files!Does, Files!Done, Files!Goes
<1>2. /\ to \in Files!Path \ {<<>>} /\ TreeOK(fs)
      /\ job[u].lone => Fits(fs, job[u]) /\ Below(fs, job[u].to)
  BY <1>1, JobFacts
<1>3. Files!Dir \in Made
  BY DEF Made
<1>4. TreeOK(fs)' /\ KeepsTo(u)
  BY <1>1, <1>3, CreateStep
<1>5. CASE fs' = fs /\ job' = [job EXCEPT ![u] = Files!Idle]
  BY <1>1, <1>2, <1>4, <1>5, FinishFiles, OnlyMover
<1>6. CASE fs' # fs /\ job' = [job EXCEPT ![u].do = "member"]
  <2> DEFINE x == [job[u] EXCEPT !.do = "member"]
  <2>1. x \in FileJob /\ x.do = "member" /\ x.to = to /\ x.lone = job[u].lone
    BY DEF FilesInv, FileJob, FileDoes
  <2>2. job' = [job EXCEPT ![u] = x]
    BY <1>6 DEF FilesInv, FileJob
  <2> HIDE DEF x
  <2>3. ASSUME job[u].lone PROVE Fits(fs', x)
    <3>1. /\ Files!Place(fs, to) = to /\ Files!Is(fs, Files!Front(to), "dir")
          /\ Files!Inside(Files!Front(to)) /\ to # <<>>
      BY <1>2, <2>3, BelowIs DEF Below
    <3>2. fs' = Files!Put(fs, to, Files!Dir)
      BY <1>1, <1>6, <3>1 DEF Files!Created
    <3>3. Files!Dir.kind = "dir"
      BY DEF Files!Dir
    <3> HIDE DEF to
    <3>4. /\ DOMAIN fs' = DOMAIN fs \cup {to} /\ fs'[to] = Files!Dir
          /\ \A q \in DOMAIN fs : q # to => fs'[q] = fs[q]
      BY <3>2 DEF Files!Put
    <3>5. Files!Is(fs', to, "dir") /\ Files!Is(fs', Files!Front(to), "dir")
      BY <3>1, <3>3, <3>4 DEF Files!Is
    <3> QED BY <1>2, <2>1, <3>1, <3>5 DEF Fits, Below
  <2>4. PathsOK(x)
    BY <1>2, <2>1 DEF PathsOK
  <2>5. FilesInv'
    BY <1>1, <1>4, <2>1, <2>2, <2>3, <2>4, GoFiles
  <2> QED BY <1>4, <2>2, <2>5, OnlyMover
<1> QED BY <1>1, <1>5, <1>6

LEMMA BeginStep ==
  ASSUME FilesInv, NEW u \in Client, NEW o \in FileOperation, Files!Begin(u, o)
  PROVE  FilesInv' /\ KeepStep
<1> DEFINE plan == Files!Checked(fs, o)
           mine == [do |-> plan.do, from |-> plan.from, to |-> plan.to, lone |-> Files!Busy = {}]
           kept(k) == [job[k] EXCEPT !.lone = k \notin Files!Busy]
<1>1. /\ plan # Files!Refused /\ fs' = fs /\ job[u].do = "idle"
      /\ job' = [k \in Client |-> IF k = u THEN mine ELSE kept(k)]
  BY DEF Files!Begin, Files!Busy
<1>2. /\ plan.do \in FileDoes \ {"idle"} /\ plan.from \in Files!Path \cup {Files!NoPath}
      /\ PathsOK(plan) /\ Fits(fs, plan)
  BY <1>1, CheckedIs DEF FilesInv
<1> HIDE DEF plan
<1>3. plan.to \in Files!Path \ {<<>>}
  BY <1>2 DEF PathsOK
<1>4. /\ mine \in FileJob /\ mine.do = plan.do /\ mine.from = plan.from /\ mine.to = plan.to
      /\ mine.lone = (Files!Busy = {})
  BY <1>2, <1>3 DEF FileJob
<1>5. \A k \in Client : /\ kept(k) \in FileJob /\ kept(k).do = job[k].do
                        /\ kept(k).from = job[k].from /\ kept(k).to = job[k].to
                        /\ kept(k).lone = (k \notin Files!Busy)
  BY DEF FilesInv, FileJob
<1> HIDE DEF mine, kept
<1>6. /\ job' \in [Client -> FileJob] /\ job'[u] = mine
      /\ \A k \in Client \ {u} : job'[k] = kept(k)
  BY <1>1, <1>4, <1>5
<1>7. \A k \in Client : PathsOK(job'[k])
  BY <1>2, <1>4, <1>5, <1>6 DEF PathsOK, FilesInv
<1>8. ASSUME NEW k \in Client, job'[k].do # "idle", job'[k].lone
      PROVE  (\A w \in Client \ {k} : job'[w].do = "idle") /\ Fits(fs', job'[k])
  <2>1. k = u
    BY <1>5, <1>6, <1>8 DEF Files!Busy
  <2>2. Files!Busy = {}
    BY <1>4, <1>6, <1>8, <2>1
  <2>3. Fits(fs, mine)
    BY <1>2, <1>4 DEF Fits
  <2> QED BY <1>1, <1>5, <1>6, <2>1, <2>2, <2>3 DEF Files!Busy
<1>9. Alone' /\ (\A k \in Client : PathsOK(job[k]))'
  BY <1>7, <1>8 DEF Alone, PathsOK, Fits, Below
<1>10. TreeOK(fs)' /\ KeepStep
  BY <1>1, StillStep DEF KeepStep
<1> QED BY <1>6, <1>9, <1>10 DEF FilesInv

\* One step of the file manager, by its action.
LEMMA FilesStep ==
  ASSUME FilesInv, Files!Next
  PROVE  FilesInv' /\ KeepStep
<1>1. ASSUME NEW u \in Client, NEW o \in FileOperation, Files!Begin(u, o)
      PROVE  FilesInv' /\ KeepStep
  BY <1>1, BeginStep
<1>2. ASSUME NEW u \in Client, job[u].do # "idle", job' = [job EXCEPT ![u] = Files!Idle],
             TreeOK(fs)' /\ KeepsTo(u)
      PROVE  FilesInv' /\ KeepStep
  BY <1>2, FinishFiles, OnlyMover
<1>3. ASSUME NEW u \in Client, Files!_atomic_write(u) PROVE FilesInv' /\ KeepStep
  <2>1. Files!File("y") \in Made
    BY DEF Made
  <2> QED BY <1>2, <1>3, <2>1, ReplaceStep DEF Files!_atomic_write, Files!Does, Files!Done
<1>4. ASSUME NEW u \in Client, Files!make_dir(u) \/ Files!make_file(u)
      PROVE  FilesInv' /\ KeepStep
  <2>1. Files!File("y") \in Made /\ Files!Dir \in Made
    BY DEF Made
  <2>2. /\ job[u].do \in {"mkdir", "touch"}
        /\ job' = [job EXCEPT ![u] = Files!Idle]
        /\ \E node \in Made : fs' = Files!Created(fs, job[u].to, node)
    BY <1>4, <2>1 DEF Files!make_dir, Files!make_file, Files!Does, Files!Done
  <2> QED BY <1>2, <2>2, CreateStep
<1>5. ASSUME NEW u \in Client, Files!delete_path(u) PROVE FilesInv' /\ KeepStep
  BY <1>2, <1>5, DeleteStep DEF Files!delete_path, Files!Does, Files!Done
<1>6. ASSUME NEW u \in Client, Files!move_path(u) PROVE FilesInv' /\ KeepStep
  BY <1>2, <1>6, MoveStep DEF Files!move_path, Files!Does, Files!Done
<1>7. ASSUME NEW u \in Client, Files!PackOpen(u) PROVE FilesInv' /\ KeepStep
  <2> DEFINE at == Files!Opened(fs, Files!TmpOf(job[u].to))
  <2>1. /\ job[u].do = "pack"
        /\ \/ /\ at # Files!NoPath /\ fs' = Files!Put(fs, at, Files!File("zip"))
              /\ job' = [job EXCEPT ![u].do = "packed"]
           \/ job' = [job EXCEPT ![u] = Files!Idle] /\ fs' = fs
    BY <1>7 DEF Files!PackOpen, Files!Does, Files!Goes, Files!Done
  <2> QED BY <1>2, <2>1, PackOpenStep, StillStep
<1>8. ASSUME NEW u \in Client, Files!PackClose(u) PROVE FilesInv' /\ KeepStep
  <2>1. /\ job[u].do = "packed" /\ job' = [job EXCEPT ![u] = Files!Idle]
        /\ \/ fs' = Files!os_replace(fs, Files!TmpOf(job[u].to), job[u].to)
           \/ fs' = Files!Unlinked(fs, Files!TmpOf(job[u].to))
           \/ fs' = fs
    BY <1>8 DEF Files!PackClose, Files!Does, Files!Done
  <2>2. TreeOK(fs)' /\ KeepsTo(u)
    BY <2>1, StillStep, PackCloseStep
  <2> QED BY <1>2, <2>1, <2>2
<1>9. ASSUME NEW u \in Client, Files!ExtractFolder(u) PROVE FilesInv' /\ KeepStep
  BY <1>9, ExtractStep
<1>10. ASSUME NEW u \in Client, Files!ExtractMember(u) PROVE FilesInv' /\ KeepStep
  <2> DEFINE name == Files!_unique_name(fs, job[u].to, <<"m", "", 1>>)
  <2>1. /\ job[u].do = "member" /\ job' = [job EXCEPT ![u] = Files!Idle]
        /\ \/ fs' = Files!Created(fs, name, Files!File("m"))
           \/ fs' = Files!Removed(fs, job[u].to)
           \/ fs' = fs
    BY <1>10, Zenon DEF Files!ExtractMember, Files!Does, Files!Done
  <2>2. PICK base \in FileText, empty \in FileText :
            name = Files!_unique_name(fs, job[u].to, <<base, empty, 1>>)
    BY FilesTexts, Zenon
  <2> HIDE DEF name
  <2>3. TreeOK(fs)' /\ KeepsTo(u)
    BY <2>1, <2>2, MemberStep, MemberGoneStep, StillStep
  <2> QED BY <1>2, <2>1, <2>3
<1>12. ASSUME NEW u \in Client, Files!ensure_dirs(u) PROVE FilesInv' /\ KeepStep
  BY <1>12, LevelStep
<1>11. CASE Files!Crash
  <2>1. fs' = fs /\ job' = [u \in Client |-> Files!Idle]
    BY <1>11 DEF Files!Crash
  <2>2. Files!Idle \in FileJob /\ Files!Idle.do = "idle"
    BY DEF Files!Idle, FileJob, FileDoes
  <2>3. TreeOK(fs)' /\ KeepStep
    <3>1. TreeOK(fs)'
      BY <2>1 DEF FilesInv, TreeOK
    <3> QED BY <2>1, <3>1, StillStep DEF KeepStep
  <2>4. Alone' /\ (\A u \in Client : PathsOK(job[u]))' /\ job' \in [Client -> FileJob]
    BY <2>1, <2>2 DEF Alone, PathsOK
  <2> QED BY <2>3, <2>4 DEF FilesInv
<1> QED BY <1>1, <1>3, <1>4, <1>5, <1>6, <1>7, <1>8, <1>9, <1>10, <1>11,
          <1>12 DEF Files!Next

LEMMA PanelMovesFiles == [PanelNext]_panelVars => Files!Next \/ UNCHANGED filesVars
BY DEF PanelNext, panelVars

LEMMA NextFiles == FilesInv /\ [PanelNext]_panelVars => FilesInv' /\ (KeepStep \/ UNCHANGED filesVars)
<1> SUFFICES ASSUME FilesInv, [PanelNext]_panelVars
    PROVE  FilesInv' /\ (KeepStep \/ UNCHANGED filesVars)
  OBVIOUS
<1>1. CASE Files!Next
  BY <1>1, FilesStep
<1>2. CASE UNCHANGED filesVars
  <2>1. fs' = fs /\ job' = job
    BY <1>2 DEF filesVars
  <2> QED BY <1>2, <2>1 DEF FilesInv, Alone, TreeOK, PathsOK, Fits, Below
<1> QED BY <1>1, <1>2, PanelMovesFiles

\* The files' state has its type, and is a tree, whatever requests do to each other.
THEOREM PanelFilesInv == PanelSpec => []FilesInv
<1>1. PanelInit => FilesInv
  BY InitFiles DEF PanelInit
<1> QED BY <1>1, NextFiles, PTL DEF PanelSpec, panelVars

\* fileman.py: a request that nobody overlaps changes nothing outside the mounted
\* folder, and inside only what it names, except that packing truncates the file, in
\* or out of the folder, that a link at the name of the archive in the making leads
\* to; what is created never stands for something that was there, however requests
\* interleave.
THEOREM PanelRequestsKeepToTheirs == PanelSpec => RequestsKeepToTheirs
<1>1. FilesInv /\ [PanelNext]_panelVars => [KeepStep]_(Files!vars)
  BY NextFiles DEF filesVars, Files!vars
<1>2. PanelSpec => [][KeepStep]_(Files!vars)
  BY <1>1, PanelFilesInv, PTL DEF PanelSpec, panelVars
<1> QED BY <1>2 DEF RequestsKeepToTheirs, Files!RequestsKeepToTheirs, KeepStep, KeepsTo

LEMMA FilesTyped == FilesInv => Files!TypeOK
BY DEF FilesInv, TreeOK, FileJob, FileDoes, Files!TypeOK

-----------------------------------------------------------------------------
(***************************************************************************)
(* The users and groups of the host: what a command may do is settled when  *)
(* its request is accepted, however late it runs.                          *)
(***************************************************************************)
LEMMA PanelMovesUsers == [PanelNext]_panelVars => Users!Next \/ UNCHANGED usersVars
BY DEF PanelNext, panelVars

HostRequest ==
    [at : {"idle", "self", "sudo", "chpasswd"}, cmd : HostCommand \cup {None}, ok : BOOLEAN]

\* The command c touches nothing protected that its settings did not allow.
Harmless(c) ==
    /\ c.do \in {"userdel", "chpasswd", "lock", "unlock", "shell"} /\ account[c.user] # None
          => account[c.user].uid = "normal" \/ (account[c.user].uid = "system" /\ c.system)
    /\ c.do = "groupdel" =>
          \A g \in c.groups : group[g] # None =>
              group[g].gid = "normal" \/ (group[g].gid = "system" /\ c.system)
    /\ c.do \in {"useradd", "chpasswd"} /\ c.text # None => c.text.more = {}
    /\ c.do = "chpasswd" => c.text # None

\* The accounts and groups that a step makes or changes keep their class, or are new.
ClassesKept ==
    /\ \A u \in OsUser :
          \/ account'[u] = None
          \/ account[u] # None /\ account'[u].uid = account[u].uid
          \/ account[u] = None /\ account'[u].uid = "normal"
    /\ \A g \in OsGroup :
          \/ group'[g] = None
          \/ group[g] # None /\ group'[g].gid = group[g].gid
          \/ group[g] = None /\ group'[g].gid = "normal"

HostTypes ==
    /\ account \in [OsUser -> Users!Entry \cup {None}]
    /\ group \in [OsGroup -> Users!GroupEntry \cup {None}]

HostInv ==
    /\ HostTypes /\ system \in BOOLEAN
    /\ userJob \in [Client -> HostRequest]
    /\ stray \subseteq HostCommand /\ \A c \in stray : Harmless(c)
    /\ \A h \in Client : userJob[h].at # "idle" =>
          /\ userJob[h].cmd \in HostCommand
          /\ userJob[h].at = "chpasswd" => userJob[h].cmd.text # None
          /\ Harmless(Users!Command(h))

LEMMA HarmlessKept ==
    ASSUME NEW c \in HostCommand, Harmless(c), ClassesKept
    PROVE  Harmless(c)'
BY DEF Harmless, ClassesKept, HostCommand

\* chpasswd with a text of one line sets the password of its account alone.
LEMMA ChpasswdOne ==
    ASSUME HostTypes, NEW c \in HostCommand, Harmless(c), c.do = "chpasswd", Users!Chpasswd(c)
    PROVE  /\ account[c.user] # None
           /\ account'[c.user] = [account[c.user] EXCEPT !.pwd = c.text.pwd, !.locked = FALSE]
           /\ \A u \in OsUser \ {c.user} : account'[u] = account[u]
           /\ account' = [u \in OsUser |-> account'[u]]
<1>0. c.user \in OsUser /\ account \in [OsUser -> Users!Entry \cup {None}]
  BY DEF HostCommand, HostTypes
<1> DEFINE line == <<c.user, c.text.pwd>>
           Picked(u) == CHOOSE l \in Users!LinesOf(c) : l[1] = u
<1>1. line \in Users!LinesOf(c) /\ \A l \in Users!LinesOf(c) : l = line
  BY DEF Harmless, Users!LinesOf
<1>2. line[1] = c.user /\ line[2] = c.text.pwd
  OBVIOUS
<1> HIDE DEF line
<1>3. account[c.user] # None
  BY <1>1, <1>2 DEF Users!Chpasswd
<1>4. Picked(c.user) = line
  <2>1. \E l \in Users!LinesOf(c) : l[1] = c.user
    BY <1>1, <1>2
  <2>2. Picked(c.user) \in Users!LinesOf(c)
    BY <2>1
  <2> QED BY <1>1, <2>2
<1>5. account' = [u \in OsUser |->
                    IF \E l \in Users!LinesOf(c) : l[1] = u
                    THEN [account[u] EXCEPT !.pwd = Picked(u)[2], !.locked = FALSE]
                    ELSE account[u]]
  BY DEF Users!Chpasswd
<1> HIDE DEF Picked
<1>6. /\ account'[c.user] = [account[c.user] EXCEPT !.pwd = c.text.pwd, !.locked = FALSE]
      /\ \A u \in OsUser \ {c.user} : account'[u] = account[u]
      /\ DOMAIN account' = OsUser /\ account' = [u \in OsUser |-> account'[u]]
  BY <1>0, <1>1, <1>2, <1>4, <1>5
<1> QED BY <1>3, <1>6

\* What a command of the host does to the accounts.
LEMMA EffectAccounts ==
    ASSUME HostTypes, NEW c \in HostCommand, Harmless(c), Users!Effect(c)
    PROVE  /\ account' \in [OsUser -> Users!Entry \cup {None}]
           /\ \A u \in OsUser :
                /\ \/ account'[u] = None
                   \/ account[u] # None /\ account'[u].uid = account[u].uid
                   \/ account[u] = None /\ account'[u].uid = "normal"
                /\ account[u] # None /\ account'[u] # account[u] =>
                      \/ account[u].uid = "normal"
                      \/ account[u].uid = "system" /\ Users!LetAt(c, u)
           /\ c.do = "useradd" /\ account'[c.user] # None => account'[c.user].uid = "normal"
<1>0. c.user \in OsUser /\ c.shell \in OsShell /\ account \in [OsUser -> Users!Entry \cup {None}]
  BY DEF HostCommand, HostTypes
<1>1. CASE c.do = "useradd" /\ Users!UserAdd(c)
  BY <1>0, <1>1 DEF Users!UserAdd, Users!Exists, Users!Entry
<1>2. CASE c.do = "userdel" /\ Users!UserDel(c)
  BY <1>0, <1>2 DEF Users!UserDel, Users!Exists, Harmless, Users!LetAt
<1>3. CASE c.do = "chpasswd" /\ Users!Chpasswd(c)
  <2>3. account[c.user] # None
    BY <1>3, ChpasswdOne
  <2>6. /\ account'[c.user] = [account[c.user] EXCEPT !.pwd = c.text.pwd, !.locked = FALSE]
        /\ \A u \in OsUser \ {c.user} : account'[u] = account[u]
        /\ account' = [u \in OsUser |-> account'[u]]
    BY <1>3, ChpasswdOne
  <2>7. c.text.pwd \in Users!Pwd
    BY <1>3 DEF Harmless, HostCommand, Users!Pwd
  <2>8. account'[c.user] \in Users!Entry /\ account'[c.user].uid = account[c.user].uid
    <3>1. account[c.user] \in Users!Entry
      BY <1>0, <2>3
    <3>2. account'[c.user] = [account[c.user] EXCEPT !.pwd = c.text.pwd, !.locked = FALSE]
      BY <2>6
    <3> QED BY <2>7, <3>1, <3>2 DEF Users!Entry
  <2> QED BY <1>0, <1>3, <2>3, <2>6, <2>8 DEF Harmless, Users!LetAt
<1>4. CASE Users!UserMod(c)
  <2>1. account[c.user] \in Users!Entry /\ account[c.user] # None
    BY <1>0, <1>4 DEF Users!UserMod, Users!Exists
  <2>2. CASE UNCHANGED account
    BY <1>0, <1>4, <2>2 DEF Users!UserMod
  <2>3. CASE c.do \in {"lock", "unlock", "shell"}
    <3>1. \E e \in Users!Entry :
              e.uid = account[c.user].uid /\ account' = [account EXCEPT ![c.user] = e]
      <4>1. CASE c.do = "lock"
        <5>1. account' = [account EXCEPT ![c.user] = [account[c.user] EXCEPT !.locked = TRUE]]
          BY <1>4, <4>1 DEF Users!UserMod
        <5> QED BY <2>1, <5>1 DEF Users!Entry
      <4>2. CASE c.do = "unlock"
        <5>1. account' = [account EXCEPT ![c.user] =
                            [account[c.user] EXCEPT !.locked = (account[c.user].pwd = None)]]
          BY <1>4, <4>2 DEF Users!UserMod
        <5> QED BY <2>1, <5>1 DEF Users!Entry
      <4>3. CASE c.do = "shell"
        <5>1. account' = [account EXCEPT ![c.user] = [account[c.user] EXCEPT !.shell = c.shell]]
          BY <1>4, <4>3 DEF Users!UserMod
        <5> QED BY <1>0, <2>1, <5>1 DEF Users!Entry
      <4> QED BY <2>3, <4>1, <4>2, <4>3
    <3> QED BY <1>0, <2>1, <2>3, <3>1 DEF Harmless, Users!LetAt
  <2> QED BY <1>4, <2>2, <2>3 DEF Users!UserMod
<1>5. CASE Users!GroupCommand(c)
  BY <1>0, <1>5 DEF Users!GroupCommand
<1> QED BY <1>1, <1>2, <1>3, <1>4, <1>5 DEF Users!Effect

LEMMA MemberGroups ==
    ASSUME HostTypes, NEW u \in OsUser, NEW gs, Users!MemberOf(u, gs)
    PROVE  /\ group' \in [OsGroup -> Users!GroupEntry \cup {None}]
           /\ \A g \in OsGroup :
                /\ group'[g] = None <=> group[g] = None
                /\ group[g] # None => group'[g].gid = group[g].gid
<1>1. group' = [g \in OsGroup |->
          IF group[g] = None THEN None
          ELSE [group[g] EXCEPT !.members = (@ \ {u}) \cup (IF g \in gs THEN {u} ELSE {})]]
  BY DEF Users!MemberOf
<1>2. ASSUME NEW g \in OsGroup, group[g] # None
      PROVE  group'[g] \in Users!GroupEntry /\ group'[g].gid = group[g].gid
  BY <1>1, <1>2 DEF HostTypes, Users!GroupEntry
<1>3. \A g \in OsGroup : group[g] = None => group'[g] = None
  BY <1>1
<1>4. \A g \in OsGroup : group'[g] \in Users!GroupEntry \cup {None}
  BY <1>2, <1>3
<1>5. group' \in [OsGroup -> Users!GroupEntry \cup {None}]
  BY <1>1, <1>4
<1> QED BY <1>2, <1>3, <1>5, UsersAssumption

\* The command may remove the group g.
Removable(c, g) ==
    \/ group[g].gid = "normal"
    \/ group[g].gid = "system" /\ c.system /\ c.do = "groupdel" /\ g \in c.groups

\* What a command of the host does to the groups.
LEMMA EffectGroups ==
    ASSUME HostTypes, NEW c \in HostCommand, Harmless(c), Users!Effect(c)
    PROVE  /\ group' \in [OsGroup -> Users!GroupEntry \cup {None}]
           /\ \A g \in OsGroup :
                /\ \/ group'[g] = None
                   \/ group[g] # None /\ group'[g].gid = group[g].gid
                   \/ group[g] = None /\ group'[g].gid = "normal"
                /\ group[g] # None /\ group'[g] = None => Removable(c, g)
<1>0. c.user \in OsUser /\ c.groups \subseteq OsGroup
      /\ group \in [OsGroup -> Users!GroupEntry \cup {None}]
  BY DEF HostCommand, HostTypes
<1>1. CASE UNCHANGED group
  BY <1>0, <1>1
<1>2. CASE \E gs : Users!MemberOf(c.user, gs)
  BY <1>0, <1>2, MemberGroups
<1>3. CASE c.do = "groupadd" /\ Users!GroupCommand(c)
  <2>1. /\ \A g \in c.groups : group[g] = None
        /\ group' = [g \in OsGroup |-> IF g \in c.groups THEN [gid |-> "normal", members |-> {}]
                                       ELSE group[g]]
    BY <1>3 DEF Users!GroupCommand
  <2>2. [gid |-> "normal", members |-> {}] \in Users!GroupEntry
    BY DEF Users!GroupEntry
  <2> QED BY <1>0, <2>1, <2>2
<1>4. CASE c.do = "groupdel" /\ Users!GroupCommand(c)
  <2>1. group' = [g \in OsGroup |-> IF g \notin c.groups THEN group[g] ELSE None]
    BY <1>4 DEF Users!GroupCommand
  <2> QED BY <1>0, <1>4, <2>1 DEF Harmless, Removable
<1>5. CASE c.do \in {"gpasswd -a", "gpasswd -d"} /\ Users!GroupCommand(c)
  <2>1. /\ \A g \in c.groups : group[g] # None
        /\ group' = [g \in OsGroup |->
              IF g \notin c.groups THEN group[g]
              ELSE [group[g] EXCEPT !.members =
                       IF c.do = "gpasswd -a" THEN @ \cup {c.user} ELSE @ \ {c.user}]]
    BY <1>5 DEF Users!GroupCommand
  <2>2. ASSUME NEW g \in c.groups
        PROVE  group'[g] \in Users!GroupEntry /\ group'[g].gid = group[g].gid
               /\ group[g] # None
    BY <1>0, <2>1 DEF Users!GroupEntry
  <2>3. \A g \in OsGroup \ c.groups : group'[g] = group[g]
    BY <2>1
  <2>4. group' \in [OsGroup -> Users!GroupEntry \cup {None}]
    <3>1. \A g \in OsGroup : group'[g] \in Users!GroupEntry \cup {None}
      BY <1>0, <2>2, <2>3
    <3> QED BY <2>1, <3>1
  <2> QED BY <1>0, <2>2, <2>3, <2>4, UsersAssumption
<1> QED
  BY <1>1, <1>2, <1>3, <1>4, <1>5
     DEF Users!Effect, Users!UserAdd, Users!UserDel, Users!Chpasswd, Users!UserMod,
         Users!GroupCommand

\* So a command keeps the classes, and touches nothing protected by itself.
LEMMA EffectHost ==
    ASSUME HostTypes, NEW c \in HostCommand, Harmless(c),
           Users!Effect(c) \/ UNCHANGED <<account, group>>
    PROVE  /\ HostTypes' /\ ClassesKept
           /\ \A u \in OsUser : account[u] # None /\ account'[u] # account[u] =>
                \/ account[u].uid = "normal"
                \/ account[u].uid = "system" /\ Users!LetAt(c, u)
           /\ \A g \in OsGroup : group[g] # None /\ group'[g] = None => Removable(c, g)
<1>1. CASE Users!Effect(c)
  <2>1. HostTypes'
    BY <1>1, EffectAccounts, EffectGroups DEF HostTypes
  <2>2. ClassesKept
    BY <1>1, EffectAccounts, EffectGroups DEF ClassesKept
  <2> QED BY <1>1, <2>1, <2>2, EffectAccounts, EffectGroups
<1>2. CASE UNCHANGED <<account, group>>
  BY <1>2 DEF HostTypes, ClassesKept
<1> QED BY <1>1, <1>2

LEMMA CommandType ==
    ASSUME NEW h \in Client, userJob[h].cmd \in HostCommand
    PROVE  /\ Users!Command(h) \in HostCommand
           /\ Users!Command(h).user = userJob[h].cmd.user
           /\ Users!Command(h).text = userJob[h].cmd.text
           /\ Users!Command(h).system = userJob[h].cmd.system
<1>1. CASE userJob[h].at = "chpasswd"
  <2>1. Users!Command(h) = [userJob[h].cmd EXCEPT !.do = "chpasswd"]
    BY <1>1 DEF Users!Command
  <2> QED BY <2>1 DEF HostCommand
<1>2. CASE userJob[h].at # "chpasswd"
  BY <1>2 DEF Users!Command
<1> QED BY <1>1, <1>2

\* A request of h that goes on, as n.
LEMMA HostStep ==
    ASSUME HostInv, NEW h \in Client, HostTypes', ClassesKept,
           userJob' \in [Client -> HostRequest],
           \A k \in Client \ {h} : userJob'[k].at = userJob[k].at /\ userJob'[k].cmd = userJob[k].cmd,
           userJob'[h].at # "idle" =>
               /\ userJob'[h].cmd \in HostCommand
               /\ userJob'[h].at = "chpasswd" => userJob'[h].cmd.text # None
               /\ Harmless(Users!Command(h))',
           system' \in BOOLEAN, stray' \subseteq HostCommand, \A c \in stray' : c \in stray \/ Harmless(c)'
    PROVE  HostInv'
<1>1. \A c \in stray' : Harmless(c)'
  BY HarmlessKept DEF HostInv
<1>2. ASSUME NEW k \in Client, userJob'[k].at # "idle"
      PROVE  /\ userJob'[k].cmd \in HostCommand
             /\ userJob'[k].at = "chpasswd" => userJob'[k].cmd.text # None
             /\ Harmless(Users!Command(k))'
  <2>1. CASE k = h
    BY <1>2, <2>1
  <2>2. CASE k # h
    <3>1. /\ userJob[k].at # "idle" /\ userJob[k].cmd \in HostCommand
          /\ userJob[k].at = "chpasswd" => userJob[k].cmd.text # None
          /\ Harmless(Users!Command(k))
      BY <1>2, <2>2 DEF HostInv
    <3>2. Users!Command(k)' = Users!Command(k)
      BY <2>2 DEF Users!Command
    <3>3. \A c \in HostCommand : Harmless(c) => Harmless(c)'
      BY HarmlessKept
    <3>4. Harmless(Users!Command(k))'
      BY <3>1, <3>2, <3>3, CommandType DEF Harmless
    <3> QED BY <2>2, <3>1, <3>4
  <2> QED BY <2>1, <2>2
<1> QED BY <1>1, <1>2 DEF HostInv

LEMMA SubmitHost ==
    ASSUME HostInv, NEW h \in Client, NEW c \in OsAsked, Users!Submit(h, c)
    PROVE  HostInv'
<1> DEFINE d == [c EXCEPT !.system = system]
           n == [Users!Idle EXCEPT !.at = IF c.do = "chpasswd" THEN "chpasswd" ELSE "self",
                                   !.cmd = d]
<1>1. /\ c \in HostCommand /\ (c.do = "chpasswd" => c.text # None)
      /\ UNCHANGED <<account, group, system, stray>> /\ Users!Accepts(c)
  BY UsersAssumption DEF HostCommand, Users!Submit
<1>2. d \in HostCommand /\ d.do = c.do /\ d.user = c.user /\ d.text = c.text
      /\ d.groups = c.groups /\ d.system = system
  BY <1>1 DEF HostCommand, HostInv
<1>3. Harmless(d)
  <2>1. /\ d.do \in {"userdel", "chpasswd", "lock", "unlock", "shell"} /\ account[d.user] # None
        => account[d.user].uid = "normal" \/ (account[d.user].uid = "system" /\ d.system)
    <3>1. ASSUME c.do \in {"userdel", "chpasswd", "lock", "unlock", "shell"}
          PROVE  Users!MayTouch(c)
      BY <1>1, <3>1
         DEF Users!Accepts, Users!CreateUser, Users!DeleteUser, Users!SetUserLocked,
             Users!SetUserShell, Users!SetUserGroups, Users!SetUserPassword, Users!CreateGroup,
             Users!DeleteGroup, Users!ChangeMember
    <3>2. account[c.user] \in Users!Entry \cup {None}
      BY <1>1 DEF HostInv, HostTypes, HostCommand
    <3>3. account[c.user] # None => account[c.user].uid \in {"root", "system", "normal"}
      BY <3>2 DEF Users!Entry
    <3> QED BY <1>2, <3>1, <3>3 DEF Users!MayTouch
  <2>2. d.do = "groupdel" => \A g \in d.groups : group[g] # None =>
              group[g].gid = "normal" \/ (group[g].gid = "system" /\ d.system)
    <3>1. c.do = "groupdel" => \A g \in c.groups :
              group[g].gid # "root" /\ (system \/ group[g].gid = "normal")
      BY <1>1
         DEF Users!Accepts, Users!CreateUser, Users!DeleteUser, Users!SetUserLocked,
             Users!SetUserShell, Users!SetUserGroups, Users!SetUserPassword, Users!CreateGroup,
             Users!DeleteGroup, Users!ChangeMember
    <3>2. \A g \in c.groups : group[g] # None => group[g].gid \in {"root", "system", "normal"}
      BY <1>1 DEF HostInv, HostTypes, HostCommand, Users!GroupEntry
    <3> QED BY <1>2, <3>1, <3>2
  <2>3. d.do \in {"useradd", "chpasswd"} /\ d.text # None => d.text.more = {}
    BY <1>1, <1>2
       DEF Users!Accepts, Users!CreateUser, Users!DeleteUser, Users!SetUserLocked,
           Users!SetUserShell, Users!SetUserGroups, Users!SetUserPassword, Users!CreateGroup,
           Users!DeleteGroup, Users!ChangeMember, Users!ValidPassword
  <2> QED BY <1>1, <1>2, <2>1, <2>2, <2>3 DEF Harmless
<1>4. /\ userJob'[h] = n /\ userJob' \in [Client -> HostRequest]
      /\ \A k \in Client \ {h} : userJob'[k].at = userJob[k].at /\ userJob'[k].cmd = userJob[k].cmd
  <2>1. userJob' = [o \in Client |-> IF o = h THEN n ELSE [userJob[o] EXCEPT !.ok = FALSE]]
    BY DEF Users!Submit
  <2>2. n \in HostRequest
    BY <1>2 DEF HostRequest, Users!Idle
  <2> HIDE DEF n
  <2>3. \A o \in Client : userJob[o] \in HostRequest
    BY DEF HostInv
  <2>4. ASSUME NEW o \in Client \ {h}
        PROVE  /\ userJob'[o] \in HostRequest
               /\ userJob'[o].at = userJob[o].at /\ userJob'[o].cmd = userJob[o].cmd
    BY <2>1, <2>3 DEF HostRequest
  <2>5. userJob'[h] = n
    BY <2>1
  <2>6. userJob' \in [Client -> HostRequest]
    BY <2>1, <2>2, <2>4, <2>5
  <2> QED BY <2>4, <2>5, <2>6
<1>5. Users!Command(h)' = d
  <2>1. userJob'[h].cmd = d /\ (userJob'[h].at = "chpasswd" => c.do = "chpasswd")
    BY <1>4 DEF Users!Idle
  <2>2. CASE userJob'[h].at = "chpasswd"
    <3>1. Users!Command(h)' = [d EXCEPT !.do = "chpasswd"]
      BY <2>1, <2>2 DEF Users!Command
    <3>2. d.do = "chpasswd" /\ d \in HostCommand
      BY <1>2, <2>1, <2>2
    <3> HIDE DEF d
    <3> QED BY ZenonT(30), <3>1, <3>2 DEF HostCommand
  <2>3. CASE userJob'[h].at # "chpasswd"
    BY <2>1, <2>3 DEF Users!Command
  <2> QED BY <2>2, <2>3
<1>6. HostTypes' /\ ClassesKept /\ UNCHANGED <<system, stray>>
  BY <1>1 DEF HostInv, HostTypes, ClassesKept
<1>7. Harmless(Users!Command(h))'
  BY <1>1, <1>3, <1>5 DEF Harmless
<1>8. userJob'[h].cmd \in HostCommand /\ (userJob'[h].at = "chpasswd" => userJob'[h].cmd.text # None)
  BY <1>1, <1>2, <1>4 DEF Users!Idle
<1> QED BY <1>4, <1>6, <1>7, <1>8, HostStep DEF HostInv

\* The request of h that is at work, and its end.
LEMMA HostWork ==
    ASSUME HostInv, NEW h \in Client, userJob[h].at # "idle"
    PROVE  /\ userJob[h] \in HostRequest /\ userJob[h].cmd \in HostCommand
           /\ Users!Command(h) \in HostCommand /\ Harmless(Users!Command(h))
           /\ Users!Command(h).system = userJob[h].cmd.system
           /\ Users!Command(h).user = userJob[h].cmd.user
           /\ Users!Command(h).text = userJob[h].cmd.text
           /\ HostTypes
BY CommandType DEF HostInv

LEMMA HostEnds ==
    ASSUME HostInv, NEW h \in Client, NEW ok \in BOOLEAN, Users!Ends(h, ok)
    PROVE  /\ userJob' \in [Client -> HostRequest] /\ userJob'[h].at = "idle"
           /\ \A k \in Client \ {h} : userJob'[k] = userJob[k]
<1>1. [Users!Idle EXCEPT !.ok = ok] \in HostRequest /\ [Users!Idle EXCEPT !.ok = ok].at = "idle"
  BY DEF Users!Idle, HostRequest
<1> QED BY <1>1 DEF Users!Ends, HostInv

LEMMA SucceedsHost == ASSUME HostInv, NEW h \in Client, Users!Succeeds(h) PROVE HostInv'
<1> DEFINE c == Users!Command(h)
<1>1. userJob[h].at # "idle" /\ Users!Effect(c) /\ UNCHANGED <<system, stray>>
  BY DEF Users!Succeeds
<1>2. /\ c \in HostCommand /\ Harmless(c) /\ userJob[h] \in HostRequest /\ HostTypes
      /\ userJob[h].cmd \in HostCommand /\ c.user = userJob[h].cmd.user
      /\ c.text = userJob[h].cmd.text
  BY <1>1, HostWork
<1> HIDE DEF c
<1>3. HostTypes' /\ ClassesKept
  BY <1>1, <1>2, EffectHost
<1>4. CASE Users!Ends(h, TRUE)
  BY <1>1, <1>3, <1>4, HostEnds, HostStep DEF HostInv
<1>5. CASE ~Users!Ends(h, TRUE)
  <2>1. c.do = "useradd" /\ userJob[h].cmd.text # None
        /\ userJob' = [userJob EXCEPT ![h].at = "chpasswd"]
    BY <1>5 DEF Users!Succeeds, c
  <2> DEFINE n == [userJob[h] EXCEPT !.at = "chpasswd"]
             d == [userJob[h].cmd EXCEPT !.do = "chpasswd"]
  <2>2. n \in HostRequest /\ n.at = "chpasswd" /\ n.cmd = userJob[h].cmd
    BY <1>2 DEF HostRequest
  <2>3. userJob' = [userJob EXCEPT ![h] = n] /\ userJob \in [Client -> HostRequest]
    BY <2>1 DEF HostInv
  <2>4. PICK e \in HostCommand :
            e = d /\ e.do = "chpasswd" /\ e.user = c.user /\ e.text = c.text
    <3>1. d \in HostCommand /\ d.do = "chpasswd" /\ d.user = c.user /\ d.text = c.text
      BY <1>2 DEF HostCommand
    <3> HIDE DEF d
    <3> QED BY <3>1
  <2> HIDE DEF n
  <2>5. userJob'[h] = n /\ \A k \in Client \ {h} : userJob'[k] = userJob[k]
    BY <2>3
  <2>6. Users!Command(h)' = e
    BY <2>2, <2>4, <2>5 DEF Users!Command
  <2>7. account'[c.user] # None => account'[c.user].uid = "normal"
    BY <1>1, <1>2, <2>1, EffectAccounts
  <2>8. Harmless(Users!Command(h))'
    <3>1. c.text # None /\ c.text.more = {}
      BY <1>2, <2>1 DEF Harmless
    <3>2. Harmless(e)'
      BY <2>4, <2>7, <3>1 DEF Harmless
    <3> QED BY <2>6, <3>2 DEF Harmless
  <2>9. userJob' \in [Client -> HostRequest]
    BY <2>2, <2>3
  <2> QED BY <1>1, <1>2, <1>3, <2>1, <2>2, <2>5, <2>8, <2>9, HostStep DEF HostInv
<1> QED BY <1>4, <1>5

LEMMA FailsHost ==
    ASSUME HostInv, NEW h \in Client, Users!CommandFails(h) \/ Users!CommandTimesOut(h)
    PROVE  HostInv'
<1>1. /\ userJob[h].at # "idle" /\ UNCHANGED system
      /\ stray' \subseteq stray \cup {Users!Command(h)}
      /\ Users!Effect(Users!Command(h)) \/ UNCHANGED <<account, group>>
  BY DEF Users!CommandFails, Users!CommandTimesOut, Users!Fails, Users!HalfDone, Users!Effect
<1>2. HostTypes' /\ ClassesKept
  BY <1>1, HostWork, EffectHost
<1>3. /\ Users!Command(h) \in HostCommand /\ Harmless(Users!Command(h))
      /\ userJob[h] \in HostRequest /\ userJob[h].cmd \in HostCommand
  BY <1>1, HostWork
<1>4. stray' \subseteq HostCommand /\ \A c \in stray' : c \in stray \/ Harmless(c)'
  BY <1>1, <1>2, <1>3, HarmlessKept DEF HostInv
<1>5. CASE Users!Ends(h, Users!AllWell(h))
  <2>1. Users!AllWell(h) \in BOOLEAN
    BY DEF Users!AllWell
  <2> QED BY <1>1, <1>2, <1>4, <1>5, <2>1, HostEnds, HostStep DEF HostInv
<1>6. CASE userJob[h].at = "self" /\ userJob' = [userJob EXCEPT ![h].at = "sudo"]
  <2>1. /\ userJob' \in [Client -> HostRequest] /\ userJob'[h].at = "sudo"
        /\ userJob'[h].cmd = userJob[h].cmd
        /\ \A k \in Client \ {h} : userJob'[k] = userJob[k]
    BY <1>3, <1>6 DEF HostInv, HostRequest
  <2>2. Users!Command(h)' = Users!Command(h)
    BY <1>6, <2>1 DEF Users!Command
  <2>3. Harmless(Users!Command(h))'
    BY <1>2, <1>3, <2>2, HarmlessKept DEF Harmless
  <2> QED BY <1>1, <1>2, <1>3, <1>4, <2>1, <2>3, HostStep DEF HostInv
<1> QED BY <1>5, <1>6 DEF Users!CommandFails, Users!CommandTimesOut, Users!Fails

\* A command left behind, and the settings.
LEMMA ElsewhereHost ==
    ASSUME HostInv,
           (\E c \in stray : Users!StrayEnds(c)) \/ Users!SettingsChange \/ UNCHANGED usersVars
    PROVE  HostInv'
<1>1. UNCHANGED userJob /\ stray' \subseteq stray /\ system' \in BOOLEAN
  BY DEF Users!StrayEnds, Users!SettingsChange, usersVars, HostInv
<1>2. HostTypes' /\ ClassesKept
  <2>1. \/ \E c \in stray : Users!Effect(c)
        \/ UNCHANGED <<account, group>>
    BY DEF Users!StrayEnds, Users!SettingsChange, usersVars
  <2>2. ASSUME NEW c \in stray, Users!Effect(c) PROVE HostTypes' /\ ClassesKept
    BY <2>2, EffectHost DEF HostInv
  <2>3. CASE UNCHANGED <<account, group>>
    BY <2>3 DEF HostInv, HostTypes, ClassesKept
  <2> QED BY <2>1, <2>2, <2>3
<1>3. \A c \in HostCommand : Harmless(c) => Harmless(c)'
  BY <1>2, HarmlessKept
<1>4. ASSUME NEW h \in Client, userJob[h].at # "idle"
      PROVE  Harmless(Users!Command(h))'
  <2>1. Users!Command(h)' = Users!Command(h)
    BY <1>1 DEF Users!Command
  <2>2. Harmless(Users!Command(h)) /\ Users!Command(h) \in HostCommand
    BY <1>4, HostWork
  <2> QED BY <1>3, <2>1, <2>2 DEF Harmless
<1> QED BY <1>1, <1>2, <1>3, <1>4 DEF HostInv

LEMMA NextHost == HostInv /\ (Users!Next \/ UNCHANGED usersVars) => HostInv'
BY SubmitHost, SucceedsHost, FailsHost, ElsewhereHost DEF Users!Next

LEMMA InitHost == PanelInit => HostInv
<1> SUFFICES ASSUME PanelInit PROVE HostInv
  OBVIOUS
<1>1. Users!InitWith("root", "daemon", "adm", "bash")
  BY DEF PanelInit
<1>2. HostTypes
  <2>1. /\ \A u \in OsUser : account[u] \in Users!Entry \cup {None}
        /\ account = [u \in OsUser |-> account[u]]
    BY <1>1, UsersAssumption DEF Users!InitWith, Users!Entry
  <2>2. /\ \A g \in OsGroup : group[g] \in Users!GroupEntry \cup {None}
        /\ group = [g \in OsGroup |-> group[g]]
    BY <1>1, UsersAssumption DEF Users!InitWith, Users!GroupEntry
  <2> QED BY <2>1, <2>2 DEF HostTypes
<1>3. Users!Idle \in HostRequest /\ Users!Idle.at = "idle"
  BY DEF Users!Idle, HostRequest
<1> QED BY <1>1, <1>2, <1>3 DEF Users!InitWith, HostInv

LEMMA PanelHostInv == PanelSpec => []HostInv
<1>1. HostInv /\ [PanelNext]_panelVars => HostInv'
  BY NextHost, PanelMovesUsers
<1> QED BY <1>1, InitHost, PTL DEF PanelSpec, panelVars

ProtectedStep ==
    /\ \A u \in OsUser :
            account[u] # None /\ account'[u] # account[u] =>
                \/ account[u].uid = "normal"
                \/ account[u].uid = "system" /\ \E c \in Users!InHand : Users!LetAt(c, u)
    /\ \A g \in OsGroup :
            group[g] # None /\ group'[g] = None =>
                \/ group[g].gid = "normal"
                \/ /\ group[g].gid = "system"
                   /\ \E c \in Users!InHand : c.system /\ c.do = "groupdel" /\ g \in c.groups

\* A command in hand accounts for what it does.
LEMMA InHandProtected ==
    ASSUME HostTypes, NEW c \in Users!InHand, c \in HostCommand, Harmless(c),
           Users!Effect(c) \/ UNCHANGED <<account, group>>
    PROVE  ProtectedStep
BY EffectHost DEF ProtectedStep, Removable

LEMMA NextProtected == HostInv /\ [PanelNext]_panelVars => [ProtectedStep]_(Users!vars)
<1> SUFFICES ASSUME HostInv, Users!Next \/ UNCHANGED usersVars PROVE ProtectedStep
  BY PanelMovesUsers
<1>1. ASSUME NEW h \in Client, Users!Succeeds(h) \/ Users!CommandFails(h)
      PROVE  ProtectedStep
  <2>1. /\ userJob[h].at # "idle"
        /\ Users!Effect(Users!Command(h)) \/ UNCHANGED <<account, group>>
    BY <1>1 DEF Users!Succeeds, Users!CommandFails, Users!Fails, Users!HalfDone, Users!Effect
  <2>2. Users!Command(h) \in Users!InHand
    BY <2>1 DEF Users!InHand
  <2> QED BY <2>1, <2>2, HostWork, InHandProtected
<1>2. ASSUME NEW c \in stray, Users!StrayEnds(c) PROVE ProtectedStep
  <2>1. c \in Users!InHand /\ c \in HostCommand /\ Harmless(c) /\ HostTypes
    BY DEF Users!InHand, HostInv
  <2>2. Users!Effect(c) \/ UNCHANGED <<account, group>>
    BY <1>2 DEF Users!StrayEnds
  <2> QED BY <2>1, <2>2, InHandProtected
<1>3. CASE UNCHANGED <<account, group>>
  BY <1>3 DEF ProtectedStep
<1>4. ASSUME NEW h \in Client,
             \/ \E c \in OsAsked : Users!Submit(h, c)
             \/ Users!CommandTimesOut(h)
      PROVE  UNCHANGED <<account, group>>
  BY <1>4 DEF Users!Submit, Users!CommandTimesOut
<1>5. Users!SettingsChange \/ UNCHANGED usersVars => UNCHANGED <<account, group>>
  BY DEF Users!SettingsChange, usersVars
<1> QED BY <1>1, <1>2, <1>3, <1>4, <1>5 DEF Users!Next

\* users.py: no request changes the account of root or removes its group; a system
\* account is changed or removed, and a system group removed, only by a request for
\* that account or group which the settings allowed when it came, however late its
\* command runs and whatever else goes on.  (Who is a member of a system group is
\* guarded by nothing in the code, and not claimed.)
THEOREM PanelProtectedStay == PanelSpec => ProtectedStay
<1> QED BY NextProtected, PanelHostInv, PTL
        DEF PanelSpec, panelVars, ProtectedStay, Users!ProtectedStay, ProtectedStep

-----------------------------------------------------------------------------
(***************************************************************************)
(* What a request alone on the host finds done when it is answered ok.     *)
(* The commands it gave up are its own, so that what they may still do is  *)
(* what it asked for; and once useradd has made the account, a useradd     *)
(* that was left behind finds it there and does nothing.                   *)
(***************************************************************************)
\* The account is there, with its shell and its groups.
Joined(c) ==
    /\ account[c.user] # None /\ account[c.user].shell = c.shell
    /\ \A g \in c.groups : group[g] # None /\ c.user \in group[g].members

HostLoneInv ==
    /\ userSole \subseteq Client
    /\ \A h \in Client : userJob[h].at = "chpasswd" => userJob[h].cmd.do \in {"chpasswd", "useradd"}
    /\ \A h \in userSole :
          /\ userJob[h].at # "idle" /\ \A o \in Client \ {h} : userJob[o].at = "idle"
          /\ stray \subseteq {userJob[h].cmd}
          /\ userJob[h].at = "chpasswd" /\ userJob[h].cmd.do = "useradd" => Joined(userJob[h].cmd)

LEMMA MembersExactly ==
    ASSUME HostTypes, NEW u \in OsUser, NEW gs \in SUBSET OsGroup, Users!MemberOf(u, gs)
    PROVE  \A g \in OsGroup :
              /\ group'[g] = None <=> group[g] = None
              /\ group'[g] # None => (u \in group'[g].members <=> g \in gs)
<1>1. group' = [g \in OsGroup |->
          IF group[g] = None THEN None
          ELSE [group[g] EXCEPT !.members = (@ \ {u}) \cup (IF g \in gs THEN {u} ELSE {})]]
  BY DEF Users!MemberOf
<1>2. ASSUME NEW g \in OsGroup, group[g] # None
      PROVE  u \in group'[g].members <=> g \in gs
  BY <1>1, <1>2 DEF HostTypes, Users!GroupEntry
<1> QED BY <1>2, MemberGroups

LEMMA UserAddJoins ==
    ASSUME HostTypes, NEW c \in HostCommand, Users!UserAdd(c)
    PROVE  Joined(c)'
<1>1. c.user \in OsUser /\ c.shell \in OsShell /\ c.groups \in SUBSET OsGroup
  BY DEF HostCommand
<1>2. PICK e \in Users!Entry : e.shell = c.shell /\ account' = [account EXCEPT ![c.user] = e]
  BY <1>1 DEF Users!UserAdd, Users!Entry
<1>3. account'[c.user] = e /\ e # None
  BY <1>1, <1>2, UsersAssumption DEF HostTypes
<1>4. \A g \in c.groups : group'[g] # None /\ c.user \in group'[g].members
  BY <1>1, MembersExactly DEF Users!UserAdd
<1> QED BY <1>2, <1>3, <1>4 DEF Joined

\* The commands do what an answer ok says of them.
LEMMA EffectHolds ==
    ASSUME HostTypes, NEW c \in HostCommand, Harmless(c), Users!Effect(c),
           c.do = "useradd" => c.text = None
    PROVE  Users!Holds(c)'
<1>0. /\ c.user \in OsUser /\ c.groups \in SUBSET OsGroup /\ c.shell \in OsShell
      /\ account \in [OsUser -> Users!Entry \cup {None}]
      /\ group \in [OsGroup -> Users!GroupEntry \cup {None}]
      /\ None \notin Users!Entry /\ None \notin Users!GroupEntry
  BY UsersAssumption DEF HostCommand, HostTypes
<1>1. CASE c.do = "useradd" /\ Users!UserAdd(c)
  BY <1>0, <1>1, UserAddJoins DEF Joined, Users!Holds
<1>2. CASE c.do = "userdel" /\ Users!UserDel(c)
  <2>1. account'[c.user] = None
    BY <1>0, <1>2 DEF Users!UserDel
  <2>2. \A g \in OsGroup : group'[g] # None => c.user \notin group'[g].members
    BY <1>0, <1>2, MembersExactly DEF Users!UserDel
  <2> QED BY <1>2, <2>1, <2>2 DEF Users!Holds
<1>3. CASE c.do = "chpasswd" /\ Users!Chpasswd(c)
  <2>1. account[c.user] # None
        /\ account'[c.user] = [account[c.user] EXCEPT !.pwd = c.text.pwd, !.locked = FALSE]
    BY <1>3, ChpasswdOne
  <2>2. account'[c.user].pwd = c.text.pwd /\ ~account'[c.user].locked
    BY <1>0, <2>1 DEF Users!Entry
  <2> QED BY <1>3, <2>2 DEF Users!Holds
<1>4. CASE Users!UserMod(c)
  <2>1. account[c.user] \in Users!Entry
    BY <1>0, <1>4 DEF Users!UserMod, Users!Exists
  <2>2. CASE c.do = "lock"
    <3>1. account' = [account EXCEPT ![c.user] = [account[c.user] EXCEPT !.locked = TRUE]]
      BY <1>4, <2>2 DEF Users!UserMod
    <3>2. account'[c.user].locked
      BY <1>0, <2>1, <3>1 DEF Users!Entry
    <3> QED BY <2>2, <3>2 DEF Users!Holds
  <2>3. CASE c.do = "unlock"
    <3>1. account' = [account EXCEPT ![c.user] =
                        [account[c.user] EXCEPT !.locked = (account[c.user].pwd = None)]]
      BY <1>4, <2>3 DEF Users!UserMod
    <3>2. ~account'[c.user].locked \/ account'[c.user].pwd = None
      BY <1>0, <2>1, <3>1 DEF Users!Entry
    <3> QED BY <2>3, <3>2 DEF Users!Holds
  <2>4. CASE c.do = "shell"
    <3>1. account' = [account EXCEPT ![c.user] = [account[c.user] EXCEPT !.shell = c.shell]]
      BY <1>4, <2>4 DEF Users!UserMod
    <3>2. account'[c.user].shell = c.shell
      BY <1>0, <2>1, <3>1 DEF Users!Entry
    <3> QED BY <2>4, <3>2 DEF Users!Holds
  <2>5. CASE c.do = "groups"
    <3>1. Users!MemberOf(c.user, c.groups) /\ \A g \in c.groups : group[g] # None
      BY <1>4, <2>5 DEF Users!UserMod
    <3>2. \A g \in OsGroup :
              group'[g] # None /\ c.user \in group'[g].members <=> g \in c.groups
      BY <1>0, <3>1, MembersExactly
    <3>3. {g \in OsGroup : group'[g] # None /\ c.user \in group'[g].members} = c.groups
      BY <1>0, <3>2
    <3> QED BY <2>5, <3>3 DEF Users!Holds
  <2> QED BY <1>4, <2>2, <2>3, <2>4, <2>5 DEF Users!UserMod
<1>5. CASE Users!GroupCommand(c)
  <2>1. CASE c.do = "groupadd"
    <3>1. \A g \in c.groups : group'[g] = [gid |-> "normal", members |-> {}]
      BY <1>0, <1>5, <2>1 DEF Users!GroupCommand
    <3>2. [gid |-> "normal", members |-> {}] \in Users!GroupEntry
      BY DEF Users!GroupEntry
    <3>3. \A g \in c.groups : group'[g] # None
      BY <1>0, <3>1, <3>2
    <3> QED BY <2>1, <3>3 DEF Users!Holds
  <2>2. CASE c.do = "groupdel"
    <3>1. \A g \in c.groups : group'[g] = None
      BY <1>0, <1>5, <2>2 DEF Users!GroupCommand
    <3> QED BY <2>2, <3>1 DEF Users!Holds
  <2>3. CASE c.do \in {"gpasswd -a", "gpasswd -d"}
    <3>1. ASSUME NEW g \in c.groups
          PROVE  group'[g] = [group[g] EXCEPT !.members =
                     IF c.do = "gpasswd -a" THEN @ \cup {c.user} ELSE @ \ {c.user}]
                 /\ group[g] # None
      BY <1>0, <1>5, <2>3 DEF Users!GroupCommand
    <3>2. ASSUME NEW g \in c.groups
          PROVE  /\ group'[g] \in Users!GroupEntry
                 /\ c.do = "gpasswd -a" => c.user \in group'[g].members
                 /\ c.do = "gpasswd -d" => c.user \notin group'[g].members
      <4>1. group[g] \in Users!GroupEntry
        BY <1>0, <3>1
      <4>2. CASE c.do = "gpasswd -a"
        <5>1. group'[g] = [group[g] EXCEPT !.members = group[g].members \cup {c.user}]
          BY <3>1, <4>2
        <5>2. group'[g] \in Users!GroupEntry
          <6>1. c.user \in OsUser
            BY <1>0, <4>2
          <6>2. group[g].gid \in {"root", "system", "normal"} /\ group[g].members \cup {c.user} \in SUBSET OsUser
            BY <4>1, <6>1 DEF Users!GroupEntry
          <6>3. group'[g] = [gid |-> group[g].gid, members |-> group[g].members \cup {c.user}]
            BY <4>1, <5>1 DEF Users!GroupEntry
          <6> QED BY <6>2, <6>3 DEF Users!GroupEntry
        <5>3. c.user \in group'[g].members
          BY <4>1, <5>1 DEF Users!GroupEntry
        <5> QED BY <4>2, <5>2, <5>3
      <4>3. CASE c.do = "gpasswd -d"
        <5>1. group'[g] = [group[g] EXCEPT !.members = group[g].members \ {c.user}]
          BY <3>1, <4>3
        <5> QED BY <1>0, <4>1, <4>3, <5>1 DEF Users!GroupEntry
      <4> QED BY <2>3, <4>2, <4>3
    <3>3. \A g \in c.groups : group'[g] # None
      BY <1>0, <3>2
    <3>4. CASE c.do = "gpasswd -a"
      BY <1>0, <3>2, <3>3, <3>4 DEF Users!Holds
    <3>5. CASE c.do = "gpasswd -d"
      BY <1>0, <3>2, <3>3, <3>5 DEF Users!Holds
    <3> QED BY <2>3, <3>4, <3>5
  <2> QED BY <1>5, <2>1, <2>2, <2>3 DEF Users!GroupCommand
<1> QED BY <1>1, <1>2, <1>3, <1>4, <1>5 DEF Users!Effect

\* chpasswd completes what useradd began.
LEMMA PasswordHolds ==
    ASSUME HostTypes, NEW c \in HostCommand, c.do = "useradd", c.text # None, Joined(c),
           NEW e \in HostCommand, e = [c EXCEPT !.do = "chpasswd"], Harmless(e), Users!Effect(e)
    PROVE  Users!Holds(c)'
<1>1. e.do = "chpasswd" /\ e.user = c.user /\ e.text = c.text /\ c.user \in OsUser
  BY DEF HostCommand
<1>2. Users!Chpasswd(e)
  BY <1>1 DEF Users!Effect, Users!UserMod, Users!GroupCommand
<1>3. /\ account'[c.user] = [account[c.user] EXCEPT !.pwd = c.text.pwd, !.locked = FALSE]
      /\ account[c.user] # None /\ UNCHANGED group
  BY <1>1, <1>2, ChpasswdOne DEF Users!Chpasswd
<1>4. account[c.user] \in Users!Entry
  BY <1>1, <1>3 DEF HostTypes
<1>5. /\ account'[c.user].pwd = c.text.pwd /\ ~account'[c.user].locked
      /\ account'[c.user].shell = c.shell /\ account'[c.user] \in Users!Entry
  <2>1. account[c.user].shell = c.shell
    BY DEF Joined
  <2>2. c.text.pwd \in Users!Pwd
    BY DEF HostCommand, Users!Pwd
  <2> QED BY <1>3, <1>4, <2>1, <2>2 DEF Users!Entry
<1>6. account'[c.user] # None
  BY <1>5, UsersAssumption
<1>7. c.groups \subseteq {g \in OsGroup : group'[g] # None /\ c.user \in group'[g].members}
  BY <1>3 DEF Joined, HostCommand
<1> QED BY <1>5, <1>6, <1>7 DEF Users!Holds

LEMMA SubmitLone ==
    ASSUME HostInv, HostLoneInv, NEW h \in Client, NEW c \in OsAsked, Users!Submit(h, c)
    PROVE  HostLoneInv'
<1>1. /\ c \in HostCommand /\ userJob[h].at = "idle" /\ UNCHANGED stray
      /\ userSole' \in SUBSET {h}
      /\ userSole' # {} => stray = {} /\ \A o \in Client : userJob[o].at = "idle"
  BY UsersAssumption DEF HostCommand, Users!Submit
<1>2. PICK d \in HostCommand : d = [c EXCEPT !.system = system] /\ d.do = c.do
  <2>1. [c EXCEPT !.system = system] \in HostCommand /\ [c EXCEPT !.system = system].do = c.do
    BY <1>1 DEF HostCommand, HostInv
  <2> QED BY <2>1
<1>3. /\ userJob'[h].at = IF c.do = "chpasswd" THEN "chpasswd" ELSE "self"
      /\ userJob'[h].cmd = d
  <2>1. userJob'[h] = [Users!Idle EXCEPT !.at = IF c.do = "chpasswd" THEN "chpasswd" ELSE "self",
                                         !.cmd = d]
    BY <1>2 DEF Users!Submit
  <2> QED BY <2>1 DEF Users!Idle
<1>4. ASSUME NEW o \in Client, o # h
      PROVE  userJob'[o].at = userJob[o].at /\ userJob'[o].cmd = userJob[o].cmd
  <2>1. userJob'[o] = [userJob[o] EXCEPT !.ok = FALSE] /\ userJob[o] \in HostRequest
    BY <1>4 DEF Users!Submit, HostInv
  <2> QED BY <2>1 DEF HostRequest
<1>5. \A o \in Client :
          userJob'[o].at = "chpasswd" => userJob'[o].cmd.do \in {"chpasswd", "useradd"}
  BY <1>2, <1>3, <1>4 DEF HostLoneInv
<1>6. ASSUME NEW s \in userSole'
      PROVE  /\ userJob'[s].at # "idle" /\ \A o \in Client \ {s} : userJob'[o].at = "idle"
             /\ stray' \subseteq {userJob'[s].cmd}
             /\ ~ (userJob'[s].at = "chpasswd" /\ userJob'[s].cmd.do = "useradd")
  BY <1>1, <1>2, <1>3, <1>4
<1> QED BY <1>1, <1>5, <1>6 DEF HostLoneInv

\* An end, or another try: who was alone still is, or has ended.
LEMMA EndsLone ==
    ASSUME HostInv, HostLoneInv, NEW h \in Client, userJob[h].at # "idle",
           NEW ok \in BOOLEAN, Users!Ends(h, ok)
    PROVE  HostLoneInv'
<1>1. /\ userJob'[h].at = "idle" /\ \A k \in Client \ {h} : userJob'[k] = userJob[k]
      /\ userSole' = userSole \ {h}
  BY HostEnds DEF Users!Ends
<1>2. userSole' = {}
  BY <1>1 DEF HostLoneInv
<1> QED BY <1>1, <1>2 DEF HostLoneInv

LEMMA SucceedsLone ==
    ASSUME HostInv, HostLoneInv, NEW h \in Client, Users!Succeeds(h)
    PROVE  HostLoneInv'
<1>1. userJob[h].at # "idle" /\ Users!Effect(Users!Command(h)) /\ UNCHANGED stray
  BY DEF Users!Succeeds
<1>2. CASE Users!Ends(h, TRUE)
  BY <1>1, <1>2, EndsLone
<1>3. CASE ~Users!Ends(h, TRUE)
  <2>1. /\ Users!Command(h).do = "useradd" /\ UNCHANGED userSole
        /\ userJob' = [userJob EXCEPT ![h].at = "chpasswd"]
    BY <1>3 DEF Users!Succeeds
  <2>2. userJob[h] \in HostRequest /\ userJob[h].cmd \in HostCommand /\ HostTypes
    BY <1>1, HostWork
  <2>3. userJob[h].at # "chpasswd" /\ Users!Command(h) = userJob[h].cmd
    <3>1. userJob[h].at = "chpasswd" => Users!Command(h).do = "chpasswd"
      BY <2>2 DEF Users!Command, HostCommand
    <3> QED BY <2>1, <3>1 DEF Users!Command
  <2>4. /\ userJob'[h].at = "chpasswd" /\ userJob'[h].cmd = userJob[h].cmd
        /\ \A k \in Client \ {h} : userJob'[k] = userJob[k]
    BY <2>1, <2>2 DEF HostInv, HostRequest
  <2>5. PICK c \in HostCommand : c = userJob[h].cmd /\ c.do = "useradd" /\ Users!UserAdd(c)
    BY <1>1, <2>1, <2>2, <2>3 DEF Users!Effect, Users!UserMod, Users!GroupCommand
  <2>6. Joined(c)'
    BY <2>2, <2>5, UserAddJoins
  <2>7. Joined(userJob[h].cmd)'
    BY <2>4, <2>5, <2>6 DEF Joined
  <2>8. \A s \in userSole : s = h
    BY <1>1 DEF HostLoneInv
  <2>9. \A o \in Client :
            userJob'[o].at = "chpasswd" => userJob'[o].cmd.do \in {"chpasswd", "useradd"}
    BY <2>4, <2>5 DEF HostLoneInv
  <2> QED BY <1>1, <2>1, <2>4, <2>7, <2>8, <2>9 DEF HostLoneInv
<1> QED BY <1>2, <1>3

LEMMA FailsLone ==
    ASSUME HostInv, HostLoneInv, NEW h \in Client, Users!CommandFails(h) \/ Users!CommandTimesOut(h)
    PROVE  HostLoneInv'
<1>1. /\ userJob[h].at # "idle" /\ UNCHANGED system
      /\ stray' \subseteq stray \cup {Users!Command(h)}
  BY DEF Users!CommandFails, Users!CommandTimesOut, Users!Fails
<1>2. CASE Users!Ends(h, Users!AllWell(h))
  BY <1>1, <1>2, EndsLone DEF Users!AllWell
<1>3. CASE /\ userJob[h].at = "self" /\ userJob' = [userJob EXCEPT ![h].at = "sudo"]
           /\ UNCHANGED userSole
  <2>1. /\ userJob'[h].at = "sudo" /\ userJob'[h].cmd = userJob[h].cmd
        /\ \A k \in Client \ {h} : userJob'[k] = userJob[k]
    BY <1>1, <1>3, HostWork DEF HostInv, HostRequest
  <2>2. Users!Command(h) = userJob[h].cmd
    BY <1>3 DEF Users!Command
  <2>3. \A s \in userSole : s = h
    BY <1>1 DEF HostLoneInv
  <2> QED BY <1>1, <1>3, <2>1, <2>2, <2>3 DEF HostLoneInv
<1> QED BY <1>2, <1>3 DEF Users!CommandFails, Users!CommandTimesOut, Users!Fails

LEMMA ElsewhereLone ==
    ASSUME HostInv, HostLoneInv,
           (\E c \in stray : Users!StrayEnds(c)) \/ Users!SettingsChange \/ UNCHANGED usersVars
    PROVE  HostLoneInv'
<1>1. UNCHANGED <<userJob, userSole>> /\ stray' \subseteq stray
  BY DEF Users!StrayEnds, Users!SettingsChange, usersVars
<1>2. ASSUME NEW h \in userSole, userJob[h].at = "chpasswd", userJob[h].cmd.do = "useradd"
      PROVE  Joined(userJob[h].cmd)'
  <2>1. Joined(userJob[h].cmd)
    BY <1>2 DEF HostLoneInv
  <2>2. ~Users!Effect(userJob[h].cmd)
    BY <1>2, <2>1 DEF Joined, Users!Effect, Users!UserAdd, Users!Exists, Users!UserMod,
       Users!GroupCommand
  <2>3. UNCHANGED <<account, group>>
    BY <2>2 DEF HostLoneInv, Users!StrayEnds, Users!SettingsChange, usersVars
  <2> QED BY <1>1, <2>1, <2>3 DEF Joined
<1> QED BY <1>1, <1>2 DEF HostLoneInv

LEMMA NextLone == HostInv /\ HostLoneInv /\ (Users!Next \/ UNCHANGED usersVars) => HostLoneInv'
BY SubmitLone, SucceedsLone, FailsLone, ElsewhereLone DEF Users!Next

LEMMA PanelLoneInv == PanelSpec => []HostLoneInv
<1>1. PanelInit => HostLoneInv
  <2> SUFFICES ASSUME PanelInit PROVE HostLoneInv
    OBVIOUS
  <2>1. userSole = {} /\ \A h \in Client : userJob[h].at = "idle"
    BY DEF PanelInit, Users!InitWith, Users!Idle
  <2> QED BY <2>1 DEF HostLoneInv
<1>2. HostInv /\ HostLoneInv /\ [PanelNext]_panelVars => HostLoneInv'
  BY NextLone, PanelMovesUsers
<1> QED BY <1>1, <1>2, PanelHostInv, PTL DEF PanelSpec, panelVars

LoneStep ==
    \A h \in userSole : \A c \in OsAsked :
        /\ userJob[h].at # "idle" /\ userJob'[h].at = "idle" /\ userJob'[h].ok
        /\ userJob[h].cmd = [c EXCEPT !.system = userJob[h].cmd.system]
        => Users!Holds(c)'

LEMMA NextAnswers == HostInv /\ HostLoneInv /\ [PanelNext]_panelVars => [LoneStep]_(Users!vars)
<1> SUFFICES ASSUME HostInv, HostLoneInv, Users!Next \/ UNCHANGED usersVars,
                    NEW h \in userSole, NEW c \in OsAsked,
                    userJob[h].at # "idle", userJob'[h].at = "idle", userJob'[h].ok,
                    userJob[h].cmd = [c EXCEPT !.system = userJob[h].cmd.system]
             PROVE  Users!Holds(c)'
  BY PanelMovesUsers DEF LoneStep
<1>1. h \in Client /\ \A o \in Client \ {h} : userJob[o].at = "idle"
  BY DEF HostLoneInv
<1>2. /\ userJob[h] \in HostRequest /\ userJob[h].cmd \in HostCommand /\ HostTypes
      /\ Users!Command(h) \in HostCommand /\ Harmless(Users!Command(h))
  BY <1>1, HostWork
<1>3. PICK d \in HostCommand :
          /\ d = userJob[h].cmd /\ d.do = c.do /\ d.user = c.user /\ d.shell = c.shell
          /\ d.text = c.text /\ d.groups = c.groups
  <2>1. c \in HostCommand
    BY UsersAssumption DEF HostCommand
  <2> QED BY <1>2, <2>1 DEF HostCommand
<1>4. SUFFICES Users!Holds(d)'
  BY ZenonT(30), <1>3 DEF Users!Holds
<1>5. Users!Succeeds(h) /\ Users!Ends(h, TRUE)
  <2>1. ASSUME NEW o \in Client, NEW a \in OsAsked, Users!Submit(o, a) PROVE FALSE
    <3>1. o # h
      BY <2>1 DEF Users!Submit
    <3>2. userJob'[h] = [userJob[h] EXCEPT !.ok = FALSE]
      BY <1>1, <2>1, <3>1 DEF Users!Submit
    <3> QED BY <1>2, <3>2 DEF HostRequest
  <2>2. ASSUME NEW o \in Client, Users!CommandFails(o) \/ Users!CommandTimesOut(o) PROVE FALSE
    <3>1. o = h
      BY <1>1, <2>2 DEF Users!CommandFails, Users!CommandTimesOut, Users!Fails
    <3>2. \/ userJob' = [userJob EXCEPT ![h].at = "sudo"]
          \/ userJob' = [userJob EXCEPT ![h] = [Users!Idle EXCEPT !.ok = FALSE]]
      BY <2>2, <3>1 DEF Users!CommandFails, Users!CommandTimesOut, Users!Fails, Users!Ends,
         Users!AllWell
    <3>3. userJob'[h].at = "sudo" \/ userJob'[h].ok = FALSE
      BY <1>1, <1>2, <3>2 DEF HostInv, HostRequest, Users!Idle
    <3> QED BY <3>3
  <2>3. ASSUME UNCHANGED userJob PROVE FALSE
    BY <2>3
  <2>4. PICK o \in Client : Users!Succeeds(o)
    BY <2>1, <2>2, <2>3 DEF Users!Next, Users!StrayEnds, Users!SettingsChange, usersVars
  <2>5. o = h
    BY <1>1, <2>4 DEF Users!Succeeds
  <2>6. userJob' # [userJob EXCEPT ![h].at = "chpasswd"]
    BY <1>1, <1>2 DEF HostInv, HostRequest
  <2> QED BY <2>4, <2>5, <2>6 DEF Users!Succeeds
<1>6. /\ Users!Effect(Users!Command(h))
      /\ ~(Users!Command(h).do = "useradd" /\ d.text # None)
  <2>1. ~(userJob' = [userJob EXCEPT ![h].at = "chpasswd"])
    BY <1>1, <1>2 DEF HostInv, HostRequest
  <2> QED BY <1>3, <1>5, <2>1 DEF Users!Succeeds
<1>7. CASE userJob[h].at # "chpasswd"
  <2>1. Users!Command(h) = d
    BY <1>3, <1>7 DEF Users!Command
  <2> QED BY <1>2, <1>6, <2>1, EffectHolds
<1>8. CASE userJob[h].at = "chpasswd"
  <2>1. PICK e \in HostCommand : e = Users!Command(h) /\ e = [d EXCEPT !.do = "chpasswd"]
    BY <1>2, <1>3, <1>8 DEF Users!Command
  <2>2. CASE d.do = "chpasswd"
    <3>1. e = d
      BY ZenonT(30), <2>1, <2>2 DEF HostCommand
    <3> QED BY <1>2, <1>6, <2>1, <2>2, <3>1, EffectHolds
  <2>3. CASE d.do = "useradd"
    <3>1. Joined(d) /\ d.text # None
      BY <1>1, <1>3, <1>8, <2>3 DEF HostLoneInv, HostInv
    <3> QED BY <1>2, <1>6, <2>1, <2>3, <3>1, PasswordHolds
  <2> QED BY <1>1, <1>3, <1>8, <2>2, <2>3 DEF HostLoneInv
<1> QED BY <1>7, <1>8

\* users.py: a request that had nothing else beside it and is answered ok, without a
\* warning, has done all of it, the commands it gave up and repeated included.
THEOREM PanelLoneUserAnswersHold == PanelSpec => LoneUserAnswersHold
<1> QED BY NextAnswers, PanelHostInv, PanelLoneInv, PTL
        DEF PanelSpec, panelVars, LoneUserAnswersHold, Users!LoneAnswersHold, LoneStep

-----------------------------------------------------------------------------
(***************************************************************************)
(* A jail of fail2ban.  The state is typed; and the request that has had no *)
(* other beside it still finds what it found when it came, as far as it has *)
(* not changed it itself.                                                  *)
(***************************************************************************)
LEMMA PanelMovesJail == [PanelNext]_panelVars => Jail!Next \/ UNCHANGED jailVars
BY DEF PanelNext, panelVars

JailWant == [Jail!Param -> JailValue \cup {None}]

JailRequest ==
    [at : {"idle", "set", "fetch", "write", "reload", "unit"},
     op : {"none", "params", "add", "del", "reload", "install", "start", "stop", "restart"},
     want : JailWant, done : SUBSET Jail!Param, persist : BOOLEAN,
     addr : JailCidr \cup {None}, fetched : BOOLEAN, text : Jail!DropIn \cup {None},
     before : [runtime : Jail!Jail, dropin : Jail!DropIn] \cup {None}, kept : BOOLEAN]

\* The parameters a request has still to set.
Todo(j) == {p \in Jail!Param : j.want[p] # None} \ j.done

JailTypes ==
    /\ service \in {"absent", "stopped", "running"}
    /\ runtime \in Jail!Jail /\ dropin \in Jail!DropIn /\ jailSole \subseteq Client
    /\ jailJob \in [Client -> JailRequest]

\* What a request brings, at the step it is at.
JailAsks(j) ==
    /\ j.at \in {"set", "fetch", "write"} => j.op \in {"params", "add", "del"}
    /\ j.at = "set" /\ j.op = "params" => Todo(j) # {}
    /\ j.at = "fetch" => j.op \in {"add", "del"}
    /\ j.at = "write" => j.text \in Jail!DropIn
    /\ j.at = "unit" => j.op \in {"install", "start", "stop", "restart"}
    /\ j.op \in {"add", "del"} => j.addr \in JailCidr /\ j.want = Jail!NoChange

\* The whitelist a request for the address a writes, if it could fetch w first.
ListOf(j, list) ==
    /\ list \subseteq JailCidr
    /\ j.op = "add" => j.addr \in list
    /\ j.op = "del" => j.addr \notin list
    /\ j.fetched => (j.before.runtime.ignore \cap JailCidr) \ {j.addr} \subseteq list

\* What the request j, alone so far, knows of the runtime and of the drop-in.
JailAlone(j) ==
    /\ j.before \in [runtime : Jail!Jail, dropin : Jail!DropIn]
    /\ j.at \in {"set", "fetch", "write"} => dropin = j.before.dropin
    /\ j.op = "params" => ~j.fetched
    /\ j.op \in {"add", "del"} /\ j.at = "set" => runtime = j.before.runtime
    /\ j.at = "fetch" => j.before.runtime.ignore \ {j.addr} \subseteq runtime.ignore
    /\ j.at = "write" /\ j.op = "params" =>
          j.text = Jail!Merge(j.before.dropin, j.want, None)
    /\ j.at = "write" /\ j.op \in {"add", "del"} =>
          \E list \in SUBSET JailCidr :
              ListOf(j, list) /\ j.text = Jail!Merge(j.before.dropin, Jail!NoChange, list)
    /\ j.at = "reload" /\ j.op = "params" =>
          dropin = Jail!Merge(j.before.dropin, j.want, None)

JailInv ==
    /\ JailTypes
    /\ \A h \in Client : JailAsks(jailJob[h])
    /\ \A h \in jailSole :
          /\ \A o \in Client \ {h} : jailJob[o].at = "idle"
          /\ JailAlone(jailJob[h])

LEMMA LoadedType == ASSUME NEW d \in Jail!DropIn PROVE Jail!Loaded(d) \in Jail!Jail
BY JailAssumption DEF Jail!DropIn, Jail!Loaded, Jail!Jail, Jail!Param

LEMMA MergeType ==
    ASSUME NEW d \in Jail!DropIn, NEW want \in JailWant,
           NEW list \in (SUBSET JailCidr) \cup {None}
    PROVE  Jail!Merge(d, want, list) \in Jail!DropIn
BY DEF Jail!DropIn, Jail!Merge, JailWant

LEMMA IdleType ==
    /\ Jail!NoChange \in JailWant
    /\ Jail!Idle \in JailRequest /\ Jail!Idle.at = "idle" /\ Jail!Idle.op = "none"
    /\ \A kept \in BOOLEAN : [Jail!Idle EXCEPT !.kept = kept] \in JailRequest
    /\ \A kept \in BOOLEAN : JailAsks([Jail!Idle EXCEPT !.kept = kept])
<1>1. Jail!NoChange \in JailWant
  BY DEF Jail!NoChange, JailWant
<1>2. Jail!Idle \in JailRequest /\ Jail!Idle.at = "idle" /\ Jail!Idle.op = "none"
  BY <1>1 DEF Jail!Idle, JailRequest
<1>3. ASSUME NEW kept \in BOOLEAN
      PROVE  /\ [Jail!Idle EXCEPT !.kept = kept] \in JailRequest
             /\ [Jail!Idle EXCEPT !.kept = kept].at = "idle"
             /\ [Jail!Idle EXCEPT !.kept = kept].op = "none"
  BY <1>2 DEF JailRequest
<1>4. ASSUME NEW kept \in BOOLEAN PROVE JailAsks([Jail!Idle EXCEPT !.kept = kept])
  BY <1>3 DEF JailAsks
<1> QED BY <1>1, <1>2, <1>3, <1>4

LEMMA InitJail == Jail!Init => JailInv
<1> SUFFICES ASSUME Jail!Init PROVE JailInv
  OBVIOUS
<1>1. dropin \in Jail!DropIn
  BY IdleType DEF Jail!Init, Jail!DropIn, JailWant
<1>2. runtime \in Jail!Jail
  BY <1>1, LoadedType DEF Jail!Init
<1>3. JailAsks(Jail!Idle)
  BY IdleType DEF JailAsks
<1> QED BY <1>1, <1>2, <1>3, IdleType DEF Jail!Init, JailInv, JailTypes

-----------------------------------------------------------------------------
\* A step of the request h changes its own entry; what holds of it must be shown
\* for that entry alone.
LEMMA JailStep ==
    ASSUME JailInv, NEW h \in Client, NEW j \in JailRequest,
           jailJob' = [jailJob EXCEPT ![h] = j], jailSole' \subseteq jailSole,
           service' \in {"absent", "stopped", "running"},
           runtime' \in Jail!Jail, dropin' \in Jail!DropIn,
           jailJob[h].at # "idle", JailAsks(j),
           h \in jailSole' => JailAlone(jailJob[h])' 
    PROVE  JailInv'
<1>1. JailTypes'
  BY DEF JailInv, JailTypes
<1>2. /\ jailJob'[h] = j
      /\ \A o \in Client \ {h} : jailJob'[o] = jailJob[o]
  BY DEF JailInv, JailTypes
<1>3. \A o \in Client : JailAsks(jailJob'[o])
  BY <1>2 DEF JailInv
<1>4. ASSUME NEW s \in jailSole'
      PROVE  s = h /\ \A o \in Client \ {s} : jailJob'[o].at = "idle"
  <2>1. s \in jailSole /\ s = h
    BY DEF JailInv
  <2> QED BY <1>2, <2>1 DEF JailInv
<1>5. (\A o \in Client : JailAsks(jailJob[o]))'
  BY <1>3 DEF JailAsks, Todo
<1>6. ASSUME NEW s \in jailSole' PROVE JailAlone(jailJob[s])'
  BY <1>4, <1>6
<1> QED BY <1>1, <1>4, <1>5, <1>6 DEF JailInv

\* A request comes; whoever was there is alone no more.
LEMMA JailStart ==
    ASSUME JailInv, NEW h \in Client, NEW j \in JailRequest, Jail!Starts(h, j),
           j.at \in {"set", "reload", "unit"}, JailAsks(j), ~j.fetched,
           j.at = "reload" => j.op # "params"
    PROVE  JailInv'
<1> DEFINE alone == \A o \in Client : jailJob[o].at = "idle"
           found == [runtime |-> runtime, dropin |-> dropin]
<1>1. found \in [runtime : Jail!Jail, dropin : Jail!DropIn]
  BY DEF JailInv, JailTypes
<1>2. PICK b \in {found, None} : /\ alone => b = found
                                /\ jailJob'[h] = [j EXCEPT !.before = b]
  BY DEF Jail!Starts
<1>3. /\ [j EXCEPT !.before = b] \in JailRequest
      /\ [j EXCEPT !.before = b].before = b
      /\ \A f \in {"at", "op", "want", "done", "persist", "addr", "fetched", "text", "kept"} :
            [j EXCEPT !.before = b][f] = j[f]
  BY <1>1 DEF JailRequest
<1>4. PICK r \in JailRequest :
          /\ r = [j EXCEPT !.before = b] /\ jailJob'[h] = r /\ r.before = b
          /\ r.at = j.at /\ r.op = j.op /\ r.want = j.want /\ r.done = j.done
          /\ r.addr = j.addr /\ r.fetched = j.fetched
  BY <1>2, <1>3
<1>5. JailAsks(r)
  BY <1>4 DEF JailAsks, Todo
<1>6. ASSUME NEW o \in Client, o # h
      PROVE  /\ jailJob'[o] \in JailRequest /\ JailAsks(jailJob'[o])
             /\ jailJob'[o].at = jailJob[o].at
  <2>1. jailJob'[o] = [jailJob[o] EXCEPT !.before = None]
    BY <1>6 DEF Jail!Starts
  <2>2. PICK q \in JailRequest : q = jailJob[o] /\ JailAsks(q)
    BY DEF JailInv, JailTypes
  <2>3. PICK t : t = [q EXCEPT !.before = None]
    OBVIOUS
  <2>4. /\ t \in JailRequest
        /\ t.at = q.at /\ t.op = q.op /\ t.want = q.want /\ t.done = q.done
        /\ t.addr = q.addr /\ t.text = q.text
    BY <2>3 DEF JailRequest
  <2>5. JailAsks(t)
    BY <2>2, <2>4 DEF JailAsks, Todo
  <2> QED BY <2>1, <2>2, <2>3, <2>4, <2>5
<1>7. /\ \A o \in Client : jailJob'[o] \in JailRequest
      /\ \A o \in Client : JailAsks(jailJob'[o])
  BY <1>4, <1>5, <1>6
<1>8. jailJob' \in [Client -> JailRequest]
  <2>1. jailJob' = [o \in Client |-> jailJob'[o]]
    BY DEF Jail!Starts
  <2> QED BY <1>7, <2>1
<1>9. /\ jailSole' \subseteq {h} /\ (jailSole' # {} => alone)
      /\ UNCHANGED <<service, runtime, dropin>>
  BY DEF Jail!Starts
<1>10. JailTypes'
  BY <1>8, <1>9 DEF JailInv, JailTypes
<1>11. (\A o \in Client : JailAsks(jailJob[o]))'
  BY <1>7 DEF JailAsks, Todo
<1>12. ASSUME NEW s \in jailSole'
       PROVE  (\A o \in Client \ {s} : jailJob[o].at = "idle")' /\ JailAlone(jailJob[s])'
  <2>1. s = h /\ alone /\ b = found
    BY <1>2, <1>9
  <2>2. \A o \in Client \ {h} : jailJob'[o].at = "idle"
    BY <1>6, <2>1
  <2>3. r.before = found /\ r.at \in {"set", "reload", "unit"} /\ ~r.fetched
        /\ (r.at = "reload" => r.op # "params")
    BY <1>4, <2>1
  <2>4. found.runtime = runtime' /\ found.dropin = dropin'
    BY <1>9
  <2>5. JailAlone(jailJob[h])'
    BY <1>1, <1>4, <2>3, <2>4 DEF JailAlone
  <2> QED BY <2>1, <2>2, <2>5
<1> QED BY <1>10, <1>11, <1>12 DEF JailInv

LEMMA BeginJail ==
    ASSUME JailInv, NEW h \in Client,
           \/ \E want \in JailWant, persist \in BOOLEAN : Jail!SetParams(h, want, persist)
           \/ \E op \in {"add", "del"}, a \in JailCidr : Jail!ChangeIgnore(h, op, a)
           \/ Jail!Reload(h)
           \/ \E op \in {"install", "start", "stop", "restart"} : Jail!Unit(h, op)
    PROVE  JailInv'
<1>1. ASSUME NEW want \in JailWant, NEW persist \in BOOLEAN, Jail!SetParams(h, want, persist)
      PROVE  JailInv'
  <2>1. PICK j : j = [Jail!Idle EXCEPT !.at = "set", !.op = "params", !.want = want,
                                        !.persist = persist]
    OBVIOUS
  <2>2. /\ j \in JailRequest /\ j.at = "set" /\ j.op = "params" /\ j.want = want
        /\ j.done = {} /\ ~j.fetched
    <3>1. j = [at |-> "set", op |-> "params", want |-> want, done |-> {}, persist |-> persist, addr |-> None,
               fetched |-> FALSE, text |-> None, before |-> None, kept |-> FALSE]
      BY <2>1 DEF Jail!Idle
    <3> QED BY <3>1, IdleType DEF JailRequest
  <2>3. \E p \in Jail!Param : want[p] # None
    BY <1>1 DEF Jail!SetParams, JailWant, Jail!NoChange
  <2>4. JailAsks(j)
    BY <2>2, <2>3 DEF JailAsks, Todo
  <2>5. Jail!Starts(h, j)
    BY <1>1, <2>1 DEF Jail!SetParams
  <2> QED BY <2>2, <2>4, <2>5, JailStart
<1>2. ASSUME NEW op \in {"add", "del"}, NEW a \in JailCidr, Jail!ChangeIgnore(h, op, a)
      PROVE  JailInv'
  <2>1. PICK j : j = [Jail!Idle EXCEPT !.at = "set", !.op = op, !.addr = a]
    OBVIOUS
  <2>2. /\ j \in JailRequest /\ j.at = "set" /\ j.op = op /\ j.want = Jail!NoChange
        /\ j.addr = a /\ ~j.fetched
    <3>1. j = [at |-> "set", op |-> op, want |-> Jail!NoChange, done |-> {}, persist |-> FALSE, addr |-> a,
               fetched |-> FALSE, text |-> None, before |-> None, kept |-> FALSE]
      BY <2>1 DEF Jail!Idle
    <3> QED BY <3>1, IdleType DEF JailRequest
  <2>3. JailAsks(j)
    BY <2>2 DEF JailAsks
  <2>4. Jail!Starts(h, j)
    BY <1>2, <2>1 DEF Jail!ChangeIgnore
  <2> QED BY <2>2, <2>3, <2>4, JailStart
<1>3. CASE Jail!Reload(h)
  <2>1. PICK j : j = [Jail!Idle EXCEPT !.at = "reload", !.op = "reload"]
    OBVIOUS
  <2>2. j \in JailRequest /\ j.at = "reload" /\ j.op = "reload" /\ ~j.fetched
    <3>1. j = [at |-> "reload", op |-> "reload", want |-> Jail!NoChange, done |-> {}, persist |-> FALSE, addr |-> None,
               fetched |-> FALSE, text |-> None, before |-> None, kept |-> FALSE]
      BY <2>1 DEF Jail!Idle
    <3> QED BY <3>1, IdleType DEF JailRequest
  <2>3. JailAsks(j)
    BY <2>2 DEF JailAsks
  <2>4. Jail!Starts(h, j)
    BY <1>3, <2>1 DEF Jail!Reload
  <2> QED BY <2>2, <2>3, <2>4, JailStart
<1>4. ASSUME NEW op \in {"install", "start", "stop", "restart"}, Jail!Unit(h, op)
      PROVE  JailInv'
  <2>1. PICK j : j = [Jail!Idle EXCEPT !.at = "unit", !.op = op]
    OBVIOUS
  <2>2. j \in JailRequest /\ j.at = "unit" /\ j.op = op /\ ~j.fetched
    <3>1. j = [at |-> "unit", op |-> op, want |-> Jail!NoChange, done |-> {}, persist |-> FALSE, addr |-> None,
               fetched |-> FALSE, text |-> None, before |-> None, kept |-> FALSE]
      BY <2>1 DEF Jail!Idle
    <3> QED BY <3>1, IdleType DEF JailRequest
  <2>3. JailAsks(j)
    BY <2>2 DEF JailAsks
  <2>4. Jail!Starts(h, j)
    BY <1>4, <2>1 DEF Jail!Unit
  <2> QED BY <2>2, <2>3, <2>4, JailStart
<1> QED BY <1>1, <1>2, <1>3, <1>4

LEMMA JailEnds ==
    ASSUME JailInv, NEW h \in Client, NEW kept \in BOOLEAN, Jail!Ends(h, kept),
           jailJob[h].at # "idle", service' \in {"absent", "stopped", "running"},
           runtime' \in Jail!Jail, dropin' \in Jail!DropIn
    PROVE  JailInv'
<1>1. PICK j : j = [Jail!Idle EXCEPT !.kept = kept]
  OBVIOUS
<1>2. j \in JailRequest /\ JailAsks(j)
  BY <1>1, IdleType
<1>3. jailJob' = [jailJob EXCEPT ![h] = j] /\ jailSole' = jailSole \ {h}
  BY <1>1 DEF Jail!Ends
<1> QED BY <1>2, <1>3, JailStep

\* One parameter is set, the last of which leads to the file.
LEMMA ParamJail == ASSUME JailInv, NEW h \in Client, Jail!ParamSet(h) PROVE JailInv'
<1>1. PICK j \in JailRequest : j = jailJob[h] /\ JailAsks(j) /\ j.at = "set" /\ j.op = "params"
  BY DEF JailInv, JailTypes, Jail!ParamSet
<1> DEFINE left == Todo(j)
           p == CHOOSE q \in left : \A r \in left : q <= r
<1>2. p \in left /\ p \in Jail!Param /\ j.want[p] \in JailValue
  <2>1. left \in SUBSET Nat /\ left # {}
    BY <1>1, JailAssumption DEF JailAsks, Todo, Jail!Param
  <2>2. \E q \in left : \A r \in left : q <= r
    <3> HIDE DEF left
    <3> QED BY <2>1, LeastNatural
  <2>3. p \in left
    BY <2>2
  <2> QED BY <2>3 DEF Todo, JailRequest, JailWant
<1>3. /\ runtime' = [runtime EXCEPT !.params[p] = j.want[p]]
      /\ UNCHANGED <<service, dropin>>
      /\ \/ /\ left # {p} /\ Jail!Goes(h, [j EXCEPT !.done = @ \cup {p}])
         \/ Jail!ToWrite(h, j.want, None)
         \/ Jail!Ends(h, FALSE)
  BY <1>1 DEF Jail!ParamSet, Todo
<1>4. PICK q \in Jail!Param : q = p /\ q \in left /\ j.want[q] \in JailValue
  BY <1>2
<1> HIDE DEF p
<1>5. runtime' \in Jail!Jail
  BY <1>3, <1>4 DEF JailInv, JailTypes, Jail!Jail
<1>6. /\ service' \in {"absent", "stopped", "running"} /\ dropin \in Jail!DropIn
      /\ dropin' \in Jail!DropIn
  BY <1>3 DEF JailInv, JailTypes
<1>7. h \in jailSole => JailAlone(j)
  BY <1>1 DEF JailInv
<1>8. CASE left # {p} /\ Jail!Goes(h, [j EXCEPT !.done = @ \cup {p}])
  <2>1. PICK t : t = [j EXCEPT !.done = @ \cup {q}]
    OBVIOUS
  <2>2. /\ t \in JailRequest /\ t.at = "set" /\ t.op = "params" /\ t.want = j.want
        /\ t.done = j.done \cup {q} /\ t.fetched = j.fetched /\ t.before = j.before
    BY <1>1, <2>1 DEF JailRequest
  <2>3. Todo(t) = Todo(j) \ {q}
    BY <2>2 DEF Todo
  <2>4. JailAsks(t)
    BY <1>4, <1>8, <2>2, <2>3 DEF JailAsks
  <2>5. jailJob' = [jailJob EXCEPT ![h] = t] /\ jailSole' = jailSole /\ jailJob'[h] = t
    BY <1>4, <1>8, <2>1 DEF Jail!Goes, JailInv, JailTypes
  <2>6. h \in jailSole' => JailAlone(jailJob[h])'
    BY <1>1, <1>3, <1>7, <2>2, <2>5 DEF JailAlone
  <2> QED BY <1>1, <1>5, <1>6, <2>2, <2>4, <2>5, <2>6, JailStep
<1>9. CASE Jail!ToWrite(h, j.want, None)
  <2>1. PICK t, text : /\ text = Jail!Merge(dropin, j.want, None)
                       /\ t = [j EXCEPT !.at = "write", !.text = text]
    OBVIOUS
  <2>2. text \in Jail!DropIn
    BY <1>6, <2>1, MergeType DEF JailRequest
  <2>3. /\ t \in JailRequest /\ t.at = "write" /\ t.op = "params" /\ t.want = j.want
        /\ t.text = text /\ t.fetched = j.fetched /\ t.before = j.before
    BY <1>1, <2>1, <2>2 DEF JailRequest
  <2>4. JailAsks(t)
    BY <2>2, <2>3 DEF JailAsks
  <2>5. jailJob' = [jailJob EXCEPT ![h] = t] /\ jailSole' = jailSole /\ jailJob'[h] = t
    BY <1>1, <1>9, <2>1 DEF Jail!ToWrite, Jail!Goes, JailInv, JailTypes
  <2>6. h \in jailSole' => JailAlone(jailJob[h])'
    BY <1>1, <1>3, <1>7, <2>1, <2>3, <2>5 DEF JailAlone
  <2> QED BY <1>1, <1>5, <1>6, <2>3, <2>4, <2>5, <2>6, JailStep
<1>10. CASE Jail!Ends(h, FALSE)
  BY <1>1, <1>5, <1>6, <1>10, JailEnds
<1> QED BY <1>3, <1>8, <1>9, <1>10

LEMMA IgnoreJail == ASSUME JailInv, NEW h \in Client, Jail!IgnoreSet(h) PROVE JailInv'
<1>1. PICK j \in JailRequest :
          /\ j = jailJob[h] /\ JailAsks(j) /\ j.at = "set" /\ j.op \in {"add", "del"}
          /\ j.addr \in JailCidr
  BY DEF JailInv, JailTypes, Jail!IgnoreSet, JailAsks
<1>2. /\ runtime' = [runtime EXCEPT !.ignore =
              IF j.op = "add" THEN @ \cup {j.addr} ELSE @ \ {j.addr}]
      /\ Jail!Goes(h, [j EXCEPT !.at = "fetch"]) /\ UNCHANGED <<service, dropin>>
  BY <1>1 DEF Jail!IgnoreSet
<1>3. /\ runtime' \in Jail!Jail
      /\ runtime'.ignore = IF j.op = "add" THEN runtime.ignore \cup {j.addr}
                           ELSE runtime.ignore \ {j.addr}
  BY <1>1, <1>2, JailAssumption DEF JailInv, JailTypes, Jail!Jail
<1>4. PICK t : t = [j EXCEPT !.at = "fetch"]
  OBVIOUS
<1>5. /\ t \in JailRequest /\ t.at = "fetch" /\ t.op = j.op /\ t.want = j.want
      /\ t.addr = j.addr /\ t.fetched = j.fetched /\ t.before = j.before
  BY <1>4 DEF JailRequest
<1>6. JailAsks(t)
  BY <1>1, <1>5 DEF JailAsks
<1>7. jailJob' = [jailJob EXCEPT ![h] = t] /\ jailSole' = jailSole /\ jailJob'[h] = t
  BY <1>2, <1>4 DEF Jail!Goes, JailInv, JailTypes
<1>8. h \in jailSole' => JailAlone(jailJob[h])'
  <2> SUFFICES ASSUME h \in jailSole PROVE JailAlone(jailJob[h])'
    BY <1>7
  <2>1. JailAlone(j)
    BY <1>1 DEF JailInv
  <2>2. j.before.runtime.ignore \ {j.addr} \subseteq runtime'.ignore
    BY <1>1, <1>3, <2>1 DEF JailAlone
  <2> QED BY <1>1, <1>2, <1>5, <1>7, <2>1, <2>2 DEF JailAlone
<1> QED BY <1>1, <1>2, <1>3, <1>5, <1>6, <1>7, <1>8, JailStep DEF JailInv, JailTypes

LEMMA FetchJail == ASSUME JailInv, NEW h \in Client, Jail!Fetch(h) PROVE JailInv'
<1>1. PICK j \in JailRequest :
          /\ j = jailJob[h] /\ JailAsks(j) /\ j.at = "fetch" /\ j.op \in {"add", "del"}
          /\ j.addr \in JailCidr /\ j.want = Jail!NoChange
  BY DEF JailInv, JailTypes, Jail!Fetch, JailAsks
<1>2. UNCHANGED <<service, runtime, dropin>> /\ runtime.ignore \in SUBSET JailAddr
  BY DEF Jail!Fetch, JailInv, JailTypes, Jail!Jail
<1>3. PICK fetched \in BOOLEAN, list \in SUBSET JailCidr :
          /\ j.op = "add" => j.addr \in list
          /\ j.op = "del" => j.addr \notin list
          /\ fetched => (runtime.ignore \cap JailCidr) \ {j.addr} \subseteq list
          /\ Jail!Goes(h, [j EXCEPT !.at = "write", !.fetched = fetched,
                                    !.text = Jail!Merge(dropin, Jail!NoChange, list)])
  <2>1. ASSUME NEW fetched \in BOOLEAN, NEW current, NEW list,
               current = IF fetched THEN runtime.ignore \cap JailCidr ELSE {},
               list = IF j.op = "add" THEN current \cup {j.addr} ELSE current \ {j.addr}
        PROVE  /\ list \in SUBSET JailCidr
               /\ j.op = "add" => j.addr \in list
               /\ j.op = "del" => j.addr \notin list
               /\ fetched => (runtime.ignore \cap JailCidr) \ {j.addr} \subseteq list
    BY <1>1, <1>2, <2>1
  <2>2. \E fetched \in BOOLEAN : \E current, list :
            /\ current = IF fetched THEN runtime.ignore \cap JailCidr ELSE {}
            /\ list = IF j.op = "add" THEN current \cup {j.addr} ELSE current \ {j.addr}
            /\ Jail!Goes(h, [j EXCEPT !.at = "write", !.fetched = fetched,
                                      !.text = Jail!Merge(dropin, Jail!NoChange, list)])
    BY <1>1 DEF Jail!Fetch
  <2> QED BY <2>1, <2>2
<1>5. PICK t, text : /\ text = Jail!Merge(dropin, Jail!NoChange, list)
                     /\ t = [j EXCEPT !.at = "write", !.fetched = fetched, !.text = text]
  OBVIOUS
<1>6. text \in Jail!DropIn
  BY <1>5, IdleType, MergeType DEF JailInv, JailTypes
<1>7. /\ t \in JailRequest /\ t.at = "write" /\ t.op = j.op /\ t.want = j.want
      /\ t.addr = j.addr /\ t.fetched = fetched /\ t.before = j.before /\ t.text = text
  BY <1>5, <1>6 DEF JailRequest
<1>8. JailAsks(t)
  BY <1>1, <1>6, <1>7 DEF JailAsks
<1>9. jailJob' = [jailJob EXCEPT ![h] = t] /\ jailSole' = jailSole /\ jailJob'[h] = t
  BY <1>3, <1>5 DEF Jail!Goes, JailInv, JailTypes
<1>10. h \in jailSole' => JailAlone(jailJob[h])'
  <2> SUFFICES ASSUME h \in jailSole PROVE JailAlone(jailJob[h])'
    BY <1>9
  <2>1. JailAlone(j)
    BY <1>1 DEF JailInv
  <2>2. dropin = j.before.dropin /\ j.before.runtime.ignore \ {j.addr} \subseteq runtime.ignore
    BY <1>1, <2>1 DEF JailAlone
  <2>3. ListOf(t, list)
    BY <1>1, <1>3, <1>7, <2>2 DEF ListOf
  <2>4. t.text = Jail!Merge(t.before.dropin, Jail!NoChange, list)
    BY <1>5, <1>7, <2>2
  <2>5. dropin' = t.before.dropin
    BY <1>2, <1>7, <2>2
  <2>6. \E l \in SUBSET JailCidr :
            ListOf(t, l) /\ t.text = Jail!Merge(t.before.dropin, Jail!NoChange, l)
    BY <2>3, <2>4
  <2> QED BY <1>1, <1>7, <1>9, <2>1, <2>5, <2>6 DEF JailAlone, ListOf
<1> QED BY <1>1, <1>2, <1>7, <1>8, <1>9, <1>10, JailStep DEF JailInv, JailTypes

LEMMA WriteJail == ASSUME JailInv, NEW h \in Client, Jail!Write(h) PROVE JailInv'
<1>1. PICK j \in JailRequest :
          /\ j = jailJob[h] /\ JailAsks(j) /\ j.at = "write" /\ j.text \in Jail!DropIn
          /\ j.op \in {"params", "add", "del"}
  BY DEF JailInv, JailTypes, Jail!Write, JailAsks
<1>2. dropin' = j.text /\ UNCHANGED <<service, runtime>>
  BY <1>1 DEF Jail!Write
<1>3. dropin' \in Jail!DropIn /\ runtime' \in Jail!Jail
      /\ service' \in {"absent", "stopped", "running"}
  BY <1>1, <1>2 DEF JailInv, JailTypes
<1>4. CASE j.op = "params"
  <2>1. PICK t : t = [j EXCEPT !.at = "reload"]
    OBVIOUS
  <2>2. /\ t \in JailRequest /\ t.at = "reload" /\ t.op = j.op /\ t.want = j.want
        /\ t.fetched = j.fetched /\ t.before = j.before
    BY <2>1 DEF JailRequest
  <2>3. JailAsks(t)
    BY <1>4, <2>2 DEF JailAsks
  <2>4. jailJob' = [jailJob EXCEPT ![h] = t] /\ jailSole' = jailSole /\ jailJob'[h] = t
    BY <1>1, <1>4, <2>1 DEF Jail!Write, Jail!Goes, JailInv, JailTypes
  <2>5. h \in jailSole' => JailAlone(jailJob[h])'
    <3> SUFFICES ASSUME h \in jailSole PROVE JailAlone(jailJob[h])'
      BY <2>4
    <3>1. JailAlone(j)
      BY <1>1 DEF JailInv
    <3>2. dropin' = Jail!Merge(t.before.dropin, t.want, None)
      BY <1>1, <1>2, <1>4, <2>2, <3>1 DEF JailAlone
    <3> QED BY <1>4, <2>2, <2>4, <3>1, <3>2 DEF JailAlone
  <2> QED BY <1>1, <1>3, <2>2, <2>3, <2>4, <2>5, JailStep
<1>5. CASE j.op # "params"
  <2>1. Jail!Ends(h, TRUE)
    BY <1>1, <1>5 DEF Jail!Write
  <2> QED BY <1>1, <1>3, <2>1, JailEnds
<1> QED BY <1>4, <1>5

LEMMA EndJail ==
    ASSUME JailInv, NEW h \in Client, Jail!ReloadEnds(h) \/ Jail!UnitEnds(h) \/ Jail!Fails(h)
    PROVE  JailInv'
<1>1. /\ service \in {"absent", "stopped", "running"} /\ dropin \in Jail!DropIn
      /\ runtime \in Jail!Jail /\ Jail!Loaded(dropin) \in Jail!Jail
  BY LoadedType DEF JailInv, JailTypes
<1>2. CASE Jail!ReloadEnds(h)
  <2>1. /\ jailJob[h].at # "idle" /\ Jail!Ends(h, jailJob[h].op = "params")
        /\ UNCHANGED <<service, dropin>> /\ runtime' \in {runtime, Jail!Loaded(dropin)}
    BY <1>2 DEF Jail!ReloadEnds
  <2> QED BY <1>1, <2>1, JailEnds
<1>3. CASE Jail!UnitEnds(h)
  <2>1. /\ jailJob[h].at # "idle" /\ Jail!Ends(h, FALSE) /\ UNCHANGED dropin
        /\ service' \in {"stopped", "running"} /\ runtime' \in {runtime, Jail!Loaded(dropin)}
    BY <1>3 DEF Jail!UnitEnds
  <2> QED BY <1>1, <2>1, JailEnds
<1>4. CASE Jail!Fails(h)
  <2>1. /\ jailJob[h].at # "idle" /\ Jail!Ends(h, FALSE)
        /\ UNCHANGED <<service, runtime, dropin>>
    BY <1>4 DEF Jail!Fails
  <2> QED BY <1>1, <2>1, JailEnds
<1> QED BY <1>2, <1>3, <1>4

LEMMA NextJail == JailInv /\ (Jail!Next \/ UNCHANGED jailVars) => JailInv'
<1> SUFFICES ASSUME JailInv, Jail!Next \/ UNCHANGED jailVars PROVE JailInv'
  OBVIOUS
<1>1. CASE UNCHANGED jailVars
  BY <1>1 DEF JailInv, JailTypes, JailAsks, Todo, JailAlone, ListOf, jailVars
<1>2. CASE Jail!Next
  BY <1>2, BeginJail, ParamJail, IgnoreJail, FetchJail, WriteJail, EndJail
     DEF Jail!Next, JailWant
<1> QED BY <1>1, <1>2

LEMMA PanelJailInv == PanelSpec => []JailInv
<1>1. PanelInit => JailInv
  BY InitJail DEF PanelInit
<1>2. JailInv /\ [PanelNext]_panelVars => JailInv'
  BY NextJail, PanelMovesJail
<1> QED BY <1>1, <1>2, PTL DEF PanelSpec, panelVars

\* What a request alone so far writes is what it promises to keep.
LEMMA ParamsSurvive ==
    ASSUME NEW j \in JailRequest, j.op = "params", ~j.fetched,
           j.before \in [runtime : Jail!Jail, dropin : Jail!DropIn]
    PROVE  Jail!Survives(j, Jail!Merge(j.before.dropin, j.want, None))
<1>1. PICK d : d = Jail!Merge(j.before.dropin, j.want, None)
  OBVIOUS
<1>2. /\ \A p \in Jail!Param :
            d.params[p] = IF j.want[p] = None THEN j.before.dropin.params[p] ELSE j.want[p]
      /\ d.ignore = j.before.dropin.ignore
  BY <1>1 DEF Jail!Merge
<1> QED BY <1>1, <1>2 DEF Jail!Survives

LEMMA ListSurvives ==
    ASSUME NEW j \in JailRequest, j.op \in {"add", "del"}, j.want = Jail!NoChange,
           NEW list \in SUBSET JailCidr, ListOf(j, list)
    PROVE  Jail!Survives(j, Jail!Merge(j.before.dropin, Jail!NoChange, list))
<1>1. PICK d : d = Jail!Merge(j.before.dropin, Jail!NoChange, list)
  OBVIOUS
<1>2. list # None
  BY JailAssumption
<1>3. \A p \in Jail!Param : Jail!NoChange[p] = None
  BY DEF Jail!NoChange
<1>4. /\ \A p \in Jail!Param : d.params[p] = j.before.dropin.params[p]
      /\ d.ignore = list
  BY <1>1, <1>2, <1>3 DEF Jail!Merge
<1>5. list # {} => Jail!Loaded(d).ignore = list
  BY <1>4 DEF Jail!Loaded
<1>6. j.addr \in list => list # {}
  OBVIOUS
<1> QED BY <1>1, <1>3, <1>4, <1>5, <1>6 DEF Jail!Survives, ListOf

SurviveStep ==
    \A h \in jailSole :
        jailJob[h].at # "idle" /\ jailJob'[h].at = "idle" /\ jailJob'[h].kept
            => Jail!Survives(jailJob[h], dropin')

LEMMA NextSurvives == JailInv /\ [PanelNext]_panelVars => [SurviveStep]_(Jail!vars)
<1> SUFFICES ASSUME JailInv, Jail!Next \/ UNCHANGED jailVars,
                    NEW h \in jailSole, jailJob[h].at # "idle", jailJob'[h].at = "idle",
                    jailJob'[h].kept
             PROVE  Jail!Survives(jailJob[h], dropin')
  BY PanelMovesJail DEF SurviveStep
<1>1. PICK j \in JailRequest :
          /\ j = jailJob[h] /\ h \in Client /\ JailAsks(j) /\ JailAlone(j)
          /\ \A o \in Client \ {h} : jailJob[o].at = "idle"
  BY DEF JailInv, JailTypes
<1>2. PICK o \in Client :
        \/ \E k \in JailRequest : k.at # "idle" /\ Jail!Starts(o, k)
        \/ Jail!ParamSet(o) \/ Jail!IgnoreSet(o) \/ Jail!Fetch(o) \/ Jail!Write(o)
        \/ Jail!ReloadEnds(o) \/ Jail!UnitEnds(o) \/ Jail!Fails(o)
  <2>1. ASSUME NEW c \in Client, NEW want \in JailWant, NEW persist \in BOOLEAN,
               Jail!SetParams(c, want, persist)
        PROVE  \E k \in JailRequest : k.at # "idle" /\ Jail!Starts(c, k)
    <3>1. PICK k : k = [Jail!Idle EXCEPT !.at = "set", !.op = "params", !.want = want,
                                          !.persist = persist]
      OBVIOUS
    <3>2. k \in JailRequest /\ k.at = "set"
      <4>1. k = [at |-> "set", op |-> "params", want |-> want, done |-> {}, persist |-> persist, addr |-> None,
                 fetched |-> FALSE, text |-> None, before |-> None, kept |-> FALSE]
        BY <3>1 DEF Jail!Idle
      <4> QED BY <4>1, IdleType DEF JailRequest
    <3> QED BY <2>1, <3>1, <3>2 DEF Jail!SetParams
  <2>2. ASSUME NEW c \in Client, NEW op \in {"add", "del"}, NEW a \in JailCidr,
               Jail!ChangeIgnore(c, op, a)
        PROVE  \E k \in JailRequest : k.at # "idle" /\ Jail!Starts(c, k)
    <3>1. PICK k : k = [Jail!Idle EXCEPT !.at = "set", !.op = op, !.addr = a]
      OBVIOUS
    <3>2. k \in JailRequest /\ k.at = "set"
      <4>1. k = [at |-> "set", op |-> op, want |-> Jail!NoChange, done |-> {}, persist |-> FALSE, addr |-> a,
                 fetched |-> FALSE, text |-> None, before |-> None, kept |-> FALSE]
        BY <3>1 DEF Jail!Idle
      <4> QED BY <4>1, IdleType DEF JailRequest
    <3> QED BY <2>2, <3>1, <3>2 DEF Jail!ChangeIgnore
  <2>3. ASSUME NEW c \in Client, Jail!Reload(c)
        PROVE  \E k \in JailRequest : k.at # "idle" /\ Jail!Starts(c, k)
    <3>1. PICK k : k = [Jail!Idle EXCEPT !.at = "reload", !.op = "reload"]
      OBVIOUS
    <3>2. k \in JailRequest /\ k.at = "reload"
      <4>1. k = [at |-> "reload", op |-> "reload", want |-> Jail!NoChange, done |-> {}, persist |-> FALSE, addr |-> None,
                 fetched |-> FALSE, text |-> None, before |-> None, kept |-> FALSE]
        BY <3>1 DEF Jail!Idle
      <4> QED BY <4>1, IdleType DEF JailRequest
    <3> QED BY <2>3, <3>1, <3>2 DEF Jail!Reload
  <2>4. ASSUME NEW c \in Client, NEW op \in {"install", "start", "stop", "restart"},
               Jail!Unit(c, op)
        PROVE  \E k \in JailRequest : k.at # "idle" /\ Jail!Starts(c, k)
    <3>1. PICK k : k = [Jail!Idle EXCEPT !.at = "unit", !.op = op]
      OBVIOUS
    <3>2. k \in JailRequest /\ k.at = "unit"
      <4>1. k = [at |-> "unit", op |-> op, want |-> Jail!NoChange, done |-> {}, persist |-> FALSE, addr |-> None,
                 fetched |-> FALSE, text |-> None, before |-> None, kept |-> FALSE]
        BY <3>1 DEF Jail!Idle
      <4> QED BY <4>1, IdleType DEF JailRequest
    <3> QED BY <2>4, <3>1, <3>2 DEF Jail!Unit
  <2>5. Jail!Next
    BY DEF jailVars
  <2> QED BY <2>1, <2>2, <2>3, <2>4, <2>5 DEF Jail!Next, JailWant
<1>3. ~ \E k \in JailRequest : k.at # "idle" /\ Jail!Starts(o, k)
  <2> SUFFICES ASSUME NEW k \in JailRequest, k.at # "idle", Jail!Starts(o, k) PROVE FALSE
    OBVIOUS
  <2>1. o # h
    BY <1>1 DEF Jail!Starts
  <2>2. jailJob'[h] = [j EXCEPT !.before = None]
    BY <1>1, <2>1 DEF Jail!Starts
  <2>3. [j EXCEPT !.before = None].at = j.at
    BY DEF JailRequest
  <2> QED BY <1>1, <2>2, <2>3
<1>4. o = h
  <2>1. jailJob[o].at # "idle"
    BY <1>2, <1>3 DEF Jail!ParamSet, Jail!IgnoreSet, Jail!Fetch, Jail!Write, Jail!ReloadEnds,
       Jail!UnitEnds, Jail!Fails
  <2> QED BY <1>1, <2>1
<1>5. \A q : jailJob' = [jailJob EXCEPT ![h] = q] => jailJob'[h] = q
  BY <1>1 DEF JailInv, JailTypes
<1>6. ASSUME NEW kept \in BOOLEAN, Jail!Ends(h, kept) PROVE kept
  BY <1>5, <1>6, IdleType DEF Jail!Ends, JailRequest
<1>7. ASSUME NEW q, Jail!Goes(h, q) PROVE jailJob'[h] = q
  BY <1>5, <1>7 DEF Jail!Goes
<1>8. \A at \in {"fetch", "write", "reload"} :
          [j EXCEPT !.at = at].at = at
  BY DEF JailRequest
<1>9. CASE Jail!ParamSet(h)
  <2>1. ASSUME NEW done, Jail!Goes(h, [j EXCEPT !.done = done]) PROVE FALSE
    <3>1. jailJob'[h] = [j EXCEPT !.done = done]
      BY <1>7, <2>1
    <3>2. [j EXCEPT !.done = done].at = j.at
      BY DEF JailRequest
    <3> QED BY <1>1, <3>1, <3>2
  <2>2. ASSUME NEW text, Jail!Goes(h, [j EXCEPT !.at = "write", !.text = text]) PROVE FALSE
    <3>1. jailJob'[h] = [j EXCEPT !.at = "write", !.text = text]
      BY <1>7, <2>2
    <3>2. [j EXCEPT !.at = "write", !.text = text].at = "write"
      BY DEF JailRequest
    <3> QED BY <3>1, <3>2
  <2>3. \/ \E q : Jail!Goes(h, [j EXCEPT !.done = j.done \cup {q}])
        \/ Jail!Goes(h, [j EXCEPT !.at = "write", !.text = Jail!Merge(dropin, j.want, None)])
        \/ Jail!Ends(h, FALSE)
    BY <1>1, <1>9 DEF Jail!ParamSet, Jail!ToWrite
  <2> QED BY <1>6, <2>1, <2>2, <2>3
<1>10. CASE Jail!IgnoreSet(h)
  BY <1>1, <1>7, <1>8, <1>10 DEF Jail!IgnoreSet
<1>11. CASE Jail!Fetch(h)
  <2>1. ASSUME NEW f, NEW text,
               Jail!Goes(h, [j EXCEPT !.at = "write", !.fetched = f, !.text = text])
        PROVE  FALSE
    <3>1. jailJob'[h] = [j EXCEPT !.at = "write", !.fetched = f, !.text = text]
      BY <1>7, <2>1
    <3>2. [j EXCEPT !.at = "write", !.fetched = f, !.text = text].at = "write"
      BY DEF JailRequest
    <3> QED BY <3>1, <3>2
  <2>2. \E f, text : Jail!Goes(h, [j EXCEPT !.at = "write", !.fetched = f, !.text = text])
    BY <1>1, <1>11 DEF Jail!Fetch
  <2> QED BY <2>1, <2>2
<1>12. CASE Jail!Write(h)
  <2>1. j.op # "params" /\ j.at = "write" /\ dropin' = j.text
    BY <1>1, <1>7, <1>8, <1>12 DEF Jail!Write
  <2>2. j.op \in {"add", "del"} /\ j.want = Jail!NoChange
    BY <1>1, <2>1 DEF JailAsks
  <2>3. PICK list \in SUBSET JailCidr :
            ListOf(j, list) /\ dropin' = Jail!Merge(j.before.dropin, Jail!NoChange, list)
    BY <1>1, <2>1, <2>2 DEF JailAlone
  <2> QED BY <1>1, <2>2, <2>3, ListSurvives
<1>13. CASE Jail!ReloadEnds(h)
  <2>1. j.op = "params" /\ j.at = "reload" /\ dropin' = dropin
    BY <1>1, <1>6, <1>13 DEF Jail!ReloadEnds
  <2>2. /\ dropin = Jail!Merge(j.before.dropin, j.want, None) /\ ~j.fetched
        /\ j.before \in [runtime : Jail!Jail, dropin : Jail!DropIn]
    BY <1>1, <2>1 DEF JailAlone
  <2> QED BY <1>1, <2>1, <2>2, ParamsSurvive
<1>14. CASE Jail!UnitEnds(h) \/ Jail!Fails(h)
  BY <1>6, <1>14 DEF Jail!UnitEnds, Jail!Fails
<1> QED BY <1>2, <1>3, <1>4, <1>9, <1>10, <1>11, <1>12, <1>13, <1>14

\* fail2ban.py: "so reload/restart keeps panel changes": a request that had no other
\* beside it and is answered as persisted has put into the drop-in what it asked
\* for, and took from it nothing that was there before it; the addresses and networks
\* of the whitelist in force when it came, the names of hosts not, survive the reload.
THEOREM PanelChangesSurviveReload == PanelSpec => PanelChangesSurvive
<1> QED BY NextSurvives, PanelJailInv, PTL
        DEF PanelSpec, panelVars, PanelChangesSurvive, Jail!PanelChangesSurvive, SurviveStep

-----------------------------------------------------------------------------
(***************************************************************************)
(* The types of all parts.  What the invariants above leave out are bounds: *)
(* of the payloads, of the time, and of the commands that were given up.    *)
(***************************************************************************)
LEMMA SameCounts ==
    \A S : Users!Cardinality(S) = Cardinality(S) /\ Hub!Cardinality(S) = Cardinality(S)
BY DEF Users!Cardinality, Hub!Cardinality, Cardinality

HubBounds ==
    /\ latest \in 0..MaxFrame /\ got \in [Viewer -> 0..MaxFrame]
    /\ round \in {"off", "round", "sending"}
    /\ blocked = {} \/ \E c \in Viewer : blocked = {c}

LEMMA InitHubBounds == Hub!Init => HubBounds
BY HubAssumption DEF Hub!Init, HubBounds

LEMMA NextHubBounds == HubBounds /\ (Hub!Next \/ UNCHANGED hubVars) => HubBounds'
<1> SUFFICES ASSUME HubBounds, Hub!Next \/ UNCHANGED hubVars PROVE HubBounds'
  OBVIOUS
<1> USE HubAssumption DEF HubBounds
<1>1. ASSUME NEW c \in Viewer, Hub!connect(c) PROVE HubBounds'
  BY <1>1 DEF Hub!connect
<1>2. ASSUME NEW c \in Viewer, Hub!disconnect(c) PROVE HubBounds'
  <2>1. blocked' = {} \/ blocked' = blocked
    BY <1>2 DEF Hub!disconnect
  <2> QED BY <1>2, <2>1 DEF Hub!disconnect
<1>3. ASSUME NEW c \in Viewer, Hub!send_text(c) PROVE HubBounds'
  BY <1>3 DEF Hub!send_text
<1>4. CASE Hub!broadcast
  BY <1>4 DEF Hub!broadcast
<1>5. CASE Hub!Drain
  BY <1>5 DEF Hub!Drain
<1>6. CASE Hub!RoundEnds
  BY <1>6 DEF Hub!RoundEnds
<1>7. CASE Hub!start
  BY <1>7 DEF Hub!start
<1>8. CASE Hub!stop
  BY <1>8 DEF Hub!stop
<1>9. CASE UNCHANGED hubVars
  BY <1>9 DEF hubVars
<1> QED BY <1>1, <1>2, <1>3, <1>4, <1>5, <1>6, <1>7, <1>8, <1>9 DEF Hub!Next

JournalBounds ==
    /\ time \in 0..MaxTime /\ since \in [Journal!Conn -> -1..MaxTime]
    /\ seen \subseteq Journal!Conn /\ pruned \subseteq seen
    /\ \A r \in rows : r.start \in 0..MaxTime /\ r.end \in -1..MaxTime

LEMMA InitJournalBounds == Journal!Init => JournalBounds
BY JournalAssumption DEF Journal!Init, JournalBounds, Journal!Offline

LEMMA NextJournalBounds ==
    JournalInv /\ JournalBounds /\ (Journal!Next \/ UNCHANGED journalVars) => JournalBounds'
<1> SUFFICES ASSUME JournalInv, JournalBounds, Journal!Next \/ UNCHANGED journalVars
    PROVE  JournalBounds'
  OBVIOUS
<1>1. ASSUME NEW kind \in Journal!Kinds, Journal!persist_history(kind) PROVE JournalBounds'
  <2>1. /\ seen' = (seen \ Journal!Of(kind)) \cup Journal!Live(kind)
        /\ pruned' = pruned \ Journal!Of(kind)
    BY <1>1 DEF Journal!persist_history
  <2>2. Journal!Live(kind) \subseteq Journal!Conn
    BY <1>1 DEF Journal!Live, Journal!Of, Journal!Conn
  <2>3. ASSUME NEW k \in Journal!Live(kind), NEW r, r = Journal!Opened(k)
        PROVE  r.start \in 0..MaxTime /\ r.end \in -1..MaxTime
    BY <2>2, <2>3, JournalAssumption
       DEF JournalBounds, Journal!Live, Journal!Opened, Journal!Offline
  <2>4. ASSUME NEW o \in rows, NEW r, r = [o EXCEPT !.status = "closed", !.end = time]
        PROVE  r.start \in 0..MaxTime /\ r.end \in -1..MaxTime
    BY <2>4, JournalAssumption DEF JournalInv, JournalRow, JournalBounds
  <2>5. \A r \in rows' : r.start \in 0..MaxTime /\ r.end \in -1..MaxTime
    BY <1>1, <2>3, <2>4, SampleRows DEF JournalBounds
  <2>6. UNCHANGED <<time, since>>
    BY <1>1 DEF Journal!persist_history
  <2> QED BY <2>1, <2>2, <2>5, <2>6 DEF JournalBounds
<1>2. CASE Journal!cleanup_old_metrics
  <2> DEFINE old == {r \in rows : r.start < time - Retention}
  <2>1. /\ rows' = rows \ old /\ UNCHANGED <<time, since, seen>>
        /\ pruned' = pruned \cup {r.key : r \in {o \in old : o.status = "active"}}
    BY <1>2 DEF Journal!cleanup_old_metrics
  <2>2. ASSUME NEW r \in rows, r.status = "active" PROVE r.key \in seen
    <3>1. r.key \in Journal!Conn /\ r \in Journal!OpenOf(r.key)
      BY <2>2 DEF JournalInv, JournalRow, Journal!OpenOf
    <3> QED BY <3>1 DEF JournalInv, OpenMatches
  <2>3. pruned' \subseteq seen
    BY <2>1, <2>2 DEF JournalBounds
  <2> QED BY <2>1, <2>3 DEF JournalBounds
<1>3. ASSUME NEW k \in Journal!Conn, Journal!Contact(k) \/ Journal!Leave(k)
      PROVE  JournalBounds'
  BY <1>3, JournalAssumption DEF Journal!Contact, Journal!Leave, JournalBounds, Journal!Offline
<1>4. CASE Journal!Tick \/ UNCHANGED journalVars
  BY <1>4, JournalAssumption DEF Journal!Tick, journalVars, JournalBounds
<1> QED BY <1>1, <1>2, <1>3, <1>4 DEF Journal!Next

StrayBounds ==
    /\ IsFiniteSet(stray) /\ Cardinality(stray) <= MaxStray
    /\ userSole \subseteq Client

LEMMA MaxStrayType == MaxStray \in Nat
BY UsersAssumption, Zenon

LEMMA InitStrayBounds == PanelInit => StrayBounds
<1> SUFFICES ASSUME PanelInit PROVE StrayBounds
  OBVIOUS
<1>1. stray = {} /\ userSole = {}
  BY Zenon DEF PanelInit, Users!InitWith
<1> QED BY <1>1, FS_EmptySet, MaxStrayType DEF StrayBounds

LEMMA NextStrayBounds == StrayBounds /\ (Users!Next \/ UNCHANGED usersVars) => StrayBounds'
<1> SUFFICES ASSUME StrayBounds, Users!Next \/ UNCHANGED usersVars PROVE StrayBounds'
  OBVIOUS
<1>1. ASSUME NEW h \in Client, NEW c \in OsAsked, Users!Submit(h, c) PROVE StrayBounds'
  BY <1>1 DEF Users!Submit, StrayBounds
<1>2. ASSUME NEW h \in Client, Users!Succeeds(h) \/ Users!CommandFails(h) PROVE StrayBounds'
  <2>1. stray' = stray /\ userSole' \subseteq userSole
    BY <1>2 DEF Users!Succeeds, Users!CommandFails, Users!Fails, Users!Ends
  <2> QED BY <2>1 DEF StrayBounds
<1>3. ASSUME NEW h \in Client, Users!CommandTimesOut(h) PROVE StrayBounds'
  <2>1. /\ Cardinality(stray) < MaxStray /\ stray' = stray \union {Users!Command(h)}
        /\ userSole' \subseteq userSole
    <3>1. Users!Fails(h) => userSole' \subseteq userSole
      BY DEF Users!Fails, Users!Ends
    <3> QED BY <1>3, <3>1, SameCounts DEF Users!CommandTimesOut
  <2>2. Cardinality(stray) \in Nat
    BY FS_CardinalityType DEF StrayBounds
  <2>3. /\ IsFiniteSet(stray \union {Users!Command(h)})
        /\ \/ Cardinality(stray \union {Users!Command(h)}) = Cardinality(stray)
           \/ Cardinality(stray \union {Users!Command(h)}) = Cardinality(stray) + 1
    BY FS_AddElement DEF StrayBounds
  <2> QED BY <2>1, <2>2, <2>3, MaxStrayType DEF StrayBounds
<1>4. ASSUME NEW c \in stray, Users!StrayEnds(c) PROVE StrayBounds'
  <2>1. stray' = stray \ {c} /\ userSole' = userSole
    BY <1>4 DEF Users!StrayEnds
  <2>2. /\ IsFiniteSet(stray \ {c}) /\ Cardinality(stray \ {c}) = Cardinality(stray) - 1
        /\ Cardinality(stray) \in Nat
    BY FS_RemoveElement, FS_CardinalityType DEF StrayBounds
  <2> QED BY <2>1, <2>2, MaxStrayType DEF StrayBounds
<1>5. CASE Users!SettingsChange \/ UNCHANGED usersVars
  BY <1>5 DEF Users!SettingsChange, usersVars, StrayBounds
<1> QED BY <1>1, <1>2, <1>3, <1>4, <1>5 DEF Users!Next

LEMMA HubTyped == HubInv /\ HubBounds => Hub!TypeOK
<1> SUFFICES ASSUME HubInv, HubBounds PROVE Hub!TypeOK
  OBVIOUS
<1>1. blocked \subseteq Viewer /\ IsFiniteSet(blocked) /\ Cardinality(blocked) <= 1
  BY FS_EmptySet, FS_Singleton DEF HubBounds
<1> QED BY <1>1, SameCounts DEF HubInv, HubBounds, Hub!TypeOK

LEMMA JournalTyped == JournalInv /\ JournalBounds => Journal!TypeOK
BY DEF JournalInv, JournalRow, JournalBounds, Journal!TypeOK

LEMMA SettingsTyped == SaveInv => Settings!TypeOK
BY DEF SaveInv, AheadInOrder, SettingDoc, Settings!TypeOK

LEMMA UsersTyped == HostInv /\ StrayBounds => Users!TypeOK
BY SameCounts DEF HostInv, HostTypes, HostRequest, StrayBounds, Users!TypeOK

LEMMA JailTyped == JailInv => Jail!TypeOK
BY DEF JailInv, JailTypes, JailRequest, Jail!TypeOK

LEMMA PanelMovesAccess == [PanelNext]_panelVars => [Next]_vars
BY DEF PanelNext, panelVars

\* Every reachable state of every part of the panel is well typed, whatever requests
\* interleave, fail, time out or are cut short by a crash.
THEOREM PanelTypeCorrect == PanelSpec => []PartsTypeOK
<1> DEFINE Inv == /\ IInv /\ LifeInv /\ SaveInv /\ HubInv /\ HubBounds
                  /\ JournalInv /\ JournalBounds /\ FilesInv
                  /\ HostInv /\ StrayBounds /\ JailInv
<1>1. PanelInit => Inv
  BY InitInductive, InitLife, InitSettings, InitHub, InitHubBounds, InitJournal,
     InitJournalBounds, InitFiles, InitHost, InitStrayBounds, InitJail DEF PanelInit
<1>2. Inv /\ [PanelNext]_panelVars => Inv'
  <2> SUFFICES ASSUME Inv, [PanelNext]_panelVars PROVE Inv'
    OBVIOUS
  <2>1. IInv' /\ LifeInv' /\ SaveInv' /\ HubInv' /\ JournalInv'
    BY NextInductive, NextLife, NextSettings, NextHub, NextJournal, PanelMovesAccess,
       PanelMovesLife, PanelMovesSettings, PanelMovesHub, PanelMovesJournal
  <2>2. FilesInv' /\ HostInv' /\ JailInv'
    BY NextFiles, NextHost, NextJail, PanelMovesUsers, PanelMovesJail
  <2>3. HubBounds' /\ JournalBounds' /\ StrayBounds'
    BY NextHubBounds, NextJournalBounds, NextStrayBounds, PanelMovesHub, PanelMovesJournal,
       PanelMovesUsers
  <2> QED BY <2>1, <2>2, <2>3
<1>3. Inv => PartsTypeOK
  <2>1. IInv => TypeOK
    BY DEF IInv
  <2>2. LifeInv => Life!TypeOK
    BY DEF LifeInv
  <2> QED BY <2>1, <2>2, HubTyped, JournalTyped, SettingsTyped, FilesTyped, UsersTyped,
             JailTyped DEF PartsTypeOK
<1> HIDE DEF Inv
<1> QED BY <1>1, <1>2, <1>3, PTL DEF PanelSpec, panelVars
=============================================================================
