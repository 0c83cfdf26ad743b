------------------------ MODULE TrafficPackageProofs ------------------------
(***************************************************************************)
(* What holds of module TrafficPackage for any callers, package ids, sizes *)
(* and amounts.  The induction rests on what a running call has read: its  *)
(* packages are packages of the file in their order, and whatever comes    *)
(* before one of them has nothing left or is to be charged earlier by the  *)
(* same call (InOrder).                                                    *)
(***************************************************************************)
EXTENDS TrafficPackage, Sums, SequenceTheorems

\* The packages ps are well-formed, not overdrawn, and have different ids.
PackagesOK(ps) ==
  /\ ps \in Seq(Package)
  /\ \A i \in 1..Len(ps) : ps[i].left <= ps[i].amount
  /\ \A i, j \in 1..Len(ps) : ps[i].id = ps[j].id => i = j

\* infos are read from ps, all that had something left then, in their order.
InOrder(ps, infos) ==
  /\ \A k \in 1..Len(infos) :
       infos[k].left > 0 /\ \E i \in 1..Len(ps) : ps[i].id = infos[k].id
  /\ \A k, l \in 1..Len(infos), i, j \in 1..Len(ps) :
       k < l /\ ps[i].id = infos[k].id /\ ps[j].id = infos[l].id => i < j
  /\ \A k \in 1..Len(infos), i, j \in 1..Len(ps) :
       j < i /\ ps[i].id = infos[k].id =>
         ps[j].left = 0 \/ \E l \in 1..Len(infos) : l < k /\ ps[j].id = infos[l].id

\* A call and what it has read; what it reports is never more than it was asked for.
CallTyped(x) ==
  /\ x \in [pc : {"idle", "consume", "try", "done"}, asked : Nat,
            n : Nat, infos : Seq(Package), refused : BOOLEAN]
  /\ x.n <= x.asked
  /\ x.pc \in {"consume", "try"} => x.n > 0
  /\ x.pc = "consume" => x.n = x.asked /\ x.n <= GetAmount(x.infos)

\* The calls cl, and what they have reported, gr.
CallsOK(cl, gr) ==
  /\ cl = [c \in Callers |-> cl[c]]
  /\ \A c \in Callers : CallTyped(cl[c])
  /\ gr \in [Callers -> Nat]

ReadsInOrder ==
  \A c \in Callers : call[c].pc \in {"consume", "try"} => InOrder(packages, call[c].infos)

WellFormed == PackagesOK(packages) /\ CallsOK(call, granted) /\ ReadsInOrder

TrafficInv == WellFormed /\ ChargedIsReported /\ OldestFirst

-----------------------------------------------------------------------------
(* The smaller of two amounts.                                              *)
LEMMA MinOfTwo ==
  ASSUME NEW a \in Int, NEW b \in Int
  PROVE  Min({a, b}) = IF a <= b THEN a ELSE b
<1>1. \E x \in {a, b} : \A y \in {a, b} : x <= y
  OBVIOUS
<1>2. Min({a, b}) \in {a, b} /\ \A y \in {a, b} : Min({a, b}) <= y
  BY <1>1 DEF Min
<1>. QED BY <1>2

(* What GetPackages returns, after i of the packages.                       *)
Kept(ps, i, s) ==
  /\ s \in Seq(Package)
  /\ \A k \in 1..Len(s) : s[k].left > 0 /\ \E j \in 1..i : s[k] = ps[j]
  /\ \A k, l \in 1..Len(s), j, m \in 1..i :
       k < l /\ s[k] = ps[j] /\ s[l] = ps[m] => j < m
  /\ \A j \in 1..i : ps[j].left > 0 => \E k \in 1..Len(s) : s[k] = ps[j]

(* One more package is looked at.                                           *)
LEMMA KeptNext ==
  ASSUME NEW ps, PackagesOK(ps), NEW i \in 1..Len(ps), NEW s, Kept(ps, i - 1, s)
  PROVE  Kept(ps, i, IF ps[i].left > 0 THEN Append(s, ps[i]) ELSE s)
<1>1. /\ ps \in Seq(Package) /\ ps[i] \in Package
      /\ ps[i].left \in Nat
      /\ \A j, m \in 1..Len(ps) : ps[j] = ps[m] => j = m
  <2>1. ps \in Seq(Package)
    BY DEF PackagesOK
  <2>2. ps[i] \in Package
    BY <2>1, ElementOfSeq
  <2>. QED BY <2>1, <2>2 DEF PackagesOK, Package
<1>2. CASE ps[i].left > 0
  <2>. DEFINE t == Append(s, ps[i])
  <2>1. /\ t \in Seq(Package) /\ Len(t) = Len(s) + 1 /\ Len(s) \in Nat
        /\ \A k \in 1..Len(s) : t[k] = s[k]
        /\ t[Len(s) + 1] = ps[i]
    BY <1>1 DEF Kept
  <2>. HIDE DEF t
  <2>2. ASSUME NEW k \in 1..Len(t)
        PROVE  t[k].left > 0 /\ \E j \in 1..i : t[k] = ps[j]
    <3>1. CASE k \in 1..Len(s)
      <4>1. t[k].left > 0 /\ \E j \in 1..(i - 1) : t[k] = ps[j]
        BY <2>1, <3>1 DEF Kept
      <4>. QED BY <4>1
    <3>2. CASE k = Len(s) + 1
      BY <1>2, <2>1, <3>2
    <3>. QED BY <2>1, <3>1, <3>2
  <2>3. ASSUME NEW k \in 1..Len(t), NEW l \in 1..Len(t), NEW j \in 1..i, NEW m \in 1..i,
               k < l, t[k] = ps[j], t[l] = ps[m]
        PROVE  j < m
    <3>1. k \in 1..Len(s) /\ t[k] = s[k]
      BY <2>1, <2>3
    <3>2. \E p \in 1..(i - 1) : s[k] = ps[p]
      BY <3>1 DEF Kept
    <3>3. j \in 1..(i - 1)
      BY <3>1, <3>2, <1>1, <2>3
    <3>4. CASE l = Len(s) + 1
      <4>1. m = i
        BY <1>1, <2>1, <2>3, <3>4
      <4>. QED BY <3>3, <4>1
    <3>5. CASE l \in 1..Len(s)
      <4>1. \E p \in 1..(i - 1) : s[l] = ps[p]
        BY <3>5 DEF Kept
      <4>2. m \in 1..(i - 1)
        BY <4>1, <3>5, <1>1, <2>1, <2>3
      <4>. QED BY <3>1, <3>3, <3>5, <4>2, <2>1, <2>3 DEF Kept
    <3>. QED BY <2>1, <3>4, <3>5
  <2>4. ASSUME NEW j \in 1..i, ps[j].left > 0
        PROVE  \E k \in 1..Len(t) : t[k] = ps[j]
    <3>1. CASE j = i
      BY <2>1, <3>1
    <3>2. CASE j \in 1..(i - 1)
      <4>1. PICK k \in 1..Len(s) : s[k] = ps[j]
        BY <3>2, <2>4 DEF Kept
      <4>. QED BY <4>1, <2>1
    <3>. QED BY <3>1, <3>2
  <2>5. Kept(ps, i, t)
    BY <2>1, <2>2, <2>3, <2>4 DEF Kept
  <2>. QED BY <1>2, <2>5 DEF t
<1>3. CASE ~(ps[i].left > 0)
  <2>1. s \in Seq(Package)
    BY DEF Kept
  <2>2. \A k \in 1..Len(s) : s[k].left > 0 /\ \E j \in 1..i : s[k] = ps[j]
    BY DEF Kept
  <2>3. ASSUME NEW k \in 1..Len(s), NEW j \in 1..i, s[k] = ps[j]
        PROVE  j \in 1..(i - 1)
    BY <1>3, <2>2, <2>3
  <2>4. \A k, l \in 1..Len(s), j, m \in 1..i :
          k < l /\ s[k] = ps[j] /\ s[l] = ps[m] => j < m
    BY <2>3 DEF Kept
  <2>5. \A j \in 1..i : ps[j].left > 0 => \E k \in 1..Len(s) : s[k] = ps[j]
    <3>1. \A j \in 1..i : j = i \/ j \in 1..(i - 1)
      OBVIOUS
    <3>. QED BY <1>3, <3>1 DEF Kept
  <2>6. Kept(ps, i, s)
    BY <2>1, <2>2, <2>4, <2>5 DEF Kept
  <2>. QED BY <1>3, <2>6
<1>. QED BY <1>2, <1>3

\* g solves the recursion of GetPackages for the first n of the packages ps.
Scans(ps, g, n) ==
  g = [i \in 0..n |-> IF i = 0 THEN <<>>
                      ELSE IF ps[i].left > 0 THEN Append(g[i - 1], ps[i])
                      ELSE g[i - 1]]

(* The recursion has a solution.                                            *)
LEMMA ScanExists ==
  ASSUME NEW ps, NEW n \in Nat
  PROVE  \E g : Scans(ps, g, n)
<1>. DEFINE G == {i \in 0..n : \E g : Scans(ps, g, i)}
<1>1. 0 \in G
  <2>1. Scans(ps, [i \in 0..0 |-> <<>>], 0)
    BY DEF Scans
  <2>. QED BY <2>1
<1>2. ASSUME NEW i \in 0..n, i < n, i \in G
      PROVE  i + 1 \in G
  <2>1. PICK g : Scans(ps, g, i)
    BY <1>2
  <2>. DEFINE next == IF ps[i + 1].left > 0 THEN Append(g[i], ps[i + 1]) ELSE g[i]
              h == [j \in 0..(i + 1) |-> IF j = i + 1 THEN next ELSE g[j]]
  <2>2. ASSUME NEW j \in 0..(i + 1)
        PROVE  h[j] = IF j = 0 THEN <<>>
                      ELSE IF ps[j].left > 0 THEN Append(h[j - 1], ps[j])
                      ELSE h[j - 1]
    <3>1. CASE j = i + 1
      <4>1. h[j - 1] = g[i] /\ h[j] = next /\ j # 0
        BY <3>1
      <4>. QED BY <3>1, <4>1
    <3>2. CASE j \in 0..i
      <4>1. h[j] = g[j] /\ (j # 0 => h[j - 1] = g[j - 1])
        BY <3>2
      <4>2. g[j] = IF j = 0 THEN <<>>
                   ELSE IF ps[j].left > 0 THEN Append(g[j - 1], ps[j])
                   ELSE g[j - 1]
        BY <2>1, <3>2 DEF Scans
      <4>. HIDE DEF h
      <4>. QED BY <4>1, <4>2
    <3>. QED BY <3>1, <3>2
  <2>3. h = [j \in 0..(i + 1) |-> h[j]]
    OBVIOUS
  <2>4. Scans(ps, h, i + 1)
    <3>. HIDE DEF h
    <3>. QED BY <2>2, <2>3 DEF Scans
  <2>5. \E k : Scans(ps, k, i + 1)
    <3>. HIDE DEF h
    <3>. QED BY <2>4
  <2>6. i + 1 \in 0..n
    BY <1>2
  <2>. QED BY <2>5, <2>6
<1>3. G \in SUBSET (0..n)
  OBVIOUS
<1>4. G = 0..n
  <2>. HIDE DEF G
  <2>. QED BY <1>1, <1>2, <1>3, IndexInduction
<1>. QED BY <1>4

(* GetPackages returns what has something left, all of it, in its order.    *)
LEMMA GetPackagesKeeps ==
  ASSUME PackagesOK(packages)
  PROVE  Kept(packages, Len(packages), GetPackages)
<1>1. packages \in Seq(Package) /\ Len(packages) \in Nat
  BY DEF PackagesOK
<1>2. PICK ps, n : ps = packages /\ n = Len(packages)
  OBVIOUS
<1>3. PICK g : Scans(ps, g, n) /\ GetPackages = g[n]
  <2>1. \E g : Scans(ps, g, n)
    BY <1>1, <1>2, ScanExists
  <2>2. Scans(ps, CHOOSE g : Scans(ps, g, n), n)
    BY <2>1
  <2>3. GetPackages = (CHOOSE g : Scans(ps, g, n))[n]
    BY <1>2 DEF GetPackages, Scans
  <2>. QED BY <2>2, <2>3
<1>. DEFINE G == {i \in 0..n : Kept(ps, i, g[i])}
<1>4. \A i \in 0..n : g[i] = IF i = 0 THEN <<>>
                             ELSE IF ps[i].left > 0 THEN Append(g[i - 1], ps[i])
                             ELSE g[i - 1]
  BY <1>3 DEF Scans
<1>5. n \in Nat /\ n = Len(ps) /\ PackagesOK(ps)
  BY <1>1, <1>2
<1>6. 0 \in G
  <2>1. g[0] = <<>>
    BY <1>4, <1>5
  <2>2. Kept(ps, 0, <<>>)
    BY DEF Kept
  <2>. QED BY <1>5, <2>1, <2>2
<1>7. ASSUME NEW i \in 0..n, i < n, i \in G
      PROVE  i + 1 \in G
  <2>1. i + 1 \in 1..Len(ps) /\ i + 1 \in 0..n /\ (i + 1) - 1 = i /\ i + 1 # 0
    BY <1>5, <1>7
  <2>2. PICK j : j = i + 1
    OBVIOUS
  <2>3. Kept(ps, j - 1, g[i]) /\ j \in 1..Len(ps)
    BY <1>7, <2>1, <2>2
  <2>4. Kept(ps, j, IF ps[j].left > 0 THEN Append(g[i], ps[j]) ELSE g[i])
    BY <1>5, <2>3, KeptNext
  <2>5. g[j] = IF ps[j].left > 0 THEN Append(g[i], ps[j]) ELSE g[i]
    BY <1>4, <2>1, <2>2
  <2>. QED BY <2>1, <2>2, <2>4, <2>5
<1>8. G \in SUBSET (0..n)
  OBVIOUS
<1>9. G = 0..n
  <2>. HIDE DEF G
  <2>. QED BY <1>5, <1>6, <1>7, <1>8, IndexInduction
<1>10. n \in G
  BY <1>5, <1>9
<1>. QED BY <1>10, <1>2, <1>3

(* So a call goes on with its packages in order.                            *)
LEMMA GetPackagesInOrder ==
  ASSUME PackagesOK(packages)
  PROVE  GetPackages \in Seq(Package) /\ InOrder(packages, GetPackages)
<1>1. PICK ps, s : ps = packages /\ s = GetPackages
  OBVIOUS
<1>2. Kept(ps, Len(ps), s) /\ PackagesOK(ps)
  BY <1>1, GetPackagesKeeps
<1>3. /\ \A i, j \in 1..Len(ps) : ps[i].id = ps[j].id => i = j
      /\ \A i \in 1..Len(ps) : ps[i].left \in Nat
  <2>1. ps \in Seq(Package)
    BY <1>2 DEF PackagesOK
  <2>2. \A i \in 1..Len(ps) : ps[i] \in Package
    BY <2>1, ElementOfSeq
  <2>. QED BY <1>2, <2>2 DEF PackagesOK, Package
<1>4. \A k \in 1..Len(s) : s[k].left > 0 /\ \E i \in 1..Len(ps) : s[k] = ps[i]
  BY <1>2 DEF Kept
<1>5. \A k \in 1..Len(s), i \in 1..Len(ps) : ps[i].id = s[k].id => s[k] = ps[i]
  BY <1>3, <1>4
<1>6. \A k, l \in 1..Len(s), i, j \in 1..Len(ps) :
        k < l /\ ps[i].id = s[k].id /\ ps[j].id = s[l].id => i < j
  BY <1>2, <1>5 DEF Kept
<1>7. ASSUME NEW k \in 1..Len(s), NEW i \in 1..Len(ps), NEW j \in 1..Len(ps),
             j < i, ps[i].id = s[k].id, ps[j].left # 0
      PROVE  \E l \in 1..Len(s) : l < k /\ ps[j].id = s[l].id
  <2>1. PICK l \in 1..Len(s) : s[l] = ps[j]
    BY <1>2, <1>3, <1>7 DEF Kept
  <2>2. l # k
    BY <1>3, <1>7, <2>1
  <2>3. ~(k < l)
    BY <1>6, <1>7, <2>1
  <2>4. s \in Seq(Package)
    BY <1>2 DEF Kept
  <2>. QED BY <2>1, <2>2, <2>3, <2>4
<1>8. \A k \in 1..Len(s) : s[k].left > 0 /\ \E i \in 1..Len(ps) : ps[i].id = s[k].id
  BY <1>4
<1>9. s \in Seq(Package) /\ InOrder(ps, s)
  BY <1>2, <1>6, <1>7, <1>8 DEF Kept, InOrder
<1>. QED BY <1>1, <1>9

-----------------------------------------------------------------------------
(* What typed packages are made of.                                         *)
LEMMA PackageFields ==
  ASSUME NEW ps \in Seq(Package), NEW i \in 1..Len(ps)
  PROVE  /\ ps[i] \in Package
         /\ ps[i].id \in PackageIDs /\ ps[i].amount \in Nat /\ ps[i].left \in Nat
<1>1. ps[i] \in Package
  BY ElementOfSeq
<1>. QED BY <1>1 DEF Package

\* The packages qs are the packages ps after the charges cds.
ChargedBy(ps, qs, cds) ==
  /\ Len(qs) = Len(ps)
  /\ \A i \in 1..Len(ps) : qs[i].id = ps[i].id /\ qs[i].amount = ps[i].amount
  /\ \A i \in 1..Len(ps), cd \in cds : cd.id = ps[i].id =>
       ps[i].left = cd.old /\ cd.take <= cd.old /\ qs[i].left = ps[i].left - cd.take
  /\ \A i \in 1..Len(ps) : (\A cd \in cds : cd.id # ps[i].id) => qs[i].left = ps[i].left

\* The charges cds, at most one of a package.
Charges(cds) ==
  /\ \A cd \in cds : cd.take \in Nat
  /\ \A a, b \in cds : a.id = b.id => a = b

(* Charges that Consume has checked are made as they are meant, and leave   *)
(* the packages in order.                                                   *)
LEMMA ChargeMade ==
  ASSUME PackagesOK(packages), NEW cds, Charges(cds), Accepts(cds)
  PROVE  PackagesOK(Charge(cds)) /\ ChargedBy(packages, Charge(cds), cds)
<1>1. PICK ps, qs : ps = packages /\ qs = Charge(cds)
  OBVIOUS
<1>2. /\ ps \in Seq(Package) /\ Len(ps) \in Nat
      /\ \A i \in 1..Len(ps) : ps[i].left <= ps[i].amount
      /\ \A i, j \in 1..Len(ps) : ps[i].id = ps[j].id => i = j
  BY <1>1 DEF PackagesOK
<1>. DEFINE Mine(i) == {cd \in cds : cd.id = ps[i].id}
<1>3. qs = [i \in 1..Len(ps) |->
              IF Mine(i) = {} THEN ps[i]
              ELSE [ps[i] EXCEPT !.left = @ - (CHOOSE cd \in Mine(i) : TRUE).take]]
  BY <1>1 DEF Charge
<1>4. \A cd \in cds, i \in 1..Len(ps) : cd.id = ps[i].id =>
        ps[i].left = cd.old /\ cd.take <= cd.old
  <2>1. \A cd \in cds : \E i \in 1..Len(ps) :
          ps[i].id = cd.id /\ ps[i].left = cd.old /\ cd.take <= ps[i].left
    <3>1. DOMAIN ps = 1..Len(ps)
      BY <1>2
    <3>. QED BY <1>1, <3>1 DEF Accepts, Range
  <2>. QED BY <2>1, <1>2
<1>5. ASSUME NEW i \in 1..Len(ps), NEW cd \in cds, cd.id = ps[i].id
      PROVE  qs[i] = [ps[i] EXCEPT !.left = @ - cd.take]
  <2>1. Mine(i) = {cd}
    BY <1>5 DEF Charges
  <2>2. Mine(i) # {} /\ (CHOOSE x \in Mine(i) : TRUE) = cd
    BY <2>1
  <2>. HIDE DEF Mine
  <2>. QED BY <1>3, <2>2
<1>6. ASSUME NEW i \in 1..Len(ps), \A cd \in cds : cd.id # ps[i].id
      PROVE  qs[i] = ps[i]
  <2>1. Mine(i) = {}
    BY <1>6
  <2>. HIDE DEF Mine
  <2>. QED BY <1>3, <2>1
<1>. HIDE DEF Mine
<1>7. ASSUME NEW i \in 1..Len(ps)
      PROVE  /\ qs[i] \in Package
             /\ qs[i].id = ps[i].id /\ qs[i].amount = ps[i].amount
             /\ qs[i].left <= ps[i].left
             /\ \A cd \in cds : cd.id = ps[i].id => qs[i].left = ps[i].left - cd.take
  <2>1. ps[i] \in Package /\ ps[i].left \in Nat
    BY <1>2, PackageFields
  <2>2. CASE \E cd \in cds : cd.id = ps[i].id
    <3>1. PICK cd \in cds : cd.id = ps[i].id
      BY <2>2
    <3>2. cd.take \in Nat /\ ps[i].left = cd.old /\ cd.take <= cd.old
      BY <1>4, <3>1 DEF Charges
    <3>3. qs[i] = [ps[i] EXCEPT !.left = @ - cd.take]
      BY <1>5, <3>1
    <3>4. ps[i].left - cd.take \in Nat /\ ps[i].left - cd.take <= ps[i].left
      BY <2>1, <3>2
    <3>5. \A x \in cds : x.id = ps[i].id => x = cd
      BY <3>1 DEF Charges
    <3>. QED BY <2>1, <3>3, <3>4, <3>5 DEF Package
  <2>3. CASE \A cd \in cds : cd.id # ps[i].id
    BY <1>6, <2>1, <2>3
  <2>. QED BY <2>2, <2>3
<1>8. qs \in Seq(Package) /\ Len(qs) = Len(ps)
  <2>1. qs = [i \in 1..Len(ps) |-> qs[i]]
    BY <1>3
  <2>2. [i \in 1..Len(ps) |-> qs[i]] \in Seq(Package)
    BY <1>2, <1>7, IsASeq
  <2>3. DOMAIN qs = 1..Len(ps)
    BY <1>3
  <2>. QED BY <1>2, <2>1, <2>2, <2>3, LenProperties
<1>9. ASSUME NEW i \in 1..Len(ps)
      PROVE  qs[i].left <= qs[i].amount
  <2>1. /\ qs[i].left \in Nat /\ ps[i].left \in Nat /\ ps[i].amount \in Nat
    BY <1>2, <1>8, PackageFields
  <2>. QED BY <1>2, <1>7, <2>1
<1>10. PackagesOK(qs)
  BY <1>2, <1>7, <1>8, <1>9 DEF PackagesOK
<1>11. ChargedBy(ps, qs, cds)
  BY <1>4, <1>6, <1>7, <1>8 DEF ChargedBy
<1>. QED BY <1>1, <1>10, <1>11

\* The packages qs are ps after a while: packages stay where they are, what is
\* left of them does not grow.
Later(ps, qs) ==
  /\ Len(ps) <= Len(qs)
  /\ \A i \in 1..Len(ps) : qs[i].id = ps[i].id /\ qs[i].left <= ps[i].left

(* Charges are no more than that.                                           *)
LEMMA ChargedLater ==
  ASSUME NEW ps, NEW qs, NEW cds, PackagesOK(ps), PackagesOK(qs), Charges(cds),
         ChargedBy(ps, qs, cds)
  PROVE  Later(ps, qs)
<1>1. Len(ps) \in Nat /\ Len(qs) = Len(ps) /\ ps \in Seq(Package)
  BY DEF PackagesOK, ChargedBy
<1>2. ASSUME NEW i \in 1..Len(ps)
      PROVE  qs[i].id = ps[i].id /\ qs[i].left <= ps[i].left
  <2>1. ps[i].left \in Nat
    BY <1>1, PackageFields
  <2>2. CASE \E cd \in cds : cd.id = ps[i].id
    <3>1. PICK cd \in cds : cd.id = ps[i].id
      BY <2>2
    <3>2. cd.take \in Nat /\ qs[i].left = ps[i].left - cd.take
      BY <3>1 DEF Charges, ChargedBy
    <3>. QED BY <2>1, <3>2 DEF ChargedBy
  <2>3. CASE \A cd \in cds : cd.id # ps[i].id
    BY <2>1, <2>3 DEF ChargedBy
  <2>. QED BY <2>2, <2>3
<1>. QED BY <1>1, <1>2 DEF Later

(* What a call has read stays in order while others charge and add.         *)
LEMMA InOrderLater ==
  ASSUME NEW ps, NEW qs, NEW infos, PackagesOK(ps), PackagesOK(qs), Later(ps, qs),
         InOrder(ps, infos)
  PROVE  InOrder(qs, infos)
<1>1. /\ ps \in Seq(Package) /\ qs \in Seq(Package)
      /\ \A i, j \in 1..Len(qs) : qs[i].id = qs[j].id => i = j
      /\ Len(ps) \in Nat /\ Len(qs) \in Nat /\ Len(ps) <= Len(qs)
  BY DEF PackagesOK, Later
<1>2. \A i \in 1..Len(ps) : i \in 1..Len(qs) /\ qs[i].id = ps[i].id
  BY <1>1 DEF Later
<1>3. ASSUME NEW k \in 1..Len(infos), NEW i \in 1..Len(qs), qs[i].id = infos[k].id
      PROVE  i \in 1..Len(ps) /\ ps[i].id = infos[k].id
  <2>1. PICK j \in 1..Len(ps) : ps[j].id = infos[k].id
    BY DEF InOrder
  <2>2. qs[j].id = infos[k].id /\ j \in 1..Len(qs)
    BY <1>2, <2>1
  <2>3. i = j
    BY <1>1, <1>3, <2>2
  <2>. QED BY <2>1, <2>3
<1>4. \A k \in 1..Len(infos) :
        infos[k].left > 0 /\ \E i \in 1..Len(qs) : qs[i].id = infos[k].id
  BY <1>2 DEF InOrder
<1>5. \A k, l \in 1..Len(infos), i, j \in 1..Len(qs) :
        k < l /\ qs[i].id = infos[k].id /\ qs[j].id = infos[l].id => i < j
  BY <1>3 DEF InOrder
<1>6. ASSUME NEW k \in 1..Len(infos), NEW i \in 1..Len(qs), NEW j \in 1..Len(qs),
             j < i, qs[i].id = infos[k].id
      PROVE  qs[j].left = 0 \/ \E l \in 1..Len(infos) : l < k /\ qs[j].id = infos[l].id
  <2>1. i \in 1..Len(ps) /\ ps[i].id = infos[k].id
    BY <1>3, <1>6
  <2>2. j \in 1..Len(ps)
    BY <1>6, <2>1
  <2>3. ps[j].left = 0 \/ \E l \in 1..Len(infos) : l < k /\ ps[j].id = infos[l].id
    BY <1>6, <2>1, <2>2 DEF InOrder
  <2>4. qs[j].id = ps[j].id /\ qs[j].left <= ps[j].left /\ qs[j].left \in Nat
    BY <1>1, <1>2, <2>2, PackageFields DEF Later
  <2>. QED BY <2>3, <2>4
<1>. QED BY <1>4, <1>5, <1>6 DEF InOrder

-----------------------------------------------------------------------------
\* What is left on each of the packages read, and on those before the k-th.
Lefts(infos)     == [i \in 1..Len(infos) |-> infos[i].left]
Before(infos, k) == GetAmount(SubSeq(infos, 1, k - 1))

(* GetAmount is a sum over the indices.                                     *)
LEMMA AmountIsSum ==
  ASSUME NEW infos
  PROVE  GetAmount(infos) = SumFunctionOnSet(Lefts(infos), 1..Len(infos))
<1>1. DOMAIN Lefts(infos) = 1..Len(infos)
  BY DEF Lefts
<1>2. GetAmount(infos) = SumFunctionOnSet(Lefts(infos), DOMAIN Lefts(infos))
  BY DEF GetAmount, SumFunction, Lefts
<1>. QED BY <1>1, <1>2

LEMMA LeftsTyped ==
  ASSUME NEW infos \in Seq(Package), NEW n \in Nat, n <= Len(infos)
  PROVE  /\ IsFiniteSet(1..n)
         /\ \A i \in 1..n : Lefts(infos)[i] \in Nat /\ Lefts(infos)[i] = infos[i].left
<1>1. IsFiniteSet(1..n)
  BY FS_Interval
<1>2. ASSUME NEW i \in 1..n
      PROVE  Lefts(infos)[i] \in Nat /\ Lefts(infos)[i] = infos[i].left
  <2>1. Len(infos) \in Nat
    OBVIOUS
  <2>2. i \in 1..Len(infos)
    BY <2>1
  <2>. QED BY <2>2, PackageFields DEF Lefts
<1>. QED BY <1>1, <1>2

LEMMA BeforeIsSum ==
  ASSUME NEW infos \in Seq(Package), NEW k \in 1..(Len(infos) + 1)
  PROVE  Before(infos, k) = SumFunctionOnSet(Lefts(infos), 1..(k - 1))
<1>1. Len(infos) \in Nat
  OBVIOUS
<1>2. PICK n \in Nat : n = k - 1
  BY <1>1
<1>3. n <= Len(infos)
  BY <1>1, <1>2
<1>4. PICK s : s = SubSeq(infos, 1, n)
  OBVIOUS
<1>5. s \in Seq(Package) /\ Len(s) = n /\ \A i \in 1..n : s[i] = infos[i]
  <2>1. 1 \in 1..(Len(infos) + 1) /\ n \in (1 - 1)..Len(infos)
    BY <1>1, <1>3
  <2>. QED BY <1>1, <1>3, <1>4, <2>1, SubSeqProperties
<1>6. Before(infos, k) = SumFunctionOnSet(Lefts(s), 1..n)
  <2>1. Before(infos, k) = GetAmount(s)
    BY <1>2, <1>4 DEF Before
  <2>2. GetAmount(s) = SumFunctionOnSet(Lefts(s), 1..Len(s))
    BY AmountIsSum
  <2>. QED BY <1>5, <2>1, <2>2
<1>7. SumFunctionOnSet(Lefts(s), 1..n) = SumFunctionOnSet(Lefts(infos), 1..n)
  <2>1. \A i \in 1..n : Lefts(s)[i] = Lefts(infos)[i]
    <3>1. n <= Len(s)
      BY <1>5
    <3>2. \A i \in 1..n : Lefts(s)[i] = s[i].left
      BY <1>5, <3>1, LeftsTyped
    <3>3. \A i \in 1..n : Lefts(infos)[i] = infos[i].left
      BY <1>3, LeftsTyped
    <3>. QED BY <1>5, <3>2, <3>3
  <2>2. PICK S : S = 1..n
    OBVIOUS
  <2>3. IsFiniteSet(S) /\ \A i \in S : Lefts(s)[i] = Lefts(infos)[i]
    BY <1>3, <2>1, <2>2, LeftsTyped
  <2>4. SumFunctionOnSet(Lefts(s), S) = SumFunctionOnSet(Lefts(infos), S)
    BY <2>3, SumSame
  <2>. QED BY <2>2, <2>4
<1>. QED BY <1>2, <1>6, <1>7

\* The amounts before the packages read add up.
BeforeAddsUp(infos) ==
  /\ Before(infos, 1) = 0
  /\ \A k \in 1..(Len(infos) + 1) : Before(infos, k) \in Nat
  /\ \A k \in 1..Len(infos) : Before(infos, k + 1) = Before(infos, k) + infos[k].left
  /\ \A k, l \in 1..Len(infos) :
       l < k => Before(infos, l) + infos[l].left <= Before(infos, k)
  /\ GetAmount(infos) = Before(infos, Len(infos) + 1)

(* They do.                                                                 *)
LEMMA BeforeSums ==
  ASSUME NEW infos \in Seq(Package)
  PROVE  BeforeAddsUp(infos)
<1>. DEFINE F == Lefts(infos)
            Sum(n) == SumFunctionOnSet(F, 1..n)
<1>1. Len(infos) \in Nat
  OBVIOUS
<1>2. ASSUME NEW n \in Nat, n <= Len(infos)
      PROVE  Sum(n) \in Nat
  <2>1. PICK X : X = 1..n
    OBVIOUS
  <2>2. IsFiniteSet(X) /\ \A i \in X : F[i] \in Nat
    BY <1>2, <2>1, LeftsTyped
  <2>3. SumFunctionOnSet(F, X) \in Nat
    BY <2>2, SumNat
  <2>. QED BY <2>1, <2>3
<1>3. Sum(0) = 0
  <2>1. 1..0 = {}
    OBVIOUS
  <2>2. SumFunctionOnSet(F, {}) = 0
    BY SumEmpty
  <2>. QED BY <2>1, <2>2
<1>4. ASSUME NEW k \in 1..Len(infos)
      PROVE  Sum(k) = Sum(k - 1) + infos[k].left
  <2>1. PICK X, Y : X = 1..k /\ Y = 1..(k - 1)
    OBVIOUS
  <2>2. X \ {k} = Y /\ k \in X
    BY <2>1
  <2>3. PICK f : f = F
    OBVIOUS
  <2>4. /\ IsFiniteSet(X) /\ f[k] = infos[k].left /\ f[k] \in Nat
        /\ \A i \in X : f[i] \in Int
    BY <1>1, <2>1, <2>3, LeftsTyped
  <2>5. SumFunctionOnSet(f, X) = f[k] + SumFunctionOnSet(f, X \ {k})
    <3>1. PICK e : e = k
      OBVIOUS
    <3>2. e \in X
      BY <2>2, <3>1
    <3>3. IsFiniteSet(X) /\ \A i \in X : f[i] \in Int
      BY <2>4
    <3>4. SumFunctionOnSet(f, X) = f[e] + SumFunctionOnSet(f, X \ {e})
      BY <3>3, <3>2, SumRemove
    <3>. QED BY <3>1, <3>4
  <2>6. k - 1 \in Nat /\ k - 1 <= Len(infos)
    BY <1>1
  <2>7. Sum(k - 1) \in Nat
    BY <1>2, <2>6
  <2>8. Sum(k) = SumFunctionOnSet(f, X) /\ Sum(k - 1) = SumFunctionOnSet(f, X \ {k})
    BY <2>1, <2>2, <2>3
  <2>. HIDE DEF Sum
  <2>. QED BY <2>4, <2>5, <2>7, <2>8
<1>5. ASSUME NEW k \in 1..Len(infos), NEW l \in 1..Len(infos), l < k
      PROVE  Sum(l) <= Sum(k - 1)
  <2>1. PICK X, Y : X = 1..(k - 1) /\ Y = 1..l
    OBVIOUS
  <2>2. Y \in SUBSET X
    BY <1>5, <2>1
  <2>3. k - 1 \in Nat /\ k - 1 <= Len(infos)
    BY <1>1
  <2>4. IsFiniteSet(X) /\ (\A i \in X : F[i] \in Nat)
    BY <2>1, <2>3, LeftsTyped
  <2>. HIDE DEF F
  <2>5. SumFunctionOnSet(F, Y) <= SumFunctionOnSet(F, X)
    BY <2>2, <2>4, SumPart
  <2>. QED BY <2>1, <2>5
<1>. HIDE DEF F, Sum
<1>6. ASSUME NEW k \in 1..(Len(infos) + 1)
      PROVE  Before(infos, k) = Sum(k - 1) /\ k - 1 \in Nat /\ k - 1 <= Len(infos)
  BY <1>1, BeforeIsSum DEF Sum, F
<1>7. Before(infos, 1) = 0
  <2>1. 1 \in 1..(Len(infos) + 1)
    BY <1>1
  <2>2. 1 - 1 = 0
    OBVIOUS
  <2>. QED BY <1>3, <1>6, <2>1, <2>2
<1>8. \A k \in 1..(Len(infos) + 1) : Before(infos, k) \in Nat
  BY <1>2, <1>6
<1>9. ASSUME NEW k \in 1..Len(infos)
      PROVE  /\ Before(infos, k + 1) = Before(infos, k) + infos[k].left
             /\ Before(infos, k + 1) = Sum(k)
  <2>1. /\ k \in 1..(Len(infos) + 1) /\ k + 1 \in 1..(Len(infos) + 1)
        /\ (k + 1) - 1 = k
    BY <1>1
  <2>2. Before(infos, k + 1) = Sum((k + 1) - 1)
    BY <1>6, <2>1
  <2>3. Before(infos, k) = Sum(k - 1)
    BY <1>6, <2>1
  <2>. QED BY <1>4, <2>1, <2>2, <2>3
<1>10. ASSUME NEW k \in 1..Len(infos), NEW l \in 1..Len(infos), l < k
       PROVE  Before(infos, l) + infos[l].left <= Before(infos, k)
  <2>1. k \in 1..(Len(infos) + 1)
    BY <1>1
  <2>2. Before(infos, l) + infos[l].left = Sum(l)
    BY <1>9
  <2>3. Before(infos, k) = Sum(k - 1)
    BY <1>6, <2>1
  <2>4. Sum(l) <= Sum(k - 1)
    BY <1>5, <1>10
  <2>. QED BY <2>2, <2>3, <2>4
<1>11. GetAmount(infos) = Before(infos, Len(infos) + 1)
  <2>1. Len(infos) + 1 \in 1..(Len(infos) + 1) /\ (Len(infos) + 1) - 1 = Len(infos)
    BY <1>1
  <2>2. Before(infos, Len(infos) + 1) = Sum((Len(infos) + 1) - 1)
    BY <1>6, <2>1
  <2>3. GetAmount(infos) = Sum(Len(infos))
    BY AmountIsSum DEF Sum, F
  <2>. QED BY <2>1, <2>2, <2>3
<1>12. \A k \in 1..Len(infos) : Before(infos, k + 1) = Before(infos, k) + infos[k].left
  BY <1>9
<1>. QED BY <1>7, <1>8, <1>10, <1>11, <1>12 DEF BeforeAddsUp

(* What a call reads are different packages.                                *)
LEMMA InfosDiffer ==
  ASSUME NEW ps, NEW infos \in Seq(Package), PackagesOK(ps), InOrder(ps, infos),
         NEW k \in 1..Len(infos), NEW l \in 1..Len(infos), infos[k].id = infos[l].id
  PROVE  k = l
<1>1. PICK i \in 1..Len(ps) : ps[i].id = infos[k].id
  BY DEF InOrder
<1>2. ~(k < l) /\ ~(l < k)
  <2>1. ps[i].id = infos[l].id /\ i \in Int /\ ~(i < i)
    BY <1>1
  <2>. QED BY <1>1, <2>1 DEF InOrder
<1>. QED BY <1>2

\* The charges cds take n from the packages read, the first ones whole.
Spread(infos, n, cds) ==
  /\ \A k \in 1..Len(infos) : Before(infos, k) < n =>
       \E cd \in cds :
         /\ cd.id = infos[k].id /\ cd.old = infos[k].left
         /\ cd.take = IF infos[k].left <= n - Before(infos, k) THEN infos[k].left
                      ELSE n - Before(infos, k)
  /\ \A cd \in cds : \E k \in 1..Len(infos) :
       Before(infos, k) < n /\ cd.id = infos[k].id

(* So does ConsumeAmount.                                                   *)
LEMMA ConsumeSpreads ==
  ASSUME NEW ps, NEW infos \in Seq(Package), PackagesOK(ps), InOrder(ps, infos), NEW n \in Nat
  PROVE  Charges(ConsumeData(infos, n)) /\ Spread(infos, n, ConsumeData(infos, n))
<1>. DEFINE cd(k) == [id |-> infos[k].id, take |-> Min({infos[k].left, n - Before(infos, k)}),
                      old |-> infos[k].left]
<1>1. PICK cds : cds = ConsumeData(infos, n)
  OBVIOUS
<1>2. cds = {cd(k) : k \in {j \in 1..Len(infos) : Before(infos, j) < n}}
  BY <1>1 DEF ConsumeData, Before
<1>3. ASSUME NEW k \in 1..Len(infos)
      PROVE  /\ cd(k).id = infos[k].id /\ cd(k).old = infos[k].left
             /\ cd(k).take = IF infos[k].left <= n - Before(infos, k) THEN infos[k].left
                             ELSE n - Before(infos, k)
             /\ Before(infos, k) < n => cd(k).take \in Nat
  <2>1. PICK left, rest : left = infos[k].left /\ rest = n - Before(infos, k)
    OBVIOUS
  <2>2. left \in Nat
    BY <2>1, PackageFields
  <2>3. Before(infos, k) \in Nat
    <3>1. k \in 1..(Len(infos) + 1)
      OBVIOUS
    <3>. QED BY <3>1, BeforeSums DEF BeforeAddsUp
  <2>4. rest \in Int /\ (Before(infos, k) < n => rest \in Nat)
    BY <2>1, <2>3
  <2>5. left \in Int
    BY <2>2
  <2>6. Min({left, rest}) = IF left <= rest THEN left ELSE rest
    BY <2>4, <2>5, MinOfTwo
  <2>7. cd(k).take = Min({left, rest})
    BY <2>1
  <2>8. Before(infos, k) < n => cd(k).take \in Nat
    BY <2>2, <2>4, <2>6, <2>7
  <2>. QED BY <2>1, <2>6, <2>7, <2>8
<1>. HIDE DEF cd
<1>4. \A c \in cds : c.take \in Nat
  BY <1>2, <1>3
<1>5. ASSUME NEW a \in cds, NEW b \in cds, a.id = b.id
      PROVE  a = b
  <2>1. PICK k \in 1..Len(infos), l \in 1..Len(infos) : a = cd(k) /\ b = cd(l)
    BY <1>2
  <2>2. infos[k].id = infos[l].id
    BY <1>3, <1>5, <2>1
  <2>3. k = l
    BY <2>2, InfosDiffer
  <2>. QED BY <2>1, <2>3
<1>6. Charges(cds)
  BY <1>4, <1>5 DEF Charges
<1>7. \A k \in 1..Len(infos) : Before(infos, k) < n => cd(k) \in cds
  BY <1>2
<1>8. \A c \in cds : \E k \in 1..Len(infos) : Before(infos, k) < n /\ c.id = infos[k].id
  BY <1>2, <1>3
<1>9. Spread(infos, n, cds)
  BY <1>3, <1>7, <1>8 DEF Spread
<1>. QED BY <1>1, <1>6, <1>9

\* What has been taken off package i, and off all.
TakenOff(ps)  == [i \in 1..Len(ps) |-> ps[i].amount - ps[i].left]
ChargedOn(ps) == SumFunctionOnSet(TakenOff(ps), 1..Len(ps))

LEMMA ChargedIsSum == Charged = ChargedOn(packages)
<1>1. DOMAIN TakenOff(packages) = 1..Len(packages)
  BY DEF TakenOff
<1>2. Charged = SumFunctionOnSet(TakenOff(packages), DOMAIN TakenOff(packages))
  BY DEF Charged, SumFunction, TakenOff
<1>. QED BY <1>1, <1>2 DEF ChargedOn

LEMMA TakenOffTyped ==
  ASSUME NEW ps \in Seq(Package)
  PROVE  /\ IsFiniteSet(1..Len(ps)) /\ Len(ps) \in Nat
         /\ \A i \in 1..Len(ps) : TakenOff(ps)[i] \in Int /\ TakenOff(ps)[i] = ps[i].amount - ps[i].left
         /\ ChargedOn(ps) \in Int
<1>1. IsFiniteSet(1..Len(ps)) /\ Len(ps) \in Nat
  BY FS_Interval
<1>2. ASSUME NEW i \in 1..Len(ps)
      PROVE  TakenOff(ps)[i] \in Int /\ TakenOff(ps)[i] = ps[i].amount - ps[i].left
  BY PackageFields DEF TakenOff
<1>3. ChargedOn(ps) \in Int
  <2>1. PICK X, f : X = 1..Len(ps) /\ f = TakenOff(ps)
    OBVIOUS
  <2>2. IsFiniteSet(X) /\ \A i \in X : f[i] \in Int
    BY <1>1, <1>2, <2>1
  <2>3. SumFunctionOnSet(f, X) \in Int
    BY <2>2, SumInt
  <2>. QED BY <2>1, <2>3 DEF ChargedOn
<1>. QED BY <1>1, <1>2, <1>3

(* Charging n spread over what has been read takes n off the packages.      *)
LEMMA SpreadTakesAll ==
  ASSUME NEW ps, NEW qs, NEW infos \in Seq(Package), NEW n \in Nat, NEW cds,
         PackagesOK(ps), PackagesOK(qs), InOrder(ps, infos), n <= GetAmount(infos),
         Charges(cds), Spread(infos, n, cds), ChargedBy(ps, qs, cds)
  PROVE  ChargedOn(qs) = ChargedOn(ps) + n
<1>. DEFINE N == Len(ps)
            B(k) == Before(infos, k)
            Done(k, i) == \E l \in 1..Len(infos) : l <= k /\ infos[l].id = ps[i].id
            F(k) == [i \in 1..N |-> IF Done(k, i) THEN TakenOff(qs)[i] ELSE TakenOff(ps)[i]]
            S(k) == SumFunctionOnSet(F(k), 1..N)
            Least(k) == IF n <= B(k + 1) THEN n ELSE B(k + 1)
            G == {k \in 0..Len(infos) : S(k) = ChargedOn(ps) + Least(k)}
<1>1. /\ ps \in Seq(Package) /\ qs \in Seq(Package) /\ Len(qs) = N /\ N \in Nat
      /\ \A i, j \in 1..N : ps[i].id = ps[j].id => i = j
      /\ Len(infos) \in Nat
  BY DEF PackagesOK, ChargedBy
<1>2. /\ B(1) = 0 /\ \A k \in 1..(Len(infos) + 1) : B(k) \in Nat
      /\ \A k \in 1..Len(infos) : B(k + 1) = B(k) + infos[k].left
      /\ GetAmount(infos) = B(Len(infos) + 1)
  BY BeforeSums DEF BeforeAddsUp
<1>3. \A i \in 1..N : /\ TakenOff(ps)[i] \in Int /\ TakenOff(qs)[i] \in Int
                      /\ TakenOff(ps)[i] = ps[i].amount - ps[i].left
                      /\ TakenOff(qs)[i] = qs[i].amount - qs[i].left
  BY <1>1, TakenOffTyped
<1>4. ChargedOn(ps) \in Int /\ IsFiniteSet(1..N)
  BY <1>1, TakenOffTyped
<1>5. ASSUME NEW k
      PROVE  \A i \in 1..N : F(k)[i] = IF Done(k, i) THEN TakenOff(qs)[i] ELSE TakenOff(ps)[i]
  OBVIOUS
<1>6. ASSUME NEW k
      PROVE  \A i \in 1..N : F(k)[i] \in Int
  <2>. HIDE DEF F, Done
  <2>. QED BY <1>3, <1>5
<1>. HIDE DEF F
<1>7. 0 \in G
  <2>1. \A i \in 1..N : F(0)[i] = TakenOff(ps)[i]
    BY <1>5
  <2>2. PICK X, f, g : X = 1..N /\ f = F(0) /\ g = TakenOff(ps)
    OBVIOUS
  <2>3. IsFiniteSet(X) /\ \A i \in X : f[i] = g[i]
    BY <1>4, <2>1, <2>2
  <2>4. SumFunctionOnSet(f, X) = SumFunctionOnSet(g, X)
    BY <2>3, SumSame
  <2>5. S(0) = ChargedOn(ps)
    BY <2>2, <2>4 DEF ChargedOn
  <2>6. Least(0) = 0
    BY <1>2
  <2>. HIDE DEF S, Least
  <2>. QED BY <1>1, <1>4, <2>5, <2>6
<1>8. ASSUME NEW m \in 0..Len(infos), m < Len(infos), m \in G
      PROVE  m + 1 \in G
  <2>1. PICK k : k = m + 1
    OBVIOUS
  <2>2. k \in 1..Len(infos) /\ k \in 1..(Len(infos) + 1) /\ k + 1 \in 1..(Len(infos) + 1) /\ m = k - 1
    BY <1>1, <1>8, <2>1
  <2>3. PICK i \in 1..N : ps[i].id = infos[k].id
    BY <2>2 DEF InOrder
  <2>4. ~Done(m, i)
    <3>1. \A l \in 1..Len(infos) : infos[l].id = ps[i].id => l = k
      BY <2>2, <2>3, InfosDiffer
    <3>. QED BY <2>2, <3>1
  <2>5. Done(k, i)
    BY <2>2, <2>3
  <2>6. \A j \in (1..N) \ {i} : F(m)[j] = F(k)[j]
    <3>1. ASSUME NEW j \in (1..N) \ {i}
          PROVE  Done(m, j) <=> Done(k, j)
      <4>1. infos[k].id # ps[j].id
        BY <1>1, <2>3
      <4>2. \A l \in 1..Len(infos) : l # k => (l <= k <=> l <= m)
        BY <2>2
      <4>. QED BY <4>1, <4>2
    <3>. HIDE DEF Done
    <3>. QED BY <1>5, <3>1
  <2>7. S(k) = S(m) - F(m)[i] + F(k)[i]
    <3>1. PICK X, f, g, e : X = 1..N /\ f = F(m) /\ g = F(k) /\ e = i
      OBVIOUS
    <3>2. /\ IsFiniteSet(X) /\ e \in X
          /\ \A j \in X : f[j] \in Int /\ g[j] \in Int
          /\ \A j \in X \ {e} : f[j] = g[j]
      <4>1. \A j \in 1..N : F(m)[j] \in Int /\ F(k)[j] \in Int
        BY <1>6
      <4>. HIDE DEF S, Done, G, Least
      <4>. QED BY <1>4, <2>6, <3>1, <4>1
    <3>3. SumFunctionOnSet(g, X) = SumFunctionOnSet(f, X) - f[e] + g[e]
      BY <3>2, SumUpdate
    <3>. QED BY <3>1, <3>3
  <2>8. F(m)[i] = ps[i].amount - ps[i].left /\ F(k)[i] = qs[i].amount - qs[i].left
    <3>. HIDE DEF Done
    <3>. QED BY <1>3, <1>5, <2>4, <2>5
  <2>9. qs[i].amount = ps[i].amount
    BY DEF ChargedBy
  <2>10. /\ ps[i].amount \in Nat /\ ps[i].left \in Nat /\ qs[i].left \in Nat
         /\ infos[k].left \in Nat
    BY <1>1, <2>2, PackageFields
  <2>11. PICK b, a, t : b = B(k) /\ a = infos[k].left /\ t = ps[i].left - qs[i].left
    OBVIOUS
  <2>12. b \in Nat /\ B(k + 1) = b + a /\ a \in Nat /\ t \in Int
    <3>1. B(k) \in Nat /\ B(k + 1) = B(k) + infos[k].left
      BY <1>2, <2>2
    <3>2. a \in Nat /\ t \in Int
      BY <2>10, <2>11
    <3>. HIDE DEF B
    <3>. QED BY <2>11, <3>1, <3>2
  <2>13. t = IF b < n THEN (IF a <= n - b THEN a ELSE n - b) ELSE 0
    <3>1. CASE b < n
      <4>1. PICK cd \in cds : /\ cd.id = infos[k].id
                              /\ cd.take = IF a <= n - b THEN a ELSE n - b
        BY <2>2, <2>11, <3>1 DEF Spread
      <4>2. qs[i].left = ps[i].left - cd.take
        BY <2>3, <4>1 DEF ChargedBy
      <4>3. cd.take \in Nat
        BY DEF Charges
      <4>. QED BY <2>10, <2>11, <3>1, <4>1, <4>2, <4>3
    <3>2. CASE ~(b < n)
      <4>1. ASSUME NEW cd \in cds, cd.id = ps[i].id
            PROVE  FALSE
        <5>1. PICK l \in 1..Len(infos) : B(l) < n /\ cd.id = infos[l].id
          BY DEF Spread
        <5>2. l = k
          BY <2>2, <2>3, <4>1, <5>1, InfosDiffer
        <5>. QED BY <2>11, <3>2, <5>1, <5>2
      <4>2. qs[i].left = ps[i].left
        BY <4>1 DEF ChargedBy
      <4>. QED BY <2>10, <2>11, <3>2, <4>2
    <3>. QED BY <3>1, <3>2
  <2>14. Least(m) = (IF n <= b THEN n ELSE b) /\ Least(k) = (IF n <= b + a THEN n ELSE b + a)
    BY <2>1, <2>2, <2>11, <2>12
  <2>15. Least(k) = Least(m) + t
    <3>. HIDE DEF Least
    <3>. QED BY <2>12, <2>13, <2>14
  <2>16. Least(m) \in Int
    BY <2>12, <2>14
  <2>17. S(m) = ChargedOn(ps) + Least(m)
    BY <1>8
  <2>18. F(k)[i] - F(m)[i] = t /\ F(k)[i] \in Int /\ F(m)[i] \in Int
    <3>1. ps[i].amount \in Nat /\ ps[i].left \in Nat /\ qs[i].left \in Nat
      BY <2>10
    <3>2. PICK u, l, q : u = ps[i].amount /\ l = ps[i].left /\ q = qs[i].left
      OBVIOUS
    <3>3. u \in Nat /\ l \in Nat /\ q \in Nat /\ t = l - q
      BY <2>11, <3>1, <3>2
    <3>4. F(m)[i] = u - l /\ F(k)[i] = u - q
      BY <2>8, <2>9, <3>2
    <3>. HIDE DEF S, Least, Done, G
    <3>. QED BY <3>3, <3>4
  <2>19. S(k) = ChargedOn(ps) + Least(k)
    <3>. HIDE DEF S, Least
    <3>. QED BY <1>4, <2>7, <2>12, <2>15, <2>16, <2>17, <2>18
  <2>. QED BY <1>1, <2>1, <2>2, <2>19
<1>9. G \in SUBSET (0..Len(infos))
  OBVIOUS
<1>10. G = 0..Len(infos)
  <2>1. PICK X, k : X = G /\ k = Len(infos)
    OBVIOUS
  <2>. HIDE DEF G
  <2>2. /\ k \in Nat /\ X \in SUBSET (0..k) /\ 0 \in X
        /\ \A j \in 0..k : j < k /\ j \in X => j + 1 \in X
    BY <1>1, <1>7, <1>8, <1>9, <2>1
  <2>3. X = 0..k
    BY <2>2, IndexInduction
  <2>. QED BY <2>1, <2>3
<1>11. PICK z : z = Len(infos)
  OBVIOUS
<1>12. S(z) = ChargedOn(ps) + Least(z)
  <2>1. z \in G
    BY <1>1, <1>10, <1>11
  <2>. QED BY <2>1
<1>13. Least(z) = n
  BY <1>2, <1>11
<1>14. \A i \in 1..N : F(z)[i] = TakenOff(qs)[i]
  <2>1. ASSUME NEW i \in 1..N, ~Done(z, i)
        PROVE  TakenOff(qs)[i] = TakenOff(ps)[i]
    <3>1. ASSUME NEW cd \in cds
          PROVE  cd.id # ps[i].id
      <4>1. PICK l \in 1..Len(infos) : cd.id = infos[l].id
        BY DEF Spread
      <4>2. l <= z
        BY <1>1, <1>11
      <4>. QED BY <2>1, <4>1, <4>2
    <3>2. qs[i].left = ps[i].left /\ qs[i].amount = ps[i].amount
      BY <3>1 DEF ChargedBy
    <3>. QED BY <1>3, <3>2
  <2>. HIDE DEF Done
  <2>. QED BY <1>5, <2>1
<1>15. S(z) = ChargedOn(qs)
  <2>1. PICK X, f, g : X = 1..N /\ f = F(z) /\ g = TakenOff(qs)
    OBVIOUS
  <2>2. IsFiniteSet(X) /\ \A i \in X : f[i] = g[i]
    BY <1>4, <1>14, <2>1
  <2>3. SumFunctionOnSet(f, X) = SumFunctionOnSet(g, X)
    BY <2>2, SumSame
  <2>. QED BY <1>1, <2>1, <2>3 DEF ChargedOn
<1>. HIDE DEF S, Least
<1>. QED BY <1>12, <1>13, <1>15

-----------------------------------------------------------------------------
\* What a running TryConsumeAmount has taken, and what all calls have taken.
Flying(x)     == IF x.pc = "try" THEN x.asked - x.n ELSE 0
FlightOf(cl)  == [c \in Callers |-> Flying(cl[c])]
Books(cl, gr) == SumFunctionOnSet(gr, Callers) + SumFunctionOnSet(FlightOf(cl), Callers)

LEMMA ReportedIsBooks ==
  ASSUME CallsOK(call, granted)
  PROVE  SumFunction(granted) + InFlight = Books(call, granted)
<1>1. DOMAIN granted = Callers
  BY DEF CallsOK
<1>2. SumFunction(granted) = SumFunctionOnSet(granted, Callers)
  <2>1. SumFunction(granted) = SumFunctionOnSet(granted, DOMAIN granted)
    BY DEF SumFunction
  <2>. QED BY <1>1, <2>1
<1>3. DOMAIN FlightOf(call) = Callers
  BY DEF FlightOf
<1>4. InFlight = SumFunctionOnSet(FlightOf(call), Callers)
  <2>1. InFlight = SumFunctionOnSet(FlightOf(call), DOMAIN FlightOf(call))
    BY DEF InFlight, SumFunction, FlightOf, Flying
  <2>. QED BY <1>3, <2>1
<1>. QED BY <1>2, <1>4 DEF Books

LEMMA BooksTyped ==
  ASSUME NEW cl, NEW gr, CallsOK(cl, gr)
  PROVE  /\ Books(cl, gr) \in Int
         /\ SumFunctionOnSet(gr, Callers) \in Int
         /\ SumFunctionOnSet(FlightOf(cl), Callers) \in Int
         /\ \A c \in Callers : gr[c] \in Nat /\ FlightOf(cl)[c] = Flying(cl[c])
                               /\ Flying(cl[c]) \in Nat
<1>1. \A c \in Callers : gr[c] \in Nat /\ FlightOf(cl)[c] = Flying(cl[c])
                               /\ Flying(cl[c]) \in Nat
  <2>1. ASSUME NEW c \in Callers
        PROVE  Flying(cl[c]) \in Nat
    <3>1. CallTyped(cl[c])
      BY DEF CallsOK
    <3>2. cl[c].asked \in Nat /\ cl[c].n \in Nat /\ cl[c].n <= cl[c].asked
      BY <3>1 DEF CallTyped
    <3>. QED BY <3>2 DEF Flying
  <2>. QED BY <2>1 DEF CallsOK, FlightOf
<1>2. SumFunctionOnSet(gr, Callers) \in Int
  <2>1. \A c \in Callers : gr[c] \in Int
    BY <1>1
  <2>2. IsFiniteSet(Callers)
    BY TrafficAssumption
  <2>. QED BY <2>1, <2>2, SumInt
<1>3. SumFunctionOnSet(FlightOf(cl), Callers) \in Int
  <2>1. PICK f : f = FlightOf(cl)
    OBVIOUS
  <2>2. \A c \in Callers : f[c] \in Int
    BY <1>1, <2>1
  <2>3. IsFiniteSet(Callers)
    BY TrafficAssumption
  <2>4. SumFunctionOnSet(f, Callers) \in Int
    BY <2>2, <2>3, SumInt
  <2>. QED BY <2>1, <2>4
<1>. QED BY <1>1, <1>2, <1>3 DEF Books

(* When one call moves, the books change by what it does.                   *)
LEMMA OneCallMoves ==
  ASSUME NEW cl, NEW gr, NEW cm, NEW gs, CallsOK(cl, gr), CallsOK(cm, gs), NEW c \in Callers,
         \A d \in Callers \ {c} : cm[d] = cl[d] /\ gs[d] = gr[d]
  PROVE  Books(cm, gs) = Books(cl, gr) + (gs[c] - gr[c]) + (Flying(cm[c]) - Flying(cl[c]))
<1>1. IsFiniteSet(Callers)
  BY TrafficAssumption
<1>2. SumFunctionOnSet(gs, Callers) = SumFunctionOnSet(gr, Callers) - gr[c] + gs[c]
  <2>1. \A d \in Callers : gr[d] \in Int /\ gs[d] \in Int
    BY BooksTyped
  <2>. QED BY <1>1, <2>1, SumUpdate
<1>3. SumFunctionOnSet(FlightOf(cm), Callers)
        = SumFunctionOnSet(FlightOf(cl), Callers) - Flying(cl[c]) + Flying(cm[c])
  <2>1. PICK f, g : f = FlightOf(cl) /\ g = FlightOf(cm)
    OBVIOUS
  <2>2. \A d \in Callers : f[d] = Flying(cl[d]) /\ g[d] = Flying(cm[d])
    BY <2>1, BooksTyped
  <2>3. \A d \in Callers : f[d] \in Int /\ g[d] \in Int
    BY <2>1, BooksTyped
  <2>4. \A d \in Callers \ {c} : f[d] = g[d]
    BY <2>2
  <2>5. SumFunctionOnSet(g, Callers) = SumFunctionOnSet(f, Callers) - f[c] + g[c]
    BY <1>1, <2>3, <2>4, SumUpdate
  <2>. QED BY <2>1, <2>2, <2>5
<1>4. /\ SumFunctionOnSet(gr, Callers) \in Int /\ SumFunctionOnSet(FlightOf(cl), Callers) \in Int
      /\ gr[c] \in Int /\ gs[c] \in Int /\ Flying(cl[c]) \in Int /\ Flying(cm[c]) \in Int
  BY BooksTyped
<1>. QED BY <1>2, <1>3, <1>4 DEF Books

LEMMA LaterSame ==
  ASSUME NEW ps, PackagesOK(ps)
  PROVE  Later(ps, ps)
<1>1. ps \in Seq(Package)
  BY DEF PackagesOK
<1>2. \A i \in 1..Len(ps) : ps[i].left \in Nat
  BY <1>1, PackageFields
<1>. QED BY <1>1, <1>2 DEF Later

(* A step of one call, which leaves the packages in order and that call     *)
(* well-formed, leaves everything well-formed.                              *)
LEMMA StepWellFormed ==
  ASSUME WellFormed, NEW c \in Callers, NEW x, call' = [call EXCEPT ![c] = x], CallTyped(x),
         granted' \in [Callers -> Nat], PackagesOK(packages'), Later(packages, packages'),
         x.pc \in {"consume", "try"} => InOrder(packages', x.infos)
  PROVE  WellFormed'
<1>1. /\ call = [d \in Callers |-> call[d]]
      /\ \A d \in Callers : CallTyped(call[d])
  BY DEF WellFormed, CallsOK
<1>2. \A d \in Callers : call'[d] = IF d = c THEN x ELSE call[d]
  BY <1>1
<1>3. call' = [d \in Callers |-> call'[d]]
  BY <1>1
<1>4. CallsOK(call', granted')
  BY <1>1, <1>2, <1>3 DEF CallsOK
<1>5. ASSUME NEW d \in Callers, call'[d].pc \in {"consume", "try"}
      PROVE  InOrder(packages', call'[d].infos)
  <2>1. CASE d = c
    BY <1>2, <1>5, <2>1
  <2>2. CASE d # c
    <3>1. PICK ps, qs, infos : ps = packages /\ qs = packages' /\ infos = call[d].infos
      OBVIOUS
    <3>2. PackagesOK(ps) /\ PackagesOK(qs) /\ Later(ps, qs) /\ InOrder(ps, infos)
      BY <1>2, <1>5, <2>2, <3>1 DEF WellFormed, ReadsInOrder
    <3>3. InOrder(qs, infos)
      BY <3>2, InOrderLater
    <3>. QED BY <1>2, <2>2, <3>1, <3>3
  <2>. QED BY <2>1, <2>2
<1>. QED BY <1>4, <1>5 DEF WellFormed, ReadsInOrder

-----------------------------------------------------------------------------
\* Packages are used up in the order they were added.
Oldest(ps) ==
  \A i, j \in 1..Len(ps) : i < j /\ ps[j].left < ps[j].amount => ps[i].left = 0

(* They still are after charges that leave nothing before them.             *)
LEMMA ChargesKeepOldest ==
  ASSUME NEW ps, NEW qs, NEW cds, PackagesOK(ps), PackagesOK(qs), Charges(cds),
         ChargedBy(ps, qs, cds), Oldest(ps),
         \A cd \in cds, i, j \in 1..Len(ps) : j < i /\ ps[i].id = cd.id => qs[j].left = 0
  PROVE  Oldest(qs)
<1>1. Len(qs) = Len(ps) /\ ps \in Seq(Package) /\ qs \in Seq(Package)
  BY DEF ChargedBy, PackagesOK
<1>2. SUFFICES ASSUME NEW i \in 1..Len(ps), NEW j \in 1..Len(ps), i < j,
                      qs[j].left < qs[j].amount
               PROVE  qs[i].left = 0
  BY <1>1 DEF Oldest
<1>3. CASE \E cd \in cds : cd.id = ps[j].id
  BY <1>2, <1>3
<1>4. CASE \A cd \in cds : cd.id # ps[j].id
  <2>1. qs[j].left = ps[j].left /\ qs[j].amount = ps[j].amount
    BY <1>4 DEF ChargedBy
  <2>2. ps[i].left = 0
    BY <1>2, <2>1 DEF Oldest
  <2>3. qs[i].left <= ps[i].left
    BY ChargedLater DEF Later
  <2>4. qs[i].left \in Nat
    BY <1>1, PackageFields
  <2>. QED BY <2>2, <2>3, <2>4
<1>. QED BY <1>3, <1>4

(* One charge of one package.                                               *)
LEMMA OneCharge ==
  ASSUME NEW ps, NEW qs, NEW cd, PackagesOK(ps), PackagesOK(qs), Charges({cd}),
         ChargedBy(ps, qs, {cd}), NEW i \in 1..Len(ps), ps[i].id = cd.id
  PROVE  ChargedOn(qs) = ChargedOn(ps) + cd.take
<1>1. /\ Len(qs) = Len(ps) /\ ps \in Seq(Package) /\ qs \in Seq(Package)
      /\ \A j \in 1..Len(ps) : ps[j].id = ps[i].id => j = i
  BY DEF ChargedBy, PackagesOK
<1>2. PICK X, f, g : X = 1..Len(ps) /\ f = TakenOff(ps) /\ g = TakenOff(qs)
  OBVIOUS
<1>3. \A j \in X : /\ f[j] \in Int /\ f[j] = ps[j].amount - ps[j].left
                   /\ g[j] \in Int /\ g[j] = qs[j].amount - qs[j].left
  BY <1>1, <1>2, TakenOffTyped
<1>4. \A j \in X \ {i} : f[j] = g[j]
  <2>1. \A j \in X \ {i} : qs[j].left = ps[j].left /\ qs[j].amount = ps[j].amount
    BY <1>1, <1>2 DEF ChargedBy
  <2>. QED BY <1>3, <2>1
<1>5. \A j \in X : f[j] \in Int /\ g[j] \in Int
  BY <1>3
<1>6. IsFiniteSet(X) /\ i \in X
  BY <1>1, <1>2, TakenOffTyped
<1>7. SumFunctionOnSet(g, X) = SumFunctionOnSet(f, X) - f[i] + g[i]
  <2>1. PICK e : e = i
    OBVIOUS
  <2>2. e \in X /\ IsFiniteSet(X) /\ \A j \in X \ {e} : f[j] = g[j]
    BY <1>4, <1>6, <2>1
  <2>3. SumFunctionOnSet(g, X) = SumFunctionOnSet(f, X) - f[e] + g[e]
    BY <1>5, <2>2, SumUpdate
  <2>. QED BY <2>1, <2>3
<1>8. SumFunctionOnSet(f, X) = ChargedOn(ps) /\ SumFunctionOnSet(g, X) = ChargedOn(qs)
  BY <1>1, <1>2 DEF ChargedOn
<1>9. qs[i].left = ps[i].left - cd.take /\ qs[i].amount = ps[i].amount
  BY DEF ChargedBy
<1>10. /\ ps[i].amount \in Nat /\ ps[i].left \in Nat /\ cd.take \in Nat
       /\ ChargedOn(ps) \in Int
  BY <1>1, PackageFields, TakenOffTyped DEF Charges
<1>11. f[i] = ps[i].amount - ps[i].left /\ g[i] = ps[i].amount - (ps[i].left - cd.take)
  BY <1>3, <1>6, <1>9
<1>. QED BY <1>7, <1>8, <1>10, <1>11

(* A call that has used up its first package goes on with the others.       *)
LEMMA TailInOrder ==
  ASSUME NEW qs, NEW infos \in Seq(Package), infos # <<>>, PackagesOK(qs), InOrder(qs, infos),
         NEW i \in 1..Len(qs), qs[i].id = infos[1].id, qs[i].left = 0
  PROVE  InOrder(qs, Tail(infos))
<1>1. PICK t : t = Tail(infos)
  OBVIOUS
<1>2. Len(infos) \in Nat /\ Len(t) = Len(infos) - 1 /\ \A k \in 1..Len(t) : t[k] = infos[k + 1]
  BY <1>1, HeadTailProperties
<1>3. \A k \in 1..Len(t) : k + 1 \in 1..Len(infos)
  BY <1>2
<1>4. ASSUME NEW k \in 1..Len(t)
      PROVE  t[k].left > 0 /\ \E j \in 1..Len(qs) : qs[j].id = t[k].id
  <2>1. PICK l \in 1..Len(infos) : l = k + 1
    BY <1>3
  <2>2. t[k] = infos[l]
    BY <1>2, <2>1
  <2>3. infos[l].left > 0 /\ \E j \in 1..Len(qs) : qs[j].id = infos[l].id
    BY DEF InOrder
  <2>. QED BY <2>2, <2>3
<1>5. ASSUME NEW k \in 1..Len(t), NEW l \in 1..Len(t), NEW j \in 1..Len(qs), NEW m \in 1..Len(qs),
             k < l, qs[j].id = t[k].id, qs[m].id = t[l].id
      PROVE  j < m
  <2>1. k + 1 < l + 1
    BY <1>5
  <2>2. qs[j].id = infos[k + 1].id /\ qs[m].id = infos[l + 1].id
    BY <1>2, <1>5
  <2>. QED BY <1>3, <2>1, <2>2 DEF InOrder
<1>6. ASSUME NEW k \in 1..Len(t), NEW m \in 1..Len(qs), NEW j \in 1..Len(qs),
             j < m, qs[m].id = t[k].id, qs[j].left # 0
      PROVE  \E l \in 1..Len(t) : l < k /\ qs[j].id = t[l].id
  <2>1. qs[m].id = infos[k + 1].id
    BY <1>2, <1>6
  <2>2. PICK l \in 1..Len(infos) : l < k + 1 /\ qs[j].id = infos[l].id
    BY <1>3, <1>6, <2>1 DEF InOrder
  <2>3. l # 1
    BY <1>6, <2>2 DEF PackagesOK
  <2>4. l - 1 \in 1..Len(t) /\ (l - 1) + 1 = l /\ l - 1 < k
    BY <1>2, <2>2, <2>3
  <2>5. t[l - 1] = infos[l]
    BY <1>2, <2>4
  <2>. QED BY <2>2, <2>4, <2>5
<1>7. InOrder(qs, t)
  BY <1>4, <1>5, <1>6 DEF InOrder
<1>. QED BY <1>1, <1>7

(* Nothing is charged on a new package.                                     *)
LEMMA AppendCharges ==
  ASSUME NEW ps, PackagesOK(ps), NEW p \in Package, p.left = p.amount
  PROVE  ChargedOn(Append(ps, p)) = ChargedOn(ps)
<1>1. ps \in Seq(Package) /\ Len(ps) \in Nat
  BY DEF PackagesOK
<1>2. PICK qs : qs = Append(ps, p)
  OBVIOUS
<1>3. /\ qs \in Seq(Package) /\ Len(qs) = Len(ps) + 1 /\ qs[Len(ps) + 1] = p
      /\ \A i \in 1..Len(ps) : qs[i] = ps[i]
  BY <1>1, <1>2, AppendProperties
<1>4. PICK X, Y, f, g, e : /\ X = 1..Len(ps) /\ Y = 1..Len(qs)
                           /\ f = TakenOff(ps) /\ g = TakenOff(qs) /\ e = Len(ps) + 1
  OBVIOUS
<1>5. Y = X \cup {e} /\ e \notin X
  BY <1>1, <1>3, <1>4
<1>6. \A i \in X : f[i] \in Int /\ f[i] = g[i]
  <2>1. \A i \in X : f[i] \in Int /\ f[i] = ps[i].amount - ps[i].left
    BY <1>1, <1>4, TakenOffTyped
  <2>2. \A i \in X : i \in Y
    BY <1>5
  <2>3. \A i \in Y : g[i] = qs[i].amount - qs[i].left
    BY <1>3, <1>4, TakenOffTyped
  <2>. QED BY <1>3, <1>4, <2>1, <2>2, <2>3
<1>7. g[e] = 0
  <2>1. g[e] = p.amount - p.left
    BY <1>1, <1>3, <1>4 DEF TakenOff
  <2>2. p.amount \in Nat
    BY DEF Package
  <2>. QED BY <2>1, <2>2
<1>8. IsFiniteSet(X)
  BY <1>1, <1>4, TakenOffTyped
<1>9. SumFunctionOnSet(g, X \cup {e}) = g[e] + SumFunctionOnSet(g, X)
  <2>1. \A i \in X \cup {e} : g[i] \in Int
    BY <1>6, <1>7
  <2>. QED BY <1>5, <1>8, <2>1, SumAdd
<1>10. SumFunctionOnSet(f, X) = SumFunctionOnSet(g, X)
  <2>1. \A i \in X : f[i] = g[i]
    BY <1>6
  <2>. QED BY <1>8, <2>1, SumSame
<1>11. SumFunctionOnSet(f, X) = ChargedOn(ps) /\ SumFunctionOnSet(g, Y) = ChargedOn(qs)
  BY <1>4 DEF ChargedOn
<1>12. ChargedOn(ps) \in Int
  BY <1>1, TakenOffTyped
<1>. QED BY <1>2, <1>5, <1>7, <1>9, <1>10, <1>11, <1>12

-----------------------------------------------------------------------------
\* What every step does: all stays well-formed, what it takes off the packages it
\* puts in the books, and it takes from the oldest package first.
Advances ==
  /\ WellFormed'
  /\ ChargedOn(packages') = ChargedOn(packages) + (Books(call', granted') - Books(call, granted))
  /\ Oldest(packages) => Oldest(packages')

LEMMA AddPackageStep ==
  ASSUME WellFormed, NEW id \in PackageIDs, NEW amount \in Sizes, AddPackage(id, amount)
  PROVE  Advances
<1>1. PICK ps, qs, p : /\ ps = packages /\ qs = packages'
                       /\ p = [id |-> id, amount |-> amount, left |-> amount]
  OBVIOUS
<1>2. /\ PackagesOK(ps) /\ ps \in Seq(Package) /\ Len(ps) \in Nat
      /\ \A i \in 1..Len(ps) : ps[i].id # id
      /\ qs = Append(ps, p) /\ UNCHANGED <<call, granted>>
  <2>1. PackagesOK(ps) /\ ps \in Seq(Package) /\ Len(ps) \in Nat
    BY <1>1 DEF WellFormed, PackagesOK
  <2>2. DOMAIN ps = 1..Len(ps)
    BY <2>1
  <2>. QED BY <1>1, <2>1, <2>2 DEF AddPackage, Range
<1>3. p \in Package /\ p.left = p.amount /\ p.id = id /\ p.amount \in Nat
  BY <1>1, TrafficAssumption DEF Package
<1>4. /\ qs \in Seq(Package) /\ Len(qs) = Len(ps) + 1 /\ qs[Len(ps) + 1] = p
      /\ \A i \in 1..Len(ps) : qs[i] = ps[i]
  BY <1>2, <1>3, AppendProperties
<1>5. PackagesOK(qs)
  <2>1. ASSUME NEW i \in 1..Len(qs)
        PROVE  qs[i].left <= qs[i].amount
    <3>1. CASE i \in 1..Len(ps)
      BY <1>2, <1>4, <3>1 DEF PackagesOK
    <3>2. CASE i = Len(ps) + 1
      BY <1>3, <1>4, <3>2
    <3>. QED BY <1>2, <1>4, <3>1, <3>2
  <2>2. ASSUME NEW i \in 1..Len(qs), NEW j \in 1..Len(qs), qs[i].id = qs[j].id
        PROVE  i = j
    <3>1. \A k \in 1..Len(qs) : k \in 1..Len(ps) \/ k = Len(ps) + 1
      BY <1>2, <1>4
    <3>2. \A k \in 1..Len(ps) : qs[k].id = ps[k].id /\ qs[k].id # id
      BY <1>2, <1>4
    <3>3. qs[Len(ps) + 1].id = id
      BY <1>3, <1>4
    <3>4. CASE i \in 1..Len(ps) /\ j \in 1..Len(ps)
      BY <1>2, <2>2, <3>2, <3>4 DEF PackagesOK
    <3>. QED BY <2>2, <3>1, <3>2, <3>3, <3>4
  <2>. QED BY <1>4, <2>1, <2>2 DEF PackagesOK
<1>6. Later(ps, qs)
  <2>1. \A i \in 1..Len(ps) : ps[i].left \in Nat
    BY <1>2, PackageFields
  <2>. QED BY <1>2, <1>4, <2>1 DEF Later
<1>7. WellFormed'
  <2>1. ASSUME NEW c \in Callers, call'[c].pc \in {"consume", "try"}
        PROVE  InOrder(packages', call'[c].infos)
    <3>1. PICK infos : infos = call[c].infos
      OBVIOUS
    <3>2. InOrder(ps, infos)
      BY <1>1, <1>2, <2>1, <3>1 DEF WellFormed, ReadsInOrder
    <3>3. InOrder(qs, infos)
      BY <1>2, <1>5, <1>6, <3>2, InOrderLater
    <3>. QED BY <1>1, <1>2, <3>1, <3>3
  <2>2. CallsOK(call', granted')
    BY <1>2 DEF WellFormed
  <2>. QED BY <1>1, <1>5, <2>1, <2>2 DEF WellFormed, ReadsInOrder
<1>8. ChargedOn(qs) = ChargedOn(ps)
  BY <1>2, <1>3, AppendCharges
<1>9. ASSUME Oldest(ps)
      PROVE  Oldest(qs)
  <2>1. ASSUME NEW i \in 1..Len(qs), NEW j \in 1..Len(qs), i < j, qs[j].left < qs[j].amount
        PROVE  qs[i].left = 0
    <3>1. j # Len(ps) + 1
      BY <1>3, <1>4, <2>1
    <3>2. i \in 1..Len(ps) /\ j \in 1..Len(ps)
      BY <1>2, <1>4, <2>1, <3>1
    <3>. QED BY <1>4, <1>9, <2>1, <3>2 DEF Oldest
  <2>. QED BY <2>1 DEF Oldest
<1>10. ChargedOn(ps) \in Int /\ Books(call, granted) \in Int
  BY <1>2, TakenOffTyped, BooksTyped DEF WellFormed
<1>11. Books(call', granted') = Books(call, granted)
  BY <1>2
<1>. QED BY <1>1, <1>7, <1>8, <1>9, <1>10, <1>11 DEF Advances

(* A call that only reads.                                                  *)
LEMMA ReadingStep ==
  ASSUME WellFormed, UNCHANGED <<packages, granted>>, NEW c \in Callers, NEW x,
         call' = [call EXCEPT ![c] = x], CallTyped(x), Flying(x) = Flying(call[c]),
         x.pc \in {"consume", "try"} => InOrder(packages, x.infos)
  PROVE  Advances
<1>1. PackagesOK(packages') /\ Later(packages, packages') /\ granted' \in [Callers -> Nat]
  BY LaterSame DEF WellFormed, CallsOK
<1>2. x.pc \in {"consume", "try"} => InOrder(packages', x.infos)
  OBVIOUS
<1>3. WellFormed'
  BY <1>1, <1>2, StepWellFormed
<1>4. PICK cl, gr, cm, gs : cl = call /\ gr = granted /\ cm = call' /\ gs = granted'
  OBVIOUS
<1>5. CallsOK(cl, gr) /\ CallsOK(cm, gs)
  BY <1>3, <1>4 DEF WellFormed
<1>6. /\ cm[c] = x /\ \A d \in Callers : gs[d] = gr[d]
      /\ \A d \in Callers \ {c} : cm[d] = cl[d]
  BY <1>4, <1>5 DEF CallsOK
<1>7. Books(cm, gs) = Books(cl, gr) + (gs[c] - gr[c]) + (Flying(cm[c]) - Flying(cl[c]))
  BY <1>5, <1>6, OneCallMoves
<1>8. /\ Books(cl, gr) \in Int /\ gr[c] \in Int /\ gs[c] = gr[c]
      /\ Flying(cl[c]) \in Int /\ Flying(cm[c]) = Flying(cl[c])
  <2>1. Books(cl, gr) \in Int /\ gr[c] \in Int /\ Flying(cl[c]) \in Int
    BY <1>5, BooksTyped
  <2>. QED BY <1>4, <1>6, <2>1
<1>9. Books(cm, gs) = Books(cl, gr)
  BY <1>7, <1>8
<1>10. ChargedOn(packages) \in Int
  BY TakenOffTyped DEF WellFormed, PackagesOK
<1>11. ChargedOn(packages') = ChargedOn(packages)
  OBVIOUS
<1>. QED BY <1>3, <1>4, <1>8, <1>9, <1>10, <1>11 DEF Advances

LEMMA IdleFlying ==
  ASSUME WellFormed, NEW c \in Callers, call[c].pc # "try"
  PROVE  Flying(call[c]) = 0
BY DEF Flying

LEMMA BeginConsumeStep ==
  ASSUME WellFormed, NEW c \in Callers, NEW n \in Nat \ {0}, BeginConsume(c, n)
  PROVE  Advances
<1>1. PICK infos : infos = GetPackages
  OBVIOUS
<1>2. infos \in Seq(Package) /\ InOrder(packages, infos)
  BY <1>1, GetPackagesInOrder DEF WellFormed
<1>3. GetAmount(infos) \in Nat
  <2>1. Len(infos) + 1 \in 1..(Len(infos) + 1)
    BY <1>2
  <2>. QED BY <1>2, <2>1, BeforeSums DEF BeforeAddsUp
<1>. DEFINE short == n > GetAmount(infos)
            x == [pc |-> IF short THEN "done" ELSE "consume", asked |-> n, n |-> n,
                  infos |-> IF short THEN <<>> ELSE infos, refused |-> short]
<1>4. call[c].pc \in {"idle", "done"} /\ call' = [call EXCEPT ![c] = x]
      /\ UNCHANGED <<packages, granted>>
  BY <1>1 DEF BeginConsume
<1>5. CallTyped(x) /\ Flying(x) = 0 /\ (x.pc \in {"consume", "try"} => x.infos = infos)
  <2>1. <<>> \in Seq(Package)
    OBVIOUS
  <2>2. short \in BOOLEAN
    OBVIOUS
  <2>3. CASE short
    BY <1>2, <2>1, <2>2, <2>3 DEF CallTyped, Flying
  <2>4. CASE ~short
    BY <1>2, <1>3, <2>2, <2>4 DEF CallTyped, Flying
  <2>. QED BY <2>3, <2>4
<1>6. Flying(call[c]) = 0
  BY <1>4 DEF Flying
<1>7. PICK y : y = x
  OBVIOUS
<1>8. /\ call' = [call EXCEPT ![c] = y] /\ CallTyped(y) /\ Flying(y) = Flying(call[c])
      /\ y.pc \in {"consume", "try"} => InOrder(packages, y.infos)
  <2>. HIDE DEF x
  <2>. QED BY <1>2, <1>4, <1>5, <1>6, <1>7
<1>. QED BY <1>4, <1>8, ReadingStep

LEMMA BeginTryStep ==
  ASSUME WellFormed, NEW c \in Callers, NEW n \in Nat \ {0}, BeginTry(c, n)
  PROVE  Advances
<1>1. PICK infos : infos = GetPackages
  OBVIOUS
<1>2. infos \in Seq(Package) /\ InOrder(packages, infos)
  BY <1>1, GetPackagesInOrder DEF WellFormed
<1>3. PICK y : y = [pc |-> "try", asked |-> n, n |-> n, infos |-> infos, refused |-> FALSE]
  OBVIOUS
<1>4. call[c].pc \in {"idle", "done"} /\ call' = [call EXCEPT ![c] = y]
      /\ UNCHANGED <<packages, granted>>
  BY <1>1, <1>3 DEF BeginTry
<1>5. CallTyped(y) /\ Flying(y) = 0 /\ y.infos = infos
  BY <1>2, <1>3 DEF CallTyped, Flying
<1>6. Flying(call[c]) = 0
  BY <1>4 DEF Flying
<1>. QED BY <1>2, <1>4, <1>5, <1>6, ReadingStep

\* The call of c charges cds, t in all, goes on as x and reports r more than before.
ChargesAndReports(c, cds, t, x, r) ==
  /\ Charges(cds) /\ PackagesOK(packages') /\ ChargedBy(packages, packages', cds)
  /\ ChargedOn(packages') = ChargedOn(packages) + t
  /\ \A cd \in cds, i, j \in 1..Len(packages) :
       j < i /\ packages[i].id = cd.id => packages'[j].left = 0
  /\ call' = [call EXCEPT ![c] = x] /\ CallTyped(x)
  /\ granted' = [granted EXCEPT ![c] = @ + r]
  /\ r + Flying(x) - Flying(call[c]) = t
  /\ x.pc \in {"consume", "try"} => InOrder(packages', x.infos)

LEMMA ChargingStep ==
  ASSUME WellFormed, NEW c \in Callers, NEW cds, NEW t \in Nat, NEW x, NEW r \in Nat,
         ChargesAndReports(c, cds, t, x, r)
  PROVE  Advances
<1>. USE DEF ChargesAndReports
<1>1. PICK ps, qs, cl, gr, cm, gs : /\ ps = packages /\ qs = packages'
                                    /\ cl = call /\ gr = granted /\ cm = call' /\ gs = granted'
  OBVIOUS
<1>2. PackagesOK(ps) /\ PackagesOK(qs) /\ ChargedBy(ps, qs, cds) /\ CallsOK(cl, gr)
  BY <1>1 DEF WellFormed
<1>3. Later(ps, qs)
  BY <1>2, ChargedLater
<1>4. gs \in [Callers -> Nat]
  <2>1. gr \in [Callers -> Nat] /\ gs = [gr EXCEPT ![c] = @ + r]
    BY <1>1, <1>2 DEF CallsOK
  <2>2. gr[c] + r \in Nat
    BY <2>1
  <2>. QED BY <2>1, <2>2
<1>5. WellFormed'
  BY <1>1, <1>3, <1>4, StepWellFormed
<1>6. CallsOK(cm, gs)
  BY <1>1, <1>5 DEF WellFormed
<1>7. /\ cm[c] = x /\ gs[c] = gr[c] + r
      /\ \A d \in Callers \ {c} : cm[d] = cl[d] /\ gs[d] = gr[d]
  BY <1>1, <1>2 DEF CallsOK
<1>8. Books(cm, gs) = Books(cl, gr) + (gs[c] - gr[c]) + (Flying(cm[c]) - Flying(cl[c]))
  BY <1>2, <1>6, <1>7, OneCallMoves
<1>9. /\ Books(cl, gr) \in Int /\ gr[c] \in Int /\ Flying(cl[c]) \in Int
      /\ Flying(cm[c]) \in Int
  BY <1>2, <1>6, BooksTyped
<1>10. Books(cm, gs) - Books(cl, gr) = t
  <2>1. r + Flying(cm[c]) - Flying(cl[c]) = t
    BY <1>1, <1>7
  <2>2. gs[c] - gr[c] = r
    BY <1>7, <1>9
  <2>. QED BY <1>8, <1>9, <2>1, <2>2
<1>11. ChargedOn(qs) = ChargedOn(ps) + (Books(cm, gs) - Books(cl, gr))
  BY <1>1, <1>10
<1>12. Oldest(ps) => Oldest(qs)
  BY <1>1, <1>2, ChargesKeepOldest
<1>. QED BY <1>1, <1>5, <1>11, <1>12 DEF Advances

LEMMA ChargeNothing ==
  ASSUME NEW ps, PackagesOK(ps)
  PROVE  Charges({}) /\ ChargedBy(ps, ps, {}) /\ ChargedOn(ps) = ChargedOn(ps) + 0
<1>1. ChargedOn(ps) \in Int
  BY TakenOffTyped DEF PackagesOK
<1>. QED BY <1>1 DEF Charges, ChargedBy

(* A call that returns what it has taken, and takes no more.                *)
LEMMA ReturnStep ==
  ASSUME WellFormed, UNCHANGED packages, NEW c \in Callers, NEW refused \in BOOLEAN,
         NEW r \in Nat, r = Flying(call[c]), Return(c, r, refused)
  PROVE  Advances
<1>1. CallTyped(call[c]) /\ PackagesOK(packages)
  BY DEF WellFormed, CallsOK
<1>2. call[c].asked \in Nat /\ call[c].n \in Nat /\ call[c].n <= call[c].asked
  BY <1>1 DEF CallTyped
<1>3. PICK x : x = [pc |-> "done", asked |-> call[c].asked, n |-> call[c].asked - r,
                    infos |-> <<>>, refused |-> refused]
  OBVIOUS
<1>4. r <= call[c].asked
  BY <1>2 DEF Flying
<1>5. CallTyped(x) /\ Flying(x) = 0 /\ x.pc = "done"
  <2>1. call[c].asked - r \in Nat /\ call[c].asked - r <= call[c].asked
    BY <1>2, <1>4
  <2>2. <<>> \in Seq(Package)
    OBVIOUS
  <2>. QED BY <1>2, <1>3, <2>1, <2>2 DEF CallTyped, Flying
<1>6. call' = [call EXCEPT ![c] = x] /\ granted' = [granted EXCEPT ![c] = @ + r]
  BY <1>3 DEF Return
<1>7. /\ Charges({}) /\ ChargedBy(packages, packages', {}) /\ PackagesOK(packages')
      /\ ChargedOn(packages') = ChargedOn(packages) + 0
  BY <1>1, ChargeNothing
<1>8. r + Flying(x) - Flying(call[c]) = 0
  BY <1>5
<1>9. ~(x.pc \in {"consume", "try"})
  BY <1>5
<1>10. PICK t, cds : t = 0 /\ t \in Nat /\ cds = {}
  OBVIOUS
<1>11. /\ Charges(cds) /\ ChargedBy(packages, packages', cds)
       /\ ChargedOn(packages') = ChargedOn(packages) + t
       /\ r + Flying(x) - Flying(call[c]) = t
       /\ \A cd \in cds, i, j \in 1..Len(packages) :
            j < i /\ packages[i].id = cd.id => packages'[j].left = 0
  BY <1>7, <1>8, <1>10
<1>12. t \in Nat /\ ChargesAndReports(c, cds, t, x, r)
  BY <1>5, <1>6, <1>7, <1>9, <1>10, <1>11 DEF ChargesAndReports
<1>. QED BY <1>12, ChargingStep

LEMMA TryRefusedStep ==
  ASSUME WellFormed, NEW c \in Callers, TryRefused(c) \/ TryShort(c)
  PROVE  Advances
<1>1. CallTyped(call[c]) /\ call[c].pc = "try"
  BY DEF WellFormed, CallsOK, TryRefused, TryShort
<1>2. PICK r, refused : /\ r = call[c].asked - call[c].n
                        /\ refused \in BOOLEAN /\ Return(c, r, refused)
  BY DEF TryRefused, TryShort
<1>3. r \in Nat /\ r = Flying(call[c])
  BY <1>1, <1>2 DEF CallTyped, Flying
<1>4. UNCHANGED packages
  BY DEF TryRefused, TryShort
<1>. QED BY <1>2, <1>3, <1>4, ReturnStep

LEMMA TryConsumeStep ==
  ASSUME WellFormed, NEW c \in Callers, TryConsume(c)
  PROVE  Advances
<1>1. PICK y, infos, cd : y = call[c] /\ infos = y.infos /\ cd = TryData(c)
  OBVIOUS
<1>2. /\ CallTyped(y) /\ y.pc = "try" /\ infos \in Seq(Package) /\ infos # <<>>
      /\ y.n \in Nat /\ y.n > 0 /\ y.asked \in Nat /\ y.n <= y.asked /\ y.refused \in BOOLEAN
      /\ PackagesOK(packages) /\ InOrder(packages, infos)
  <2>1. CallTyped(y) /\ y.pc = "try" /\ PackagesOK(packages) /\ InOrder(packages, infos)
        /\ infos # <<>>
    BY <1>1 DEF WellFormed, CallsOK, ReadsInOrder, TryConsume
  <2>. QED BY <1>1, <2>1 DEF CallTyped
<1>3. 1 \in 1..Len(infos) /\ Head(infos) = infos[1]
  BY <1>2
<1>4. infos[1].left \in Nat /\ infos[1].left > 0
  BY <1>2, <1>3, PackageFields DEF InOrder
<1>5. /\ cd.id = infos[1].id /\ cd.old = infos[1].left
      /\ cd.take = IF y.n <= infos[1].left THEN y.n ELSE infos[1].left
      /\ cd.take \in Nat
  <2>1. PICK a, b : a = y.n /\ b = infos[1].left
    OBVIOUS
  <2>2. a \in Int /\ b \in Int
    BY <1>2, <1>4, <2>1
  <2>3. Min({a, b}) = IF a <= b THEN a ELSE b
    BY <2>2, MinOfTwo
  <2>4. cd = [id |-> infos[1].id, take |-> Min({a, b}), old |-> b]
    BY <1>1, <1>3, <2>1 DEF TryData
  <2>. QED BY <1>2, <1>4, <2>1, <2>3, <2>4
<1>6. PICK cds : cds = {cd}
  OBVIOUS
<1>7. Charges(cds) /\ Accepts(cds) /\ packages' = Charge(cds)
  BY <1>1, <1>5, <1>6 DEF Charges, TryConsume
<1>8. PackagesOK(packages') /\ ChargedBy(packages, packages', cds)
  BY <1>2, <1>7, ChargeMade
<1>9. PICK ps, qs : ps = packages /\ qs = packages'
  OBVIOUS
<1>10. /\ PackagesOK(ps) /\ PackagesOK(qs) /\ ChargedBy(ps, qs, cds) /\ Later(ps, qs)
       /\ InOrder(ps, infos) /\ InOrder(qs, infos) /\ Len(qs) = Len(ps)
       /\ ps \in Seq(Package) /\ qs \in Seq(Package)
  <2>1. PackagesOK(ps) /\ PackagesOK(qs) /\ ChargedBy(ps, qs, cds) /\ InOrder(ps, infos)
    BY <1>2, <1>8, <1>9
  <2>2. Later(ps, qs)
    BY <1>7, <2>1, ChargedLater
  <2>3. InOrder(qs, infos)
    BY <2>1, <2>2, InOrderLater
  <2>. QED BY <2>1, <2>2, <2>3 DEF ChargedBy, PackagesOK
<1>11. PICK i \in 1..Len(ps) : ps[i].id = infos[1].id
  BY <1>3, <1>10 DEF InOrder
<1>12. /\ ps[i].id = cd.id /\ ps[i].left = infos[1].left /\ qs[i].left = ps[i].left - cd.take
       /\ qs[i].id = infos[1].id
  BY <1>5, <1>6, <1>10, <1>11 DEF ChargedBy
<1>13. ChargedOn(qs) = ChargedOn(ps) + cd.take
  <2>1. Charges({cd}) /\ ChargedBy(ps, qs, {cd})
    BY <1>6, <1>7, <1>10
  <2>2. ps[i].id = cd.id
    BY <1>12
  <2>. QED BY <1>10, <2>1, <2>2, OneCharge
<1>14. ASSUME NEW d \in cds, NEW k \in 1..Len(ps), NEW j \in 1..Len(ps), j < k, ps[k].id = d.id
       PROVE  qs[j].left = 0
  <2>1. ps[k].id = infos[1].id
    BY <1>5, <1>6, <1>14
  <2>2. ~ \E l \in 1..Len(infos) : l < 1
    OBVIOUS
  <2>3. ps[j].left = 0
    BY <1>3, <1>10, <1>14, <2>1, <2>2 DEF InOrder
  <2>4. qs[j].left \in Nat /\ qs[j].left <= ps[j].left
    BY <1>10, PackageFields DEF Later
  <2>. QED BY <2>3, <2>4
<1>. DEFINE left == y.n - cd.take
<1>15. CASE left = 0
  <2>1. Return(c, y.asked, FALSE)
    BY <1>1, <1>15 DEF TryConsume
  <2>2. PICK x, r : /\ r = y.asked
                    /\ x = [pc |-> "done", asked |-> y.asked, n |-> y.asked - r,
                            infos |-> <<>>, refused |-> FALSE]
    OBVIOUS
  <2>3. call' = [call EXCEPT ![c] = x] /\ granted' = [granted EXCEPT ![c] = @ + r]
    BY <1>1, <2>1, <2>2 DEF Return
  <2>4. CallTyped(x) /\ Flying(x) = 0 /\ x.pc = "done"
    <3>1. <<>> \in Seq(Package) /\ y.asked - r = 0
      BY <1>2, <2>2
    <3>. QED BY <1>2, <2>2, <3>1 DEF CallTyped, Flying
  <2>5. r \in Nat /\ r + Flying(x) - Flying(call[c]) = cd.take
    BY <1>1, <1>2, <1>5, <1>15, <2>2, <2>4 DEF Flying
  <2>6. ~(x.pc \in {"consume", "try"})
    BY <2>4
  <2>7. PICK t \in Nat : t = cd.take
    BY <1>5
  <2>8. /\ ChargedOn(packages') = ChargedOn(packages) + t
        /\ r + Flying(x) - Flying(call[c]) = t
        /\ \A d \in cds, k, j \in 1..Len(packages) :
             j < k /\ packages[k].id = d.id => packages'[j].left = 0
    BY <1>9, <1>13, <1>14, <2>5, <2>7
  <2>9. ChargesAndReports(c, cds, t, x, r)
    BY <1>7, <1>8, <2>3, <2>4, <2>6, <2>8 DEF ChargesAndReports
  <2>. QED BY <2>5, <2>9, ChargingStep
<1>16. CASE left # 0
  <2>1. /\ call' = [call EXCEPT ![c].n = left, ![c].infos = Tail(@)]
        /\ UNCHANGED granted
    BY <1>1, <1>16 DEF TryConsume
  <2>2. PICK x : x = [y EXCEPT !.n = left, !.infos = Tail(@)]
    OBVIOUS
  <2>3. call' = [call EXCEPT ![c] = x]
    BY <1>1, <2>1, <2>2 DEF WellFormed, CallsOK
  <2>4. cd.take = infos[1].left /\ left \in Nat /\ left > 0 /\ left <= y.n
    BY <1>2, <1>4, <1>5, <1>16
  <2>5. Tail(infos) \in Seq(Package)
    BY <1>2
  <2>6. y \in [pc : {"idle", "consume", "try", "done"}, asked : Nat,
               n : Nat, infos : Seq(Package), refused : BOOLEAN]
    BY <1>2 DEF CallTyped
  <2>7. /\ x \in [pc : {"idle", "consume", "try", "done"}, asked : Nat,
                  n : Nat, infos : Seq(Package), refused : BOOLEAN]
        /\ x.pc = "try" /\ x.asked = y.asked /\ x.n = left /\ x.infos = Tail(infos)
    <3>. HIDE DEF left
    <3>. QED BY <1>1, <1>2, <2>2, <2>4, <2>5, <2>6
  <2>8. CallTyped(x) /\ Flying(x) = y.asked - left
    BY <1>2, <2>4, <2>7 DEF CallTyped, Flying
  <2>9. PICK r \in Nat : r = 0
    OBVIOUS
  <2>10. granted' = [granted EXCEPT ![c] = @ + r]
    <3>1. granted \in [Callers -> Nat]
      BY DEF WellFormed, CallsOK
    <3>2. granted[c] + r = granted[c]
      BY <2>9, <3>1
    <3>. QED BY <2>1, <3>1, <3>2
  <2>11. PICK t \in Nat : t = cd.take
    BY <1>5
  <2>12. r + Flying(x) - Flying(call[c]) = t
    <3>1. Flying(call[c]) = y.asked - y.n
      BY <1>1, <1>2 DEF Flying
    <3>2. left = y.n - t
      BY <2>11
    <3>. HIDE DEF left
    <3>. QED BY <1>2, <2>4, <2>8, <2>9, <2>11, <3>1, <3>2
  <2>13. qs[i].left = 0
    BY <1>4, <1>12, <2>4
  <2>14. InOrder(qs, Tail(infos))
    BY <1>2, <1>10, <1>12, <2>13, TailInOrder
  <2>15. x.pc \in {"consume", "try"} => InOrder(packages', x.infos)
    BY <1>9, <2>7, <2>14
  <2>16. /\ ChargedOn(packages') = ChargedOn(packages) + t
         /\ \A d \in cds, k, j \in 1..Len(packages) :
              j < k /\ packages[k].id = d.id => packages'[j].left = 0
    BY <1>9, <1>13, <1>14, <2>11
  <2>17. ChargesAndReports(c, cds, t, x, r)
    BY <1>7, <1>8, <2>3, <2>8, <2>10, <2>12, <2>15, <2>16 DEF ChargesAndReports
  <2>. QED BY <2>17, ChargingStep
<1>. QED BY <1>15, <1>16

(* Before a package that is charged in part, the same call charges all that *)
(* is left.                                                                 *)
LEMMA SpreadLeavesNothing ==
  ASSUME NEW ps, NEW qs, NEW infos \in Seq(Package), NEW n \in Nat, NEW cds,
         PackagesOK(ps), PackagesOK(qs), InOrder(ps, infos), Charges(cds),
         Spread(infos, n, cds), ChargedBy(ps, qs, cds),
         NEW cd \in cds, NEW i \in 1..Len(ps), NEW j \in 1..Len(ps),
         j < i, ps[i].id = cd.id
  PROVE  qs[j].left = 0
<1>1. PICK k \in 1..Len(infos) : Before(infos, k) < n /\ cd.id = infos[k].id
  BY DEF Spread
<1>2. ps \in Seq(Package) /\ qs \in Seq(Package) /\ Len(qs) = Len(ps)
  BY DEF PackagesOK, ChargedBy
<1>3. CASE ps[j].left = 0
  <2>1. qs[j].left \in Nat /\ qs[j].left <= ps[j].left
    BY <1>2, PackageFields, ChargedLater DEF Later
  <2>. QED BY <1>3, <2>1
<1>4. CASE ps[j].left # 0
  <2>1. PICK l \in 1..Len(infos) : l < k /\ ps[j].id = infos[l].id
    BY <1>1, <1>4 DEF InOrder
  <2>2. PICK a, b, d : a = infos[l].left /\ b = Before(infos, l) /\ d = Before(infos, k)
    OBVIOUS
  <2>3. a \in Nat
    BY <2>2, PackageFields
  <2>4. b \in Nat /\ d \in Nat /\ b + a <= d
    <3>1. BeforeAddsUp(infos)
      BY BeforeSums
    <3>2. k \in 1..(Len(infos) + 1) /\ l \in 1..(Len(infos) + 1)
      OBVIOUS
    <3>3. Before(infos, k) \in Nat /\ Before(infos, l) \in Nat
      BY <3>1, <3>2 DEF BeforeAddsUp
    <3>4. Before(infos, l) + infos[l].left <= Before(infos, k)
      BY <2>1, <3>1 DEF BeforeAddsUp
    <3>. QED BY <2>2, <3>3, <3>4
  <2>5. d < n
    BY <1>1, <2>2
  <2>6. b < n /\ a <= n - b
    BY <2>3, <2>4, <2>5
  <2>7. PICK e \in cds : /\ e.id = infos[l].id /\ e.old = a
                         /\ e.take = IF a <= n - b THEN a ELSE n - b
    BY <2>2, <2>6 DEF Spread
  <2>8. e.take = a
    BY <2>6, <2>7
  <2>9. ps[j].left = e.old /\ qs[j].left = ps[j].left - e.take
    BY <2>1, <2>7 DEF ChargedBy
  <2>. QED BY <2>3, <2>7, <2>8, <2>9
<1>. QED BY <1>3, <1>4

LEMMA EndConsumeStep ==
  ASSUME WellFormed, NEW c \in Callers, EndConsume(c)
  PROVE  Advances
<1>1. PICK y, infos, n, cds : /\ y = call[c] /\ infos = y.infos /\ n = y.n
                              /\ cds = ConsumeData(infos, n)
  OBVIOUS
<1>2. /\ y.pc = "consume" /\ PackagesOK(packages) /\ InOrder(packages, infos)
      /\ infos \in Seq(Package) /\ n \in Nat /\ y.asked = n /\ n <= GetAmount(infos)
      /\ Flying(y) = 0
  <2>1. CallTyped(y) /\ y.pc = "consume" /\ PackagesOK(packages) /\ InOrder(packages, infos)
    BY <1>1 DEF WellFormed, CallsOK, ReadsInOrder, EndConsume
  <2>. QED BY <1>1, <2>1 DEF CallTyped, Flying
<1>3. Charges(cds) /\ Spread(infos, n, cds)
  BY <1>1, <1>2, ConsumeSpreads
<1>4. CASE ~Accepts(cds)
  <2>1. UNCHANGED packages /\ Return(c, 0, TRUE)
    BY <1>1, <1>4 DEF EndConsume
  <2>2. PICK r \in Nat, refused \in BOOLEAN : r = 0 /\ refused = TRUE
    OBVIOUS
  <2>3. Return(c, r, refused) /\ r = Flying(call[c])
    BY <1>1, <1>2, <2>1, <2>2
  <2>. QED BY <2>1, <2>3, ReturnStep
<1>5. CASE Accepts(cds)
  <2>1. packages' = Charge(cds) /\ Return(c, n, FALSE)
    BY <1>1, <1>5 DEF EndConsume
  <2>2. PackagesOK(packages') /\ ChargedBy(packages, packages', cds)
    BY <1>2, <1>3, <1>5, <2>1, ChargeMade
  <2>3. PICK ps, qs : ps = packages /\ qs = packages'
    OBVIOUS
  <2>4. PackagesOK(ps) /\ PackagesOK(qs) /\ InOrder(ps, infos) /\ ChargedBy(ps, qs, cds)
    BY <1>2, <2>2, <2>3
  <2>5. ChargedOn(qs) = ChargedOn(ps) + n
    BY <1>2, <1>3, <2>4, SpreadTakesAll
  <2>6. \A cd \in cds, i, j \in 1..Len(ps) : j < i /\ ps[i].id = cd.id => qs[j].left = 0
    BY <1>2, <1>3, <2>4, SpreadLeavesNothing
  <2>7. PICK x : x = [pc |-> "done", asked |-> n, n |-> n - n, infos |-> <<>>, refused |-> FALSE]
    OBVIOUS
  <2>8. call' = [call EXCEPT ![c] = x] /\ granted' = [granted EXCEPT ![c] = @ + n]
    BY <1>1, <1>2, <2>1, <2>7 DEF Return
  <2>9. CallTyped(x) /\ Flying(x) = 0 /\ x.pc = "done"
    <3>1. <<>> \in Seq(Package) /\ n - n = 0
      BY <1>2
    <3>. QED BY <1>2, <2>7, <3>1 DEF CallTyped, Flying
  <2>10. n + Flying(x) - Flying(call[c]) = n
    BY <1>1, <1>2, <2>9
  <2>11. ChargesAndReports(c, cds, n, x, n)
    BY <1>3, <2>2, <2>3, <2>5, <2>6, <2>8, <2>9, <2>10 DEF ChargesAndReports
  <2>. QED BY <1>2, <2>11, ChargingStep
<1>. QED BY <1>4, <1>5

LEMMA TryStepStep ==
  ASSUME WellFormed, NEW c \in Callers, TryStep(c)
  PROVE  Advances
BY TryConsumeStep, TryRefusedStep DEF TryStep

LEMMA TrafficStep ==
  ASSUME WellFormed, TrafficNext
  PROVE  Advances
<1>1. ASSUME NEW id \in PackageIDs, NEW amount \in Sizes, AddPackage(id, amount)
      PROVE  Advances
  BY <1>1, AddPackageStep
<1>2. ASSUME NEW c \in Callers, NEW n \in Requests, BeginConsume(c, n) \/ BeginTry(c, n)
      PROVE  Advances
  <2>1. n \in Nat \ {0}
    BY TrafficAssumption
  <2>. QED BY <1>2, <2>1, BeginConsumeStep, BeginTryStep
<1>3. ASSUME NEW c \in Callers, EndConsume(c) \/ TryStep(c)
      PROVE  Advances
  BY <1>3, EndConsumeStep, TryStepStep
<1>. QED BY <1>1, <1>2, <1>3 DEF TrafficNext

-----------------------------------------------------------------------------
LEMMA TrafficStarts ==
  ASSUME TrafficInit
  PROVE  TrafficInv
<1>1. PackagesOK(packages) /\ packages = <<>>
  BY DEF TrafficInit, PackagesOK
<1>2. CallTyped(IdleCall) /\ Flying(IdleCall) = 0
  <2>1. <<>> \in Seq(Package)
    OBVIOUS
  <2>. QED BY <2>1 DEF IdleCall, CallTyped, Flying
<1>3. CallsOK(call, granted) /\ \A c \in Callers : call[c] = IdleCall /\ granted[c] = 0
  BY <1>2 DEF TrafficInit, CallsOK
<1>4. WellFormed
  BY <1>1, <1>3 DEF WellFormed, ReadsInOrder, IdleCall
<1>5. Charged = 0
  <2>1. 1..Len(packages) = {}
    BY <1>1
  <2>. QED BY <2>1, ChargedIsSum, SumEmpty DEF ChargedOn
<1>6. Books(call, granted) = 0
  <2>1. IsFiniteSet(Callers)
    BY TrafficAssumption
  <2>2. SumFunctionOnSet(granted, Callers) = 0
    BY <1>3, <2>1, SumZero
  <2>3. PICK f : f = FlightOf(call)
    OBVIOUS
  <2>4. \A c \in Callers : f[c] = 0
    BY <1>2, <1>3, <2>3 DEF FlightOf
  <2>5. SumFunctionOnSet(f, Callers) = 0
    BY <2>1, <2>4, SumZero
  <2>. QED BY <2>2, <2>3, <2>5 DEF Books
<1>7. ChargedIsReported
  BY <1>3, <1>5, <1>6, ReportedIsBooks DEF ChargedIsReported
<1>8. OldestFirst
  BY <1>1 DEF OldestFirst
<1>. QED BY <1>4, <1>7, <1>8 DEF TrafficInv

(* A step that advances keeps what is taken and what is reported equal.     *)
LEMMA AdvanceKeeps ==
  ASSUME TrafficInv, Advances
  PROVE  TrafficInv'
<1>1. WellFormed
  BY DEF TrafficInv
<1>2. Charged = ChargedOn(packages) /\ Charged' = ChargedOn(packages')
  <2>1. (Charged = ChargedOn(packages))'
    BY ChargedIsSum, PTL
  <2>. QED BY <2>1, ChargedIsSum
<1>3. SumFunction(granted) + InFlight = Books(call, granted)
  BY <1>1, ReportedIsBooks DEF WellFormed
<1>4. (SumFunction(granted) + InFlight)' = Books(call', granted')
  <2>1. (CallsOK(call, granted) => SumFunction(granted) + InFlight = Books(call, granted))'
    BY ReportedIsBooks, PTL
  <2>2. CallsOK(call', granted')
    BY <1>1 DEF Advances, WellFormed
  <2>. QED BY <2>1, <2>2
<1>5. Books(call, granted) \in Int /\ Books(call', granted') \in Int
  BY <1>1, BooksTyped DEF Advances, WellFormed
<1>6. ChargedOn(packages) = Books(call, granted)
  BY <1>2, <1>3 DEF TrafficInv, ChargedIsReported
<1>7. ChargedOn(packages') = Books(call', granted')
  BY <1>1, <1>5, <1>6 DEF Advances
<1>8. ChargedIsReported'
  BY <1>2, <1>4, <1>7 DEF ChargedIsReported
<1>9. OldestFirst'
  BY <1>1 DEF Advances, TrafficInv, OldestFirst, Oldest
<1>. QED BY <1>1, <1>8, <1>9 DEF Advances, TrafficInv

LEMMA TrafficInvStep ==
  ASSUME TrafficInv, [TrafficNext]_trafficVars
  PROVE  TrafficInv'
<1>1. CASE TrafficNext
  BY <1>1, TrafficStep, AdvanceKeeps DEF TrafficInv
<1>2. CASE UNCHANGED trafficVars
  BY <1>2 DEF trafficVars, TrafficInv, WellFormed, ReadsInOrder, ChargedIsReported, Charged,
    InFlight, OldestFirst
<1>. QED BY <1>1, <1>2

THEOREM TrafficInvariant == Spec => []TrafficInv
BY TrafficStarts, TrafficInvStep, PTL DEF Spec

(* Packages and calls keep their types, and no package is ever overdrawn:   *)
(* for any callers, sizes and amounts, whatever calls read and charge side  *)
(* by side.                                                                 *)
THEOREM PackagesTyped == Spec => []TypeOK
<1>1. TrafficInv => TypeOK
  <2>1. SUFFICES ASSUME TrafficInv PROVE TypeOK
    OBVIOUS
  <2>2. packages \in Seq(Package) /\ \A i \in 1..Len(packages) : packages[i].left <= packages[i].amount
    BY <2>1 DEF TrafficInv, WellFormed, PackagesOK
  <2>3. \A p \in Range(packages) : p.left \in 0..p.amount
    <3>1. \A i \in 1..Len(packages) : packages[i].left \in Nat /\ packages[i].amount \in Nat
      BY <2>2, PackageFields
    <3>2. DOMAIN packages = 1..Len(packages)
      BY <2>2
    <3>. QED BY <2>2, <3>1, <3>2 DEF Range
  <2>4. CallsOK(call, granted)
    BY <2>1 DEF TrafficInv, WellFormed
  <2>5. call \in [Callers -> [pc : {"idle", "consume", "try", "done"}, asked : Nat,
                              n : Nat, infos : Seq(Package), refused : BOOLEAN]]
    BY <2>4 DEF CallsOK, CallTyped
  <2>. QED BY <2>2, <2>3, <2>4, <2>5 DEF TypeOK, CallsOK
<1>. QED BY <1>1, TrafficInvariant, PTL

(* What is taken off the packages is what calls have reported or are about  *)
(* to report, neither more nor less.                                        *)
THEOREM ChargesAreReported == Spec => []ChargedIsReported
<1>1. TrafficInv => ChargedIsReported
  BY DEF TrafficInv
<1>. QED BY <1>1, TrafficInvariant, PTL

(* A package is touched only when nothing is left on the older ones.        *)
THEOREM OldestUsedFirst == Spec => []OldestFirst
<1>1. TrafficInv => OldestFirst
  BY DEF TrafficInv
<1>. QED BY <1>1, TrafficInvariant, PTL
=============================================================================
