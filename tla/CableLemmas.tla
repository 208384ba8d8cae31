------------------------------ MODULE CableLemmas ------------------------------
(* What the operators of the cables' drivers compute: the devices and settings that *)
(* are found, the sizes that are tried for a transfer, the descriptors and where     *)
(* they lie in a buffer, the pages of a scatter list, the segments of a firmware     *)
(* file, and the two walks over a batch for the FTDI cable.                          *)
EXTENDS MCCable, Sums, TLAPS, FiniteSetTheorems, WellFoundedInduction

-----------------------------------------------------------------------------
(* Numbers, sequences and walks *)

LEMMA DivBounds ==
    ASSUME NEW n \in Nat, NEW P \in Nat \ {0}
    PROVE  n \div P \in Nat /\ (n \div P) * P <= n /\ n < (n \div P) * P + P
  OBVIOUS

LEMMA TimesCancels ==
    ASSUME NEW x \in Int, NEW y \in Int, NEW P \in Nat \ {0}, x * P < y * P + P
    PROVE  x <= y
  <1>1. x * P \in Int /\ y * P \in Int
    OBVIOUS
  <1>2. CASE x >= y + 1
    <2>1. PICK k \in Nat : x = y + 1 + k
      <3>1. x - (y + 1) \in Nat /\ x = y + 1 + (x - (y + 1))
        BY <1>2
      <3> QED BY <3>1
    <2>2. x * P = y * P + P + k * P /\ k * P >= 0
      BY <2>1
    <2> QED BY <2>2, <1>1
  <1> QED BY <1>2

LEMMA DivMonotone ==
    ASSUME NEW m \in Nat, NEW n \in Nat, m <= n, NEW P \in Nat \ {0}
    PROVE  m \div P <= n \div P
  <1>1. (m \div P) * P < (n \div P) * P + P
    BY DivBounds
  <1> QED BY <1>1, DivBounds, TimesCancels

LEMMA TimesMonotone ==
    ASSUME NEW x \in Nat, NEW y \in Nat, x <= y, NEW P \in Nat \ {0}
    PROVE  x * P <= y * P
  <1>1. PICK k \in Nat : y = x + k
    <2>1. y - x \in Nat /\ y = x + (y - x)
      OBVIOUS
    <2> QED BY <2>1
  <1>2. y * P = x * P + k * P /\ k * P >= 0 /\ x * P \in Int /\ k * P \in Int
    BY <1>1
  <1> QED BY <1>2

LEMMA SameElements ==
    ASSUME NEW S, NEW s \in Seq(S), NEW t \in Seq(S), Len(s) = Len(t),
           \A i \in 1 .. Len(s) : s[i] = t[i]
    PROVE  s = t
  OBVIOUS

LEMMA LeastExists ==
    ASSUME NEW T \in SUBSET Nat, T # {}
    PROVE  \E x \in T : \A y \in T : x <= y
  <1> DEFINE R == OpToRel(<, Nat)
  <1>1. IsWellFoundedOn(R, Nat)
    BY ONLY NatLessThanWellFounded, Zenon DEF R
  <1>2. ASSUME NEW x \in Nat, NEW y \in Nat, y < x PROVE <<y, x>> \in R
    BY <1>2 DEF OpToRel
  <1> HIDE DEF R
  <1>3. PICK x \in T : \A y \in T : ~ (<<y, x>> \in R)
    BY <1>1, WFMin
  <1>4. ASSUME NEW y \in T PROVE x <= y
    <2>1. x \in Nat /\ y \in Nat
      OBVIOUS
    <2>2. ~(y < x)
      BY <1>2, <1>3, <2>1
    <2> QED BY <2>1, <2>2
  <1> QED BY <1>3, <1>4

\* Induction up to n, with a set in place of a predicate.
LEMMA UpTo ==
    ASSUME NEW n \in Nat, NEW T, 0 \in T, \A k \in 1 .. n : k - 1 \in T => k \in T
    PROVE  \A k \in 0 .. n : k \in T
  <1> DEFINE F == {k \in 0 .. n : k \notin T}
  <1>1. SUFFICES ASSUME F # {}
                 PROVE  FALSE
    OBVIOUS
  <1>2. F \in SUBSET Nat /\ F # {}
    BY <1>1
  <1>3. PICK k \in F : \A l \in F : k <= l
    BY <1>2, LeastExists
  <1>4. k \in 1 .. n
    BY <1>3
  <1>5. k - 1 \in 0 .. n /\ ~(k <= k - 1)
    BY <1>4
  <1>6. k - 1 \in T
    BY <1>3, <1>5
  <1> QED BY <1>3, <1>4, <1>6

\* A walk from base on by the steps of F.
IsWalk(n, base, F, w) == \A i \in 0 .. n : w[i] = IF i = 0 THEN base ELSE F[i][w[i - 1]]

LEMMA WalkExists ==
    ASSUME NEW n \in Nat, NEW S, NEW base \in S, NEW F \in [1 .. n -> [S -> S]]
    PROVE  \E w \in [0 .. n -> S] : IsWalk(n, base, F, w)
  <1> DEFINE Walk(k, w) == \A i \in 0 .. k : w[i] = IF i = 0 THEN base ELSE F[i][w[i - 1]]
             T == {k \in Nat : \E w \in [0 .. k -> S] : Walk(k, w)}
  <1>1. 0 \in T
    <2> DEFINE w == [i \in 0 .. 0 |-> base]
    <2>1. w \in [0 .. 0 -> S]
      OBVIOUS
    <2>2. \A i \in 0 .. 0 : i = 0 /\ w[i] = base
      OBVIOUS
    <2>3. Walk(0, w)
      BY <2>2
    <2> QED BY <2>1, <2>3
  <1>2. ASSUME NEW k \in 1 .. n, k - 1 \in T
        PROVE  k \in T
    <2>0. k \in Nat /\ k - 1 \in Nat /\ k # 0
      OBVIOUS
    <2>1. PICK v \in [0 .. k - 1 -> S] : Walk(k - 1, v)
      BY <1>2
    <2> DEFINE w == [i \in 0 .. k |-> IF i = k THEN F[k][v[k - 1]] ELSE v[i]]
    <2>2. \A i \in 0 .. k : i # k => i \in 0 .. k - 1
      BY <2>0
    <2>3. \A i \in 0 .. k : i # 0 => i - 1 \in 0 .. k - 1 /\ i - 1 \in 0 .. k /\ i - 1 # k
      BY <2>0
    <2>4. v[k - 1] \in S
      BY <2>0
    <2>5. w \in [0 .. k -> S]
      <3>1. F[k][v[k - 1]] \in S
        BY <2>4
      <3> QED BY <2>2, <3>1
    <2>6. ASSUME NEW i \in 0 .. k
          PROVE  w[i] = IF i = 0 THEN base ELSE F[i][w[i - 1]]
      <3>1. i # 0 => w[i - 1] = v[i - 1]
        BY <2>3
      <3>2. CASE i = k
        BY <2>0, <3>1, <3>2
      <3>3. CASE i # k
        <4>1. i \in 0 .. k - 1 /\ w[i] = v[i]
          BY <2>2, <3>3
        <4>2. v[i] = IF i = 0 THEN base ELSE F[i][v[i - 1]]
          BY <2>1, <4>1
        <4> QED BY <3>1, <4>1, <4>2
      <3> QED BY <3>2, <3>3
    <2> HIDE DEF w
    <2> QED BY <2>0, <2>5, <2>6
  <1> HIDE DEF T
  <1>3. n \in T
    <2>1. \A k \in 0 .. n : k \in T
      BY <1>1, <1>2, UpTo
    <2> QED BY <2>1
  <1> QED BY <1>3 DEF T, IsWalk

LEMMA GreatestExists ==
    ASSUME NEW n \in Nat, NEW T \in SUBSET (0 .. n), T # {}
    PROVE  \E x \in T : \A y \in T : y <= x
  <1> DEFINE R == {n - x : x \in T}
  <1>1. R \in SUBSET Nat /\ R # {}
    <2>1. \A x \in T : x \in 0 .. n
      OBVIOUS
    <2>2. \A x \in 0 .. n : n - x \in Nat
      OBVIOUS
    <2> QED BY <2>1, <2>2
  <1>2. PICK r \in R : \A s \in R : r <= s
    BY <1>1, LeastExists
  <1>3. PICK x \in T : r = n - x
    BY <1>2
  <1>4. ASSUME NEW y \in T
        PROVE  y <= x
    <2>1. n - x <= n - y
      BY <1>2, <1>3
    <2>2. x \in Nat /\ y \in Nat
      OBVIOUS
    <2> QED BY ONLY <2>1, <2>2, n \in Nat
  <1> QED BY <1>4

LEMMA Joined ==
    ASSUME NEW S, NEW a \in Seq(S), NEW b \in Seq(S)
    PROVE  /\ a \o b \in Seq(S) /\ Len(a \o b) = Len(a) + Len(b)
           /\ \A i \in 1 .. Len(a) : (a \o b)[i] = a[i]
  OBVIOUS

-----------------------------------------------------------------------------
(* The kernel module: what is told about a device *)

\* The place of a setting is three numbers, the first two are the place of its interface.
LEMMA Places ==
    ASSUME NEW i \in Nat, NEW j \in Nat, NEW k \in Nat
    PROVE  SubSeq(<<i, j, k>>, 1, 2) = <<i, j>>
  <1> DEFINE s == <<i, j, k>>
             t == SubSeq(s, 1, 2)
  <1>1. s \in Seq(Nat) /\ Len(s) = 3 /\ s[1] = i /\ s[2] = j
    OBVIOUS
  <1> HIDE DEF s
  <1>2. t = [m \in 1 .. 2 |-> s[m]]
    BY <1>1
  <1>3. t = [m \in 1 .. 2 |-> IF m = 1 THEN i ELSE j]
    BY <1>1, <1>2
  <1>4. <<i, j>> = [m \in 1 .. 2 |-> IF m = 1 THEN i ELSE j]
    OBVIOUS
  <1> QED BY <1>3, <1>4 DEF s

LEMMA DeviceTyped ==
    ASSUME NEW d \in InfoDevices
    PROVE  /\ Len(d) \in Nat /\ DOMAIN d = 1 .. Len(d)
           /\ \A i \in 1 .. Len(d) :
                /\ Len(d[i].ifs) \in Nat /\ DOMAIN d[i].ifs = 1 .. Len(d[i].ifs)
                /\ Len(d[i].ifs) > 0
                /\ \A j \in 1 .. Len(d[i].ifs) :
                     /\ Len(d[i].ifs[j].alts) \in Nat
                     /\ DOMAIN d[i].ifs[j].alts = 1 .. Len(d[i].ifs[j].alts)
                     /\ Len(d[i].ifs[j].alts) > 0
  <1>1. d \in Seq(Configurations)
    BY CableAssumption
  <1> DEFINE Interfaces == [num : Nat, alts : Seq([alt : Nat, eps : Nat]) \ {<<>>}]
  <1>2. ASSUME NEW i \in 1 .. Len(d)
        PROVE  /\ Len(d[i].ifs) \in Nat /\ DOMAIN d[i].ifs = 1 .. Len(d[i].ifs)
               /\ Len(d[i].ifs) > 0
               /\ \A j \in 1 .. Len(d[i].ifs) : d[i].ifs[j] \in Interfaces
    <2>1. d[i] \in Configurations
      BY <1>1
    <2>2. d[i].ifs \in Seq(Interfaces) \ {<<>>}
      BY <2>1 DEF Configurations
    <2> DEFINE s == d[i].ifs
    <2>3. s \in Seq(Interfaces) /\ s # <<>>
      BY <2>2
    <2> HIDE DEF s, Interfaces
    <2>4. /\ Len(s) \in Nat /\ DOMAIN s = 1 .. Len(s) /\ Len(s) > 0
          /\ \A j \in 1 .. Len(s) : s[j] \in Interfaces
      BY ONLY <2>3
    <2> QED BY <2>4 DEF s
  <1>3. ASSUME NEW e \in Interfaces
        PROVE  Len(e.alts) \in Nat /\ DOMAIN e.alts = 1 .. Len(e.alts) /\ Len(e.alts) > 0
    <2> DEFINE s == e.alts
               A == [alt : Nat, eps : Nat]
    <2>1. s \in Seq(A) /\ s # <<>>
      OBVIOUS
    <2> HIDE DEF s, A
    <2>2. Len(s) \in Nat /\ DOMAIN s = 1 .. Len(s) /\ Len(s) > 0
      BY ONLY <2>1
    <2> QED BY <2>2 DEF s
  <1> HIDE DEF Interfaces
  <1> QED BY <1>1, <1>2, <1>3

LEMMA SettingsPlaced ==
    ASSUME NEW d \in InfoDevices
    PROVE  /\ \A p \in Info!Settings(d) :
                /\ p = <<p[1], p[2], p[3]>>
                /\ p[1] \in 1 .. Len(d) /\ p[2] \in 1 .. Len(d[p[1]].ifs)
                /\ p[3] \in 1 .. Len(d[p[1]].ifs[p[2]].alts)
                /\ p[1] \in Nat /\ p[2] \in Nat /\ p[3] \in Nat
           /\ \A i \in 1 .. Len(d) : \A j \in 1 .. Len(d[i].ifs) :
                <<i, j, 1>> \in Info!Settings(d)
  <1>1. ASSUME NEW p \in Info!Settings(d)
        PROVE  /\ p = <<p[1], p[2], p[3]>>
               /\ p[1] \in 1 .. Len(d) /\ p[2] \in 1 .. Len(d[p[1]].ifs)
               /\ p[3] \in 1 .. Len(d[p[1]].ifs[p[2]].alts)
               /\ p[1] \in Nat /\ p[2] \in Nat /\ p[3] \in Nat
    <2>1. PICK i \in DOMAIN d : \E j \in DOMAIN d[i].ifs : \E k \in DOMAIN d[i].ifs[j].alts :
              p = <<i, j, k>>
      BY DEF Info!Settings
    <2>2. PICK j \in DOMAIN d[i].ifs : \E k \in DOMAIN d[i].ifs[j].alts : p = <<i, j, k>>
      BY <2>1
    <2>3. PICK k \in DOMAIN d[i].ifs[j].alts : p = <<i, j, k>>
      BY <2>2
    <2>4. /\ i \in 1 .. Len(d) /\ j \in 1 .. Len(d[i].ifs) /\ k \in 1 .. Len(d[i].ifs[j].alts)
          /\ i \in Nat /\ j \in Nat /\ k \in Nat
      <3>1. i \in 1 .. Len(d)
        BY DeviceTyped
      <3>2. j \in 1 .. Len(d[i].ifs) /\ Len(d[i].ifs) \in Nat
        BY <3>1, DeviceTyped
      <3>3. k \in 1 .. Len(d[i].ifs[j].alts) /\ Len(d[i].ifs[j].alts) \in Nat
        BY <3>1, <3>2, DeviceTyped
      <3> QED BY <3>1, <3>2, <3>3, DeviceTyped
    <2>5. p[1] = i /\ p[2] = j /\ p[3] = k
      BY <2>3
    <2> QED BY <2>3, <2>4, <2>5
  <1>2. ASSUME NEW i \in 1 .. Len(d), NEW j \in 1 .. Len(d[i].ifs)
        PROVE  <<i, j, 1>> \in Info!Settings(d)
    <2>1. i \in DOMAIN d /\ j \in DOMAIN d[i].ifs
      BY DeviceTyped
    <2>2. 1 \in DOMAIN d[i].ifs[j].alts
      <3> DEFINE l == Len(d[i].ifs[j].alts)
      <3>1. l \in Nat /\ l > 0 /\ DOMAIN d[i].ifs[j].alts = 1 .. l
        BY DeviceTyped
      <3> HIDE DEF l
      <3>2. 1 \in 1 .. l
        BY <3>1
      <3> QED BY <3>1, <3>2
    <2> QED BY <2>1, <2>2 DEF Info!Settings
  <1> QED BY <1>1, <1>2

\* Of some settings one is the last.
LEMMA LastFound ==
    ASSUME NEW d \in InfoDevices, NEW S \in SUBSET Info!Settings(d), S # {}
    PROVE  Info!LastOf(S) \in S
  <1>0. \A p \in S : /\ p = <<p[1], p[2], p[3]>>
                     /\ p[1] \in 1 .. Len(d) /\ p[2] \in 1 .. Len(d[p[1]].ifs)
                     /\ p[3] \in 1 .. Len(d[p[1]].ifs[p[2]].alts)
                     /\ p[1] \in Nat /\ p[2] \in Nat /\ p[3] \in Nat
    BY SettingsPlaced
  <1>1. \E i \in {p[1] : p \in S} : \A x \in {p[1] : p \in S} : x <= i
    <2>1. {p[1] : p \in S} \in SUBSET (0 .. Len(d)) /\ {p[1] : p \in S} # {} /\ Len(d) \in Nat
      BY <1>0, DeviceTyped
    <2> QED BY ONLY <2>1, GreatestExists
  <1>2. PICK i \in {p[1] : p \in S} : \A x \in {p[1] : p \in S} : x <= i
    BY <1>1
  <1> DEFINE S2 == {p \in S : p[1] = i}
  <1>3. \E j \in {p[2] : p \in S2} : \A x \in {p[2] : p \in S2} : x <= j
    <2> DEFINE n == Len(d[i].ifs)
               T == {p[2] : p \in S2}
    <2>1. T \in SUBSET (0 .. n) /\ T # {} /\ n \in Nat
      BY <1>0, <1>2, DeviceTyped
    <2> HIDE DEF n, T
    <2>2. \E j \in T : \A x \in T : x <= j
      BY ONLY <2>1, GreatestExists
    <2> QED BY <2>2 DEF T
  <1>4. PICK j \in {p[2] : p \in S2} : \A x \in {p[2] : p \in S2} : x <= j
    BY <1>3
  <1> DEFINE S3 == {p \in S2 : p[2] = j}
  <1>5. \E k \in {p[3] : p \in S3} : \A x \in {p[3] : p \in S3} : x <= k
    <2> DEFINE n == Len(d[i].ifs[j].alts)
               T == {p[3] : p \in S3}
    <2>1. T \in SUBSET (0 .. n) /\ T # {} /\ n \in Nat
      <3>1. PICK q \in S : q[1] = i /\ q[2] = j
        BY <1>4
      <3>2. i \in 1 .. Len(d) /\ j \in 1 .. Len(d[i].ifs)
        BY <1>0, <3>1
      <3>3. n \in Nat
        BY <3>2, DeviceTyped
      <3>4. ASSUME NEW p \in S3 PROVE p[3] \in 0 .. n
        <4>1. p \in S /\ p[1] = i /\ p[2] = j
          OBVIOUS
        <4>2. p[3] \in 1 .. n
          BY <1>0, <4>1
        <4> HIDE DEF n
        <4> QED BY ONLY <3>3, <4>2
      <3>5. q[3] \in T
        BY <3>1
      <3> QED BY <3>3, <3>4, <3>5
    <2> HIDE DEF n, T
    <2>2. \E k \in T : \A x \in T : x <= k
      BY ONLY <2>1, GreatestExists
    <2> QED BY <2>2 DEF T
  <1>6. PICK k \in {p[3] : p \in S3} : \A x \in {p[3] : p \in S3} : x <= k
    BY <1>5
  <1>7. PICK p \in S : p[1] = i /\ p[2] = j /\ p[3] = k
    BY <1>6
  <1>8. ASSUME NEW q \in S \ {p}
        PROVE  Info!Before(q, p)
    <2>1. q[1] <= i /\ (q[1] = i => q[2] <= j) /\ (q[1] = i /\ q[2] = j => q[3] <= k)
      BY <1>2, <1>4, <1>6
    <2>2. ~(q[1] = i /\ q[2] = j /\ q[3] = k)
      BY <1>0, <1>7
    <2>3. q[1] \in Nat /\ q[2] \in Nat /\ q[3] \in Nat /\ i \in Nat /\ j \in Nat /\ k \in Nat
      BY <1>0, <1>7
    <2>4. q[1] < i \/ (q[1] = i /\ q[2] < j) \/ (q[1] = i /\ q[2] = j /\ q[3] < k)
      BY ONLY <2>1, <2>2, <2>3
    <2> QED BY <1>7, <2>4 DEF Info!Before
  <1> HIDE DEF S2, S3
  <1> QED BY <1>8 DEF Info!LastOf

\* What OS_get_device_info names as active exists.
LEMMA ActiveFound ==
    ASSUME NEW d \in InfoDevices, NEW c, NEW n, NEW a, \E i \in DOMAIN d : d[i].value = c,
           NEW act, act = Info!ActiveIn(d, c, n, a)
    PROVE  /\ act.alt \in Info!Settings(d)
           /\ Len(d) = 1 => act.if = SubSeq(act.alt, 1, 2)
  <1> DEFINE S    == Info!Settings(d)
             ifs  == {p \in S : d[p[1]].ifs[p[2]].num = n}
             alts == {p \in ifs : d[p[1]].ifs[p[2]].alts[p[3]].alt = a}
             current == {p \in S : d[p[1]].value = c}
             f    == IF ifs # {} THEN SubSeq(Info!LastOf(ifs), 1, 2)
                     ELSE <<Info!LastOf(current)[1], 1>>
             g    == IF alts # {} THEN Info!LastOf(alts) ELSE <<f[1], f[2], 1>>
  <1>1. act.if = f /\ act.alt = g
    BY DEF Info!ActiveIn
  <1>2. \A p \in S : /\ p = <<p[1], p[2], p[3]>>
                     /\ p[1] \in 1 .. Len(d) /\ p[2] \in 1 .. Len(d[p[1]].ifs)
                     /\ p[1] \in Nat /\ p[2] \in Nat /\ p[3] \in Nat
    <2>1. d \in InfoDevices
      OBVIOUS
    <2>2. \A p \in Info!Settings(d) :
             /\ p = <<p[1], p[2], p[3]>>
             /\ p[1] \in 1 .. Len(d) /\ p[2] \in 1 .. Len(d[p[1]].ifs)
             /\ p[3] \in 1 .. Len(d[p[1]].ifs[p[2]].alts)
             /\ p[1] \in Nat /\ p[2] \in Nat /\ p[3] \in Nat
      BY ONLY <2>1, SettingsPlaced
    <2> QED BY ONLY <2>2
  <1>3. \A i \in 1 .. Len(d) : \A j \in 1 .. Len(d[i].ifs) : <<i, j, 1>> \in S
    <2>1. d \in InfoDevices
      OBVIOUS
    <2>2. \A i \in 1 .. Len(d) : \A j \in 1 .. Len(d[i].ifs) : <<i, j, 1>> \in Info!Settings(d)
      BY ONLY <2>1, SettingsPlaced
    <2> QED BY ONLY <2>2
  <1>4. ifs # {} => Info!LastOf(ifs) \in ifs
    BY LastFound
  <1>5. alts # {} => Info!LastOf(alts) \in alts
    BY LastFound
  <1>6. Info!LastOf(current) \in current
    <2>1. PICK i \in 1 .. Len(d) : d[i].value = c
      BY DeviceTyped
    <2>2. 1 \in 1 .. Len(d[i].ifs)
      BY DeviceTyped
    <2>3. <<i, 1, 1>> \in S
      BY <1>3, <2>2
    <2>4. <<i, 1, 1>> \in current
      BY <2>1, <2>3
    <2> QED BY <2>4, LastFound
  <1> DEFINE Names(i, j) ==
                 /\ f = <<i, j>> /\ i \in Nat /\ j \in Nat
                 /\ ifs # {} => <<i, j>> = <<Info!LastOf(ifs)[1], Info!LastOf(ifs)[2]>>
  <1>10. \E i \in 1 .. Len(d) : \E j \in 1 .. Len(d[i].ifs) : Names(i, j)
    <2>1. CASE ifs # {}
      <3> DEFINE p == Info!LastOf(ifs)
      <3>1. p = <<p[1], p[2], p[3]>> /\ p[1] \in 1 .. Len(d) /\ p[2] \in 1 .. Len(d[p[1]].ifs)
            /\ p[1] \in Nat /\ p[2] \in Nat /\ p[3] \in Nat
        BY <1>2, <1>4, <2>1
      <3> HIDE DEF p
      <3>2. SubSeq(p, 1, 2) = <<p[1], p[2]>>
        <4> DEFINE x == p[1]
                   y == p[2]
                   z == p[3]
        <4>1. p = <<x, y, z>> /\ x \in Nat /\ y \in Nat /\ z \in Nat
          BY <3>1
        <4> HIDE DEF x, y, z
        <4>2. SubSeq(<<x, y, z>>, 1, 2) = <<x, y>>
          BY <4>1, Places
        <4> QED BY <4>1, <4>2 DEF x, y
      <3>3. f = <<p[1], p[2]>>
        BY <2>1, <3>2 DEF p
      <3> QED BY <3>1, <3>3 DEF p
    <2>2. CASE ifs = {}
      <3> DEFINE p == Info!LastOf(current)
      <3>1. p[1] \in 1 .. Len(d) /\ p[1] \in Nat
        BY <1>2, <1>6
      <3>2. f = <<p[1], 1>>
        BY <2>2
      <3> HIDE DEF p, f
      <3>3. 1 \in 1 .. Len(d[p[1]].ifs)
        BY <3>1, DeviceTyped
      <3> QED BY <2>2, <3>1, <3>2, <3>3
    <2> QED BY <2>1, <2>2
  <1>11. PICK i \in 1 .. Len(d) : \E j \in 1 .. Len(d[i].ifs) : Names(i, j)
    BY <1>10
  <1>7. PICK j \in 1 .. Len(d[i].ifs) : Names(i, j)
    BY <1>11
  <1> HIDE DEF f, g, S, current
  <1>8. CASE alts = {}
    <2>1. g = <<i, j, 1>>
      BY <1>7, <1>8, Places DEF g
    <2>2. SubSeq(g, 1, 2) = f
      BY <1>7, <2>1, Places
    <2> QED BY <1>1, <1>3, <1>7, <2>1, <2>2 DEF S
  <1>9. CASE alts # {}
    <2> DEFINE q == Info!LastOf(alts)
    <2>1. q \in S /\ q \in ifs /\ g = q
      BY <1>5, <1>9 DEF g
    <2> HIDE DEF q
    <2>2. ASSUME Len(d) = 1
          PROVE  f = SubSeq(q, 1, 2)
      <3> DEFINE p == Info!LastOf(ifs)
      <3>1. p \in ifs /\ p \in S /\ <<i, j>> = <<p[1], p[2]>>
        BY <1>4, <1>7, <2>1
      <3> HIDE DEF p
      <3>2. i = p[1] /\ j = p[2]
        BY <3>1
      <3>3. p[1] = 1 /\ q[1] = 1
        BY <1>2, <2>1, <2>2, <3>1
      <3>4. /\ d[1].ifs[p[2]].num = n /\ d[1].ifs[q[2]].num = n
            /\ p[2] \in DOMAIN d[1].ifs /\ q[2] \in DOMAIN d[1].ifs /\ 1 \in DOMAIN d
        BY <1>2, <2>1, <2>2, <3>1, <3>3, DeviceTyped
      <3>5. p[2] = q[2]
        BY <3>4, CableAssumption
      <3>6. q = <<q[1], q[2], q[3]>> /\ q[1] \in Nat /\ q[2] \in Nat /\ q[3] \in Nat
        BY <1>2, <2>1
      <3>7. SubSeq(q, 1, 2) = <<q[1], q[2]>>
        <4> DEFINE x == q[1]
                   y == q[2]
                   z == q[3]
        <4>1. q = <<x, y, z>> /\ x \in Nat /\ y \in Nat /\ z \in Nat
          BY <3>6
        <4> HIDE DEF x, y, z
        <4>2. SubSeq(<<x, y, z>>, 1, 2) = <<x, y>>
          BY <4>1, Places
        <4> QED BY <4>1, <4>2 DEF x, y
      <3> QED BY <1>7, <3>2, <3>3, <3>5, <3>7
    <2> QED BY <1>1, <2>1, <2>2 DEF S
  <1> QED BY <1>8, <1>9

-----------------------------------------------------------------------------
(* The kernel module: the bytes of a transfer *)

LEMMA WholePackets ==
    ASSUME NEW n \in Nat, NEW P \in Nat \ {0}
    PROVE  (n \div P) * P \in Nat /\ (n \div P) * P <= n /\ (n % P = 0 => (n \div P) * P = n)
  OBVIOUS

LEMMA HalvedTyped ==
    ASSUME NEW type, NEW n \in Nat
    PROVE  Wd!Halved(type, n) \in Nat
  <1> DEFINE h == n \div 2
  <1>1. h \in Nat
    OBVIOUS
  <1> HIDE DEF h
  <1>2. (h \div PacketSize) * PacketSize \in Nat
    BY <1>1, WholePackets, CableAssumption
  <1> QED BY <1>1, <1>2 DEF Wd!Halved, h

\* The size that is tried first, of a transfer that is not empty: for isochronous transfers it
\* is made of full packets, or is one packet.
Packets(type, n) == type = "iso" => n <= PacketSize \/ \E q \in Nat : n = q * PacketSize

LEMMA RoundedPositive ==
    ASSUME NEW type, NEW n \in Nat \ {0}
    PROVE  Wd!Rounded(type, n) \in Nat \ {0} /\ Packets(type, Wd!Rounded(type, n))
  <1>0. PacketSize \in Nat \ {0} /\ MAX_PACKETS \in Nat \ {0}
    BY CableAssumption
  <1> DEFINE x == n \div PacketSize > MAX_PACKETS
             w == n \div PacketSize <= MAX_PACKETS
             q == (n - 1) \div PacketSize
             y == (q + 1) * PacketSize
             z == MAX_PACKETS * PacketSize
             m == Wd!Min2(n, PacketSize)
  <1>1. m \in Nat \ {0}
    BY <1>0 DEF Wd!Min2
  <1>2. q \in Nat
    BY <1>0
  <1>3. Wd!Rounded(type, n) = CASE type = "interrupt" -> m
                                [] type = "iso" /\ x -> z
                                [] type = "iso" /\ w /\ n > PacketSize -> y
                                [] OTHER -> n
    BY DEF Wd!Rounded
  <1>w. w <=> ~x
    <2>1. n \div PacketSize \in Nat
      BY <1>0
    <2> QED BY <1>0, <2>1
  <1> HIDE DEF m, q, x, w
  <1>4. ASSUME NEW a \in Nat \ {0}
        PROVE  a * PacketSize \in Nat \ {0}
    BY <1>0
  <1>5. z \in Nat \ {0} /\ Packets(type, z)
    BY <1>0, <1>4 DEF Packets
  <1>6. y \in Nat \ {0} /\ Packets(type, y)
    <2>1. q + 1 \in Nat \ {0}
      BY <1>2
    <2>2. y \in Nat \ {0}
      BY <1>4, <2>1
    <2> QED BY <2>1, <2>2 DEF Packets
  <1> HIDE DEF y, z
  <1>7. CASE type = "interrupt"
    BY <1>1, <1>3, <1>7 DEF Packets
  <1>8. CASE type # "interrupt" /\ type = "iso" /\ x
    BY <1>3, <1>5, <1>8, <1>w
  <1>9. CASE type # "interrupt" /\ type = "iso" /\ ~x /\ n > PacketSize
    BY <1>3, <1>6, <1>9, <1>w
  <1>10. CASE type # "interrupt" /\ ~(type = "iso" /\ x) /\ ~(type = "iso" /\ n > PacketSize)
    <2>1. Wd!Rounded(type, n) = n
      BY <1>3, <1>10
    <2>2. type = "iso" => n <= PacketSize
      BY <1>0, <1>10
    <2> QED BY <2>1, <2>2 DEF Packets
  <1> QED BY <1>7, <1>8, <1>9, <1>10

\* Half of more than a page is not empty.
LEMMA HalvedPositive ==
    ASSUME NEW type, NEW n \in Nat, n > UsbPage, Packets(type, n)
    PROVE  Wd!Halved(type, n) \in Nat \ {0} /\ Packets(type, Wd!Halved(type, n))
  <1>0. PacketSize \in Nat \ {0} /\ UsbPage \in Nat /\ PacketSize <= UsbPage
    BY CableAssumption
  <1> DEFINE h == n \div 2
             p == h \div PacketSize
  <1>1. h \in Nat \ {0} /\ 2 * h + 1 >= n
    BY <1>0
  <1>2. Wd!Halved(type, n) = IF type = "iso" THEN p * PacketSize ELSE h
    BY DEF Wd!Halved
  <1>3. CASE type # "iso"
    BY <1>1, <1>2, <1>3 DEF Packets
  <1>4. CASE type = "iso"
    <2>1. PICK q \in Nat : n = q * PacketSize
      BY <1>0, <1>4 DEF Packets
    <2>2. q >= 2
      <3>1. q = 0 => q * PacketSize = 0
        BY <1>0
      <3>2. q = 1 => q * PacketSize = PacketSize
        BY <1>0
      <3> QED BY <1>0, <2>1, <3>1, <3>2
    <2>3. n >= 2 * PacketSize
      <3>1. q * PacketSize = (q - 2) * PacketSize + 2 * PacketSize
        BY <1>0, <2>2
      <3>2. (q - 2) * PacketSize \in Nat
        <4>1. \A a \in Nat : a * PacketSize \in Nat
          BY <1>0
        <4>2. q - 2 \in Nat
          BY <2>2
        <4> QED BY <4>1, <4>2
      <3> QED BY <1>0, <2>1, <3>1, <3>2
    <2>4. h >= PacketSize
      BY <1>0, <2>3
    <2> HIDE DEF h
    <2>5. p \in Nat \ {0}
      BY <1>0, <1>1, <2>4
    <2> HIDE DEF p
    <2>6. p * PacketSize \in Nat \ {0}
      BY <1>0, <2>5
    <2> QED BY <1>2, <1>4, <2>5, <2>6 DEF Packets
  <1> QED BY <1>3, <1>4

\* The sizes that are tried, one after the other.
FirstTried(type, n) ==
    Wd!Rounded(type, IF type = "interrupt" THEN n ELSE Wd!Min2(n, MAX_ALLOC_SIZE))
Tries(type, n, r, c) ==
    /\ r = FirstTried(type, n)
    /\ \A k \in 0 .. r : c[k] = IF k = 0 THEN r ELSE Wd!Halved(type, c[k - 1])
    /\ Wd!try_allocate(type, n)
         = {c[k] : k \in {m \in 0 .. r : \A l \in 0 .. m - 1 : c[l] > UsbPage}}

LEMMA AllocateWalks ==
    ASSUME NEW type, NEW n \in Nat \ {0}
    PROVE  \E r \in Nat : \E c : Tries(type, n, r, c)
  <1> DEFINE r == FirstTried(type, n)
             Walk(w) == w = [k \in 0 .. r |-> IF k = 0 THEN r ELSE Wd!Halved(type, w[k - 1])]
             F == [k \in 1 .. r |-> [m \in Nat |-> Wd!Halved(type, m)]]
  <1>1. r \in Nat
    <2>1. (IF type = "interrupt" THEN n ELSE Wd!Min2(n, MAX_ALLOC_SIZE)) \in Nat \ {0}
      BY CableAssumption DEF Wd!Min2
    <2> QED BY <2>1, RoundedPositive DEF FirstTried
  <1> DEFINE c == CHOOSE w : Walk(w)
  <1>2. Wd!try_allocate(type, n)
          = {c[k] : k \in {m \in 0 .. r : \A l \in 0 .. m - 1 : c[l] > UsbPage}}
    BY DEF Wd!try_allocate, FirstTried
  <1>r. r = FirstTried(type, n)
    OBVIOUS
  <1> HIDE DEF r
  <1>0. \A k \in 0 .. r : k # 0 => k - 1 \in 0 .. r /\ k \in 1 .. r
    BY <1>1
  <1>3. F \in [1 .. r -> [Nat -> Nat]]
    BY HalvedTyped
  <1>4. \A k \in 1 .. r, m \in Nat : F[k][m] = Wd!Halved(type, m)
    OBVIOUS
  <1> HIDE DEF F
  <1>5. PICK w \in [0 .. r -> Nat] : IsWalk(r, r, F, w)
    BY ONLY <1>1, <1>3, WalkExists
  <1>6. \A k \in 0 .. r : w[k] = IF k = 0 THEN r ELSE Wd!Halved(type, w[k - 1])
    <2> SUFFICES ASSUME NEW k \in 0 .. r
                 PROVE  w[k] = IF k = 0 THEN r ELSE Wd!Halved(type, w[k - 1])
      OBVIOUS
    <2>1. w[k] = IF k = 0 THEN r ELSE F[k][w[k - 1]]
      BY <1>5 DEF IsWalk
    <2> QED BY <1>0, <1>4, <2>1
  <1>7. Walk(w)
    BY <1>6
  <1>8. Walk(c)
    BY <1>7
  <1> HIDE DEF c
  <1>9. \A k \in 0 .. r : c[k] = IF k = 0 THEN r ELSE Wd!Halved(type, c[k - 1])
    BY <1>8
  <1>10. Tries(type, n, r, c)
    BY <1>2, <1>r, <1>9 DEF Tries
  <1> QED BY <1>1, <1>10

\* Whatever size can be allocated is not empty.
LEMMA AllocatePositive ==
    ASSUME NEW type, NEW n \in Nat \ {0}
    PROVE  Wd!try_allocate(type, n) \subseteq Nat \ {0}
  <1> DEFINE first == IF type = "interrupt" THEN n ELSE Wd!Min2(n, MAX_ALLOC_SIZE)
  <1>1. first \in Nat \ {0}
    BY CableAssumption DEF Wd!Min2
  <1>2. FirstTried(type, n) = Wd!Rounded(type, first)
    BY DEF FirstTried
  <1> HIDE DEF first
  <1>3. PICK r \in Nat : \E c : Tries(type, n, r, c)
    BY AllocateWalks
  <1>4. PICK c : Tries(type, n, r, c)
    BY <1>3
  <1>5. /\ r = Wd!Rounded(type, first)
        /\ \A k \in 0 .. r : c[k] = IF k = 0 THEN r ELSE Wd!Halved(type, c[k - 1])
        /\ Wd!try_allocate(type, n)
             = {c[k] : k \in {m \in 0 .. r : \A l \in 0 .. m - 1 : c[l] > UsbPage}}
    BY <1>2, <1>4 DEF Tries
  <1> DEFINE Tried(k) == \A l \in 0 .. k - 1 : c[l] > UsbPage
             T == {k \in 0 .. r : Tried(k) => c[k] \in Nat \ {0} /\ Packets(type, c[k])}
  <1>6. 0 \in T
    BY <1>1, <1>5, RoundedPositive
  <1>7. ASSUME NEW k \in 1 .. r, k - 1 \in T
        PROVE  k \in T
    <2> SUFFICES ASSUME Tried(k)
                 PROVE  c[k] \in Nat \ {0} /\ Packets(type, c[k])
      OBVIOUS
    <2>1. k \in 0 .. r /\ k # 0 /\ k - 1 \in 0 .. k - 1 /\ \A l \in 0 .. (k - 1) - 1 : l \in 0 .. k - 1
      OBVIOUS
    <2>2. c[k - 1] > UsbPage /\ Tried(k - 1)
      BY <2>1
    <2>3. c[k - 1] \in Nat /\ Packets(type, c[k - 1])
      BY <1>7, <2>2
    <2>4. c[k] = Wd!Halved(type, c[k - 1])
      BY <1>5, <2>1
    <2> QED BY <2>2, <2>3, <2>4, HalvedPositive
  <1> HIDE DEF T
  <1>8. \A k \in 0 .. r : k \in T
    BY <1>6, <1>7, UpTo
  <1> QED BY <1>5, <1>8 DEF T

-----------------------------------------------------------------------------
(* Sums *)

\* The sums of a sequence of naturals.
LEMMA SumsTyped ==
    ASSUME NEW s \in Seq(Nat)
    PROVE  /\ Sums(s) \in [0 .. Len(s) -> Nat] /\ Sums(s)[0] = 0
           /\ \A k \in 1 .. Len(s) : Sums(s)[k] = Sums(s)[k - 1] + s[k]
           /\ Sum(s) = Sums(s)[Len(s)] /\ Sum(s) \in Nat
  <1> DEFINE n == Len(s)
             F == [i \in 1 .. n |-> [x \in Nat |-> x + s[i]]]
             Walk(w) == w = [i \in 0 .. n |-> IF i = 0 THEN 0 ELSE w[i - 1] + s[i]]
             c == CHOOSE w : Walk(w)
  <1>1. n \in Nat /\ \A i \in 1 .. n : s[i] \in Nat
    OBVIOUS
  <1>2. Sums(s) = c
    BY DEF Sums
  <1> HIDE DEF n
  <1>3. F \in [1 .. n -> [Nat -> Nat]] /\ 0 \in Nat
    BY <1>1
  <1>4. \A i \in 1 .. n, x \in Nat : F[i][x] = x + s[i]
    OBVIOUS
  <1> HIDE DEF F
  <1>5. PICK w \in [0 .. n -> Nat] : IsWalk(n, 0, F, w)
    BY ONLY <1>1, <1>3, WalkExists
  <1>6. \A i \in 0 .. n : i # 0 => i - 1 \in 0 .. n /\ i \in 1 .. n
    BY <1>1
  <1>7. \A i \in 0 .. n : w[i] = IF i = 0 THEN 0 ELSE w[i - 1] + s[i]
    BY <1>4, <1>5, <1>6 DEF IsWalk
  <1>8. Walk(w)
    BY <1>7
  <1>9. Walk(c)
    BY <1>8
  <1> HIDE DEF c
  <1>10. \A i \in 0 .. n : c[i] = IF i = 0 THEN 0 ELSE c[i - 1] + s[i]
    BY <1>9
  <1>11. \A i \in 0 .. n : c[i] \in Nat
    <2> DEFINE T == {i \in 0 .. n : c[i] \in Nat}
    <2>1. 0 \in T
      BY <1>1, <1>10
    <2>2. ASSUME NEW i \in 1 .. n, i - 1 \in T
          PROVE  i \in T
      <3>1. i \in 0 .. n /\ i # 0
        BY <1>1
      <3>2. c[i] = c[i - 1] + s[i]
        BY <1>10, <3>1
      <3> QED BY <1>1, <2>2, <3>1, <3>2, SMTT(30)
    <2> HIDE DEF T
    <2>3. \A i \in 0 .. n : i \in T
      BY <1>1, <2>1, <2>2, UpTo
    <2> QED BY <2>3 DEF T
  <1>12. c \in [0 .. n -> Nat] /\ c[0] = 0 /\ \A k \in 1 .. n : c[k] = c[k - 1] + s[k]
    <2>1. c = [i \in 0 .. n |-> c[i]]
      BY <1>9
    <2>2. c \in [0 .. n -> Nat]
      BY <1>11, <2>1
    <2>3. 0 \in 0 .. n
      BY <1>1
    <2> QED BY <1>6, <1>10, <2>2, <2>3
  <1>13. Sum(s) = c[n] /\ c[n] \in Nat
    BY <1>1, <1>2, <1>12 DEF Sum, n
  <1> QED BY <1>2, <1>12, <1>13 DEF n

\* Sequences that agree on the first n places have the same sum of them.
LEMMA SumsAgree ==
    ASSUME NEW s \in Seq(Nat), NEW t \in Seq(Nat), NEW n \in Nat, n <= Len(s), n <= Len(t),
           \A i \in 1 .. n : s[i] = t[i]
    PROVE  Sums(s)[n] = Sums(t)[n]
  <1> DEFINE T == {k \in 0 .. n : Sums(s)[k] = Sums(t)[k]}
  <1>1. 0 \in T
    BY SumsTyped
  <1>2. ASSUME NEW k \in 1 .. n, k - 1 \in T
        PROVE  k \in T
    <2>1. k \in 1 .. Len(s) /\ k \in 1 .. Len(t) /\ k \in 0 .. n
      OBVIOUS
    <2>2. Sums(s)[k] = Sums(s)[k - 1] + s[k] /\ Sums(t)[k] = Sums(t)[k - 1] + t[k]
      BY <2>1, SumsTyped
    <2> QED BY <1>2, <2>1, <2>2
  <1> HIDE DEF T
  <1>3. \A k \in 0 .. n : k \in T
    BY <1>1, <1>2, UpTo
  <1> QED BY <1>3 DEF T

LEMMA SumConcat ==
    ASSUME NEW s \in Seq(Nat), NEW t \in Seq(Nat)
    PROVE  Sum(s \o t) = Sum(s) + Sum(t)
  <1> DEFINE u == s \o t
             n == Len(t)
             T == {k \in 0 .. n : Sums(u)[Len(s) + k] = Sum(s) + Sums(t)[k]}
  <1>1. /\ u \in Seq(Nat) /\ Len(u) = Len(s) + n /\ n \in Nat /\ Len(s) \in Nat
        /\ \A i \in 1 .. Len(s) : u[i] = s[i]
        /\ \A i \in 1 .. n : u[Len(s) + i] = t[i]
    OBVIOUS
  <1> HIDE DEF u, n
  <1>2. 0 \in T
    <2>1. Sums(u)[Len(s)] = Sums(s)[Len(s)]
      <3>1. Len(s) <= Len(u) /\ Len(s) <= Len(s)
        BY ONLY <1>1
      <3> QED BY ONLY <1>1, <3>1, s \in Seq(Nat), SumsAgree
    <2>2. Sums(t)[0] = 0 /\ Sum(s) = Sums(s)[Len(s)] /\ Sum(s) \in Nat
      BY SumsTyped
    <2> QED BY <1>1, <2>1, <2>2
  <1>3. ASSUME NEW k \in 1 .. n, k - 1 \in T
        PROVE  k \in T
    <2>1. /\ Len(s) + k \in 1 .. Len(u) /\ k \in 1 .. Len(t) /\ k \in 0 .. n
          /\ Len(s) + (k - 1) = (Len(s) + k) - 1 /\ k - 1 \in 0 .. n
      BY <1>1, SMTT(30) DEF n
    <2>2. /\ Sums(u)[Len(s) + k] = Sums(u)[(Len(s) + k) - 1] + u[Len(s) + k]
          /\ Sums(t)[k] = Sums(t)[k - 1] + t[k]
      BY <1>1, <2>1, SumsTyped
    <2>3. Sums(u)[(Len(s) + k) - 1] = Sum(s) + Sums(t)[k - 1] /\ u[Len(s) + k] = t[k]
      BY <1>1, <1>3, <2>1
    <2>4. Sum(s) \in Nat /\ Sums(t)[k - 1] \in Nat /\ t[k] \in Nat
      <3>1. Sum(s) \in Nat /\ Sums(t) \in [0 .. Len(t) -> Nat] /\ k - 1 \in 0 .. Len(t)
        BY <2>1, SumsTyped DEF n
      <3>2. t[k] \in Nat
        BY <2>1
      <3> QED BY <3>1, <3>2
    <2>5. Sums(u)[Len(s) + k] = (Sum(s) + Sums(t)[k - 1]) + t[k]
      BY ONLY <2>2, <2>3
    <2>6. (Sum(s) + Sums(t)[k - 1]) + t[k] = Sum(s) + (Sums(t)[k - 1] + t[k])
      BY ONLY <2>4
    <2>7. Sums(u)[Len(s) + k] = Sum(s) + Sums(t)[k]
      BY ONLY <2>2, <2>5, <2>6
    <2> QED BY ONLY <2>1, <2>7 DEF T
  <1> HIDE DEF T
  <1>4. \A k \in 0 .. n : k \in T
    BY <1>1, <1>2, <1>3, UpTo
  <1>5. n \in T
    BY <1>1, <1>4
  <1>6. Sum(u) = Sums(u)[Len(u)] /\ Sum(t) = Sums(t)[n]
    BY <1>1, SumsTyped DEF n
  <1> QED BY <1>1, <1>5, <1>6 DEF T, u

LEMMA Distributes ==
    ASSUME NEW a \in Nat, NEW k \in Nat \ {0}
    PROVE  a * k = a * (k - 1) + a /\ a * (k - 1) \in Nat /\ a * k \in Nat
  OBVIOUS

\* What is added to each is added as often as there are numbers.
LEMMA SumPlus ==
    ASSUME NEW s \in Seq(Nat), NEW t \in Seq(Nat), NEW a \in Nat, Len(t) = Len(s),
           \A i \in 1 .. Len(s) : t[i] = a + s[i]
    PROVE  Sum(t) = a * Len(s) + Sum(s)
  <1> DEFINE n == Len(s)
             T == {k \in 0 .. n : Sums(t)[k] = a * k + Sums(s)[k]}
  <1>1. n \in Nat
    OBVIOUS
  <1>2. 0 \in T
    <2>1. Sums(t)[0] = 0 /\ Sums(s)[0] = 0 /\ a * 0 = 0
      BY SumsTyped
    <2> QED BY <1>1, <2>1
  <1>3. ASSUME NEW k \in 1 .. n, k - 1 \in T
        PROVE  k \in T
    <2>1. k \in 1 .. Len(s) /\ k \in 1 .. Len(t) /\ k \in 0 .. n /\ k \in Nat \ {0} /\ k - 1 \in 0 .. n
      OBVIOUS
    <2>2. Sums(t)[k] = Sums(t)[k - 1] + t[k] /\ Sums(s)[k] = Sums(s)[k - 1] + s[k]
      BY <2>1, SumsTyped
    <2>3. Sums(t)[k - 1] = a * (k - 1) + Sums(s)[k - 1] /\ t[k] = a + s[k]
      BY <1>3, <2>1
    <2>4. Sums(s)[k - 1] \in Nat /\ s[k] \in Nat
      <3>1. Sums(s) \in [0 .. Len(s) -> Nat] /\ k - 1 \in 0 .. Len(s)
        BY <2>1, SumsTyped
      <3>2. s[k] \in Nat
        BY <2>1
      <3> QED BY <3>1, <3>2
    <2> DEFINE p == a * (k - 1)
               q == a * k
    <2>5. p \in Nat /\ q = p + a
      BY <2>1, Distributes
    <2>6. Sums(t)[k - 1] = p + Sums(s)[k - 1]
      BY <2>3
    <2> HIDE DEF p, q
    <2>7. Sums(t)[k] = q + Sums(s)[k]
      BY <2>2, <2>3, <2>4, <2>5, <2>6, SMTT(30)
    <2> QED BY <2>1, <2>7 DEF q
  <1> HIDE DEF T
  <1>4. \A k \in 0 .. n : k \in T
    BY <1>1, <1>2, <1>3, UpTo
  <1>5. Sum(t) = Sums(t)[n] /\ Sum(s) = Sums(s)[n]
    BY SumsTyped
  <1> QED BY <1>1, <1>4, <1>5 DEF T

LEMMA SumOfEqual ==
    ASSUME NEW t \in Seq(Nat), NEW a \in Nat, \A i \in 1 .. Len(t) : t[i] = a
    PROVE  Sum(t) = a * Len(t)
  <1> DEFINE s == [i \in 1 .. Len(t) |-> 0]
             T == {k \in 0 .. Len(t) : Sums(s)[k] = 0}
  <1>1. s \in Seq(Nat) /\ Len(s) = Len(t) /\ \A i \in 1 .. Len(t) : s[i] = 0
    OBVIOUS
  <1>2. Len(t) \in Nat
    OBVIOUS
  <1> HIDE DEF s
  <1>3. 0 \in T
    BY <1>1, <1>2, SumsTyped
  <1>4. ASSUME NEW k \in 1 .. Len(t), k - 1 \in T
        PROVE  k \in T
    <2>1. k \in 1 .. Len(s) /\ k \in 0 .. Len(t)
      BY <1>1
    <2>2. Sums(s)[k] = Sums(s)[k - 1] + s[k]
      BY <1>1, <2>1, SumsTyped
    <2> QED BY <1>1, <1>4, <2>1, <2>2
  <1> HIDE DEF T
  <1>5. \A k \in 0 .. Len(t) : k \in T
    BY <1>2, <1>3, <1>4, UpTo
  <1>6. Sum(s) = 0
    BY <1>1, <1>2, <1>5, SumsTyped DEF T
  <1>7. Sum(t) = a * Len(s) + Sum(s)
    <2>1. \A i \in 1 .. Len(s) : t[i] = a + s[i]
      BY <1>1
    <2> QED BY <1>1, <2>1, SumPlus
  <1> DEFINE p == a * Len(t)
  <1>8. p \in Nat
    BY <1>2
  <1>9. Sum(t) = p + 0
    BY <1>1, <1>6, <1>7
  <1> HIDE DEF p
  <1>10. Sum(t) = p
    BY <1>8, <1>9
  <1> QED BY <1>10 DEF p

-----------------------------------------------------------------------------
(* Sequences of sequences, and runs of elements *)

\* f[i] is what the first i of the sequences ss make when they are put together.
IsFlat(ss, f) ==
    /\ f[0] = <<>> /\ \A i \in 1 .. Len(ss) : f[i] = f[i - 1] \o ss[i]
    /\ FlattenSeq(ss) = f[Len(ss)]

LEMMA FlatExists ==
    ASSUME NEW S, NEW ss \in Seq(Seq(S))
    PROVE  \E f \in [0 .. Len(ss) -> Seq(S)] : IsFlat(ss, f)
  <1> DEFINE n == Len(ss)
             Q == Seq(S)
             F == [i \in 1 .. n |-> [x \in Q |-> x \o ss[i]]]
             Walk(g) == g = [i \in 1 .. n |-> IF i = 1 THEN ss[i] ELSE g[i - 1] \o ss[i]]
             c == CHOOSE g : Walk(g)
  <1>1. n \in Nat /\ \A i \in 1 .. n : ss[i] \in Q
    OBVIOUS
  <1>2. FlattenSeq(ss) = IF n = 0 THEN ss ELSE c[n]
    BY DEF FlattenSeq
  <1>3. n = 0 => ss = <<>>
    OBVIOUS
  <1>4. <<>> \in Q /\ \A x, y \in Q : x \o y \in Q
    OBVIOUS
  <1>5. \A x \in Q : <<>> \o x = x
    OBVIOUS
  <1> HIDE DEF n, Q
  <1>6. F \in [1 .. n -> [Q -> Q]]
    BY <1>1, <1>4
  <1>7. \A i \in 1 .. n, x \in Q : F[i][x] = x \o ss[i]
    OBVIOUS
  <1> HIDE DEF F
  <1>8. PICK w \in [0 .. n -> Q] : IsWalk(n, <<>>, F, w)
    BY ONLY <1>1, <1>4, <1>6, WalkExists
  <1>9. \A i \in 1 .. n : i \in 0 .. n /\ i # 0 /\ i - 1 \in 0 .. n /\ (i # 1 => i - 1 \in 1 .. n)
    BY <1>1
  <1>10. w[0] = <<>> /\ \A i \in 1 .. n : w[i] = w[i - 1] \o ss[i]
    <2>1. 0 \in 0 .. n
      BY <1>1
    <2>2. w[0] = <<>>
      BY <1>8, <2>1 DEF IsWalk
    <2>3. ASSUME NEW i \in 1 .. n
          PROVE  w[i] = w[i - 1] \o ss[i]
      <3>1. w[i] = F[i][w[i - 1]]
        BY <1>8, <1>9 DEF IsWalk
      <3> QED BY <1>7, <1>9, <3>1
    <2> QED BY <2>2, <2>3
  <1> DEFINE g == [i \in 1 .. n |-> w[i]]
  <1>11. Walk(g)
    <2>1. \A i \in 1 .. n : g[i] = IF i = 1 THEN ss[i] ELSE g[i - 1] \o ss[i]
      <3> SUFFICES ASSUME NEW i \in 1 .. n
                   PROVE  g[i] = IF i = 1 THEN ss[i] ELSE g[i - 1] \o ss[i]
        OBVIOUS
      <3>1. CASE i = 1
        <4>1. g[i] = <<>> \o ss[i]
          <5>1. w[i] = w[i - 1] \o ss[i]
            BY <1>10
          <5>0. i - 1 = 0
            BY <3>1
          <5> QED BY <1>10, <5>0, <5>1
        <4> QED BY <1>1, <1>5, <3>1, <4>1
      <3>2. CASE i # 1
        BY <1>9, <1>10, <3>2
      <3> QED BY <3>1, <3>2
    <2> QED BY <2>1
  <1>12. Walk(c)
    BY <1>11
  <1> HIDE DEF c, g
  <1>13. \A i \in 1 .. n : c[i] = IF i = 1 THEN ss[i] ELSE c[i - 1] \o ss[i]
    BY <1>12
  <1>14. n # 0 => c[n] = w[n]
    <2> DEFINE T == {i \in 0 .. n : i # 0 => c[i] = w[i]}
    <2>1. 0 \in T
      BY <1>1
    <2>2. ASSUME NEW i \in 1 .. n, i - 1 \in T
          PROVE  i \in T
      <3>1. CASE i = 1
        <4>1. w[i] = <<>> \o ss[i] /\ c[i] = ss[i]
          <5>1. w[i] = w[i - 1] \o ss[i]
            BY <1>10
          <5>0. i - 1 = 0
            BY <3>1
          <5>2. c[i] = ss[i]
            BY <1>13, <3>1
          <5> QED BY <1>10, <5>0, <5>1, <5>2
        <4> QED BY <1>1, <1>5, <1>9, <3>1, <4>1
      <3>2. CASE i # 1
        <4>1. c[i - 1] = w[i - 1]
          BY <1>9, <2>2, <3>2
        <4>2. w[i] = w[i - 1] \o ss[i] /\ c[i] = c[i - 1] \o ss[i]
          BY <1>10, <1>13, <3>2
        <4> QED BY <1>9, <4>1, <4>2
      <3> QED BY <3>1, <3>2
    <2> HIDE DEF T
    <2>3. \A i \in 0 .. n : i \in T
      BY <1>1, <2>1, <2>2, UpTo
    <2>4. n \in 0 .. n
      BY <1>1
    <2> QED BY <2>3, <2>4 DEF T
  <1>15. FlattenSeq(ss) = w[n]
    BY <1>2, <1>3, <1>10, <1>14
  <1>16. IsFlat(ss, w)
    BY <1>10, <1>15 DEF IsFlat, n
  <1> QED BY <1>16 DEF n, Q

\* p has the first element of E, and E follows wherever it has it.
Holds(p, E) == \E n \in 1 .. Len(p) : p[n] = E[1]

Follows(p, E) ==
    \A n \in 1 .. Len(p) : p[n] = E[1] =>
        n + Len(E) - 1 <= Len(p) /\ \A e \in 1 .. Len(E) : p[n + e - 1] = E[e]

LEMMA FollowsConcat ==
    ASSUME NEW S, NEW p \in Seq(S), NEW q \in Seq(S), NEW E \in Seq(S), Len(E) > 0
    PROVE  /\ Holds(p \o q, E) <=> Holds(p, E) \/ Holds(q, E)
           /\ Follows(p, E) /\ Follows(q, E) => Follows(p \o q, E)
  <1> DEFINE r == p \o q
             m == Len(p)
             k == Len(q)
             c == Len(E)
  <1>1. /\ r \in Seq(S) /\ Len(r) = m + k /\ m \in Nat /\ k \in Nat /\ c \in Nat \ {0}
        /\ \A n \in 1 .. m : r[n] = p[n]
        /\ \A n \in 1 .. k : r[m + n] = q[n]
    OBVIOUS
  <1> HIDE DEF r, m, k, c
  <1>2. \A n \in 1 .. m + k : n \notin 1 .. m => n - m \in 1 .. k /\ m + (n - m) = n
    BY <1>1
  <1>3. \A n \in 1 .. m : n \in 1 .. m + k
    BY <1>1
  <1>4. \A n \in 1 .. k : m + n \in 1 .. m + k
    BY <1>1
  <1>5. Holds(r, E) <=> Holds(p, E) \/ Holds(q, E)
    <2>1. Holds(r, E) => Holds(p, E) \/ Holds(q, E)
      <3>1. SUFFICES ASSUME NEW n \in 1 .. m + k, r[n] = E[1]
                     PROVE  Holds(p, E) \/ Holds(q, E)
        BY <1>1 DEF Holds
      <3>2. CASE n \in 1 .. m
        BY <1>1, <3>1, <3>2 DEF Holds, m
      <3>3. CASE n \notin 1 .. m
        <4> DEFINE l == n - m
        <4>1. l \in 1 .. k /\ m + l = n
          BY <1>2, <3>3
        <4> HIDE DEF l
        <4>2. q[l] = E[1]
          BY <1>1, <3>1, <4>1
        <4> QED BY <4>1, <4>2 DEF Holds, k
      <3> QED BY <3>2, <3>3
    <2>2. Holds(p, E) => Holds(r, E)
      BY <1>1, <1>3 DEF Holds, m
    <2>3. Holds(q, E) => Holds(r, E)
      BY <1>1, <1>4 DEF Holds, k
    <2> QED BY <2>1, <2>2, <2>3
  <1>6. ASSUME Follows(p, E), Follows(q, E), NEW n \in 1 .. Len(r), r[n] = E[1]
        PROVE  n + c - 1 <= Len(r) /\ \A e \in 1 .. c : r[n + e - 1] = E[e]
    <2>1. CASE n \in 1 .. m
      <3>1. n + c - 1 <= m /\ \A e \in 1 .. c : p[n + e - 1] = E[e]
        BY <1>1, <1>6, <2>1 DEF Follows, m, c
      <3>2. \A e \in 1 .. c : n + e - 1 \in 1 .. m
        BY <1>1, <2>1, <3>1
      <3>3. n + c - 1 <= Len(r)
        BY <1>1, <2>1, <3>1
      <3> QED BY <1>1, <3>1, <3>2, <3>3
    <2>2. CASE n \notin 1 .. m
      <3> DEFINE l == n - m
      <3>1. l \in 1 .. k /\ n = m + l
        BY <1>1, <1>2, <1>6, <2>2
      <3> HIDE DEF l
      <3>2. q[l] = E[1]
        BY <1>1, <1>6, <3>1
      <3>3. l + c - 1 <= k /\ \A e \in 1 .. c : q[l + e - 1] = E[e]
        BY <1>6, <3>1, <3>2 DEF Follows, k, c
      <3>4. \A e \in 1 .. c : l + e - 1 \in 1 .. k /\ n + e - 1 = m + (l + e - 1)
        BY <1>1, <3>1, <3>3
      <3>5. n + c - 1 <= Len(r)
        BY <1>1, <3>1, <3>3
      <3> QED BY <1>1, <3>3, <3>4, <3>5
    <2> QED BY <2>1, <2>2
  <1>7. Follows(p, E) /\ Follows(q, E) => Follows(r, E)
    BY <1>6 DEF Follows, c
  <1> QED BY <1>5, <1>7 DEF r

LEMMA FollowsFlat ==
    ASSUME NEW S, NEW ss \in Seq(Seq(S)), NEW E \in Seq(S), Len(E) > 0
    PROVE  /\ FlattenSeq(ss) \in Seq(S)
           /\ Holds(FlattenSeq(ss), E) <=> \E i \in 1 .. Len(ss) : Holds(ss[i], E)
           /\ (\A i \in 1 .. Len(ss) : Follows(ss[i], E)) => Follows(FlattenSeq(ss), E)
  <1>1. PICK f \in [0 .. Len(ss) -> Seq(S)] : IsFlat(ss, f)
    BY FlatExists
  <1> DEFINE n == Len(ss)
             T == {k \in 0 .. n : /\ Holds(f[k], E) <=> \E i \in 1 .. k : Holds(ss[i], E)
                                  /\ (\A i \in 1 .. k : Follows(ss[i], E)) => Follows(f[k], E)}
  <1>2. n \in Nat /\ \A i \in 1 .. n : ss[i] \in Seq(S)
    OBVIOUS
  <1>3. f[0] = <<>> /\ (\A i \in 1 .. n : f[i] = f[i - 1] \o ss[i]) /\ FlattenSeq(ss) = f[n]
    BY <1>1 DEF IsFlat
  <1>4. f \in [0 .. n -> Seq(S)]
    BY <1>1
  <1> HIDE DEF n
  <1>5. 0 \in T
    <2>1. ~Holds(<<>>, E) /\ Follows(<<>>, E) /\ 1 .. 0 = {}
      BY DEF Holds, Follows
    <2> QED BY <1>2, <1>3, <2>1
  <1>6. ASSUME NEW k \in 1 .. n, k - 1 \in T
        PROVE  k \in T
    <2>1. /\ k \in 0 .. n /\ k - 1 \in 0 .. n /\ k \in 1 .. k
          /\ \A i \in 1 .. k : i = k \/ i \in 1 .. k - 1
          /\ \A i \in 1 .. k - 1 : i \in 1 .. k
      BY <1>2
    <2>2. f[k - 1] \in Seq(S) /\ ss[k] \in Seq(S) /\ f[k] = f[k - 1] \o ss[k]
      BY <1>2, <1>3, <1>4, <2>1
    <2>3. /\ Holds(f[k], E) <=> Holds(f[k - 1], E) \/ Holds(ss[k], E)
          /\ Follows(f[k - 1], E) /\ Follows(ss[k], E) => Follows(f[k], E)
      BY <2>2, FollowsConcat
    <2>4. /\ Holds(f[k - 1], E) <=> \E i \in 1 .. k - 1 : Holds(ss[i], E)
          /\ (\A i \in 1 .. k - 1 : Follows(ss[i], E)) => Follows(f[k - 1], E)
      BY <1>6
    <2>5. Holds(f[k], E) <=> \E i \in 1 .. k : Holds(ss[i], E)
      BY <2>1, <2>3, <2>4
    <2>6. (\A i \in 1 .. k : Follows(ss[i], E)) => Follows(f[k], E)
      BY <2>1, <2>3, <2>4
    <2> QED BY <2>1, <2>5, <2>6
  <1> HIDE DEF T
  <1>7. \A k \in 0 .. n : k \in T
    BY <1>2, <1>5, <1>6, UpTo
  <1>8. n \in T
    BY <1>2, <1>7
  <1> QED BY <1>2, <1>3, <1>4, <1>8 DEF T, n

LEMMA FollowsStart ==
    ASSUME NEW S, NEW p \in Seq(S), NEW E \in Seq(S), Len(E) > 0, Len(E) <= Len(p),
           \A e \in 1 .. Len(E) : p[e] = E[e],
           \A n \in 2 .. Len(p) : p[n] # E[1]
    PROVE  Holds(p, E) /\ Follows(p, E)
  <1>1. Len(E) \in Nat /\ Len(p) \in Nat /\ 1 \in 1 .. Len(p) /\ 1 \in 1 .. Len(E)
    OBVIOUS
  <1>2. ASSUME NEW n \in 1 .. Len(p), p[n] = E[1]
        PROVE  n = 1
    <2>1. n \notin 2 .. Len(p)
      BY <1>2
    <2> QED BY <1>1, <2>1
  <1>3. \A e \in 1 .. Len(E) : 1 + e - 1 = e
    BY <1>1
  <1>4. 1 + Len(E) - 1 <= Len(p)
    BY <1>1
  <1> QED BY <1>1, <1>2, <1>3, <1>4 DEF Holds, Follows

-----------------------------------------------------------------------------
(* The USB cable: the descriptors in their buffer *)

LEMMA UsbHelpers ==
    /\ \A s : Usb!Sum(s) = Sum(s)
    /\ \A ss : Usb!FlattenSeq(ss) = FlattenSeq(ss)
  BY DEF Usb!Sum, Sum, Usb!Sums, Sums, Usb!FlattenSeq, FlattenSeq

Kinds == {"device", "config", "interface", "setting", "endpoint", "pipe"}

UsbPieces == [kind : Kinds, at : Nat \X Nat \X Nat \X Nat]

Sizes(p) == [n \in DOMAIN p |-> Usb!Size(p[n].kind)]

LEMMA PieceTyped ==
    ASSUME NEW kd \in Kinds, NEW i \in Nat, NEW j \in Nat, NEW k \in Nat, NEW l \in Nat
    PROVE  /\ Usb!Piece(kd, i, j, k, l) \in UsbPieces
           /\ Usb!Piece(kd, i, j, k, l).kind = kd
           /\ Usb!Piece(kd, i, j, k, l).at = <<i, j, k, l>>
  BY DEF Usb!Piece, UsbPieces

LEMMA SizePositive ==
    ASSUME NEW kd \in Kinds
    PROVE  Usb!Size(kd) \in Nat \ {0}
  BY DEF Usb!Size, Kinds

LEMMA SizesTyped ==
    ASSUME NEW p \in Seq(UsbPieces)
    PROVE  /\ Sizes(p) \in Seq(Nat) /\ Len(Sizes(p)) = Len(p)
           /\ \A n \in 1 .. Len(p) : /\ Sizes(p)[n] = Usb!Size(p[n].kind)
                                     /\ Sizes(p)[n] \in Nat \ {0}
           /\ Usb!Bytes(p) = Sum(Sizes(p)) /\ Usb!Bytes(p) \in Nat
  <1>1. DOMAIN p = 1 .. Len(p) /\ Len(p) \in Nat /\ \A n \in 1 .. Len(p) : p[n] \in UsbPieces
    OBVIOUS
  <1>2. \A n \in 1 .. Len(p) : Usb!Size(p[n].kind) \in Nat \ {0}
    BY <1>1, SizePositive DEF UsbPieces
  <1>3. Sizes(p) = [n \in 1 .. Len(p) |-> Usb!Size(p[n].kind)]
    BY <1>1 DEF Sizes
  <1>4. \A n \in 1 .. Len(p) : Sizes(p)[n] = Usb!Size(p[n].kind)
    BY <1>3
  <1>5. Sizes(p) \in Seq(Nat) /\ Len(Sizes(p)) = Len(p)
    BY <1>1, <1>2, <1>3
  <1>6. Usb!Bytes(p) = Sum(Sizes(p))
    BY UsbHelpers DEF Usb!Bytes, Sizes
  <1> QED BY <1>2, <1>4, <1>5, <1>6, SumsTyped

LEMMA BytesConcat ==
    ASSUME NEW p \in Seq(UsbPieces), NEW q \in Seq(UsbPieces)
    PROVE  p \o q \in Seq(UsbPieces) /\ Usb!Bytes(p \o q) = Usb!Bytes(p) + Usb!Bytes(q)
  <1> DEFINE r == p \o q
             a == Sizes(p)
             b == Sizes(q)
             c == Sizes(r)
  <1>1. /\ r \in Seq(UsbPieces) /\ Len(r) = Len(p) + Len(q) /\ Len(p) \in Nat /\ Len(q) \in Nat
        /\ \A n \in 1 .. Len(p) : r[n] = p[n]
        /\ \A n \in 1 .. Len(q) : r[Len(p) + n] = q[n]
    OBVIOUS
  <1> HIDE DEF r
  <1>2. /\ a \in Seq(Nat) /\ Len(a) = Len(p) /\ \A n \in 1 .. Len(p) : a[n] = Usb!Size(p[n].kind)
        /\ b \in Seq(Nat) /\ Len(b) = Len(q) /\ \A n \in 1 .. Len(q) : b[n] = Usb!Size(q[n].kind)
        /\ c \in Seq(Nat) /\ Len(c) = Len(r) /\ \A n \in 1 .. Len(r) : c[n] = Usb!Size(r[n].kind)
    BY <1>1, SizesTyped
  <1>3. Usb!Bytes(p) = Sum(a) /\ Usb!Bytes(q) = Sum(b) /\ Usb!Bytes(r) = Sum(c)
    BY <1>1, SizesTyped
  <1> HIDE DEF a, b, c
  <1>4. c = a \o b
    <2> DEFINE s == a \o b
    <2>0. a \in Seq(Nat) /\ b \in Seq(Nat)
      BY <1>2
    <2>1. /\ s \in Seq(Nat) /\ Len(s) = Len(a) + Len(b)
          /\ \A n \in 1 .. Len(a) : s[n] = a[n]
          /\ \A n \in 1 .. Len(b) : s[Len(a) + n] = b[n]
      BY ONLY <2>0
    <2> HIDE DEF s
    <2>2. ASSUME NEW n \in 1 .. Len(c)
          PROVE  c[n] = s[n]
      <3>1. c[n] = Usb!Size(r[n].kind)
        BY <1>2
      <3>2. CASE n \in 1 .. Len(p)
        BY <1>1, <1>2, <2>1, <3>1, <3>2
      <3>3. CASE n \notin 1 .. Len(p)
        <4> DEFINE m == n - Len(p)
        <4>1. m \in 1 .. Len(q) /\ n = Len(p) + m
          BY <1>1, <1>2, <3>3
        <4> HIDE DEF m
        <4>2. r[n] = q[m] /\ s[n] = b[m] /\ b[m] = Usb!Size(q[m].kind)
          BY <1>1, <1>2, <2>1, <4>1
        <4> QED BY <3>1, <4>2
      <3> QED BY <3>2, <3>3
    <2>3. Len(c) = Len(s)
      BY <1>1, <1>2, <2>1
    <2>4. c = s
      BY <1>2, <2>1, <2>2, <2>3, SameElements
    <2> QED BY <2>4 DEF s
  <1> QED BY <1>1, <1>2, <1>3, <1>4, SumConcat DEF r

LEMMA BytesOfKind ==
    ASSUME NEW p \in Seq(UsbPieces), NEW kd \in Kinds, \A n \in 1 .. Len(p) : p[n].kind = kd
    PROVE  Usb!Bytes(p) = Usb!Size(kd) * Len(p)
  <1>1. /\ Sizes(p) \in Seq(Nat) /\ Len(Sizes(p)) = Len(p)
        /\ \A n \in 1 .. Len(p) : Sizes(p)[n] = Usb!Size(kd)
        /\ Usb!Bytes(p) = Sum(Sizes(p))
    BY SizesTyped
  <1>2. Usb!Size(kd) \in Nat
    BY SizePositive
  <1> QED BY <1>1, <1>2, SumOfEqual

\* The bytes of sequences that are put together.
LEMMA BytesFlat ==
    ASSUME NEW ss \in Seq(Seq(UsbPieces)), NEW b \in Seq(Nat), Len(b) = Len(ss),
           \A i \in 1 .. Len(ss) : b[i] = Usb!Bytes(ss[i])
    PROVE  FlattenSeq(ss) \in Seq(UsbPieces) /\ Usb!Bytes(FlattenSeq(ss)) = Sum(b)
  <1>1. PICK f \in [0 .. Len(ss) -> Seq(UsbPieces)] : IsFlat(ss, f)
    BY FlatExists
  <1> DEFINE n == Len(ss)
             T == {k \in 0 .. n : Usb!Bytes(f[k]) = Sums(b)[k]}
  <1>2. n \in Nat /\ \A i \in 1 .. n : ss[i] \in Seq(UsbPieces)
    OBVIOUS
  <1>3. f[0] = <<>> /\ (\A i \in 1 .. n : f[i] = f[i - 1] \o ss[i]) /\ FlattenSeq(ss) = f[n]
    BY <1>1 DEF IsFlat
  <1>4. f \in [0 .. n -> Seq(UsbPieces)]
    BY <1>1
  <1>5. /\ Sums(b)[0] = 0 /\ \A k \in 1 .. n : Sums(b)[k] = Sums(b)[k - 1] + b[k]
        /\ Sum(b) = Sums(b)[n]
    BY SumsTyped
  <1>6. \A i \in 1 .. n : b[i] = Usb!Bytes(ss[i])
    OBVIOUS
  <1> HIDE DEF n
  <1>7. 0 \in T
    <2>1. <<>> \in Seq(UsbPieces) /\ Len(<<>>) = 0 /\ "device" \in Kinds
      BY DEF Kinds
    <2>2. Usb!Bytes(<<>>) = Usb!Size("device") * Len(<<>>)
      <3>1. \A m \in 1 .. Len(<<>>) : <<>>[m].kind = "device"
        OBVIOUS
      <3> QED BY <2>1, <3>1, BytesOfKind
    <2>3. Usb!Size("device") \in Nat
      BY <2>1, SizePositive
    <2>4. Usb!Bytes(<<>>) = 0
      BY <2>1, <2>2, <2>3
    <2> QED BY <1>2, <1>3, <1>5, <2>4
  <1>8. ASSUME NEW k \in 1 .. n, k - 1 \in T
        PROVE  k \in T
    <2>1. k \in 0 .. n /\ k - 1 \in 0 .. n
      BY <1>2
    <2>2. f[k - 1] \in Seq(UsbPieces) /\ ss[k] \in Seq(UsbPieces) /\ f[k] = f[k - 1] \o ss[k]
      BY <1>2, <1>3, <1>4, <2>1
    <2>3. Usb!Bytes(f[k]) = Usb!Bytes(f[k - 1]) + b[k]
      BY <1>6, <2>2, BytesConcat
    <2> QED BY <1>5, <1>8, <2>1, <2>3
  <1> HIDE DEF T
  <1>9. \A k \in 0 .. n : k \in T
    BY <1>2, <1>7, <1>8, UpTo
  <1>10. n \in T /\ n \in 0 .. n
    BY <1>2, <1>9
  <1> QED BY <1>3, <1>4, <1>5, <1>10 DEF T

UsbSettings == [proto : Nat, eps : Nat]

\* The elements of a setting's pieces.
Arranged(p, s, i, j, k) ==
    /\ Len(p) = 1 + s.eps + s.eps /\ p[1] = Usb!Piece("setting", i, j, k, 0)
    /\ \A l \in 1 .. s.eps : /\ p[1 + l] = Usb!Piece("endpoint", i, j, k, l)
                            /\ p[1 + s.eps + l] = Usb!Piece("pipe", i, j, k, l)

LEMMA SettingPlaced ==
    ASSUME NEW s \in UsbSettings, NEW i \in Nat, NEW j \in Nat, NEW k \in Nat
    PROVE  /\ Usb!SettingPieces(s, i, j, k) \in Seq(UsbPieces)
           /\ Usb!Bytes(Usb!SettingPieces(s, i, j, k)) = Usb!SettingBytes(s)
           /\ Usb!SettingBytes(s) \in Nat /\ s.eps \in Nat
           /\ Arranged(Usb!SettingPieces(s, i, j, k), s, i, j, k)
  <1> DEFINE n == s.eps
             x == Usb!Piece("setting", i, j, k, 0)
             E(l) == Usb!Piece("endpoint", i, j, k, l)
             P(l) == Usb!Piece("pipe", i, j, k, l)
             a == <<x>>
             b == [l \in 1 .. n |-> E(l)]
             c == [l \in 1 .. n |-> P(l)]
             ab == a \o b
             p == ab \o c
  <1>0. Usb!SettingPieces(s, i, j, k) = p
    BY DEF Usb!SettingPieces
  <1>1. n \in Nat /\ "setting" \in Kinds /\ "endpoint" \in Kinds /\ "pipe" \in Kinds /\ 0 \in Nat
        /\ \A l \in 1 .. n : l \in Nat
    BY DEF UsbSettings, Kinds
  <1>16. i \in Nat /\ j \in Nat /\ k \in Nat /\ 0 \in Nat
    OBVIOUS
  <1>17. "setting" \in Kinds /\ "endpoint" \in Kinds /\ "pipe" \in Kinds
    BY <1>1
  <1>2. x \in UsbPieces /\ x.kind = "setting"
    BY ONLY <1>16, <1>17, PieceTyped
  <1>18. ASSUME NEW l \in Nat
         PROVE  /\ E(l) \in UsbPieces /\ E(l).kind = "endpoint"
                /\ P(l) \in UsbPieces /\ P(l).kind = "pipe"
    BY ONLY <1>16, <1>17, <1>18, PieceTyped
  <1>3. \A l \in 1 .. n : E(l) \in UsbPieces /\ E(l).kind = "endpoint"
    BY <1>1, <1>18
  <1>4. \A l \in 1 .. n : P(l) \in UsbPieces /\ P(l).kind = "pipe"
    BY <1>1, <1>18
  <1>5. Usb!SettingBytes(s) = 4 + (1 + 2) * n
    BY DEF Usb!SettingBytes, Usb!Size
  <1> HIDE DEF n, x, E, P
  <1>6. a \in Seq(UsbPieces) /\ Len(a) = 1 /\ a[1] = x
    BY <1>2
  <1>7. b \in Seq(UsbPieces) /\ Len(b) = n /\ \A l \in 1 .. n : b[l] = E(l)
    BY <1>1, <1>3
  <1>8. c \in Seq(UsbPieces) /\ Len(c) = n /\ \A l \in 1 .. n : c[l] = P(l)
    BY <1>1, <1>4
  <1> HIDE DEF a, b, c
  <1>9. Usb!Bytes(a) = 4 /\ Usb!Bytes(b) = n /\ Usb!Bytes(c) = 2 * n
    <2>1. Usb!Bytes(a) = Usb!Size("setting") * 1
      <3>1. \A m \in 1 .. Len(a) : a[m].kind = "setting"
        BY <1>2, <1>6
      <3> QED BY <1>1, <1>6, <3>1, BytesOfKind
    <2>2. Usb!Bytes(b) = Usb!Size("endpoint") * n
      <3>1. \A m \in 1 .. Len(b) : b[m].kind = "endpoint"
        BY <1>3, <1>7
      <3> QED BY <1>1, <1>7, <3>1, BytesOfKind
    <2>3. Usb!Bytes(c) = Usb!Size("pipe") * n
      <3>1. \A m \in 1 .. Len(c) : c[m].kind = "pipe"
        BY <1>4, <1>8
      <3> QED BY <1>1, <1>8, <3>1, BytesOfKind
    <2>4. Usb!Size("setting") = 4 /\ Usb!Size("endpoint") = 1 /\ Usb!Size("pipe") = 2
      BY DEF Usb!Size
    <2> QED BY <1>1, <2>1, <2>2, <2>3, <2>4
  <1>10. /\ ab \in Seq(UsbPieces) /\ Len(ab) = 1 + n /\ ab[1] = x
         /\ \A l \in 1 .. n : ab[1 + l] = E(l)
    <2>1. /\ ab \in Seq(UsbPieces) /\ Len(ab) = Len(a) + Len(b)
          /\ \A m \in 1 .. Len(a) : ab[m] = a[m]
          /\ \A m \in 1 .. Len(b) : ab[Len(a) + m] = b[m]
      <3>1. a \in Seq(UsbPieces) /\ b \in Seq(UsbPieces)
        BY <1>6, <1>7
      <3> QED BY ONLY <3>1
    <2> QED BY <1>1, <1>6, <1>7, <2>1
  <1>11. Usb!Bytes(ab) = 4 + n
    BY <1>6, <1>7, <1>9, BytesConcat
  <1> HIDE DEF ab
  <1>12. /\ p \in Seq(UsbPieces) /\ Len(p) = 1 + n + n
         /\ \A m \in 1 .. Len(ab) : p[m] = ab[m]
         /\ \A l \in 1 .. n : p[1 + n + l] = P(l)
    <2>1. /\ p \in Seq(UsbPieces) /\ Len(p) = Len(ab) + Len(c)
          /\ \A m \in 1 .. Len(ab) : p[m] = ab[m]
          /\ \A m \in 1 .. Len(c) : p[Len(ab) + m] = c[m]
      <3>1. ab \in Seq(UsbPieces) /\ c \in Seq(UsbPieces)
        BY <1>8, <1>10
      <3> QED BY ONLY <3>1
    <2>2. Len(c) = n /\ \A l \in 1 .. n : c[l] = P(l)
      BY <1>8
    <2>3. Len(ab) = 1 + n
      BY <1>10
    <2> QED BY ONLY <1>1, <2>1, <2>2, <2>3
  <1>13. Usb!Bytes(p) = 4 + n + 2 * n
    BY <1>8, <1>9, <1>10, <1>11, BytesConcat
  <1> HIDE DEF p
  <1>14. p[1] = x /\ \A l \in 1 .. n : p[1 + l] = E(l)
    <2>1. 1 \in 1 .. Len(ab) /\ \A l \in 1 .. n : 1 + l \in 1 .. Len(ab)
      BY <1>1, <1>10
    <2> QED BY <1>10, <1>12, <2>1
  <1>15. Usb!Bytes(p) = Usb!SettingBytes(s) /\ Usb!SettingBytes(s) \in Nat
    BY <1>1, <1>5, <1>13
  <1> QED BY <1>0, <1>1, <1>12, <1>14, <1>15 DEF n, x, E, P, Arranged

LEMMA InterfacePlaced ==
    ASSUME NEW f \in Seq(UsbSettings), NEW i \in Nat, NEW j \in Nat
    PROVE  LET ss == [k \in DOMAIN f |-> Usb!SettingPieces(f[k], i, j, k)]
               p == Usb!InterfacePieces(f, i, j)
           IN  /\ ss \in Seq(Seq(UsbPieces)) /\ Len(ss) = Len(f) /\ p = FlattenSeq(ss)
               /\ p \in Seq(UsbPieces)
               /\ Usb!Bytes(p) = Usb!InterfaceBytes(f) /\ Usb!InterfaceBytes(f) \in Nat
  <1> DEFINE n == Len(f)
             ss == [k \in 1 .. n |-> Usb!SettingPieces(f[k], i, j, k)]
             b == [k \in 1 .. n |-> Usb!SettingBytes(f[k])]
  <1>1. DOMAIN f = 1 .. n /\ n \in Nat /\ \A k \in 1 .. n : f[k] \in UsbSettings /\ k \in Nat
    OBVIOUS
  <1>2. ASSUME NEW k \in 1 .. n
        PROVE  /\ Usb!SettingPieces(f[k], i, j, k) \in Seq(UsbPieces)
               /\ Usb!Bytes(Usb!SettingPieces(f[k], i, j, k)) = Usb!SettingBytes(f[k])
               /\ Usb!SettingBytes(f[k]) \in Nat
    <2>1. f[k] \in UsbSettings /\ k \in Nat /\ i \in Nat /\ j \in Nat
      BY <1>1
    <2> QED BY ONLY <2>1, SettingPlaced
  <1>3. Usb!InterfacePieces(f, i, j) = FlattenSeq(ss) /\ Usb!InterfaceBytes(f) = Sum(b)
    BY <1>1, UsbHelpers DEF Usb!InterfacePieces, Usb!InterfaceBytes
  <1>4. [k \in DOMAIN f |-> Usb!SettingPieces(f[k], i, j, k)] = ss
    BY <1>1
  <1> HIDE DEF n
  <1>5. /\ ss \in Seq(Seq(UsbPieces)) /\ Len(ss) = n
        /\ \A k \in 1 .. n : ss[k] = Usb!SettingPieces(f[k], i, j, k)
    BY <1>1, <1>2
  <1>6. b \in Seq(Nat) /\ Len(b) = n /\ \A k \in 1 .. n : b[k] = Usb!SettingBytes(f[k])
    BY <1>1, <1>2
  <1> HIDE DEF ss, b
  <1>7. \A k \in 1 .. n : b[k] = Usb!Bytes(ss[k])
    BY <1>2, <1>5, <1>6
  <1>8. FlattenSeq(ss) \in Seq(UsbPieces) /\ Usb!Bytes(FlattenSeq(ss)) = Sum(b)
    BY <1>5, <1>6, <1>7, BytesFlat
  <1>9. Sum(b) \in Nat
    BY <1>6, SumsTyped
  <1> QED BY <1>3, <1>4, <1>5, <1>8, <1>9 DEF n

\* The three parts of a configuration's descriptors.
LEMMA ConfigPlaced ==
    ASSUME NEW c \in Seq(Seq(UsbSettings)), NEW i \in Nat
    PROVE  LET a == <<Usb!Piece("config", i, 0, 0, 0)>>
               e == [j \in DOMAIN c |-> Usb!Piece("interface", i, j, 0, 0)]
               ss == [j \in DOMAIN c |-> Usb!InterfacePieces(c[j], i, j)]
               p == Usb!ConfigPieces(c, i)
           IN  /\ a \in Seq(UsbPieces)
               /\ e \in Seq(UsbPieces) /\ Len(e) = Len(c)
               /\ ss \in Seq(Seq(UsbPieces)) /\ Len(ss) = Len(c)
               /\ FlattenSeq(ss) \in Seq(UsbPieces)
               /\ p = (a \o e) \o FlattenSeq(ss) /\ p \in Seq(UsbPieces)
               /\ Usb!Bytes(p) = Usb!ConfigBytes(c) /\ Usb!ConfigBytes(c) \in Nat
  <1> DEFINE n == Len(c)
             x == Usb!Piece("config", i, 0, 0, 0)
             I(j) == Usb!Piece("interface", i, j, 0, 0)
             a == <<x>>
             e == [j \in 1 .. n |-> I(j)]
             ss == [j \in 1 .. n |-> Usb!InterfacePieces(c[j], i, j)]
             b == [j \in 1 .. n |-> Usb!InterfaceBytes(c[j])]
             q == FlattenSeq(ss)
  <1>1. DOMAIN c = 1 .. n /\ n \in Nat /\ \A j \in 1 .. n : c[j] \in Seq(UsbSettings) /\ j \in Nat
    OBVIOUS
  <1>2. ASSUME NEW j \in 1 .. n
        PROVE  /\ Usb!InterfacePieces(c[j], i, j) \in Seq(UsbPieces)
               /\ Usb!Bytes(Usb!InterfacePieces(c[j], i, j)) = Usb!InterfaceBytes(c[j])
               /\ Usb!InterfaceBytes(c[j]) \in Nat
    BY <1>1, InterfacePlaced
  <1>3. /\ Usb!ConfigPieces(c, i) = (a \o e) \o q
        /\ Usb!ConfigBytes(c) = Usb!Size("config") + Usb!Size("interface") * n + Sum(b)
    BY <1>1, UsbHelpers DEF Usb!ConfigPieces, Usb!ConfigBytes
  <1>4. /\ [j \in DOMAIN c |-> Usb!InterfacePieces(c[j], i, j)] = ss
        /\ [j \in DOMAIN c |-> Usb!Piece("interface", i, j, 0, 0)] = e
    BY <1>1
  <1>5. "config" \in Kinds /\ "interface" \in Kinds
    BY DEF Kinds
  <1>24. i \in Nat /\ 0 \in Nat
    OBVIOUS
  <1>6. x \in UsbPieces /\ x.kind = "config"
    BY <1>5 DEF Usb!Piece, UsbPieces
  <1>7. ASSUME NEW j \in Nat
        PROVE  I(j) \in UsbPieces /\ I(j).kind = "interface"
    BY <1>5, <1>7 DEF Usb!Piece, UsbPieces
  <1> HIDE DEF n, x, I
  <1>8. a \in Seq(UsbPieces) /\ Len(a) = 1 /\ \A m \in 1 .. Len(a) : a[m].kind = "config"
    BY <1>6
  <1>9. e \in Seq(UsbPieces) /\ Len(e) = n /\ \A m \in 1 .. Len(e) : e[m].kind = "interface"
    BY <1>1, <1>7
  <1>10. /\ ss \in Seq(Seq(UsbPieces)) /\ Len(ss) = n
         /\ \A j \in 1 .. n : ss[j] = Usb!InterfacePieces(c[j], i, j)
    BY <1>1, <1>2
  <1>11. b \in Seq(Nat) /\ Len(b) = n /\ \A j \in 1 .. n : b[j] = Usb!InterfaceBytes(c[j])
    BY <1>1, <1>2
  <1>12. a = <<x>> /\ e = [j \in 1 .. n |-> I(j)]
    OBVIOUS
  <1> HIDE DEF a, e, ss, b
  <1>13. \A j \in 1 .. n : b[j] = Usb!Bytes(ss[j])
    BY <1>2, <1>10, <1>11
  <1>14. q \in Seq(UsbPieces) /\ Usb!Bytes(q) = Sum(b) /\ Sum(b) \in Nat
    BY <1>10, <1>11, <1>13, BytesFlat, SumsTyped
  <1> HIDE DEF q
  <1>15. Usb!Bytes(a) = Usb!Size("config") * 1 /\ Usb!Bytes(e) = Usb!Size("interface") * n
    BY <1>5, <1>8, <1>9, BytesOfKind
  <1>16. a \o e \in Seq(UsbPieces) /\ Usb!Bytes(a \o e) = Usb!Bytes(a) + Usb!Bytes(e)
    BY <1>8, <1>9, BytesConcat
  <1>17. /\ (a \o e) \o q \in Seq(UsbPieces)
         /\ Usb!Bytes((a \o e) \o q) = Usb!Bytes(a \o e) + Usb!Bytes(q)
    BY <1>14, <1>16, BytesConcat
  <1>18. Usb!Size("config") = 4 /\ Usb!Size("interface") = 2
    BY DEF Usb!Size
  <1>19. Usb!Bytes((a \o e) \o q) = Usb!ConfigBytes(c) /\ Usb!ConfigBytes(c) \in Nat
    BY <1>1, <1>3, <1>14, <1>15, <1>16, <1>17, <1>18
  <1>20. Len(ss) = Len(c) /\ Len(e) = Len(c)
    BY <1>9, <1>10 DEF n
  <1>21. Usb!ConfigPieces(c, i) = (a \o e) \o FlattenSeq(ss) /\ FlattenSeq(ss) \in Seq(UsbPieces)
    BY <1>3, <1>14 DEF q
  <1>22. Usb!Bytes(Usb!ConfigPieces(c, i)) = Usb!ConfigBytes(c)
         /\ Usb!ConfigPieces(c, i) \in Seq(UsbPieces)
    BY <1>3, <1>17, <1>19
  <1>23. a = <<Usb!Piece("config", i, 0, 0, 0)>>
    BY <1>12 DEF x
  <1> QED BY <1>4, <1>8, <1>9, <1>10, <1>19, <1>20, <1>21, <1>22, <1>23

UsbConfigurations == Seq(Seq(Seq(UsbSettings)))

\* The data fill the buffer whose size was announced.
LEMMA DevicePlaced ==
    ASSUME NEW d, d.configs \in UsbConfigurations
    PROVE  LET a == <<Usb!Piece("device", 0, 0, 0, 0)>>
               ss == [i \in DOMAIN d.configs |-> Usb!ConfigPieces(d.configs[i], i)]
               p == Usb!usb_deviceinfo(d)
           IN  /\ a \in Seq(UsbPieces)
               /\ ss \in Seq(Seq(UsbPieces)) /\ Len(ss) = Len(d.configs)
               /\ FlattenSeq(ss) \in Seq(UsbPieces)
               /\ p = a \o FlattenSeq(ss) /\ p \in Seq(UsbPieces)
               /\ Usb!Bytes(p) = Usb!usb_deviceinfo_Bytes(d)
  <1> DEFINE c == d.configs
             n == Len(c)
             x == Usb!Piece("device", 0, 0, 0, 0)
             a == <<x>>
             ss == [i \in 1 .. n |-> Usb!ConfigPieces(c[i], i)]
             b == [i \in 1 .. n |-> Usb!ConfigBytes(c[i])]
             q == FlattenSeq(ss)
  <1>1. DOMAIN c = 1 .. n /\ n \in Nat /\ \A i \in 1 .. n : c[i] \in Seq(Seq(UsbSettings)) /\ i \in Nat
    BY DEF UsbConfigurations
  <1>2. ASSUME NEW i \in 1 .. n
        PROVE  /\ Usb!ConfigPieces(c[i], i) \in Seq(UsbPieces)
               /\ Usb!Bytes(Usb!ConfigPieces(c[i], i)) = Usb!ConfigBytes(c[i])
               /\ Usb!ConfigBytes(c[i]) \in Nat
    BY <1>1, ConfigPlaced
  <1>3. /\ Usb!usb_deviceinfo(d) = a \o q
        /\ Usb!usb_deviceinfo_Bytes(d) = Usb!Size("device") + Sum(b)
    BY <1>1, UsbHelpers DEF Usb!usb_deviceinfo, Usb!usb_deviceinfo_Bytes
  <1>4. [i \in DOMAIN c |-> Usb!ConfigPieces(c[i], i)] = ss
    BY <1>1
  <1>5. "device" \in Kinds /\ 0 \in Nat
    BY DEF Kinds
  <1>6. x \in UsbPieces /\ x.kind = "device"
    BY ONLY <1>5, PieceTyped
  <1> HIDE DEF c, n, x
  <1>8. a \in Seq(UsbPieces) /\ Len(a) = 1 /\ \A m \in 1 .. Len(a) : a[m].kind = "device"
    BY <1>6
  <1>10. /\ ss \in Seq(Seq(UsbPieces)) /\ Len(ss) = n
         /\ \A i \in 1 .. n : ss[i] = Usb!ConfigPieces(c[i], i)
    BY <1>1, <1>2
  <1>11. b \in Seq(Nat) /\ Len(b) = n /\ \A i \in 1 .. n : b[i] = Usb!ConfigBytes(c[i])
    BY <1>1, <1>2
  <1>12. a = <<x>>
    OBVIOUS
  <1> HIDE DEF a, ss, b
  <1>13. \A i \in 1 .. n : b[i] = Usb!Bytes(ss[i])
    BY <1>2, <1>10, <1>11
  <1>14. q \in Seq(UsbPieces) /\ Usb!Bytes(q) = Sum(b) /\ Sum(b) \in Nat
    BY <1>10, <1>11, <1>13, BytesFlat, SumsTyped
  <1> HIDE DEF q
  <1>15. Usb!Bytes(a) = Usb!Size("device") * 1
    BY <1>5, <1>8, BytesOfKind
  <1>17. a \o q \in Seq(UsbPieces) /\ Usb!Bytes(a \o q) = Usb!Bytes(a) + Usb!Bytes(q)
    BY <1>8, <1>14, BytesConcat
  <1>18. Usb!Size("device") = 5
    BY DEF Usb!Size
  <1>19. Usb!Bytes(a \o q) = Usb!usb_deviceinfo_Bytes(d)
    BY <1>3, <1>14, <1>15, <1>17, <1>18
  <1>20. Usb!usb_deviceinfo(d) = a \o FlattenSeq(ss) /\ FlattenSeq(ss) \in Seq(UsbPieces)
    BY <1>3, <1>14 DEF q
  <1>21. a = <<Usb!Piece("device", 0, 0, 0, 0)>>
    BY <1>12 DEF x
  <1> QED BY <1>3, <1>4, <1>8, <1>10, <1>17, <1>19, <1>20, <1>21 DEF n, c

\* The offsets of pieces: the sums of the sizes before them.
LEMMA OffsetIsSum ==
    ASSUME NEW p \in Seq(UsbPieces), NEW n \in 1 .. Len(p)
    PROVE  Usb!Offset(p, n) = Sums(Sizes(p))[n - 1]
  <1> DEFINE q == SubSeq(p, 1, n - 1)
             a == Sizes(p)
             b == Sizes(q)
  <1>1. Len(p) \in Nat /\ n - 1 \in Nat /\ n - 1 <= Len(p)
    OBVIOUS
  <1>2. q \in Seq(UsbPieces) /\ Len(q) = n - 1 /\ \A i \in 1 .. n - 1 : q[i] = p[i]
    BY <1>1
  <1>3. Usb!Offset(p, n) = Usb!Bytes(q)
    BY DEF Usb!Offset
  <1> HIDE DEF q
  <1>4. /\ a \in Seq(Nat) /\ Len(a) = Len(p) /\ \A i \in 1 .. Len(p) : a[i] = Usb!Size(p[i].kind)
        /\ b \in Seq(Nat) /\ Len(b) = n - 1 /\ \A i \in 1 .. n - 1 : b[i] = Usb!Size(q[i].kind)
        /\ Usb!Bytes(q) = Sum(b)
    BY <1>2, SizesTyped
  <1> HIDE DEF a, b
  <1>5. \A i \in 1 .. n - 1 : b[i] = a[i]
    <2> SUFFICES ASSUME NEW i \in 1 .. n - 1
                 PROVE  b[i] = a[i]
      OBVIOUS
    <2>1. i \in 1 .. Len(p)
      BY <1>1
    <2>2. q[i] = p[i] /\ b[i] = Usb!Size(q[i].kind) /\ a[i] = Usb!Size(p[i].kind)
      BY <1>2, <1>4, <2>1
    <2> QED BY <2>2
  <1>6. Sums(b)[n - 1] = Sums(a)[n - 1]
    <2>1. /\ a \in Seq(Nat) /\ b \in Seq(Nat) /\ n - 1 \in Nat
          /\ n - 1 <= Len(a) /\ n - 1 <= Len(b)
      BY <1>1, <1>4
    <2> QED BY ONLY <1>5, <2>1, SumsAgree
  <1>7. Sum(b) = Sums(b)[n - 1]
    BY <1>4, SumsTyped
  <1> QED BY <1>3, <1>4, <1>6, <1>7 DEF a

\* Two pieces never lie at the same offset.
LEMMA OffsetsGrow ==
    ASSUME NEW p \in Seq(UsbPieces), NEW m \in 1 .. Len(p), NEW n \in 1 .. Len(p), m < n
    PROVE  Usb!Offset(p, m) < Usb!Offset(p, n)
  <1> DEFINE a == Sizes(p)
             c == Sums(a)
             T == {k \in 0 .. Len(p) : m <= k => c[m - 1] < c[k]}
  <1>1. Len(p) \in Nat
    OBVIOUS
  <1>2. a \in Seq(Nat) /\ Len(a) = Len(p) /\ \A i \in 1 .. Len(p) : a[i] \in Nat \ {0}
    BY SizesTyped
  <1>3. c \in [0 .. Len(p) -> Nat] /\ \A k \in 1 .. Len(p) : c[k] = c[k - 1] + a[k]
    BY <1>2, SumsTyped
  <1> HIDE DEF a, c
  <1>4. 0 \in T
    BY <1>1
  <1>5. ASSUME NEW k \in 1 .. Len(p), k - 1 \in T
        PROVE  k \in T
    <2>1. c[k] = c[k - 1] + a[k] /\ c[k] \in Nat /\ c[k - 1] \in Nat /\ a[k] \in Nat \ {0}
      <3>1. k \in 0 .. Len(p) /\ k - 1 \in 0 .. Len(p)
        BY <1>1
      <3> QED BY <1>2, <1>3, <3>1
    <2>2. c[m - 1] \in Nat
      <3>1. m - 1 \in 0 .. Len(p)
        BY <1>1
      <3> QED BY <1>3, <3>1
    <2>3. CASE m = k
      BY <1>1, <2>1, <2>3
    <2>4. CASE m # k
      BY <1>1, <1>5, <2>1, <2>2, <2>4
    <2> QED BY <2>3, <2>4
  <1> HIDE DEF T
  <1>6. \A k \in 0 .. Len(p) : k \in T
    BY <1>1, <1>4, <1>5, UpTo
  <1>7. n - 1 \in 0 .. Len(p) /\ m <= n - 1
    BY <1>1
  <1>8. c[m - 1] < c[n - 1]
    BY <1>6, <1>7 DEF T
  <1> QED BY <1>8, OffsetIsSum DEF a, c

\* Pieces of one kind that follow each other lie as far apart as they are long.
LEMMA OffsetsOfRun ==
    ASSUME NEW p \in Seq(UsbPieces), NEW kd \in Kinds, NEW n \in Nat \ {0}, NEW len \in Nat \ {0},
           n + len - 1 <= Len(p), \A e \in 1 .. len : p[n + e - 1].kind = kd
    PROVE  \A e \in 1 .. len :
              /\ n + e - 1 \in 1 .. Len(p)
              /\ Usb!Offset(p, n + e - 1) = Usb!Offset(p, n) + (e - 1) * Usb!Size(kd)
  <1> DEFINE a == Sizes(p)
             c == Sums(a)
             z == Usb!Size(kd)
             T == {k \in 0 .. len : k # 0 => c[n + k - 2] = c[n - 1] + z * (k - 1)}
  <1>1. Len(p) \in Nat /\ z \in Nat
    BY SizePositive
  <1>2. /\ a \in Seq(Nat) /\ Len(a) = Len(p)
        /\ \A i \in 1 .. Len(p) : a[i] = Usb!Size(p[i].kind)
    BY SizesTyped
  <1>3. c \in [0 .. Len(p) -> Nat] /\ \A k \in 1 .. Len(p) : c[k] = c[k - 1] + a[k]
    BY <1>2, SumsTyped
  <1>4. \A k \in 1 .. len : n + k - 1 \in 1 .. Len(p) /\ a[n + k - 1] = z
    <2> SUFFICES ASSUME NEW k \in 1 .. len
                 PROVE  n + k - 1 \in 1 .. Len(p) /\ a[n + k - 1] = z
      OBVIOUS
    <2>1. n + k - 1 \in 1 .. Len(p)
      BY <1>1
    <2> QED BY <1>2, <2>1
  <1> HIDE DEF a, c, z
  <1>5. 0 \in T
    BY <1>1
  <1>6. ASSUME NEW k \in 1 .. len, k - 1 \in T
        PROVE  k \in T
    <2>1. CASE k = 1
      <3>1. n + k - 2 = n - 1 /\ k - 1 = 0 /\ n - 1 \in 0 .. Len(p)
        BY <1>1, <2>1
      <3>2. c[n - 1] \in Nat /\ z * 0 = 0
        BY <1>1, <1>3, <3>1
      <3> QED BY <3>1, <3>2
    <2>2. CASE k # 1
      <3>1. /\ k - 1 \in 1 .. len /\ k - 1 # 0 /\ k - 1 \in Nat \ {0}
            /\ n + k - 2 = n + (k - 1) - 1 /\ n + (k - 1) - 2 = (n + k - 2) - 1
            /\ (k - 1) - 1 = k - 2
        BY <2>2
      <3>2. /\ c[n + k - 2] = c[(n + k - 2) - 1] + a[n + k - 2]
            /\ a[n + k - 2] = z
        BY <1>3, <1>4, <3>1
      <3>3. c[(n + k - 2) - 1] = c[n - 1] + z * (k - 2)
        BY <1>6, <3>1
      <3>4. c[n - 1] \in Nat
        <4>1. n - 1 \in 0 .. Len(p)
          BY <1>1
        <4> QED BY <1>3, <4>1
      <3> DEFINE u == z * (k - 2)
                 v == z * (k - 1)
      <3>5. v = u + z /\ u \in Nat
        <4>1. z * (k - 1) = z * ((k - 1) - 1) + z /\ z * ((k - 1) - 1) \in Nat
          BY <1>1, <3>1, Distributes
        <4> QED BY <3>1, <4>1
      <3>6. c[n + k - 2] = c[n - 1] + u + z
        BY <3>2, <3>3
      <3> HIDE DEF u, v
      <3>7. c[n + k - 2] = c[n - 1] + v
        BY <1>1, <3>4, <3>5, <3>6
      <3>8. k \in 0 .. len
        OBVIOUS
      <3> QED BY <3>7, <3>8 DEF v
    <2> QED BY <2>1, <2>2
  <1> HIDE DEF T
  <1>7. \A k \in 0 .. len : k \in T
    BY <1>5, <1>6, UpTo
  <1> SUFFICES ASSUME NEW e \in 1 .. len
               PROVE  /\ n + e - 1 \in 1 .. Len(p)
                      /\ Usb!Offset(p, n + e - 1) = Usb!Offset(p, n) + (e - 1) * z
    BY DEF z
  <1>8. c[n + e - 2] = c[n - 1] + z * (e - 1)
    <2>1. e \in 0 .. len /\ e # 0
      OBVIOUS
    <2> QED BY <1>7, <2>1 DEF T
  <1>9. n + e - 1 \in 1 .. Len(p) /\ n \in 1 .. Len(p) /\ (n + e - 1) - 1 = n + e - 2
    BY <1>1, <1>4
  <1>10. Usb!Offset(p, n + e - 1) = c[n + e - 2] /\ Usb!Offset(p, n) = c[n - 1]
    BY <1>9, OffsetIsSum DEF a, c
  <1>11. z * (e - 1) = (e - 1) * z
    BY <1>1
  <1> QED BY <1>8, <1>9, <1>10, <1>11

\* Elements of one kind that always follow each other are read from the first.
LEMMA ReadsRun ==
    ASSUME NEW p \in Seq(UsbPieces), NEW E \in Seq(UsbPieces), NEW kd \in Kinds, Len(E) > 0,
           \A e \in 1 .. Len(E) : E[e].kind = kd,
           Holds(p, E), Follows(p, E)
    PROVE  \A e \in 1 .. Len(E) :
              Usb!PieceAt(p, Usb!Place(p, E[1]) + (e - 1) * Usb!Size(kd)) = {E[e]}
  <1> SUFFICES ASSUME NEW e \in 1 .. Len(E)
               PROVE  Usb!PieceAt(p, Usb!Place(p, E[1]) + (e - 1) * Usb!Size(kd)) = {E[e]}
    OBVIOUS
  <1> DEFINE n == CHOOSE n \in DOMAIN p : p[n] = E[1]
             m == n + e - 1
             off == Usb!Place(p, E[1]) + (e - 1) * Usb!Size(kd)
  <1>1. DOMAIN p = 1 .. Len(p) /\ Len(p) \in Nat /\ Len(E) \in Nat \ {0}
    OBVIOUS
  <1>2. n \in 1 .. Len(p) /\ p[n] = E[1]
    BY <1>1 DEF Holds
  <1>3. Usb!Place(p, E[1]) = Usb!Offset(p, n)
    BY DEF Usb!Place
  <1> HIDE DEF n
  <1>4. n + Len(E) - 1 <= Len(p) /\ \A i \in 1 .. Len(E) : p[n + i - 1] = E[i]
    BY <1>2 DEF Follows
  <1>5. \A i \in 1 .. Len(E) : p[n + i - 1].kind = kd
    BY <1>4
  <1>6. m \in 1 .. Len(p) /\ Usb!Offset(p, m) = off
    <2> DEFINE len == Len(E)
    <2>1. n \in Nat \ {0} /\ len \in Nat \ {0} /\ e \in 1 .. len /\ n + len - 1 <= Len(p)
      BY <1>1, <1>2, <1>4
    <2>2. \A i \in 1 .. len : p[n + i - 1].kind = kd
      BY <1>5
    <2> HIDE DEF len
    <2>3. \A i \in 1 .. len :
             /\ n + i - 1 \in 1 .. Len(p)
             /\ Usb!Offset(p, n + i - 1) = Usb!Offset(p, n) + (i - 1) * Usb!Size(kd)
      BY ONLY p \in Seq(UsbPieces), kd \in Kinds, <2>1, <2>2, OffsetsOfRun, ZenonT(30)
    <2> QED BY <1>3, <2>1, <2>3
  <1>7. p[m] = E[e]
    BY <1>4
  <1> HIDE DEF m, off
  <1>8. ASSUME NEW k \in 1 .. Len(p), Usb!Offset(p, k) = off
        PROVE  k = m
    <2>1. \A i \in 1 .. Len(p) : Usb!Offset(p, i) \in Nat
      <3>1. Sums(Sizes(p)) \in [0 .. Len(p) -> Nat]
        BY SizesTyped, SumsTyped
      <3>2. \A i \in 1 .. Len(p) : i - 1 \in 0 .. Len(p)
        BY <1>1
      <3> QED BY <3>1, <3>2, OffsetIsSum
    <2>2. ~(k < m)
      BY <1>6, <1>8, <2>1, OffsetsGrow
    <2>3. ~(m < k)
      BY <1>6, <1>8, <2>1, OffsetsGrow
    <2> QED BY <1>1, <1>6, <2>2, <2>3
  <1>9. {i \in DOMAIN p : Usb!Offset(p, i) = off} = {m}
    BY <1>1, <1>6, <1>8
  <1>10. Usb!PieceAt(p, off) = {p[i] : i \in {m}}
    BY <1>9 DEF Usb!PieceAt
  <1> QED BY <1>7, <1>10 DEF off

LEMMA FlatTyped ==
    ASSUME NEW S, NEW ss \in Seq(Seq(S))
    PROVE  FlattenSeq(ss) \in Seq(S)
  <1>1. PICK f \in [0 .. Len(ss) -> Seq(S)] : IsFlat(ss, f)
    BY FlatExists
  <1>2. FlattenSeq(ss) = f[Len(ss)] /\ Len(ss) \in 0 .. Len(ss)
    BY <1>1 DEF IsFlat
  <1> QED BY <1>1, <1>2

\* Where the first element cannot be, there is nothing to follow it.
LEMMA NotThere ==
    ASSUME NEW S, NEW p \in Seq(S), NEW E, E[1] \notin S
    PROVE  ~Holds(p, E) /\ Follows(p, E)
  <1>1. \A n \in 1 .. Len(p) : p[n] \in S
    OBVIOUS
  <1> QED BY <1>1 DEF Holds, Follows

\* A run whose first element does not come back.
LEMMA RunItself ==
    ASSUME NEW S, NEW E \in Seq(S), Len(E) > 0, \A n \in 2 .. Len(E) : E[n] # E[1]
    PROVE  Holds(E, E) /\ Follows(E, E)
  <1>1. Len(E) \in Nat /\ \A e \in 1 .. Len(E) : E[e] = E[e]
    OBVIOUS
  <1>2. Len(E) <= Len(E)
    BY <1>1
  <1> QED BY <1>1, <1>2, FollowsStart

\* The pieces of a setting, of an interface, and those inside interfaces.
Inner == {"setting", "endpoint", "pipe"}

InSetting(i, j, k) == {q \in UsbPieces : q.kind \in Inner /\ q.at[1] = i /\ q.at[2] = j /\ q.at[3] = k}

InInterface(i, j) == {q \in UsbPieces : q.kind \in Inner /\ q.at[1] = i /\ q.at[2] = j}

InInterfaces == {q \in UsbPieces : q.kind \in Inner}

LEMMA PieceInSetting ==
    \A i, j, k, l \in Nat :
        /\ Usb!Piece("setting", i, j, k, l) \in InSetting(i, j, k)
        /\ Usb!Piece("endpoint", i, j, k, l) \in InSetting(i, j, k)
        /\ Usb!Piece("pipe", i, j, k, l) \in InSetting(i, j, k)
  BY DEF Usb!Piece, InSetting, UsbPieces, Inner, Kinds

LEMMA SettingInside ==
    \A s \in UsbSettings, i, j, k \in Nat : Usb!SettingPieces(s, i, j, k) \in Seq(InSetting(i, j, k))
  <1> SUFFICES ASSUME NEW s \in UsbSettings, NEW i \in Nat, NEW j \in Nat, NEW k \in Nat
               PROVE  Usb!SettingPieces(s, i, j, k) \in Seq(InSetting(i, j, k))
    OBVIOUS
  <1> DEFINE n == s.eps
             S == InSetting(i, j, k)
             x == Usb!Piece("setting", i, j, k, 0)
             a == <<x>>
             b == [l \in 1 .. n |-> Usb!Piece("endpoint", i, j, k, l)]
             c == [l \in 1 .. n |-> Usb!Piece("pipe", i, j, k, l)]
  <1>1. n \in Nat
    BY DEF UsbSettings
  <1>2. x \in S
    BY PieceInSetting
  <1>3. \A l \in 1 .. n : Usb!Piece("endpoint", i, j, k, l) \in S /\ Usb!Piece("pipe", i, j, k, l) \in S
    BY <1>1, PieceInSetting
  <1>4. Usb!SettingPieces(s, i, j, k) = (a \o b) \o c
    BY DEF Usb!SettingPieces
  <1> HIDE DEF n, S, x
  <1>5. a \in Seq(S) /\ b \in Seq(S) /\ c \in Seq(S)
    BY <1>1, <1>2, <1>3
  <1> HIDE DEF a, b, c
  <1>6. (a \o b) \o c \in Seq(S)
    BY <1>5
  <1> QED BY <1>4, <1>6 DEF S

LEMMA InterfaceInside ==
    \A f \in Seq(UsbSettings), i, j \in Nat : Usb!InterfacePieces(f, i, j) \in Seq(InInterface(i, j))
  <1> SUFFICES ASSUME NEW f \in Seq(UsbSettings), NEW i \in Nat, NEW j \in Nat
               PROVE  Usb!InterfacePieces(f, i, j) \in Seq(InInterface(i, j))
    OBVIOUS
  <1> DEFINE n == Len(f)
             S == InInterface(i, j)
             ss == [k \in 1 .. n |-> Usb!SettingPieces(f[k], i, j, k)]
  <1>1. DOMAIN f = 1 .. n /\ n \in Nat /\ \A k \in 1 .. n : f[k] \in UsbSettings /\ k \in Nat
    OBVIOUS
  <1>2. \A k \in Nat : InSetting(i, j, k) \subseteq S
    BY DEF InSetting, InInterface
  <1>3. Usb!InterfacePieces(f, i, j) = FlattenSeq(ss)
    BY <1>1, UsbHelpers DEF Usb!InterfacePieces
  <1> HIDE DEF n, S
  <1>4. ASSUME NEW k \in 1 .. n
        PROVE  Usb!SettingPieces(f[k], i, j, k) \in Seq(S)
    <2>1. f[k] \in UsbSettings /\ k \in Nat /\ i \in Nat /\ j \in Nat
      BY <1>1
    <2>2. Usb!SettingPieces(f[k], i, j, k) \in Seq(InSetting(i, j, k))
      BY ONLY <2>1, SettingInside
    <2> QED BY <1>2, <2>1, <2>2
  <1>5. ss \in Seq(Seq(S))
    BY <1>1, <1>4
  <1> HIDE DEF ss
  <1> QED BY <1>3, <1>5, FlatTyped DEF S

\* The endpoints and the pipes of a setting follow each other.
EndpointsOf(s, i, j, k) == [l \in 1 .. s.eps |-> Usb!Piece("endpoint", i, j, k, l)]

PipesOf(s, i, j, k) == [l \in 1 .. s.eps |-> Usb!Piece("pipe", i, j, k, l)]

LEMMA RunsInSetting ==
    \A s \in UsbSettings, i, j, k \in Nat : s.eps > 0 =>
        LET p == Usb!SettingPieces(s, i, j, k)
            E == EndpointsOf(s, i, j, k)
            P == PipesOf(s, i, j, k)
        IN  Holds(p, E) /\ Follows(p, E) /\ Holds(p, P) /\ Follows(p, P)
  <1> SUFFICES ASSUME NEW s \in UsbSettings, NEW i \in Nat, NEW j \in Nat, NEW k \in Nat, s.eps > 0
               PROVE  LET p == Usb!SettingPieces(s, i, j, k)
                          E == EndpointsOf(s, i, j, k)
                          P == PipesOf(s, i, j, k)
                      IN  Holds(p, E) /\ Follows(p, E) /\ Holds(p, P) /\ Follows(p, P)
    OBVIOUS
  <1> DEFINE n == s.eps
             x == Usb!Piece("setting", i, j, k, 0)
             a == <<x>>
             b == EndpointsOf(s, i, j, k)
             c == PipesOf(s, i, j, k)
             KindOf(kd) == {q \in UsbPieces : q.kind = kd}
  <1>1. n \in Nat \ {0}
    BY DEF UsbSettings
  <1>2. x \in KindOf("setting")
    BY DEF Usb!Piece, UsbPieces, Kinds
  <1>3. \A l \in Nat : /\ Usb!Piece("endpoint", i, j, k, l) \in KindOf("endpoint")
                       /\ Usb!Piece("pipe", i, j, k, l) \in KindOf("pipe")
                       /\ Usb!Piece("endpoint", i, j, k, l).at = <<i, j, k, l>>
                       /\ Usb!Piece("pipe", i, j, k, l).at = <<i, j, k, l>>
    BY DEF Usb!Piece, UsbPieces, Kinds
  <1>4. Usb!SettingPieces(s, i, j, k) = (a \o b) \o c
    BY DEF Usb!SettingPieces, EndpointsOf, PipesOf
  <1>5. /\ b \in Seq(KindOf("endpoint")) /\ Len(b) = n
        /\ \A l \in 1 .. n : b[l] = Usb!Piece("endpoint", i, j, k, l)
    BY <1>1, <1>3 DEF EndpointsOf
  <1>6. /\ c \in Seq(KindOf("pipe")) /\ Len(c) = n
        /\ \A l \in 1 .. n : c[l] = Usb!Piece("pipe", i, j, k, l)
    <2>1. \A l \in 1 .. n : Usb!Piece("pipe", i, j, k, l) \in KindOf("pipe")
      BY <1>1, <1>3
    <2>2. c = [l \in 1 .. n |-> Usb!Piece("pipe", i, j, k, l)]
      BY DEF PipesOf
    <2> HIDE DEF c, KindOf
    <2> QED BY <1>1, <2>1, <2>2
  <1>7. a \in Seq(KindOf("setting"))
    BY <1>2
  <1>8. \A kd : KindOf(kd) \subseteq UsbPieces /\ \A q \in KindOf(kd) : q.kind = kd
    OBVIOUS
  <1> HIDE DEF a, b, c, n, KindOf
  <1>9. a \in Seq(UsbPieces) /\ b \in Seq(UsbPieces) /\ c \in Seq(UsbPieces)
    BY <1>5, <1>6, <1>7, <1>8
  <1>10. /\ 1 \in 1 .. n /\ \A l \in 2 .. n : l \in 1 .. n /\ l # 1
         /\ \A l \in 1 .. n : l \in Nat
    BY <1>1
  <1>11. Holds(b, b) /\ Follows(b, b)
    <2>1. \A l \in 2 .. n : b[l] # b[1]
      BY <1>3, <1>5, <1>10
    <2> QED BY <1>1, <1>5, <1>9, <2>1, RunItself
  <1>12. Holds(c, c) /\ Follows(c, c)
    <2>1. \A l \in 2 .. n : c[l] # c[1]
      BY <1>3, <1>6, <1>10
    <2> QED BY <1>1, <1>6, <1>9, <2>1, RunItself
  <1>13. b[1].kind = "endpoint" /\ c[1].kind = "pipe"
    BY <1>3, <1>5, <1>6, <1>8, <1>10
  <1>14. /\ b[1] \notin KindOf("setting") /\ b[1] \notin KindOf("pipe")
         /\ c[1] \notin KindOf("setting") /\ c[1] \notin KindOf("endpoint")
    BY <1>8, <1>13
  <1>15. Follows(a, b) /\ Follows(c, b) /\ Follows(a, c) /\ Follows(b, c)
    BY <1>5, <1>6, <1>7, <1>14, NotThere
  <1>16. Len(b) > 0 /\ Len(c) > 0 /\ a \o b \in Seq(UsbPieces)
    BY <1>1, <1>5, <1>6, <1>9
  <1>17. Holds(a \o b, b) /\ Follows(a \o b, b) /\ Follows(a \o b, c)
    BY <1>9, <1>11, <1>15, <1>16, FollowsConcat
  <1>18. /\ Holds((a \o b) \o c, b) /\ Follows((a \o b) \o c, b)
         /\ Holds((a \o b) \o c, c) /\ Follows((a \o b) \o c, c)
    BY <1>9, <1>12, <1>15, <1>16, <1>17, FollowsConcat
  <1> QED BY <1>4, <1>18 DEF b, c

\* What is in one setting follows in the interface as it does there.
LEMMA FromSetting ==
    ASSUME NEW f \in Seq(UsbSettings), NEW i \in Nat, NEW j \in Nat, NEW k \in 1 .. Len(f),
           NEW E \in Seq(UsbPieces), Len(E) > 0, E[1] \in InSetting(i, j, k),
           Holds(Usb!SettingPieces(f[k], i, j, k), E),
           Follows(Usb!SettingPieces(f[k], i, j, k), E)
    PROVE  Holds(Usb!InterfacePieces(f, i, j), E) /\ Follows(Usb!InterfacePieces(f, i, j), E)
  <1> DEFINE n == Len(f)
             ss == [m \in 1 .. n |-> Usb!SettingPieces(f[m], i, j, m)]
  <1>1. DOMAIN f = 1 .. n /\ n \in Nat /\ \A m \in 1 .. n : f[m] \in UsbSettings /\ m \in Nat
    OBVIOUS
  <1>2. Usb!InterfacePieces(f, i, j) = FlattenSeq(ss)
    BY <1>1, UsbHelpers DEF Usb!InterfacePieces
  <1> HIDE DEF n
  <1>3. ASSUME NEW m \in 1 .. n
        PROVE  Usb!SettingPieces(f[m], i, j, m) \in Seq(UsbPieces)
    <2>1. f[m] \in UsbSettings /\ m \in Nat /\ i \in Nat /\ j \in Nat
      BY <1>1
    <2> QED BY ONLY <2>1, SettingPlaced
  <1>4. ss \in Seq(Seq(UsbPieces)) /\ Len(ss) = n
    BY <1>1, <1>3
  <1>5. \A m \in 1 .. n : ss[m] = Usb!SettingPieces(f[m], i, j, m)
    OBVIOUS
  <1>6. k \in 1 .. n
    BY DEF n
  <1> HIDE DEF ss
  <1>7. ASSUME NEW m \in 1 .. n
        PROVE  Follows(ss[m], E)
    <2>1. CASE m = k
      BY <1>5, <1>7, <2>1
    <2>2. CASE m # k
      <3>1. f[m] \in UsbSettings /\ m \in Nat /\ i \in Nat /\ j \in Nat
        BY <1>1
      <3>2. Usb!SettingPieces(f[m], i, j, m) \in Seq(InSetting(i, j, m))
        BY ONLY <3>1, SettingInside
      <3>3. E[1] \notin InSetting(i, j, m)
        BY <2>2 DEF InSetting
      <3> QED BY <1>5, <3>2, <3>3, NotThere
    <2> QED BY <2>1, <2>2
  <1>8. \E m \in 1 .. n : Holds(ss[m], E)
    BY <1>5, <1>6
  <1> QED BY <1>2, <1>4, <1>7, <1>8, FollowsFlat

\* The settings of an interface follow each other if only the last has endpoints.
SettingsOf(f, i, j) == [k \in 1 .. Len(f) |-> Usb!Piece("setting", i, j, k, 0)]

LEMMA SettingsRun ==
    ASSUME NEW f \in Seq(UsbSettings), NEW i \in Nat, NEW j \in Nat, Len(f) > 0,
           \A k \in 1 .. Len(f) : k < Len(f) => f[k].eps = 0
    PROVE  /\ Holds(Usb!InterfacePieces(f, i, j), SettingsOf(f, i, j))
           /\ Follows(Usb!InterfacePieces(f, i, j), SettingsOf(f, i, j))
  <1> DEFINE n == Len(f)
             P(k) == Usb!Piece("setting", i, j, k, 0)
             E == SettingsOf(f, i, j)
             p == Usb!InterfacePieces(f, i, j)
             sp(k) == Usb!SettingPieces(f[k], i, j, k)
             ss == [k \in 1 .. n |-> sp(k)]
             last == Usb!SettingPieces(f[n], i, j, n)
  <1>1. DOMAIN f = 1 .. n /\ n \in Nat \ {0} /\ \A k \in 1 .. n : f[k] \in UsbSettings /\ k \in Nat
    OBVIOUS
  <1>2. p = FlattenSeq(ss)
    BY <1>1, UsbHelpers DEF Usb!InterfacePieces
  <1>3. /\ \A k \in Nat : P(k) \in UsbPieces /\ P(k).kind = "setting" /\ P(k).at = <<i, j, k, 0>>
        /\ \A k, l \in Nat : /\ Usb!Piece("endpoint", i, j, k, l).kind = "endpoint"
                             /\ Usb!Piece("pipe", i, j, k, l).kind = "pipe"
    BY DEF Usb!Piece, UsbPieces, Kinds
  <1>4. \A k \in 1 .. n : f[k].eps \in Nat /\ (k < n => f[k].eps = 0)
    BY <1>1 DEF UsbSettings
  <1> HIDE DEF n, P
  <1>5. /\ E \in Seq(UsbPieces) /\ Len(E) = n
        /\ \A k \in 1 .. n : E[k] = P(k)
    BY <1>1, <1>3 DEF SettingsOf, n, P
  <1>6. ASSUME NEW k \in 1 .. n
        PROVE  /\ sp(k) \in Seq(UsbPieces) /\ Len(sp(k)) = 1 + f[k].eps + f[k].eps
               /\ sp(k)[1] = P(k)
               /\ \A l \in 1 .. f[k].eps :
                     /\ sp(k)[1 + l] = Usb!Piece("endpoint", i, j, k, l)
                     /\ sp(k)[1 + f[k].eps + l] = Usb!Piece("pipe", i, j, k, l)
    <2> DEFINE s == f[k]
    <2>1. s \in UsbSettings /\ k \in Nat /\ i \in Nat /\ j \in Nat
      BY <1>1
    <2> HIDE DEF s
    <2>2. /\ Usb!SettingPieces(s, i, j, k) \in Seq(UsbPieces)
          /\ Arranged(Usb!SettingPieces(s, i, j, k), s, i, j, k)
      BY ONLY <2>1, SettingPlaced
    <2> QED BY <2>2 DEF s, P, Arranged
  <1> HIDE DEF E, sp
  <1>7. ss \in Seq(Seq(UsbPieces)) /\ Len(ss) = n /\ \A k \in 1 .. n : ss[k] = sp(k)
    BY <1>1, <1>6
  <1> HIDE DEF ss
  <1>8. PICK g \in [0 .. Len(ss) -> Seq(UsbPieces)] : IsFlat(ss, g)
    BY <1>7, FlatExists
  <1>9. /\ g \in [0 .. n -> Seq(UsbPieces)]
        /\ g[0] = <<>> /\ (\A k \in 1 .. n : g[k] = g[k - 1] \o sp(k)) /\ p = g[n]
    BY <1>2, <1>7, <1>8 DEF IsFlat
  <1> DEFINE T == {k \in 0 .. n : k < n => Len(g[k]) = k /\ \A e \in 1 .. k : g[k][e] = P(e)}
  <1>10. 0 \in T
    BY <1>1, <1>9
  <1>11. ASSUME NEW k \in 1 .. n, k - 1 \in T
         PROVE  k \in T
    <2>1. CASE k < n
      <3> DEFINE a == g[k - 1]
                 b == sp(k)
      <3>1. k - 1 \in 0 .. n /\ k - 1 < n /\ k \in 0 .. n
        BY <1>1, <2>1
      <3>2. a \in Seq(UsbPieces) /\ Len(a) = k - 1 /\ \A e \in 1 .. k - 1 : a[e] = P(e)
        BY <1>9, <1>11, <3>1
      <3>3. b \in Seq(UsbPieces) /\ Len(b) = 1 /\ b[1] = P(k)
        <4>1. f[k].eps = 0
          BY <1>4, <2>1
        <4> QED BY <1>6, <4>1
      <3>4. g[k] = a \o b
        BY <1>9
      <3> HIDE DEF a, b
      <3>5. /\ Len(a \o b) = k /\ (a \o b)[k] = P(k)
            /\ \A e \in 1 .. k - 1 : (a \o b)[e] = P(e)
        <4> DEFINE r == a \o b
        <4>1. a \in Seq(UsbPieces) /\ b \in Seq(UsbPieces)
          BY <3>2, <3>3
        <4>2. /\ Len(r) = Len(a) + Len(b) /\ \A e \in 1 .. Len(a) : r[e] = a[e]
              /\ \A e \in 1 .. Len(b) : r[Len(a) + e] = b[e]
          BY ONLY <4>1
        <4> HIDE DEF r
        <4>3. Len(a) + 1 = k /\ 1 \in 1 .. Len(b)
          BY <1>1, <3>1, <3>2, <3>3
        <4>4. r[k] = P(k)
          BY <3>3, <4>2, <4>3
        <4> QED BY <3>2, <3>3, <4>2, <4>3, <4>4 DEF r
      <3>6. \A e \in 1 .. k : e = k \/ e \in 1 .. k - 1
        BY <3>1
      <3> QED BY <3>1, <3>4, <3>5, <3>6
    <2>2. CASE ~(k < n)
      <3>1. k \in 0 .. n
        BY <1>1
      <3> QED BY <2>2, <3>1
    <2> QED BY <2>1, <2>2
  <1> HIDE DEF T
  <1>12. \A k \in 0 .. n : k \in T
    BY <1>1, <1>10, <1>11, UpTo
  <1> DEFINE a == g[n - 1]
             b == sp(n)
             z == f[n].eps
  <1>13. a \in Seq(UsbPieces) /\ Len(a) = n - 1 /\ \A e \in 1 .. n - 1 : a[e] = P(e)
    <2>1. n - 1 \in 0 .. n /\ n - 1 < n
      BY <1>1
    <2> QED BY <1>9, <1>12, <2>1 DEF T
  <1>14. n \in 1 .. n /\ z \in Nat
    BY <1>1, <1>4
  <1>15. /\ b \in Seq(UsbPieces) /\ Len(b) = 1 + z + z /\ b[1] = P(n)
         /\ \A l \in 1 .. z : b[1 + l].kind = "endpoint" /\ b[1 + z + l].kind = "pipe"
    <2>1. /\ b \in Seq(UsbPieces) /\ Len(b) = 1 + z + z /\ b[1] = P(n)
          /\ \A l \in 1 .. z : /\ b[1 + l] = Usb!Piece("endpoint", i, j, n, l)
                               /\ b[1 + z + l] = Usb!Piece("pipe", i, j, n, l)
      BY <1>6, <1>14
    <2>2. n \in Nat /\ \A l \in 1 .. z : l \in Nat
      BY <1>1, <1>14
    <2> HIDE DEF b, z
    <2>3. ASSUME NEW l \in 1 .. z
          PROVE  b[1 + l].kind = "endpoint" /\ b[1 + z + l].kind = "pipe"
      <3>1. /\ b[1 + l] = Usb!Piece("endpoint", i, j, n, l)
            /\ b[1 + z + l] = Usb!Piece("pipe", i, j, n, l)
        BY <2>1
      <3> QED BY <3>1 DEF Usb!Piece
    <2> QED BY <2>1, <2>3
  <1>16. p = a \o b
    BY <1>9, <1>14
  <1> HIDE DEF a, b, z, p
  <1>17. /\ p \in Seq(UsbPieces) /\ Len(p) = n - 1 + 1 + z + z
         /\ \A m \in 1 .. n - 1 : p[m] = a[m]
         /\ \A m \in 1 .. 1 + z + z : p[n - 1 + m] = b[m]
    <2>1. a \in Seq(UsbPieces) /\ b \in Seq(UsbPieces)
      BY <1>13, <1>15
    <2>2. /\ a \o b \in Seq(UsbPieces) /\ Len(a \o b) = Len(a) + Len(b)
          /\ \A m \in 1 .. Len(a) : (a \o b)[m] = a[m]
          /\ \A m \in 1 .. Len(b) : (a \o b)[Len(a) + m] = b[m]
      BY ONLY <2>1
    <2>3. Len(a) + Len(b) = n - 1 + 1 + z + z
      BY <1>1, <1>13, <1>14, <1>15
    <2> QED BY <1>13, <1>15, <1>16, <2>2, <2>3
  <1>18. \A e \in 1 .. n : p[e] = P(e)
    <2> SUFFICES ASSUME NEW e \in 1 .. n
                 PROVE  p[e] = P(e)
      OBVIOUS
    <2>1. CASE e = n
      <3>1. 1 \in 1 .. 1 + z + z /\ n - 1 + 1 = n
        BY <1>1, <1>14
      <3> QED BY <1>15, <1>17, <2>1, <3>1
    <2>2. CASE e # n
      <3>1. e \in 1 .. n - 1
        BY <1>1, <2>2
      <3> QED BY <1>13, <1>17, <3>1
    <2> QED BY <2>1, <2>2
  <1>19. P(1).kind = "setting" /\ 1 \in 1 .. n /\ P(1).at[3] = 1
    BY <1>1, <1>3
  <1>20. \A m \in 2 .. Len(p) : p[m] # P(1)
    <2> SUFFICES ASSUME NEW m \in 2 .. Len(p)
                 PROVE  p[m] # P(1)
      OBVIOUS
    <2>1. CASE m <= n
      <3>1. m \in 1 .. n /\ m \in Nat /\ m # 1
        BY <1>1, <2>1
      <3>2. p[m] = P(m) /\ P(m).at[3] = m
        <4>1. P(m).at = <<i, j, m, 0>>
          BY <1>3, <3>1
        <4> QED BY <1>18, <3>1, <4>1
      <3> QED BY <1>19, <3>1, <3>2
    <2>2. CASE m > n
      <3> DEFINE l == m - n
      <3>0. l \in 1 .. z + z /\ n - 1 + (1 + l) = m /\ 1 + l \in 1 .. 1 + z + z
        BY <1>1, <1>14, <1>17, <2>2
      <3> HIDE DEF l
      <3>1. p[m] = b[1 + l]
        BY <1>17, <3>0
      <3>2. CASE l <= z
        <4>1. l \in 1 .. z
          BY <1>14, <3>0, <3>2
        <4> QED BY <1>15, <1>19, <3>1, <4>1
      <3>3. CASE l > z
        <4>1. l - z \in 1 .. z /\ 1 + z + (l - z) = 1 + l
          BY <1>14, <3>0, <3>3
        <4> QED BY <1>15, <1>19, <3>1, <4>1
      <3> QED BY <1>14, <3>0, <3>2, <3>3
    <2> QED BY <1>1, <1>17, <2>1, <2>2
  <1>21. Len(E) > 0 /\ Len(E) <= Len(p) /\ E[1] = P(1) /\ \A e \in 1 .. Len(E) : p[e] = E[e]
    BY <1>1, <1>5, <1>14, <1>17, <1>18, <1>19
  <1> QED BY <1>5, <1>17, <1>20, <1>21, FollowsStart DEF E, p

LEMMA ElementOf ==
    ASSUME NEW S, NEW p \in Seq(S), NEW n \in 1 .. Len(p)
    PROVE  p[n] \in S
  OBVIOUS

LEMMA SeqOver ==
    ASSUME NEW S, NEW T, NEW p \in Seq(S), \A n \in 1 .. Len(p) : p[n] \in T
    PROVE  p \in Seq(T)
  OBVIOUS

LEMMA OneElement ==
    ASSUME NEW p \in Seq(UsbPieces), NEW E \in Seq(UsbPieces), Len(E) = 1
    PROVE  Follows(p, E)
  <1>1. Len(p) \in Nat
    OBVIOUS
  <1>2. \A n \in 1 .. Len(p) : n + 1 - 1 <= Len(p) /\ n + 1 - 1 = n
    BY <1>1
  <1>3. \A e \in 1 .. 1 : e = 1
    OBVIOUS
  <1> QED BY <1>2, <1>3 DEF Follows

\* The configuration and its interfaces.
ConfigOf(i) == <<Usb!Piece("config", i, 0, 0, 0)>>

InterfacesOf(c, i) == [j \in 1 .. Len(c) |-> Usb!Piece("interface", i, j, 0, 0)]

InsideOf(c, i) == FlattenSeq([j \in DOMAIN c |-> Usb!InterfacePieces(c[j], i, j)])

LEMMA ConfigParts ==
    ASSUME NEW c \in Seq(Seq(UsbSettings)), NEW i \in Nat
    PROVE  /\ Usb!ConfigPieces(c, i) = (ConfigOf(i) \o InterfacesOf(c, i)) \o InsideOf(c, i)
           /\ ConfigOf(i) \in Seq(UsbPieces) /\ Len(ConfigOf(i)) = 1
           /\ ConfigOf(i)[1].kind = "config"
           /\ InterfacesOf(c, i) \in Seq(UsbPieces) /\ Len(InterfacesOf(c, i)) = Len(c)
           /\ \A j \in 1 .. Len(c) : /\ InterfacesOf(c, i)[j].kind = "interface"
                                     /\ InterfacesOf(c, i)[j].at[2] = j
           /\ InsideOf(c, i) \in Seq(InInterfaces) /\ InsideOf(c, i) \in Seq(UsbPieces)
  <1> DEFINE n == Len(c)
             ss == [j \in 1 .. n |-> Usb!InterfacePieces(c[j], i, j)]
             e == InterfacesOf(c, i)
             I(j) == Usb!Piece("interface", i, j, 0, 0)
  <1>1. DOMAIN c = 1 .. n /\ n \in Nat /\ \A j \in 1 .. n : c[j] \in Seq(UsbSettings) /\ j \in Nat
    OBVIOUS
  <1>2. /\ \A j \in Nat : I(j) \in UsbPieces /\ I(j).kind = "interface" /\ I(j).at = <<i, j, 0, 0>>
        /\ Usb!Piece("config", i, 0, 0, 0) \in UsbPieces
        /\ Usb!Piece("config", i, 0, 0, 0).kind = "config"
    BY DEF Usb!Piece, UsbPieces, Kinds
  <1>3. Usb!ConfigPieces(c, i) = (ConfigOf(i) \o e) \o InsideOf(c, i)
    BY <1>1, UsbHelpers DEF Usb!ConfigPieces, ConfigOf, InterfacesOf, InsideOf
  <1>4. InsideOf(c, i) = FlattenSeq(ss)
    BY <1>1 DEF InsideOf
  <1>5. ConfigOf(i) \in Seq(UsbPieces) /\ Len(ConfigOf(i)) = 1 /\ ConfigOf(i)[1].kind = "config"
    BY <1>2 DEF ConfigOf
  <1> HIDE DEF n, I
  <1>6. e = [j \in 1 .. n |-> I(j)]
    BY DEF InterfacesOf, n, I
  <1> HIDE DEF e
  <1>7. e \in Seq(UsbPieces) /\ Len(e) = n /\ \A j \in 1 .. n : e[j] = I(j)
    BY <1>1, <1>2, <1>6
  <1>8. \A j \in 1 .. n : e[j].kind = "interface" /\ e[j].at[2] = j
    <2> SUFFICES ASSUME NEW j \in 1 .. n
                 PROVE  e[j].kind = "interface" /\ e[j].at[2] = j
      OBVIOUS
    <2>1. e[j] = I(j) /\ I(j).kind = "interface" /\ I(j).at = <<i, j, 0, 0>>
      BY <1>1, <1>2, <1>7
    <2> QED BY <2>1
  <1>9. ASSUME NEW j \in 1 .. n
        PROVE  Usb!InterfacePieces(c[j], i, j) \in Seq(InInterfaces)
    <2>1. c[j] \in Seq(UsbSettings) /\ j \in Nat /\ i \in Nat
      BY <1>1
    <2>2. Usb!InterfacePieces(c[j], i, j) \in Seq(InInterface(i, j))
      BY ONLY <2>1, InterfaceInside
    <2>3. InInterface(i, j) \subseteq InInterfaces
      BY DEF InInterface, InInterfaces
    <2> QED BY <2>2, <2>3
  <1>10. ss \in Seq(Seq(InInterfaces))
    BY <1>1, <1>9
  <1> HIDE DEF ss
  <1>11. InsideOf(c, i) \in Seq(InInterfaces)
    BY <1>4, <1>10, FlatTyped
  <1>12. InInterfaces \subseteq UsbPieces
    BY DEF InInterfaces
  <1>13. InsideOf(c, i) \in Seq(UsbPieces)
    BY <1>11, <1>12
  <1> QED BY <1>3, <1>5, <1>7, <1>8, <1>11, <1>13 DEF n, e

LEMMA RunsInConfig ==
    ASSUME NEW c \in Seq(Seq(UsbSettings)), NEW i \in Nat
    PROVE  /\ Holds(Usb!ConfigPieces(c, i), ConfigOf(i)) /\ Follows(Usb!ConfigPieces(c, i), ConfigOf(i))
           /\ Len(c) > 0 => /\ Holds(Usb!ConfigPieces(c, i), InterfacesOf(c, i))
                            /\ Follows(Usb!ConfigPieces(c, i), InterfacesOf(c, i))
  <1> DEFINE a == ConfigOf(i)
             e == InterfacesOf(c, i)
             q == InsideOf(c, i)
             p == Usb!ConfigPieces(c, i)
             n == Len(c)
  <1>1. /\ p = (a \o e) \o q /\ a \in Seq(UsbPieces) /\ Len(a) = 1 /\ a[1].kind = "config"
        /\ e \in Seq(UsbPieces) /\ Len(e) = n
        /\ \A j \in 1 .. n : e[j].kind = "interface" /\ e[j].at[2] = j
        /\ q \in Seq(InInterfaces) /\ q \in Seq(UsbPieces)
    BY ConfigParts
  <1>2. n \in Nat
    OBVIOUS
  <1> HIDE DEF a, e, q, p, n
  <1>3. a \o e \in Seq(UsbPieces) /\ (a \o e) \o q \in Seq(UsbPieces) /\ Len(a) > 0
    BY <1>1
  <1>4. Holds(a, a)
    <2>1. 1 \in 1 .. Len(a)
      BY <1>1
    <2> QED BY <2>1 DEF Holds
  <1>5. Holds((a \o e) \o q, a)
    BY <1>1, <1>3, <1>4, FollowsConcat
  <1>6. Follows(p, a)
    BY <1>1, <1>3, OneElement
  <1>7. ASSUME n > 0
        PROVE  Holds(p, e) /\ Follows(p, e)
    <2>1. /\ 1 \in 1 .. n /\ \A j \in 2 .. n : j \in 1 .. n /\ j # 1
      BY <1>2, <1>7
    <2>2. \A j \in 2 .. n : e[j] # e[1]
      <3> SUFFICES ASSUME NEW j \in 2 .. n
                   PROVE  e[j] # e[1]
        OBVIOUS
      <3>1. e[j].at[2] = j /\ e[1].at[2] = 1 /\ j # 1
        BY <1>1, <2>1
      <3> QED BY <3>1
    <2>3. Holds(e, e) /\ Follows(e, e)
      BY <1>1, <1>7, <2>2, RunItself
    <2>4. e[1].kind = "interface"
      BY <1>1, <2>1
    <2>5. a \in Seq({a[1]}) /\ e[1] \notin {a[1]}
      <3>1. \A m \in 1 .. Len(a) : a[m] \in {a[1]}
        BY <1>1
      <3>2. a \in Seq({a[1]})
        BY <1>1, <3>1, SeqOver
      <3>3. e[1] # a[1]
        BY <1>1, <2>4
      <3> QED BY <3>2, <3>3
    <2>6. e[1] \notin InInterfaces
      BY <2>4 DEF InInterfaces, Inner
    <2>7. Follows(a, e) /\ Follows(q, e)
      BY <1>1, <2>5, <2>6, NotThere
    <2>8. Len(e) > 0
      BY <1>1, <1>7
    <2>9. Holds(a \o e, e) /\ Follows(a \o e, e)
      BY <1>1, <2>3, <2>7, <2>8, FollowsConcat
    <2> QED BY <1>1, <1>3, <2>7, <2>8, <2>9, FollowsConcat
  <1> QED BY <1>1, <1>5, <1>6, <1>7 DEF a, e, p, n

\* What is in one interface follows in the configuration as it does there.
LEMMA FromInterface ==
    ASSUME NEW c \in Seq(Seq(UsbSettings)), NEW i \in Nat, NEW j \in 1 .. Len(c),
           NEW E \in Seq(UsbPieces), Len(E) > 0, E[1] \in InInterface(i, j),
           Holds(Usb!InterfacePieces(c[j], i, j), E),
           Follows(Usb!InterfacePieces(c[j], i, j), E)
    PROVE  Holds(Usb!ConfigPieces(c, i), E) /\ Follows(Usb!ConfigPieces(c, i), E)
  <1> DEFINE n == Len(c)
             a == ConfigOf(i)
             e == InterfacesOf(c, i)
             q == InsideOf(c, i)
             p == Usb!ConfigPieces(c, i)
             ss == [m \in 1 .. n |-> Usb!InterfacePieces(c[m], i, m)]
  <1>1. /\ p = (a \o e) \o q /\ a \in Seq(UsbPieces) /\ Len(a) = 1 /\ a[1].kind = "config"
        /\ e \in Seq(UsbPieces) /\ Len(e) = n /\ \A m \in 1 .. n : e[m].kind = "interface"
        /\ q \in Seq(UsbPieces)
    BY ConfigParts
  <1>2. DOMAIN c = 1 .. n /\ n \in Nat /\ \A m \in 1 .. n : c[m] \in Seq(UsbSettings) /\ m \in Nat
    OBVIOUS
  <1>3. q = FlattenSeq(ss)
    BY <1>2 DEF InsideOf
  <1>4. j \in 1 .. n
    OBVIOUS
  <1> HIDE DEF n, a, e, q, p
  <1>5. ASSUME NEW m \in 1 .. n
        PROVE  Usb!InterfacePieces(c[m], i, m) \in Seq(InInterface(i, m))
    <2>1. c[m] \in Seq(UsbSettings) /\ m \in Nat /\ i \in Nat
      BY <1>2
    <2> QED BY ONLY <2>1, InterfaceInside
  <1>6. \A m : InInterface(i, m) \subseteq UsbPieces
    BY DEF InInterface
  <1>7. \A m \in 1 .. n : Usb!InterfacePieces(c[m], i, m) \in Seq(UsbPieces)
    BY <1>5, <1>6
  <1>8. ss \in Seq(Seq(UsbPieces)) /\ Len(ss) = n
    BY <1>2, <1>7
  <1>9. \A m \in 1 .. n : ss[m] = Usb!InterfacePieces(c[m], i, m)
    OBVIOUS
  <1> HIDE DEF ss
  <1>10. ASSUME NEW m \in 1 .. n
         PROVE  Follows(ss[m], E)
    <2>1. CASE m = j
      BY <1>9, <1>10, <2>1
    <2>2. CASE m # j
      <3>1. E[1] \notin InInterface(i, m)
        BY <2>2 DEF InInterface
      <3> QED BY <1>5, <1>9, <3>1, NotThere
    <2> QED BY <2>1, <2>2
  <1>11. \E m \in 1 .. n : Holds(ss[m], E)
    BY <1>4, <1>9
  <1>12. Holds(q, E) /\ Follows(q, E)
    BY <1>3, <1>8, <1>10, <1>11, FollowsFlat
  <1>13. E[1].kind \in Inner
    BY DEF InInterface
  <1>14. /\ a \in Seq({x \in UsbPieces : x.kind = "config"})
         /\ e \in Seq({x \in UsbPieces : x.kind = "interface"})
    <2>1. \A m \in 1 .. Len(a) : a[m] \in {x \in UsbPieces : x.kind = "config"}
      <3>1. a[1] \in UsbPieces /\ \A m \in 1 .. Len(a) : m = 1
        <4>1. a \in Seq(UsbPieces) /\ Len(a) = 1 /\ 1 \in 1 .. Len(a)
          BY <1>1
        <4>2. a[1] \in UsbPieces
          BY <4>1, ElementOf
        <4> QED BY <4>1, <4>2
      <3> QED BY <1>1, <3>1
    <2>2. \A m \in 1 .. Len(e) : e[m] \in {x \in UsbPieces : x.kind = "interface"}
      <3> SUFFICES ASSUME NEW m \in 1 .. Len(e)
                   PROVE  e[m] \in UsbPieces /\ e[m].kind = "interface"
        OBVIOUS
      <3>1. e[m] \in UsbPieces
        <4>1. e \in Seq(UsbPieces) /\ m \in 1 .. Len(e)
          BY <1>1
        <4> QED BY ONLY <4>1
      <3> QED BY <1>1, <3>1
    <2> QED BY <1>1, <2>1, <2>2, SeqOver
  <1>15. /\ E[1] \notin {x \in UsbPieces : x.kind = "config"}
         /\ E[1] \notin {x \in UsbPieces : x.kind = "interface"}
    BY <1>13 DEF Inner
  <1>16. Follows(a, E) /\ Follows(e, E)
    BY <1>14, <1>15, NotThere
  <1>17. Follows(a \o e, E) /\ a \o e \in Seq(UsbPieces)
    BY <1>1, <1>16, FollowsConcat
  <1>18. Holds((a \o e) \o q, E) /\ Follows((a \o e) \o q, E)
    BY <1>1, <1>12, <1>17, FollowsConcat
  <1> QED BY <1>1, <1>18 DEF p

\* What is in the only configuration follows in the buffer as it does there.
LEMMA FromConfig ==
    ASSUME NEW d, d.configs \in UsbConfigurations, Len(d.configs) = 1,
           NEW E \in Seq(UsbPieces), Len(E) > 0, E[1].kind # "device",
           Holds(Usb!ConfigPieces(d.configs[1], 1), E),
           Follows(Usb!ConfigPieces(d.configs[1], 1), E)
    PROVE  Holds(Usb!usb_deviceinfo(d), E) /\ Follows(Usb!usb_deviceinfo(d), E)
  <1> DEFINE a == <<Usb!Piece("device", 0, 0, 0, 0)>>
             ss == [i \in DOMAIN d.configs |-> Usb!ConfigPieces(d.configs[i], i)]
             q == FlattenSeq(ss)
             p == Usb!usb_deviceinfo(d)
  <1>1. /\ a \in Seq(UsbPieces) /\ ss \in Seq(Seq(UsbPieces)) /\ Len(ss) = 1
        /\ q \in Seq(UsbPieces) /\ p = a \o q
    BY DevicePlaced
  <1>2. ss[1] = Usb!ConfigPieces(d.configs[1], 1)
    <2>1. 1 \in DOMAIN d.configs
      BY DEF UsbConfigurations
    <2> QED BY <2>1
  <1>3. a[1].kind = "device" /\ Len(a) = 1
    BY DEF Usb!Piece
  <1> HIDE DEF a, ss, p
  <1>4. Follows(a, E)
    <2>1. \A m \in 1 .. Len(a) : a[m] \in {a[1]}
      BY <1>3
    <2>2. a \in Seq({a[1]})
      BY <1>1, <2>1, SeqOver
    <2>3. E[1] \notin {a[1]}
      BY <1>3
    <2> QED BY <2>2, <2>3, NotThere
  <1>5. (\E i \in 1 .. Len(ss) : Holds(ss[i], E)) /\ \A i \in 1 .. Len(ss) : Follows(ss[i], E)
    <2>1. 1 \in 1 .. Len(ss) /\ \A i \in 1 .. Len(ss) : i = 1
      BY <1>1
    <2> QED BY <1>2, <2>1
  <1>6. Holds(q, E) /\ Follows(q, E)
    BY <1>1, <1>5, FollowsFlat
  <1> HIDE DEF q
  <1>7. Holds(a \o q, E) /\ Follows(a \o q, E)
    BY <1>1, <1>4, <1>6, FollowsConcat
  <1> QED BY <1>1, <1>7 DEF p

\* All the arrays of a device that has one configuration, and endpoints only in the
\* last settings of its interfaces.
InBuffer(d, E) == Holds(Usb!usb_deviceinfo(d), E) /\ Follows(Usb!usb_deviceinfo(d), E)

LEMMA ArraysFollow ==
    ASSUME NEW d, d.configs \in UsbConfigurations, Usb!Simple(d)
    PROVE  /\ Usb!usb_deviceinfo(d) \in Seq(UsbPieces)
           /\ d.configs[1] \in Seq(Seq(UsbSettings)) /\ Len(d.configs) = 1
           /\ InBuffer(d, ConfigOf(1))
           /\ Len(d.configs[1]) > 0 => InBuffer(d, InterfacesOf(d.configs[1], 1))
           /\ \A j \in 1 .. Len(d.configs[1]) :
                 /\ Len(d.configs[1][j]) > 0 => InBuffer(d, SettingsOf(d.configs[1][j], 1, j))
                 /\ \A k \in 1 .. Len(d.configs[1][j]) : d.configs[1][j][k].eps > 0 =>
                       /\ InBuffer(d, EndpointsOf(d.configs[1][j][k], 1, j, k))
                       /\ InBuffer(d, PipesOf(d.configs[1][j][k], 1, j, k))
  <1> DEFINE c == d.configs[1]
             p == Usb!usb_deviceinfo(d)
             cp == Usb!ConfigPieces(c, 1)
  <1>1. Len(d.configs) = 1
    BY DEF Usb!Simple
  <1>2. c \in Seq(Seq(UsbSettings)) /\ 1 \in Nat
    BY <1>1 DEF UsbConfigurations
  <1>3. \A j \in 1 .. Len(c) : /\ c[j] \in Seq(UsbSettings) /\ DOMAIN c[j] = 1 .. Len(c[j])
                               /\ j \in Nat /\ j \in DOMAIN c /\ Len(c[j]) \in Nat
    BY <1>2
  <1>4. \A j \in 1 .. Len(c) : \A k \in 1 .. Len(c[j]) :
           k < Len(c[j]) => c[j][k].eps = 0
    BY <1>3 DEF Usb!Simple
  <1>5. p \in Seq(UsbPieces)
    BY DevicePlaced
  <1> HIDE DEF c, p
  <1>6. ASSUME NEW E \in Seq(UsbPieces), Len(E) > 0, E[1].kind # "device",
               Holds(cp, E), Follows(cp, E)
        PROVE  InBuffer(d, E)
    BY <1>1, <1>6, FromConfig DEF c, p, InBuffer
  <1>7. /\ ConfigOf(1) \in Seq(UsbPieces) /\ Len(ConfigOf(1)) = 1 /\ ConfigOf(1)[1].kind = "config"
        /\ InterfacesOf(c, 1) \in Seq(UsbPieces) /\ Len(InterfacesOf(c, 1)) = Len(c)
        /\ \A j \in 1 .. Len(c) : InterfacesOf(c, 1)[j].kind = "interface"
    BY <1>2, ConfigParts
  <1>8. /\ Holds(cp, ConfigOf(1)) /\ Follows(cp, ConfigOf(1))
        /\ Len(c) > 0 => Holds(cp, InterfacesOf(c, 1)) /\ Follows(cp, InterfacesOf(c, 1))
    BY <1>2, RunsInConfig
  <1> HIDE DEF cp
  <1>9. InBuffer(d, ConfigOf(1))
    BY <1>6, <1>7, <1>8
  <1>10. Len(c) > 0 => InBuffer(d, InterfacesOf(c, 1))
    <2> SUFFICES ASSUME Len(c) > 0
                 PROVE  InBuffer(d, InterfacesOf(c, 1))
      OBVIOUS
    <2>1. 1 \in 1 .. Len(c)
      BY <1>2
    <2> QED BY <1>6, <1>7, <1>8, <2>1
  <1>11. ASSUME NEW j \in 1 .. Len(c), NEW E \in Seq(UsbPieces), Len(E) > 0,
                E[1] \in InInterface(1, j),
                Holds(Usb!InterfacePieces(c[j], 1, j), E),
                Follows(Usb!InterfacePieces(c[j], 1, j), E)
         PROVE  InBuffer(d, E)
    <2>1. Holds(cp, E) /\ Follows(cp, E)
      BY <1>2, <1>11, FromInterface DEF cp
    <2>2. E[1].kind # "device"
      BY <1>11 DEF InInterface, Inner
    <2> QED BY <1>6, <1>11, <2>1, <2>2
  <1>12. ASSUME NEW j \in 1 .. Len(c), Len(c[j]) > 0
         PROVE  InBuffer(d, SettingsOf(c[j], 1, j))
    <2> DEFINE f == c[j]
               E == SettingsOf(f, 1, j)
    <2>1. f \in Seq(UsbSettings) /\ 1 \in Nat /\ j \in Nat /\ Len(f) > 0 /\ Len(f) \in Nat
      BY <1>3, <1>12
    <2>2. \A k \in 1 .. Len(f) : k < Len(f) => f[k].eps = 0
      BY <1>4
    <2> HIDE DEF f
    <2>3. Holds(Usb!InterfacePieces(f, 1, j), E) /\ Follows(Usb!InterfacePieces(f, 1, j), E)
      BY ONLY <2>1, <2>2, SettingsRun
    <2>4. \A k \in Nat : Usb!Piece("setting", 1, j, k, 0) \in InInterface(1, j)
      BY <2>1 DEF Usb!Piece, InInterface, UsbPieces, Inner, Kinds
    <2>5. InInterface(1, j) \subseteq UsbPieces
      BY DEF InInterface
    <2>6. E \in Seq(UsbPieces) /\ Len(E) = Len(f) /\ E[1] \in InInterface(1, j)
      <3>1. \A k \in 1 .. Len(f) : Usb!Piece("setting", 1, j, k, 0) \in InInterface(1, j)
        BY <2>1, <2>4
      <3>2. 1 \in 1 .. Len(f)
        BY <2>1
      <3> QED BY <2>1, <2>5, <3>1, <3>2 DEF SettingsOf
    <2> HIDE DEF E
    <2>7. InBuffer(d, E)
      BY <1>11, <2>1, <2>3, <2>6 DEF f
    <2> QED BY <2>7 DEF E, f
  <1>13. ASSUME NEW j \in 1 .. Len(c), NEW k \in 1 .. Len(c[j]), c[j][k].eps > 0
         PROVE  InBuffer(d, EndpointsOf(c[j][k], 1, j, k)) /\ InBuffer(d, PipesOf(c[j][k], 1, j, k))
    <2> DEFINE f == c[j]
               s == f[k]
               E == EndpointsOf(s, 1, j, k)
               P == PipesOf(s, 1, j, k)
               sp == Usb!SettingPieces(s, 1, j, k)
    <2>1. /\ f \in Seq(UsbSettings) /\ k \in 1 .. Len(f) /\ s \in UsbSettings
          /\ 1 \in Nat /\ j \in Nat /\ k \in Nat /\ s.eps > 0
      BY <1>3, <1>13
    <2>2. s.eps \in Nat
      BY <2>1 DEF UsbSettings
    <2> HIDE DEF s
    <2>3. Holds(sp, E) /\ Follows(sp, E) /\ Holds(sp, P) /\ Follows(sp, P)
      BY ONLY <2>1, RunsInSetting
    <2>4. \A l \in Nat : /\ Usb!Piece("endpoint", 1, j, k, l) \in InSetting(1, j, k)
                         /\ Usb!Piece("pipe", 1, j, k, l) \in InSetting(1, j, k)
      BY <2>1, PieceInSetting
    <2>5. InSetting(1, j, k) \subseteq UsbPieces /\ InSetting(1, j, k) \subseteq InInterface(1, j)
      BY DEF InSetting, InInterface
    <2>6. \A l \in 1 .. s.eps : l \in Nat
      BY <2>2
    <2>7. 1 \in 1 .. s.eps
      BY <2>1, <2>2
    <2>8. E \in Seq(UsbPieces) /\ Len(E) > 0 /\ E[1] \in InSetting(1, j, k)
      <3>1. \A l \in 1 .. s.eps : Usb!Piece("endpoint", 1, j, k, l) \in InSetting(1, j, k)
        BY <2>4, <2>6
      <3> QED BY <2>1, <2>2, <2>5, <2>7, <3>1 DEF EndpointsOf
    <2>9. P \in Seq(UsbPieces) /\ Len(P) > 0 /\ P[1] \in InSetting(1, j, k)
      <3>1. \A l \in 1 .. s.eps : Usb!Piece("pipe", 1, j, k, l) \in InSetting(1, j, k)
        BY <2>4, <2>6
      <3> QED BY <2>1, <2>2, <2>5, <2>7, <3>1 DEF PipesOf
    <2> HIDE DEF E, P, sp, f
    <2>10. sp = Usb!SettingPieces(f[k], 1, j, k)
      BY DEF sp, s
    <2>11. ASSUME NEW F \in Seq(UsbPieces), Len(F) > 0, F[1] \in InSetting(1, j, k),
                  Holds(sp, F), Follows(sp, F)
           PROVE  InBuffer(d, F)
      <3>1. /\ Holds(Usb!InterfacePieces(f, 1, j), F)
            /\ Follows(Usb!InterfacePieces(f, 1, j), F)
        BY <2>1, <2>10, <2>11, FromSetting
      <3> QED BY <1>11, <2>5, <2>11, <3>1 DEF f
    <2>12. InBuffer(d, E) /\ InBuffer(d, P)
      BY <2>3, <2>8, <2>9, <2>11
    <2> QED BY <2>12 DEF E, P, s, f
  <1> QED BY <1>1, <1>2, <1>5, <1>9, <1>10, <1>12, <1>13 DEF c, p

\* A tool can read every array of such a device from the buffer.
LEMMA DeviceReadable ==
    ASSUME NEW d, d.configs \in UsbConfigurations, Usb!Simple(d)
    PROVE  Usb!ArraysReadable(d, Usb!usb_deviceinfo(d))
  <1> DEFINE c == d.configs[1]
             p == Usb!usb_deviceinfo(d)
  <1>1. /\ p \in Seq(UsbPieces) /\ c \in Seq(Seq(UsbSettings)) /\ Len(d.configs) = 1
        /\ InBuffer(d, ConfigOf(1))
        /\ Len(c) > 0 => InBuffer(d, InterfacesOf(c, 1))
        /\ \A j \in 1 .. Len(c) :
              /\ Len(c[j]) > 0 => InBuffer(d, SettingsOf(c[j], 1, j))
              /\ \A k \in 1 .. Len(c[j]) : c[j][k].eps > 0 =>
                    /\ InBuffer(d, EndpointsOf(c[j][k], 1, j, k))
                    /\ InBuffer(d, PipesOf(c[j][k], 1, j, k))
    BY ArraysFollow
  <1>2. d.configs \in Seq(Seq(Seq(UsbSettings)))
    BY DEF UsbConfigurations
  <1>3. DOMAIN d.configs = 1 .. 1 /\ \A i \in 1 .. 1 : i = 1
    BY <1>1, <1>2
  <1>4. /\ DOMAIN c = 1 .. Len(c) /\ Len(c) \in Nat
        /\ \A j \in 1 .. Len(c) : /\ c[j] \in Seq(UsbSettings) /\ DOMAIN c[j] = 1 .. Len(c[j])
                                  /\ j \in Nat /\ Len(c[j]) \in Nat
    BY <1>1
  <1>5. \A j \in 1 .. Len(c) : \A k \in 1 .. Len(c[j]) : k \in Nat /\ c[j][k].eps \in Nat
    <2> SUFFICES ASSUME NEW j \in 1 .. Len(c), NEW k \in 1 .. Len(c[j])
                 PROVE  k \in Nat /\ c[j][k].eps \in Nat
      OBVIOUS
    <2>1. c[j] \in Seq(UsbSettings) /\ Len(c[j]) \in Nat
      BY <1>4
    <2>2. c[j][k] \in UsbSettings
      BY <2>1
    <2> QED BY <2>1, <2>2 DEF UsbSettings
  <1> HIDE DEF c, p
  <1>6. ASSUME NEW E \in Seq(UsbPieces), NEW kd \in Kinds, Len(E) > 0,
               \A e \in 1 .. Len(E) : E[e].kind = kd, InBuffer(d, E)
        PROVE  \A e \in 1 .. Len(E) :
                  Usb!PieceAt(p, Usb!Place(p, E[1]) + (e - 1) * Usb!Size(kd)) = {E[e]}
    <2>1. Holds(p, E) /\ Follows(p, E) /\ p \in Seq(UsbPieces)
      BY <1>1, <1>6 DEF InBuffer, p
    <2>2. /\ E \in Seq(UsbPieces) /\ kd \in Kinds /\ Len(E) > 0
          /\ \A m \in 1 .. Len(E) : E[m].kind = kd
      BY <1>6
    <2> QED BY ONLY <2>1, <2>2, ReadsRun, ZenonT(30)
  <1>7. /\ \A i, j, k, l \in Nat :
              /\ Usb!Piece("config", i, j, k, l) \in UsbPieces
              /\ Usb!Piece("interface", i, j, k, l) \in UsbPieces
              /\ Usb!Piece("setting", i, j, k, l) \in UsbPieces
              /\ Usb!Piece("endpoint", i, j, k, l) \in UsbPieces
              /\ Usb!Piece("pipe", i, j, k, l) \in UsbPieces
        /\ {"config", "interface", "setting", "endpoint", "pipe"} \subseteq Kinds
        /\ 0 \in Nat /\ 1 \in Nat
    BY DEF Usb!Piece, UsbPieces, Kinds
  <1>13. \A i, j, k, l : /\ Usb!Piece("config", i, j, k, l).kind = "config"
                         /\ Usb!Piece("interface", i, j, k, l).kind = "interface"
                         /\ Usb!Piece("setting", i, j, k, l).kind = "setting"
                         /\ Usb!Piece("endpoint", i, j, k, l).kind = "endpoint"
                         /\ Usb!Piece("pipe", i, j, k, l).kind = "pipe"
    BY DEF Usb!Piece
  <1>8. \A e \in 1 .. 1 :
           Usb!PieceAt(p, Usb!Place(p, Usb!Piece("config", 1, 0, 0, 0)) + (e - 1) * Usb!Size("config"))
              = {Usb!Piece("config", e, 0, 0, 0)}
    <2> DEFINE E == ConfigOf(1)
    <2>1. /\ E \in Seq(UsbPieces) /\ Len(E) = 1 /\ E[1] = Usb!Piece("config", 1, 0, 0, 0)
          /\ E[1].kind = "config"
      BY <1>7, <1>13 DEF ConfigOf
    <2> HIDE DEF E
    <2>2. /\ \A e \in 1 .. Len(E) : E[e].kind = "config"
          /\ \A e \in 1 .. 1 : e = 1
      <3>1. \A e \in 1 .. 1 : e = 1
        OBVIOUS
      <3> QED BY <2>1, <3>1
    <2>3. InBuffer(d, E) /\ "config" \in Kinds
      BY <1>1, <1>7 DEF E
    <2>4. \A e \in 1 .. Len(E) :
             Usb!PieceAt(p, Usb!Place(p, E[1]) + (e - 1) * Usb!Size("config")) = {E[e]}
      <3>1. Len(E) > 0
        BY <2>1
      <3> QED BY <1>6, <2>1, <2>2, <2>3, <3>1
    <2> QED BY <2>1, <2>2, <2>4
  <1>9. \A e \in 1 .. Len(c) :
           Usb!PieceAt(p, Usb!Place(p, Usb!Piece("interface", 1, 1, 0, 0))
                             + (e - 1) * Usb!Size("interface"))
              = {Usb!Piece("interface", 1, e, 0, 0)}
    <2> DEFINE E == InterfacesOf(c, 1)
               P(e) == Usb!Piece("interface", 1, e, 0, 0)
               n == Len(c)
    <2>1. n \in Nat /\ \A e \in 1 .. n : P(e) \in UsbPieces /\ P(e).kind = "interface"
      BY <1>4, <1>7, <1>13
    <2>2. E = [e \in 1 .. n |-> P(e)]
      BY DEF InterfacesOf
    <2>3. n > 0 => InBuffer(d, E)
      BY <1>1
    <2> HIDE DEF E, P, n
    <2>4. E \in Seq(UsbPieces) /\ Len(E) = n /\ \A e \in 1 .. n : E[e] = P(e)
      BY <2>1, <2>2
    <2>5. \A e \in 1 .. Len(E) : E[e].kind = "interface"
      BY <2>1, <2>4
    <2>6. ASSUME NEW e \in 1 .. n
          PROVE  Usb!PieceAt(p, Usb!Place(p, P(1)) + (e - 1) * Usb!Size("interface")) = {P(e)}
      <3>1. Len(E) > 0 /\ 1 \in 1 .. n /\ InBuffer(d, E) /\ "interface" \in Kinds
        BY <1>7, <2>1, <2>3, <2>4
      <3>2. \A m \in 1 .. Len(E) :
               Usb!PieceAt(p, Usb!Place(p, E[1]) + (m - 1) * Usb!Size("interface")) = {E[m]}
        BY <1>6, <2>4, <2>5, <3>1
      <3> QED BY <2>4, <3>1, <3>2
    <2> QED BY <2>6 DEF P, n
  <1>10. \A j \in 1 .. Len(c) : \A e \in 1 .. Len(c[j]) :
            Usb!PieceAt(p, Usb!Place(p, Usb!Piece("setting", 1, j, 1, 0)) + (e - 1) * Usb!Size("setting"))
               = {Usb!Piece("setting", 1, j, e, 0)}
    <2> SUFFICES ASSUME NEW j \in 1 .. Len(c)
                 PROVE  \A e \in 1 .. Len(c[j]) :
                           Usb!PieceAt(p, Usb!Place(p, Usb!Piece("setting", 1, j, 1, 0)) + (e - 1) * Usb!Size("setting"))
                              = {Usb!Piece("setting", 1, j, e, 0)}
      OBVIOUS
    <2> DEFINE E == SettingsOf(c[j], 1, j)
               P(e) == Usb!Piece("setting", 1, j, e, 0)
               n == Len(c[j])
    <2>1. n \in Nat /\ \A e \in 1 .. n : P(e) \in UsbPieces /\ P(e).kind = "setting"
      <3>1. n \in Nat /\ j \in Nat /\ "setting" \in Kinds /\ 0 \in Nat /\ 1 \in Nat
        BY <1>4, <1>5, <1>7
      <3> HIDE DEF n
      <3>2. \A e \in 1 .. n : e \in Nat
        BY <3>1
      <3>3. ASSUME NEW e \in 1 .. n
            PROVE  P(e) \in UsbPieces /\ P(e).kind = "setting"
        <4>1. e \in Nat
          BY <3>2
        <4> QED BY <3>1, <4>1 DEF Usb!Piece, UsbPieces, Kinds
      <3> QED BY <3>1, <3>3
    <2>2. E = [e \in 1 .. n |-> P(e)]
      BY DEF SettingsOf
    <2>3. n > 0 => InBuffer(d, E)
      BY <1>1
    <2> HIDE DEF E, P, n
    <2>4. E \in Seq(UsbPieces) /\ Len(E) = n /\ \A e \in 1 .. n : E[e] = P(e)
      BY <2>1, <2>2
    <2>5. \A e \in 1 .. Len(E) : E[e].kind = "setting"
      BY <2>1, <2>4
    <2>6. ASSUME NEW e \in 1 .. n
          PROVE  Usb!PieceAt(p, Usb!Place(p, P(1)) + (e - 1) * Usb!Size("setting")) = {P(e)}
      <3>1. Len(E) > 0 /\ 1 \in 1 .. n /\ InBuffer(d, E) /\ "setting" \in Kinds
        BY <1>7, <2>1, <2>3, <2>4
      <3>2. \A m \in 1 .. Len(E) :
               Usb!PieceAt(p, Usb!Place(p, E[1]) + (m - 1) * Usb!Size("setting")) = {E[m]}
        BY <1>6, <2>4, <2>5, <3>1
      <3> QED BY <2>4, <3>1, <3>2
    <2> QED BY <2>6 DEF P, n
  <1>11. \A j \in 1 .. Len(c) : \A k \in 1 .. Len(c[j]) : \A e \in 1 .. c[j][k].eps :
            Usb!PieceAt(p, Usb!Place(p, Usb!Piece("endpoint", 1, j, k, 1)) + (e - 1) * Usb!Size("endpoint"))
               = {Usb!Piece("endpoint", 1, j, k, e)}
    <2> SUFFICES ASSUME NEW j \in 1 .. Len(c), NEW k \in 1 .. Len(c[j])
                 PROVE  \A e \in 1 .. c[j][k].eps :
                           Usb!PieceAt(p, Usb!Place(p, Usb!Piece("endpoint", 1, j, k, 1)) + (e - 1) * Usb!Size("endpoint"))
                              = {Usb!Piece("endpoint", 1, j, k, e)}
      OBVIOUS
    <2> DEFINE E == EndpointsOf(c[j][k], 1, j, k)
               P(e) == Usb!Piece("endpoint", 1, j, k, e)
               n == c[j][k].eps
    <2>1. n \in Nat /\ \A e \in 1 .. n : P(e) \in UsbPieces /\ P(e).kind = "endpoint"
      <3>1. n \in Nat /\ j \in Nat /\ k \in Nat /\ "endpoint" \in Kinds /\ 0 \in Nat /\ 1 \in Nat
        BY <1>4, <1>5, <1>7
      <3> HIDE DEF n
      <3>2. \A e \in 1 .. n : e \in Nat
        BY <3>1
      <3>3. ASSUME NEW e \in 1 .. n
            PROVE  P(e) \in UsbPieces /\ P(e).kind = "endpoint"
        <4>1. e \in Nat
          BY <3>2
        <4> QED BY <3>1, <4>1 DEF Usb!Piece, UsbPieces, Kinds
      <3> QED BY <3>1, <3>3
    <2>2. E = [e \in 1 .. n |-> P(e)]
      BY DEF EndpointsOf
    <2>3. n > 0 => InBuffer(d, E)
      BY <1>1
    <2> HIDE DEF E, P, n
    <2>4. E \in Seq(UsbPieces) /\ Len(E) = n /\ \A e \in 1 .. n : E[e] = P(e)
      BY <2>1, <2>2
    <2>5. \A e \in 1 .. Len(E) : E[e].kind = "endpoint"
      BY <2>1, <2>4
    <2>6. ASSUME NEW e \in 1 .. n
          PROVE  Usb!PieceAt(p, Usb!Place(p, P(1)) + (e - 1) * Usb!Size("endpoint")) = {P(e)}
      <3>1. Len(E) > 0 /\ 1 \in 1 .. n /\ InBuffer(d, E) /\ "endpoint" \in Kinds
        BY <1>7, <2>1, <2>3, <2>4
      <3>2. \A m \in 1 .. Len(E) :
               Usb!PieceAt(p, Usb!Place(p, E[1]) + (m - 1) * Usb!Size("endpoint")) = {E[m]}
        BY <1>6, <2>4, <2>5, <3>1
      <3> QED BY <2>4, <3>1, <3>2
    <2> QED BY <2>6 DEF P, n
  <1>12. \A j \in 1 .. Len(c) : \A k \in 1 .. Len(c[j]) : \A e \in 1 .. c[j][k].eps :
            Usb!PieceAt(p, Usb!Place(p, Usb!Piece("pipe", 1, j, k, 1)) + (e - 1) * Usb!Size("pipe"))
               = {Usb!Piece("pipe", 1, j, k, e)}
    <2> SUFFICES ASSUME NEW j \in 1 .. Len(c), NEW k \in 1 .. Len(c[j])
                 PROVE  \A e \in 1 .. c[j][k].eps :
                           Usb!PieceAt(p, Usb!Place(p, Usb!Piece("pipe", 1, j, k, 1)) + (e - 1) * Usb!Size("pipe"))
                              = {Usb!Piece("pipe", 1, j, k, e)}
      OBVIOUS
    <2> DEFINE E == PipesOf(c[j][k], 1, j, k)
               P(e) == Usb!Piece("pipe", 1, j, k, e)
               n == c[j][k].eps
    <2>1. n \in Nat /\ \A e \in 1 .. n : P(e) \in UsbPieces /\ P(e).kind = "pipe"
      <3>1. n \in Nat /\ j \in Nat /\ k \in Nat /\ "pipe" \in Kinds /\ 0 \in Nat /\ 1 \in Nat
        BY <1>4, <1>5, <1>7
      <3> HIDE DEF n
      <3>2. \A e \in 1 .. n : e \in Nat
        BY <3>1
      <3>3. ASSUME NEW e \in 1 .. n
            PROVE  P(e) \in UsbPieces /\ P(e).kind = "pipe"
        <4>1. e \in Nat
          BY <3>2
        <4> QED BY <3>1, <4>1 DEF Usb!Piece, UsbPieces, Kinds
      <3> QED BY <3>1, <3>3
    <2>2. E = [e \in 1 .. n |-> P(e)]
      BY DEF PipesOf
    <2>3. n > 0 => InBuffer(d, E)
      BY <1>1
    <2> HIDE DEF E, P, n
    <2>4. E \in Seq(UsbPieces) /\ Len(E) = n /\ \A e \in 1 .. n : E[e] = P(e)
      BY <2>1, <2>2
    <2>5. \A e \in 1 .. Len(E) : E[e].kind = "pipe"
      BY <2>1, <2>4
    <2>6. ASSUME NEW e \in 1 .. n
          PROVE  Usb!PieceAt(p, Usb!Place(p, P(1)) + (e - 1) * Usb!Size("pipe")) = {P(e)}
      <3>1. Len(E) > 0 /\ 1 \in 1 .. n /\ InBuffer(d, E) /\ "pipe" \in Kinds
        BY <1>7, <2>1, <2>3, <2>4
      <3>2. \A m \in 1 .. Len(E) :
               Usb!PieceAt(p, Usb!Place(p, E[1]) + (m - 1) * Usb!Size("pipe")) = {E[m]}
        BY <1>6, <2>4, <2>5, <3>1
      <3> QED BY <2>4, <3>1, <3>2
    <2> QED BY <2>6 DEF P, n
  <1>15. d.configs[1] = c /\ Len(d.configs) = 1
    BY <1>1 DEF c
  <1>16. /\ \A i \in DOMAIN d.configs : i = 1
         /\ DOMAIN d.configs[1] = 1 .. Len(c)
         /\ \A j \in 1 .. Len(c) : DOMAIN c[j] = 1 .. Len(c[j])
    BY <1>3, <1>4, <1>15
  <1> QED BY <1>8, <1>9, <1>10, <1>11, <1>12, <1>13, <1>15, <1>16, SMTT(30)
      DEF Usb!ArraysReadable, p

-----------------------------------------------------------------------------
(* The USB cable: the buffer for the descriptors *)

\* A registration leaves a device on the busses, or the one found before.
LEMMA FoundOnBus ==
    ASSUME NEW table \in Tables, NEW before
    PROVE  Usb!Found(table, before) \in DOMAIN BusDevices \cup {before}
  <1> DEFINE Hits(e) == {n \in DOMAIN BusDevices : Usb!Matches(BusDevices[n], table[e])}
             LastOf(S) == CHOOSE n \in S : \A m \in S : m <= n
             entries == {e \in DOMAIN table : Hits(e) # {}}
  <1>1. /\ Usb!Found(table, before) = IF entries = {} THEN before ELSE LastOf(Hits(LastOf(entries)))
        /\ \A e : Hits(e) \subseteq DOMAIN BusDevices
        /\ \A e \in entries : Hits(e) # {}
    BY DEF Usb!Found
  <1>2. ASSUME NEW m \in Nat, NEW S \in SUBSET (1 .. m), S # {}
        PROVE  LastOf(S) \in S
    <2>1. S \in SUBSET (0 .. m)
      OBVIOUS
    <2>2. \E x \in S : \A y \in S : y <= x
      BY <1>2, <2>1, GreatestExists
    <2> QED BY <2>2
  <1>3. DOMAIN BusDevices = 1 .. Len(BusDevices) /\ Len(BusDevices) \in Nat
    BY CableAssumption
  <1>4. DOMAIN table = 1 .. Len(table) /\ Len(table) \in Nat
    BY CableAssumption
  <1>5. entries \subseteq DOMAIN table
    OBVIOUS
  <1> HIDE DEF Hits, LastOf, entries
  <1>6. CASE entries = {}
    BY <1>1, <1>6
  <1>7. CASE entries # {}
    <2>1. LastOf(entries) \in entries
      BY <1>2, <1>4, <1>5, <1>7
    <2>2. Hits(LastOf(entries)) # {} /\ Hits(LastOf(entries)) \subseteq DOMAIN BusDevices
      BY <1>1, <2>1
    <2>3. LastOf(Hits(LastOf(entries))) \in Hits(LastOf(entries))
      BY <1>2, <1>3, <2>2
    <2> QED BY <1>1, <1>7, <2>2, <2>3
  <1> QED BY <1>6, <1>7

-----------------------------------------------------------------------------
(* The kernel module: the buffer for descriptors *)

LEMMA InfoSum == \A s : Info!Sum(s) = Sum(s)
  BY DEF Info!Sum, Sum, Info!Sums, Sums

InfoSettings == [alt : Nat, eps : Nat]

InfoInterfaces == [num : Nat, alts : Seq(InfoSettings) \ {<<>>}]

LEMMA TwoProducts ==
    ASSUME NEW a \in Nat, NEW b \in Nat, NEW n \in Nat
    PROVE  /\ a * n \in Nat /\ (a + b) * n = a * n + b * n
           /\ a <= b => a * n <= b * n
  <1>1. \A m \in Nat : m * n \in Nat
    OBVIOUS
  <1>2. (a + b) * n = a * n + b * n
    OBVIOUS
  <1>3. ASSUME a <= b
        PROVE  a * n <= b * n
    <2>1. b - a \in Nat /\ b = a + (b - a)
      BY <1>3
    <2> DEFINE c == b - a
    <2> HIDE DEF c
    <2>2. c \in Nat /\ b = a + c
      BY <2>1 DEF c
    <2>3. b * n = a * n + c * n
      BY <2>2
    <2>4. a * n \in Nat /\ c * n \in Nat /\ b * n \in Nat
      BY <1>1, <2>2
    <2> QED BY <2>3, <2>4
  <1> QED BY <1>1, <1>2, <1>3

LEMMA SettingSize ==
    ASSUME NEW s \in InfoSettings
    PROVE  LET m == DescriptorSizes.endpoint * s.eps + DescriptorSizes.pipe * s.eps
           IN  /\ m \in Nat /\ Info!SettingBytes(s) \in Nat
               /\ Info!SettingBytes(s) = DescriptorSizes.setting + m
               /\ DescriptorSizes.setting + (DescriptorSizes.endpoint + DescriptorSizes.pointer) * s.eps
                    <= Info!SettingBytes(s)
  <1> DEFINE e == DescriptorSizes.endpoint
             p == DescriptorSizes.pipe
             q == DescriptorSizes.pointer
             t == DescriptorSizes.setting
             n == s.eps
  <1>1. e \in Nat /\ p \in Nat /\ q \in Nat /\ t \in Nat /\ n \in Nat /\ q <= p
    BY CableAssumption DEF Structures, InfoSettings
  <1>2. Info!SettingBytes(s) = t + (e + p) * n
    BY DEF Info!SettingBytes
  <1> HIDE DEF e, p, q, t, n
  <1>3. e * n \in Nat /\ p * n \in Nat /\ q * n \in Nat /\ q * n <= p * n
    BY <1>1, TwoProducts
  <1>4. (e + p) * n = e * n + p * n /\ (e + q) * n = e * n + q * n
    BY <1>1, TwoProducts
  <1>5. /\ e * n + p * n \in Nat /\ t + (e + p) * n \in Nat
        /\ t + (e + p) * n = t + (e * n + p * n)
        /\ t + (e + q) * n <= t + (e + p) * n
    BY <1>1, <1>3, <1>4
  <1> QED BY <1>2, <1>5 DEF e, p, q, t, n

LEMMA InterfaceSize ==
    ASSUME NEW f \in InfoInterfaces
    PROVE  Info!InterfaceBytes(f) = Info!InterfaceTaken(f) /\ Info!InterfaceBytes(f) \in Nat
  <1> DEFINE a == f.alts
             N == Nat
             s == [k \in DOMAIN a |-> DescriptorSizes.endpoint * a[k].eps + DescriptorSizes.pipe * a[k].eps]
             t == [k \in DOMAIN a |-> Info!SettingBytes(a[k])]
             z == DescriptorSizes.setting
  <1>1. a \in Seq(InfoSettings)
    BY DEF InfoInterfaces
  <1>2. Info!InterfaceBytes(f) = Sum(t) /\ Info!InterfaceTaken(f) = z * Len(a) + Sum(s)
    BY InfoSum DEF Info!InterfaceBytes, Info!InterfaceTaken
  <1>z. z \in Nat
    BY CableAssumption DEF Structures
  <1> HIDE DEF a, z
  <1>3. DOMAIN a = 1 .. Len(a) /\ Len(a) \in Nat
    BY <1>1
  <1>4. \A k \in 1 .. Len(a) : a[k] \in InfoSettings
    BY <1>1
  <1>5. \A k \in 1 .. Len(a) : s[k] \in N /\ t[k] \in N /\ t[k] = z + s[k]
    BY <1>3, <1>4, SettingSize DEF z
  <1>6. /\ s \in Seq(N) /\ t \in Seq(N) /\ Len(s) = Len(a) /\ Len(t) = Len(a)
    BY <1>3, <1>5
  <1> HIDE DEF s, t
  <1>7. Sum(t) = z * Len(s) + Sum(s) /\ Sum(t) \in Nat
    <2>1. /\ s \in Seq(N) /\ t \in Seq(N) /\ Len(t) = Len(s)
          /\ \A k \in 1 .. Len(s) : t[k] = z + s[k]
      BY <1>5, <1>6
    <2>2. Sum(t) = z * Len(s) + Sum(s)
      BY ONLY <1>z, <2>1, SumPlus DEF N
    <2>3. Sum(t) \in Nat
      BY ONLY <2>1, SumsTyped DEF N
    <2> QED BY <2>2, <2>3
  <1> QED BY <1>2, <1>6, <1>7

LEMMA ConfigurationSize ==
    ASSUME NEW c, c.ifs \in Seq(InfoInterfaces)
    PROVE  /\ Info!ConfigBytes(c) = DescriptorSizes.config + Info!ConfigTaken(c)
           /\ Info!ConfigBytes(c) \in Nat /\ Info!ConfigTaken(c) \in Nat
  <1> DEFINE a == c.ifs
             N == Nat
             s == [j \in DOMAIN a |-> Info!InterfaceBytes(a[j])]
             t == [j \in DOMAIN a |-> Info!InterfaceTaken(a[j])]
             u == DescriptorSizes.config
             v == DescriptorSizes.interface * Len(a)
  <1>1. /\ Info!ConfigBytes(c) = u + v + Sum(s) /\ Info!ConfigTaken(c) = v + Sum(t)
    BY InfoSum DEF Info!ConfigBytes, Info!ConfigTaken
  <1>2. a \in Seq(InfoInterfaces)
    OBVIOUS
  <1> HIDE DEF a
  <1>3. DOMAIN a = 1 .. Len(a) /\ Len(a) \in Nat /\ \A j \in 1 .. Len(a) : a[j] \in InfoInterfaces
    BY <1>2
  <1>4. s = t /\ \A j \in 1 .. Len(a) : s[j] \in N
    BY <1>3, InterfaceSize
  <1>5. s \in Seq(N)
    BY <1>3, <1>4
  <1>6. u \in Nat /\ v \in Nat
    <2>1. u \in Nat /\ DescriptorSizes.interface \in Nat
      BY CableAssumption DEF Structures
    <2> QED BY <1>3, <2>1, TwoProducts
  <1> HIDE DEF s, t, u, v
  <1>7. Sum(s) \in Nat
    BY <1>5, SumsTyped DEF N
  <1> QED BY <1>1, <1>4, <1>6, <1>7 DEF u

\* The size that is computed is what is taken.
LEMMA SizeIsTaken ==
    ASSUME NEW d \in InfoDevices
    PROVE  Info!calc_device_info_size(d) = Info!Taken(d) /\ Info!Taken(d) \in Nat
  <1> DEFINE N == Nat
             s == [i \in DOMAIN d |-> Info!ConfigTaken(d[i])]
             t == [i \in DOMAIN d |-> Info!ConfigBytes(d[i])]
             u == DescriptorSizes.device
             v == DescriptorSizes.config
  <1>1. /\ Info!calc_device_info_size(d) = u + Sum(t)
        /\ Info!Taken(d) = u + v * Len(d) + Sum(s)
    BY InfoSum DEF Info!calc_device_info_size, Info!Taken
  <1>2. DOMAIN d = 1 .. Len(d) /\ Len(d) \in Nat /\ \A i \in 1 .. Len(d) : d[i] \in Configurations
    BY CableAssumption
  <1>3. \A e \in Configurations : e.ifs \in Seq(InfoInterfaces)
    BY DEF Configurations, InfoInterfaces, InfoSettings
  <1>4. \A i \in 1 .. Len(d) : s[i] \in N /\ t[i] \in N /\ t[i] = v + s[i]
    BY <1>2, <1>3, ConfigurationSize
  <1>5. s \in Seq(N) /\ t \in Seq(N) /\ Len(s) = Len(d) /\ Len(t) = Len(d)
    BY <1>2, <1>4
  <1>6. u \in Nat /\ v \in Nat
    BY CableAssumption DEF Structures
  <1> HIDE DEF s, t, u, v
  <1>7. Sum(t) = v * Len(s) + Sum(s) /\ Sum(t) \in Nat /\ Sum(s) \in Nat
    <2>1. /\ s \in Seq(N) /\ t \in Seq(N) /\ Len(t) = Len(s)
          /\ \A i \in 1 .. Len(s) : t[i] = v + s[i]
      BY <1>4, <1>5
    <2>2. Sum(t) = v * Len(s) + Sum(s)
      BY ONLY <1>6, <2>1, SumPlus DEF N
    <2>3. Sum(t) \in Nat /\ Sum(s) \in Nat
      BY ONLY <2>1, SumsTyped DEF N
    <2> QED BY <2>2, <2>3
  <1>8. v * Len(d) \in Nat
    BY <1>2, <1>6, TwoProducts
  <1> QED BY <1>1, <1>5, <1>6, <1>7, <1>8

-----------------------------------------------------------------------------
(* The kernel module: scatter lists *)

\* The buffer begins in its first page and ends in the last of those counted.
LEMMA PageNumbers ==
    ASSUME NEW b \in Nat, NEW s \in Nat \ {0}
    PROVE  LET q == Kernel!PageOf(b)
               r == b % KernelPage
               n == Kernel!PAGE_COUNT(b, s)
           IN  /\ q \in Nat /\ q * KernelPage \in Nat /\ r \in Nat /\ r < KernelPage
               /\ b = q * KernelPage + r
               /\ n \in Nat \ {0} /\ (n - 1) * KernelPage \in Nat
               /\ (n - 1) * KernelPage < r + s /\ r + s <= (n - 1) * KernelPage + KernelPage
  <1> DEFINE P == KernelPage
             q == b \div P
             r == b % P
             m == r + s + P - 1
             n == m \div P
  <1>0. P \in Nat \ {0}
    BY CableAssumption
  <1>d. Kernel!PageOf(b) = q /\ Kernel!PAGE_COUNT(b, s) = n
    BY DEF Kernel!PageOf, Kernel!PAGE_COUNT
  <1> HIDE DEF P
  <1>1. q \in Nat /\ r \in Nat /\ r < P /\ b = q * P + r /\ q * P \in Nat
    BY <1>0
  <1> HIDE DEF q, r
  <1>2. m \in Nat /\ m >= P
    BY <1>0, <1>1
  <1>m. m = r + s + P - 1
    OBVIOUS
  <1> HIDE DEF m
  <1>3. n \in Nat /\ n * P <= m /\ m < n * P + P
    BY <1>0, <1>2, DivBounds
  <1> HIDE DEF n
  <1>4. n # 0
    <2>1. 0 * P = 0
      BY <1>0
    <2> QED BY <1>0, <1>2, <1>3, <2>1
  <1> DEFINE k == n - 1
  <1>5. k \in Nat /\ n = k + 1
    BY <1>3, <1>4
  <1> HIDE DEF k
  <1>6. n * P = k * P + P /\ k * P \in Nat
    BY <1>0, <1>5
  <1>7. k * P < r + s /\ r + s <= k * P + P
    BY <1>0, <1>1, <1>3, <1>6, <1>m
  <1> QED BY <1>d, <1>1, <1>3, <1>4, <1>6, <1>7 DEF k, P, r

\* The first byte of a piece and the one behind it: a piece begins at its page or at the
\* buffer, and ends at the next page or with the buffer.
FirstOf(b, s, j) == Kernel!Pieces(b, s)[j].page * KernelPage + Kernel!Pieces(b, s)[j].offset

LengthOf(b, s, j) == Kernel!Pieces(b, s)[j].length

PageAt(b, j) == (Kernel!PageOf(b) + j - 1) * KernelPage

LEMMA PieceSpan ==
    ASSUME NEW b \in Nat, NEW s \in Nat \ {0}, NEW j \in 1 .. Kernel!PAGE_COUNT(b, s)
    PROVE  /\ PageAt(b, j) \in Nat /\ FirstOf(b, s, j) \in Nat /\ LengthOf(b, s, j) \in Int
           /\ FirstOf(b, s, j) = IF j = 1 THEN b ELSE PageAt(b, j)
           /\ j # 1 => b <= PageAt(b, j)
           /\ FirstOf(b, s, j) + LengthOf(b, s, j)
                = IF PageAt(b, j) + KernelPage < b + s THEN PageAt(b, j) + KernelPage ELSE b + s
           /\ Kernel!Pieces(b, s)[j].offset + LengthOf(b, s, j) <= KernelPage
  <1> DEFINE P == KernelPage
             q == Kernel!PageOf(b)
             r == b % KernelPage
             n == Kernel!PAGE_COUNT(b, s)
             x == Kernel!Pieces(b, s)[j]
             rest == s - (P - r) - (j - 2) * P
             Q == q * P
             J == (j - 1) * P
             N == (n - 1) * P
  <1>0. P \in Nat \ {0}
    BY CableAssumption
  <1>1. /\ q \in Nat /\ Q \in Nat /\ r \in Nat /\ r < P /\ b = Q + r
        /\ n \in Nat \ {0} /\ N \in Nat /\ N < r + s /\ r + s <= N + P
    BY PageNumbers
  <1>2. /\ x.page = q + j - 1
        /\ x.offset = IF j = 1 THEN r ELSE 0
        /\ x.length = IF n = 1 THEN s ELSE IF j = 1 THEN P - r
                      ELSE IF rest < P THEN rest ELSE P
    BY DEF Kernel!Pieces
  <1>3. FirstOf(b, s, j) = x.page * P + x.offset /\ LengthOf(b, s, j) = x.length
        /\ PageAt(b, j) = (q + j - 1) * P
    BY DEF FirstOf, LengthOf, PageAt
  <1>j. j \in Nat /\ 1 <= j /\ j <= n
    BY <1>1
  <1> HIDE DEF P, q, r, n, x
  <1>4. /\ (q + j - 1) * P = Q + J /\ J \in Nat
        /\ j # 1 => P <= J
        /\ rest = s - (P - r) - (J - P)
    <2> DEFINE k == j - 1
    <2>1. k \in Nat /\ q + j - 1 = q + k /\ j - 2 = k - 1
      BY <1>1, <1>j
    <2> HIDE DEF k
    <2>2. (q + k) * P = q * P + k * P /\ k * P \in Nat
      BY <1>0, <1>1, <2>1
    <2>3. (k - 1) * P = k * P - P
      BY <1>0, <2>1
    <2>4. k # 0 => P <= k * P
      <3>1. k # 0 => 1 * P <= k * P
        BY <1>0, <2>1, TimesMonotone
      <3> QED BY <1>0, <3>1
    <2>5. j # 1 => k # 0
      BY <1>j DEF k
    <2> QED BY <2>1, <2>2, <2>3, <2>4, <2>5 DEF k
  <1>5. J <= N /\ (n # 1 => P <= N) /\ (n = 1 => N = 0)
    <2>1. J <= N
      BY <1>0, <1>1, <1>j, TimesMonotone
    <2>2. n # 1 => 1 * P <= N
      BY <1>0, <1>1, TimesMonotone
    <2>3. n = 1 => N = 0
      BY <1>0
    <2> QED BY <1>0, <2>1, <2>2, <2>3
  <1>6. j = 1 => J = 0
    BY <1>0
  <1> DEFINE f == FirstOf(b, s, j)
             l == LengthOf(b, s, j)
             o == Kernel!Pieces(b, s)[j].offset
  <1>7. /\ f = Q + J + o /\ PageAt(b, j) = Q + J
        /\ o = IF j = 1 THEN r ELSE 0
        /\ l = IF n = 1 THEN s ELSE IF j = 1 THEN P - r ELSE IF rest < P THEN rest ELSE P
    <2>1. x.page * P = Q + J /\ x.offset = o
      BY <1>2, <1>4 DEF x
    <2> QED BY <1>2, <1>3, <1>4, <2>1
  <1> HIDE DEF J, N, Q, rest, f, l, o
  <1> DEFINE e == IF Q + J + P < b + s THEN Q + J + P ELSE b + s
  <1>8. /\ f \in Nat /\ l \in Int
        /\ f = IF j = 1 THEN b ELSE Q + J
        /\ j # 1 => b <= Q + J
        /\ f + l = e
        /\ o + l <= P
    <2>1. CASE n = 1
      BY ONLY <1>0, <1>1, <1>j, <1>4, <1>5, <1>6, <1>7, <2>1, b \in Nat, s \in Nat \ {0}
    <2>2. CASE n # 1 /\ j = 1
      BY ONLY <1>0, <1>1, <1>j, <1>4, <1>5, <1>6, <1>7, <2>2, b \in Nat, s \in Nat \ {0}
    <2>3. CASE n # 1 /\ j # 1
      BY ONLY <1>0, <1>1, <1>j, <1>4, <1>5, <1>6, <1>7, <2>3, b \in Nat, s \in Nat \ {0}
    <2> QED BY <2>1, <2>2, <2>3
  <1> QED BY <1>1, <1>4, <1>7, <1>8 DEF P, f, l, o

\* Every byte of the buffer is in the piece of its page, and the pieces hold nothing else.
LEMMA PiecesCover ==
    ASSUME NEW b \in Nat, NEW s \in Nat \ {0}
    PROVE  UNION {{FirstOf(b, s, j) + k : k \in 0 .. LengthOf(b, s, j) - 1} :
                     j \in 1 .. Kernel!PAGE_COUNT(b, s)} = b .. b + s - 1
  <1> DEFINE n == Kernel!PAGE_COUNT(b, s)
             q == Kernel!PageOf(b)
             a(j) == FirstOf(b, s, j)
             l(j) == LengthOf(b, s, j)
             B(j) == {a(j) + k : k \in 0 .. l(j) - 1}
             P == KernelPage
  <1>0. P \in Nat \ {0} /\ n \in Nat \ {0} /\ q \in Nat
    BY PageNumbers, CableAssumption
  <1>1. ASSUME NEW j \in 1 .. n
        PROVE  /\ PageAt(b, j) \in Nat /\ a(j) \in Nat /\ l(j) \in Int
               /\ a(j) = IF j = 1 THEN b ELSE PageAt(b, j)
               /\ j # 1 => b <= PageAt(b, j)
               /\ a(j) + l(j) = IF PageAt(b, j) + P < b + s THEN PageAt(b, j) + P ELSE b + s
    BY PieceSpan
  <1> HIDE DEF a, l, P
  <1>2. ASSUME NEW j \in 1 .. n, NEW y \in B(j)
        PROVE  y \in b .. b + s - 1
    <2>1. PICK k \in 0 .. l(j) - 1 : y = a(j) + k
      OBVIOUS
    <2>2. k \in Int /\ 0 <= k /\ k <= l(j) - 1
      BY <1>1
    <2> QED BY <1>0, <1>1, <2>1, <2>2
  <1>3. ASSUME NEW y \in b .. b + s - 1
        PROVE  \E j \in 1 .. n : y \in B(j)
    <2> DEFINE p == y \div KernelPage
               j == p - q + 1
               N == (n - 1) * KernelPage
               Q == q * KernelPage
    <2>1. p \in Nat /\ p * P <= y /\ y < p * P + P
      BY <1>0, DivBounds DEF P
    <2>2. q <= p
      BY <1>0, DivMonotone DEF P, Kernel!PageOf
    <2>3. p <= q + (n - 1)
      <3>1. b = Q + (b % KernelPage) /\ (b % KernelPage) + s <= N + KernelPage
            /\ Q \in Nat /\ N \in Nat /\ (b % KernelPage) \in Nat
        BY PageNumbers
      <3>2. (q + (n - 1)) * P = Q + N
        <4> DEFINE m == n - 1
        <4>1. m \in Nat
          BY <1>0
        <4> HIDE DEF m
        <4>2. (q + m) * P = q * P + m * P
          BY <1>0, <4>1
        <4> QED BY <4>2 DEF m, P
      <3>3. p * P < (q + (n - 1)) * P + P
        <4> HIDE DEF N, Q, p
        <4>1. p * P \in Nat
          BY <1>0, <2>1
        <4> QED BY <1>0, <2>1, <3>1, <3>2, <4>1 DEF P
      <3> HIDE DEF p
      <3> QED BY <1>0, <2>1, <3>3, TimesCancels
    <2> HIDE DEF p
    <2>4. j \in 1 .. n /\ q + j - 1 = p
      BY <1>0, <2>1, <2>2, <2>3
    <2>5. PageAt(b, j) = p * P
      BY <2>4 DEF PageAt, P
    <2> HIDE DEF j
    <2>6. p * P \in Nat
      BY <1>0, <2>1
    <2>7. y - a(j) \in 0 .. l(j) - 1
      BY <1>0, <1>1, <2>1, <2>4, <2>5, <2>6
    <2>8. y = a(j) + (y - a(j))
      BY <1>1, <2>4
    <2> QED BY <2>4, <2>7, <2>8
  <1> HIDE DEF B
  <1>4. UNION {B(j) : j \in 1 .. n} = b .. b + s - 1
    BY <1>2, <1>3
  <1> QED BY <1>4 DEF B, a, l

-----------------------------------------------------------------------------
(* Firmware files and batches as the proofs read them *)

\* Bytes of firmware files, and segments of them.
FileBytes == [loader : BOOLEAN, rec : Nat, pos : Nat]
Segments == [addr : Nat, data : Seq(FileBytes), first : BOOLEAN]

\* fxload: SegOf(f)[k] is the segment that is gathered after k lines of the file f, if
\* what has to be written is written before the next record is added.
Parted(s, rec) ==
    /\ s.data # <<>>
    /\ rec.off # s.addr + Len(s.data) \/ Len(s.data) + rec.len > HexBufSize

Opened(s, rec) == IF Parted(s, rec) THEN [addr |-> rec.off, data |-> <<>>, first |-> FALSE] ELSE s
RecBytes(f, k) == [j \in 1 .. f[k].len |-> Hex!FileByte(k, j)]
Extended(s, f, k) == [addr |-> IF s.first THEN f[k].off ELSE s.addr, first |-> FALSE,
                      data |-> s.data \o RecBytes(f, k)]
After(s, f, k) == IF Hex!Data(f[k]) THEN Extended(Opened(s, f[k]), f, k) ELSE s
SegOf(f) == LET s[k \in 0 .. Len(f)] == IF k = 0 THEN Hex!Empty ELSE After(s[k - 1], f, k)
            IN  s

\* The file ends after k lines; its segment after k lines is one that is written.
Ends(f, k) == Hex!BeforeEof(f, k) /\ (k < Len(f) => f[k + 1].kind = "eof")

Flushes(f, k) ==
    /\ k \in 1 .. Len(f) /\ Hex!BeforeEof(f, k) /\ SegOf(f)[k].data # <<>>
    /\ Ends(f, k) \/ (Hex!Data(f[k + 1]) /\ Parted(SegOf(f)[k], f[k + 1]))

\* The pins that bytes of a batch can set.
PinValues == {Pins(v) : v \in Values}

-----------------------------------------------------------------------------
(* fxload: the segments of a file *)

Gathers(f, n, s) == s = [k \in 0 .. n |-> IF k = 0 THEN Hex!Empty ELSE After(s[k - 1], f, k)]

LEMMA GathersOn ==
    ASSUME NEW f, NEW n \in Nat, n # 0, NEW s, Gathers(f, n - 1, s)
    PROVE  \E t : Gathers(f, n, t)
  <1> DEFINE t == [k \in 0 .. n |-> IF k = n THEN After(s[n - 1], f, n) ELSE s[k]]
  <1>1. \A k \in 0 .. n - 1 : s[k] = IF k = 0 THEN Hex!Empty ELSE After(s[k - 1], f, k)
    BY DEF Gathers
  <1>2. n \in 0 .. n /\ n - 1 \in 0 .. n /\ n - 1 # n
    OBVIOUS
  <1>3. t[n] = After(s[n - 1], f, n)
    BY <1>2
  <1>4. \A k \in 0 .. n : k # n => t[k] = s[k] /\ k \in 0 .. n - 1 /\ (k # 0 => k - 1 \in 0 .. n /\ k - 1 # n)
    OBVIOUS
  <1>5. t[n - 1] = s[n - 1]
    BY <1>2, <1>4
  <1>6. t = [k \in 0 .. n |-> t[k]]
    OBVIOUS
  <1> HIDE DEF t
  <1>7. \A k \in 0 .. n : t[k] = IF k = 0 THEN Hex!Empty ELSE After(t[k - 1], f, k)
    <2> SUFFICES ASSUME NEW k \in 0 .. n
                 PROVE  t[k] = IF k = 0 THEN Hex!Empty ELSE After(t[k - 1], f, k)
      OBVIOUS
    <2>1. CASE k = n
      BY <1>3, <1>5, <2>1
    <2>2. CASE k # n
      <3>1. t[k] = s[k] /\ k \in 0 .. n - 1
        BY <1>4, <2>2
      <3>2. k # 0 => t[k - 1] = s[k - 1]
        BY <1>4, <2>2
      <3> QED BY <1>1, <3>1, <3>2
    <2> QED BY <2>1, <2>2
  <1>8. Gathers(f, n, t)
    BY <1>6, <1>7 DEF Gathers
  <1> QED BY <1>8

\* SegOf is what its equations say.
LEMMA SegmentsExist ==
    ASSUME NEW f, Len(f) \in Nat
    PROVE  /\ SegOf(f)[0] = Hex!Empty
           /\ \A k \in 1 .. Len(f) : SegOf(f)[k] = After(SegOf(f)[k - 1], f, k)
  <1> DEFINE T == {k \in Nat : \E s : Gathers(f, k, s)}
             n == Len(f)
  <1>1. 0 \in T
    <2> DEFINE s == [k \in 0 .. 0 |-> Hex!Empty]
    <2>1. Gathers(f, 0, s)
      BY DEF Gathers
    <2> QED BY <2>1
  <1>2. \A k \in 1 .. n : k - 1 \in T => k \in T
    <2> SUFFICES ASSUME NEW k \in 1 .. n, k - 1 \in T
                 PROVE  k \in T
      OBVIOUS
    <2>1. PICK s : Gathers(f, k - 1, s)
      OBVIOUS
    <2>2. k \in Nat /\ k # 0
      OBVIOUS
    <2> QED BY <2>1, <2>2, GathersOn
  <1>3. n \in T
    <2> HIDE DEF T
    <2>1. n \in Nat /\ n \in 0 .. n
      OBVIOUS
    <2> QED BY <1>1, <1>2, <2>1, UpTo
  <1>4. SegOf(f) = CHOOSE s : Gathers(f, n, s)
    BY DEF SegOf, Gathers
  <1>5. Gathers(f, n, SegOf(f))
    BY <1>3, <1>4
  <1>6. \A k \in 0 .. n : SegOf(f)[k] = IF k = 0 THEN Hex!Empty ELSE After(SegOf(f)[k - 1], f, k)
    BY <1>5 DEF Gathers
  <1> QED BY <1>6

LEMMA AfterTyped ==
    ASSUME NEW s \in Segments, NEW f \in Seq(HexRecords), NEW k \in 1 .. Len(f)
    PROVE  /\ After(s, f, k) \in Segments
           /\ Opened(s, f[k]) \in Segments
           /\ f[k].off \in Nat /\ f[k].len \in Nat
           /\ RecBytes(f, k) \in Seq(FileBytes) /\ Len(RecBytes(f, k)) = f[k].len
           /\ \A j \in 1 .. f[k].len : RecBytes(f, k)[j] = Hex!FileByte(k, j)
  <1>1. f[k] \in HexRecords
    OBVIOUS
  <1>2. f[k].off \in Nat /\ f[k].len \in Nat
    BY <1>1 DEF HexRecords
  <1>3. \A j \in 1 .. f[k].len : Hex!FileByte(k, j) \in FileBytes
    BY DEF Hex!FileByte, FileBytes
  <1>4. /\ RecBytes(f, k) \in Seq(FileBytes) /\ Len(RecBytes(f, k)) = f[k].len
        /\ \A j \in 1 .. f[k].len : RecBytes(f, k)[j] = Hex!FileByte(k, j)
    BY <1>2, <1>3 DEF RecBytes
  <1>5. Opened(s, f[k]) \in Segments
    <2>1. <<>> \in Seq(FileBytes)
      OBVIOUS
    <2> QED BY <1>2, <2>1 DEF Opened, Segments
  <1>6. \A t \in Segments : Extended(t, f, k) \in Segments
    <2> SUFFICES ASSUME NEW t \in Segments
                 PROVE  Extended(t, f, k) \in Segments
      OBVIOUS
    <2>1. t.addr \in Nat /\ t.data \in Seq(FileBytes)
      BY DEF Segments
    <2>2. t.data \o RecBytes(f, k) \in Seq(FileBytes)
      BY ONLY <1>4, <2>1, Joined
    <2> QED BY <1>2, <2>1, <2>2 DEF Extended, Segments
  <1> QED BY <1>2, <1>4, <1>5, <1>6 DEF After

LEMMA SegmentsTyped ==
    ASSUME NEW f \in Seq(HexRecords)
    PROVE  \A k \in 0 .. Len(f) : SegOf(f)[k] \in Segments
  <1> DEFINE T == {k \in 0 .. Len(f) : SegOf(f)[k] \in Segments}
  <1>0. Len(f) \in Nat
    OBVIOUS
  <1>1. 0 \in T
    <2>1. Hex!Empty \in Segments
      BY DEF Hex!Empty, Segments
    <2> QED BY <1>0, <2>1, SegmentsExist
  <1>2. \A k \in 1 .. Len(f) : k - 1 \in T => k \in T
    BY <1>0, SegmentsExist, AfterTyped
  <1> HIDE DEF T
  <1>3. \A k \in 0 .. Len(f) : k \in T
    BY <1>0, <1>1, <1>2, UpTo
  <1> QED BY <1>3 DEF T

LEMMA Halves ==
    ASSUME NEW S, NEW a \in Seq(S), NEW b \in Seq(S)
    PROVE  /\ Len(a) \in Nat /\ Len(b) \in Nat /\ Len(a \o b) = Len(a) + Len(b)
           /\ \A i \in 1 .. Len(a) : (a \o b)[i] = a[i]
           /\ \A j \in 1 .. Len(b) : (a \o b)[Len(a) + j] = b[j]
  OBVIOUS

LEMMA SameByte ==
    ASSUME NEW a \in Nat, NEW n \in Nat, NEW off \in Nat, NEW j \in Int, a + n = off
    PROVE  a + (n + j) - 1 = off + j - 1
  OBVIOUS

LEMMA NotApart ==
    ASSUME NEW a \in Nat, NEW l \in Nat, NEW b \in Nat, NEW n \in Nat,
           NEW x \in 1 .. l, NEW y \in 1 .. n, a + x - 1 = b + y - 1
    PROVE  ~(b + n <= a) /\ ~(a + l <= b) /\ (a = b => x = y)
  OBVIOUS

LEMMA Beyond ==
    ASSUME NEW a \in Nat, NEW b \in Nat, NEW m \in 1 .. a + b, ~(m <= a)
    PROVE  m - a \in 1 .. b /\ m = a + (m - a)
  OBVIOUS

LEMMA Earlier ==
    ASSUME NEW n \in Nat, NEW k \in 0 .. n, NEW i \in 1 .. k
    PROVE  i \in 1 .. n
  OBVIOUS

LEMMA Inside ==
    ASSUME NEW a \in Nat, NEW l \in Nat, NEW M \in Nat, a + l <= M, NEW x \in 1 .. l
    PROVE  a + x - 1 \in 0 .. M - 1
  OBVIOUS

\* What a segment becomes with one more record, element by element.
LEMMA ExtendedData ==
    ASSUME NEW s \in Segments, NEW f \in Seq(HexRecords), NEW k \in 1 .. Len(f), Hex!Data(f[k])
    PROVE  LET t == Opened(s, f[k])
               u == After(s, f, k)
           IN  /\ Len(t.data) \in Nat /\ Len(u.data) = Len(t.data) + f[k].len
               /\ u.first = FALSE /\ u.addr = IF t.first THEN f[k].off ELSE t.addr
               /\ \A m \in 1 .. Len(t.data) : u.data[m] = t.data[m]
               /\ \A j \in 1 .. f[k].len : u.data[Len(t.data) + j] = Hex!FileByte(k, j)
  <1> DEFINE t == Opened(s, f[k])
             b == RecBytes(f, k)
  <1>1. /\ t \in Segments /\ f[k].len \in Nat /\ b \in Seq(FileBytes) /\ Len(b) = f[k].len
        /\ \A j \in 1 .. f[k].len : b[j] = Hex!FileByte(k, j)
    BY AfterTyped
  <1>2. t.data \in Seq(FileBytes)
    BY <1>1 DEF Segments
  <1>3. After(s, f, k) = [addr |-> IF t.first THEN f[k].off ELSE t.addr, first |-> FALSE,
                          data |-> t.data \o b]
    BY DEF After, Extended
  <1> DEFINE d == t.data
  <1>4. d \in Seq(FileBytes)
    BY <1>2
  <1> HIDE DEF t, b, d
  <1>4a. b \in Seq(FileBytes)
    BY <1>1
  <1>4b. /\ Len(d) \in Nat /\ Len(d \o b) = Len(d) + Len(b)
         /\ \A m \in 1 .. Len(d) : (d \o b)[m] = d[m]
         /\ \A j \in 1 .. Len(b) : (d \o b)[Len(d) + j] = b[j]
    BY ONLY <1>4, <1>4a, Halves
  <1>5. /\ Len(t.data) \in Nat /\ Len(t.data \o b) = Len(t.data) + Len(b)
        /\ \A m \in 1 .. Len(t.data) : (t.data \o b)[m] = t.data[m]
        /\ \A j \in 1 .. Len(b) : (t.data \o b)[Len(t.data) + j] = b[j]
    BY ONLY <1>4b DEF d
  <1>6. /\ Len(t.data) \in Nat /\ Len(After(s, f, k).data) = Len(t.data) + f[k].len
        /\ After(s, f, k).first = FALSE
        /\ After(s, f, k).addr = IF t.first THEN f[k].off ELSE t.addr
        /\ \A m \in 1 .. Len(t.data) : After(s, f, k).data[m] = t.data[m]
        /\ \A j \in 1 .. f[k].len : After(s, f, k).data[Len(t.data) + j] = Hex!FileByte(k, j)
    BY <1>1, <1>3, <1>5
  <1> QED BY <1>6 DEF t

\* If no record is empty, every byte of a segment stands for the byte of a record of the
\* file that the file puts at the same address.
StandsFor(f, s, m, i) ==
    /\ Hex!Data(f[i])
    /\ \E j \in 1 .. f[i].len :
          s.data[m] = Hex!FileByte(i, j) /\ s.addr + m - 1 = f[i].off + j - 1

Placed(f, s, k) ==
    /\ s.first <=> s.data = <<>>
    /\ \A m \in 1 .. Len(s.data) : \E i \in 1 .. k : StandsFor(f, s, m, i)

LEMMA PlacedStep ==
    ASSUME NEW s \in Segments, NEW f \in Seq(HexRecords), NEW k \in 1 .. Len(f),
           Hex!Plain(f), Placed(f, s, k - 1)
    PROVE  Placed(f, After(s, f, k), k)
  <1>0. \A i \in 1 .. k - 1 : i \in 1 .. k
    OBVIOUS
  <1>1. CASE ~Hex!Data(f[k])
    <2>1. After(s, f, k) = s
      BY <1>1 DEF After
    <2> QED BY <1>0, <2>1 DEF Placed
  <1>2. CASE Hex!Data(f[k])
    <2> DEFINE t == Opened(s, f[k])
               u == After(s, f, k)
    <2>1. /\ Len(t.data) \in Nat /\ Len(u.data) = Len(t.data) + f[k].len
          /\ u.first = FALSE /\ u.addr = IF t.first THEN f[k].off ELSE t.addr
          /\ \A m \in 1 .. Len(t.data) : u.data[m] = t.data[m]
          /\ \A j \in 1 .. f[k].len : u.data[Len(t.data) + j] = Hex!FileByte(k, j)
      BY <1>2, ExtendedData
    <2>2. f[k].len \in Nat /\ f[k].off \in Nat /\ u \in Segments /\ t \in Segments
      BY AfterTyped
    <2>3. f[k].len > 0
      BY <1>2 DEF Hex!Plain
    <2>4. s.addr \in Nat /\ s.data \in Seq(FileBytes) /\ s.first \in BOOLEAN /\ Len(s.data) \in Nat
      BY DEF Segments
    <2>5. t = s \/ (t.data = <<>> /\ t.first = FALSE /\ t.addr = f[k].off)
      BY DEF Opened
    <2>6. u.addr + Len(t.data) = f[k].off
      <3>1. CASE Parted(s, f[k])
        <4>1. t.data = <<>> /\ t.first = FALSE /\ t.addr = f[k].off
          BY <3>1 DEF Opened
        <4> QED BY <2>1, <2>2, <4>1
      <3>2. CASE ~Parted(s, f[k]) /\ s.data # <<>>
        <4>1. t = s /\ f[k].off = s.addr + Len(s.data)
          BY <3>2 DEF Opened, Parted
        <4>2. ~s.first
          BY <3>2 DEF Placed
        <4> QED BY <2>1, <4>1, <4>2
      <3>3. CASE s.data = <<>>
        <4>1. t = s
          BY <3>3 DEF Opened, Parted
        <4>2. s.first
          BY <3>3 DEF Placed
        <4>3. Len(t.data) = 0
          BY <3>3, <4>1
        <4>4. u.addr = f[k].off
          BY <2>1, <4>1, <4>2
        <4> QED BY <2>2, <4>3, <4>4
      <3> QED BY <3>1, <3>2, <3>3
    <2>7. u.addr \in Nat /\ u.data \in Seq(FileBytes)
      BY <2>2 DEF Segments
    <2>8. u.first <=> u.data = <<>>
      <3>1. Len(u.data) > 0
        BY <2>1, <2>2, <2>3
      <3>2. u.data # <<>>
        BY <3>1
      <3> QED BY <2>1, <3>2
    <2>9. ASSUME NEW m \in 1 .. Len(u.data)
          PROVE  \E i \in 1 .. k : StandsFor(f, u, m, i)
      <3>1. CASE m <= Len(t.data)
        <4>1. m \in 1 .. Len(t.data)
          BY <2>1, <3>1
        <4>2. t = s
          BY <2>5, <4>1
        <4>3. s.data # <<>>
          BY <4>1, <4>2
        <4>4. u.addr = s.addr /\ u.data[m] = s.data[m]
          BY <2>1, <4>1, <4>2, <4>3 DEF Placed
        <4>5. PICK i \in 1 .. k - 1 : StandsFor(f, s, m, i)
          BY <4>1, <4>2 DEF Placed
        <4>6. StandsFor(f, u, m, i)
          BY <4>4, <4>5 DEF StandsFor
        <4> QED BY <1>0, <4>6
      <3>2. CASE ~(m <= Len(t.data))
        <4> DEFINE j == m - Len(t.data)
                   n == Len(t.data)
        <4>1. j \in 1 .. f[k].len /\ m = n + j /\ n \in Nat
          <5>1. n \in Nat /\ f[k].len \in Nat /\ m \in 1 .. n + f[k].len /\ ~(m <= n)
            BY <2>1, <2>2, <3>2
          <5>2. m - n \in 1 .. f[k].len /\ m = n + (m - n)
            BY ONLY <5>1, Beyond
          <5> QED BY <5>1, <5>2
        <4>2. u.data[m] = Hex!FileByte(k, j)
          BY <2>1, <4>1
        <4>3. u.addr + m - 1 = f[k].off + j - 1
          <5> HIDE DEF j, n, u
          <5>1. u.addr \in Nat /\ f[k].off \in Nat /\ u.addr + n = f[k].off /\ j \in Int
            BY <2>2, <2>6, <2>7, <4>1 DEF n
          <5>2. u.addr + (n + j) - 1 = f[k].off + j - 1
            BY ONLY <4>1, <5>1, SameByte
          <5> QED BY ONLY <4>1, <5>2
        <4>4. StandsFor(f, u, m, k)
          BY <1>2, <4>1, <4>2, <4>3 DEF StandsFor
        <4> QED BY <4>4
      <3> QED BY <3>1, <3>2
    <2> QED BY <2>8, <2>9 DEF Placed
  <1> QED BY <1>1, <1>2

LEMMA SegmentsPlaced ==
    ASSUME NEW f \in Seq(HexRecords), Hex!Plain(f)
    PROVE  \A k \in 0 .. Len(f) : Placed(f, SegOf(f)[k], k)
  <1> DEFINE T == {k \in 0 .. Len(f) : Placed(f, SegOf(f)[k], k)}
  <1>0. Len(f) \in Nat
    OBVIOUS
  <1>1. 0 \in T
    BY <1>0, SegmentsExist DEF Placed, Hex!Empty
  <1>2. \A k \in 1 .. Len(f) : k - 1 \in T => k \in T
    <2> SUFFICES ASSUME NEW k \in 1 .. Len(f), k - 1 \in T
                 PROVE  k \in T
      OBVIOUS
    <2>1. k - 1 \in 0 .. Len(f) /\ Placed(f, SegOf(f)[k - 1], k - 1)
      OBVIOUS
    <2>2. SegOf(f)[k - 1] \in Segments
      BY <2>1, SegmentsTyped
    <2>3. Placed(f, After(SegOf(f)[k - 1], f, k), k)
      BY <2>1, <2>2, PlacedStep
    <2> QED BY <1>0, <2>3, SegmentsExist
  <1> HIDE DEF T
  <1>3. \A k \in 0 .. Len(f) : k \in T
    BY <1>0, <1>1, <1>2, UpTo
  <1> QED BY <1>3 DEF T

\* Hence segments agree where they meet, if no two records hold the same address.
LEMMA SegmentsAgree ==
    ASSUME NEW f \in Seq(HexRecords), Hex!Plain(f),
           NEW k \in 0 .. Len(f), NEW m \in 1 .. Len(SegOf(f)[k].data),
           NEW l \in 0 .. Len(f), NEW n \in 1 .. Len(SegOf(f)[l].data),
           SegOf(f)[k].addr + m - 1 = SegOf(f)[l].addr + n - 1
    PROVE  SegOf(f)[k].data[m] = SegOf(f)[l].data[n]
  <1>1. PICK i \in 1 .. k : StandsFor(f, SegOf(f)[k], m, i)
    BY SegmentsPlaced DEF Placed
  <1>2. PICK j \in 1 .. l : StandsFor(f, SegOf(f)[l], n, j)
    BY SegmentsPlaced DEF Placed
  <1>3. PICK x \in 1 .. f[i].len : /\ SegOf(f)[k].data[m] = Hex!FileByte(i, x)
                                   /\ SegOf(f)[k].addr + m - 1 = f[i].off + x - 1
    BY <1>1 DEF StandsFor
  <1>4. PICK y \in 1 .. f[j].len : /\ SegOf(f)[l].data[n] = Hex!FileByte(j, y)
                                   /\ SegOf(f)[l].addr + n - 1 = f[j].off + y - 1
    BY <1>2 DEF StandsFor
  <1>5. /\ i \in 1 .. Len(f) /\ j \in 1 .. Len(f) /\ Hex!Data(f[i]) /\ Hex!Data(f[j])
    <2>1. i \in 1 .. Len(f) /\ j \in 1 .. Len(f)
      <3>1. Len(f) \in Nat /\ k \in 0 .. Len(f) /\ l \in 0 .. Len(f)
        OBVIOUS
      <3>2. i \in 1 .. k /\ j \in 1 .. l
        OBVIOUS
      <3> QED BY ONLY <3>1, <3>2, Earlier
    <2> QED BY <1>1, <1>2, <2>1 DEF StandsFor
  <1>6. f[i].off \in Nat /\ f[i].len \in Nat /\ f[j].off \in Nat /\ f[j].len \in Nat
    <2>1. f[i] \in HexRecords /\ f[j] \in HexRecords
      BY <1>5
    <2> QED BY <2>1 DEF HexRecords
  <1>6a. x \in 1 .. f[i].len /\ y \in 1 .. f[j].len
    OBVIOUS
  <1>7. f[i].off + x - 1 = f[j].off + y - 1
    BY <1>3, <1>4
  <1>8. i = j
    <2>1. i # j => f[j].off + f[j].len <= f[i].off \/ f[i].off + f[i].len <= f[j].off
      BY <1>5 DEF Hex!Plain
    <2>2. ~(f[j].off + f[j].len <= f[i].off) /\ ~(f[i].off + f[i].len <= f[j].off)
      <3> DEFINE a == f[i].off
                 p == f[i].len
                 b == f[j].off
                 q == f[j].len
      <3>1. /\ a \in Nat /\ p \in Nat /\ b \in Nat /\ q \in Nat
            /\ x \in 1 .. p /\ y \in 1 .. q /\ a + x - 1 = b + y - 1
        BY <1>6, <1>6a, <1>7
      <3> HIDE DEF a, p, b, q
      <3>2. ~(b + q <= a) /\ ~(a + p <= b)
        BY ONLY <3>1, NotApart
      <3> QED BY <3>2 DEF a, p, b, q
    <2> QED BY <2>1, <2>2
  <1>9. x = y
    BY ONLY <1>6, <1>6a, <1>7, <1>8, NotApart
  <1> QED BY <1>3, <1>4, <1>8, <1>9

\* Every byte of a segment has a place in the memory of the chip.
Fits(f) == \A i \in DOMAIN f : Hex!Data(f[i]) => f[i].off + f[i].len <= MemSize

LEMMA SegmentsFit ==
    ASSUME NEW f \in Seq(HexRecords), Hex!Plain(f), Fits(f),
           NEW k \in 0 .. Len(f), NEW m \in 1 .. Len(SegOf(f)[k].data)
    PROVE  SegOf(f)[k].addr + m - 1 \in Hex!Addresses
  <1>1. PICK i \in 1 .. k : StandsFor(f, SegOf(f)[k], m, i)
    BY SegmentsPlaced DEF Placed
  <1>2. PICK j \in 1 .. f[i].len : SegOf(f)[k].addr + m - 1 = f[i].off + j - 1
    BY <1>1 DEF StandsFor
  <1>3. i \in 1 .. Len(f) /\ f[i] \in HexRecords /\ Hex!Data(f[i])
    BY <1>1 DEF StandsFor
  <1>4. f[i].off \in Nat /\ f[i].len \in Nat /\ f[i].off + f[i].len <= MemSize /\ MemSize \in Nat
    BY <1>3, CableAssumption DEF HexRecords, Fits
  <1>5. f[i].off + j - 1 \in Hex!Addresses
    BY ONLY <1>4, Inside DEF Hex!Addresses
  <1> QED BY <1>2, <1>5

\* Every byte of a record is in a segment that is written, or still in the one gathered.
HasRecord(f, k, i) ==
    \A j \in 1 .. f[i].len : \E m \in 1 .. Len(SegOf(f)[k].data) :
        SegOf(f)[k].data[m] = Hex!FileByte(i, j)

Covered(f, k) ==
    Hex!BeforeEof(f, k) => \A i \in 1 .. k : Hex!Data(f[i]) =>
        HasRecord(f, k, i) \/ \E l \in 1 .. Len(f) : Flushes(f, l) /\ HasRecord(f, l, i)

LEMMA CoveredStep ==
    ASSUME NEW f \in Seq(HexRecords), NEW k \in 1 .. Len(f), Covered(f, k - 1)
    PROVE  Covered(f, k)
  <1> SUFFICES ASSUME Hex!BeforeEof(f, k), NEW i \in 1 .. k, Hex!Data(f[i])
               PROVE  HasRecord(f, k, i) \/ \E l \in 1 .. Len(f) : Flushes(f, l) /\ HasRecord(f, l, i)
    BY DEF Covered
  <1> DEFINE s == SegOf(f)[k - 1]
  <1>1. /\ Len(f) \in Nat /\ k - 1 \in 0 .. Len(f) /\ (k - 1) + 1 = k
        /\ SegOf(f)[k] = After(s, f, k) /\ s \in Segments
    <2>1. Len(f) \in Nat /\ k - 1 \in 0 .. Len(f) /\ (k - 1) + 1 = k
      OBVIOUS
    <2> QED BY <2>1, SegmentsExist, SegmentsTyped
  <1>2. Hex!BeforeEof(f, k - 1)
    <2>1. \A n \in 1 .. k - 1 : n \in 1 .. k
      OBVIOUS
    <2> QED BY <2>1 DEF Hex!BeforeEof
  <1>3. CASE i = k
    <2>1. f[k].len \in Nat
      BY <1>1, AfterTyped
    <2> DEFINE t == Opened(s, f[k])
               u == SegOf(f)[k]
    <2>2. /\ Len(t.data) \in Nat /\ Len(u.data) = Len(t.data) + f[k].len
          /\ \A j \in 1 .. f[k].len : u.data[Len(t.data) + j] = Hex!FileByte(k, j)
      <3>1. Hex!Data(f[k])
        BY <1>3
      <3>2. /\ Len(Opened(s, f[k]).data) \in Nat
            /\ Len(After(s, f, k).data) = Len(Opened(s, f[k]).data) + f[k].len
            /\ \A j \in 1 .. f[k].len :
                  After(s, f, k).data[Len(Opened(s, f[k]).data) + j] = Hex!FileByte(k, j)
        <4> HIDE DEF s
        <4> QED BY <1>1, <3>1, ExtendedData
      <3> QED BY <1>1, <3>2
    <2> DEFINE n == Len(t.data)
    <2>3. \A j \in 1 .. f[k].len : n + j \in 1 .. n + f[k].len
      BY <2>1, <2>2
    <2>4. \A j \in 1 .. f[k].len : n + j \in 1 .. Len(u.data) /\ u.data[n + j] = Hex!FileByte(k, j)
      BY <2>2, <2>3
    <2> HIDE DEF n
    <2>5. HasRecord(f, k, k)
      BY <2>4 DEF HasRecord
    <2> QED BY <1>3, <2>5
  <1>4. CASE i # k
    <2>1. i \in 1 .. k - 1
      BY <1>4
    <2>2. HasRecord(f, k - 1, i) \/ \E l \in 1 .. Len(f) : Flushes(f, l) /\ HasRecord(f, l, i)
      BY <1>2, <2>1 DEF Covered
    <2>3. CASE HasRecord(f, k - 1, i)
      <3>1. CASE ~Hex!Data(f[k])
        <4>1. SegOf(f)[k] = s
          BY <1>1, <3>1 DEF After
        <4> QED BY <2>3, <4>1 DEF HasRecord
      <3>2. CASE Hex!Data(f[k]) /\ ~Parted(s, f[k])
        <4>1. Opened(s, f[k]) = s
          BY <3>2 DEF Opened
        <4>2. f[k].len \in Nat
          BY <1>1, AfterTyped
        <4>3. /\ Len(s.data) \in Nat /\ Len(SegOf(f)[k].data) = Len(s.data) + f[k].len
              /\ \A m \in 1 .. Len(s.data) : SegOf(f)[k].data[m] = s.data[m]
          <5>1. /\ Len(Opened(s, f[k]).data) \in Nat
                /\ Len(After(s, f, k).data) = Len(Opened(s, f[k]).data) + f[k].len
                /\ \A m \in 1 .. Len(Opened(s, f[k]).data) :
                      After(s, f, k).data[m] = Opened(s, f[k]).data[m]
            <6> HIDE DEF s
            <6> QED BY <1>1, <3>2, ExtendedData
          <5> QED BY <1>1, <4>1, <5>1
        <4>4. \A m \in 1 .. Len(s.data) : m \in 1 .. Len(SegOf(f)[k].data)
          <5> DEFINE a == Len(s.data)
                     b == Len(SegOf(f)[k].data)
                     c == f[k].len
          <5>1. a \in Nat /\ c \in Nat /\ b = a + c
            BY <4>2, <4>3
          <5> HIDE DEF a, b, c
          <5>2. \A m \in 1 .. a : m \in 1 .. b
            BY ONLY <5>1
          <5> QED BY <5>2 DEF a, b
        <4>5. HasRecord(f, k, i)
          BY <2>3, <4>3, <4>4 DEF HasRecord
        <4> QED BY <4>5
      <3>3. CASE Hex!Data(f[k]) /\ Parted(s, f[k])
        <4>1. s.data # <<>>
          BY <3>3 DEF Parted
        <4>2. k - 1 \in 1 .. Len(f)
          BY <1>1, <2>1
        <4>3. Flushes(f, k - 1)
          BY <1>1, <1>2, <3>3, <4>1, <4>2 DEF Flushes
        <4> QED BY <2>3, <4>2, <4>3
      <3> QED BY <3>1, <3>2, <3>3
    <2> QED BY <2>2, <2>3
  <1> QED BY <1>3, <1>4

LEMMA AllCovered ==
    ASSUME NEW f \in Seq(HexRecords)
    PROVE  \A k \in 0 .. Len(f) : Covered(f, k)
  <1> DEFINE T == {k \in 0 .. Len(f) : Covered(f, k)}
  <1>0. Len(f) \in Nat
    OBVIOUS
  <1>1. 0 \in T
    BY <1>0 DEF Covered
  <1>2. \A k \in 1 .. Len(f) : k - 1 \in T => k \in T
    BY CoveredStep
  <1> HIDE DEF T
  <1>3. \A k \in 0 .. Len(f) : k \in T
    BY <1>0, <1>1, <1>2, UpTo
  <1> QED BY <1>3 DEF T

-----------------------------------------------------------------------------
(* The FTDI cable: two walks over a batch *)

Gathered == Seq(PinValues) \X PinValues \X Values

Matched == Nat \X Values \X Seq(Nat \X Nat)

LEMMA GatherTyped ==
    ASSUME NEW t \in Gathered, NEW tr \in Seq(Accesses), NEW i \in 1 .. Len(tr)
    PROVE  Gather(t, tr, i) \in Gathered
  <1>1. tr[i] \in Accesses
    OBVIOUS
  <1>2. tr[i].val \in Values
    BY <1>1, TransferAssumption DEF Accesses
  <1>3. t[1] \in Seq(PinValues) /\ t[2] \in PinValues /\ t[3] \in Values
    BY DEF Gathered
  <1>4. Pins(tr[i].val) \in PinValues
    BY <1>2 DEF PinValues
  <1> DEFINE byte == IF SetsPins(tr[i]) THEN Pins(tr[i].val) ELSE t[2]
             add  == IsRead(tr[i]) \/ byte # t[2] \/ i = Len(tr)
             buf  == IF add THEN Append(t[1], byte) ELSE t[1]
             val  == IF SetsPins(tr[i]) THEN tr[i].val ELSE t[3]
  <1>5. byte \in PinValues
    BY <1>3, <1>4
  <1>6. Append(t[1], byte) \in Seq(PinValues)
    BY <1>3, <1>5
  <1>7. buf \in Seq(PinValues) /\ val \in Values
    BY <1>2, <1>3, <1>6
  <1>8. Gather(t, tr, i) = <<buf, byte, val>>
    BY DEF Gather
  <1> HIDE DEF byte, add, buf, val
  <1> QED BY <1>5, <1>7, <1>8 DEF Gathered

LEMMA MatchTyped ==
    ASSUME NEW t \in Matched, NEW tr \in Seq(Accesses), NEW i \in 1 .. Len(tr)
    PROVE  Match(t, tr, i) \in Matched
  <1>1. tr[i] \in Accesses
    OBVIOUS
  <1>2. tr[i].val \in Values
    BY <1>1, TransferAssumption DEF Accesses
  <1>3. t[1] \in Nat /\ t[2] \in Values /\ t[3] \in Seq(Nat \X Nat)
    BY DEF Matched
  <1>4. <<i, t[1] + 1>> \in Nat \X Nat
    BY <1>3
  <1>5. Append(t[3], <<i, t[1] + 1>>) \in Seq(Nat \X Nat)
    BY <1>3, <1>4
  <1> DEFINE skip == ~IsRead(tr[i]) /\ tr[i].val = t[2] /\ i # Len(tr)
             val == IF SetsPins(tr[i]) THEN tr[i].val ELSE t[2]
             ans == IF IsRead(tr[i]) THEN Append(t[3], <<i, t[1] + 1>>) ELSE t[3]
  <1>6. val \in Values /\ ans \in Seq(Nat \X Nat) /\ t[1] + 1 \in Nat
    BY <1>2, <1>3, <1>5
  <1>7. Match(t, tr, i) = IF skip THEN t ELSE <<t[1] + 1, val, ans>>
    BY DEF Match
  <1> HIDE DEF skip, val, ans
  <1>8. <<t[1] + 1, val, ans>> \in Matched
    BY <1>6 DEF Matched
  <1> QED BY <1>7, <1>8

\* The walks do what their steps say.
LEMMA CollectWalks ==
    ASSUME NEW tr \in Seq(Accesses), NEW s \in Gathered
    PROVE  /\ Collect(s, tr) \in [0 .. Len(tr) -> Gathered]
           /\ Collect(s, tr)[0] = s
           /\ \A i \in 1 .. Len(tr) : Collect(s, tr)[i] = Gather(Collect(s, tr)[i - 1], tr, i)
  <1> DEFINE n == Len(tr)
             F == [i \in 1 .. n |-> [t \in Gathered |-> Gather(t, tr, i)]]
             Walk(w) == w = [i \in 0 .. n |-> IF i = 0 THEN s ELSE Gather(w[i - 1], tr, i)]
  <1>0. n \in Nat /\ \A i \in 0 .. n : i # 0 => i - 1 \in 0 .. n /\ i \in 1 .. n
    OBVIOUS
  <1>1. F \in [1 .. n -> [Gathered -> Gathered]]
    BY GatherTyped
  <1>2. \A i \in 1 .. n, t \in Gathered : F[i][t] = Gather(t, tr, i)
    OBVIOUS
  <1>a. n \in Nat
    OBVIOUS
  <1> HIDE DEF F, n
  <1>3. PICK w \in [0 .. n -> Gathered] : IsWalk(n, s, F, w)
    BY ONLY <1>a, <1>1, s \in Gathered, WalkExists
  <1>4. \A i \in 0 .. n : w[i] = IF i = 0 THEN s ELSE Gather(w[i - 1], tr, i)
    <2> SUFFICES ASSUME NEW i \in 0 .. n
                 PROVE  w[i] = IF i = 0 THEN s ELSE Gather(w[i - 1], tr, i)
      OBVIOUS
    <2>1. w[i] = IF i = 0 THEN s ELSE F[i][w[i - 1]]
      BY <1>3 DEF IsWalk
    <2> QED BY <1>0, <1>2, <2>1
  <1>5. Walk(w)
    BY <1>4
  <1> DEFINE c == CHOOSE v : Walk(v)
  <1>6. Collect(s, tr) = c
    BY DEF Collect, n
  <1>7. Walk(c)
    BY <1>5
  <1> HIDE DEF c
  <1>8. c[0] = s /\ \A i \in 1 .. n : c[i] = Gather(c[i - 1], tr, i)
    BY <1>0, <1>7
  <1>9. c \in [0 .. n -> Gathered]
    <2> DEFINE T == {k \in 0 .. n : c[k] \in Gathered}
    <2>1. 0 \in T
      BY <1>0, <1>8
    <2>2. \A k \in 1 .. n : k - 1 \in T => k \in T
      BY <1>0, <1>8, GatherTyped DEF n
    <2> HIDE DEF T
    <2>3. \A k \in 0 .. n : k \in T
      BY <1>0, <2>1, <2>2, UpTo
    <2> QED BY <1>7, <2>3 DEF T
  <1> QED BY <1>6, <1>8, <1>9 DEF n

LEMMA AnswersWalk ==
    ASSUME NEW tr \in Seq(Accesses), NEW last \in Values
    PROVE  /\ Answers(tr, last) \in [0 .. Len(tr) -> Matched]
           /\ Answers(tr, last)[0] = <<0, last, <<>>>>
           /\ \A i \in 1 .. Len(tr) : Answers(tr, last)[i] = Match(Answers(tr, last)[i - 1], tr, i)
  <1> DEFINE n == Len(tr)
             s == <<0, last, <<>>>>
             F == [i \in 1 .. n |-> [t \in Matched |-> Match(t, tr, i)]]
             Walk(w) == w = [i \in 0 .. n |-> IF i = 0 THEN s ELSE Match(w[i - 1], tr, i)]
  <1>0. n \in Nat /\ \A i \in 0 .. n : i # 0 => i - 1 \in 0 .. n /\ i \in 1 .. n
    OBVIOUS
  <1>1. F \in [1 .. n -> [Matched -> Matched]]
    BY MatchTyped
  <1>2. \A i \in 1 .. n, t \in Matched : F[i][t] = Match(t, tr, i)
    OBVIOUS
  <1>a. n \in Nat
    OBVIOUS
  <1>b. s \in Matched
    <2>1. <<>> \in Seq(Nat \X Nat) /\ 0 \in Nat
      OBVIOUS
    <2> QED BY <2>1 DEF Matched
  <1> HIDE DEF F, n, s
  <1>3. PICK w \in [0 .. n -> Matched] : IsWalk(n, s, F, w)
    BY ONLY <1>a, <1>b, <1>1, WalkExists
  <1>4. \A i \in 0 .. n : w[i] = IF i = 0 THEN s ELSE Match(w[i - 1], tr, i)
    <2> SUFFICES ASSUME NEW i \in 0 .. n
                 PROVE  w[i] = IF i = 0 THEN s ELSE Match(w[i - 1], tr, i)
      OBVIOUS
    <2>1. w[i] = IF i = 0 THEN s ELSE F[i][w[i - 1]]
      BY <1>3 DEF IsWalk
    <2> QED BY <1>0, <1>2, <2>1
  <1>5. Walk(w)
    BY <1>4
  <1> DEFINE c == CHOOSE v : Walk(v)
  <1>6. Answers(tr, last) = c
    BY DEF Answers, n, s
  <1>7. Walk(c)
    BY <1>5
  <1> HIDE DEF c
  <1>8. c[0] = s /\ \A i \in 1 .. n : c[i] = Match(c[i - 1], tr, i)
    BY <1>0, <1>7
  <1>9. c \in [0 .. n -> Matched]
    <2> DEFINE T == {k \in 0 .. n : c[k] \in Matched}
    <2>1. 0 \in T
      BY <1>0, <1>b, <1>8
    <2>2. \A k \in 1 .. n : k - 1 \in T => k \in T
      BY <1>0, <1>8, MatchTyped DEF n
    <2> HIDE DEF T
    <2>3. \A k \in 0 .. n : k \in T
      BY <1>0, <2>1, <2>2, UpTo
    <2> QED BY <1>7, <2>3 DEF T
  <1> QED BY <1>6, <1>8, <1>9 DEF n, s

\* How the walks look at the access i.
LEMMA LatestStep ==
    ASSUME NEW tr \in Seq(Accesses), NEW last \in Values, NEW W \in SUBSET (1 .. Len(tr)),
           NEW i \in 1 .. Len(tr)
    PROVE  Latest(tr, last, W, i) = IF i \in W THEN tr[i].val ELSE Latest(tr, last, W, i - 1)
  <1>1. CASE i \in W
    <2> DEFINE X == W \cap 1 .. i
    <2>1. i \in X /\ \A l \in X : l <= i
      BY <1>1
    <2>2. \A k \in X : (\A l \in X : l <= k) => k = i
      BY <2>1
    <2>3. (CHOOSE k \in X : \A l \in X : l <= k) = i
      BY <2>1, <2>2
    <2> QED BY <1>1, <2>1, <2>3 DEF Latest, Written
  <1>2. CASE i \notin W
    <2>1. W \cap 1 .. i = W \cap 1 .. i - 1
      BY <1>2
    <2> QED BY <1>2, <2>1 DEF Latest
  <1> QED BY <1>1, <1>2

LEMMA LatestNone ==
    ASSUME NEW tr, NEW last, NEW W
    PROVE  Latest(tr, last, W, 0) = last
  <1>1. W \cap 1 .. 0 = {}
    OBVIOUS
  <1> QED BY <1>1 DEF Latest, Written

\* Counting one element more.
LEMMA CountStep ==
    ASSUME NEW i \in Nat, NEW S \in SUBSET (1 .. i + 1), NEW R \in SUBSET (1 .. i),
           R = S \cap 1 .. i
    PROVE  /\ Cardinality(R) \in Nat
           /\ Cardinality(S) = IF i + 1 \in S THEN Cardinality(R) + 1 ELSE Cardinality(R)
  <1>1. IsFiniteSet(1 .. i)
    BY FS_Interval
  <1>2. IsFiniteSet(R) /\ Cardinality(R) \in Nat
    BY <1>1, FS_Subset, FS_CardinalityType
  <1>a. \A x \in 1 .. i + 1 : x \in 1 .. i \/ x = i + 1
    OBVIOUS
  <1>b. i + 1 \notin 1 .. i
    OBVIOUS
  <1>3. CASE i + 1 \in S
    <2>1. S = R \cup {i + 1} /\ i + 1 \notin R
      BY <1>3, <1>a, <1>b
    <2> QED BY <1>2, <1>3, <2>1, FS_AddElement
  <1>4. CASE i + 1 \notin S
    <2>1. S = R
      BY <1>4, <1>a
    <2> QED BY <1>2, <1>4, <2>1
  <1> QED BY <1>3, <1>4

\* What a byte more in the stream changes.
LEMMA ChangesStep ==
    ASSUME NEW buf \in Seq(PinValues), NEW x \in PinValues, NEW p \in PinValues
    PROVE  /\ \A m \in 0 .. Len(buf) : /\ Changes(buf, p, m) \in Nat
                                       /\ Changes(Append(buf, x), p, m) = Changes(buf, p, m)
           /\ Changes(Append(buf, x), p, Len(buf) + 1)
                 = IF x # (IF buf = <<>> THEN p ELSE buf[Len(buf)]) THEN Changes(buf, p, Len(buf)) + 1
                   ELSE Changes(buf, p, Len(buf))
  <1> DEFINE b == Append(buf, x)
             n == Len(buf)
             Old(m) == {k \in 1 .. m : buf[k] # IF k = 1 THEN p ELSE buf[k - 1]}
             New(m) == {k \in 1 .. m : b[k] # IF k = 1 THEN p ELSE b[k - 1]}
  <1>0. n \in Nat /\ b[n + 1] = x /\ (\A k \in 1 .. n : b[k] = buf[k]) /\ (buf = <<>> <=> n = 0)
    OBVIOUS
  <1> HIDE DEF b
  <1>1. ASSUME NEW m \in 0 .. n
        PROVE  New(m) = Old(m) /\ Cardinality(Old(m)) \in Nat
    <2>1. \A k \in 1 .. m : b[k] = buf[k] /\ (k # 1 => b[k - 1] = buf[k - 1])
      BY <1>0
    <2>2. New(m) = Old(m)
      BY <2>1
    <2>3. Old(m) \in SUBSET (1 .. m) /\ m \in Nat
      BY <1>0
    <2> HIDE DEF Old
    <2>4. IsFiniteSet(1 .. m)
      BY <2>3, FS_Interval
    <2>5. IsFiniteSet(Old(m))
      BY <2>3, <2>4, FS_Subset
    <2> QED BY <2>2, <2>5, FS_CardinalityType
  <1>2. /\ n + 1 \in New(n + 1) <=> x # (IF buf = <<>> THEN p ELSE buf[n])
        /\ New(n) = New(n + 1) \cap 1 .. n /\ New(n + 1) \in SUBSET (1 .. n + 1)
    <2>1. n + 1 \in New(n + 1) <=> b[n + 1] # (IF n + 1 = 1 THEN p ELSE b[(n + 1) - 1])
      BY <1>0
    <2>2. n + 1 = 1 <=> n = 0
      BY <1>0
    <2>3. n # 0 => b[(n + 1) - 1] = buf[n]
      BY <1>0
    <2>4. New(n) = New(n + 1) \cap 1 .. n /\ New(n + 1) \in SUBSET (1 .. n + 1)
      BY <1>0
    <2> HIDE DEF New, n
    <2> QED BY <1>0, <2>1, <2>2, <2>3, <2>4
  <1> HIDE DEF New, n
  <1>3. Cardinality(New(n + 1)) = IF n + 1 \in New(n + 1) THEN Cardinality(New(n)) + 1
                                  ELSE Cardinality(New(n))
    <2>1. New(n) \in SUBSET (1 .. n)
      BY <1>2
    <2> QED BY <1>0, <1>2, <2>1, CountStep
  <1>4. \A m \in 0 .. n : Changes(buf, p, m) = Cardinality(Old(m))
    BY DEF Changes
  <1>5. \A m \in 0 .. n + 1 : Changes(b, p, m) = Cardinality(New(m))
    BY DEF Changes, New
  <1>6. n \in 0 .. n /\ n + 1 \in 0 .. n + 1 /\ \A m \in 0 .. n : m \in 0 .. n + 1
    BY <1>0
  <1> HIDE DEF Old
  <1>7. Cardinality(New(n)) = Cardinality(Old(n))
    BY <1>1, <1>6
  <1>8. \A m \in 0 .. n : Changes(buf, p, m) \in Nat /\ Changes(b, p, m) = Changes(buf, p, m)
    BY <1>1, <1>4, <1>5, <1>6
  <1>9. Changes(b, p, n + 1) = IF x # (IF buf = <<>> THEN p ELSE buf[n]) THEN Changes(buf, p, n) + 1
                               ELSE Changes(buf, p, n)
    BY <1>2, <1>3, <1>4, <1>5, <1>6, <1>7
  <1> QED BY <1>8, <1>9 DEF b, n

LEMMA AskedStep ==
    ASSUME NEW tr \in Seq(Accesses), NEW last, NEW i \in 1 .. Len(tr)
    PROVE  /\ ChangesAsked(tr, last, i - 1) \in Nat
           /\ ChangesAsked(tr, last, i)
                 = IF SetsPins(tr[i])
                      /\ Pins(tr[i].val) # Pins(Latest(tr, last, PinWrites(tr), i - 1))
                   THEN ChangesAsked(tr, last, i - 1) + 1 ELSE ChangesAsked(tr, last, i - 1)
  <1> DEFINE S(m) == {k \in PinWrites(tr) \cap 1 .. m :
                         Pins(tr[k].val) # Pins(Latest(tr, last, PinWrites(tr), k - 1))}
  <1>1. i - 1 \in Nat /\ (i - 1) + 1 = i /\ i \in DOMAIN tr
    OBVIOUS
  <1>2. /\ S(i) \in SUBSET (1 .. (i - 1) + 1) /\ S(i - 1) \in SUBSET (1 .. i - 1)
        /\ S(i - 1) = S(i) \cap 1 .. i - 1
    BY <1>1
  <1>3. i \in S(i) <=> SetsPins(tr[i])
                       /\ Pins(tr[i].val) # Pins(Latest(tr, last, PinWrites(tr), i - 1))
    BY <1>1 DEF PinWrites
  <1>4. ChangesAsked(tr, last, i) = Cardinality(S(i))
        /\ ChangesAsked(tr, last, i - 1) = Cardinality(S(i - 1))
    BY DEF ChangesAsked
  <1> HIDE DEF S
  <1>5. /\ Cardinality(S(i - 1)) \in Nat
        /\ Cardinality(S(i)) = IF i \in S(i) THEN Cardinality(S(i - 1)) + 1
                               ELSE Cardinality(S(i - 1))
    <2> DEFINE h == i - 1
    <2>1. h \in Nat /\ h + 1 = i
      BY <1>1
    <2>2. S(i) \in SUBSET (1 .. h + 1) /\ S(h) \in SUBSET (1 .. h) /\ S(h) = S(i) \cap 1 .. h
      BY <1>2
    <2> HIDE DEF h
    <2>3. /\ Cardinality(S(h)) \in Nat
          /\ Cardinality(S(i)) = IF h + 1 \in S(i) THEN Cardinality(S(h)) + 1
                                 ELSE Cardinality(S(h))
      BY ONLY <2>1, <2>2, CountStep
    <2> QED BY <2>1, <2>3 DEF h
  <1> QED BY <1>3, <1>4, <1>5

\* A walk keeps the pins of the last byte written, which are at the end of the buffer.
Good(t, p) ==
    /\ t[2] = Pins(t[3])
    /\ t[2] = IF t[1] = <<>> THEN p ELSE t[1][Len(t[1])]

LEMMA GatherKeeps ==
    ASSUME NEW t \in Gathered, NEW tr \in Seq(Accesses), NEW i \in 1 .. Len(tr), NEW p, Good(t, p)
    PROVE  /\ Good(Gather(t, tr, i), p)
           /\ Len(t[1]) \in Nat /\ Len(Gather(t, tr, i)[1]) \in Nat
           /\ Len(Gather(t, tr, i)[1]) <= Len(t[1]) + 1
           /\ i = Len(tr) => Gather(t, tr, i)[1] # <<>>
  <1> DEFINE byte == IF SetsPins(tr[i]) THEN Pins(tr[i].val) ELSE t[2]
             add  == IsRead(tr[i]) \/ byte # t[2] \/ i = Len(tr)
             buf  == IF add THEN Append(t[1], byte) ELSE t[1]
             val  == IF SetsPins(tr[i]) THEN tr[i].val ELSE t[3]
             g    == Gather(t, tr, i)
  <1>1. g[1] = buf /\ g[2] = byte /\ g[3] = val
    BY DEF Gather
  <1>2. byte = Pins(val)
    BY DEF Good
  <1>3. t[1] \in Seq(PinValues)
    BY DEF Gathered
  <1>4. /\ Len(t[1]) \in Nat /\ Append(t[1], byte) # <<>>
        /\ Len(Append(t[1], byte)) = Len(t[1]) + 1
        /\ Append(t[1], byte)[Len(t[1]) + 1] = byte
    <2> HIDE DEF byte
    <2> QED BY <1>3
  <1>5. CASE add
    <2>1. buf = Append(t[1], byte)
      BY <1>5
    <2> HIDE DEF byte, buf, val, add, g
    <2>2. buf # <<>> /\ Len(buf) = Len(t[1]) + 1 /\ byte = buf[Len(buf)]
      BY <1>4, <2>1
    <2>3. Good(g, p) /\ Len(g[1]) = Len(t[1]) + 1 /\ g[1] # <<>>
      BY <1>1, <1>2, <2>2 DEF Good
    <2> QED BY <1>4, <2>3 DEF g
  <1>6. CASE ~add
    <2>1. buf = t[1] /\ byte = t[2] /\ i # Len(tr)
      BY <1>6
    <2> HIDE DEF byte, buf, val, add, g
    <2>3. Good(g, p) /\ g[1] = t[1]
      BY <1>1, <1>2, <2>1 DEF Good
    <2> QED BY <1>4, <2>1, <2>3 DEF g
  <1> QED BY <1>5, <1>6

LEMMA CollectKeeps ==
    ASSUME NEW tr \in Seq(Accesses), NEW s \in Gathered, NEW p, Good(s, p)
    PROVE  /\ \A i \in 0 .. Len(tr) : /\ Good(Collect(s, tr)[i], p)
                                      /\ Len(Collect(s, tr)[i][1]) \in Nat
                                      /\ Len(Collect(s, tr)[i][1]) <= Len(s[1]) + i
           /\ Len(tr) > 0 => Collect(s, tr)[Len(tr)][1] # <<>>
  <1> DEFINE c == Collect(s, tr)
             n == Len(tr)
             Kept(i) == /\ Good(c[i], p) /\ Len(c[i][1]) \in Nat
                        /\ Len(c[i][1]) <= Len(s[1]) + i
             T == {i \in 0 .. n : Kept(i)}
  <1>0. n \in Nat /\ Len(s[1]) \in Nat /\ \A i \in 1 .. n : i \in 0 .. n /\ i - 1 \in 0 .. n
    BY DEF Gathered
  <1>1. c \in [0 .. n -> Gathered] /\ c[0] = s /\ \A i \in 1 .. n : c[i] = Gather(c[i - 1], tr, i)
    BY CollectWalks
  <1> HIDE DEF c
  <1>2. 0 \in T
    BY <1>0, <1>1
  <1>3. ASSUME NEW i \in 1 .. n, i - 1 \in T
        PROVE  i \in T /\ (i = n => c[i][1] # <<>>)
    <2> DEFINE t == c[i - 1]
    <2>1. t \in Gathered /\ Good(t, p) /\ c[i] = Gather(t, tr, i) /\ Len(t[1]) <= Len(s[1]) + (i - 1)
      BY <1>0, <1>1, <1>3
    <2> HIDE DEF t
    <2>2. /\ Good(c[i], p) /\ Len(t[1]) \in Nat /\ Len(c[i][1]) \in Nat
          /\ Len(c[i][1]) <= Len(t[1]) + 1 /\ (i = n => c[i][1] # <<>>)
      BY <2>1, GatherKeeps
    <2>3. Len(c[i][1]) <= Len(s[1]) + i
      <3> DEFINE x == Len(c[i][1])
                 y == Len(t[1])
                 z == Len(s[1])
      <3>1. x \in Nat /\ y \in Nat /\ z \in Nat /\ i \in Nat /\ x <= y + 1 /\ y <= z + (i - 1)
        BY <1>0, <2>1, <2>2
      <3> HIDE DEF x, y, z
      <3>2. x <= z + i
        BY ONLY <3>1
      <3> QED BY <3>2 DEF x, z
    <2> QED BY <1>0, <2>2, <2>3
  <1> HIDE DEF T
  <1>4. \A i \in 0 .. n : i \in T
    BY <1>0, <1>2, <1>3, UpTo
  <1>5. n > 0 => c[n][1] # <<>>
    BY <1>0, <1>3, <1>4
  <1> QED BY <1>4, <1>5 DEF T, c

\* Both walks know the same last byte.
LEMMA SameWrite ==
    ASSUME NEW tr \in Seq(Accesses), NEW s \in Gathered, NEW last \in Values, s[3] = last
    PROVE  \A i \in 0 .. Len(tr) : Collect(s, tr)[i][3] = Answers(tr, last)[i][2]
  <1> DEFINE c == Collect(s, tr)
             u == Answers(tr, last)
             n == Len(tr)
             T == {i \in 0 .. n : c[i][3] = u[i][2]}
  <1>0. n \in Nat /\ \A i \in 1 .. n : i \in 0 .. n /\ i - 1 \in 0 .. n
    OBVIOUS
  <1>1. c[0] = s /\ \A i \in 1 .. n : c[i] = Gather(c[i - 1], tr, i)
    BY CollectWalks
  <1>2. u[0] = <<0, last, <<>>>> /\ \A i \in 1 .. n : u[i] = Match(u[i - 1], tr, i)
    BY AnswersWalk
  <1> HIDE DEF c, u
  <1>3. 0 \in T
    BY <1>0, <1>1, <1>2
  <1>4. \A i \in 1 .. n : i - 1 \in T => i \in T
    <2> SUFFICES ASSUME NEW i \in 1 .. n, c[i - 1][3] = u[i - 1][2]
                 PROVE  c[i][3] = u[i][2]
      BY <1>0
    <2>1. c[i][3] = IF SetsPins(tr[i]) THEN tr[i].val ELSE c[i - 1][3]
      BY <1>1 DEF Gather
    <2>2. u[i][2] = IF ~IsRead(tr[i]) /\ tr[i].val = u[i - 1][2] /\ i # Len(tr) THEN u[i - 1][2]
                    ELSE IF SetsPins(tr[i]) THEN tr[i].val ELSE u[i - 1][2]
      <3> DEFINE v == u[i - 1]
      <3>1. u[i] = Match(v, tr, i)
        BY <1>2
      <3> HIDE DEF v
      <3>2. CASE ~IsRead(tr[i]) /\ tr[i].val = v[2] /\ i # Len(tr)
        BY <3>1, <3>2 DEF Match, v
      <3>3. CASE ~(~IsRead(tr[i]) /\ tr[i].val = v[2] /\ i # Len(tr))
        <4>1. u[i] = <<v[1] + 1, IF SetsPins(tr[i]) THEN tr[i].val ELSE v[2],
                       IF IsRead(tr[i]) THEN Append(v[3], <<i, v[1] + 1>>) ELSE v[3]>>
          BY <3>1, <3>3 DEF Match
        <4>2. u[i][2] = IF SetsPins(tr[i]) THEN tr[i].val ELSE v[2]
          BY <4>1
        <4> QED BY <3>3, <4>2 DEF v
      <3> QED BY <3>2, <3>3
    <2> QED BY <2>1, <2>2
  <1> HIDE DEF T
  <1>5. \A i \in 0 .. n : i \in T
    BY <1>0, <1>3, <1>4, UpTo
  <1> QED BY <1>5 DEF T, c, u

\* After i accesses the walks agree: the second has counted the bytes of the first, and a
\* read is given the sample after the changes of the pins that were asked for before it.
InStep(tr, last, i, t, u) ==
    /\ t[3] = u[2] /\ u[1] = Len(t[1])
    /\ t[3] = Latest(tr, last, PinWrites(tr), i) /\ t[3] = Latest(tr, last, Writes(tr), i)
    /\ Changes(t[1], Pins(last), Len(t[1])) = ChangesAsked(tr, last, i)
    /\ \A k \in 1 .. Len(u[3]) :
          /\ u[3][k][2] \in 0 .. Len(t[1])
          /\ Changes(t[1], Pins(last), u[3][k][2]) = ChangesAsked(tr, last, u[3][k][1])

LEMMA StepTogether ==
    ASSUME NEW t \in Gathered, NEW u \in Matched, NEW tr \in Seq(Accesses), NEW last \in Values,
           NEW i \in 1 .. Len(tr), Good(t, Pins(last)), InStep(tr, last, i - 1, t, u),
           Plain(tr, last)
    PROVE  InStep(tr, last, i, Gather(t, tr, i), Match(u, tr, i))
  <1> DEFINE a == tr[i]
             b == t[1]
             p == Pins(last)
             n == Len(tr)
             g == Gather(t, tr, i)
             m == Match(u, tr, i)
  <1>0. /\ n \in Nat /\ b \in Seq(PinValues) /\ Len(b) \in Nat /\ t[2] \in PinValues
        /\ u[1] \in Nat /\ u[3] \in Seq(Nat \X Nat) /\ a \in Accesses /\ i \in Nat
    BY DEF Gathered, Matched
  <1>1. /\ a.cmd \in {"PP_READ", "PP_WRITE"} /\ a.val \in Values
        /\ IsRead(a) <=> a.cmd # "PP_WRITE"
        /\ SetsPins(a) => a.cmd = "PP_WRITE"
        /\ i \in PinWrites(tr) <=> SetsPins(a)
        /\ i \in Writes(tr) <=> a.cmd = "PP_WRITE"
    <2>1. i \in DOMAIN tr
      OBVIOUS
    <2> QED BY <1>0, <2>1, TransferAssumption DEF Accesses, IsRead, SetsPins, PinWrites, Writes
  <1>2. /\ t[3] = u[2] /\ u[1] = Len(b) /\ t[2] = Pins(t[3])
        /\ t[2] = IF b = <<>> THEN p ELSE b[Len(b)]
        /\ t[3] = Latest(tr, last, PinWrites(tr), i - 1)
        /\ t[3] = Latest(tr, last, Writes(tr), i - 1)
        /\ Changes(b, p, Len(b)) = ChangesAsked(tr, last, i - 1)
        /\ \A k \in 1 .. Len(u[3]) :
              /\ u[3][k][2] \in 0 .. Len(b)
              /\ Changes(b, p, u[3][k][2]) = ChangesAsked(tr, last, u[3][k][1])
    BY DEF InStep, Good
  <1>3. /\ Latest(tr, last, PinWrites(tr), i) = IF SetsPins(a) THEN a.val ELSE t[3]
        /\ Latest(tr, last, Writes(tr), i) = IF a.cmd = "PP_WRITE" THEN a.val ELSE t[3]
    <2>1. PinWrites(tr) \in SUBSET (1 .. n) /\ Writes(tr) \in SUBSET (1 .. n)
      BY DEF PinWrites, Writes
    <2>2. /\ Latest(tr, last, PinWrites(tr), i)
             = IF i \in PinWrites(tr) THEN tr[i].val ELSE Latest(tr, last, PinWrites(tr), i - 1)
          /\ Latest(tr, last, Writes(tr), i)
             = IF i \in Writes(tr) THEN tr[i].val ELSE Latest(tr, last, Writes(tr), i - 1)
      BY <2>1, LatestStep
    <2> QED BY <1>1, <1>2, <2>2
  <1>4. /\ ChangesAsked(tr, last, i - 1) \in Nat
        /\ ChangesAsked(tr, last, i) = IF SetsPins(a) /\ Pins(a.val) # t[2]
                                       THEN ChangesAsked(tr, last, i - 1) + 1
                                       ELSE ChangesAsked(tr, last, i - 1)
    BY <1>2, AskedStep
  <1>5. a.cmd = "PP_WRITE" /\ a.val # t[3] => SetsPins(a) /\ Pins(a.val) # t[2]
    BY <1>1, <1>2 DEF Plain
  <1>p. p \in PinValues
    BY DEF PinValues
  <1>6. ASSUME NEW x \in PinValues
        PROVE  /\ Len(Append(b, x)) = Len(b) + 1
               /\ \A l \in 0 .. Len(b) : /\ l \in 0 .. Len(Append(b, x))
                                         /\ Changes(Append(b, x), p, l) = Changes(b, p, l)
               /\ Len(b) + 1 \in 0 .. Len(Append(b, x))
               /\ Changes(Append(b, x), p, Len(b) + 1)
                     = IF x # t[2] THEN Changes(b, p, Len(b)) + 1 ELSE Changes(b, p, Len(b))
    <2>1. Len(Append(b, x)) = Len(b) + 1
      BY <1>0
    <2>2. \A l \in 0 .. Len(b) : l \in 0 .. Len(Append(b, x))
      BY <1>0, <2>1
    <2> QED BY <1>0, <1>2, <1>p, <2>1, <2>2, ChangesStep, SMTT(30)
  <1>7. Pins(a.val) \in PinValues
    BY <1>1 DEF PinValues
  <1> HIDE DEF a, b, p, n
  \* A read is given the byte that is added for it.
  <1>8. CASE IsRead(a)
    <2>1. g = <<Append(b, t[2]), t[2], t[3]>>
      BY <1>1, <1>8 DEF Gather, a, b
    <2>2. m = <<u[1] + 1, u[2], Append(u[3], <<i, u[1] + 1>>)>>
      BY <1>1, <1>8 DEF Match, a
    <2> DEFINE c == Append(b, t[2])
               w == Append(u[3], <<i, u[1] + 1>>)
    <2>3. /\ Len(c) = Len(b) + 1 /\ Len(b) + 1 \in 0 .. Len(c)
          /\ \A l \in 0 .. Len(b) : l \in 0 .. Len(c) /\ Changes(c, p, l) = Changes(b, p, l)
          /\ Changes(c, p, Len(b) + 1) = Changes(b, p, Len(b))
      BY <1>0, <1>6
    <2>4. ~SetsPins(a) /\ a.cmd # "PP_WRITE"
      BY <1>1, <1>8
    <2>5. ChangesAsked(tr, last, i) = ChangesAsked(tr, last, i - 1)
      BY <1>4, <2>4
    <2>6. /\ \A k \in 1 .. Len(w) : k \in 1 .. Len(u[3]) \/ k = Len(w)
          /\ \A k \in 1 .. Len(u[3]) : w[k] = u[3][k]
          /\ w[Len(w)] = <<i, u[1] + 1>>
      <3> DEFINE e == <<i, u[1] + 1>>
                 q == u[3]
      <3>1. e \in Nat \X Nat /\ q \in Seq(Nat \X Nat) /\ w = Append(q, e)
        <4>1. u[1] + 1 \in Nat
          BY ONLY <1>0
        <4> QED BY <1>0, <4>1
      <3> HIDE DEF e, q, w
      <3>2. /\ Len(q) \in Nat /\ Len(w) = Len(q) + 1
            /\ \A k \in 1 .. Len(q) : w[k] = q[k]
            /\ w[Len(w)] = e
        BY ONLY <3>1
      <3>3. \A k \in 1 .. Len(w) : k \in 1 .. Len(q) \/ k = Len(w)
        BY ONLY <3>2
      <3> QED BY <3>2, <3>3 DEF e, q
    <2> HIDE DEF c, w
    <2>7. \A k \in 1 .. Len(w) : /\ w[k][2] \in 0 .. Len(c)
                                 /\ Changes(c, p, w[k][2]) = ChangesAsked(tr, last, w[k][1])
      <3> SUFFICES ASSUME NEW k \in 1 .. Len(w)
                   PROVE  /\ w[k][2] \in 0 .. Len(c)
                          /\ Changes(c, p, w[k][2]) = ChangesAsked(tr, last, w[k][1])
        OBVIOUS
      <3>1. CASE k \in 1 .. Len(u[3])
        BY <1>2, <2>3, <2>6, <3>1
      <3>2. CASE k = Len(w)
        <4> DEFINE e == <<i, u[1] + 1>>
        <4>0. e[1] = i /\ e[2] = u[1] + 1
          OBVIOUS
        <4> HIDE DEF e
        <4>1. w[k] = e
          BY <2>6, <3>2 DEF e
        <4>2. w[k][1] = i /\ w[k][2] = Len(b) + 1
          BY <1>2, <4>0, <4>1
        <4> QED BY <1>2, <2>3, <2>5, <4>2
      <3> QED BY <2>6, <3>1, <3>2
    <2>8. g[1] = c /\ g[3] = t[3] /\ m[1] = u[1] + 1 /\ m[2] = u[2] /\ m[3] = w
      BY <2>1, <2>2 DEF c, w
    <2> HIDE DEF g, m
    <2> QED BY <1>2, <1>3, <2>3, <2>4, <2>5, <2>7, <2>8 DEF InStep, g, m, p
  \* A write of the same byte changes nothing; the last access has a byte all the same.
  <1>9. CASE a.cmd = "PP_WRITE" /\ a.val = t[3]
    <2> DEFINE c == IF i = n THEN Append(b, t[2]) ELSE b
               d == IF i = n THEN u[1] + 1 ELSE u[1]
    <2>1. g[1] = c /\ g[3] = t[3]
      <3>1. (IF SetsPins(a) THEN Pins(a.val) ELSE t[2]) = t[2]
        BY <1>2, <1>9
      <3>2. (IF SetsPins(a) THEN a.val ELSE t[3]) = t[3] /\ ~IsRead(a)
        BY <1>1, <1>9
      <3> DEFINE add == IsRead(a) \/ t[2] # t[2] \/ i = n
      <3>3. g = <<IF add THEN Append(b, t[2]) ELSE b, t[2], t[3]>>
        BY <3>1, <3>2 DEF Gather, a, b, n
      <3>4. add <=> i = n
        BY <3>2
      <3> HIDE DEF add
      <3>5. g[1] = (IF add THEN Append(b, t[2]) ELSE b) /\ g[3] = t[3]
        BY <3>3
      <3> QED BY <3>4, <3>5
    <2>2. m[1] = d /\ m[2] = u[2] /\ m[3] = u[3]
      <3>1. CASE i = n
        <4>1. m = <<u[1] + 1, IF SetsPins(a) THEN a.val ELSE u[2],
                    IF IsRead(a) THEN Append(u[3], <<i, u[1] + 1>>) ELSE u[3]>>
          BY <3>1 DEF Match, a, n
        <4>2. m[1] = u[1] + 1 /\ m[2] = (IF SetsPins(a) THEN a.val ELSE u[2])
              /\ m[3] = (IF IsRead(a) THEN Append(u[3], <<i, u[1] + 1>>) ELSE u[3])
          BY <4>1
        <4>3. ~IsRead(a) /\ a.val = u[2]
          BY <1>1, <1>2, <1>9
        <4> HIDE DEF m
        <4> QED BY <3>1, <4>2, <4>3
      <3>2. CASE i # n
        BY <1>1, <1>2, <1>9, <3>2 DEF Match, a, n
      <3> QED BY <3>1, <3>2
    <2>3. /\ Len(c) = d
          /\ \A l \in 0 .. Len(b) : l \in 0 .. Len(c) /\ Changes(c, p, l) = Changes(b, p, l)
          /\ Changes(c, p, Len(c)) = Changes(b, p, Len(b))
      BY <1>0, <1>2, <1>6
    <2>4. ChangesAsked(tr, last, i) = ChangesAsked(tr, last, i - 1)
      BY <1>2, <1>4, <1>9
    <2> HIDE DEF c, d, g, m
    <2>5. \A k \in 1 .. Len(u[3]) :
              /\ u[3][k][2] \in 0 .. Len(c)
              /\ Changes(c, p, u[3][k][2]) = ChangesAsked(tr, last, u[3][k][1])
      BY <1>2, <2>3
    <2> QED BY <1>2, <1>3, <1>9, <2>1, <2>2, <2>3, <2>4, <2>5 DEF InStep, g, m, p
  \* Any other write changes the pins.
  <1>10. CASE a.cmd = "PP_WRITE" /\ a.val # t[3]
    <2> DEFINE x == Pins(a.val)
               c == Append(b, x)
    <2>0. SetsPins(a) /\ x # t[2] /\ ~IsRead(a) /\ a.val # u[2]
      BY <1>1, <1>2, <1>5, <1>10
    <2>1. g[1] = c /\ g[3] = a.val
      BY <2>0 DEF Gather, a, b
    <2>2. m[1] = u[1] + 1 /\ m[2] = a.val /\ m[3] = u[3]
      <3>1. m = <<u[1] + 1, a.val, u[3]>>
        BY <2>0 DEF Match, a
      <3> QED BY <3>1
    <2>3. /\ Len(c) = Len(b) + 1
          /\ \A l \in 0 .. Len(b) : l \in 0 .. Len(c) /\ Changes(c, p, l) = Changes(b, p, l)
          /\ Changes(c, p, Len(c)) = Changes(b, p, Len(b)) + 1
      BY <1>6, <1>7, <2>0
    <2>4. ChangesAsked(tr, last, i) = ChangesAsked(tr, last, i - 1) + 1
      BY <1>4, <2>0
    <2> HIDE DEF c, x, g, m
    <2>5. \A k \in 1 .. Len(u[3]) :
              /\ u[3][k][2] \in 0 .. Len(c)
              /\ Changes(c, p, u[3][k][2]) = ChangesAsked(tr, last, u[3][k][1])
      BY <1>2, <2>3
    <2> QED BY <1>2, <1>3, <1>10, <2>0, <2>1, <2>2, <2>3, <2>4, <2>5 DEF InStep, g, m, p
  <1> QED BY <1>1, <1>8, <1>9, <1>10

\* So they agree after every access.
LEMMA WalksAgree ==
    ASSUME NEW tr \in Seq(Accesses), NEW last \in Values, Plain(tr, last),
           NEW s, s = <<<<>>, Pins(last), last>>
    PROVE  /\ s \in Gathered /\ Good(s, Pins(last)) /\ s[3] = last
           /\ \A i \in 0 .. Len(tr) : InStep(tr, last, i, Collect(s, tr)[i], Answers(tr, last)[i])
  <1> DEFINE c == Collect(s, tr)
             u == Answers(tr, last)
             n == Len(tr)
             T == {i \in 0 .. n : InStep(tr, last, i, c[i], u[i])}
  <1>0. n \in Nat /\ \A i \in 1 .. n : i \in 0 .. n /\ i - 1 \in 0 .. n
    OBVIOUS
  <1>1. s \in Gathered /\ Good(s, Pins(last)) /\ s[1] = <<>> /\ s[2] = Pins(last) /\ s[3] = last
    <2>1. s[1] = <<>> /\ s[2] = Pins(last) /\ s[3] = last
      OBVIOUS
    <2>2. Pins(last) \in PinValues /\ <<>> \in Seq(PinValues)
      BY DEF PinValues
    <2>3. s \in Gathered
      BY <2>2 DEF Gathered
    <2> QED BY <2>1, <2>3 DEF Good
  <1>2. c \in [0 .. n -> Gathered] /\ c[0] = s /\ \A i \in 1 .. n : c[i] = Gather(c[i - 1], tr, i)
    BY <1>1, CollectWalks
  <1>3. /\ u \in [0 .. n -> Matched] /\ u[0] = <<0, last, <<>>>>
        /\ \A i \in 1 .. n : u[i] = Match(u[i - 1], tr, i)
    BY AnswersWalk
  <1>4. \A i \in 0 .. n : Good(c[i], Pins(last))
    BY <1>1, CollectKeeps
  <1> HIDE DEF c, u
  <1>5. 0 \in T
    <2> DEFINE x == u[0]
    <2>1. x[1] = 0 /\ x[2] = last /\ x[3] = <<>>
      BY <1>3
    <2>2. /\ Latest(tr, last, PinWrites(tr), 0) = last
          /\ Latest(tr, last, Writes(tr), 0) = last
      BY LatestNone
    <2>3. ChangesAsked(tr, last, 0) = 0
      <3> DEFINE S == {k \in PinWrites(tr) \cap 1 .. 0 :
                         Pins(tr[k].val) # Pins(Latest(tr, last, PinWrites(tr), k - 1))}
      <3>1. S = {}
        OBVIOUS
      <3> HIDE DEF S
      <3>2. Cardinality(S) = 0
        BY <3>1, FS_EmptySet
      <3> QED BY <3>2 DEF ChangesAsked, S
    <2>4. Changes(<<>>, Pins(last), 0) = 0
      <3> DEFINE S == {k \in 1 .. 0 : <<>>[k] # IF k = 1 THEN Pins(last) ELSE <<>>[k - 1]}
      <3>1. S = {}
        OBVIOUS
      <3> HIDE DEF S
      <3>2. Cardinality(S) = 0
        BY <3>1, FS_EmptySet
      <3> QED BY <3>2 DEF Changes, S
    <2>5. Len(s[1]) = 0 /\ Len(x[3]) = 0
      BY <1>1, <2>1
    <2> HIDE DEF x
    <2>6. InStep(tr, last, 0, s, x)
      BY <1>1, <2>1, <2>2, <2>3, <2>4, <2>5 DEF InStep
    <2> QED BY <1>0, <1>2, <2>6 DEF x
  <1>6. \A i \in 1 .. n : i - 1 \in T => i \in T
    <2> SUFFICES ASSUME NEW i \in 1 .. n, InStep(tr, last, i - 1, c[i - 1], u[i - 1])
                 PROVE  InStep(tr, last, i, c[i], u[i])
      BY <1>0
    <2> DEFINE t == c[i - 1]
               v == u[i - 1]
    <2>1. /\ t \in Gathered /\ v \in Matched /\ Good(t, Pins(last))
          /\ c[i] = Gather(t, tr, i) /\ u[i] = Match(v, tr, i) /\ InStep(tr, last, i - 1, t, v)
      BY <1>0, <1>2, <1>3, <1>4
    <2> HIDE DEF t, v
    <2> QED BY <2>1, StepTogether
  <1> HIDE DEF T
  <1>7. \A i \in 0 .. n : i \in T
    BY <1>0, <1>5, <1>6, UpTo
  <1> QED BY <1>1, <1>7 DEF T, c, u

================================================================================
