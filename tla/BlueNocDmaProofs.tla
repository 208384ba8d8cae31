--------------------------- MODULE BlueNocDmaProofs ---------------------------
(* What the DMA engine of the BlueNoC driver guarantees for every number of    *)
(* processes, every depth of the command queue, every page size and every      *)
(* buffer: no command is written to a full queue, the board only ever holds    *)
(* commands of the call that holds the mutex, and a completion that a call has *)
(* seen is that of its own list.                                               *)
EXTENDS BlueNocDma, TLAPS, WellFoundedInduction

-----------------------------------------------------------------------------
(* The inductive invariant *)

\* The list of a call is that of a buffer.
Listed(c) == \E b \in Buffers : c.sg = SgList(b[1], b[2]) /\ c.count = b[2]

\* The units in the first k pages of a list.
Upto(c, k) ==
    IF k = 0 THEN 0
    ELSE IF k = Len(c.sg) THEN c.count
    ELSE c.sg[1] + (k - 1) * PageSize

\* Every call in progress has the list of a buffer, and sends no more than that.
CallsInv ==
    \A p \in Procs : call[p].pc # "idle" =>
        /\ Listed(call[p])
        /\ call[p].sent \in 0 .. Len(call[p].sg)
        /\ call[p].pc = "mapped" => call[p].sent = 0
        /\ call[p].pc \in {"send", "slot"} => call[p].sent < Len(call[p].sg)

\* What the driver has seen of a direction, the status register still says.
SeenInv ==
    \A d \in Dirs : /\ seen[d].completed => status[d].completed
                    /\ seen[d].flushed => status[d].flushed

\* The commands that the board has carried out of the list that p is sending.
Done(d, p) == call[p].sent - Len(queue[d])

\* The list is being worked off: the queue holds the commands sent and not done.
Running(d, p) ==
    /\ ~status[d].completed /\ ~status[d].flushed /\ ~flushing[d]
    /\ Done(d, p) \in 0 .. Len(call[p].sg) - 1
    /\ \A i \in 1 .. Len(queue[d]) :
          /\ queue[d][i].owner = p
          /\ queue[d][i].page = Done(d, p) + i
          /\ queue[d][i].len = call[p].sg[Done(d, p) + i]
          /\ queue[d][i].last <=> Done(d, p) + i = Len(call[p].sg)
    /\ fresh[d] <=> Done(d, p) = 0
    /\ ~fresh[d] => moved[d] = [bytes |-> Upto(call[p], Done(d, p)), pages |-> 1 .. Done(d, p)]
    /\ call[p].pc = "wait" => call[p].sent = Len(call[p].sg)

\* The whole list was carried out.
Completed(d, p) ==
    /\ status[d].completed /\ ~status[d].flushed /\ ~flushing[d]
    /\ queue[d] = <<>> /\ fresh[d]
    /\ call[p].pc = "wait"
    /\ moved[d] = [bytes |-> call[p].count, pages |-> DOMAIN call[p].sg]

\* What was moved of a list that ended early: whole pages, and a part of the next one.
CutShort(m, c) ==
    \E k \in 0 .. Len(c.sg) - 1 : \E n \in 0 .. c.sg[k + 1] :
        m = [bytes |-> Upto(c, k) + n, pages |-> 1 .. k \cup (IF n > 0 THEN {k + 1} ELSE {})]

\* The message ended early: until the list is ended, the board drops commands.
Flushed(d, p) ==
    /\ ~status[d].completed /\ status[d].flushed
    /\ queue[d] = <<>> /\ fresh[d]
    /\ flushing[d] <=> call[p].pc # "wait"
    /\ CutShort(moved[d], call[p])

Holder(d, p) ==
    /\ Running(d, p) \/ Completed(d, p) \/ Flushed(d, p)
    /\ call[p].pc = "send" => call[p].slots \in 0 .. Slots - Len(queue[d])
    /\ call[p].pc = "slot" => Len(queue[d]) <= seen[d].level

InCall(d, p) == Sending(p) /\ call[p].dir = d

\* A direction whose transfers were never cut off.
Direction(d) ==
    /\ mutex[d] = Nobody => queue[d] = <<>> /\ ~flushing[d] /\ fresh[d]
    /\ \A p \in Procs : mutex[d] = p <=> InCall(d, p)
    /\ \A p \in Procs : mutex[d] = p => Holder(d, p)

DirectionsInv == \A d \in Dirs : ~disturbed[d] => Direction(d)

DmaInv == TypeOK /\ CallsInv /\ SeenInv /\ DirectionsInv

-----------------------------------------------------------------------------
(* The scatter-gather list of a buffer *)

\* Dividing by the page size leaves less than a page.
LEMMA Division ==
    ASSUME NEW x \in Nat, NEW y \in Nat \ {0}
    PROVE  /\ x \div y \in Nat
           /\ y * (x \div y) <= x
           /\ x < y * (x \div y) + y
  BY Z3

\* The remainder of what exceeds a multiple of the page size by less than a page.
LEMMA Remainder ==
    ASSUME NEW q \in Nat, NEW y \in Nat \ {0}, NEW r \in 0 .. y - 1
    PROVE  (y * q + r) % y = r
  BY Z3

\* All pages but the last are within the buffer, and the last one holds the rest.
LEMMA LastPage ==
    ASSUME NEW o \in 0 .. PageSize - 1, NEW c \in Nat \ {0}
    PROVE  /\ NumPages(o, c) \in Nat \ {0}
           /\ NumPages(o, c) = 1 => o + c <= PageSize
           /\ PageSize * (NumPages(o, c) - 1) + LastPageLen(o, c) = o + c
           /\ LastPageLen(o, c) \in 1 .. PageSize
<1> DEFINE q == (o + c - 1) \div PageSize
           r == o + c - PageSize * q
<1>1. PageSize \in Nat \ {0} /\ o \in Nat
  BY DmaAssumption
<1>2. q \in Nat /\ PageSize * q \in Nat /\ PageSize * q <= o + c - 1 /\ o + c - 1 < PageSize * q + PageSize
  <2>1. o + c - 1 \in Nat
    BY <1>1
  <2>2. /\ q \in Nat /\ PageSize * q <= o + c - 1 /\ o + c - 1 < PageSize * q + PageSize
    BY <1>1, <2>1, Division
  <2> HIDE DEF q
  <2>3. PageSize * q \in Nat
    BY <1>1, <2>2, Z3
  <2> QED
    BY <2>2, <2>3
<1>3. NumPages(o, c) = q + 1
  BY DEF NumPages
<1> HIDE DEF q
<1>4. r \in 1 .. PageSize /\ o + c = PageSize * q + r
  BY <1>1, <1>2
<1>5. LastPageLen(o, c) = r
  <2>1. CASE r = PageSize
    <3>1. o + c = PageSize * (q + 1) + 0 /\ q + 1 \in Nat /\ 0 \in 0 .. PageSize - 1
      BY <1>1, <1>2, <1>4, <2>1
    <3>2. (o + c) % PageSize = 0
      BY <1>1, <3>1, Remainder
    <3> QED
      BY <2>1, <3>2 DEF LastPageLen
  <2>2. CASE r < PageSize
    <3>1. r \in 0 .. PageSize - 1
      BY <1>1, <1>4, <2>2
    <3>2. (PageSize * q + r) % PageSize = r
      BY <1>1, <1>2, <3>1, Remainder
    <3> QED
      BY <1>4, <3>2 DEF LastPageLen
  <2> QED
    BY <1>1, <1>4, <2>1, <2>2
<1>6. q = 0 => PageSize * q = 0
  BY <1>1
<1> QED
  BY <1>1, <1>2, <1>3, <1>4, <1>5, <1>6

\* A list has a page for every part of its buffer, and no empty ones.
LEMMA ListPages ==
    ASSUME NEW c, Listed(c)
    PROVE  /\ c.sg \in Seq(Nat) /\ Len(c.sg) \in Nat \ {0} /\ c.count \in Nat
           /\ Upto(c, 0) = 0 /\ Upto(c, Len(c.sg)) = c.count
           /\ \A k \in 0 .. Len(c.sg) - 1 :
                 /\ c.sg[k + 1] \in Nat \ {0}
                 /\ Upto(c, k) \in Nat
                 /\ Upto(c, k) + c.sg[k + 1] = Upto(c, k + 1)
<1>1. PICK b \in Buffers : c.sg = SgList(b[1], b[2]) /\ c.count = b[2]
  BY DEF Listed
<1> DEFINE o == b[1]
           m == b[2]
           n == NumPages(o, m)
<1>2. o \in 0 .. PageSize - 1 /\ m \in Nat \ {0} /\ PageSize \in Nat \ {0}
  BY DmaAssumption
<1>3. /\ n \in Nat \ {0}
      /\ n = 1 => o + m <= PageSize
      /\ PageSize * (n - 1) + LastPageLen(o, m) = o + m
      /\ LastPageLen(o, m) \in 1 .. PageSize
  BY <1>2, LastPage
<1>4. c.count = m
  BY <1>1
<1>5. /\ c.sg = [k \in 1 .. n |-> CASE k = 1 -> FirstPageLen(o, m)
                                   [] k = n /\ k > 1 -> LastPageLen(o, m)
                                   [] OTHER -> PageSize]
      /\ FirstPageLen(o, m) = IF n = 1 THEN m ELSE PageSize - o
  BY <1>1 DEF SgList, FirstPageLen
<1> HIDE DEF n, o, m
<1>6. FirstPageLen(o, m) \in Nat \ {0}
  BY <1>2, <1>5
<1>7. \A k \in 1 .. n : c.sg[k] = IF k = 1 THEN FirstPageLen(o, m)
                                  ELSE IF k = n THEN LastPageLen(o, m) ELSE PageSize
  BY <1>3, <1>5
<1>8. \A k \in 1 .. n : c.sg[k] \in Nat \ {0}
  BY <1>2, <1>3, <1>6, <1>7
<1>9. c.sg \in Seq(Nat) /\ Len(c.sg) = n
  <2>1. c.sg = [k \in 1 .. n |-> c.sg[k]]
    BY <1>5
  <2>2. c.sg \in [1 .. n -> Nat]
    BY <2>1, <1>8
  <2> QED
    BY <1>3, <2>2
<1>10. \A k \in 0 .. n - 1 : k > 0 => PageSize * (k - 1) \in Nat
  BY <1>2, <1>3, Z3
<1>11. ASSUME NEW k \in 0 .. n - 1
       PROVE  Upto(c, k) \in Nat /\ Upto(c, k) + c.sg[k + 1] = Upto(c, k + 1)
  <2>1. CASE k = 0
    <3>1. Upto(c, 0) = 0 /\ c.sg[1] = FirstPageLen(o, m) /\ 1 \in 1 .. n
      BY <1>3, <1>7, <1>9 DEF Upto
    <3>2. Upto(c, 1) = FirstPageLen(o, m)
      BY <1>2, <1>3, <1>4, <1>5, <1>9, <3>1 DEF Upto
    <3> QED
      BY <1>6, <2>1, <3>1, <3>2
  <2>2. CASE k > 0
    <3>1. n # 1 /\ k # n /\ k + 1 \in 1 .. n /\ 1 \in 1 .. n
      BY <1>3, <2>2
    <3>2. Upto(c, k) = PageSize - o + (k - 1) * PageSize
      BY <1>3, <1>5, <1>7, <1>9, <2>2, <3>1 DEF Upto
    <3>3. CASE k + 1 = n
      <4>1. Upto(c, k + 1) = m /\ c.sg[k + 1] = LastPageLen(o, m)
        BY <1>3, <1>4, <1>7, <1>9, <2>2, <3>1, <3>3 DEF Upto
      <4>2. PageSize * (n - 1) = PageSize + (k - 1) * PageSize
        BY <1>2, <1>3, <3>3, Z3
      <4>3. PageSize * (k - 1) \in Nat /\ (k - 1) * PageSize = PageSize * (k - 1)
        BY <1>2, <1>10, <2>2, Z3
      <4> QED
        BY <1>2, <1>3, <3>2, <4>1, <4>2, <4>3
    <3>4. CASE k + 1 # n
      <4>1. Upto(c, k + 1) = PageSize - o + k * PageSize /\ c.sg[k + 1] = PageSize
        BY <1>3, <1>5, <1>7, <1>9, <2>2, <3>1, <3>4 DEF Upto
      <4>2. k * PageSize = (k - 1) * PageSize + PageSize
        BY <1>2, <2>2, Z3
      <4>3. PageSize * (k - 1) \in Nat /\ (k - 1) * PageSize = PageSize * (k - 1)
        BY <1>2, <1>10, <2>2, Z3
      <4> QED
        BY <1>2, <3>2, <4>1, <4>2, <4>3
    <3> QED
      BY <3>3, <3>4
  <2> QED
    BY <1>3, <2>1, <2>2
<1>12. Upto(c, 0) = 0 /\ Upto(c, Len(c.sg)) = c.count
  BY <1>3, <1>9 DEF Upto
<1>13. \A k \in 0 .. n - 1 : c.sg[k + 1] \in Nat \ {0}
  BY <1>3, <1>8
<1> QED
  BY <1>2, <1>3, <1>4, <1>9, <1>11, <1>12, <1>13

-----------------------------------------------------------------------------
(* The pages that a count of units reaches *)

\* A set of naturals has a least element.
LEMMA LeastExists ==
  ASSUME NEW T \in SUBSET Nat, T # {}
  PROVE  \E x \in T : \A y \in T : x <= y
<1> DEFINE R == OpToRel(<, Nat)
<1>1. IsWellFoundedOn(R, Nat)
  BY NatLessThanWellFounded
<1>2. ASSUME NEW x \in Nat, NEW y \in Nat, y < x PROVE <<y, x>> \in R
  BY <1>2 DEF OpToRel
<1> HIDE DEF R
<1>3. PICK x \in T : \A y \in T : ~ (<<y, x>> \in R)
  BY <1>1, WFMin
<1>4. ASSUME NEW y \in T PROVE x <= y
  <2>1. x \in Nat /\ y \in Nat
    OBVIOUS
  <2>2. ~(y < x)
    BY <1>2, <1>3, <2>1
  <2> QED BY <2>1, <2>2
<1> QED BY <1>3, <1>4

\* The sum of the elements of s, as the fold of SequencesExt computes it: by the largest
\* index, which is added to what the sum of the others is.
Sums(s, n, g) ==
    g = [t \in SUBSET (1 .. n) |-> IF t = {} THEN 0 ELSE g[t \ {Max(t)}] + s[Max(t)]]

LEMMA LargestLast ==
    ASSUME NEW n \in Nat, NEW t \in SUBSET (1 .. n + 1), n + 1 \in t
    PROVE  Max(t) = n + 1 /\ t \ {Max(t)} \in SUBSET (1 .. n)
<1>1. \A x \in t : n + 1 >= x
  OBVIOUS
<1>2. \A x \in t : (\A y \in t : x >= y) => x = n + 1
  OBVIOUS
<1>3. Max(t) = n + 1
  BY <1>1, <1>2 DEF Max
<1> QED
  BY <1>3

LEMMA SumsStep ==
    ASSUME NEW s, NEW n \in Nat, NEW g, Sums(s, n, g)
    PROVE  \E h : Sums(s, n + 1, h)
<1> DEFINE h == [t \in SUBSET (1 .. n + 1) |-> IF n + 1 \in t THEN g[t \ {n + 1}] + s[n + 1] ELSE g[t]]
<1>1. ASSUME NEW t \in SUBSET (1 .. n + 1)
      PROVE  h[t] = IF t = {} THEN 0 ELSE h[t \ {Max(t)}] + s[Max(t)]
  <2>1. CASE n + 1 \in t
    <3>1. Max(t) = n + 1 /\ t \ {n + 1} \in SUBSET (1 .. n) /\ t # {}
      BY <2>1, LargestLast
    <3>2. t \ {n + 1} \in SUBSET (1 .. n + 1) /\ n + 1 \notin t \ {n + 1}
      OBVIOUS
    <3>3. h[t] = g[t \ {n + 1}] + s[n + 1] /\ h[t \ {n + 1}] = g[t \ {n + 1}]
      BY <2>1, <3>2
    <3> HIDE DEF h
    <3> QED
      BY <3>1, <3>3
  <2>2. CASE n + 1 \notin t
    <3>1. t \in SUBSET (1 .. n)
      BY <2>2
    <3>2. t \ {Max(t)} \in SUBSET (1 .. n + 1) /\ n + 1 \notin t \ {Max(t)}
      BY <2>2
    <3>3. h[t] = g[t] /\ h[t \ {Max(t)}] = g[t \ {Max(t)}]
      BY <2>2, <3>2
    <3>4. g[t] = IF t = {} THEN 0 ELSE g[t \ {Max(t)}] + s[Max(t)]
      BY <3>1 DEF Sums
    <3> HIDE DEF h
    <3> QED
      BY <3>3, <3>4
  <2> QED
    BY <2>1, <2>2
<1>2. h = [t \in SUBSET (1 .. n + 1) |-> h[t]]
  OBVIOUS
<1> HIDE DEF h
<1>3. Sums(s, n + 1, h)
  BY <1>1, <1>2 DEF Sums
<1> QED
  BY <1>3

LEMMA SumsExist ==
    ASSUME NEW s, NEW n \in Nat
    PROVE  \E g : Sums(s, n, g)
<1> DEFINE T == {i \in Nat : ~\E g : Sums(s, i, g)}
<1>1. CASE T = {}
  BY <1>1
<1>2. CASE T # {}
  <2>1. T \in SUBSET Nat
    OBVIOUS
  <2>2. PICK i \in T : \A j \in T : i <= j
    BY <1>2, <2>1, LeastExists
  <2>3. i # 0
    <3> DEFINE g == [t \in SUBSET (1 .. 0) |-> 0]
    <3>1. SUBSET (1 .. 0) = {{}}
      OBVIOUS
    <3>2. \A t \in SUBSET (1 .. 0) : t = {} /\ g[t] = 0
      BY <3>1
    <3>3. g = [t \in SUBSET (1 .. 0) |-> g[t]]
      OBVIOUS
    <3> HIDE DEF g
    <3>4. Sums(s, 0, g)
      BY <3>2, <3>3 DEF Sums
    <3> QED
      BY <2>2, <3>4
  <2>4. i - 1 \in Nat /\ i - 1 \notin T /\ i = (i - 1) + 1
    BY <2>2, <2>3
  <2>5. PICK g : Sums(s, i - 1, g)
    BY <2>4
  <2>6. \E h : Sums(s, i, h)
    BY <2>4, <2>5, SumsStep
  <2> QED
    BY <2>2, <2>6
<1> QED
  BY <1>1, <1>2

Sum(s) == FoldLeft(LAMBDA a, b : a + b, 0, s)

LEMMA SumIsFold ==
    ASSUME NEW s, NEW n \in Nat, DOMAIN s = 1 .. n
    PROVE  \E g : Sums(s, n, g) /\ Sum(s) = g[1 .. n]
<1>1. Sum(s) = (CHOOSE g : g = [t \in SUBSET DOMAIN s |->
                                   IF t = {} THEN 0 ELSE g[t \ {Max(t)}] + s[Max(t)]])[DOMAIN s]
  BY DEF Sum, FoldLeft, MapThenFoldSet
<1>2. Sum(s) = (CHOOSE g : Sums(s, n, g))[1 .. n]
  BY <1>1 DEF Sums
<1>3. Sums(s, n, CHOOSE g : Sums(s, n, g))
  BY SumsExist
<1> QED
  BY <1>2, <1>3

\* The first m pages of a list hold as many units as Upto says.
LEMMA SumOfPages ==
    ASSUME NEW c, Listed(c), NEW m \in 0 .. Len(c.sg)
    PROVE  Sum(SubSeq(c.sg, 1, m)) = Upto(c, m)
<1> DEFINE s == SubSeq(c.sg, 1, m)
<1>1. /\ c.sg \in Seq(Nat) /\ Len(c.sg) \in Nat \ {0} /\ Upto(c, 0) = 0
      /\ \A k \in 0 .. Len(c.sg) - 1 : Upto(c, k) \in Nat /\ Upto(c, k) + c.sg[k + 1] = Upto(c, k + 1)
  BY ListPages
<1>2. m \in Nat /\ DOMAIN s = 1 .. m /\ \A k \in 1 .. m : s[k] = c.sg[k]
  BY <1>1
<1> HIDE DEF s
<1>3. PICK g : Sums(s, m, g) /\ Sum(s) = g[1 .. m]
  BY <1>2, SumIsFold
<1> DEFINE T == {k \in 0 .. m : g[1 .. k] # Upto(c, k)}
<1>4. T = {}
  <2>1. SUFFICES ASSUME T # {}
                 PROVE  FALSE
    OBVIOUS
  <2>2. T \in SUBSET Nat
    BY <1>2
  <2>3. PICK k \in T : \A j \in T : k <= j
    BY <2>1, <2>2, LeastExists
  <2>4. k # 0
    <3>1. 1 .. 0 = {} /\ {} \in SUBSET (1 .. m)
      OBVIOUS
    <3>2. g[{}] = 0
      BY <1>3, <3>1 DEF Sums
    <3> QED
      BY <1>1, <2>3, <3>1, <3>2
  <2>5. k - 1 \in 0 .. m /\ k - 1 \notin T /\ k \in 1 .. m
    BY <1>2, <2>3, <2>4
  <2>6. g[1 .. k - 1] = Upto(c, k - 1)
    BY <2>5
  <2>7. 1 .. k \in SUBSET (1 .. m) /\ 1 .. k # {} /\ k - 1 \in Nat /\ k = (k - 1) + 1
    BY <1>2, <2>5
  <2>8. Max(1 .. k) = k
    <3> DEFINE i == k - 1
    <3>1. i \in Nat /\ k = i + 1
      BY <2>7
    <3> HIDE DEF i
    <3>2. 1 .. k \in SUBSET (1 .. i + 1) /\ i + 1 \in 1 .. k
      BY <3>1
    <3> QED
      BY <3>1, <3>2, LargestLast
  <2>9. (1 .. k) \ {k} = 1 .. k - 1
    BY <2>5
  <2>10. g[1 .. k] = g[1 .. k - 1] + s[k]
    BY <1>3, <2>7, <2>8, <2>9 DEF Sums
  <2>11. k - 1 \in 0 .. Len(c.sg) - 1 /\ s[k] = c.sg[(k - 1) + 1]
    BY <1>1, <1>2, <2>5
  <2>12. Upto(c, k - 1) + c.sg[(k - 1) + 1] = Upto(c, (k - 1) + 1)
    BY <1>1, <2>11
  <2> QED
    BY <2>3, <2>6, <2>7, <2>10, <2>11, <2>12
<1>5. g[1 .. m] = Upto(c, m)
  BY <1>2, <1>4
<1> QED
  BY <1>3, <1>5 DEF s

\* More pages hold more units.
LEMMA UptoGrows ==
    ASSUME NEW c, Listed(c), NEW j \in 0 .. Len(c.sg), NEW k \in 0 .. Len(c.sg), j < k
    PROVE  Upto(c, j) < Upto(c, k) /\ Upto(c, j) \in Nat /\ Upto(c, k) \in Nat
<1>1. /\ Len(c.sg) \in Nat \ {0} /\ c.count \in Nat /\ Upto(c, Len(c.sg)) = c.count
      /\ \A i \in 0 .. Len(c.sg) - 1 : /\ c.sg[i + 1] \in Nat \ {0} /\ Upto(c, i) \in Nat
                                       /\ Upto(c, i) + c.sg[i + 1] = Upto(c, i + 1)
  BY ListPages
<1>2. \A i \in 0 .. Len(c.sg) : Upto(c, i) \in Nat
  BY <1>1
<1> DEFINE T == {i \in 0 .. Len(c.sg) : j < i /\ ~(Upto(c, j) < Upto(c, i))}
<1>3. T = {}
  <2>1. SUFFICES ASSUME T # {}
                 PROVE  FALSE
    OBVIOUS
  <2>2. T \in SUBSET Nat
    BY <1>1
  <2>3. PICK i \in T : \A n \in T : i <= n
    BY <2>1, <2>2, LeastExists
  <2>4. i - 1 \in 0 .. Len(c.sg) - 1 /\ i = (i - 1) + 1 /\ i - 1 \notin T /\ j <= i - 1
    BY <1>1, <2>3
  <2>5. Upto(c, i - 1) < Upto(c, i) /\ Upto(c, i - 1) \in Nat /\ Upto(c, i) \in Nat
    <3>1. /\ c.sg[(i - 1) + 1] \in Nat \ {0} /\ Upto(c, i - 1) \in Nat
          /\ Upto(c, i - 1) + c.sg[(i - 1) + 1] = Upto(c, (i - 1) + 1)
      BY <1>1, <2>4
    <3> QED
      BY <2>4, <3>1
  <2>6. Upto(c, j) = Upto(c, i - 1) \/ Upto(c, j) < Upto(c, i - 1)
    BY <2>4
  <2> QED
    BY <1>2, <2>3, <2>5, <2>6
<1> QED
  BY <1>2, <1>3

\* The pages that bluenoc_read marks are those that the units reach.
LEMMA PagesReached ==
    ASSUME NEW c, Listed(c), NEW k \in 0 .. Len(c.sg) - 1, NEW n \in 0 .. c.sg[k + 1]
    PROVE  MarkedPages(c.sg, Upto(c, k) + n) = 1 .. k \cup (IF n > 0 THEN {k + 1} ELSE {})
<1> DEFINE N == Len(c.sg)
           bytes == Upto(c, k) + n
<1>1. /\ N \in Nat \ {0} /\ Upto(c, 0) = 0 /\ c.sg[k + 1] \in Nat \ {0} /\ Upto(c, k) \in Nat
      /\ Upto(c, k) + c.sg[k + 1] = Upto(c, k + 1)
  BY ListPages
<1>2. MarkedPages(c.sg, bytes) =
        {i \in 1 .. N : bytes > 0 /\ \A m \in 1 .. i - 1 : bytes > Sum(SubSeq(c.sg, 1, m))}
  BY Zenon DEF MarkedPages, Sum
<1>3. ASSUME NEW i \in 1 .. N, NEW m \in 1 .. i - 1
      PROVE  m \in 0 .. N /\ Sum(SubSeq(c.sg, 1, m)) = Upto(c, m)
  <2>1. m \in 0 .. N
    BY <1>1
  <2> QED
    BY <2>1, SumOfPages
<1>4. \A i \in 1 .. N : i \in MarkedPages(c.sg, bytes) <=>
          bytes > 0 /\ \A m \in 1 .. i - 1 : bytes > Upto(c, m)
  BY <1>2, <1>3
<1>5. \A i \in MarkedPages(c.sg, bytes) : i \in 1 .. N
  BY <1>2
<1>6. bytes \in Nat /\ k \in Nat /\ k + 1 \in 1 .. N /\ k \in 0 .. N /\ k + 1 \in 0 .. N
  BY <1>1
<1>7. \A m \in 0 .. N : Upto(c, m) \in Nat
  <2>1. Upto(c, N) \in Nat
    BY ListPages
  <2>2. \A m \in 0 .. N - 1 : Upto(c, m) \in Nat
    BY ListPages
  <2> QED
    BY <1>1, <2>1, <2>2
<1>8. ASSUME NEW i \in 1 .. N, i <= k
      PROVE  i \in MarkedPages(c.sg, bytes)
  <2>1. 0 \in 0 .. N /\ 0 < k
    BY <1>1, <1>8
  <2>2. bytes > 0
    BY <1>1, <1>6, <2>1, UptoGrows
  <2>3. ASSUME NEW m \in 1 .. i - 1
        PROVE  bytes > Upto(c, m)
    <3>1. m \in 0 .. N /\ m < k
      BY <1>1, <1>8
    <3>2. Upto(c, m) < Upto(c, k) /\ Upto(c, m) \in Nat
      BY <1>6, <3>1, UptoGrows
    <3> QED
      BY <1>1, <3>2
  <2> QED
    BY <1>4, <2>2, <2>3
<1>9. k + 1 \in MarkedPages(c.sg, bytes) <=> n > 0
  <2>1. ASSUME n > 0, NEW m \in 1 .. k
        PROVE  bytes > Upto(c, m)
    <3>1. m = k \/ m < k
      BY <1>1
    <3>2. m < k => Upto(c, m) < Upto(c, k) /\ Upto(c, m) \in Nat
      BY <1>6, <1>1, UptoGrows
    <3> QED
      BY <1>1, <2>1, <3>1, <3>2
  <2>2. n > 0 => bytes > 0
    BY <1>1
  <2>3. (k + 1) - 1 = k
    BY <1>6
  <2>4. n = 0 /\ k > 0 => k \in 1 .. (k + 1) - 1 /\ ~(bytes > Upto(c, k))
    BY <1>1, <1>6
  <2>5. n = 0 /\ k = 0 => ~(bytes > 0)
    BY <1>1
  <2>6. n = 0 => k + 1 \notin MarkedPages(c.sg, bytes)
    BY <1>4, <1>6, <2>4, <2>5
  <2>7. n > 0 => k + 1 \in MarkedPages(c.sg, bytes)
    <3> HIDE DEF bytes
    <3> QED BY <1>4, <1>6, <2>1, <2>2, <2>3
  <2> QED
    BY <2>6, <2>7
<1>10. ASSUME NEW i \in 1 .. N, i > k + 1
       PROVE  i \notin MarkedPages(c.sg, bytes)
  <2>1. k + 1 \in 1 .. i - 1
    BY <1>6, <1>10
  <2>2. ~(bytes > Upto(c, k + 1))
    BY <1>1
  <2> QED
    BY <1>4, <2>1, <2>2
<1> HIDE DEF bytes
<1>11. \A i : i \in MarkedPages(c.sg, bytes) <=> i \in 1 .. k \cup (IF n > 0 THEN {k + 1} ELSE {})
  <2>1. \A i : i \in 1 .. k \cup (IF n > 0 THEN {k + 1} ELSE {}) <=>
                  i \in 1 .. N /\ (i <= k \/ (i = k + 1 /\ n > 0))
    BY <1>1, <1>6
  <2>2. \A i \in 1 .. N : i <= k \/ i = k + 1 \/ i > k + 1
    BY <1>6
  <2> QED
    BY <1>5, <1>6, <1>8, <1>9, <1>10, <2>1, <2>2
<1> QED
  BY <1>11 DEF bytes

-----------------------------------------------------------------------------
(* Types *)

\* What writing a command does to the queue and to the list being dropped.
LEMMA Pushed ==
    ASSUME TypeOK, NEW d \in Dirs, NEW c \in Commands, Push(d, c)
    PROVE  /\ queue' \in [Dirs -> Seq(Commands)]
           /\ flushing' \in [Dirs -> BOOLEAN]
           /\ \A e \in Dirs : Len(queue'[e]) <= Slots
           /\ \A e \in Dirs : e # d => queue'[e] = queue[e] /\ flushing'[e] = flushing[e]
           /\ flushing'[d] <=> flushing[d] /\ ~c.last
           /\ flushing[d] => queue'[d] = queue[d]
           /\ ~flushing[d] /\ Len(queue[d]) < Slots => queue'[d] = Append(queue[d], c)
<1>1. Slots \in Nat
  BY DmaAssumption
<1> DEFINE q == IF flushing[d] \/ Len(queue[d]) = Slots THEN queue[d] ELSE Append(queue[d], c)
<1>2. /\ queue \in [Dirs -> Seq(Commands)] /\ flushing \in [Dirs -> BOOLEAN]
      /\ \A e \in Dirs : Len(queue[e]) <= Slots
      /\ c.last \in BOOLEAN
  BY DEF TypeOK, Commands
<1>3. queue' = [queue EXCEPT ![d] = q] /\ flushing' = [flushing EXCEPT ![d] = @ /\ ~c.last]
  BY DEF Push
<1>4. queue[d] \in Seq(Commands) /\ Len(queue[d]) \in Nat
  BY <1>2
<1>5. q \in Seq(Commands) /\ Len(q) <= Slots
  BY <1>1, <1>2, <1>4
<1>6. queue'[d] = q /\ \A e \in Dirs : e # d => queue'[e] = queue[e]
  BY <1>2, <1>3
<1>7. queue' \in [Dirs -> Seq(Commands)] /\ \A e \in Dirs : Len(queue'[e]) <= Slots
  <2> HIDE DEF q
  <2> QED
    BY <1>2, <1>3, <1>5, <1>6
<1>8. /\ flushing' \in [Dirs -> BOOLEAN]
      /\ \A e \in Dirs : e # d => flushing'[e] = flushing[e]
      /\ flushing'[d] <=> flushing[d] /\ ~c.last
  BY <1>2, <1>3
<1> QED
  BY <1>1, <1>4, <1>6, <1>7, <1>8

\* The status as the driver reads it.
LEMMA Refreshed ==
    ASSUME TypeOK, update_dma_buffer_status
    PROVE  /\ seen' \in [Dirs -> [level : 0 .. Slots, full : BOOLEAN,
                                  completed : BOOLEAN, flushed : BOOLEAN]]
           /\ \A d \in Dirs : /\ seen'[d].level = Len(queue[d])
                              /\ seen'[d].completed = status[d].completed
                              /\ seen'[d].flushed = status[d].flushed
<1>1. \A d \in Dirs : Len(queue[d]) \in 0 .. Slots /\ status[d] \in [completed : BOOLEAN, flushed : BOOLEAN]
  BY DmaAssumption DEF TypeOK
<1> QED
  BY <1>1 DEF update_dma_buffer_status

\* A call that takes a step is the only one that does.
LEMMA Called ==
    ASSUME TypeOK, NEW p \in Procs, NEW c \in Calls, call' = [call EXCEPT ![p] = c]
    PROVE  /\ call' \in [Procs -> Calls]
           /\ call'[p] = c
           /\ \A r \in Procs : r # p => call'[r] = call[r]
  BY DEF TypeOK

LEMMA IdleType == Idle \in Calls /\ Idle.pc = "idle"
  BY DEF Idle, Calls, Dirs

\* What a call that moves on keeps.
LEMMA MovedOn ==
    ASSUME TypeOK, NEW p \in Procs, NEW l \in {"send", "slot", "wait", "release"},
           call' = [call EXCEPT ![p].pc = l]
    PROVE  /\ call' \in [Procs -> Calls]
           /\ call'[p].pc = l
           /\ \A f \in {"dir", "sg", "count", "sent", "slots", "marked"} : call'[p][f] = call[p][f]
           /\ \A r \in Procs : r # p => call'[r] = call[r]
<1> DEFINE c == [call[p] EXCEPT !.pc = l]
<1>1. call[p] \in Calls /\ call' = [call EXCEPT ![p] = c]
  BY DEF TypeOK
<1>2. /\ c \in Calls /\ c.pc = l
      /\ \A f \in {"dir", "sg", "count", "sent", "slots", "marked"} : c[f] = call[p][f]
  BY <1>1 DEF Calls
<1> HIDE DEF c
<1> QED
  BY <1>1, <1>2, Called

\* A call that counts its slots.
LEMMA Counted ==
    ASSUME TypeOK, NEW p \in Procs, NEW n \in Int,
           call' = [call EXCEPT ![p].slots = n, ![p].pc = "send"]
    PROVE  /\ call' \in [Procs -> Calls]
           /\ call'[p].pc = "send" /\ call'[p].slots = n
           /\ \A f \in {"dir", "sg", "count", "sent", "marked"} : call'[p][f] = call[p][f]
           /\ \A r \in Procs : r # p => call'[r] = call[r]
<1> DEFINE c == [call[p] EXCEPT !.slots = n, !.pc = "send"]
<1>1. call[p] \in Calls /\ call' = [call EXCEPT ![p] = c]
  BY DEF TypeOK
<1>2. /\ c \in Calls /\ c.pc = "send" /\ c.slots = n
      /\ \A f \in {"dir", "sg", "count", "sent", "marked"} : c[f] = call[p][f]
  BY <1>1 DEF Calls
<1> HIDE DEF c
<1> QED
  BY <1>1, <1>2, Called

\* A call starts with the list of its buffer.
LEMMA Entered ==
    ASSUME TypeOK, NEW p \in Procs, NEW d \in Dirs, Enter(p, d)
    PROVE  /\ call' \in [Procs -> Calls]
           /\ call'[p].pc = "mapped" /\ call'[p].sent = 0 /\ Listed(call'[p])
           /\ \A r \in Procs : r # p => call'[r] = call[r]
<1>1. PICK b \in Buffers :
        call' = [call EXCEPT ![p] = [Idle EXCEPT !.pc = "mapped", !.dir = d,
                                       !.sg = SgList(b[1], b[2]), !.count = b[2]]]
  BY DEF Enter
<1> DEFINE c == [Idle EXCEPT !.pc = "mapped", !.dir = d, !.sg = SgList(b[1], b[2]), !.count = b[2]]
<1>2. c.pc = "mapped" /\ c.sent = 0 /\ c.sg = SgList(b[1], b[2]) /\ c.count = b[2]
  BY DEF Idle
<1>3. Listed(c)
  BY <1>2 DEF Listed
<1>4. SgList(b[1], b[2]) \in Seq(Nat) /\ b[2] \in Nat
  BY <1>2, <1>3, ListPages
<1>5. c \in Calls
  <2> DEFINE s == SgList(b[1], b[2])
  <2>1. s \in Seq(Nat)
    BY <1>4
  <2> HIDE DEF s
  <2>2. [Idle EXCEPT !.pc = "mapped", !.dir = d, !.sg = s, !.count = b[2]] \in Calls
    BY <1>4, <2>1, IdleType DEF Calls
  <2> QED
    BY <2>2 DEF s
<1>6. call' = [call EXCEPT ![p] = c]
  BY <1>1
<1> HIDE DEF c
<1> QED
  BY <1>2, <1>3, <1>5, <1>6, Called

\* Taking the mutex: the status is cleared and the call starts to send.
LEMMA Locked ==
    ASSUME TypeOK, NEW p \in Procs, NEW d \in Dirs, Lock(p, d), mutex[d] = Nobody
    PROVE  /\ call' \in [Procs -> Calls]
           /\ call'[p].pc = "send" /\ call'[p].slots = Slots - seen[d].level
           /\ \A f \in {"dir", "sg", "count", "sent", "marked"} : call'[p][f] = call[p][f]
           /\ \A r \in Procs : r # p => call'[r] = call[r]
           /\ mutex' = [mutex EXCEPT ![d] = p]
           /\ status' \in [Dirs -> [completed : BOOLEAN, flushed : BOOLEAN]]
           /\ ~status'[d].completed /\ ~status'[d].flushed
           /\ seen' \in [Dirs -> [level : 0 .. Slots, full : BOOLEAN,
                                  completed : BOOLEAN, flushed : BOOLEAN]]
           /\ ~seen'[d].completed /\ ~seen'[d].flushed
           /\ \A e \in Dirs : e # d => seen'[e] = seen[e] /\ status'[e] = status[e]
<1>1. /\ mutex' = [mutex EXCEPT ![d] = p]
      /\ status' = [status EXCEPT ![d] = [completed |-> FALSE, flushed |-> FALSE]]
      /\ seen' = [seen EXCEPT ![d].completed = FALSE, ![d].flushed = FALSE]
      /\ call' = [call EXCEPT ![p].pc = "send", ![p].slots = Slots - seen[d].level]
  BY DEF Lock, clear_dma_status
<1>2. seen \in [Dirs -> [level : 0 .. Slots, full : BOOLEAN, completed : BOOLEAN, flushed : BOOLEAN]]
  BY DEF TypeOK
<1>3. Slots - seen[d].level \in Int
  BY <1>2, DmaAssumption
<1> DEFINE n == Slots - seen[d].level
           c == [call[p] EXCEPT !.pc = "send", !.slots = n]
           v == [seen[d] EXCEPT !.completed = FALSE, !.flushed = FALSE]
<1>4. call[p] \in Calls /\ call' = [call EXCEPT ![p] = c]
  BY <1>1 DEF TypeOK
<1> HIDE DEF n
<1>5. n \in Int
  BY <1>3 DEF n
<1>6. /\ c \in Calls /\ c.pc = "send" /\ c.slots = n
      /\ \A f \in {"dir", "sg", "count", "sent", "marked"} : c[f] = call[p][f]
  BY <1>4, <1>5 DEF Calls
<1>7. seen' = [seen EXCEPT ![d] = v] /\ seen[d] \in [level : 0 .. Slots, full : BOOLEAN, completed : BOOLEAN, flushed : BOOLEAN]
  BY <1>1, <1>2
<1>8. v \in [level : 0 .. Slots, full : BOOLEAN, completed : BOOLEAN, flushed : BOOLEAN] /\ ~v.completed /\ ~v.flushed
  BY <1>7
<1> HIDE DEF c, v
<1>9. /\ call' \in [Procs -> Calls] /\ call'[p] = c
      /\ \A r \in Procs : r # p => call'[r] = call[r]
  BY <1>4, <1>6, Called
<1>10. /\ seen' \in [Dirs -> [level : 0 .. Slots, full : BOOLEAN, completed : BOOLEAN, flushed : BOOLEAN]]
       /\ seen'[d] = v /\ \A e \in Dirs : e # d => seen'[e] = seen[e]
  BY <1>2, <1>7, <1>8
<1>11. /\ status' \in [Dirs -> [completed : BOOLEAN, flushed : BOOLEAN]]
       /\ ~status'[d].completed /\ ~status'[d].flushed
       /\ \A e \in Dirs : e # d => status'[e] = status[e]
  BY <1>1 DEF TypeOK
<1> QED
  BY <1>1, <1>6, <1>8, <1>9, <1>10, <1>11 DEF n

\* The next command of a call.
NextCommand(p) ==
    [owner |-> p, page |-> call[p].sent + 1, len |-> call[p].sg[call[p].sent + 1],
     last |-> call[p].sent + 1 = Len(call[p].sg), intr |-> call[p].slots = 1]

\* Sending it.
LEMMA Sent ==
    ASSUME TypeOK, CallsInv, NEW p \in Procs, NEW d \in Dirs, SendCommand(p, d)
    PROVE  /\ NextCommand(p) \in Commands
           /\ Push(d, NextCommand(p))
           /\ call' \in [Procs -> Calls]
           /\ call'[p].sent = call[p].sent + 1 /\ call'[p].slots = call[p].slots - 1
           /\ call'[p].pc = IF call[p].sent + 1 = Len(call[p].sg) THEN "wait" ELSE "send"
           /\ \A f \in {"dir", "sg", "count", "marked"} : call'[p][f] = call[p][f]
           /\ \A r \in Procs : r # p => call'[r] = call[r]
<1> DEFINE l == IF call[p].sent + 1 = Len(call[p].sg) THEN "wait" ELSE "send"
           s == call[p].sent + 1
           t == call[p].slots - 1
           c == [call[p] EXCEPT !.sent = s, !.slots = t, !.pc = l]
<1>1. call[p] \in Calls /\ call[p].pc = "send"
  BY DEF TypeOK, SendCommand
<1>2. Listed(call[p]) /\ call[p].sent \in 0 .. Len(call[p].sg) - 1
  <2>1. /\ Listed(call[p]) /\ call[p].sent \in 0 .. Len(call[p].sg)
        /\ call[p].sent < Len(call[p].sg)
    BY <1>1 DEF CallsInv
  <2>2. Len(call[p].sg) \in Nat
    BY <2>1, ListPages
  <2> QED
    BY <2>1, <2>2
<1>3. call[p].sg[call[p].sent + 1] \in Nat /\ call[p].sent \in Nat
  BY <1>2, ListPages
<1>4. Push(d, NextCommand(p))
  BY DEF SendCommand, NextCommand
<1>5. NextCommand(p) \in Commands
  BY <1>3 DEF NextCommand, Commands
<1>6. call' = [call EXCEPT ![p] = c]
  BY <1>1 DEF SendCommand, TypeOK
<1>7. l \in {"wait", "send"}
  OBVIOUS
<1>8. l = IF call[p].sent + 1 = Len(call[p].sg) THEN "wait" ELSE "send"
  OBVIOUS
<1>9. s \in Nat /\ t \in Int
  BY <1>1, <1>3 DEF Calls
<1>10. s = call[p].sent + 1 /\ t = call[p].slots - 1
  OBVIOUS
<1> HIDE DEF l, s, t
<1>11. /\ c \in Calls /\ c.pc = l /\ c.sent = s /\ c.slots = t
      /\ \A f \in {"dir", "sg", "count", "marked"} : c[f] = call[p][f]
  BY <1>1, <1>9, <1>7 DEF Calls
<1> HIDE DEF c
<1> QED
  BY <1>4, <1>5, <1>6, <1>8, <1>11, <1>10, Called

\* Carrying a command out.
LEMMA MovedBy ==
    ASSUME TypeOK, NEW d \in Dirs, NEW c \in Commands, NEW n \in Nat, Moved(d, c, n)
    PROVE  /\ moved' \in [Dirs -> [bytes : Nat, pages : SUBSET Nat]]
           /\ \A e \in Dirs : e # d => moved'[e] = moved[e]
           /\ fresh[d] => moved'[d] = [bytes |-> n, pages |-> IF n > 0 THEN {c.page} ELSE {}]
           /\ ~fresh[d] => moved'[d] = [bytes |-> moved[d].bytes + n,
                                        pages |-> moved[d].pages \cup IF n > 0 THEN {c.page} ELSE {}]
<1> DEFINE b == IF fresh[d] THEN 0 ELSE moved[d].bytes
           a == IF fresh[d] THEN {} ELSE moved[d].pages
           m == [bytes |-> b + n, pages |-> a \cup (IF n > 0 THEN {c.page} ELSE {})]
<1>1. /\ moved \in [Dirs -> [bytes : Nat, pages : SUBSET Nat]]
      /\ moved[d].bytes \in Nat /\ moved[d].pages \subseteq Nat /\ c.page \in Nat
  BY DEF TypeOK, Commands
<1>2. moved' = [moved EXCEPT ![d] = m]
  BY DEF Moved
<1>3. b \in Nat /\ a \subseteq Nat
  BY <1>1
<1>4. b + n \in Nat /\ a \cup (IF n > 0 THEN {c.page} ELSE {}) \in SUBSET Nat
  BY <1>1, <1>3
<1>5. m \in [bytes : Nat, pages : SUBSET Nat]
  BY <1>4
<1>6. /\ moved' \in [Dirs -> [bytes : Nat, pages : SUBSET Nat]]
      /\ moved'[d] = m /\ \A e \in Dirs : e # d => moved'[e] = moved[e]
  <2> HIDE DEF m
  <2> QED
    BY <1>1, <1>2, <1>5
<1>7. fresh[d] => m = [bytes |-> n, pages |-> IF n > 0 THEN {c.page} ELSE {}]
  OBVIOUS
<1>8. ~fresh[d] => m = [bytes |-> moved[d].bytes + n,
                        pages |-> moved[d].pages \cup IF n > 0 THEN {c.page} ELSE {}]
  OBVIOUS
<1> QED
  BY <1>6, <1>7, <1>8

\* A call that leaves hands what it left in the queue to nobody.
LEMMA Released ==
    ASSUME TypeOK, NEW p \in Procs, Release(p)
    PROVE  /\ call' \in [Procs -> Calls]
           /\ call'[p] = Idle
           /\ \A r \in Procs : r # p => call'[r] = call[r]
           /\ queue' \in [Dirs -> Seq(Commands)]
           /\ \A e \in Dirs : Len(queue'[e]) = Len(queue[e])
           /\ \A e \in Dirs : (\A i \in 1 .. Len(queue[e]) : queue[e][i].owner # p)
                 => queue'[e] = queue[e]
<1>1. call' = [call EXCEPT ![p] = Idle] /\ queue \in [Dirs -> Seq(Commands)]
  BY DEF Release, TypeOK
<1>2. /\ call' \in [Procs -> Calls] /\ call'[p] = Idle
      /\ \A r \in Procs : r # p => call'[r] = call[r]
  BY <1>1, IdleType, Called
<1> DEFINE Left(e, i) == IF queue[e][i].owner = p THEN [queue[e][i] EXCEPT !.owner = Nobody]
                         ELSE queue[e][i]
<1>3. queue' = [e \in Dirs |-> [i \in DOMAIN queue[e] |-> Left(e, i)]]
  BY DEF Release
<1>4. ASSUME NEW e \in Dirs
      PROVE  /\ queue'[e] = [i \in 1 .. Len(queue[e]) |-> Left(e, i)]
             /\ queue'[e] \in Seq(Commands) /\ Len(queue'[e]) = Len(queue[e])
             /\ (\A i \in 1 .. Len(queue[e]) : queue[e][i].owner # p) => queue'[e] = queue[e]
  <2>1. queue[e] \in Seq(Commands) /\ DOMAIN queue[e] = 1 .. Len(queue[e]) /\ Len(queue[e]) \in Nat
    BY <1>1
  <2>2. queue'[e] = [i \in 1 .. Len(queue[e]) |-> Left(e, i)]
    BY <1>3, <2>1
  <2>3. \A i \in 1 .. Len(queue[e]) : Left(e, i) \in Commands
    <3>1. \A i \in 1 .. Len(queue[e]) : queue[e][i] \in Commands
      BY <2>1
    <3> QED
      BY <3>1 DEF Commands
  <2>4. queue'[e] \in Seq(Commands) /\ Len(queue'[e]) = Len(queue[e])
    <3> HIDE DEF Left
    <3> QED
      BY <2>1, <2>2, <2>3
  <2>5. ASSUME \A i \in 1 .. Len(queue[e]) : queue[e][i].owner # p
        PROVE  queue'[e] = queue[e]
    <3>1. \A i \in 1 .. Len(queue[e]) : Left(e, i) = queue[e][i]
      BY <2>5
    <3>2. queue[e] = [i \in 1 .. Len(queue[e]) |-> queue[e][i]]
      BY <2>1
    <3> HIDE DEF Left
    <3> QED
      BY <2>1, <2>2, <2>4, <3>1, <3>2
  <2> QED
    BY <2>2, <2>4, <2>5
<1>5. queue' = [e \in Dirs |-> queue'[e]]
  BY <1>3
<1> QED
  BY <1>2, <1>4, <1>5

-----------------------------------------------------------------------------
(* What a step may leave to a direction that it is not about *)

\* A direction is not disturbed by a step that keeps its queue, its registers and
\* its mutex, that only refreshes what was seen of it, and in which only calls move
\* that are not in the middle of a transfer there.
LEMMA Frame ==
    ASSUME TypeOK, NEW d \in Dirs, Direction(d),
           queue'[d] = queue[d], flushing'[d] = flushing[d], status'[d] = status[d],
           moved'[d] = moved[d], fresh'[d] = fresh[d], mutex'[d] = mutex[d],
           seen'[d].level = seen[d].level \/ seen'[d].level = Len(queue[d]),
           \A r \in Procs : \/ call'[r] = call[r]
                              \/ /\ ~(Sending(r) /\ call[r].dir = d)
                                 /\ ~(call'[r].pc \in {"send", "slot", "wait"} /\ call'[r].dir = d)
    PROVE  Direction(d)'
<1>1. (mutex[d] = Nobody => queue[d] = <<>> /\ ~flushing[d] /\ fresh[d])'
  BY DEF Direction
<1>2. ASSUME NEW p \in Procs
      PROVE  (mutex[d] = p <=> InCall(d, p))'
  <2>1. InCall(d, p)' <=> InCall(d, p)
    BY DEF InCall, Sending
  <2> QED
    BY <2>1 DEF Direction
<1>3. ASSUME NEW p \in Procs, mutex'[d] = p
      PROVE  Holder(d, p)'
  <2>1. InCall(d, p) /\ Holder(d, p)
    BY <1>3 DEF Direction
  <2>2. call'[p] = call[p]
    BY <2>1 DEF InCall
  <2>3. Len(queue[d]) \in Nat
    BY DEF TypeOK
  <2>4. Running(d, p) => Running(d, p)'
    BY <2>2 DEF Running, Done, Upto
  <2>5. Completed(d, p) => Completed(d, p)'
    BY <2>2 DEF Completed
  <2>6. Flushed(d, p) => Flushed(d, p)'
    BY <2>2 DEF Flushed
  <2> QED
    BY <2>1, <2>2, <2>3, <2>4, <2>5, <2>6 DEF Holder
<1> QED
  BY <1>1, <1>2, <1>3 DEF Direction

\* A call that is idle, or whose list and position stay, keeps what is known of it.
LEMMA CallsKept ==
    ASSUME CallsInv,
           \A r \in Procs : \/ call'[r] = call[r]
                            \/ call'[r].pc = "idle"
                            \/ /\ call[r].pc # "idle" /\ Listed(call'[r])
                               /\ call'[r].sg = call[r].sg
                               /\ call'[r].sent = call[r].sent
                               /\ call'[r].pc # "mapped"
                               /\ call'[r].pc \in {"send", "slot"} =>
                                    call[r].sent < Len(call[r].sg)
    PROVE  CallsInv'
  BY DEF CallsInv

LEMMA ListKept ==
    ASSUME NEW c, NEW e, Listed(c), e.sg = c.sg, e.count = c.count
    PROVE  Listed(e)
  BY DEF Listed

LEMMA CutKept ==
    ASSUME NEW m, NEW c, NEW e, CutShort(m, c), e.sg = c.sg, e.count = c.count
    PROVE  CutShort(m, e)
  BY DEF CutShort, Upto

\* Commands are queued only while a call sends its list.
LEMMA Busy ==
    ASSUME DmaInv, NEW d \in Dirs, ~disturbed[d], queue[d] # <<>>
    PROVE  /\ mutex[d] \in Procs
           /\ InCall(d, mutex[d])
           /\ Running(d, mutex[d])
           /\ Listed(call[mutex[d]]) /\ call[mutex[d]].sent \in 0 .. Len(call[mutex[d]].sg)
           /\ Len(queue[d]) \in Nat \ {0} /\ queue[d] \in Seq(Commands)
<1>1. Direction(d) /\ mutex[d] \in Procs \cup {Nobody}
  BY DEF DmaInv, DirectionsInv, TypeOK
<1>2. mutex[d] \in Procs
  BY <1>1 DEF Direction
<1>3. InCall(d, mutex[d]) /\ Holder(d, mutex[d])
  BY <1>1, <1>2 DEF Direction
<1>4. Running(d, mutex[d])
  BY <1>3 DEF Holder, Completed, Flushed
<1>5. Listed(call[mutex[d]]) /\ call[mutex[d]].sent \in 0 .. Len(call[mutex[d]].sg)
  BY <1>2, <1>3 DEF InCall, Sending, DmaInv, CallsInv
<1>6. queue[d] \in Seq(Commands) /\ Len(queue[d]) \in Nat \ {0}
  BY DEF DmaInv, TypeOK
<1> QED
  BY <1>2, <1>3, <1>4, <1>5, <1>6

-----------------------------------------------------------------------------
(* The board *)

\* Carrying out the next command of a list keeps the books of its transfer.
LEMMA BoardCompletesInv ==
    ASSUME DmaInv, NEW d \in Dirs, BoardCompletes(d)
    PROVE  DmaInv'
<1> DEFINE p == mutex[d]
           k == Done(d, p)
           q == queue[d]
           c == Head(q)
           N == Len(call[p].sg)
<1>1. /\ p \in Procs /\ InCall(d, p) /\ Running(d, p) /\ Listed(call[p])
      /\ call[p].sent \in 0 .. N
      /\ Len(q) \in Nat \ {0} /\ q \in Seq(Commands) /\ ~disturbed[d]
  BY Busy DEF BoardCompletes
<1>2. /\ N \in Nat \ {0} /\ k \in 0 .. N - 1
      /\ k + Len(q) = call[p].sent
  <2>1. N \in Nat \ {0}
    BY <1>1, ListPages
  <2>2. k \in 0 .. N - 1
    BY <1>1 DEF Running
  <2> QED
    BY <1>1, <2>1, <2>2 DEF Done
<1>3. /\ c \in Commands /\ c = q[1] /\ Tail(q) \in Seq(Commands) /\ Len(Tail(q)) = Len(q) - 1
      /\ \A i \in 1 .. Len(Tail(q)) : Tail(q)[i] = q[i + 1] /\ i + 1 \in 1 .. Len(q)
  BY <1>1
<1>4. c.page = k + 1 /\ c.len = call[p].sg[k + 1] /\ (c.last <=> k + 1 = N)
  BY <1>1, <1>3 DEF Running
<1>5. /\ Moved(d, c, c.len)
      /\ fresh' = [fresh EXCEPT ![d] = c.last]
      /\ status' = [status EXCEPT ![d].completed = @ \/ c.last]
      /\ irq' = (irq \/ c.last \/ c.intr)
      /\ queue' = [queue EXCEPT ![d] = Tail(q)]
      /\ UNCHANGED <<flushing, seen, mutex, call, disturbed>>
  BY DEF BoardCompletes, driver
<1>6. /\ moved' \in [Dirs -> [bytes : Nat, pages : SUBSET Nat]]
      /\ \A e \in Dirs : e # d => moved'[e] = moved[e]
  BY <1>3, <1>5, MovedBy DEF DmaInv, Commands
<1>7. moved'[d] = [bytes |-> Upto(call[p], k + 1), pages |-> 1 .. k + 1]
  <2>1. /\ c.len \in Nat \ {0} /\ Upto(call[p], k) + c.len = Upto(call[p], k + 1)
        /\ Upto(call[p], 0) = 0 /\ Upto(call[p], k) \in Nat
    BY <1>1, <1>2, <1>4, ListPages
  <2>2. TypeOK /\ Moved(d, c, c.len) /\ c \in Commands
    BY <1>3, <1>5 DEF DmaInv
  <2>3. (IF c.len > 0 THEN {c.page} ELSE {}) = {c.page}
    BY <2>1
  <2> HIDE DEF c, k
  <2>4. CASE fresh[d]
    <3>1. moved'[d] = [bytes |-> c.len, pages |-> {c.page}]
      BY <2>1, <2>4, <2>2, <2>3, MovedBy
    <3>2. k = 0
      BY <1>1, <2>4 DEF Running, k
    <3>3. c.len = Upto(call[p], k + 1) /\ {c.page} = 1 .. k + 1
      BY <1>4, <2>1, <3>2
    <3> QED
      BY <3>1, <3>3
  <2>5. CASE ~fresh[d]
    <3>1. moved'[d] = [bytes |-> moved[d].bytes + c.len, pages |-> moved[d].pages \cup {c.page}]
      BY <2>1, <2>5, <2>2, <2>3, MovedBy
    <3>2. moved[d] = [bytes |-> Upto(call[p], k), pages |-> 1 .. k]
      BY <1>1, <2>5 DEF Running, k
    <3>3. (1 .. k) \cup {c.page} = 1 .. k + 1
      BY <1>2, <1>4
    <3>4. moved[d].bytes + c.len = Upto(call[p], k + 1) /\ moved[d].pages \cup {c.page} = 1 .. k + 1
      BY <2>1, <3>2, <3>3
    <3> QED
      BY <3>1, <3>4
  <2> QED
    BY <2>4, <2>5
<1>8. /\ status' \in [Dirs -> [completed : BOOLEAN, flushed : BOOLEAN]]
      /\ \A e \in Dirs : e # d => status'[e] = status[e]
      /\ status'[d].completed <=> status[d].completed \/ c.last
      /\ status'[d].flushed = status[d].flushed
  <2>1. status \in [Dirs -> [completed : BOOLEAN, flushed : BOOLEAN]] /\ c.last \in BOOLEAN
    BY <1>3 DEF DmaInv, TypeOK, Commands
  <2> QED
    BY <1>5, <2>1
<1>9. /\ queue' \in [Dirs -> Seq(Commands)] /\ queue'[d] = Tail(q)
      /\ \A e \in Dirs : e # d => queue'[e] = queue[e]
      /\ \A e \in Dirs : Len(queue'[e]) <= Slots
  <2>1. queue \in [Dirs -> Seq(Commands)] /\ \A e \in Dirs : Len(queue[e]) <= Slots
    BY DEF DmaInv, TypeOK
  <2>2. Slots \in Nat
    BY DmaAssumption
  <2> QED
    BY <1>1, <1>3, <1>5, <2>1, <2>2
<1>10. /\ fresh' \in [Dirs -> BOOLEAN] /\ (fresh'[d] <=> k + 1 = N)
       /\ \A e \in Dirs : e # d => fresh'[e] = fresh[e]
       /\ irq' \in BOOLEAN
  BY <1>3, <1>4, <1>5 DEF DmaInv, TypeOK, Commands
<1>11. TypeOK'
  BY <1>5, <1>6, <1>8, <1>9, <1>10 DEF DmaInv, TypeOK
<1>12. CallsInv'
  BY <1>5 DEF DmaInv, CallsInv
<1>13. SeenInv'
  BY <1>5, <1>8 DEF DmaInv, SeenInv
<1>14. ASSUME NEW e \in Dirs, ~disturbed'[e]
       PROVE  Direction(e)'
  <2>1. Direction(e)
    BY <1>5, <1>14 DEF DmaInv, DirectionsInv
  <2>2. CASE e # d
    <3>1. /\ TypeOK /\ queue'[e] = queue[e] /\ flushing'[e] = flushing[e] /\ status'[e] = status[e]
          /\ moved'[e] = moved[e] /\ fresh'[e] = fresh[e] /\ mutex'[e] = mutex[e]
          /\ seen'[e].level = seen[e].level
          /\ \A r \in Procs : call'[r] = call[r]
      BY <1>5, <1>6, <1>8, <1>9, <1>10, <2>2 DEF DmaInv
    <3> QED
      BY <2>1, <3>1, Frame
  <2>3. CASE e = d
    <3>1. Done(d, p)' = k + 1
      BY <1>1, <1>2, <1>3, <1>5, <1>9 DEF Done
    <3>2. call'[p] = call[p] /\ mutex' = mutex /\ flushing' = flushing /\ seen' = seen
      BY <1>5
    <3>3. ~status[d].completed /\ ~status[d].flushed /\ ~flushing[d]
      BY <1>1 DEF Running
    <3>4. CASE k + 1 = N
      <4>1. Len(q) = 1 /\ queue'[d] = <<>>
        <5>1. Len(q) = 1
          <6>1. \A a, b, x, y \in Nat : a + b = x /\ x <= y /\ a + 1 = y /\ b # 0 => b = 1
            OBVIOUS
          <6>2. k \in Nat /\ Len(q) \in Nat /\ call[p].sent \in Nat /\ N \in Nat /\ call[p].sent <= N
            BY <1>1, <1>2
          <6> HIDE DEF q, k, N
          <6> QED
            BY <1>1, <1>2, <3>4, <6>1, <6>2
        <5>2. Len(Tail(q)) = 0
          BY <1>3, <5>1
        <5> QED
          BY <1>3, <1>9, <5>1, <5>2
      <4>2. call[p].pc = "wait"
        <5>1. call[p].sent = N
          BY <1>1, <1>2, <3>4, <4>1
        <5>2. call[p].pc \in {"send", "slot", "wait"}
          BY <1>1 DEF InCall, Sending
        <5>3. call[p].pc \in {"send", "slot"} => call[p].sent < N
          BY <1>1 DEF DmaInv, CallsInv
        <5> QED
          BY <1>2, <5>1, <5>2, <5>3
      <4>3. status'[d].completed /\ ~status'[d].flushed /\ ~flushing'[d]
        BY <1>4, <1>8, <3>2, <3>3, <3>4
      <4>4. moved'[d] = [bytes |-> call[p].count, pages |-> DOMAIN call[p].sg]
        <5>1. call[p].sg \in Seq(Nat) /\ Upto(call[p], N) = call[p].count
          BY <1>1, ListPages
        <5>2. DOMAIN call[p].sg = 1 .. N
          BY <5>1
        <5> QED
          BY <1>7, <3>4, <5>1, <5>2
      <4>5. fresh'[d]
        BY <1>10, <3>4
      <4>6. Completed(d, p)'
        BY <3>2, <4>1, <4>2, <4>3, <4>4, <4>5 DEF Completed
      <4>7. Holder(d, p)'
        BY <3>2, <4>2, <4>6 DEF Holder
      <4> QED
        BY <1>1, <2>1, <2>3, <3>2, <4>1, <4>3, <4>5, <4>7, DmaAssumption, <1>5
        DEF Direction, InCall, Sending
    <3>5. CASE k + 1 # N
      <4>1. Running(d, p)'
        <5>1. (~status[d].completed /\ ~status[d].flushed /\ ~flushing[d])'
          BY <1>4, <1>8, <3>2, <3>3, <3>5
        <5>2. Done(d, p)' \in 0 .. N - 1
          BY <1>2, <3>1, <3>5
        <5>3. ASSUME NEW i \in 1 .. Len(queue'[d])
              PROVE  /\ queue'[d][i].owner = p
                     /\ queue'[d][i].page = Done(d, p)' + i
                     /\ queue'[d][i].len = call'[p].sg[Done(d, p)' + i]
                     /\ queue'[d][i].last <=> Done(d, p)' + i = Len(call'[p].sg)
          <6>1. queue'[d][i] = q[i + 1] /\ i + 1 \in 1 .. Len(q) /\ i \in Nat
            BY <1>1, <1>3, <1>9
          <6>2. k + (i + 1) = Done(d, p)' + i
            BY <1>2, <3>1, <6>1
          <6>3. /\ q[i + 1].owner = p
                /\ q[i + 1].page = k + (i + 1)
                /\ q[i + 1].len = call[p].sg[k + (i + 1)]
                /\ q[i + 1].last <=> k + (i + 1) = N
            BY <1>1, <6>1 DEF Running
          <6> QED
            BY <3>2, <6>1, <6>2, <6>3
        <5>4. ~fresh'[d] /\ Done(d, p)' # 0
          BY <1>2, <1>10, <3>1, <3>5
        <5>5. moved'[d] = [bytes |-> Upto(call[p], Done(d, p)'), pages |-> 1 .. Done(d, p)']
          BY <1>7, <3>1
        <5>6. call[p].pc = "wait" => call[p].sent = N
          BY <1>1 DEF Running
        <5> QED
          BY <3>2, <5>1, <5>2, <5>3, <5>4, <5>5, <5>6 DEF Running, Upto
      <4>2. Holder(d, p)
        BY <1>1, <2>1, <2>3 DEF Direction
      <4>3. Slots \in Nat /\ Len(queue'[d]) = Len(q) - 1
        BY <1>3, <1>9, DmaAssumption
      <4>4. Holder(d, p)'
        <5>1. call[p] \in Calls /\ seen[d].level \in 0 .. Slots
          BY <1>1 DEF DmaInv, TypeOK
        <5>2. call[p].slots \in 0 .. Slots - Len(q) => call[p].slots \in 0 .. Slots - Len(queue'[d])
          <6>1. \A a, b, x \in Nat : b = a - 1 => 0 .. x - a \subseteq 0 .. x - b
            OBVIOUS
          <6>2. Len(queue'[d]) \in Nat
            BY <1>1, <4>3
          <6> QED
            BY <1>1, <4>3, <6>1, <6>2
        <5>3. Len(q) <= seen[d].level => Len(queue'[d]) <= seen[d].level
          BY <1>1, <4>3, <5>1
        <5> QED
          BY <3>2, <4>1, <4>2, <5>2, <5>3 DEF Holder
      <4> QED
        BY <1>1, <1>5, <2>1, <2>3, <3>2, <4>4, DmaAssumption DEF Direction, InCall, Sending
    <3> QED
      BY <3>4, <3>5
  <2> QED
    BY <2>2, <2>3
<1> QED
  BY <1>11, <1>12, <1>13, <1>14 DEF DmaInv, DirectionsInv

\* A message that ends early empties the queue: the command that ends the list, if
\* it was sent at all, is the last one there.
LEMMA BoardFlushesInv ==
    ASSUME DmaInv, BoardFlushes
    PROVE  DmaInv'
<1> DEFINE d == "read"
           p == mutex[d]
           q == queue[d]
           c == Head(q)
           N == Len(call[p].sg)
           ends == {i \in DOMAIN q : q[i].last}
<1>1. d \in Dirs /\ ~disturbed[d] /\ q # <<>>
  BY DEF Dirs, BoardFlushes
<1>2. /\ p \in Procs /\ InCall(d, p) /\ Running(d, p) /\ Listed(call[p])
      /\ call[p].sent \in 0 .. N
      /\ Len(q) \in Nat \ {0} /\ q \in Seq(Commands)
  BY <1>1, Busy
<1>3. /\ N \in Nat \ {0}
      /\ Done(d, p) \in Nat /\ Done(d, p) + Len(q) = call[p].sent
  BY <1>2, ListPages DEF Running, Done
<1>4. /\ \E n \in 0 .. c.len : Moved(d, c, n)
      /\ queue' = [queue EXCEPT ![d] =
                      IF ends = {} THEN <<>>
                      ELSE SubSeq(q, (CHOOSE i \in ends : \A j \in ends : i <= j) + 1, Len(q))]
      /\ flushing' = [flushing EXCEPT ![d] = ends = {}]
      /\ status' = [status EXCEPT ![d].flushed = TRUE]
      /\ fresh' = [fresh EXCEPT ![d] = TRUE]
      /\ irq' = TRUE
      /\ UNCHANGED <<seen, mutex, call, disturbed>>
  BY DEF BoardFlushes, driver
<1>5. DOMAIN q = 1 .. Len(q) /\ \A i \in 1 .. Len(q) : q[i].last <=> Done(d, p) + i = N
  BY <1>2 DEF Running
<1>6. (ends = {} <=> call[p].sent # N) /\ (ends # {} => ends = {Len(q)})
  <2>1. \A i \in 1 .. Len(q) : q[i].last => i = Len(q)
    BY <1>2, <1>3, <1>5
  <2>2. Len(q) \in 1 .. Len(q) /\ (q[Len(q)].last <=> call[p].sent = N)
    BY <1>2, <1>3, <1>5
  <2> QED
    BY <1>5, <2>1, <2>2
<1>7. queue' = [queue EXCEPT ![d] = <<>>]
  <2>1. CASE ends = {}
    BY <1>4, <2>1
  <2>2. CASE ends # {}
    <3>1. (CHOOSE i \in ends : \A j \in ends : i <= j) = Len(q)
      BY <1>2, <1>6, <2>2
    <3>2. SubSeq(q, Len(q) + 1, Len(q)) = <<>>
      BY <1>2
    <3> HIDE DEF q, ends
    <3> QED
      BY <1>4, <2>2, <3>1, <3>2
  <2> QED
    BY <2>1, <2>2
<1> HIDE DEF ends
<1>8. /\ moved' \in [Dirs -> [bytes : Nat, pages : SUBSET Nat]]
      /\ \A e \in Dirs : e # d => moved'[e] = moved[e]
      /\ CutShort(moved'[d], call[p])
  <2> DEFINE k == Done(d, p)
  <2>1. c \in Commands /\ c = q[1] /\ 1 \in 1 .. Len(q)
    BY <1>2
  <2>2. PICK n \in 0 .. c.len : Moved(d, c, n)
    BY <1>4
  <2>3. n \in Nat
    BY <2>1, <2>2 DEF Commands
  <2>4. c.page = k + 1 /\ c.len = call[p].sg[k + 1]
    BY <1>2, <2>1 DEF Running
  <2>5. /\ k \in 0 .. N - 1
        /\ fresh[d] <=> k = 0
        /\ ~fresh[d] => moved[d] = [bytes |-> Upto(call[p], k), pages |-> 1 .. k]
    BY <1>2 DEF Running
  <2>6. Upto(call[p], 0) = 0
    BY DEF Upto
  <2> HIDE DEF c, d, k
  <2>7. /\ moved' \in [Dirs -> [bytes : Nat, pages : SUBSET Nat]]
        /\ \A e \in Dirs : e # d => moved'[e] = moved[e]
        /\ fresh[d] => moved'[d] = [bytes |-> n, pages |-> IF n > 0 THEN {c.page} ELSE {}]
        /\ ~fresh[d] => moved'[d] = [bytes |-> moved[d].bytes + n,
                                     pages |-> moved[d].pages \cup IF n > 0 THEN {c.page} ELSE {}]
    BY <1>1, <2>1, <2>2, <2>3, MovedBy DEF DmaInv
  <2>8. moved'[d] = [bytes |-> Upto(call[p], k) + n,
                     pages |-> 1 .. k \cup (IF n > 0 THEN {k + 1} ELSE {})]
    <3>1. CASE fresh[d]
      <4>1. k = 0 /\ 0 + n = n /\ 1 .. 0 = {}
        BY <2>3, <2>5, <3>1
      <4>2. moved'[d] = [bytes |-> n, pages |-> IF n > 0 THEN {k + 1} ELSE {}]
        BY <2>4, <2>7, <3>1
      <4> QED
        BY <2>6, <4>1, <4>2
    <3>2. CASE ~fresh[d]
      <4>1. moved[d].bytes = Upto(call[p], k) /\ moved[d].pages = 1 .. k
        BY <2>5, <3>2
      <4> QED
        BY <2>4, <2>7, <3>2, <4>1
    <3> QED
      BY <3>1, <3>2
  <2>9. n \in 0 .. call[p].sg[k + 1]
    BY <2>2, <2>4
  <2> QED
    BY <2>5, <2>7, <2>8, <2>9 DEF CutShort
<1>9. /\ queue' \in [Dirs -> Seq(Commands)] /\ queue'[d] = <<>>
      /\ \A e \in Dirs : Len(queue'[e]) <= Slots
      /\ \A e \in Dirs : e # d => queue'[e] = queue[e]
  BY <1>1, <1>7, DmaAssumption DEF DmaInv, TypeOK
<1>10. /\ flushing' \in [Dirs -> BOOLEAN] /\ (flushing'[d] <=> call[p].sent # N)
       /\ fresh' \in [Dirs -> BOOLEAN] /\ fresh'[d]
       /\ \A e \in Dirs : e # d => flushing'[e] = flushing[e] /\ fresh'[e] = fresh[e]
  BY <1>1, <1>4, <1>6 DEF DmaInv, TypeOK
<1>11. /\ status' \in [Dirs -> [completed : BOOLEAN, flushed : BOOLEAN]]
       /\ status'[d].flushed /\ status'[d].completed = status[d].completed
       /\ \A e \in Dirs : e # d => status'[e] = status[e]
  BY <1>1, <1>4 DEF DmaInv, TypeOK
<1>12. TypeOK'
  BY <1>4, <1>8, <1>9, <1>10, <1>11 DEF DmaInv, TypeOK
<1>13. CallsInv' /\ SeenInv'
  BY <1>1, <1>4, <1>11 DEF DmaInv, CallsInv, SeenInv
<1>14. ASSUME NEW e \in Dirs, ~disturbed'[e]
       PROVE  Direction(e)'
  <2>1. Direction(e)
    BY <1>4, <1>14 DEF DmaInv, DirectionsInv
  <2>2. CASE e # d
    <3>1. /\ TypeOK /\ queue'[e] = queue[e] /\ flushing'[e] = flushing[e] /\ status'[e] = status[e]
          /\ moved'[e] = moved[e] /\ fresh'[e] = fresh[e] /\ mutex'[e] = mutex[e]
          /\ seen'[e].level = seen[e].level
          /\ \A r \in Procs : call'[r] = call[r]
      BY <1>4, <1>8, <1>9, <1>10, <1>11, <2>2 DEF DmaInv
    <3> QED
      BY <2>1, <3>1, Frame
  <2>3. CASE e = d
    <3>1. call'[p] = call[p] /\ mutex' = mutex /\ seen' = seen /\ ~status[d].completed
      BY <1>2, <1>4 DEF Running
    <3>2. call[p].pc = "wait" <=> call[p].sent = N
      <4>1. call[p].pc \in {"send", "slot", "wait"}
        BY <1>2 DEF InCall, Sending
      <4>2. call[p].pc \in {"send", "slot"} => call[p].sent < N
        BY <1>2 DEF DmaInv, CallsInv
      <4>3. call[p].pc = "wait" => call[p].sent = N
        BY <1>2 DEF Running
      <4> QED
        BY <1>2, <1>3, <4>1, <4>2, <4>3
    <3>3. Flushed(d, p)'
      BY <1>8, <1>9, <1>10, <1>11, <3>1, <3>2 DEF Flushed
    <3>4. Slots \in Nat /\ Len(queue'[d]) = 0
      BY <1>9, DmaAssumption
    <3>5. Holder(d, p)
      BY <1>2, <2>1, <2>3 DEF Direction
    <3>6. /\ call[p].slots \in 0 .. Slots - Len(q) => call[p].slots \in 0 .. Slots - Len(queue'[d])
          /\ 0 <= seen[d].level
      <4>1. seen[d].level \in 0 .. Slots
        BY <1>1 DEF DmaInv, TypeOK
      <4> QED
        BY <1>2, <3>4, <4>1
    <3>7. Holder(d, p)'
      BY <3>1, <3>3, <3>4, <3>5, <3>6 DEF Holder
    <3>8. \A r \in Procs : mutex'[d] = r <=> InCall(d, r)'
      BY <1>4, <2>1, <2>3 DEF Direction, InCall, Sending
    <3> QED
      BY <1>2, <2>3, <3>1, <3>7, <3>8, DmaAssumption DEF Direction
  <2> QED
    BY <2>2, <2>3
<1> QED
  BY <1>12, <1>13, <1>14 DEF DmaInv, DirectionsInv

-----------------------------------------------------------------------------
(* The driver *)

\* The interrupt handler only reads the status.
LEMMA InterruptInv ==
    ASSUME DmaInv, intr_handler
    PROVE  DmaInv'
<1>1. /\ irq' = FALSE /\ update_dma_buffer_status
      /\ UNCHANGED <<queue, flushing, status, moved, fresh, mutex, call, disturbed>>
  BY DEF intr_handler
<1>2. /\ seen' \in [Dirs -> [level : 0 .. Slots, full : BOOLEAN, completed : BOOLEAN, flushed : BOOLEAN]]
      /\ \A d \in Dirs : /\ seen'[d].level = Len(queue[d])
                         /\ seen'[d].completed = status[d].completed
                         /\ seen'[d].flushed = status[d].flushed
  BY <1>1, Refreshed DEF DmaInv
<1>3. TypeOK'
  BY <1>1, <1>2 DEF DmaInv, TypeOK
<1>4. CallsInv' /\ SeenInv'
  BY <1>1, <1>2 DEF DmaInv, CallsInv, SeenInv
<1>5. ASSUME NEW e \in Dirs, ~disturbed'[e]
      PROVE  Direction(e)'
  BY <1>1, <1>2, <1>5, Frame DEF DmaInv, DirectionsInv
<1> QED
  BY <1>3, <1>4, <1>5 DEF DmaInv, DirectionsInv

\* A new call touches nothing but itself.
LEMMA EnterInv ==
    ASSUME DmaInv, NEW p \in Procs, NEW d \in Dirs, Enter(p, d)
    PROVE  DmaInv'
<1>1. /\ call[p].pc = "idle"
      /\ UNCHANGED <<queue, flushing, status, moved, fresh, irq, seen, mutex, disturbed>>
  BY DEF Enter, board
<1>2. /\ call' \in [Procs -> Calls]
      /\ call'[p].pc = "mapped" /\ call'[p].sent = 0 /\ Listed(call'[p])
      /\ \A r \in Procs : r # p => call'[r] = call[r]
  BY Entered DEF DmaInv
<1>3. TypeOK' /\ SeenInv'
  BY <1>1, <1>2 DEF DmaInv, TypeOK, SeenInv
<1>4. CallsInv'
  <2>1. Len(call'[p].sg) \in Nat \ {0}
    BY <1>2, ListPages
  <2>2. 0 \in 0 .. Len(call'[p].sg)
    BY <2>1
  <2> QED
    BY <1>2, <2>2 DEF DmaInv, CallsInv
<1>5. ASSUME NEW e \in Dirs, ~disturbed'[e]
      PROVE  Direction(e)'
  BY <1>1, <1>2, <1>5, Frame DEF DmaInv, DirectionsInv, Sending
<1> QED
  BY <1>3, <1>4, <1>5 DEF DmaInv, DirectionsInv

\* A call that is refused, and one that takes the mutex of an idle direction.
LEMMA LockInv ==
    ASSUME DmaInv, NEW p \in Procs, NEW d \in Dirs, Lock(p, d)
    PROVE  DmaInv'
<1>1. /\ call[p].pc = "mapped" /\ call[p].dir = d
      /\ UNCHANGED <<queue, flushing, moved, fresh, irq, disturbed>>
  BY DEF Lock
<1>2. CASE mutex[d] # Nobody
  <2>1. /\ call' = [call EXCEPT ![p] = Idle] /\ UNCHANGED <<status, seen, mutex>>
    BY <1>2 DEF Lock
  <2>2. /\ call' \in [Procs -> Calls] /\ call'[p].pc = "idle"
        /\ \A r \in Procs : r # p => call'[r] = call[r]
    BY <2>1, IdleType, Called DEF DmaInv
  <2>3. TypeOK' /\ SeenInv'
    BY <1>1, <2>1, <2>2 DEF DmaInv, TypeOK, SeenInv
  <2>4. CallsInv'
    BY <2>2 DEF DmaInv, CallsInv
  <2>5. ASSUME NEW e \in Dirs, ~disturbed'[e]
        PROVE  Direction(e)'
    BY <1>1, <2>1, <2>2, <2>5, Frame DEF DmaInv, DirectionsInv, Sending
  <2> QED
    BY <2>3, <2>4, <2>5 DEF DmaInv, DirectionsInv
<1>3. CASE mutex[d] = Nobody
  <2>1. /\ call' \in [Procs -> Calls]
        /\ call'[p].pc = "send" /\ call'[p].slots = Slots - seen[d].level
        /\ \A f \in {"dir", "sg", "count", "sent", "marked"} : call'[p][f] = call[p][f]
        /\ \A r \in Procs : r # p => call'[r] = call[r]
        /\ mutex' = [mutex EXCEPT ![d] = p]
        /\ status' \in [Dirs -> [completed : BOOLEAN, flushed : BOOLEAN]]
        /\ ~status'[d].completed /\ ~status'[d].flushed
        /\ seen' \in [Dirs -> [level : 0 .. Slots, full : BOOLEAN,
                               completed : BOOLEAN, flushed : BOOLEAN]]
        /\ ~seen'[d].completed /\ ~seen'[d].flushed
        /\ \A e \in Dirs : e # d => seen'[e] = seen[e] /\ status'[e] = status[e]
    BY <1>3, Locked DEF DmaInv
  <2>2. call'[p].dir = d /\ call'[p].sg = call[p].sg /\ call'[p].count = call[p].count /\ call'[p].sent = call[p].sent
    BY <1>1, <2>1
  <2>3. mutex' \in [Dirs -> Procs \cup {Nobody}] /\ mutex'[d] = p /\ \A e \in Dirs : e # d => mutex'[e] = mutex[e]
    BY <2>1 DEF DmaInv, TypeOK
  <2>4. TypeOK'
    BY <1>1, <2>1, <2>3 DEF DmaInv, TypeOK
  <2>5. SeenInv'
    BY <2>1 DEF DmaInv, SeenInv
  <2>6. Listed(call[p]) /\ Listed(call'[p]) /\ call[p].sent = 0 /\ Len(call[p].sg) \in Nat \ {0}
    <3>1. Listed(call[p]) /\ call[p].sent = 0
      BY <1>1 DEF DmaInv, CallsInv
    <3> QED
      BY <2>2, <3>1, ListPages, ListKept
  <2>7. CallsInv'
    <3>1. 0 < Len(call[p].sg) /\ 0 \in 0 .. Len(call[p].sg)
      BY <2>6
    <3> QED
      BY <2>1, <2>2, <2>6, <3>1 DEF DmaInv, CallsInv
  <2>8. ASSUME NEW e \in Dirs, ~disturbed'[e]
        PROVE  Direction(e)'
    <3>1. Direction(e)
      BY <1>1, <2>8 DEF DmaInv, DirectionsInv
    <3>2. CASE e # d
      <4>1. /\ TypeOK /\ queue'[e] = queue[e] /\ flushing'[e] = flushing[e] /\ status'[e] = status[e]
            /\ moved'[e] = moved[e] /\ fresh'[e] = fresh[e] /\ mutex'[e] = mutex[e]
            /\ seen'[e].level = seen[e].level
        BY <1>1, <2>1, <2>3, <3>2 DEF DmaInv
      <4>2. call[p].dir # e /\ call'[p].dir # e
        BY <1>1, <2>2, <3>2
      <4> QED
        BY <2>1, <3>1, <4>1, <4>2, Frame
    <3>3. CASE e = d
      <4>1. queue'[d] = <<>> /\ ~flushing'[d] /\ fresh'[d] /\ Len(queue'[d]) = 0
        BY <1>1, <1>3, <3>1, <3>3 DEF Direction
      <4>2. Done(d, p)' = 0
        <5>1. call'[p].sent = 0
          BY <2>2, <2>6
        <5>2. Done(d, p)' = call'[p].sent - Len(queue'[d])
          BY DEF Done
        <5>3. Len(queue'[d]) = 0
          BY <4>1
        <5> QED
          BY <5>1, <5>2, <5>3
      <4>3. 0 \in 0 .. Len(call'[p].sg) - 1 /\ 1 .. 0 = {}
        BY <2>2, <2>6
      <4>4. Running(d, p)'
        BY <2>1, <2>2, <4>1, <4>2, <4>3 DEF Running
      <4>5. Slots - seen[d].level \in 0 .. Slots
        <5>1. seen[d].level \in 0 .. Slots /\ Slots \in Nat
          BY DmaAssumption DEF DmaInv, TypeOK
        <5> QED
          BY <5>1
      <4>6. Holder(d, p)'
        BY <2>1, <4>1, <4>4, <4>5, DmaAssumption DEF Holder
      <4>7. ASSUME NEW r \in Procs
            PROVE  (mutex[d] = r <=> InCall(d, r))'
        <5>1. CASE r = p
          BY <2>1, <2>2, <2>3, <5>1 DEF InCall, Sending
        <5>2. CASE r # p
          <6>1. ~InCall(d, r)
            BY <1>3, <3>1, <3>3, DmaAssumption DEF Direction
          <6> QED
            BY <2>1, <2>3, <5>2, <6>1 DEF InCall, Sending
        <5> QED
          BY <5>1, <5>2
      <4> QED
        BY <2>3, <3>3, <4>6, <4>7, DmaAssumption DEF Direction
    <3> QED
      BY <3>2, <3>3
  <2> QED
    BY <2>4, <2>5, <2>7, <2>8 DEF DmaInv, DirectionsInv
<1> QED
  BY <1>2, <1>3

\* The call that holds the mutex of its direction.
LEMMA Holding ==
    ASSUME DmaInv, NEW p \in Procs, NEW d \in Dirs, InCall(d, p)
    PROVE  /\ call[p] \in Calls /\ Listed(call[p]) /\ Len(call[p].sg) \in Nat \ {0}
           /\ call[p].sent \in 0 .. Len(call[p].sg)
           /\ call[p].pc \in {"send", "slot"} => call[p].sent < Len(call[p].sg)
           /\ queue[d] \in Seq(Commands) /\ Len(queue[d]) \in 0 .. Slots
           /\ seen[d].level \in 0 .. Slots
           /\ ~disturbed[d] =>
                /\ Direction(d) /\ Holder(d, p) /\ mutex[d] = p
                /\ \A r \in Procs : r # p => ~InCall(d, r)
<1>1. call[p].pc # "idle"
  BY DEF InCall, Sending
<1>2. /\ Listed(call[p]) /\ call[p].sent \in 0 .. Len(call[p].sg)
      /\ call[p].pc \in {"send", "slot"} => call[p].sent < Len(call[p].sg)
  BY <1>1 DEF DmaInv, CallsInv
<1>3. call[p] \in Calls /\ queue[d] \in Seq(Commands) /\ Len(queue[d]) \in 0 .. Slots
      /\ seen[d].level \in 0 .. Slots
  BY DmaAssumption DEF DmaInv, TypeOK
<1>4. ~disturbed[d] => /\ Direction(d) /\ Holder(d, p) /\ mutex[d] = p
                       /\ \A r \in Procs : r # p => ~InCall(d, r)
  BY DEF DmaInv, DirectionsInv, Direction
<1> QED
  BY <1>2, <1>3, <1>4, ListPages

\* A step of the call that holds the mutex: what is left to show is that the call
\* still describes what the board does.
LEMMA HolderSteps ==
    ASSUME DmaInv, NEW p \in Procs, NEW d \in Dirs, InCall(d, p), InCall(d, p)',
           Holder(d, p)',
           \A r \in Procs : r # p => call'[r] = call[r],
           mutex' = mutex, ~disturbed[d]
    PROVE  Direction(d)'
<1>1. /\ Direction(d) /\ Holder(d, p) /\ mutex[d] = p
      /\ \A r \in Procs : r # p => ~InCall(d, r)
  BY Holding
<1>2. \A r \in Procs : r # p => ~InCall(d, r)'
  BY <1>1 DEF InCall, Sending
<1> QED
  BY <1>1, <1>2, DmaAssumption DEF Direction

\* Writing a command.
LEMMA SendCommandInv ==
    ASSUME DmaInv, NEW p \in Procs, NEW d \in Dirs, SendCommand(p, d)
    PROVE  DmaInv'
<1> DEFINE c == NextCommand(p)
           N == Len(call[p].sg)
           k == Done(d, p)
<1>1. /\ call[p].pc = "send" /\ call[p].dir = d /\ call[p].sent < N /\ call[p].slots # 0
      /\ UNCHANGED <<status, moved, fresh, irq, seen, mutex, disturbed>>
  BY DEF SendCommand
<1>2. InCall(d, p)
  BY <1>1 DEF InCall, Sending
<1>3. /\ call[p] \in Calls /\ Listed(call[p]) /\ N \in Nat \ {0} /\ call[p].sent \in 0 .. N - 1
      /\ queue[d] \in Seq(Commands) /\ Len(queue[d]) \in 0 .. Slots
  BY <1>1, <1>2, Holding
<1>4. /\ c \in Commands /\ Push(d, c)
      /\ call' \in [Procs -> Calls]
      /\ call'[p].sent = call[p].sent + 1 /\ call'[p].slots = call[p].slots - 1
      /\ call'[p].pc = IF call[p].sent + 1 = N THEN "wait" ELSE "send"
      /\ \A f \in {"dir", "sg", "count", "marked"} : call'[p][f] = call[p][f]
      /\ \A r \in Procs : r # p => call'[r] = call[r]
  BY Sent DEF DmaInv
<1>5. call'[p].dir = d /\ call'[p].sg = call[p].sg /\ call'[p].count = call[p].count
  BY <1>1, <1>4
<1>6. /\ queue' \in [Dirs -> Seq(Commands)]
      /\ flushing' \in [Dirs -> BOOLEAN]
      /\ \A e \in Dirs : Len(queue'[e]) <= Slots
      /\ \A e \in Dirs : e # d => queue'[e] = queue[e] /\ flushing'[e] = flushing[e]
      /\ flushing'[d] <=> flushing[d] /\ ~c.last
      /\ flushing[d] => queue'[d] = queue[d]
      /\ ~flushing[d] /\ Len(queue[d]) < Slots => queue'[d] = Append(queue[d], c)
  <2> HIDE DEF c
  <2> QED
    BY <1>4, Pushed DEF DmaInv
<1>7. TypeOK' /\ SeenInv'
  BY <1>1, <1>4, <1>6 DEF DmaInv, TypeOK, SeenInv
<1>8. CallsInv'
  <2>1. Listed(call'[p])
    BY <1>3, <1>5, ListKept
  <2>2. /\ call'[p].sent \in 0 .. N
        /\ call'[p].pc # "mapped"
        /\ call'[p].pc \in {"send", "slot"} => call'[p].sent < N
    BY <1>3, <1>4
  <2> QED
    BY <1>4, <1>5, <2>1, <2>2 DEF DmaInv, CallsInv
<1>9. ASSUME NEW e \in Dirs, ~disturbed'[e]
      PROVE  Direction(e)'
  <2>1. Direction(e) /\ ~disturbed[e]
    BY <1>1, <1>9 DEF DmaInv, DirectionsInv
  <2>2. CASE e # d
    <3>1. /\ TypeOK /\ queue'[e] = queue[e] /\ flushing'[e] = flushing[e] /\ status'[e] = status[e]
          /\ moved'[e] = moved[e] /\ fresh'[e] = fresh[e] /\ mutex'[e] = mutex[e]
          /\ seen'[e].level = seen[e].level
      BY <1>1, <1>6, <2>2 DEF DmaInv
    <3>2. call[p].dir # e /\ call'[p].dir # e
      BY <1>1, <1>5, <2>2
    <3> QED
      BY <1>4, <2>1, <3>1, <3>2, Frame
  <2>3. CASE e = d
    <3>1. Holder(d, p) /\ call[p].slots \in 1 .. Slots - Len(queue[d])
      <4>1. Holder(d, p)
        BY <1>2, <2>1, <2>3, Holding
      <4>2. call[p].slots \in 0 .. Slots - Len(queue[d])
        BY <1>1, <4>1 DEF Holder
      <4>3. \A x \in Int : \A y \in 0 .. x : y # 0 => y \in 1 .. x
        OBVIOUS
      <4>4. Slots - Len(queue[d]) \in Int
        BY <1>3, DmaAssumption
      <4> QED
        BY <1>1, <4>1, <4>2, <4>3, <4>4
    <3>2. Len(queue[d]) < Slots /\ Slots \in Nat
      BY <1>3, <3>1, DmaAssumption
    <3>3. c.last <=> call[p].sent + 1 = N
      BY DEF NextCommand
    <3>4. InCall(d, p)'
      BY <1>4, <1>5 DEF InCall, Sending
    <3>5. CASE Running(d, p)
      <4>1. ~flushing[d] /\ ~flushing'[d] /\ queue'[d] = Append(queue[d], c)
        BY <1>6, <3>2, <3>5 DEF Running
      <4>2. /\ Len(queue'[d]) = Len(queue[d]) + 1
            /\ queue'[d][Len(queue[d]) + 1] = c
            /\ \A i \in 1 .. Len(queue[d]) : queue'[d][i] = queue[d][i]
        <5> HIDE DEF c
        <5> QED
          BY <1>3, <1>4, <4>1
      <4>3. Done(d, p)' = k /\ k \in 0 .. N - 1 /\ k + Len(queue[d]) = call[p].sent
        <5>1. k \in 0 .. N - 1
          BY <3>5 DEF Running
        <5> QED
          BY <1>3, <1>4, <4>2, <5>1 DEF Done
      <4>4. ASSUME NEW i \in 1 .. Len(queue'[d])
            PROVE  /\ queue'[d][i].owner = p
                   /\ queue'[d][i].page = k + i
                   /\ queue'[d][i].len = call[p].sg[k + i]
                   /\ queue'[d][i].last <=> k + i = N
        <5>1. CASE i = Len(queue[d]) + 1
          <6>1. k + i = call[p].sent + 1 /\ queue'[d][i] = c
            <7> HIDE DEF c, k
            <7> QED
              BY <1>3, <4>2, <4>3, <5>1
          <6>2. c.owner = p /\ c.page = call[p].sent + 1 /\ c.len = call[p].sg[call[p].sent + 1]
            BY DEF NextCommand
          <6> HIDE DEF c, k
          <6> QED
            BY <3>3, <6>1, <6>2
        <5>2. CASE i # Len(queue[d]) + 1
          <6>1. i \in 1 .. Len(queue[d])
            BY <1>3, <4>2, <5>2
          <6> QED
            BY <3>5, <4>2, <6>1 DEF Running
        <5> QED
          BY <5>1, <5>2
      <4>5. Running(d, p)'
        <5>1. ~status[d].completed /\ ~status[d].flushed
          BY <3>5 DEF Running
        <5>2. /\ fresh[d] <=> k = 0
              /\ ~fresh[d] => moved[d] = [bytes |-> Upto(call[p], k), pages |-> 1 .. k]
          BY <3>5 DEF Running
        <5>3. call'[p].pc = "wait" => call'[p].sent = N
          BY <1>4
        <5> HIDE DEF k
        <5> QED
          BY <1>1, <1>5, <4>1, <4>3, <4>4, <5>1, <5>2, <5>3 DEF Running, Upto
      <4>6. call'[p].slots \in 0 .. Slots - Len(queue'[d]) /\ call'[p].pc # "slot"
        BY <1>3, <1>4, <3>1, <3>2, <4>2
      <4>7. Holder(d, p)'
        BY <4>5, <4>6 DEF Holder
      <4> QED
        BY <1>1, <1>2, <1>4, <2>1, <2>3, <3>4, <4>7, HolderSteps
    <3>6. CASE ~Running(d, p)
      <4>1. Flushed(d, p)
        BY <1>1, <3>1, <3>6 DEF Holder, Completed
      <4>2. flushing[d] /\ queue'[d] = <<>> /\ queue[d] = <<>>
        BY <1>1, <1>6, <4>1 DEF Flushed
      <4>3. flushing'[d] <=> call'[p].pc # "wait"
        BY <1>4, <1>6, <3>3, <4>2
      <4>4. Flushed(d, p)'
        BY <1>1, <1>5, <4>1, <4>2, <4>3, CutKept DEF Flushed
      <4>5. call'[p].slots \in 0 .. Slots - Len(queue'[d]) /\ call'[p].pc # "slot"
        BY <1>3, <1>4, <3>1, <3>2, <4>2
      <4>6. Holder(d, p)'
        BY <4>4, <4>5 DEF Holder
      <4> QED
        BY <1>1, <1>2, <1>4, <2>1, <2>3, <3>4, <4>6, HolderSteps
    <3> QED
      BY <3>5, <3>6
  <2> QED
    BY <2>2, <2>3
<1> QED
  BY <1>7, <1>8, <1>9 DEF DmaInv, DirectionsInv

\* Reading the status because no slot is left.
LEMMA RefreshInv ==
    ASSUME DmaInv, NEW p \in Procs, NEW d \in Dirs, Refresh(p, d)
    PROVE  DmaInv'
<1>1. /\ call[p].pc = "send" /\ call[p].dir = d
      /\ update_dma_buffer_status /\ call' = [call EXCEPT ![p].pc = "slot"]
      /\ UNCHANGED <<queue, flushing, status, moved, fresh, irq, mutex, disturbed>>
  BY DEF Refresh, board
<1>2. InCall(d, p)
  BY <1>1 DEF InCall, Sending
<1>3. /\ seen' \in [Dirs -> [level : 0 .. Slots, full : BOOLEAN, completed : BOOLEAN, flushed : BOOLEAN]]
      /\ \A e \in Dirs : /\ seen'[e].level = Len(queue[e])
                         /\ seen'[e].completed = status[e].completed
                         /\ seen'[e].flushed = status[e].flushed
  BY <1>1, Refreshed DEF DmaInv
<1>4. /\ call' \in [Procs -> Calls] /\ call'[p].pc = "slot"
      /\ \A f \in {"dir", "sg", "count", "sent", "slots", "marked"} : call'[p][f] = call[p][f]
      /\ \A r \in Procs : r # p => call'[r] = call[r]
  BY <1>1, MovedOn DEF DmaInv
<1>5. /\ call'[p].dir = d /\ call'[p].sg = call[p].sg /\ call'[p].count = call[p].count
      /\ call'[p].sent = call[p].sent
  BY <1>1, <1>4
<1>6. TypeOK' /\ SeenInv'
  BY <1>1, <1>3, <1>4 DEF DmaInv, TypeOK, SeenInv
<1>7. CallsInv'
  <2>1. Listed(call[p]) /\ call[p].sent < Len(call[p].sg)
    BY <1>1, <1>2, Holding
  <2>2. Listed(call'[p])
    BY <1>5, <2>1, ListKept
  <2> QED
    BY <1>1, <1>4, <1>5, <2>1, <2>2, CallsKept DEF DmaInv
<1>8. ASSUME NEW e \in Dirs, ~disturbed'[e]
      PROVE  Direction(e)'
  <2>1. Direction(e) /\ ~disturbed[e]
    BY <1>1, <1>8 DEF DmaInv, DirectionsInv
  <2>2. CASE e # d
    <3>1. /\ TypeOK /\ queue'[e] = queue[e] /\ flushing'[e] = flushing[e] /\ status'[e] = status[e]
          /\ moved'[e] = moved[e] /\ fresh'[e] = fresh[e] /\ mutex'[e] = mutex[e]
          /\ seen'[e].level = Len(queue[e])
      BY <1>1, <1>3, <2>2 DEF DmaInv
    <3>2. call[p].dir # e /\ call'[p].dir # e
      BY <1>1, <1>5, <2>2
    <3> QED
      BY <1>4, <2>1, <3>1, <3>2, Frame
  <2>3. CASE e = d
    <3>1. Holder(d, p) /\ Len(queue[d]) \in 0 .. Slots
      BY <1>2, <2>1, <2>3, Holding
    <3>2. Running(d, p) => Running(d, p)'
      BY <1>1, <1>4, <1>5 DEF Running, Done, Upto
    <3>3. ~Completed(d, p)
      BY <1>1 DEF Completed
    <3>4. Flushed(d, p) => Flushed(d, p)'
      BY <1>1, <1>4, <1>5, CutKept DEF Flushed
    <3>5. Len(queue'[d]) <= seen'[d].level
      BY <1>1, <1>3, <3>1
    <3>6. Holder(d, p)'
      BY <1>4, <3>1, <3>2, <3>3, <3>4, <3>5 DEF Holder
    <3>7. InCall(d, p)'
      BY <1>4, <1>5 DEF InCall, Sending
    <3> QED
      BY <1>1, <1>2, <1>4, <2>1, <2>3, <3>6, <3>7, HolderSteps
  <2> QED
    BY <2>2, <2>3
<1> QED
  BY <1>6, <1>7, <1>8 DEF DmaInv, DirectionsInv

\* Counting the slots again.
LEMMA RecountInv ==
    ASSUME DmaInv, NEW p \in Procs, NEW d \in Dirs, call[p].pc = "slot", call[p].dir = d,
           Recount(p, d)
    PROVE  DmaInv'
<1> DEFINE n == Slots - seen[d].level
<1>1. /\ call' = [call EXCEPT ![p].slots = n, ![p].pc = "send"]
      /\ UNCHANGED <<queue, flushing, status, moved, fresh, irq, seen, mutex, disturbed>>
  BY DEF Recount, board
<1>2. InCall(d, p)
  BY DEF InCall, Sending
<1>3. n \in Int
  BY <1>2, Holding, DmaAssumption
<1>4. n = Slots - seen[d].level
  OBVIOUS
<1> HIDE DEF n
<1>5. /\ call' \in [Procs -> Calls] /\ call'[p].pc = "send" /\ call'[p].slots = n
      /\ \A f \in {"dir", "sg", "count", "sent", "marked"} : call'[p][f] = call[p][f]
      /\ \A r \in Procs : r # p => call'[r] = call[r]
  BY <1>1, <1>3, Counted DEF DmaInv
<1>6. /\ call'[p].dir = d /\ call'[p].sg = call[p].sg /\ call'[p].count = call[p].count
      /\ call'[p].sent = call[p].sent
  BY <1>5
<1>7. TypeOK' /\ SeenInv'
  BY <1>1, <1>5 DEF DmaInv, TypeOK, SeenInv
<1>8. CallsInv'
  <2>1. Listed(call[p]) /\ call[p].sent < Len(call[p].sg)
    BY <1>2, Holding
  <2>2. Listed(call'[p])
    BY <1>6, <2>1, ListKept
  <2> QED
    BY <1>5, <1>6, <2>1, <2>2, CallsKept DEF DmaInv
<1>9. ASSUME NEW e \in Dirs, ~disturbed'[e]
      PROVE  Direction(e)'
  <2>1. Direction(e) /\ ~disturbed[e]
    BY <1>1, <1>9 DEF DmaInv, DirectionsInv
  <2>2. CASE e # d
    <3>1. /\ TypeOK /\ queue'[e] = queue[e] /\ flushing'[e] = flushing[e] /\ status'[e] = status[e]
          /\ moved'[e] = moved[e] /\ fresh'[e] = fresh[e] /\ mutex'[e] = mutex[e]
          /\ seen'[e].level = seen[e].level
      BY <1>1 DEF DmaInv
    <3>2. call[p].dir # e /\ call'[p].dir # e
      BY <1>6, <2>2
    <3> QED
      BY <1>5, <2>1, <3>1, <3>2, Frame
  <2>3. CASE e = d
    <3>1. Holder(d, p) /\ Len(queue[d]) \in 0 .. Slots /\ seen[d].level \in 0 .. Slots
      BY <1>2, <2>1, <2>3, Holding
    <3>2. Running(d, p) => Running(d, p)'
      BY <1>1, <1>5, <1>6 DEF Running, Done, Upto
    <3>3. ~Completed(d, p)
      BY DEF Completed
    <3>4. Flushed(d, p) => Flushed(d, p)'
      BY <1>1, <1>5, <1>6, CutKept DEF Flushed
    <3>5. n \in 0 .. Slots - Len(queue'[d])
      <4>1. Len(queue[d]) <= seen[d].level
        BY <3>1 DEF Holder
      <4> QED
        BY <1>1, <1>4, <3>1, <4>1, DmaAssumption
    <3>6. Holder(d, p)'
      BY <1>5, <3>1, <3>2, <3>3, <3>4, <3>5 DEF Holder
    <3>7. InCall(d, p)'
      BY <1>5, <1>6 DEF InCall, Sending
    <3> QED
      BY <1>1, <1>2, <1>5, <2>1, <2>3, <3>6, <3>7, HolderSteps
  <2> QED
    BY <2>2, <2>3
<1> QED
  BY <1>7, <1>8, <1>9 DEF DmaInv, DirectionsInv

\* Ending a list that the board is dropping.
LEMMA AbandonInv ==
    ASSUME DmaInv, NEW p \in Procs, call[p].pc = "slot", call[p].dir = "read", seen["read"].flushed,
           Push("read", [owner |-> p, page |-> 0, len |-> 0, last |-> TRUE, intr |-> FALSE]),
           call' = [call EXCEPT ![p].pc = "wait"],
           UNCHANGED <<status, moved, fresh, irq, seen, mutex, disturbed>>
    PROVE  DmaInv'
<1> DEFINE d == "read"
           c == [owner |-> p, page |-> 0, len |-> 0, last |-> TRUE, intr |-> FALSE]
<1>1. d \in Dirs /\ InCall(d, p) /\ c \in Commands
  BY DEF Dirs, InCall, Sending, Commands
<1>2. /\ queue' \in [Dirs -> Seq(Commands)]
      /\ flushing' \in [Dirs -> BOOLEAN]
      /\ \A e \in Dirs : Len(queue'[e]) <= Slots
      /\ \A e \in Dirs : e # d => queue'[e] = queue[e] /\ flushing'[e] = flushing[e]
      /\ flushing'[d] <=> flushing[d] /\ ~c.last
      /\ flushing[d] => queue'[d] = queue[d]
  BY <1>1, Pushed DEF DmaInv
<1>3. /\ call' \in [Procs -> Calls] /\ call'[p].pc = "wait"
      /\ \A f \in {"dir", "sg", "count", "sent", "slots", "marked"} : call'[p][f] = call[p][f]
      /\ \A r \in Procs : r # p => call'[r] = call[r]
  BY MovedOn DEF DmaInv
<1>4. /\ call'[p].dir = d /\ call'[p].sg = call[p].sg /\ call'[p].count = call[p].count
      /\ call'[p].sent = call[p].sent
  BY <1>3
<1>5. TypeOK' /\ SeenInv'
  BY <1>2, <1>3 DEF DmaInv, TypeOK, SeenInv
<1>6. CallsInv'
  <2>1. Listed(call'[p])
    BY <1>1, <1>4, Holding, ListKept
  <2> QED
    BY <1>3, <1>4, <2>1, CallsKept DEF DmaInv
<1>7. ASSUME NEW e \in Dirs, ~disturbed'[e]
      PROVE  Direction(e)'
  <2>1. Direction(e) /\ ~disturbed[e]
    BY <1>7 DEF DmaInv, DirectionsInv
  <2>2. CASE e # d
    <3>1. /\ TypeOK /\ queue'[e] = queue[e] /\ flushing'[e] = flushing[e] /\ status'[e] = status[e]
          /\ moved'[e] = moved[e] /\ fresh'[e] = fresh[e] /\ mutex'[e] = mutex[e]
          /\ seen'[e].level = seen[e].level
      BY <1>2, <2>2 DEF DmaInv
    <3>2. call[p].dir # e /\ call'[p].dir # e
      BY <1>4, <2>2
    <3> QED
      BY <1>3, <2>1, <3>1, <3>2, Frame
  <2>3. CASE e = d
    <3>1. Holder(d, p)
      BY <1>1, <2>1, <2>3, Holding
    <3>2. status[d].flushed
      BY <1>1 DEF DmaInv, SeenInv
    <3>3. Flushed(d, p)
      BY <3>1, <3>2 DEF Holder, Running, Completed
    <3>4. queue'[d] = <<>> /\ ~flushing'[d]
      BY <1>2, <3>3 DEF Flushed
    <3>5. Flushed(d, p)'
      BY <1>3, <1>4, <3>3, <3>4, CutKept DEF Flushed
    <3>6. Holder(d, p)'
      BY <1>3, <3>5 DEF Holder
    <3>7. InCall(d, p)'
      BY <1>3, <1>4 DEF InCall, Sending
    <3> QED
      BY <1>1, <1>3, <2>1, <2>3, <3>6, <3>7, HolderSteps
  <2> QED
    BY <2>2, <2>3
<1> QED
  BY <1>5, <1>6, <1>7 DEF DmaInv, DirectionsInv

\* A call that has seen the end of its transfer leaves an idle direction behind.
LEMMA FinishInv ==
    ASSUME DmaInv, NEW p \in Procs, NEW d \in Dirs, call[p].pc = "wait", call[p].dir = d,
           seen[d].completed \/ seen[d].flushed,
           mutex' = [mutex EXCEPT ![d] = Nobody],
           call' \in [Procs -> Calls], call'[p].pc = "release", call'[p].dir = d,
           call'[p].sg = call[p].sg, call'[p].count = call[p].count, call'[p].sent = call[p].sent,
           \A r \in Procs : r # p => call'[r] = call[r],
           UNCHANGED <<queue, flushing, status, moved, fresh, irq, seen, disturbed>>
    PROVE  DmaInv'
<1>1. InCall(d, p)
  BY DEF InCall, Sending
<1>2. /\ mutex' \in [Dirs -> Procs \cup {Nobody}] /\ mutex'[d] = Nobody
      /\ \A e \in Dirs : e # d => mutex'[e] = mutex[e]
  BY DEF DmaInv, TypeOK
<1>3. TypeOK' /\ SeenInv'
  BY <1>2 DEF DmaInv, TypeOK, SeenInv
<1>4. CallsInv'
  <2>1. Listed(call'[p])
    BY <1>1, Holding, ListKept
  <2> QED
    BY <2>1, CallsKept DEF DmaInv
<1>5. ASSUME NEW e \in Dirs, ~disturbed'[e]
      PROVE  Direction(e)'
  <2>1. Direction(e) /\ ~disturbed[e]
    BY <1>5 DEF DmaInv, DirectionsInv
  <2>2. CASE e # d
    <3>1. TypeOK /\ mutex'[e] = mutex[e]
      BY <1>2, <2>2 DEF DmaInv
    <3> QED
      BY <2>1, <2>2, <3>1, Frame
  <2>3. CASE e = d
    <3>1. Holder(d, p) /\ \A r \in Procs : r # p => ~InCall(d, r)
      BY <1>1, <2>1, <2>3, Holding
    <3>2. status[d].completed \/ status[d].flushed
      BY DEF DmaInv, SeenInv
    <3>3. queue[d] = <<>> /\ ~flushing[d] /\ fresh[d]
      BY <3>1, <3>2 DEF Holder, Running, Completed, Flushed
    <3>4. \A r \in Procs : ~InCall(d, r)'
      BY <3>1 DEF InCall, Sending
    <3> QED
      BY <1>2, <2>3, <3>3, <3>4, DmaAssumption DEF Direction
  <2> QED
    BY <2>2, <2>3
<1> QED
  BY <1>3, <1>4, <1>5 DEF DmaInv, DirectionsInv

LEMMA ReadFinishInv ==
    ASSUME DmaInv, NEW p \in Procs, ReadFinish(p)
    PROVE  DmaInv'
<1> DEFINE m == MarkedPages(call[p].sg, moved["read"].bytes)
           c == [call[p] EXCEPT !.pc = "release", !.marked = m]
<1>1. /\ call[p].pc = "wait" /\ call[p].dir = "read"
      /\ seen["read"].completed \/ seen["read"].flushed
      /\ mutex' = [mutex EXCEPT !["read"] = Nobody]
      /\ call' = [call EXCEPT ![p].pc = "release", ![p].marked = m]
      /\ UNCHANGED <<queue, flushing, status, moved, fresh, irq, seen, disturbed>>
  BY DEF ReadFinish, board
<1>2. call[p] \in Calls /\ "read" \in Dirs
  BY DEF DmaInv, TypeOK, Dirs
<1>3. m \subseteq Nat
  <2>1. m \subseteq 1 .. Len(call[p].sg)
    BY Zenon DEF MarkedPages
  <2>2. 1 .. Len(call[p].sg) \subseteq Nat
    BY <1>2 DEF Calls
  <2> QED
    BY <2>1, <2>2
<1> HIDE DEF m
<1>4. call' = [call EXCEPT ![p] = c]
  BY <1>1, <1>2 DEF DmaInv, TypeOK
<1>5. /\ c \in Calls /\ c.pc = "release" /\ c.dir = "read" /\ c.sg = call[p].sg
      /\ c.count = call[p].count /\ c.sent = call[p].sent
  BY <1>1, <1>2, <1>3 DEF Calls
<1> HIDE DEF c
<1>6. /\ call' \in [Procs -> Calls] /\ call'[p] = c
      /\ \A r \in Procs : r # p => call'[r] = call[r]
  BY <1>4, <1>5, Called DEF DmaInv
<1> QED
  BY <1>1, <1>2, <1>5, <1>6, FinishInv

LEMMA WriteFinishInv ==
    ASSUME DmaInv, NEW p \in Procs, WriteFinish(p)
    PROVE  DmaInv'
<1>1. /\ call[p].pc = "wait" /\ call[p].dir = "write" /\ seen["write"].completed
      /\ mutex' = [mutex EXCEPT !["write"] = Nobody]
      /\ call' = [call EXCEPT ![p].pc = "release"]
      /\ UNCHANGED <<queue, flushing, status, moved, fresh, irq, seen, disturbed>>
  BY DEF WriteFinish, board
<1>2. /\ call' \in [Procs -> Calls] /\ call'[p].pc = "release"
      /\ \A f \in {"dir", "sg", "count", "sent", "slots", "marked"} : call'[p][f] = call[p][f]
      /\ \A r \in Procs : r # p => call'[r] = call[r]
  BY <1>1, MovedOn DEF DmaInv
<1>3. /\ call'[p].dir = "write" /\ call'[p].sg = call[p].sg /\ call'[p].count = call[p].count
      /\ call'[p].sent = call[p].sent /\ "write" \in Dirs
  BY <1>1, <1>2 DEF Dirs
<1> QED
  BY <1>1, <1>2, <1>3, FinishInv

\* The commands in the queue are those of the call that holds the mutex.
LEMMA Owners ==
    ASSUME DmaInv, NEW d \in Dirs, ~disturbed[d], NEW i \in DOMAIN queue[d]
    PROVE  queue[d][i].owner = mutex[d] /\ mutex[d] \in Procs /\ InCall(d, mutex[d])
<1>1. i \in 1 .. Len(queue[d]) /\ queue[d] # <<>>
  BY DEF DmaInv, TypeOK
<1>2. mutex[d] \in Procs /\ InCall(d, mutex[d]) /\ Running(d, mutex[d])
  BY <1>1, Busy
<1> QED
  BY <1>1, <1>2 DEF Running

\* Leaving: a call that ended normally left nothing in the queue.
LEMMA ReleaseInv ==
    ASSUME DmaInv, NEW p \in Procs, Release(p)
    PROVE  DmaInv'
<1>1. /\ call[p].pc = "release"
      /\ UNCHANGED <<flushing, status, moved, fresh, irq, seen, mutex, disturbed>>
  BY DEF Release
<1>2. /\ call' \in [Procs -> Calls] /\ call'[p] = Idle
      /\ \A r \in Procs : r # p => call'[r] = call[r]
      /\ queue' \in [Dirs -> Seq(Commands)]
      /\ \A e \in Dirs : Len(queue'[e]) = Len(queue[e])
      /\ \A e \in Dirs : (\A i \in 1 .. Len(queue[e]) : queue[e][i].owner # p)
            => queue'[e] = queue[e]
  BY Released DEF DmaInv
<1>3. call'[p].pc = "idle"
  BY <1>2, IdleType
<1>4. TypeOK' /\ SeenInv'
  BY <1>1, <1>2 DEF DmaInv, TypeOK, SeenInv
<1>5. CallsInv'
  BY <1>2, <1>3 DEF DmaInv, CallsInv
<1>6. ASSUME NEW e \in Dirs, ~disturbed'[e]
      PROVE  Direction(e)'
  <2>1. Direction(e) /\ ~disturbed[e]
    BY <1>1, <1>6 DEF DmaInv, DirectionsInv
  <2>2. ASSUME NEW i \in 1 .. Len(queue[e])
        PROVE  queue[e][i].owner # p
    <3>1. i \in DOMAIN queue[e]
      BY DEF DmaInv, TypeOK
    <3>2. InCall(e, queue[e][i].owner)
      BY <2>1, <3>1, Owners
    <3> QED
      BY <1>1, <3>2 DEF InCall, Sending
  <2>3. queue'[e] = queue[e]
    BY <1>2, <2>2
  <2>4. TypeOK
    BY DEF DmaInv
  <2> QED
    BY <1>1, <1>2, <1>3, <2>1, <2>3, <2>4, Frame DEF Sending
<1> QED
  BY <1>4, <1>5, <1>6 DEF DmaInv, DirectionsInv

\* A signal disturbs the direction of the call, and no other.
LEMMA SignalInv ==
    ASSUME DmaInv, NEW p \in Procs, Signal(p)
    PROVE  DmaInv'
<1> DEFINE d == call[p].dir
<1>1. /\ call[p].pc \in {"slot", "wait"}
      /\ mutex' = [mutex EXCEPT ![d] = Nobody]
      /\ call' = [call EXCEPT ![p].pc = "release"]
      /\ disturbed' = [disturbed EXCEPT ![d] = TRUE]
      /\ UNCHANGED <<queue, flushing, status, moved, fresh, irq, seen>>
  BY DEF Signal, board
<1>2. d \in Dirs
  BY DEF DmaInv, TypeOK, Calls
<1>3. /\ call' \in [Procs -> Calls] /\ call'[p].pc = "release"
      /\ \A f \in {"dir", "sg", "count", "sent", "slots", "marked"} : call'[p][f] = call[p][f]
      /\ \A r \in Procs : r # p => call'[r] = call[r]
  BY <1>1, MovedOn DEF DmaInv
<1>4. /\ call'[p].dir = d /\ call'[p].sg = call[p].sg /\ call'[p].count = call[p].count
      /\ call'[p].sent = call[p].sent
  BY <1>3
<1>5. /\ mutex' \in [Dirs -> Procs \cup {Nobody}] /\ \A e \in Dirs : e # d => mutex'[e] = mutex[e]
      /\ disturbed' \in [Dirs -> BOOLEAN]
      /\ \A e \in Dirs : ~disturbed'[e] => ~disturbed[e] /\ e # d
  BY <1>1, <1>2 DEF DmaInv, TypeOK
<1>6. TypeOK' /\ SeenInv'
  BY <1>1, <1>3, <1>5 DEF DmaInv, TypeOK, SeenInv
<1>7. CallsInv'
  <2>1. Listed(call[p])
    BY <1>1 DEF DmaInv, CallsInv
  <2>2. Listed(call'[p])
    BY <1>4, <2>1, ListKept
  <2> QED
    BY <1>1, <1>3, <1>4, <2>2, CallsKept DEF DmaInv
<1>8. ASSUME NEW e \in Dirs, ~disturbed'[e]
      PROVE  Direction(e)'
  <2>1. Direction(e) /\ mutex'[e] = mutex[e] /\ call[p].dir # e /\ call'[p].dir # e /\ TypeOK
    BY <1>4, <1>5, <1>8 DEF DmaInv, DirectionsInv
  <2> QED
    BY <1>1, <1>3, <2>1, Frame
<1> QED
  BY <1>6, <1>7, <1>8 DEF DmaInv, DirectionsInv

\* A soft reset disturbs the directions in which a call holds the mutex; the queue
\* of the others is empty anyway.
LEMMA SoftResetInv ==
    ASSUME DmaInv, SoftReset
    PROVE  DmaInv'
<1>1. /\ queue' = [d \in Dirs |-> <<>>] /\ flushing' = [d \in Dirs |-> FALSE]
      /\ fresh' = [d \in Dirs |-> TRUE] /\ disturbed' = [d \in Dirs |-> mutex[d] # Nobody]
      /\ Undisturbed
      /\ UNCHANGED <<status, moved, irq, seen, mutex, call>>
  BY DEF SoftReset, driver
<1>2. TypeOK' /\ SeenInv' /\ CallsInv'
  <2>1. Slots \in Nat
    BY DmaAssumption
  <2> QED
    BY <1>1, <2>1 DEF DmaInv, TypeOK, SeenInv, CallsInv
<1>3. ASSUME NEW e \in Dirs, ~disturbed'[e]
      PROVE  Direction(e)'
  <2>1. mutex[e] = Nobody /\ Direction(e) /\ TypeOK
    BY <1>1, <1>3 DEF DmaInv, DirectionsInv, Undisturbed
  <2>2. queue[e] = <<>> /\ ~flushing[e] /\ fresh[e]
    BY <2>1 DEF Direction
  <2>3. flushing[e] = FALSE /\ fresh[e] = TRUE
    BY <2>1, <2>2 DEF TypeOK
  <2> QED
    BY <1>1, <2>1, <2>2, <2>3, Frame
<1> QED
  BY <1>2, <1>3 DEF DmaInv, DirectionsInv

-----------------------------------------------------------------------------
(* The theorems *)

LEMMA InitInv == Init => DmaInv
<1> SUFFICES ASSUME Init PROVE DmaInv
  OBVIOUS
<1>1. \A p \in Procs : call[p] \in Calls /\ call[p].pc = "idle"
  BY IdleType DEF Init
<1>2. call \in [Procs -> Calls]
  BY <1>1 DEF Init
<1>3. TypeOK
  <2>1. queue \in [Dirs -> Seq(Commands)] /\ \A d \in Dirs : Len(queue[d]) <= Slots
    BY DmaAssumption DEF Init
  <2>2. /\ flushing \in [Dirs -> BOOLEAN] /\ fresh \in [Dirs -> BOOLEAN] /\ irq \in BOOLEAN
        /\ status \in [Dirs -> [completed : BOOLEAN, flushed : BOOLEAN]]
        /\ moved \in [Dirs -> [bytes : Nat, pages : SUBSET Nat]]
        /\ mutex \in [Dirs -> Procs \cup {Nobody}] /\ disturbed \in [Dirs -> BOOLEAN]
    BY DEF Init
  <2>3. seen \in [Dirs -> [level : 0 .. Slots, full : BOOLEAN, completed : BOOLEAN, flushed : BOOLEAN]]
    <3>1. 0 \in 0 .. Slots
      BY DmaAssumption
    <3> QED
      BY <3>1 DEF Init
  <2> QED
    BY <1>2, <2>1, <2>2, <2>3 DEF TypeOK
<1>4. CallsInv /\ SeenInv
  BY <1>1 DEF Init, CallsInv, SeenInv
<1>5. DirectionsInv
  BY <1>1, DmaAssumption DEF Init, DirectionsInv, Direction, InCall, Sending
<1> QED
  BY <1>3, <1>4, <1>5 DEF DmaInv

LEMMA NextInv == DmaInv /\ [Next]_vars => DmaInv'
<1> SUFFICES ASSUME DmaInv, [Next]_vars PROVE DmaInv'
  OBVIOUS
<1> USE DEF Dirs
<1>1. ASSUME NEW d \in Dirs, BoardCompletes(d) PROVE DmaInv'
  BY <1>1, BoardCompletesInv
<1>2. CASE BoardFlushes
  BY <1>2, BoardFlushesInv
<1>3. CASE intr_handler
  BY <1>3, InterruptInv
<1>4. ASSUME NEW p \in Procs, ReadEnter(p) \/ WriteEnter(p) PROVE DmaInv'
  BY <1>4, EnterInv DEF ReadEnter, WriteEnter
<1>5. ASSUME NEW p \in Procs, bluenoc_read(p) PROVE DmaInv'
  <2>1. CASE ReadLock(p)
    BY <2>1, LockInv DEF ReadLock
  <2>2. CASE ReadSend(p)
    BY <2>2, SendCommandInv, RefreshInv DEF ReadSend
  <2>3. CASE ReadSlot(p)
    <3>1. call[p].pc = "slot" /\ call[p].dir = "read"
      BY <2>3 DEF ReadSlot
    <3>2. CASE Recount(p, "read")
      BY <3>1, <3>2, RecountInv
    <3>3. CASE ~Recount(p, "read")
      <4>1. /\ seen["read"].flushed
            /\ Push("read", [owner |-> p, page |-> 0, len |-> 0, last |-> TRUE, intr |-> FALSE])
            /\ call' = [call EXCEPT ![p].pc = "wait"]
            /\ UNCHANGED <<status, moved, fresh, irq, seen, mutex, disturbed>>
        BY <2>3, <3>3 DEF ReadSlot
      <4> QED
        BY <3>1, <4>1, AbandonInv
    <3> QED
      BY <3>2, <3>3
  <2>4. CASE ReadFinish(p)
    BY <2>4, ReadFinishInv
  <2> QED
    BY <1>5, <2>1, <2>2, <2>3, <2>4 DEF bluenoc_read
<1>6. ASSUME NEW p \in Procs, bluenoc_write(p) PROVE DmaInv'
  <2>1. CASE WriteLock(p)
    BY <2>1, LockInv DEF WriteLock
  <2>2. CASE WriteSend(p)
    BY <2>2, SendCommandInv, RefreshInv DEF WriteSend
  <2>3. CASE WriteSlot(p)
    BY <2>3, RecountInv DEF WriteSlot
  <2>4. CASE WriteFinish(p)
    BY <2>4, WriteFinishInv
  <2> QED
    BY <1>6, <2>1, <2>2, <2>3, <2>4 DEF bluenoc_write
<1>7. ASSUME NEW p \in Procs, Release(p) \/ Signal(p) PROVE DmaInv'
  BY <1>7, ReleaseInv, SignalInv
<1>8. CASE SoftReset
  BY <1>8, SoftResetInv
<1>9. CASE UNCHANGED vars
  <2>1. TypeOK' /\ CallsInv' /\ SeenInv'
    BY <1>9 DEF vars, DmaInv, TypeOK, CallsInv, SeenInv
  <2>2. ASSUME NEW e \in Dirs, ~disturbed'[e]
        PROVE  Direction(e)'
    BY <1>9, <2>2, Frame DEF vars, DmaInv, DirectionsInv
  <2> QED
    BY <2>1, <2>2 DEF DmaInv, DirectionsInv
<1> QED
  BY <1>1, <1>2, <1>3, <1>4, <1>5, <1>6, <1>7, <1>8, <1>9 DEF Next

\* A list that was carried out is one of which the last page was, too.
LEMMA WholeList ==
    ASSUME NEW m, NEW c, Listed(c), m = [bytes |-> c.count, pages |-> DOMAIN c.sg]
    PROVE  CutShort(m, c)
<1> DEFINE k == Len(c.sg) - 1
           n == c.sg[k + 1]
<1>1. /\ c.sg \in Seq(Nat) /\ Len(c.sg) \in Nat \ {0} /\ Upto(c, Len(c.sg)) = c.count
      /\ \A i \in 0 .. Len(c.sg) - 1 : /\ c.sg[i + 1] \in Nat \ {0}
                                       /\ Upto(c, i) + c.sg[i + 1] = Upto(c, i + 1)
  BY ListPages
<1>2. k \in 0 .. Len(c.sg) - 1 /\ k + 1 = Len(c.sg)
  BY <1>1
<1> HIDE DEF k
<1>3. n \in 0 .. c.sg[k + 1] /\ n > 0 /\ Upto(c, k) + n = c.count
  <2>1. c.sg[k + 1] \in Nat \ {0} /\ Upto(c, k) + c.sg[k + 1] = Upto(c, k + 1)
    BY <1>1, <1>2
  <2>2. \A x \in Nat \ {0} : x \in 0 .. x /\ x > 0
    OBVIOUS
  <2>3. Upto(c, k + 1) = c.count
    BY <1>1, <1>2
  <2> QED
    BY <2>1, <2>2, <2>3
<1>4. DOMAIN c.sg = 1 .. k \cup {k + 1}
  <2>1. DOMAIN c.sg = 1 .. Len(c.sg)
    BY <1>1
  <2>2. DOMAIN c.sg = 1 .. k + 1 /\ k \in Nat
    <3> HIDE DEF n
    <3> QED
      BY <1>1, <1>2, <2>1
  <2> QED
    BY <2>2
<1> HIDE DEF n
<1>5. m = [bytes |-> Upto(c, k) + n, pages |-> 1 .. k \cup (IF n > 0 THEN {k + 1} ELSE {})]
  BY <1>3, <1>4
<1> QED
  BY <1>2, <1>3, <1>5 DEF CutShort

\* A read that waits returns when it has seen the end of its transfer, or is interrupted.
LEMMA OnlyFinishReturns ==
    ASSUME DmaInv, Next, NEW p \in Procs,
           call[p].dir = "read", call[p].pc = "wait", call'[p].pc = "release",
           ~disturbed'["read"]
    PROVE  ReadFinish(p)
<1>1. call \in [Procs -> Calls] /\ call'[p].pc # call[p].pc
  BY DEF DmaInv, TypeOK
<1>2. call' # call
  BY <1>1
<1>3. ASSUME NEW r \in Procs, r # p, NEW c
      PROVE  call' # [call EXCEPT ![r] = c]
  BY <1>1, <1>3
<1>4. ~\E d \in Dirs : BoardCompletes(d)
  BY <1>2 DEF BoardCompletes, driver
<1>5. ~BoardFlushes /\ ~intr_handler
  BY <1>2 DEF BoardFlushes, intr_handler, driver
<1>6. ~SoftReset
  BY <1>2 DEF SoftReset, driver
<1>7. PICK r \in Procs : \/ ReadEnter(r) \/ WriteEnter(r) \/ bluenoc_read(r) \/ bluenoc_write(r)
                        \/ Release(r) \/ Signal(r)
  BY <1>4, <1>5, <1>6 DEF Next
<1>8. r = p
  <2>1. ASSUME NEW d, Enter(r, d) \/ Lock(r, d) \/ SendCommand(r, d) \/ Refresh(r, d) \/ Recount(r, d)
        PROVE  r = p
    <3>1. Enter(r, d) => r = p
      BY <1>3 DEF Enter
    <3>2. Lock(r, d) => r = p
      BY <1>1 DEF Lock
    <3>3. SendCommand(r, d) => r = p
      BY <1>1 DEF SendCommand
    <3>4. Refresh(r, d) => r = p
      BY <1>1 DEF Refresh
    <3>5. Recount(r, d) => r = p
      BY <1>1 DEF Recount
    <3> QED
      BY <2>1, <3>1, <3>2, <3>3, <3>4, <3>5
  <2>2. ReadFinish(r) \/ WriteFinish(r) \/ Release(r) \/ Signal(r) => r = p
    BY <1>3 DEF ReadFinish, WriteFinish, Release, Signal
  <2>3. ReadSlot(r) \/ WriteSlot(r) => r = p
    BY <1>3, <2>1 DEF ReadSlot, WriteSlot
  <2> QED
    BY <1>7, <2>1, <2>2, <2>3 DEF ReadEnter, WriteEnter, bluenoc_read, bluenoc_write, ReadLock,
       ReadSend, WriteLock, WriteSend
<1>9. ~Enter(p, "read") /\ ~Enter(p, "write") /\ ~Release(p)
  BY DEF Enter, Release
<1>10. \A d : ~Lock(p, d) /\ ~SendCommand(p, d) /\ ~Refresh(p, d)
  BY DEF Lock, SendCommand, Refresh
<1>11. ~ReadSlot(p) /\ ~WriteSlot(p) /\ ~WriteFinish(p)
  BY DEF ReadSlot, WriteSlot, WriteFinish
<1>12. ~Signal(p)
  <2>1. Signal(p) => disturbed'["read"]
    BY DEF Signal, DmaInv, TypeOK, Dirs
  <2> QED
    BY <2>1
<1> QED
  BY <1>7, <1>8, <1>9, <1>10, <1>11, <1>12 DEF ReadEnter, WriteEnter, bluenoc_read, bluenoc_write,
     ReadLock, ReadSend, WriteLock, WriteSend

\* In every state, for every number of processes, the board is working on exactly
\* the list of the call that holds the mutex, as far as the call has sent it.
THEOREM DmaInvariant == Spec => []DmaInv
<1> QED
  BY InitInv, NextInv, PTL DEF Spec

\* The slots that a call counts as free are free (bluenoc_read and bluenoc_write,
\* which refresh their count only when it runs out).
THEOREM SlotsCorrect == Spec => []SlotsNeverOvercommitted
<1>1. DmaInv => SlotsNeverOvercommitted
  <2> SUFFICES ASSUME DmaInv, NEW p \in Procs, ~disturbed[call[p].dir], call[p].pc = "send"
               PROVE  Len(queue[call[p].dir]) + call[p].slots <= Slots
    BY DEF SlotsNeverOvercommitted
  <2> DEFINE d == call[p].dir
  <2>1. d \in Dirs /\ InCall(d, p)
    BY DEF DmaInv, TypeOK, Calls, InCall, Sending
  <2>2. Holder(d, p) /\ Len(queue[d]) \in 0 .. Slots
    BY <2>1, Holding
  <2>3. call[p].slots \in 0 .. Slots - Len(queue[d])
    BY <2>2 DEF Holder
  <2> QED
    BY <2>2, <2>3, DmaAssumption
<1> QED
  BY <1>1, DmaInvariant, PTL

\* The board holds commands only for pages that are still pinned (bluenoc_read and
\* bluenoc_write unpin them when they return).
THEOREM PinnedCorrect == Spec => []PagesPinned
<1>1. DmaInv => PagesPinned
  BY Owners DEF PagesPinned, InCall
<1> QED
  BY <1>1, DmaInvariant, PTL

\* A completion that a call waits for and has seen is that of its own list, all of
\* it: the status is cleared under the mutex and the board works in order.
THEOREM CompletionCorrect == Spec => []CompletionIsOwn
<1>1. DmaInv => CompletionIsOwn
  <2> SUFFICES ASSUME DmaInv, NEW p \in Procs, ~disturbed[call[p].dir], call[p].pc = "wait",
                      seen[call[p].dir].completed
               PROVE  moved[call[p].dir] = [bytes |-> call[p].count, pages |-> DOMAIN call[p].sg]
    BY DEF CompletionIsOwn
  <2> DEFINE d == call[p].dir
  <2>1. d \in Dirs /\ InCall(d, p)
    BY DEF DmaInv, TypeOK, Calls, InCall, Sending
  <2>2. Holder(d, p)
    BY <2>1, Holding
  <2>3. status[d].completed
    BY <2>1 DEF DmaInv, SeenInv
  <2> QED
    BY <2>2, <2>3 DEF Holder, Running, Flushed, Completed
<1> QED
  BY <1>1, DmaInvariant, PTL

\* A read that returns, and was not interrupted, has marked the pages that the board
\* wrote and no other (the loop over the pages in bluenoc_read), though the driver only
\* knows how many bytes were moved.
THEOREM DirtyCorrect == Spec => DirtyExact
<1>1. ASSUME DmaInv, Next, NEW p \in Procs,
             call[p].dir = "read", call[p].pc = "wait", call'[p].pc = "release",
             ~disturbed'["read"]
      PROVE  call'[p].marked = moved["read"].pages
  <2>1. "read" \in Dirs /\ InCall("read", p) /\ call[p] \in Calls
    BY <1>1 DEF Dirs, InCall, Sending, DmaInv, TypeOK
  <2>2. ReadFinish(p)
    BY <1>1, <2>1, OnlyFinishReturns
  <2>3. /\ seen["read"].completed \/ seen["read"].flushed
        /\ ~disturbed["read"]
        /\ call'[p].marked = MarkedPages(call[p].sg, moved["read"].bytes)
    BY <1>1, <2>1, <2>2 DEF ReadFinish, DmaInv, TypeOK
  <2>4. Holder("read", p) /\ Listed(call[p]) /\ Len(call[p].sg) \in Nat \ {0}
    BY <1>1, <2>1, <2>3, Holding
  <2>5. Completed("read", p) \/ Flushed("read", p)
    BY <1>1, <2>1, <2>3, <2>4 DEF DmaInv, SeenInv, Holder, Running
  <2>6. CutShort(moved["read"], call[p])
    <3>1. CASE Flushed("read", p)
      BY <3>1 DEF Flushed
    <3>2. CASE Completed("read", p)
      BY <2>4, <3>2, WholeList DEF Completed
    <3> QED
      BY <2>5, <3>1, <3>2
  <2>6a. PICK k \in 0 .. Len(call[p].sg) - 1 : \E n \in 0 .. call[p].sg[k + 1] :
          moved["read"] = [bytes |-> Upto(call[p], k) + n,
                           pages |-> 1 .. k \cup (IF n > 0 THEN {k + 1} ELSE {})]
    BY <2>6 DEF CutShort
  <2>7. PICK n \in 0 .. call[p].sg[k + 1] :
          moved["read"] = [bytes |-> Upto(call[p], k) + n,
                           pages |-> 1 .. k \cup (IF n > 0 THEN {k + 1} ELSE {})]
    BY <2>6a
  <2>8. MarkedPages(call[p].sg, Upto(call[p], k) + n) = 1 .. k \cup (IF n > 0 THEN {k + 1} ELSE {})
    BY <2>4, <2>7, PagesReached
  <2> QED
    BY <2>3, <2>7, <2>8
<1>2. DmaInv /\ [Next]_vars =>
        [\A p \in Procs : /\ call[p].dir = "read" /\ call[p].pc = "wait"
                          /\ call'[p].pc = "release" /\ ~disturbed'["read"]
            => call'[p].marked = moved["read"].pages]_vars
  BY <1>1
<1> QED
  BY <1>2, DmaInvariant, PTL DEF Spec, DirtyExact
=============================================================================
