------------------------ MODULE AuroraFlowControlProofs ------------------------
(* What the Aurora link with credits guarantees for every number of credits,   *)
(* every width of a word and every number of words: the handshake that begins  *)
(* it never opens one direction too early, and from then on no buffer          *)
(* overflows, no credit is made up, and the words arrive as they were written. *)
EXTENDS AuroraFlowControl, TLAPS

-----------------------------------------------------------------------------
(* What the handshake relies on.  A heartbeat that was skipped or lost delays  *)
(* what the other side knows by one; the numbers of heartbeats to see before   *)
(* receiving and before sending (6 and 8) leave room for one such delay, but   *)
(* not for both kinds in a row.                                                *)

Delay == IF Troubles \subseteq {{}} THEN 0 ELSE 1

EarlyEnough ==
    /\ Troubles \subseteq {{}, {"skip"}, {"lose"}}
    /\ ReadyRX + 1 + Delay <= ReadyTX

-----------------------------------------------------------------------------
(* The handshake.  For the direction from s to the other side o:               *)

At(q, kind) == {i \in 1 .. Len(q) : q[i].kind = kind}
BeatsIn(s) == At(link[s], "heartbeat")

\* 1 if a heartbeat of s is on its way.
AtSea(s) == IF BeatsIn(s) = {} THEN 0 ELSE 1

\* The heartbeats of o that s may have seen since it sent its last one.
Since(s) == (IF turn = s THEN 2 ELSE 1) - AtSea(Other(s))

\* 1 if one heartbeat of s may be missing since the last one that o has seen.
Missed(s) ==
    IF \/ Delay = 0 \/ "lose" \in trouble
       \/ "skip" \in trouble /\ BeatsIn(s) = {} /\ ~skipped[s]
    THEN 0 ELSE 1

\* What s has counted since it sent the last heartbeat that o has seen.
Ahead(s) == Since(s) + AtSea(s) + Missed(s)

\* What o has counted does not let s send.
Slow(s) ==
    /\ heartbeatConsecutive[Other(s)] <= ReadyRX + 1
    /\ \A i \in BeatsIn(Other(s)) : \/ link[Other(s)][i].consecutive <= ReadyTX
                                    \/ heartbeatConsecutive[s] <= ReadyTX

\* The heartbeat that will let o receive arrives before the first flit of a word.
Heralded(s) ==
    /\ "lose" \notin trouble
    /\ heartbeatConsecutive[Other(s)] > ReadyRX
    /\ BeatsIn(s) # {}
    /\ \A i \in BeatsIn(s) : /\ link[s][i].consecutive > ReadyRX
                             /\ \A j \in At(link[s], "data") : i < j

Handshake(s) ==
    /\ \A i, j \in BeatsIn(s) : i = j
    /\ \A i \in BeatsIn(s) : link[s][i].consecutive <= ReadyRX =>
                                heartbeatConsecutive[s] <= ReadyRX + Since(s)
    /\ turn = s /\ BeatsIn(s) # {} => \A i \in BeatsIn(Other(s)) :
          link[Other(s)][i].consecutive = heartbeatConsecutive[Other(s)]
    /\ ~handshakeRXDone[Other(s)] /\ ~handshakeTXDone[s] =>
          heartbeatConsecutive[s] <= ReadyRX + Ahead(s) \/ Slow(s)
    /\ ~handshakeRXDone[Other(s)] /\ handshakeTXDone[s] => Heralded(s)
    /\ handshakeTXDone[s] => handshakeRXDone[s]
    /\ ccCycles[s] > 0 =>
          /\ BeatsIn(s) = {} /\ heartbeatConsecutive[Other(s)] = 0
          /\ \A i \in BeatsIn(Other(s)) : link[Other(s)][i].consecutive = 0

-----------------------------------------------------------------------------
(* The stream of flits from s to o. *)

\* The flits sent, and those that have arrived at s.
Written(s) == InterfaceWords * accepted[s] - marshaller[s]
Arrived(s) == InterfaceWords * delivered[s] + Len(demarshaller[s]) + Len(infifo[s])

\* What is in the buffers of s follows what was delivered.
Buffered(s) ==
    /\ Len(demarshaller[s]) <= InterfaceWords
    /\ \A i \in 1 .. Len(demarshaller[s]) :
          demarshaller[s][i] = Data(InterfaceWords * delivered[s] + i - 1)
    /\ \A i \in 1 .. Len(infifo[s]) :
          infifo[s][i] = Data(InterfaceWords * delivered[s] + Len(demarshaller[s]) + i - 1)

\* Both sides agree on where they are in a word.
Framed(s) ==
    /\ flitCountTX[s] = IF marshaller[s] = 0 THEN 0 ELSE InterfaceWords - marshaller[s]
    /\ marshaller[s] > 0 => accepted[s] > 0
    /\ \E q \in Nat : Arrived(s) = InterfaceWords * q + flitCountRX[s]

\* The link q holds the flits from number a to before z, in order, and credits and
\* heartbeats between words.
Stream(q, a, z) ==
    /\ a <= z
    /\ \A i \in At(q, "data") : q[i].n \in a .. z - 1
    /\ \A n \in a .. z - 1 : \E i \in 1 .. Len(q) : q[i] = Data(n)
    /\ \A i, j \in At(q, "data") : i < j => q[i].n < q[j].n
    /\ \A i \in 1 .. Len(q) : q[i].kind # "data" =>
          \E w \in Nat : /\ InterfaceWords * w \in a .. z
                         /\ \A j \in At(q, "data") : j < i <=> q[j].n < InterfaceWords * w

\* It holds what was written and has not arrived.
Ordered(s) == Stream(link[s], Arrived(Other(s)), Written(s))

-----------------------------------------------------------------------------
(* The credits for the words from s to o. *)

CreditsIn(s) == At(link[s], "credit")

\* Credits c are on their way back to s, if any: never two messages at a time.
Returning(s, c) ==
    \/ c = 0 /\ creditFIFO[s] = <<>> /\ CreditsIn(Other(s)) = {}
    \/ 2 * c > Credits /\ creditFIFO[s] = <<c>> /\ CreditsIn(Other(s)) = {}
    \/ /\ 2 * c > Credits /\ creditFIFO[s] = <<>>
       /\ \E i \in CreditsIn(Other(s)) : CreditsIn(Other(s)) = {i} /\ link[Other(s)][i].n = c

\* Every credit is with s, with a word, with o, or on its way back.
Balanced(s) ==
    \E c \in 0 .. Credits :
       /\ txCredits[s] + (accepted[s] - delivered[Other(s)]) + rxCredits[Other(s)] + c = Credits
       /\ Returning(s, c)

\* Nothing is written before the handshake is done.
Quiet(s) == ~handshakeTXDone[s] => accepted[s] = 0 /\ txCredits[s] = Credits

FlowInv ==
    /\ TypeOK /\ trouble \in Troubles \cup {{}}
    /\ \A s \in Sides : /\ Handshake(s)
                        /\ Buffered(s) /\ Framed(s) /\ Ordered(s)
                        /\ Balanced(s) /\ Quiet(s)

-----------------------------------------------------------------------------
(* Numbers *)

\* Multiples of the length of a word.
LEMMA Times ==
    /\ InterfaceWords \in Nat \ {0}
    /\ \A x \in Nat : /\ InterfaceWords * x \in Nat
                      /\ InterfaceWords * (x + 1) = InterfaceWords * x + InterfaceWords
                      /\ x * InterfaceWords = InterfaceWords * x
<1>1. InterfaceWords \in Nat \ {0}
  BY FlowAssumption
<1> QED
  BY <1>1, Z3

LEMMA TimesOrder ==
    ASSUME NEW x \in Nat, NEW y \in Nat
    PROVE  /\ x <= y => InterfaceWords * x <= InterfaceWords * y
           /\ x < y => InterfaceWords * x + InterfaceWords <= InterfaceWords * y
<1>1. InterfaceWords \in Nat \ {0}
  BY FlowAssumption
<1>2. x <= y => InterfaceWords * x <= InterfaceWords * y
  BY <1>1, Z3
<1>3. x < y => InterfaceWords * x + InterfaceWords <= InterfaceWords * y
  BY <1>1, Z3
<1> QED
  BY <1>2, <1>3

\* Within a word there is no other boundary of words.
LEMMA Boundary ==
    ASSUME NEW x \in Nat, NEW y \in Nat, NEW g \in 0 .. InterfaceWords - 1,
           InterfaceWords * x + g = InterfaceWords * y
    PROVE  g = 0 /\ x = y
<1>1. x < y \/ y < x \/ x = y
  OBVIOUS
<1> QED
  BY <1>1, Times, TimesOrder

LEMMA OtherSide ==
    ASSUME NEW s \in Sides
    PROVE  /\ Other(s) \in Sides /\ Other(Other(s)) = s /\ Other(s) # s
           /\ \A t \in Sides : t = s \/ t = Other(s)
  BY DEF Sides, Other

-----------------------------------------------------------------------------
(* Flits on a link *)

\* What is where after a flit is sent.
LEMMA AtSent ==
    ASSUME NEW T, NEW q \in Seq(T), NEW f \in T
    PROVE  /\ Append(q, f) \in Seq(T) /\ Len(q) \in Nat
           /\ Len(Append(q, f)) = Len(q) + 1
           /\ Append(q, f)[Len(q) + 1] = f
           /\ \A i \in 1 .. Len(q) : Append(q, f)[i] = q[i]
           /\ \A k : At(Append(q, f), k) = At(q, k) \cup (IF f.kind = k THEN {Len(q) + 1} ELSE {})
<1>1. /\ Append(q, f) \in Seq(T) /\ Len(q) \in Nat
      /\ Len(Append(q, f)) = Len(q) + 1
      /\ Append(q, f)[Len(q) + 1] = f
      /\ \A i \in 1 .. Len(q) : Append(q, f)[i] = q[i]
  OBVIOUS
<1>2. 1 .. Len(q) + 1 = (1 .. Len(q)) \cup {Len(q) + 1}
  BY <1>1
<1>3. ASSUME NEW k
      PROVE  At(Append(q, f), k) = At(q, k) \cup (IF f.kind = k THEN {Len(q) + 1} ELSE {})
  BY <1>1, <1>2 DEF At
<1> QED
  BY <1>1, <1>3

\* What is where after one has arrived.
LEMMA AtArrived ==
    ASSUME NEW T, NEW q \in Seq(T), q # <<>>, NEW k
    PROVE  /\ Tail(q) \in Seq(T) /\ Len(q) \in Nat /\ Len(q) > 0
           /\ Head(q) = q[1] /\ q[1] \in T
           /\ Len(Tail(q)) = Len(q) - 1
           /\ \A i \in 1 .. Len(Tail(q)) : Tail(q)[i] = q[i + 1]
           /\ \A i \in At(Tail(q), k) : i + 1 \in At(q, k) /\ Tail(q)[i] = q[i + 1] /\ i \in Nat
           /\ \A i \in At(q, k) : i # 1 => i - 1 \in At(Tail(q), k) /\ Tail(q)[i - 1] = q[i]
           /\ 1 \in At(q, k) <=> Head(q).kind = k
<1>1. /\ Tail(q) \in Seq(T) /\ Len(q) \in Nat /\ Len(q) > 0
      /\ Head(q) = q[1] /\ q[1] \in T
      /\ Len(Tail(q)) = Len(q) - 1
      /\ \A i \in 1 .. Len(Tail(q)) : Tail(q)[i] = q[i + 1]
  OBVIOUS
<1>2. \A i \in At(Tail(q), k) : i + 1 \in At(q, k) /\ Tail(q)[i] = q[i + 1] /\ i \in Nat
  BY <1>1 DEF At
<1>3. ASSUME NEW i \in At(q, k), i # 1
      PROVE  i - 1 \in At(Tail(q), k) /\ Tail(q)[i - 1] = q[i]
  <2>1. i \in 1 .. Len(q) /\ q[i].kind = k
    BY DEF At
  <2>2. i - 1 \in 1 .. Len(Tail(q)) /\ (i - 1) + 1 = i
    BY <1>1, <1>3, <2>1
  <2>3. Tail(q)[i - 1] = q[i]
    BY <1>1, <2>2
  <2> QED
    BY <2>1, <2>2, <2>3 DEF At
<1>4. 1 \in At(q, k) <=> Head(q).kind = k
  BY <1>1 DEF At
<1> QED
  BY <1>1, <1>2, <1>3, <1>4

\* Sending the next flit of a word.
LEMMA StreamData ==
    ASSUME NEW q \in Seq(Flits), NEW a \in Nat, NEW z \in Nat, Stream(q, a, z)
    PROVE  Stream(Append(q, Data(z)), a, z + 1)
<1> DEFINE f == Data(z)
           r == Append(q, f)
<1>1. f \in Flits /\ f.kind = "data" /\ f.n = z
  BY DEF Flits, Data
<1>2. /\ r \in Seq(Flits) /\ Len(q) \in Nat /\ Len(r) = Len(q) + 1 /\ r[Len(q) + 1] = f
      /\ \A i \in 1 .. Len(q) : r[i] = q[i]
      /\ At(r, "data") = At(q, "data") \cup {Len(q) + 1}
  <2> HIDE DEF f
  <2> QED
    BY <1>1, AtSent
<1>3. f = Data(z)
  OBVIOUS
<1> HIDE DEF f, r
<1>4. \A i \in At(q, "data") : i \in 1 .. Len(q) /\ q[i].n \in a .. z - 1 /\ r[i] = q[i]
  BY <1>2 DEF Stream, At
<1>5. a <= z + 1 /\ \A i \in At(r, "data") : r[i].n \in a .. z
  BY <1>1, <1>2, <1>4 DEF Stream
<1>6. ASSUME NEW n \in a .. z
      PROVE  \E i \in 1 .. Len(r) : r[i] = Data(n)
  <2>1. CASE n = z
    <3>1. Len(q) + 1 \in 1 .. Len(r) /\ r[Len(q) + 1] = Data(n)
      BY <1>2, <1>3, <2>1
    <3> QED
      BY <3>1
  <2>2. CASE n # z
    <3>1. n \in a .. z - 1
      BY <2>2
    <3>2. PICK i \in 1 .. Len(q) : q[i] = Data(n)
      BY <3>1 DEF Stream
    <3>3. i \in 1 .. Len(r) /\ r[i] = Data(n)
      BY <1>2, <3>2
    <3> QED
      BY <3>3
  <2> QED
    BY <2>1, <2>2
<1>7. ASSUME NEW i \in At(r, "data"), NEW j \in At(r, "data"), i < j
      PROVE  r[i].n < r[j].n
  <2>1. i \in 1 .. Len(q) + 1 /\ j \in 1 .. Len(q) + 1
    BY <1>2 DEF At
  <2>2. i # Len(q) + 1
    BY <1>2, <1>7, <2>1
  <2>3. i \in At(q, "data")
    BY <1>2, <2>2
  <2>4. CASE j = Len(q) + 1
    <3>1. r[j].n = z
      BY <1>1, <1>2, <2>4
    <3>2. r[i].n \in a .. z - 1
      BY <1>4, <2>3
    <3> QED
      BY <3>1, <3>2
  <2>5. CASE j # Len(q) + 1
    BY <1>2, <1>4, <1>7, <2>3, <2>5 DEF Stream
  <2> QED
    BY <2>4, <2>5
<1>8. ASSUME NEW i \in 1 .. Len(r), r[i].kind # "data"
      PROVE  \E w \in Nat : /\ InterfaceWords * w \in a .. z + 1
                            /\ \A j \in At(r, "data") : j < i <=> r[j].n < InterfaceWords * w
  <2>1. i \in 1 .. Len(q) /\ q[i].kind # "data"
    BY <1>1, <1>2, <1>8
  <2>2. PICK w \in Nat : /\ InterfaceWords * w \in a .. z
                         /\ \A j \in At(q, "data") : j < i <=> q[j].n < InterfaceWords * w
    BY <2>1 DEF Stream
  <2>3. ASSUME NEW j \in At(r, "data")
        PROVE  j < i <=> r[j].n < InterfaceWords * w
    <3>1. CASE j = Len(q) + 1
      BY <1>1, <1>2, <2>1, <2>2, <3>1
    <3>2. CASE j # Len(q) + 1
      BY <1>2, <1>4, <2>2, <3>2
    <3> QED
      BY <3>1, <3>2
  <2>4. InterfaceWords * w \in a .. z + 1
    BY <2>2
  <2> QED
    BY <2>3, <2>4
<1> QED
  <2>1. z + 1 - 1 = z
    OBVIOUS
  <2>2. Stream(r, a, z + 1)
    BY <1>5, <1>6, <1>7, <1>8, <2>1 DEF Stream
  <2> QED
    BY <2>2 DEF r, f

\* Sending credits or a heartbeat between two words.
LEMMA StreamMark ==
    ASSUME NEW q \in Seq(Flits), NEW a \in Nat, NEW z \in Nat, Stream(q, a, z),
           NEW f \in Flits, f.kind # "data", NEW w \in Nat, z = InterfaceWords * w
    PROVE  Stream(Append(q, f), a, z)
<1> DEFINE r == Append(q, f)
<1>1. /\ r \in Seq(Flits) /\ Len(q) \in Nat /\ Len(r) = Len(q) + 1 /\ r[Len(q) + 1] = f
      /\ \A i \in 1 .. Len(q) : r[i] = q[i]
      /\ At(r, "data") = At(q, "data")
  <2>1. /\ r \in Seq(Flits) /\ Len(q) \in Nat /\ Len(r) = Len(q) + 1 /\ r[Len(q) + 1] = f
        /\ \A i \in 1 .. Len(q) : r[i] = q[i]
    BY AtSent
  <2>2. At(r, "data") = At(q, "data") \cup (IF f.kind = "data" THEN {Len(q) + 1} ELSE {})
    BY AtSent
  <2> QED
    BY <2>1, <2>2
<1> HIDE DEF r
<1>2. \A i \in At(q, "data") : i \in 1 .. Len(q) /\ q[i].n \in a .. z - 1 /\ r[i] = q[i]
  BY <1>1 DEF Stream, At
<1>3. a <= z /\ \A i \in At(r, "data") : r[i].n \in a .. z - 1
  BY <1>1, <1>2 DEF Stream
<1>4. ASSUME NEW n \in a .. z - 1
      PROVE  \E i \in 1 .. Len(r) : r[i] = Data(n)
  <2>1. PICK i \in 1 .. Len(q) : q[i] = Data(n)
    BY DEF Stream
  <2>2. i \in 1 .. Len(r) /\ r[i] = Data(n)
    BY <1>1, <2>1
  <2> QED
    BY <2>2
<1>5. ASSUME NEW i \in At(r, "data"), NEW j \in At(r, "data"), i < j
      PROVE  r[i].n < r[j].n
  BY <1>1, <1>2, <1>5 DEF Stream
<1>6. ASSUME NEW i \in 1 .. Len(r), r[i].kind # "data"
      PROVE  \E v \in Nat : /\ InterfaceWords * v \in a .. z
                            /\ \A j \in At(r, "data") : j < i <=> r[j].n < InterfaceWords * v
  <2>1. CASE i = Len(q) + 1
    <3>1. \A j \in At(r, "data") : j < i /\ r[j].n < InterfaceWords * w
      BY <1>1, <1>2, <2>1
    <3>2. InterfaceWords * w \in a .. z
      BY <1>3
    <3> QED
      BY <3>1, <3>2
  <2>2. CASE i # Len(q) + 1
    <3>1. i \in 1 .. Len(q) /\ q[i].kind # "data"
      BY <1>1, <1>6, <2>2
    <3>2. PICK v \in Nat : /\ InterfaceWords * v \in a .. z
                           /\ \A j \in At(q, "data") : j < i <=> q[j].n < InterfaceWords * v
      BY <3>1 DEF Stream
    <3> QED
      BY <1>1, <1>2, <3>2
  <2> QED
    BY <2>1, <2>2
<1>7. Stream(r, a, z)
  BY <1>3, <1>4, <1>5, <1>6 DEF Stream
<1> QED
  BY <1>7 DEF r

\* The next flit of data that arrives is the one that is waited for.
LEMMA StreamHead ==
    ASSUME NEW q \in Seq(Flits), q # <<>>, NEW a \in Nat, NEW z \in Nat, Stream(q, a, z)
    PROVE  /\ Head(q).kind = "data" => Head(q) = Data(a) /\ a < z
           /\ Head(q).kind # "data" => \E w \in Nat : a = InterfaceWords * w
<1>1. Len(q) \in Nat /\ Len(q) > 0 /\ Head(q) = q[1] /\ 1 \in 1 .. Len(q)
  BY AtArrived
<1>2. ASSUME a < z
      PROVE  \E i \in At(q, "data") : q[i] = Data(a) /\ i \in 1 .. Len(q) /\ q[i].n = a
  <2>1. a \in a .. z - 1
    BY <1>2
  <2>2. PICK i \in 1 .. Len(q) : q[i] = Data(a)
    BY <2>1 DEF Stream
  <2> QED
    BY <2>2 DEF At, Data
<1>3. CASE Head(q).kind = "data"
  <2>1. 1 \in At(q, "data")
    BY <1>1, <1>3 DEF At
  <2>2. q[1].n \in a .. z - 1
    BY <2>1 DEF Stream
  <2>3. a < z
    BY <2>2
  <2>4. PICK i \in At(q, "data") : q[i] = Data(a) /\ i \in 1 .. Len(q) /\ q[i].n = a
    BY <1>2, <2>3
  <2>5. i = 1
    <3>1. 1 < i => q[1].n < q[i].n
      BY <2>1 DEF Stream
    <3> QED
      BY <1>1, <2>2, <2>4, <3>1
  <2> QED
    BY <1>1, <1>3, <2>3, <2>4, <2>5
<1>4. CASE Head(q).kind # "data"
  <2>1. PICK w \in Nat : /\ InterfaceWords * w \in a .. z
                         /\ \A j \in At(q, "data") : j < 1 <=> q[j].n < InterfaceWords * w
    BY <1>1, <1>4 DEF Stream
  <2>2. ASSUME a < InterfaceWords * w PROVE FALSE
    <3>1. a < z
      BY <2>1, <2>2, Times
    <3>2. PICK i \in At(q, "data") : q[i] = Data(a) /\ i \in 1 .. Len(q) /\ q[i].n = a
      BY <1>2, <3>1
    <3>3. i < 1
      BY <2>1, <2>2, <3>2
    <3> QED
      BY <3>2, <3>3
  <2> QED
    <3>1. InterfaceWords * w \in Nat /\ a <= InterfaceWords * w
      BY <2>1, Times
    <3>2. a = InterfaceWords * w
      BY <2>2, <3>1
    <3> QED
      BY <1>4, <3>2
<1> QED
  BY <1>3, <1>4

\* The rest of the stream, after a flit of data or another one has arrived.
LEMMA StreamTail ==
    ASSUME NEW q \in Seq(Flits), q # <<>>, NEW a \in Nat, NEW z \in Nat, Stream(q, a, z),
           NEW b \in Nat, b = IF Head(q).kind = "data" THEN a + 1 ELSE a
    PROVE  Stream(Tail(q), b, z)
<1> DEFINE r == Tail(q)
<1>1. /\ r \in Seq(Flits) /\ Len(q) \in Nat /\ Len(q) > 0 /\ Head(q) = q[1]
      /\ Len(r) = Len(q) - 1
      /\ \A i \in 1 .. Len(r) : r[i] = q[i + 1]
      /\ \A i \in At(r, "data") : i + 1 \in At(q, "data") /\ r[i] = q[i + 1] /\ i \in Nat
      /\ 1 \in At(q, "data") <=> Head(q).kind = "data"
  <2>1. /\ r \in Seq(Flits) /\ Len(q) \in Nat /\ Len(q) > 0 /\ Head(q) = q[1]
        /\ Len(r) = Len(q) - 1
        /\ \A i \in 1 .. Len(r) : r[i] = q[i + 1]
    BY AtArrived
  <2>2. /\ \A i \in At(r, "data") : i + 1 \in At(q, "data") /\ r[i] = q[i + 1] /\ i \in Nat
        /\ 1 \in At(q, "data") <=> Head(q).kind = "data"
    BY AtArrived
  <2> QED
    BY <2>1, <2>2
<1>2. \A i \in At(r, "data") : i \in 1 .. Len(r)
  BY DEF At
<1> HIDE DEF r
<1>3. Head(q).kind = "data" => q[1] = Data(a) /\ q[1].n = a /\ a < z
  BY <1>1, StreamHead DEF Data
<1>4. b <= z /\ b \in {a, a + 1}
  BY <1>3 DEF Stream
<1>5. \A i \in At(r, "data") : r[i].n \in b .. z - 1
  <2> SUFFICES ASSUME NEW i \in At(r, "data") PROVE r[i].n \in b .. z - 1
    OBVIOUS
  <2>1. i + 1 \in At(q, "data") /\ r[i] = q[i + 1] /\ q[i + 1].n \in a .. z - 1 /\ i \in Nat /\ 1 < i + 1
    BY <1>1, <1>2 DEF Stream
  <2>2. Head(q).kind = "data" => q[1].n < q[i + 1].n
    BY <1>1, <2>1 DEF Stream
  <2> QED
    BY <1>3, <2>1, <2>2
<1>6. ASSUME NEW n \in b .. z - 1
      PROVE  \E i \in 1 .. Len(r) : r[i] = Data(n)
  <2>1. n \in a .. z - 1
    BY <1>4
  <2>2. PICK i \in 1 .. Len(q) : q[i] = Data(n)
    BY <2>1 DEF Stream
  <2>3. i # 1
    <3>1. CASE Head(q).kind = "data"
      <4>1. q[i].n = n /\ n # a
        BY <2>2, <3>1 DEF Data
      <4> QED
        BY <1>3, <3>1, <4>1
    <3>2. CASE Head(q).kind # "data"
      BY <1>1, <2>2, <3>2 DEF Data
    <3> QED
      BY <3>1, <3>2
  <2>4. i - 1 \in 1 .. Len(r) /\ r[i - 1] = q[i]
    <3>1. i - 1 \in 1 .. Len(r) /\ (i - 1) + 1 = i
      BY <1>1, <2>3
    <3> QED
      BY <1>1, <3>1
  <2> QED
    BY <2>2, <2>4
<1>7. ASSUME NEW i \in At(r, "data"), NEW j \in At(r, "data"), i < j
      PROVE  r[i].n < r[j].n
  <2>1. i + 1 < j + 1 /\ i + 1 \in At(q, "data") /\ j + 1 \in At(q, "data")
    BY <1>1, <1>7
  <2>2. q[i + 1].n < q[j + 1].n
    BY <2>1 DEF Stream
  <2> QED
    BY <1>1, <2>2
<1>8. ASSUME NEW i \in 1 .. Len(r), r[i].kind # "data"
      PROVE  \E v \in Nat : /\ InterfaceWords * v \in b .. z
                            /\ \A j \in At(r, "data") : j < i <=> r[j].n < InterfaceWords * v
  <2>1. i + 1 \in 1 .. Len(q) /\ r[i] = q[i + 1] /\ 1 < i + 1
    BY <1>1
  <2>2. PICK v \in Nat : /\ InterfaceWords * v \in a .. z
                         /\ \A j \in At(q, "data") : j < i + 1 <=> q[j].n < InterfaceWords * v
    BY <1>8, <2>1 DEF Stream
  <2>3. InterfaceWords * v \in b .. z
    <3>1. Head(q).kind = "data" => q[1].n < InterfaceWords * v
      BY <1>1, <2>1, <2>2
    <3> QED
      BY <1>3, <2>2, <3>1, Times
  <2>4. \A j \in At(r, "data") : j < i <=> r[j].n < InterfaceWords * v
    <3> SUFFICES ASSUME NEW j \in At(r, "data") PROVE j < i <=> r[j].n < InterfaceWords * v
      OBVIOUS
    <3>1. j + 1 \in At(q, "data") /\ r[j] = q[j + 1] /\ j \in Nat
      BY <1>1
    <3>2. j + 1 < i + 1 <=> q[j + 1].n < InterfaceWords * v
      BY <2>2, <3>1
    <3> QED
      BY <3>1, <3>2
  <2> QED
    BY <2>3, <2>4
<1>9. Stream(r, b, z)
  BY <1>4, <1>5, <1>6, <1>7, <1>8 DEF Stream
<1> QED
  BY <1>9 DEF r

-----------------------------------------------------------------------------
(* Heartbeats on a link *)

\* A step that leaves the heartbeats of s on their way, and before the words that
\* they were before.
SameBeats(s) ==
    /\ BeatsIn(s)' = {} <=> BeatsIn(s) = {}
    /\ \A i \in BeatsIn(s)' : \E j \in BeatsIn(s) : link'[s][i] = link[s][j]
    /\ (\A i, j \in BeatsIn(s) : i = j) => (\A i, j \in BeatsIn(s)' : i = j)
    /\ (\A i \in BeatsIn(s) : \A j \in At(link[s], "data") : i < j)
          => (\A i \in BeatsIn(s)' : \A j \in At(link'[s], "data") : i < j)

LEMMA LinkKeeps ==
    ASSUME NEW s \in Sides, link'[s] = link[s]
    PROVE  SameBeats(s) /\ CreditsIn(s)' = CreditsIn(s)
<1>1. BeatsIn(s)' = BeatsIn(s) /\ CreditsIn(s)' = CreditsIn(s)
  BY DEF BeatsIn, CreditsIn
<1> QED
  BY <1>1 DEF SameBeats

LEMMA SendingKeeps ==
    ASSUME NEW s \in Sides, link[s] \in Seq(Flits), NEW f \in Flits, f.kind # "heartbeat",
           link'[s] = Append(link[s], f)
    PROVE  SameBeats(s)
<1> DEFINE q == link[s]
           r == link'[s]
<1>1. /\ Len(q) \in Nat /\ \A i \in 1 .. Len(q) : r[i] = q[i]
      /\ \A k : At(r, k) = At(q, k) \cup (IF f.kind = k THEN {Len(q) + 1} ELSE {})
  BY AtSent
<1>2. At(r, "heartbeat") = At(q, "heartbeat")
  BY <1>1
<1>3. At(r, "data") \subseteq At(q, "data") \cup {Len(q) + 1}
  <2>1. At(r, "data") = At(q, "data") \cup (IF f.kind = "data" THEN {Len(q) + 1} ELSE {})
    BY <1>1
  <2> QED
    BY <2>1
<1>4. \A i \in At(q, "heartbeat") : i \in 1 .. Len(q) /\ i < Len(q) + 1
  BY <1>1 DEF At
<1>5. BeatsIn(s)' = At(r, "heartbeat") /\ BeatsIn(s) = At(q, "heartbeat")
  BY DEF BeatsIn
<1> QED
  BY <1>1, <1>2, <1>3, <1>4, <1>5 DEF SameBeats

LEMMA BeatsMoveUp ==
    ASSUME NEW q \in Seq(Flits), q # <<>>, Head(q).kind # "heartbeat"
    PROVE  /\ \A i \in At(Tail(q), "heartbeat") :
                 i + 1 \in At(q, "heartbeat") /\ Tail(q)[i] = q[i + 1] /\ i \in Nat
           /\ \A i \in At(q, "heartbeat") :
                 i # 1 => i - 1 \in At(Tail(q), "heartbeat") /\ Tail(q)[i - 1] = q[i]
           /\ \A i \in At(Tail(q), "data") : i + 1 \in At(q, "data") /\ i \in Nat
           /\ 1 \notin At(q, "heartbeat")
<1>1. /\ Len(q) \in Nat /\ Len(q) > 0 /\ Head(q) = q[1]
      /\ Len(Tail(q)) = Len(q) - 1
      /\ \A i \in 1 .. Len(Tail(q)) : Tail(q)[i] = q[i + 1]
  OBVIOUS
<1>2. ASSUME NEW i \in At(q, "heartbeat"), i # 1
      PROVE  i - 1 \in At(Tail(q), "heartbeat") /\ Tail(q)[i - 1] = q[i]
  <2>1. i \in 1 .. Len(q) /\ q[i].kind = "heartbeat"
    BY DEF At
  <2>2. i - 1 \in 1 .. Len(Tail(q)) /\ (i - 1) + 1 = i
    BY <1>1, <1>2, <2>1
  <2>3. Tail(q)[i - 1] = q[i]
    BY <1>1, <2>2
  <2> QED
    BY <2>1, <2>2, <2>3 DEF At
<1>3. ASSUME NEW k, NEW i \in At(Tail(q), k)
      PROVE  i + 1 \in At(q, k) /\ Tail(q)[i] = q[i + 1] /\ i \in Nat
  BY <1>1 DEF At
<1>4. 1 \notin At(q, "heartbeat")
  BY <1>1 DEF At
<1> QED
  BY <1>2, <1>3, <1>4

LEMMA ArrivingKeeps ==
    ASSUME NEW s \in Sides, link[s] \in Seq(Flits), link[s] # <<>>,
           Head(link[s]).kind # "heartbeat", link'[s] = Tail(link[s])
    PROVE  SameBeats(s)
<1> DEFINE q == link[s]
           r == link'[s]
<1> HIDE DEF q, r
<1>1. q \in Seq(Flits) /\ q # <<>> /\ r = Tail(q) /\ Head(q).kind # "heartbeat"
  BY DEF q, r
<1>2. /\ \A i \in At(r, "heartbeat") : i + 1 \in At(q, "heartbeat") /\ r[i] = q[i + 1] /\ i \in Nat
      /\ \A i \in At(q, "heartbeat") : i # 1 => i - 1 \in At(r, "heartbeat") /\ r[i - 1] = q[i]
      /\ \A i \in At(r, "data") : i + 1 \in At(q, "data") /\ i \in Nat
      /\ 1 \notin At(q, "heartbeat")
  BY <1>1, BeatsMoveUp
<1> USE DEF q, r
<1>3. BeatsIn(s)' = At(r, "heartbeat") /\ BeatsIn(s) = At(q, "heartbeat")
  BY DEF BeatsIn
<1>4. BeatsIn(s)' = {} <=> BeatsIn(s) = {}
  BY <1>2, <1>3
<1>5. \A i \in BeatsIn(s)' : \E j \in BeatsIn(s) : link'[s][i] = link[s][j]
  BY <1>2, <1>3
<1>6. (\A i, j \in BeatsIn(s) : i = j) => (\A i, j \in BeatsIn(s)' : i = j)
  <2> SUFFICES ASSUME \A i, j \in BeatsIn(s) : i = j, NEW i \in BeatsIn(s)', NEW j \in BeatsIn(s)'
               PROVE  i = j
    OBVIOUS
  <2>1. i + 1 = j + 1 /\ i \in Nat /\ j \in Nat
    BY <1>2, <1>3
  <2> QED
    BY <2>1
<1>7. ASSUME \A i \in BeatsIn(s) : \A j \in At(q, "data") : i < j,
             NEW i \in BeatsIn(s)', NEW j \in At(r, "data")
      PROVE  i < j
  <2>1. i + 1 < j + 1 /\ i \in Nat /\ j \in Nat
    BY <1>2, <1>3, <1>7
  <2> QED
    BY <2>1
<1> QED
  BY <1>4, <1>5, <1>6, <1>7 DEF SameBeats

\* A step that is not about heartbeats keeps what is known of the handshake.
LEMMA HandshakeKept ==
    ASSUME NEW s \in Sides, Handshake(s), SameBeats(s), SameBeats(Other(s)),
           turn' = turn, trouble' = trouble, skipped' = skipped,
           heartbeatConsecutive' = heartbeatConsecutive,
           handshakeRXDone' = handshakeRXDone, handshakeTXDone' = handshakeTXDone,
           ccCycles'[s] > 0 => ccCycles[s] > 0
    PROVE  Handshake(s)'
<1> DEFINE o == Other(s)
<1>1. /\ BeatsIn(s)' = {} <=> BeatsIn(s) = {}
      /\ BeatsIn(o)' = {} <=> BeatsIn(o) = {}
      /\ \A i \in BeatsIn(s)' : \E j \in BeatsIn(s) : link'[s][i] = link[s][j]
      /\ \A i \in BeatsIn(o)' : \E j \in BeatsIn(o) : link'[o][i] = link[o][j]
  BY DEF SameBeats
<1>2. AtSea(s)' = AtSea(s) /\ AtSea(o)' = AtSea(o)
  BY <1>1 DEF AtSea
<1>3. Since(s)' = Since(s) /\ Missed(s)' = Missed(s) /\ Ahead(s)' = Ahead(s)
  <2>1. Since(s)' = Since(s)
    BY <1>2 DEF Since
  <2>2. Missed(s)' = Missed(s)
    BY <1>1 DEF Missed, Delay
  <2> QED
    BY <1>2, <2>1, <2>2 DEF Ahead
<1>4. (\A i, j \in BeatsIn(s) : i = j)'
  BY DEF Handshake, SameBeats
<1>5. (\A i \in BeatsIn(s) : link[s][i].consecutive <= ReadyRX =>
                                heartbeatConsecutive[s] <= ReadyRX + Since(s))'
  BY <1>1, <1>3 DEF Handshake
<1>6. (turn = s /\ BeatsIn(s) # {} => \A i \in BeatsIn(o) :
          link[o][i].consecutive = heartbeatConsecutive[o])'
  BY <1>1 DEF Handshake
<1>7. Slow(s) => Slow(s)'
  BY <1>1 DEF Slow
<1>8. Heralded(s) => Heralded(s)'
  <2> SUFFICES ASSUME Heralded(s) PROVE Heralded(s)'
    OBVIOUS
  <2>1. \A i \in BeatsIn(s)' : \A j \in At(link'[s], "data") : i < j
    BY DEF SameBeats, Heralded
  <2>2. \A i \in BeatsIn(s)' : link'[s][i].consecutive > ReadyRX
    BY <1>1 DEF Heralded
  <2> QED
    BY <1>1, <2>1, <2>2 DEF Heralded
<1>9. (ccCycles[s] > 0 =>
          /\ BeatsIn(s) = {} /\ heartbeatConsecutive[o] = 0
          /\ \A i \in BeatsIn(o) : link[o][i].consecutive = 0)'
  BY <1>1 DEF Handshake
<1>10. /\ ~handshakeRXDone[o] /\ ~handshakeTXDone[s] =>
             heartbeatConsecutive[s] <= ReadyRX + Ahead(s) \/ Slow(s)
       /\ ~handshakeRXDone[o] /\ handshakeTXDone[s] => Heralded(s)
       /\ handshakeTXDone[s] => handshakeRXDone[s]
  BY DEF Handshake
<1> QED
  BY <1>3, <1>4, <1>5, <1>6, <1>7, <1>8, <1>9, <1>10 DEF Handshake

-----------------------------------------------------------------------------
(* Credits on a link *)

\* A step that leaves the credits that s returns on their way.
SameCredits(s) ==
    /\ CreditsIn(s) = {} => CreditsIn(s)' = {}
    /\ \A i \in CreditsIn(s) : CreditsIn(s) = {i} =>
          \E j \in CreditsIn(s)' : CreditsIn(s)' = {j} /\ link'[s][j] = link[s][i]

LEMMA LinkKeepsCredits ==
    ASSUME NEW s \in Sides, link'[s] = link[s]
    PROVE  SameCredits(s)
<1>1. CreditsIn(s)' = CreditsIn(s)
  BY DEF CreditsIn
<1> QED
  BY <1>1 DEF SameCredits

LEMMA SendingKeepsCredits ==
    ASSUME NEW s \in Sides, link[s] \in Seq(Flits), NEW f \in Flits, f.kind # "credit",
           link'[s] = Append(link[s], f)
    PROVE  SameCredits(s)
<1> DEFINE q == link[s]
           r == link'[s]
<1>1. /\ Len(q) \in Nat /\ \A i \in 1 .. Len(q) : r[i] = q[i]
      /\ \A k : At(r, k) = At(q, k) \cup (IF f.kind = k THEN {Len(q) + 1} ELSE {})
  BY AtSent
<1>2. At(r, "credit") = At(q, "credit")
  BY <1>1
<1>3. \A i \in At(q, "credit") : r[i] = q[i]
  BY <1>1 DEF At
<1>4. CreditsIn(s)' = At(r, "credit") /\ CreditsIn(s) = At(q, "credit")
  BY DEF CreditsIn
<1> QED
  BY <1>2, <1>3, <1>4 DEF SameCredits

LEMMA CreditsMoveUp ==
    ASSUME NEW q \in Seq(Flits), q # <<>>, Head(q).kind # "credit"
    PROVE  /\ At(q, "credit") = {} => At(Tail(q), "credit") = {}
           /\ \A i \in At(q, "credit") : At(q, "credit") = {i} =>
                 \E j \in At(Tail(q), "credit") :
                    At(Tail(q), "credit") = {j} /\ Tail(q)[j] = q[i]
<1>1. /\ Len(q) \in Nat /\ Len(q) > 0 /\ Head(q) = q[1]
      /\ Len(Tail(q)) = Len(q) - 1
      /\ \A i \in 1 .. Len(Tail(q)) : Tail(q)[i] = q[i + 1]
  OBVIOUS
<1>2. ASSUME NEW j \in At(Tail(q), "credit")
      PROVE  j + 1 \in At(q, "credit") /\ j \in Nat
  BY <1>1 DEF At
<1>3. ASSUME NEW i \in At(q, "credit"), At(q, "credit") = {i}
      PROVE  \E j \in At(Tail(q), "credit") :
                At(Tail(q), "credit") = {j} /\ Tail(q)[j] = q[i]
  <2>1. i \in 1 .. Len(q) /\ i # 1 /\ q[i].kind = "credit"
    BY <1>1 DEF At
  <2>2. i - 1 \in 1 .. Len(Tail(q)) /\ (i - 1) + 1 = i
    BY <1>1, <2>1
  <2>3. i - 1 \in At(Tail(q), "credit") /\ Tail(q)[i - 1] = q[i]
    BY <1>1, <2>1, <2>2 DEF At
  <2>4. \A j \in At(Tail(q), "credit") : j = i - 1
    <3> SUFFICES ASSUME NEW j \in At(Tail(q), "credit") PROVE j = i - 1
      OBVIOUS
    <3>1. j + 1 = i /\ j \in Nat
      BY <1>2, <1>3
    <3> QED
      BY <2>1, <3>1
  <2> QED
    BY <2>3, <2>4
<1>4. At(q, "credit") = {} => At(Tail(q), "credit") = {}
  BY <1>2
<1> QED
  BY <1>3, <1>4

LEMMA ArrivingKeepsCredits ==
    ASSUME NEW s \in Sides, link[s] \in Seq(Flits), link[s] # <<>>,
           Head(link[s]).kind # "credit", link'[s] = Tail(link[s])
    PROVE  SameCredits(s)
<1>1. CreditsIn(s)' = At(Tail(link[s]), "credit") /\ CreditsIn(s) = At(link[s], "credit")
  BY DEF CreditsIn
<1> DEFINE q == link[s]
<1>2. q \in Seq(Flits) /\ q # <<>> /\ Head(q).kind # "credit" /\ link'[s] = Tail(q)
  OBVIOUS
<1>3. CreditsIn(s)' = At(Tail(q), "credit") /\ CreditsIn(s) = At(q, "credit")
  BY <1>1
<1> HIDE DEF q
<1>4. /\ At(q, "credit") = {} => At(Tail(q), "credit") = {}
      /\ \A i \in At(q, "credit") : At(q, "credit") = {i} =>
            \E j \in At(Tail(q), "credit") :
               At(Tail(q), "credit") = {j} /\ Tail(q)[j] = q[i]
  BY <1>2, CreditsMoveUp
<1> QED
  BY <1>2, <1>3, <1>4 DEF SameCredits, q

\* Steps that leave the credits for the words of s alone.
LEMMA BalancedKept ==
    ASSUME NEW s \in Sides, Balanced(s), SameCredits(Other(s)),
           txCredits'[s] = txCredits[s], accepted'[s] = accepted[s],
           delivered'[Other(s)] = delivered[Other(s)],
           rxCredits'[Other(s)] = rxCredits[Other(s)],
           creditFIFO'[s] = creditFIFO[s]
    PROVE  Balanced(s)'
<1>1. PICK c \in 0 .. Credits :
         /\ txCredits[s] + (accepted[s] - delivered[Other(s)]) + rxCredits[Other(s)] + c = Credits
         /\ Returning(s, c)
  BY DEF Balanced
<1>2. Returning(s, c)'
  BY <1>1 DEF Returning, SameCredits
<1> QED
  BY <1>1, <1>2 DEF Balanced

\* Steps that leave the buffers of s, or the flits from s to the other side, alone.
LEMMA BufferedKept ==
    ASSUME NEW s \in Sides, Buffered(s), demarshaller'[s] = demarshaller[s],
           infifo'[s] = infifo[s], delivered'[s] = delivered[s]
    PROVE  Buffered(s)'
  BY DEF Buffered, Data

LEMMA FramedKept ==
    ASSUME NEW s \in Sides, Framed(s), flitCountTX'[s] = flitCountTX[s],
           marshaller'[s] = marshaller[s], accepted'[s] = accepted[s],
           flitCountRX'[s] = flitCountRX[s], Arrived(s)' = Arrived(s)
    PROVE  Framed(s)'
  BY DEF Framed

LEMMA OrderedKept ==
    ASSUME NEW s \in Sides, Ordered(s), link'[s] = link[s],
           Arrived(Other(s))' = Arrived(Other(s)), Written(s)' = Written(s)
    PROVE  Ordered(s)'
  BY DEF Ordered

LEMMA ArrivedKept ==
    ASSUME NEW s \in Sides, demarshaller'[s] = demarshaller[s],
           infifo'[s] = infifo[s], delivered'[s] = delivered[s]
    PROVE  Arrived(s)' = Arrived(s)
  BY DEF Arrived

LEMMA WrittenKept ==
    ASSUME NEW s \in Sides, marshaller'[s] = marshaller[s], accepted'[s] = accepted[s]
    PROVE  Written(s)' = Written(s)
  BY DEF Written

-----------------------------------------------------------------------------
(* What follows from the invariant *)

LEMMA Typed ==
    ASSUME FlowInv
    PROVE  TypeOK /\ trouble \in Troubles \cup {{}}
  BY DEF FlowInv

LEMMA OneSide ==
    ASSUME FlowInv, NEW s \in Sides
    PROVE  /\ Handshake(s) /\ Buffered(s) /\ Framed(s) /\ Ordered(s)
           /\ Balanced(s) /\ Quiet(s)
  BY DEF FlowInv

LEMMA BothSides ==
    ASSUME TypeOK', trouble' \in Troubles \cup {{}},
           \A s \in Sides : Handshake(s)',
           \A s \in Sides : Buffered(s)' /\ Framed(s)',
           \A s \in Sides : Ordered(s)',
           \A s \in Sides : Balanced(s)' /\ Quiet(s)'
    PROVE  FlowInv'
  BY DEF FlowInv

\* The types of what concerns one side.
LEMMA TypesOf ==
    ASSUME TypeOK, NEW s \in Sides
    PROVE  /\ link[s] \in Seq(Flits) /\ infifo[s] \in Seq(Flits)
           /\ demarshaller[s] \in Seq(Flits) /\ creditFIFO[s] \in Seq(Nat)
           /\ accepted[s] \in Nat /\ delivered[s] \in Nat
           /\ marshaller[s] \in 0 .. InterfaceWords
           /\ flitCountTX[s] \in 0 .. InterfaceWords - 1
           /\ flitCountRX[s] \in 0 .. InterfaceWords - 1
           /\ txCredits[s] \in 0 .. Credits /\ rxCredits[s] \in 0 .. Credits
           /\ Len(infifo[s]) \in Nat /\ Len(demarshaller[s]) \in Nat /\ Len(link[s]) \in Nat
           /\ heartbeatConsecutive[s] \in Numbers
           /\ handshakeRXDone[s] \in BOOLEAN /\ handshakeTXDone[s] \in BOOLEAN
<1>1. \A T, q : q \in Seq(T) => Len(q) \in Nat
  OBVIOUS
<1>2. /\ link[s] \in Seq(Flits) /\ infifo[s] \in Seq(Flits)
      /\ demarshaller[s] \in Seq(Flits) /\ creditFIFO[s] \in Seq(Nat)
  BY DEF TypeOK
<1> QED
  BY <1>1, <1>2 DEF TypeOK

\* What has arrived had been written, and what was delivered accepted.
LEMMA Progress ==
    ASSUME FlowInv, NEW s \in Sides
    PROVE  /\ Arrived(s) \in Nat /\ Written(s) \in Nat
           /\ InterfaceWords * delivered[s] <= Arrived(s)
           /\ Written(s) <= InterfaceWords * accepted[s]
           /\ Arrived(Other(s)) <= Written(s)
           /\ delivered[Other(s)] <= accepted[s]
<1> DEFINE o == Other(s)
<1>1. TypeOK /\ o \in Sides
  BY Typed, OtherSide
<1>2. ASSUME NEW t \in Sides
      PROVE  /\ Arrived(t) \in Nat /\ InterfaceWords * delivered[t] <= Arrived(t)
             /\ InterfaceWords * delivered[t] \in Nat
  <2>1. /\ delivered[t] \in Nat
        /\ Len(infifo[t]) \in Nat /\ Len(demarshaller[t]) \in Nat
    BY <1>1, TypesOf
  <2>2. InterfaceWords * delivered[t] \in Nat
    BY <2>1, Times
  <2>3. \A w, i, d \in Nat : w + d + i \in Nat /\ w <= w + d + i
    OBVIOUS
  <2>4. Arrived(t) = InterfaceWords * delivered[t] + Len(demarshaller[t]) + Len(infifo[t])
    BY DEF Arrived
  <2> QED
    BY <2>1, <2>2, <2>3, <2>4
<1>3. Written(s) \in Nat /\ Written(s) <= InterfaceWords * accepted[s]
  <2>1. accepted[s] > 0 => InterfaceWords <= InterfaceWords * accepted[s]
    <3>1. accepted[s] > 0 => InterfaceWords * 0 + InterfaceWords <= InterfaceWords * accepted[s]
      BY <1>1, TypesOf, TimesOrder
    <3>2. InterfaceWords * 0 = 0
      BY Times
    <3> QED
      BY <3>1, <3>2, Times
  <2>2. marshaller[s] > 0 => accepted[s] > 0
    BY OneSide DEF Framed
  <2> QED
    BY <1>1, <2>1, <2>2, TypesOf, Times DEF Written
<1>4. Arrived(o) <= Written(s)
  BY OneSide DEF Ordered, Stream
<1>5. delivered[o] <= accepted[s]
  <2>1. delivered[o] \in Nat /\ accepted[s] \in Nat
    BY <1>1, TypesOf
  <2>2. /\ InterfaceWords * delivered[o] \in Nat /\ InterfaceWords * delivered[o] <= Arrived(o)
        /\ Arrived(o) \in Nat /\ InterfaceWords * accepted[s] \in Nat
    BY <1>1, <1>2, <2>1, Times
  <2>3. InterfaceWords * delivered[o] <= InterfaceWords * accepted[s]
    BY <1>3, <1>4, <2>2
  <2>4. accepted[s] < delivered[o] =>
           InterfaceWords * accepted[s] + InterfaceWords <= InterfaceWords * delivered[o]
    BY <2>1, TimesOrder
  <2> QED
    BY <2>3, <2>1, <2>4, Times
<1> QED
  BY <1>1, <1>2, <1>3, <1>4, <1>5

\* Flits of words are only on their way from a side that may send,
LEMMA SenderMaySend ==
    ASSUME FlowInv, NEW s \in Sides,
           At(link[s], "data") # {} \/ flitCountTX[s] # 0 \/ marshaller[s] # 0
    PROVE  handshakeTXDone[s]
<1>1. TypeOK
  BY Typed
<1>2. accepted[s] > 0
  <2>1. CASE At(link[s], "data") # {}
    <3>1. Arrived(Other(s)) \in Nat /\ Written(s) \in Nat
      BY Progress, OtherSide
    <3>2. PICK i \in At(link[s], "data") : link[s][i].n \in Arrived(Other(s)) .. Written(s) - 1
      BY <2>1, OneSide DEF Ordered, Stream
    <3>3. Written(s) > 0
      BY <3>1, <3>2
    <3>4. InterfaceWords * accepted[s] > 0
      BY <3>1, <3>3, Progress, <1>1, TypesOf, Times
    <3>5. InterfaceWords * 0 = 0
      BY Times
    <3> QED
      BY <3>4, <3>5, <1>1, TypesOf
  <2>2. CASE flitCountTX[s] # 0 \/ marshaller[s] # 0
    BY <1>1, <2>2, OneSide, TypesOf DEF Framed
  <2> QED
    BY <2>1, <2>2
<1> QED
  BY <1>2, OneSide DEF Quiet

\* and so are credits on their way to one.
LEMMA CreditsNeedSender ==
    ASSUME FlowInv, NEW s \in Sides,
           CreditsIn(Other(s)) # {} \/ creditFIFO[s] # <<>>
    PROVE  handshakeTXDone[s]
<1>1. TypeOK /\ Other(s) \in Sides
  BY Typed, OtherSide
<1>2. PICK c \in 0 .. Credits :
         /\ txCredits[s] + (accepted[s] - delivered[Other(s)]) + rxCredits[Other(s)] + c = Credits
         /\ Returning(s, c)
  BY OneSide DEF Balanced
<1>3. 2 * c > Credits
  BY <1>2 DEF Returning
<1>4. delivered[Other(s)] <= accepted[s]
  BY Progress
<1>5. Credits \in Nat
  BY FlowAssumption
<1>6. ~(accepted[s] = 0 /\ txCredits[s] = Credits)
  <2>1. /\ accepted[s] \in Nat /\ delivered[Other(s)] \in Nat
        /\ rxCredits[Other(s)] \in Nat /\ c \in Nat
    BY <1>1, <1>5, TypesOf
  <2> QED
    BY <1>2, <1>3, <1>4, <1>5, <2>1
<1> QED
  BY <1>6, OneSide DEF Quiet

\* A side that may send may receive.
LEMMA SenderReceives ==
    ASSUME FlowInv, NEW s \in Sides, handshakeTXDone[s]
    PROVE  handshakeRXDone[s]
  BY OneSide DEF Handshake

-----------------------------------------------------------------------------
(* What a step leaves alone *)

LEMMA HandshakeIdle ==
    ASSUME NEW s \in Sides, Handshake(s), link' = link, turn' = turn, trouble' = trouble,
           skipped' = skipped, heartbeatConsecutive' = heartbeatConsecutive,
           handshakeRXDone' = handshakeRXDone, handshakeTXDone' = handshakeTXDone,
           ccCycles'[s] > 0 => ccCycles[s] > 0
    PROVE  Handshake(s)'
<1>1. SameBeats(s) /\ SameBeats(Other(s))
  BY LinkKeeps, OtherSide
<1> QED
  BY <1>1, HandshakeKept

LEMMA TrafficIdle ==
    ASSUME FlowInv, NEW s \in Sides, UNCHANGED <<sendVars, link, receiveVars, outVars>>,
           handshakeTXDone[s] => handshakeTXDone'[s]
    PROVE  Buffered(s)' /\ Framed(s)' /\ Ordered(s)' /\ Balanced(s)' /\ Quiet(s)'
<1> DEFINE o == Other(s)
<1>1. o \in Sides
  BY OtherSide
<1>2. /\ marshaller' = marshaller /\ flitCountTX' = flitCountTX /\ txCredits' = txCredits
      /\ accepted' = accepted /\ link' = link /\ flitCountRX' = flitCountRX
      /\ creditFIFO' = creditFIFO /\ infifo' = infifo /\ demarshaller' = demarshaller
      /\ rxCredits' = rxCredits /\ delivered' = delivered
  BY DEF sendVars, receiveVars, outVars
<1>3. Arrived(s)' = Arrived(s) /\ Arrived(o)' = Arrived(o) /\ Written(s)' = Written(s)
  BY <1>1, <1>2, ArrivedKept, WrittenKept
<1>4. Buffered(s) /\ Framed(s) /\ Ordered(s) /\ Balanced(s) /\ Quiet(s)
  BY OneSide
<1>5. Buffered(s)' /\ Framed(s)' /\ Ordered(s)'
  BY <1>2, <1>3, <1>4, BufferedKept, FramedKept, OrderedKept
<1>6. Balanced(s)'
  BY <1>1, <1>2, <1>4, LinkKeepsCredits, BalancedKept
<1>7. Quiet(s)'
  BY <1>2, <1>4 DEF Quiet
<1> QED
  BY <1>5, <1>6, <1>7

-----------------------------------------------------------------------------
(* The steps without a heartbeat *)

LEMMA TickCCStep ==
    ASSUME FlowInv, NEW s \in Sides, TickCC(s)
    PROVE  FlowInv'
<1> USE DEF TickCC, beatVars, handshakeVars
<1>1. TypeOK'
  <2>1. ccCycles \in [Sides -> 0 .. CCCycles] /\ TypeOK
    BY Typed DEF TypeOK
  <2>2. ccCycles[s] - 1 \in 0 .. CCCycles
    BY <2>1, FlowAssumption
  <2> QED
    BY <2>1, <2>2 DEF TypeOK, sendVars, receiveVars, outVars
<1>2. trouble' \in Troubles \cup {{}}
  BY Typed
<1>3. \A t \in Sides : ccCycles'[t] > 0 => ccCycles[t] > 0
  <2> SUFFICES ASSUME NEW t \in Sides PROVE ccCycles'[t] > 0 => ccCycles[t] > 0
    OBVIOUS
  <2>1. ccCycles \in [Sides -> 0 .. CCCycles]
    BY Typed DEF TypeOK
  <2>2. ccCycles' = [ccCycles EXCEPT ![s] = @ - 1] /\ ccCycles[s] > 0
    OBVIOUS
  <2>3. CCCycles \in Nat
    BY FlowAssumption
  <2> HIDE DEF TickCC
  <2> QED
    BY <2>1, <2>2, <2>3
<1>4. \A t \in Sides : Handshake(t)'
  BY <1>3, OneSide, HandshakeIdle
<1>5. \A t \in Sides : Buffered(t)' /\ Framed(t)' /\ Ordered(t)' /\ Balanced(t)' /\ Quiet(t)'
  BY TrafficIdle
<1> QED
  BY <1>1, <1>2, <1>4, <1>5, BothSides

LEMMA DeqStep ==
    ASSUME FlowInv, NEW s \in Sides, Deq(s)
    PROVE  FlowInv'
<1> USE DEF Deq, beatVars, handshakeVars, sendVars, receiveVars
<1>1. TypeOK'
  <2>1. rxfifo \in [Sides -> 0 .. RxDepth] /\ TypeOK
    BY Typed DEF TypeOK
  <2>2. rxfifo[s] - 1 \in 0 .. RxDepth
    BY <2>1, FlowAssumption
  <2> QED
    BY <2>1, <2>2 DEF TypeOK
<1>2. trouble' \in Troubles \cup {{}}
  BY Typed
<1>3. \A t \in Sides : Handshake(t)'
  BY OneSide, HandshakeIdle
<1>4. \A t \in Sides : Arrived(t)' = Arrived(t) /\ Written(t)' = Written(t)
  BY ArrivedKept, WrittenKept
<1>5. \A t \in Sides : Buffered(t)' /\ Framed(t)'
  BY <1>4, OneSide, BufferedKept, FramedKept
<1>6. \A t \in Sides : Ordered(t)'
  BY <1>4, OneSide, OtherSide, OrderedKept
<1>7. \A t \in Sides : Balanced(t)' /\ Quiet(t)'
  BY OneSide, OtherSide, LinkKeepsCredits, BalancedKept DEF Quiet
<1> QED
  BY <1>1, <1>2, <1>3, <1>5, <1>6, <1>7, BothSides

\* The user's next word takes a credit.
LEMMA TxDataStep ==
    ASSUME FlowInv, NEW s \in Sides, TxData(s)
    PROVE  FlowInv'
<1> USE DEF TxData, beatVars, handshakeVars, receiveVars, outVars
<1> DEFINE o == Other(s)
<1>0. TypeOK /\ o \in Sides /\ o # s /\ Other(o) = s
  BY Typed, OtherSide
<1>1. /\ marshaller'[s] = InterfaceWords /\ marshaller[s] = 0
      /\ accepted'[s] = accepted[s] + 1 /\ txCredits'[s] = txCredits[s] - 1
      /\ txCredits[s] > 0 /\ handshakeTXDone[s]
      /\ \A t \in Sides : t # s => /\ marshaller'[t] = marshaller[t]
                                   /\ accepted'[t] = accepted[t]
                                   /\ txCredits'[t] = txCredits[t]
  BY <1>0 DEF TypeOK
<1>2. TypeOK'
  <2>1. /\ InterfaceWords \in 0 .. InterfaceWords /\ txCredits[s] - 1 \in 0 .. Credits
        /\ accepted[s] + 1 \in Nat
    BY <1>0, <1>1, TypesOf, FlowAssumption
  <2>2. /\ marshaller' \in [Sides -> 0 .. InterfaceWords]
        /\ txCredits' \in [Sides -> 0 .. Credits] /\ accepted' \in [Sides -> Nat]
    BY <1>0, <2>1 DEF TypeOK
  <2> QED
    BY <1>0, <2>2 DEF TypeOK
<1>3. trouble' \in Troubles \cup {{}}
  BY Typed
<1>4. \A t \in Sides : Handshake(t)'
  BY OneSide, HandshakeIdle
<1>5. \A t \in Sides : Arrived(t)' = Arrived(t)
  BY ArrivedKept
<1>6. \A t \in Sides : Written(t)' = Written(t)
  <2>1. Written(s)' = Written(s)
    BY <1>0, <1>1, TypesOf, Times DEF Written
  <2>2. \A t \in Sides : t # s => Written(t)' = Written(t)
    BY <1>1, WrittenKept
  <2> QED
    BY <2>1, <2>2
<1>7. \A t \in Sides : Buffered(t)' /\ Framed(t)'
  <2>1. \A t \in Sides : Buffered(t)'
    BY OneSide, BufferedKept
  <2>2. \A t \in Sides : t # s => Framed(t)'
    BY <1>1, <1>5, OneSide, FramedKept
  <2>3. Framed(s)'
    <3>1. flitCountTX'[s] = 0
      BY <1>1, OneSide DEF Framed
    <3>2. flitCountTX'[s] = IF marshaller'[s] = 0 THEN 0 ELSE InterfaceWords - marshaller'[s]
      BY <1>1, <3>1, Times
    <3>3. accepted'[s] > 0
      BY <1>0, <1>1, TypesOf
    <3>4. \E q \in Nat : Arrived(s)' = InterfaceWords * q + flitCountRX'[s]
      BY <1>5, OneSide DEF Framed
    <3> QED
      BY <3>2, <3>3, <3>4 DEF Framed
  <2> QED
    BY <2>1, <2>2, <2>3
<1>8. \A t \in Sides : Ordered(t)'
  BY <1>5, <1>6, OneSide, OtherSide, OrderedKept
<1>9. \A t \in Sides : Balanced(t)' /\ Quiet(t)'
  <2>1. \A t \in Sides : t # s => Balanced(t)'
    BY <1>1, OneSide, OtherSide, LinkKeepsCredits, BalancedKept
  <2>2. Balanced(s)'
    <3>1. PICK c \in 0 .. Credits :
             /\ txCredits[s] + (accepted[s] - delivered[o]) + rxCredits[o] + c = Credits
             /\ Returning(s, c)
      BY OneSide DEF Balanced
    <3>2. Returning(s, c)'
      BY <3>1 DEF Returning, CreditsIn
    <3>3. txCredits'[s] + (accepted'[s] - delivered'[o]) + rxCredits'[o] + c = Credits
      <4>1. /\ txCredits[s] \in Int /\ accepted[s] \in Nat /\ delivered[o] \in Nat
            /\ rxCredits[o] \in Int /\ c \in Int /\ delivered' = delivered /\ rxCredits' = rxCredits
        BY <1>0, TypesOf, FlowAssumption
      <4> QED
        BY <1>1, <3>1, <4>1
    <3> QED
      BY <3>2, <3>3 DEF Balanced
  <2>3. \A t \in Sides : Quiet(t)'
    BY <1>1, OneSide DEF Quiet
  <2> QED
    BY <2>1, <2>2, <2>3
<1> QED
  BY <1>2, <1>3, <1>4, <1>7, <1>8, <1>9, BothSides

\* Credits that have come back may be spent.
LEMMA UpdateCreditStep ==
    ASSUME FlowInv, NEW s \in Sides, UpdateCredit(s)
    PROVE  FlowInv'
<1> DEFINE o == Other(s)
<1>0. /\ creditFIFO[s] # <<>>
      /\ creditFIFO' = [creditFIFO EXCEPT ![s] = Tail(@)]
      /\ txCredits' = [txCredits EXCEPT ![s] = @ + Head(creditFIFO[s])]
      /\ UNCHANGED <<ccCycles, heartbeatTX, turn, skipped, handshakeVars, trouble, marshaller,
                     flitCountTX, accepted, link, flitCountRX, infifo, demarshaller,
                     rxCredits, delivered, rxfifo>>
  BY DEF UpdateCredit, beatVars, outVars
<1> USE DEF handshakeVars
<1>1. TypeOK /\ o \in Sides /\ o # s /\ Other(o) = s
  BY Typed, OtherSide
<1>2. PICK c \in 0 .. Credits :
         /\ txCredits[s] + (accepted[s] - delivered[o]) + rxCredits[o] + c = Credits
         /\ Returning(s, c)
  BY OneSide DEF Balanced
<1>3. creditFIFO[s] = <<c>> /\ CreditsIn(o) = {}
  BY <1>0, <1>2 DEF Returning
<1>4. Head(creditFIFO[s]) = c /\ Tail(creditFIFO[s]) = <<>>
  BY <1>3
<1>5. /\ creditFIFO'[s] = <<>> /\ txCredits'[s] = txCredits[s] + c
      /\ \A t \in Sides : t # s => /\ creditFIFO'[t] = creditFIFO[t]
                                   /\ txCredits'[t] = txCredits[t]
  BY <1>0, <1>1, <1>4 DEF TypeOK
<1>6. /\ accepted[s] \in Nat /\ delivered[o] \in Nat /\ delivered[o] <= accepted[s]
      /\ rxCredits[o] \in Nat /\ txCredits[s] \in Nat /\ Credits \in Nat /\ c \in Nat
  BY <1>1, TypesOf, Progress, FlowAssumption
<1>7. TypeOK'
  <2>1. txCredits[s] + c \in 0 .. Credits
    BY <1>2, <1>6
  <2>2. /\ txCredits' \in [Sides -> 0 .. Credits]
        /\ creditFIFO' \in [Sides -> Seq(Nat)]
    <3>1. txCredits \in [Sides -> 0 .. Credits] /\ creditFIFO \in [Sides -> Seq(Nat)]
      BY <1>1 DEF TypeOK
    <3>2. <<>> \in Seq(Nat)
      OBVIOUS
    <3>3. txCredits' \in [Sides -> 0 .. Credits]
      BY <1>0, <1>4, <2>1, <3>1
    <3>4. creditFIFO' \in [Sides -> Seq(Nat)]
      BY <1>0, <1>4, <3>1, <3>2
    <3> QED
      BY <3>3, <3>4
  <2> QED
    BY <1>0, <1>1, <2>2 DEF TypeOK
<1>8. trouble' \in Troubles \cup {{}}
  BY <1>0, Typed
<1>9. \A t \in Sides : Handshake(t)'
  BY <1>0, OneSide, HandshakeIdle
<1>10. \A t \in Sides : Arrived(t)' = Arrived(t) /\ Written(t)' = Written(t)
  BY <1>0, ArrivedKept, WrittenKept
<1>11. \A t \in Sides : Buffered(t)' /\ Framed(t)'
  BY <1>0, <1>10, OneSide, BufferedKept, FramedKept
<1>12. \A t \in Sides : Ordered(t)'
  BY <1>0, <1>10, OneSide, OtherSide, OrderedKept
<1>13. \A t \in Sides : t # s => Balanced(t)' /\ Quiet(t)'
  BY <1>0, <1>5, OneSide, OtherSide, LinkKeepsCredits, BalancedKept DEF Quiet
<1>14. Balanced(s)'
  <2>1. Returning(s, 0)'
    BY <1>0, <1>3, <1>5 DEF Returning, CreditsIn
  <2>2. txCredits'[s] + (accepted'[s] - delivered'[o]) + rxCredits'[o] + 0 = Credits
    BY <1>0, <1>2, <1>5, <1>6
  <2> QED
    BY <1>6, <2>1, <2>2 DEF Balanced
<1>15. Quiet(s)'
  <2>1. handshakeTXDone[s]
    BY <1>0, CreditsNeedSender
  <2> QED
    BY <1>0, <2>1 DEF Quiet
<1> QED
  BY <1>7, <1>8, <1>9, <1>11, <1>12, <1>13, <1>14, <1>15, BothSides

\* A flit of a word moves from the buffer to the demarshaller.
LEMMA RxDemarshStep ==
    ASSUME FlowInv, NEW s \in Sides, RxDemarsh(s)
    PROVE  FlowInv'
<1>0. /\ infifo[s] # <<>> /\ Len(demarshaller[s]) # InterfaceWords
      /\ infifo' = [infifo EXCEPT ![s] = Tail(@)]
      /\ demarshaller' = [demarshaller EXCEPT ![s] = Append(@, Head(infifo[s]))]
      /\ UNCHANGED <<ccCycles, beatVars, heartbeatRX, heartbeatConsecutive, heartbeatFirst,
                     handshakeRXDone, handshakeTXDone, trouble, marshaller, flitCountTX,
                     txCredits, accepted, link, flitCountRX, creditFIFO, rxCredits,
                     delivered, rxfifo>>
  BY DEF RxDemarsh, DemarshIdle, handshakeVars, sendVars
<1> USE DEF beatVars
<1>1. TypeOK
  BY Typed
<1> DEFINE q == infifo[s]
           d == demarshaller[s]
           z == InterfaceWords * delivered[s]
<1>2. /\ infifo'[s] = Tail(q) /\ demarshaller'[s] = Append(d, Head(q))
      /\ \A t \in Sides : t # s => infifo'[t] = infifo[t] /\ demarshaller'[t] = demarshaller[t]
  BY <1>0, <1>1 DEF TypeOK
<1>3. /\ q \in Seq(Flits) /\ d \in Seq(Flits) /\ q # <<>>
      /\ Len(d) <= InterfaceWords /\ Len(d) # InterfaceWords
      /\ InterfaceWords \in Nat /\ z \in Nat /\ Len(d) \in Nat
      /\ \A i \in 1 .. Len(d) : d[i] = Data(z + i - 1)
      /\ \A i \in 1 .. Len(q) : q[i] = Data(z + Len(d) + i - 1)
  BY <1>0, <1>1, OneSide, TypesOf, Times DEF Buffered
<1> HIDE DEF q, d, z
<1>4. /\ Len(q) \in Nat /\ Len(q) > 0 /\ Head(q) = q[1] /\ q[1] \in Flits
      /\ Tail(q) \in Seq(Flits) /\ Len(Tail(q)) = Len(q) - 1
      /\ \A i \in 1 .. Len(Tail(q)) : Tail(q)[i] = q[i + 1]
  BY <1>3
<1>5. /\ Append(d, Head(q)) \in Seq(Flits) /\ Len(Append(d, Head(q))) = Len(d) + 1
      /\ Append(d, Head(q))[Len(d) + 1] = Head(q)
      /\ \A i \in 1 .. Len(d) : Append(d, Head(q))[i] = d[i]
  BY <1>3, <1>4
<1>6. TypeOK'
  <2>1. infifo' \in [Sides -> Seq(Flits)] /\ demarshaller' \in [Sides -> Seq(Flits)]
    BY <1>0, <1>1, <1>4, <1>5 DEF TypeOK, q, d
  <2> QED
    BY <1>0, <1>1, <2>1 DEF TypeOK
<1>7. trouble' \in Troubles \cup {{}}
  BY <1>0, Typed
<1>8. \A t \in Sides : Handshake(t)'
  BY <1>0, OneSide, HandshakeIdle
<1>9. \A t \in Sides : Arrived(t)' = Arrived(t) /\ Written(t)' = Written(t)
  <2>1. Arrived(s)' = Arrived(s)
    <3>1. Len(infifo'[s]) = Len(q) - 1 /\ Len(demarshaller'[s]) = Len(d) + 1
      BY <1>2, <1>4, <1>5 DEF q, d
    <3>2. Arrived(s) = z + Len(d) + Len(q)
      BY DEF Arrived, z, d, q
    <3>3. Arrived(s)' = z + (Len(d) + 1) + (Len(q) - 1)
      BY <1>0, <3>1 DEF Arrived, z
    <3> QED
      BY <1>3, <1>4, <3>2, <3>3
  <2> QED
    BY <1>0, <1>2, <2>1, ArrivedKept, WrittenKept
<1>10. Buffered(s)'
  <2>1. \A i \in 1 .. Len(d) + 1 : Append(d, Head(q))[i] = Data(z + i - 1)
    <3> SUFFICES ASSUME NEW i \in 1 .. Len(d) + 1
                 PROVE  Append(d, Head(q))[i] = Data(z + i - 1)
      OBVIOUS
    <3>1. CASE i = Len(d) + 1
      <4>1. q[1] = Data(z + Len(d) + 1 - 1) /\ z + Len(d) + 1 - 1 = z + i - 1
        BY <1>3, <1>4, <3>1
      <4> QED
        BY <1>4, <1>5, <3>1, <4>1
    <3>2. CASE i # Len(d) + 1
      <4>1. i \in 1 .. Len(d)
        BY <1>3, <3>2
      <4> QED
        BY <1>3, <1>5, <4>1
    <3> QED
      BY <3>1, <3>2
  <2>2. \A i \in 1 .. Len(Tail(q)) : Tail(q)[i] = Data(z + (Len(d) + 1) + i - 1)
    <3> SUFFICES ASSUME NEW i \in 1 .. Len(Tail(q))
                 PROVE  Tail(q)[i] = Data(z + (Len(d) + 1) + i - 1)
      OBVIOUS
    <3>1. i + 1 \in 1 .. Len(q) /\ z + Len(d) + (i + 1) - 1 = z + (Len(d) + 1) + i - 1
      BY <1>3, <1>4
    <3> QED
      BY <1>3, <1>4, <3>1
  <2>3. /\ infifo'[s] = Tail(q) /\ demarshaller'[s] = Append(d, Head(q))
        /\ InterfaceWords * delivered'[s] = z /\ Len(demarshaller'[s]) = Len(d) + 1
    BY <1>0, <1>2, <1>5 DEF q, d, z
  <2>4. Len(d) + 1 <= InterfaceWords
    BY <1>3
  <2> QED
    BY <2>1, <2>2, <2>3, <2>4 DEF Buffered, Data
<1>11. \A t \in Sides : Buffered(t)' /\ Framed(t)'
  BY <1>0, <1>2, <1>9, <1>10, OneSide, BufferedKept, FramedKept
<1>12. \A t \in Sides : Ordered(t)'
  BY <1>0, <1>9, OneSide, OtherSide, OrderedKept
<1>13. \A t \in Sides : Balanced(t)' /\ Quiet(t)'
  BY <1>0, OneSide, OtherSide, LinkKeepsCredits, BalancedKept DEF Quiet
<1> QED
  BY <1>6, <1>7, <1>8, <1>11, <1>12, <1>13, BothSides

\* A complete word is delivered, and its credit will go back.
LEMMA RxDoneStep ==
    ASSUME FlowInv, NEW s \in Sides, RxDone(s)
    PROVE  FlowInv'
<1>0. /\ Len(demarshaller[s]) = InterfaceWords /\ rxfifo[s] < RxDepth
      /\ demarshaller' = [demarshaller EXCEPT ![s] = <<>>]
      /\ rxCredits' = [rxCredits EXCEPT ![s] = @ + 1]
      /\ delivered' = [delivered EXCEPT ![s] = @ + 1]
      /\ rxfifo' = [rxfifo EXCEPT ![s] = @ + 1]
      /\ UNCHANGED <<ccCycles, beatVars, heartbeatRX, heartbeatConsecutive, heartbeatFirst,
                     handshakeRXDone, handshakeTXDone, trouble, marshaller, flitCountTX,
                     txCredits, accepted, link, flitCountRX, creditFIFO, infifo>>
  BY DEF RxDone, handshakeVars, sendVars, receiveVars
<1> USE DEF beatVars
<1> DEFINE o == Other(s)
<1>1. TypeOK /\ o \in Sides /\ o # s /\ Other(o) = s
  BY Typed, OtherSide
<1>2. /\ demarshaller'[s] = <<>> /\ rxCredits'[s] = rxCredits[s] + 1
      /\ delivered'[s] = delivered[s] + 1
      /\ \A t \in Sides : t # s => /\ demarshaller'[t] = demarshaller[t]
                                   /\ rxCredits'[t] = rxCredits[t]
                                   /\ delivered'[t] = delivered[t]
  BY <1>0, <1>1 DEF TypeOK
<1>3. /\ delivered[s] \in Nat /\ accepted[o] \in Nat /\ rxCredits[s] \in Nat
      /\ txCredits[o] \in Nat /\ Len(infifo[s]) \in Nat /\ Credits \in Nat
      /\ rxfifo[s] \in 0 .. RxDepth /\ RxDepth \in Nat
  BY <1>1, TypesOf, FlowAssumption DEF TypeOK
<1>4. delivered[s] + 1 <= accepted[o]
  <2>1. Arrived(s) = InterfaceWords * delivered[s] + InterfaceWords + Len(infifo[s])
    BY <1>0 DEF Arrived
  <2>2. /\ Arrived(s) <= Written(o) /\ Written(o) <= InterfaceWords * accepted[o]
        /\ Arrived(s) \in Nat /\ Written(o) \in Nat
    BY <1>1, Progress
  <2>3. /\ InterfaceWords * delivered[s] \in Nat /\ InterfaceWords * accepted[o] \in Nat
        /\ InterfaceWords \in Nat \ {0}
    BY <1>3, Times
  <2>4. InterfaceWords * delivered[s] + InterfaceWords <= InterfaceWords * accepted[o]
    <3>1. \A d, w, l, a, b \in Nat : a = d + w + l /\ a <= b => d + w <= b
      OBVIOUS
    <3>2. Arrived(s) <= InterfaceWords * accepted[o]
      BY <2>2, <2>3
    <3> QED
      BY <1>3, <2>1, <2>2, <2>3, <3>1, <3>2
  <2>5. accepted[o] <= delivered[s] =>
           InterfaceWords * accepted[o] <= InterfaceWords * delivered[s]
    BY <1>3, TimesOrder
  <2>6. \A d, b \in Nat : \A w \in Nat \ {0} : d + w <= b => ~(b <= d)
    OBVIOUS
  <2>7. ~(accepted[o] <= delivered[s])
    BY <2>3, <2>4, <2>5, <2>6
  <2> QED
    BY <1>3, <2>7
<1>5. PICK c \in 0 .. Credits :
         /\ txCredits[o] + (accepted[o] - delivered[s]) + rxCredits[s] + c = Credits
         /\ Returning(o, c)
  BY <1>1, OneSide DEF Balanced
<1>6. /\ txCredits[o] + (accepted[o] - (delivered[s] + 1)) + (rxCredits[s] + 1) + c = Credits
       /\ rxCredits[s] + 1 \in 0 .. Credits
  <2> DEFINE x == txCredits[o]
             a == accepted[o]
             d == delivered[s]
             r == rxCredits[s]
  <2>1. /\ x \in Nat /\ a \in Nat /\ d \in Nat /\ r \in Nat /\ c \in Nat /\ Credits \in Nat
        /\ d + 1 <= a /\ x + (a - d) + r + c = Credits
    BY <1>3, <1>4, <1>5
  <2> HIDE DEF x, a, d, r
  <2>2. x + (a - (d + 1)) + (r + 1) + c = Credits /\ r + 1 \in 0 .. Credits
    BY <2>1
  <2> QED
    BY <2>2 DEF x, a, d, r
<1>7. TypeOK'
  <2>1. rxCredits[s] + 1 \in 0 .. Credits /\ rxfifo[s] + 1 \in 0 .. RxDepth
    <3> DEFINE m == rxfifo[s]
    <3>1. m \in 0 .. RxDepth /\ RxDepth \in Nat /\ m < RxDepth
      BY <1>0, <1>3
    <3> HIDE DEF m
    <3>2. m + 1 \in 0 .. RxDepth
      BY <3>1
    <3> QED
      BY <1>6, <3>2 DEF m
  <2>2. rxCredits' \in [Sides -> 0 .. Credits] /\ rxfifo' \in [Sides -> 0 .. RxDepth]
    BY <1>0, <1>1, <2>1 DEF TypeOK
  <2>3. delivered' \in [Sides -> Nat]
    <3>1. delivered \in [Sides -> Nat]
      BY <1>1 DEF TypeOK
    <3> QED
      BY <1>0, <3>1
  <2>4. demarshaller' \in [Sides -> Seq(Flits)]
    <3>1. demarshaller \in [Sides -> Seq(Flits)] /\ <<>> \in Seq(Flits)
      BY <1>1 DEF TypeOK
    <3> QED
      BY <1>0, <3>1
  <2> QED
    BY <1>0, <1>1, <2>2, <2>3, <2>4 DEF TypeOK
<1>8. trouble' \in Troubles \cup {{}}
  BY <1>0, Typed
<1>9. \A t \in Sides : Handshake(t)'
  BY <1>0, OneSide, HandshakeIdle
<1>10. \A t \in Sides : Arrived(t)' = Arrived(t) /\ Written(t)' = Written(t)
  <2>1. Arrived(s)' = Arrived(s)
    <3>1. Arrived(s) = InterfaceWords * delivered[s] + InterfaceWords + Len(infifo[s])
      BY <1>0 DEF Arrived
    <3>2. Len(demarshaller'[s]) = 0
      BY <1>2
    <3>3. Arrived(s)' = InterfaceWords * (delivered[s] + 1) + 0 + Len(infifo[s])
      BY <1>0, <1>2, <3>2 DEF Arrived
    <3>4. /\ InterfaceWords * (delivered[s] + 1) = InterfaceWords * delivered[s] + InterfaceWords
          /\ InterfaceWords * delivered[s] \in Nat /\ InterfaceWords \in Nat
      BY <1>3, Times
    <3> QED
      BY <1>3, <3>1, <3>3, <3>4
  <2> QED
    BY <1>0, <1>2, <2>1, ArrivedKept, WrittenKept
<1>11. Buffered(s)'
  <2>1. \A i \in 1 .. Len(infifo[s]) :
           infifo[s][i] = Data(InterfaceWords * delivered[s] + InterfaceWords + i - 1)
    BY <1>0, OneSide DEF Buffered
  <2>2. InterfaceWords * (delivered[s] + 1) = InterfaceWords * delivered[s] + InterfaceWords
    BY <1>3, Times
  <2>3. \A i \in 1 .. Len(infifo[s]) :
           infifo[s][i] = Data(InterfaceWords * (delivered[s] + 1) + 0 + i - 1)
    <3>1. InterfaceWords * (delivered[s] + 1) \in Nat
      BY <1>3, Times
    <3>2. InterfaceWords * (delivered[s] + 1) + 0 = InterfaceWords * (delivered[s] + 1)
      BY <3>1
    <3> QED
      BY <2>1, <2>2, <3>2
  <2>4. Len(demarshaller'[s]) = 0 /\ infifo'[s] = infifo[s] /\ 1 .. 0 = {}
    BY <1>0, <1>2
  <2>5. InterfaceWords \in Nat
    BY Times
  <2> QED
    BY <1>2, <2>3, <2>4, <2>5 DEF Buffered, Data
<1>12. \A t \in Sides : Buffered(t)' /\ Framed(t)'
  BY <1>0, <1>2, <1>10, <1>11, OneSide, BufferedKept, FramedKept
<1>13. \A t \in Sides : Ordered(t)'
  BY <1>0, <1>10, OneSide, OtherSide, OrderedKept
<1>14. Balanced(s)'
  BY <1>0, <1>1, <1>2, OneSide, LinkKeepsCredits, BalancedKept
<1>15. Balanced(o)'
  <2>1. Returning(o, c)'
    BY <1>0, <1>5 DEF Returning, CreditsIn
  <2>2. txCredits'[o] + (accepted'[o] - delivered'[s]) + rxCredits'[s] + c = Credits
    BY <1>0, <1>1, <1>2, <1>6
  <2> QED
    BY <1>1, <2>1, <2>2 DEF Balanced
<1>16. \A t \in Sides : Balanced(t)' /\ Quiet(t)'
  BY <1>0, <1>14, <1>15, OneSide, OtherSide DEF Quiet
<1> QED
  BY <1>7, <1>8, <1>9, <1>12, <1>13, <1>16, BothSides

-----------------------------------------------------------------------------
(* Flits that are sent and that arrive *)

\* More than half of the credits are due before they are returned.
LEMMA MoreThanHalf ==
    ASSUME NEW s \in Sides, rxCredits[s] \in 0 .. Credits, CreditsDue(s)
    PROVE  2 * rxCredits[s] > Credits
<1>1. Credits \in Nat /\ Credits % 4 = 0
  BY FlowAssumption
<1>2. Credits < 2 * (Credits \div 2) + 2 /\ Credits \div 2 \in Int
  BY <1>1, Z3
<1>3. Credits = 4 * (Credits \div 4) /\ Credits \div 4 \in Int
  BY <1>1, Z3
<1>4. rxCredits[s] > Credits \div 2 \/ rxCredits[s] > 3 * (Credits \div 4)
  BY DEF CreditsDue
<1> DEFINE r == rxCredits[s]
           h == Credits \div 2
           k == Credits \div 4
<1>5. /\ r \in Int /\ h \in Int /\ k \in Int /\ Credits \in Nat
      /\ Credits < 2 * h + 2 /\ Credits = 4 * k
      /\ r > h \/ r > 3 * k
  BY <1>1, <1>2, <1>3, <1>4
<1> HIDE DEF r, h, k
<1>6. 2 * r > Credits
  BY <1>5
<1> QED
  BY <1>6 DEF r

\* A side sends credits and heartbeats between words,
LEMMA SentBetween ==
    ASSUME FlowInv, NEW s \in Sides, flitCountTX[s] = 0
    PROVE  \E w \in Nat : Written(s) = InterfaceWords * w
<1>1. TypeOK
  BY Typed
<1>2. accepted[s] \in Nat /\ marshaller[s] \in 0 .. InterfaceWords /\ InterfaceWords \in Nat \ {0}
  BY <1>1, TypesOf, Times
<1>3. /\ flitCountTX[s] = IF marshaller[s] = 0 THEN 0 ELSE InterfaceWords - marshaller[s]
      /\ marshaller[s] > 0 => accepted[s] > 0
  BY OneSide DEF Framed
<1>4. CASE marshaller[s] = 0
  <2>1. Written(s) = InterfaceWords * accepted[s]
    BY <1>2, <1>4, Times DEF Written
  <2> QED
    BY <1>2, <2>1
<1>5. CASE marshaller[s] # 0
  <2>1. marshaller[s] = InterfaceWords /\ accepted[s] - 1 \in Nat /\ (accepted[s] - 1) + 1 = accepted[s]
    BY <1>2, <1>3, <1>5
  <2>2. /\ InterfaceWords * accepted[s] = InterfaceWords * (accepted[s] - 1) + InterfaceWords
        /\ InterfaceWords * (accepted[s] - 1) \in Nat
    BY <2>1, Times
  <2>3. Written(s) = InterfaceWords * (accepted[s] - 1)
    BY <1>2, <2>1, <2>2 DEF Written
  <2> QED
    BY <2>1, <2>3
<1> QED
  BY <1>4, <1>5

\* and they arrive between words; flits of words arrive in their order; a side
\* that something other than a heartbeat comes to is ready to receive it.
LEMMA ArrivesInTurn ==
    ASSUME FlowInv, NEW s \in Sides, incoming(s) # <<>>
    PROVE  /\ Head(incoming(s)).kind # "heartbeat" => handshakeRXDone[s]
           /\ Head(incoming(s)).kind # "data" => flitCountRX[s] = 0
           /\ Head(incoming(s)).kind = "data" => Head(incoming(s)) = Data(Arrived(s))
           /\ Head(incoming(s)).kind \in {"data", "credit", "heartbeat"}
<1> DEFINE o == Other(s)
           q == incoming(s)
<1>1. TypeOK /\ o \in Sides /\ o # s /\ Other(o) = s
  BY Typed, OtherSide
<1>2. q = link[o] /\ q \in Seq(Flits) /\ Arrived(s) \in Nat /\ Written(o) \in Nat
  BY <1>1, TypesOf, Progress DEF incoming
<1>3. Stream(q, Arrived(s), Written(o))
  BY <1>1, <1>2, OneSide DEF Ordered
<1>4. Head(q) = q[1] /\ Head(q) \in Flits /\ 1 \in 1 .. Len(q)
  BY <1>2
<1>5. Head(q).kind \in {"data", "credit", "heartbeat"}
  BY <1>4 DEF Flits
<1>6. Head(q).kind = "data" => Head(q) = Data(Arrived(s))
  BY <1>2, <1>3, StreamHead
<1>7. ASSUME Head(q).kind # "data"
      PROVE  flitCountRX[s] = 0
  <2>1. PICK w \in Nat : Arrived(s) = InterfaceWords * w
    BY <1>2, <1>3, <1>7, StreamHead
  <2>2. PICK v \in Nat : Arrived(s) = InterfaceWords * v + flitCountRX[s]
    BY OneSide DEF Framed
  <2> QED
    BY <1>1, <2>1, <2>2, TypesOf, Boundary
<1>8. ASSUME Head(q).kind = "data"
      PROVE  handshakeRXDone[s]
  <2>1. 1 \in At(link[o], "data")
    BY <1>2, <1>4, <1>8 DEF At
  <2>2. handshakeTXDone[o]
    BY <1>1, <2>1, SenderMaySend
  <2>3. ASSUME ~handshakeRXDone[s] PROVE FALSE
    <3>1. Heralded(o)
      BY <1>1, <2>2, <2>3, OneSide DEF Handshake
    <3>2. PICK i \in BeatsIn(o) : \A j \in At(link[o], "data") : i < j
      BY <3>1 DEF Heralded
    <3>3. i < 1 /\ i \in 1 .. Len(link[o])
      BY <2>1, <3>2 DEF BeatsIn, At
    <3> QED
      BY <1>1, <3>3, TypesOf
  <2> QED
    BY <2>3
<1>9. ASSUME Head(q).kind = "credit"
      PROVE  handshakeRXDone[s]
  <2>1. 1 \in CreditsIn(o)
    BY <1>2, <1>4, <1>9 DEF At, CreditsIn
  <2> QED
    BY <2>1, CreditsNeedSender, SenderReceives
<1> QED
  BY <1>5, <1>6, <1>7, <1>8, <1>9

\* The next flit of a word is sent.
LEMMA TxSendStep ==
    ASSUME FlowInv, NEW s \in Sides, TxSend(s)
    PROVE  FlowInv'
<1> DEFINE f == Data(accepted[s] * InterfaceWords - marshaller[s])
           o == Other(s)
<1>0. /\ handshakeTXDone[s] /\ marshaller[s] > 0
      /\ link' = [link EXCEPT ![s] = Append(@, f)]
      /\ marshaller' = [marshaller EXCEPT ![s] = @ - 1]
      /\ flitCountTX' = [flitCountTX EXCEPT ![s] = NextFlit(@)]
      /\ UNCHANGED <<ccCycles, heartbeatTX, turn, skipped, heartbeatRX, heartbeatConsecutive,
                     heartbeatFirst, handshakeRXDone, handshakeTXDone, trouble, txCredits,
                     accepted, flitCountRX, creditFIFO, infifo, outVars>>
  BY DEF TxSend, Send, beatVars, handshakeVars, receiveVars
<1> USE DEF outVars
<1>1. TypeOK /\ o \in Sides /\ o # s /\ Other(o) = s
  BY Typed, OtherSide
<1>2. /\ accepted[s] \in Nat /\ marshaller[s] \in 0 .. InterfaceWords /\ InterfaceWords \in Nat \ {0}
      /\ link[s] \in Seq(Flits) /\ Written(s) \in Nat /\ Arrived(o) \in Nat
      /\ flitCountTX[s] \in 0 .. InterfaceWords - 1
  BY <1>1, TypesOf, Times, Progress
<1>3. f = Data(Written(s))
  BY <1>2, Times DEF Written
<1>4. f \in Flits /\ f.kind = "data"
  BY <1>2, <1>3 DEF Flits, Data
<1> HIDE DEF f
<1>5. /\ link'[s] = Append(link[s], f) /\ marshaller'[s] = marshaller[s] - 1
      /\ flitCountTX'[s] = NextFlit(flitCountTX[s])
      /\ \A t \in Sides : t # s => /\ link'[t] = link[t] /\ marshaller'[t] = marshaller[t]
                                   /\ flitCountTX'[t] = flitCountTX[t]
  BY <1>0, <1>1 DEF TypeOK
<1>6. flitCountTX'[s] = IF marshaller'[s] = 0 THEN 0 ELSE InterfaceWords - marshaller'[s]
  <2>1. flitCountTX[s] = InterfaceWords - marshaller[s]
    BY <1>0, OneSide DEF Framed
  <2>2. NextFlit(flitCountTX[s]) =
           IF marshaller[s] - 1 = 0 THEN 0 ELSE InterfaceWords - (marshaller[s] - 1)
    <3> DEFINE m == marshaller[s]
    <3>1. m \in 0 .. InterfaceWords /\ flitCountTX[s] = InterfaceWords - m
      BY <1>2, <2>1
    <3> HIDE DEF m
    <3>2. NextFlit(flitCountTX[s]) = IF m - 1 = 0 THEN 0 ELSE InterfaceWords - (m - 1)
      BY <1>2, <3>1 DEF NextFlit
    <3> QED
      BY <3>2 DEF m
  <2> QED
    BY <1>5, <2>2
<1>7. /\ marshaller'[s] \in 0 .. InterfaceWords /\ flitCountTX'[s] \in 0 .. InterfaceWords - 1
  <2> DEFINE m == marshaller[s]
  <2>1. m \in 0 .. InterfaceWords /\ m > 0 /\ InterfaceWords \in Nat \ {0} /\ marshaller'[s] = m - 1
        /\ flitCountTX'[s] = IF m - 1 = 0 THEN 0 ELSE InterfaceWords - (m - 1)
    BY <1>0, <1>2, <1>5, <1>6
  <2> HIDE DEF m
  <2> QED
    BY <2>1
<1>8. TypeOK'
  <2>1. link' \in [Sides -> Seq(Flits)]
    BY <1>0, <1>1, <1>4 DEF TypeOK
  <2>2. marshaller' \in [Sides -> 0 .. InterfaceWords]
    BY <1>0, <1>1, <1>5, <1>7 DEF TypeOK
  <2>3. flitCountTX' \in [Sides -> 0 .. InterfaceWords - 1]
    BY <1>0, <1>1, <1>5, <1>7 DEF TypeOK
  <2> QED
    BY <1>0, <1>1, <2>1, <2>2, <2>3 DEF TypeOK
<1>9. trouble' \in Troubles \cup {{}}
  BY <1>0, Typed
<1>10. \A t \in Sides : SameBeats(t) /\ SameCredits(t)
  <2>1. SameBeats(s) /\ SameCredits(s)
    BY <1>2, <1>4, <1>5, SendingKeeps, SendingKeepsCredits
  <2> QED
    BY <1>5, <2>1, LinkKeeps, LinkKeepsCredits
<1>11. \A t \in Sides : Handshake(t)'
  BY <1>0, <1>10, OneSide, OtherSide, HandshakeKept
<1>12. \A t \in Sides : Arrived(t)' = Arrived(t)
  BY <1>0, ArrivedKept
<1>13. Written(s)' = Written(s) + 1
  <2> DEFINE m == marshaller[s]
             a == InterfaceWords * accepted[s]
  <2>1. m \in Int /\ a \in Int
    BY <1>2, Times
  <2>2. Written(s) = a - m /\ Written(s)' = a - (m - 1)
    BY <1>0, <1>5 DEF Written
  <2> HIDE DEF m, a
  <2> QED
    BY <2>1, <2>2
<1>14. \A t \in Sides : Buffered(t)' /\ Framed(t)'
  <2>1. \A t \in Sides : Buffered(t)'
    BY <1>0, OneSide, BufferedKept
  <2>2. \A t \in Sides : t # s => Framed(t)'
    BY <1>0, <1>5, <1>12, OneSide, FramedKept
  <2>3. Framed(s)'
    <3>1. accepted'[s] > 0
      BY <1>0, OneSide DEF Framed
    <3>2. \E w \in Nat : Arrived(s)' = InterfaceWords * w + flitCountRX'[s]
      BY <1>0, <1>12, OneSide DEF Framed
    <3> QED
      BY <1>6, <3>1, <3>2 DEF Framed
  <2> QED
    BY <2>1, <2>2, <2>3
<1>15. \A t \in Sides : Ordered(t)'
  <2>1. Ordered(s)'
    <3>1. Stream(link[s], Arrived(o), Written(s))
      BY OneSide DEF Ordered
    <3>2. Stream(Append(link[s], Data(Written(s))), Arrived(o), Written(s) + 1)
      BY <1>2, <3>1, StreamData
    <3> QED
      BY <1>1, <1>3, <1>5, <1>12, <1>13, <3>2 DEF Ordered
  <2>2. \A t \in Sides : t # s => Ordered(t)'
    BY <1>0, <1>5, <1>12, OneSide, OtherSide, WrittenKept, OrderedKept
  <2> QED
    BY <2>1, <2>2
<1>16. \A t \in Sides : Balanced(t)' /\ Quiet(t)'
  BY <1>0, <1>10, OneSide, OtherSide, BalancedKept DEF Quiet
<1> QED
  BY <1>8, <1>9, <1>11, <1>14, <1>15, <1>16, BothSides

\* The credits that are due are returned: none are on their way yet.
LEMMA TxFCStep ==
    ASSUME FlowInv, NEW s \in Sides, TxFC(s)
    PROVE  FlowInv'
<1> DEFINE f == Credit(rxCredits[s])
           o == Other(s)
<1>0. /\ flitCountTX[s] = 0 /\ CreditsDue(s)
      /\ link' = [link EXCEPT ![s] = Append(@, f)]
      /\ rxCredits' = [rxCredits EXCEPT ![s] = 0]
      /\ UNCHANGED <<ccCycles, heartbeatTX, turn, skipped, heartbeatRX, heartbeatConsecutive,
                     heartbeatFirst, handshakeRXDone, handshakeTXDone, trouble, sendVars,
                     flitCountRX, creditFIFO, infifo, demarshaller, delivered, rxfifo>>
  BY DEF TxFC, Send, beatVars, handshakeVars, receiveVars
<1> USE DEF sendVars
<1>1. TypeOK /\ o \in Sides /\ o # s /\ Other(o) = s
  BY Typed, OtherSide
<1>2. /\ link[s] \in Seq(Flits) /\ Written(s) \in Nat /\ Arrived(o) \in Nat
      /\ rxCredits[s] \in 0 .. Credits /\ Credits \in Nat
  BY <1>1, TypesOf, Progress, FlowAssumption
<1>3. f \in Flits /\ f.kind = "credit" /\ f.n = rxCredits[s]
  BY <1>2 DEF Flits, Credit
<1> HIDE DEF f
<1>4. /\ link'[s] = Append(link[s], f) /\ rxCredits'[s] = 0
      /\ \A t \in Sides : t # s => link'[t] = link[t] /\ rxCredits'[t] = rxCredits[t]
  BY <1>0, <1>1 DEF TypeOK
<1>5. TypeOK'
  <2>1. link' \in [Sides -> Seq(Flits)]
    BY <1>0, <1>1, <1>3 DEF TypeOK
  <2>2. rxCredits' \in [Sides -> 0 .. Credits]
    BY <1>0, <1>1, <1>2 DEF TypeOK
  <2> QED
    BY <1>0, <1>1, <2>1, <2>2 DEF TypeOK
<1>6. trouble' \in Troubles \cup {{}}
  BY <1>0, Typed
<1>7. \A t \in Sides : SameBeats(t)
  BY <1>2, <1>3, <1>4, SendingKeeps, LinkKeeps
<1>8. \A t \in Sides : Handshake(t)'
  BY <1>0, <1>7, OneSide, OtherSide, HandshakeKept
<1>9. \A t \in Sides : Arrived(t)' = Arrived(t) /\ Written(t)' = Written(t)
  BY <1>0, ArrivedKept, WrittenKept
<1>10. \A t \in Sides : Buffered(t)' /\ Framed(t)'
  BY <1>0, <1>9, OneSide, BufferedKept, FramedKept
<1>11. \A t \in Sides : Ordered(t)'
  <2>1. Ordered(s)'
    <3>1. PICK w \in Nat : Written(s) = InterfaceWords * w
      BY <1>0, SentBetween
    <3>2. Stream(link[s], Arrived(o), Written(s))
      BY OneSide DEF Ordered
    <3>3. Stream(Append(link[s], f), Arrived(o), Written(s))
      BY <1>2, <1>3, <3>1, <3>2, StreamMark
    <3> QED
      BY <1>1, <1>4, <1>9, <3>3 DEF Ordered
  <2>2. \A t \in Sides : t # s => Ordered(t)'
    BY <1>4, <1>9, OneSide, OtherSide, OrderedKept
  <2> QED
    BY <2>1, <2>2
<1>12. Balanced(s)'
  BY <1>0, <1>1, <1>4, OneSide, LinkKeepsCredits, BalancedKept
<1>13. Balanced(o)'
  <2>1. PICK c \in 0 .. Credits :
           /\ txCredits[o] + (accepted[o] - delivered[s]) + rxCredits[s] + c = Credits
           /\ Returning(o, c)
    BY <1>1, OneSide DEF Balanced
  <2> DEFINE x == txCredits[o]
             a == accepted[o]
             d == delivered[s]
             r == rxCredits[s]
  <2>2. /\ x \in Nat /\ a \in Nat /\ d \in Nat /\ r \in Nat /\ c \in Nat /\ Credits \in Nat
        /\ d <= a /\ x + (a - d) + r + c = Credits /\ 2 * r > Credits
        /\ c = 0 \/ 2 * c > Credits
        /\ r \in 0 .. Credits
    <3>1. 2 * rxCredits[s] > Credits
      BY <1>0, <1>2, MoreThanHalf
    <3>2. txCredits[o] \in Nat /\ accepted[o] \in Nat /\ delivered[s] \in Nat
      BY <1>1, <1>2, TypesOf
    <3>3. delivered[s] <= accepted[o]
      BY <1>1, Progress
    <3>4. c = 0 \/ 2 * c > Credits
      BY <2>1 DEF Returning
    <3> QED
      BY <1>2, <2>1, <3>1, <3>2, <3>3, <3>4
  <2>3. c = 0 /\ x + (a - d) + 0 + r = Credits
    <3> HIDE DEF x, a, d, r
    <3> QED
      BY <2>2
  <2>4. creditFIFO[o] = <<>> /\ CreditsIn(s) = {}
    BY <1>1, <1>2, <2>1, <2>2, <2>3 DEF Returning
  <2>5. CreditsIn(s)' = {Len(link[s]) + 1} /\ link'[s][Len(link[s]) + 1] = f
    <3>1. At(Append(link[s], f), "credit") = At(link[s], "credit") \cup {Len(link[s]) + 1}
      BY <1>2, <1>3, AtSent
    <3>2. Append(link[s], f)[Len(link[s]) + 1] = f
      BY <1>2, <1>3, AtSent
    <3> QED
      BY <1>4, <2>4, <3>1, <3>2 DEF CreditsIn
  <2>6. PICK b \in 0 .. Credits : b = rxCredits[s]
    BY <1>2
  <2>7. Returning(o, b)'
    <3>1. 2 * b > Credits
      BY <1>0, <1>2, <2>6, MoreThanHalf
    <3>2. creditFIFO'[o] = <<>>
      BY <1>0, <2>4
    <3>3. \E i \in CreditsIn(s)' : CreditsIn(s)' = {i} /\ link'[s][i].n = b
      BY <1>3, <2>5, <2>6
    <3> QED
      BY <1>1, <3>1, <3>2, <3>3 DEF Returning
  <2>8. txCredits'[o] + (accepted'[o] - delivered'[s]) + rxCredits'[s] + b = Credits
    BY <1>0, <1>4, <2>3, <2>6
  <2> QED
    BY <1>1, <2>7, <2>8 DEF Balanced
<1>14. \A t \in Sides : Balanced(t)' /\ Quiet(t)'
  BY <1>0, <1>12, <1>13, OneSide, OtherSide DEF Quiet
<1> QED
  BY <1>5, <1>6, <1>8, <1>10, <1>11, <1>14, BothSides

\* Credits arrive.
LEMMA RxCreditStep ==
    ASSUME FlowInv, NEW s \in Sides, RxCredit(s)
    PROVE  FlowInv'
<1> DEFINE o == Other(s)
           q == link[o]
<1>1. TypeOK /\ o \in Sides /\ o # s /\ Other(o) = s
  BY Typed, OtherSide
<1>2. /\ incoming(s) # <<>> /\ Head(incoming(s)).kind = "credit" /\ incoming(s) = q
      /\ link' = [link EXCEPT ![o] = Tail(@)]
      /\ creditFIFO' = IF handshakeRXDone[s]
                       THEN [creditFIFO EXCEPT ![s] = Append(@, Head(q).n)]
                       ELSE creditFIFO
      /\ UNCHANGED <<ccCycles, heartbeatTX, turn, skipped, heartbeatRX, heartbeatConsecutive,
                     heartbeatFirst, handshakeRXDone, handshakeTXDone, trouble, sendVars,
                     flitCountRX, infifo, outVars>>
  BY DEF RxCredit, RxIntake, beatVars, handshakeVars, incoming
<1> USE DEF sendVars, outVars
<1>3. handshakeRXDone[s]
  BY <1>2, ArrivesInTurn
<1>4. /\ q \in Seq(Flits) /\ q # <<>> /\ Head(q).kind = "credit" /\ Head(q) = q[1]
      /\ Head(q) \in Flits /\ Tail(q) \in Seq(Flits) /\ 1 \in CreditsIn(o)
      /\ Written(o) \in Nat /\ Arrived(s) \in Nat
  <2>1. q \in Seq(Flits) /\ q # <<>> /\ Head(q).kind = "credit"
    BY <1>1, <1>2, TypesOf
  <2>2. Head(q) = q[1] /\ Head(q) \in Flits /\ Tail(q) \in Seq(Flits) /\ 1 \in 1 .. Len(q)
    BY <2>1
  <2>3. Written(o) \in Nat /\ Arrived(s) \in Nat
    BY <1>1, Progress
  <2> QED
    BY <2>1, <2>2, <2>3 DEF CreditsIn, At
<1>5. PICK c \in 0 .. Credits :
         /\ txCredits[s] + (accepted[s] - delivered[o]) + rxCredits[o] + c = Credits
         /\ Returning(s, c)
  BY OneSide DEF Balanced
<1>6. 2 * c > Credits /\ creditFIFO[s] = <<>> /\ CreditsIn(o) = {1} /\ Head(q).n = c /\ c \in Nat
  BY <1>4, <1>5, FlowAssumption DEF Returning
<1>7. /\ link'[o] = Tail(q) /\ link'[s] = link[s]
      /\ creditFIFO'[s] = <<c>> /\ creditFIFO'[o] = creditFIFO[o]
  <2>1. creditFIFO \in [Sides -> Seq(Nat)] /\ link \in [Sides -> Seq(Flits)]
    BY <1>1 DEF TypeOK
  <2>2. Append(<<>>, c) = <<c>>
    OBVIOUS
  <2>3. link'[o] = Tail(q) /\ link'[s] = link[s]
    BY <1>1, <1>2, <2>1
  <2>4. creditFIFO' = [creditFIFO EXCEPT ![s] = <<c>>]
    BY <1>2, <1>3, <1>6, <2>2
  <2>5. creditFIFO'[s] = <<c>> /\ creditFIFO'[o] = creditFIFO[o]
    BY <1>1, <2>1, <2>4
  <2> QED
    BY <2>3, <2>5
<1>8. TypeOK'
  <2>1. link' \in [Sides -> Seq(Flits)]
    BY <1>1, <1>2, <1>4 DEF TypeOK
  <2>2. creditFIFO' \in [Sides -> Seq(Nat)]
    <3>1. creditFIFO \in [Sides -> Seq(Nat)] /\ <<c>> \in Seq(Nat) /\ Append(<<>>, c) = <<c>>
      BY <1>1, <1>6 DEF TypeOK
    <3> QED
      BY <1>2, <1>3, <1>6, <3>1
  <2> QED
    BY <1>1, <1>2, <2>1, <2>2 DEF TypeOK
<1>9. trouble' \in Troubles \cup {{}}
  BY <1>2, Typed
<1>10. \A t \in Sides : SameBeats(t)
  BY <1>1, <1>4, <1>7, ArrivingKeeps, LinkKeeps, OtherSide
<1>11. \A t \in Sides : Handshake(t)'
  BY <1>2, <1>10, OneSide, OtherSide, HandshakeKept
<1>12. \A t \in Sides : Arrived(t)' = Arrived(t) /\ Written(t)' = Written(t)
  BY <1>2, ArrivedKept, WrittenKept
<1>13. \A t \in Sides : Buffered(t)' /\ Framed(t)'
  BY <1>2, <1>12, OneSide, BufferedKept, FramedKept
<1>14. \A t \in Sides : Ordered(t)'
  <2>1. Ordered(o)'
    <3>1. Stream(q, Arrived(s), Written(o))
      BY <1>1, OneSide DEF Ordered
    <3>2. Stream(Tail(q), Arrived(s), Written(o))
      BY <1>4, <3>1, StreamTail
    <3> QED
      BY <1>1, <1>7, <1>12, <3>2 DEF Ordered
  <2>2. Ordered(s)'
    BY <1>1, <1>7, <1>12, OneSide, OrderedKept
  <2> QED
    BY <2>1, <2>2, OtherSide
<1>15. Balanced(o)'
  BY <1>1, <1>2, <1>7, OneSide, LinkKeepsCredits, BalancedKept
<1>16. Balanced(s)'
  <2>1. CreditsIn(o)' = {}
    <3>1. \A i \in At(Tail(q), "credit") : i + 1 \in At(q, "credit") /\ i \in Nat
      BY <1>4, AtArrived
    <3>2. \A i \in At(Tail(q), "credit") : i + 1 = 1 /\ i \in 1 .. Len(Tail(q))
      BY <1>6, <3>1 DEF CreditsIn, At
    <3>3. At(Tail(q), "credit") = {}
      BY <3>1, <3>2
    <3> QED
      BY <1>7, <3>3 DEF CreditsIn
  <2>2. Returning(s, c)'
    BY <1>6, <1>7, <2>1 DEF Returning
  <2>3. txCredits'[s] + (accepted'[s] - delivered'[o]) + rxCredits'[o] + c = Credits
    BY <1>2, <1>5
  <2> QED
    BY <2>2, <2>3 DEF Balanced
<1>17. \A t \in Sides : Balanced(t)' /\ Quiet(t)'
  BY <1>2, <1>15, <1>16, OneSide, OtherSide DEF Quiet
<1> QED
  BY <1>8, <1>9, <1>11, <1>13, <1>14, <1>17, BothSides

\* The next flit of a word arrives.
LEMMA RxDataStep ==
    ASSUME FlowInv, NEW s \in Sides, RxData(s)
    PROVE  FlowInv'
<1> DEFINE o == Other(s)
           q == link[o]
           n == Arrived(s)
<1>1. TypeOK /\ o \in Sides /\ o # s /\ Other(o) = s
  BY Typed, OtherSide
<1>2. /\ incoming(s) # <<>> /\ incoming(s) = q
      /\ flitCountRX[s] # 0 \/ Head(incoming(s)).kind = "data"
      /\ link' = [link EXCEPT ![o] = Tail(@)]
      /\ (flitCountRX[s] = 0 /\ ~handshakeRXDone[s]) \/
           /\ infifo' = [infifo EXCEPT ![s] = Append(@, Head(q))]
           /\ flitCountRX' = [flitCountRX EXCEPT ![s] = NextFlit(@)]
      /\ UNCHANGED <<ccCycles, heartbeatTX, turn, skipped, heartbeatRX, heartbeatConsecutive,
                     heartbeatFirst, handshakeRXDone, handshakeTXDone, trouble, sendVars,
                     creditFIFO, outVars>>
  BY DEF RxData, RxIntake, beatVars, handshakeVars, incoming
<1> USE DEF sendVars, outVars
<1>3. /\ Head(q).kind = "data" /\ handshakeRXDone[s] /\ Head(q) = Data(n)
      /\ infifo' = [infifo EXCEPT ![s] = Append(@, Data(n))]
      /\ flitCountRX' = [flitCountRX EXCEPT ![s] = NextFlit(@)]
  BY <1>2, ArrivesInTurn
<1>4. /\ q \in Seq(Flits) /\ q # <<>> /\ Tail(q) \in Seq(Flits)
      /\ Written(o) \in Nat /\ n \in Nat /\ InterfaceWords \in Nat \ {0}
      /\ infifo[s] \in Seq(Flits) /\ Len(infifo[s]) \in Nat
      /\ flitCountRX[s] \in 0 .. InterfaceWords - 1
      /\ demarshaller[s] \in Seq(Flits) /\ Len(demarshaller[s]) \in Nat
      /\ delivered[s] \in Nat /\ InterfaceWords * delivered[s] \in Nat
      /\ Data(n) \in Flits
  <2>1. q \in Seq(Flits) /\ q # <<>>
    BY <1>1, <1>2, TypesOf
  <2>2. Tail(q) \in Seq(Flits)
    BY <2>1
  <2>3. Written(o) \in Nat /\ n \in Nat
    BY <1>1, Progress
  <2>4. Data(n) \in Flits
    <3> HIDE DEF n
    <3> QED
      BY <2>3 DEF Data, Flits
  <2> QED
    BY <1>1, <2>1, <2>2, <2>3, <2>4, TypesOf, Times
<1>5. /\ link'[o] = Tail(q) /\ link'[s] = link[s]
      /\ infifo'[s] = Append(infifo[s], Data(n)) /\ infifo'[o] = infifo[o]
      /\ flitCountRX'[s] = NextFlit(flitCountRX[s]) /\ flitCountRX'[o] = flitCountRX[o]
  BY <1>1, <1>2, <1>3 DEF TypeOK
<1>6. NextFlit(flitCountRX[s]) \in 0 .. InterfaceWords - 1
  <2> DEFINE g == flitCountRX[s]
  <2>1. g \in 0 .. InterfaceWords - 1 /\ InterfaceWords \in Nat \ {0}
    BY <1>4
  <2> HIDE DEF g
  <2>2. NextFlit(g) \in 0 .. InterfaceWords - 1
    BY <2>1 DEF NextFlit
  <2> QED
    BY <2>2 DEF g
<1>7. TypeOK'
  <2>1. link' \in [Sides -> Seq(Flits)]
    BY <1>1, <1>2, <1>4 DEF TypeOK
  <2>2. infifo' \in [Sides -> Seq(Flits)]
    <3>1. Append(infifo[s], Data(n)) \in Seq(Flits)
      BY <1>4
    <3> QED
      BY <1>1, <1>3, <3>1 DEF TypeOK
  <2>3. flitCountRX' \in [Sides -> 0 .. InterfaceWords - 1]
    BY <1>1, <1>3, <1>6 DEF TypeOK
  <2> QED
    BY <1>1, <1>2, <2>1, <2>2, <2>3 DEF TypeOK
<1>8. trouble' \in Troubles \cup {{}}
  BY <1>2, Typed
<1>9. \A t \in Sides : SameBeats(t) /\ SameCredits(t)
  <2>1. SameBeats(o) /\ SameCredits(o)
    BY <1>1, <1>3, <1>4, <1>5, ArrivingKeeps, ArrivingKeepsCredits
  <2>2. SameBeats(s) /\ SameCredits(s)
    BY <1>5, LinkKeeps, LinkKeepsCredits
  <2> QED
    BY <2>1, <2>2, OtherSide
<1>10. \A t \in Sides : Handshake(t)'
  BY <1>2, <1>9, OneSide, OtherSide, HandshakeKept
<1>11. /\ Len(infifo'[s]) = Len(infifo[s]) + 1
       /\ infifo'[s][Len(infifo[s]) + 1] = Data(n)
       /\ \A i \in 1 .. Len(infifo[s]) : infifo'[s][i] = infifo[s][i]
  <2>1. \A m \in Seq(Flits) : \A f \in Flits :
           /\ Len(Append(m, f)) = Len(m) + 1 /\ Append(m, f)[Len(m) + 1] = f
           /\ \A i \in 1 .. Len(m) : Append(m, f)[i] = m[i]
    OBVIOUS
  <2> QED
    BY <1>4, <1>5, <2>1
<1>12. /\ Arrived(s)' = n + 1 /\ Arrived(o)' = Arrived(o)
       /\ n = InterfaceWords * delivered[s] + Len(demarshaller[s]) + Len(infifo[s])
  <2> DEFINE z == InterfaceWords * delivered[s]
             d == Len(demarshaller[s])
             m == Len(infifo[s])
  <2>1. n = z + d + m
    BY DEF Arrived
  <2>2. Arrived(s)' = z + d + (m + 1)
    BY <1>2, <1>11 DEF Arrived
  <2>3. z \in Nat /\ d \in Nat /\ m \in Nat
    BY <1>4
  <2>4. Arrived(o)' = Arrived(o)
    BY <1>1, <1>2, <1>5, ArrivedKept
  <2>5. z + d + (m + 1) = (z + d + m) + 1
    <3> HIDE DEF z, d, m
    <3> QED
      BY <2>3
  <2> QED
    BY <2>1, <2>2, <2>4, <2>5
<1>13. \A t \in Sides : Written(t)' = Written(t)
  BY <1>2, WrittenKept
<1>14. \A t \in Sides : Buffered(t)'
  <2>1. Buffered(o)'
    BY <1>1, <1>2, <1>5, OneSide, BufferedKept
  <2>2. Buffered(s)'
    <3> DEFINE z == InterfaceWords * delivered[s]
               d == Len(demarshaller[s])
               m == Len(infifo[s])
    <3>1. ASSUME NEW i \in 1 .. m + 1
          PROVE  infifo'[s][i] = Data(z + d + i - 1)
      <4>1. CASE i = m + 1
        <5>1. z + d + i - 1 = n
          <6>1. z + d + (m + 1) - 1 = z + d + m
            <7>1. z \in Nat /\ d \in Nat /\ m \in Nat
              BY <1>4
            <7> HIDE DEF z, d, m
            <7> QED
              BY <7>1
          <6> QED
            BY <1>12, <4>1, <6>1
        <5> QED
          BY <1>11, <4>1, <5>1
      <4>2. CASE i # m + 1
        <5>1. i \in 1 .. m
          <6>1. m \in Nat
            BY <1>4
          <6> HIDE DEF m
          <6> QED
            BY <4>2, <6>1
        <5>2. infifo[s][i] = Data(z + d + i - 1)
          BY <5>1, OneSide DEF Buffered
        <5> QED
          BY <1>11, <5>1, <5>2
      <4> QED
        BY <4>1, <4>2
    <3>2. delivered'[s] = delivered[s] /\ demarshaller'[s] = demarshaller[s]
      BY <1>2
    <3>3. \A i \in 1 .. Len(infifo'[s]) : infifo'[s][i] =
             Data(InterfaceWords * delivered'[s] + Len(demarshaller'[s]) + i - 1)
      BY <1>11, <3>1, <3>2
    <3>4. Buffered(s)
      BY OneSide
    <3> QED
      BY <3>2, <3>3, <3>4 DEF Buffered, Data
  <2> QED
    BY <2>1, <2>2, OtherSide
<1>15. \A t \in Sides : Framed(t)'
  <2>1. Framed(o)'
    BY <1>1, <1>2, <1>5, <1>12, OneSide, FramedKept
  <2>2. Framed(s)'
    <3>1. PICK w \in Nat : n = InterfaceWords * w + flitCountRX[s]
      BY OneSide DEF Framed
    <3>2. \E v \in Nat : n + 1 = InterfaceWords * v + NextFlit(flitCountRX[s])
      <4> DEFINE x == InterfaceWords * w
                 g == flitCountRX[s]
      <4>1. x \in Nat /\ InterfaceWords * (w + 1) = x + InterfaceWords /\ w + 1 \in Nat
        BY Times
      <4>2. g \in 0 .. InterfaceWords - 1 /\ InterfaceWords \in Nat \ {0}
        BY <1>4
      <4>3. CASE g + 1 = InterfaceWords
        <5>1. NextFlit(g) = 0
          BY <4>3 DEF NextFlit
        <5>2. (x + g) + 1 = (x + InterfaceWords) + 0
          <6> HIDE DEF x, g
          <6> QED
            BY <4>1, <4>2, <4>3
        <5> QED
          BY <3>1, <4>1, <5>1, <5>2
      <4>4. CASE g + 1 # InterfaceWords
        <5>1. NextFlit(g) = g + 1
          BY <4>4 DEF NextFlit
        <5>2. (x + g) + 1 = x + (g + 1)
          <6> HIDE DEF x, g
          <6> QED
            BY <4>1, <4>2
        <5> QED
          BY <3>1, <5>1, <5>2
      <4> QED
        BY <4>3, <4>4
    <3>3. \E v \in Nat : Arrived(s)' = InterfaceWords * v + flitCountRX'[s]
      BY <1>5, <1>12, <3>2
    <3> QED
      BY <1>2, <3>3, OneSide DEF Framed
  <2> QED
    BY <2>1, <2>2, OtherSide
<1>16. \A t \in Sides : Ordered(t)'
  <2>1. Ordered(o)'
    <3>1. Stream(q, n, Written(o))
      BY <1>1, OneSide DEF Ordered
    <3>2. Stream(Tail(q), n + 1, Written(o))
      <4>1. n + 1 \in Nat
        BY <1>4
      <4> HIDE DEF n, q
      <4> QED
        BY <1>3, <1>4, <3>1, <4>1, StreamTail
    <3> QED
      BY <1>1, <1>5, <1>12, <1>13, <3>2 DEF Ordered
  <2>2. Ordered(s)'
    BY <1>1, <1>5, <1>12, <1>13, OneSide, OrderedKept
  <2> QED
    BY <2>1, <2>2, OtherSide
<1>17. \A t \in Sides : Balanced(t)' /\ Quiet(t)'
  BY <1>2, <1>9, OneSide, OtherSide, BalancedKept DEF Quiet
<1> QED
  BY <1>7, <1>8, <1>10, <1>14, <1>15, <1>16, <1>17, BothSides

-----------------------------------------------------------------------------
(* The steps with a heartbeat *)

LEMMA Ranges ==
    ASSUME NEW s \in Sides, FlowInv, EarlyEnough
    PROVE  /\ ReadyRX \in Nat /\ ReadyTX \in Nat /\ ReadyRX + 1 + Delay <= ReadyTX
           /\ Delay \in {0, 1}
           /\ AtSea(s) \in {0, 1} /\ (AtSea(s) = 1 <=> BeatsIn(s) # {})
           /\ Since(s) = (IF turn = s THEN 2 ELSE 1) - AtSea(Other(s))
           /\ Since(s) \in {0, 1, 2}
           /\ Missed(s) \in {0, 1} /\ Missed(s) <= Delay
           /\ Ahead(s) = Since(s) + AtSea(s) + Missed(s)
           /\ heartbeatConsecutive[s] \in Nat
<1>1. ReadyRX \in Nat /\ ReadyTX \in Nat /\ Numbers \subseteq Nat
  BY FlowAssumption DEF Numbers
<1>2. Delay \in {0, 1}
  BY DEF Delay
<1>3. \A t \in Sides : AtSea(t) \in {0, 1} /\ (AtSea(t) = 1 <=> BeatsIn(t) # {})
  BY DEF AtSea
<1>4. Since(s) \in {0, 1, 2}
  BY <1>3, OtherSide DEF Since
<1>5. Missed(s) \in {0, 1} /\ Missed(s) <= Delay
  BY <1>2 DEF Missed
<1>6. heartbeatConsecutive[s] \in Nat
  BY <1>1, Typed, TypesOf
<1> QED
  BY <1>1, <1>2, <1>3, <1>4, <1>5, <1>6 DEF EarlyEnough, Since, Ahead

\* At most one thing goes wrong with heartbeats.
LEMMA OneTrouble ==
    ASSUME FlowInv, EarlyEnough
    PROVE  /\ trouble \in {{}, {"skip"}, {"lose"}}
           /\ Delay = 0 => trouble = {}
<1>1. trouble \in Troubles \cup {{}}
  BY Typed
<1>2. trouble \in {{}, {"skip"}, {"lose"}}
  BY <1>1 DEF EarlyEnough
<1>3. Delay = 0 => Troubles \subseteq {{}}
  BY DEF Delay
<1> QED
  BY <1>1, <1>2, <1>3

\* Steps that concern heartbeats alone.
LEMMA TrafficUnmoved ==
    ASSUME FlowInv, NEW s \in Sides, UNCHANGED <<sendVars, receiveVars, outVars>>,
           SameCredits(Other(s)),
           Stream(link'[s], Arrived(Other(s)), Written(s)),
           handshakeTXDone[s] => handshakeTXDone'[s]
    PROVE  Buffered(s)' /\ Framed(s)' /\ Ordered(s)' /\ Balanced(s)' /\ Quiet(s)'
<1> DEFINE o == Other(s)
<1>1. o \in Sides
  BY OtherSide
<1>2. /\ marshaller' = marshaller /\ flitCountTX' = flitCountTX /\ txCredits' = txCredits
      /\ accepted' = accepted /\ flitCountRX' = flitCountRX
      /\ creditFIFO' = creditFIFO /\ infifo' = infifo /\ demarshaller' = demarshaller
      /\ rxCredits' = rxCredits /\ delivered' = delivered
  BY DEF sendVars, receiveVars, outVars
<1>3. Arrived(s)' = Arrived(s) /\ Arrived(o)' = Arrived(o) /\ Written(s)' = Written(s)
  BY <1>1, <1>2, ArrivedKept, WrittenKept
<1>4. Buffered(s) /\ Framed(s) /\ Ordered(s) /\ Balanced(s) /\ Quiet(s)
  BY OneSide
<1>5. Buffered(s)' /\ Framed(s)'
  BY <1>2, <1>3, <1>4, BufferedKept, FramedKept
<1>6. Ordered(s)'
  BY <1>3 DEF Ordered
<1>7. Balanced(s)'
  BY <1>1, <1>2, <1>4, BalancedKept
<1>8. Quiet(s)'
  BY <1>2, <1>4 DEF Quiet
<1> QED
  BY <1>5, <1>6, <1>7, <1>8

LEMMA OneBeat ==
    ASSUME FlowInv, NEW s \in Sides, Beat(s)
    PROVE  turn = s /\ turn' = Other(s) /\ BeatsIn(s) = {}
<1>1. link[s] \in Seq(Flits)
  BY Typed, TypesOf
<1>2. DOMAIN link[s] = 1 .. Len(link[s])
  BY <1>1
<1> QED
  BY <1>2 DEF Beat, BeatsIn, At

LEMMA TxHeartbeatStep ==
    ASSUME FlowInv, EarlyEnough, NEW s \in Sides, TxHeartbeat(s)
    PROVE  FlowInv'
<1> DEFINE o == Other(s)
           f == Heartbeat(s)
           n == Len(link[s]) + 1
<1>1. TypeOK /\ o \in Sides /\ o # s /\ Other(o) = s
  BY Typed, OtherSide
<1>2. /\ turn = s /\ turn' = o /\ BeatsIn(s) = {} /\ ccCycles[s] = 0 /\ flitCountTX[s] = 0
      /\ link' = [link EXCEPT ![s] = Append(@, f)]
      /\ heartbeatTX' = [heartbeatTX EXCEPT ![s] = NextHeartbeat(@)]
      /\ skipped' = [skipped EXCEPT ![s] = FALSE]
      /\ UNCHANGED <<ccCycles, heartbeatRX, heartbeatConsecutive, heartbeatFirst,
                     handshakeRXDone, handshakeTXDone, trouble, sendVars, receiveVars, outVars>>
  BY OneBeat DEF TxHeartbeat, Send, handshakeVars
<1>3. f \in Flits /\ f.kind = "heartbeat" /\ f.consecutive = heartbeatConsecutive[s]
  BY <1>1 DEF Flits, Heartbeat, TypeOK, Numbers
<1>4. link[s] \in Seq(Flits) /\ Written(s) \in Nat /\ Arrived(o) \in Nat
  BY <1>1, TypesOf, Progress
<1> HIDE DEF f
<1>5. /\ link'[s] = Append(link[s], f) /\ link'[o] = link[o]
      /\ skipped'[s] = FALSE /\ skipped'[o] = skipped[o]
  BY <1>1, <1>2 DEF TypeOK
<1>6. TypeOK'
  <2>1. link' \in [Sides -> Seq(Flits)]
    BY <1>1, <1>2, <1>3 DEF TypeOK
  <2>2. NextHeartbeat(heartbeatTX[s]) \in Numbers
    <3>1. heartbeatTX[s] \in Nat /\ HeartbeatNumbers \in Nat \ {0}
      BY <1>1, FlowAssumption DEF TypeOK, Numbers
    <3> QED
      BY <3>1, Z3 DEF NextHeartbeat, Numbers
  <2>3. heartbeatTX' \in [Sides -> Numbers]
    BY <1>1, <1>2, <2>2 DEF TypeOK
  <2> QED
    BY <1>1, <1>2, <2>1, <2>3 DEF TypeOK, sendVars, receiveVars, outVars
<1>7. trouble' \in Troubles \cup {{}}
  BY <1>2, Typed
<1>8. /\ BeatsIn(s)' = {n} /\ link'[s][n] = f
      /\ BeatsIn(o)' = BeatsIn(o)
  <2>1. At(Append(link[s], f), "heartbeat") = At(link[s], "heartbeat") \cup {n}
    BY <1>3, <1>4, AtSent
  <2>2. Append(link[s], f)[n] = f
    BY <1>3, <1>4, AtSent
  <2> QED
    BY <1>2, <1>5, <2>1, <2>2 DEF BeatsIn
<1> HIDE DEF n
<1>9. \A t \in Sides : Buffered(t)' /\ Framed(t)' /\ Ordered(t)' /\ Balanced(t)' /\ Quiet(t)'
  <2>1. SameCredits(s) /\ SameCredits(o)
    BY <1>1, <1>3, <1>4, <1>5, SendingKeepsCredits, LinkKeepsCredits
  <2>2. Stream(link'[s], Arrived(o), Written(s))
    <3>1. PICK w \in Nat : Written(s) = InterfaceWords * w
      BY <1>2, SentBetween
    <3>2. Stream(link[s], Arrived(o), Written(s))
      BY OneSide DEF Ordered
    <3> QED
      BY <1>3, <1>4, <1>5, <3>1, <3>2, StreamMark
  <2>3. Stream(link'[o], Arrived(s), Written(o))
    BY <1>1, <1>5, OneSide DEF Ordered
  <2> QED
    BY <1>1, <1>2, <2>1, <2>2, <2>3, TrafficUnmoved, OtherSide
<1>10. /\ AtSea(s)' = 1 /\ AtSea(o)' = AtSea(o) /\ AtSea(s) = 0
       /\ Since(s)' = Since(s) - 1 /\ Since(o)' = Since(o)
       /\ Missed(s)' >= Missed(s) /\ Missed(o)' = Missed(o)
  <2>1. AtSea(s)' = 1 /\ AtSea(o)' = AtSea(o) /\ AtSea(s) = 0
    BY <1>2, <1>8 DEF AtSea
  <2>2. AtSea(o) \in {0, 1}
    BY DEF AtSea
  <2>3. Since(s)' = Since(s) - 1 /\ Since(o)' = Since(o)
    BY <1>1, <1>2, <2>1, <2>2 DEF Since
  <2>4. Missed(s)' >= Missed(s)
    BY <1>2, <1>8 DEF Missed, Delay
  <2>5. Missed(o)' = Missed(o)
    BY <1>2, <1>5, <1>8 DEF Missed, Delay
  <2> QED
    BY <2>1, <2>3, <2>4, <2>5
<1>11. Handshake(s)'
  <2>1. (\A i, j \in BeatsIn(s) : i = j)'
    BY <1>8
  <2>2. (\A i \in BeatsIn(s) : link[s][i].consecutive <= ReadyRX =>
                                 heartbeatConsecutive[s] <= ReadyRX + Since(s))'
    <3> SUFFICES heartbeatConsecutive[s] <= ReadyRX =>
                    heartbeatConsecutive[s] <= ReadyRX + Since(s)'
      BY <1>2, <1>3, <1>8
    <3>1. Since(s)' \in {0, 1, 2}
      BY <1>1, <1>2, <1>10, Ranges DEF Since
    <3> QED
      BY <3>1, Ranges
  <2>3. ~(turn = s)'
    BY <1>1, <1>2
  <2>4. Slow(s) => Slow(s)'
    BY <1>2, <1>5, <1>8 DEF Slow
  <2>5. heartbeatConsecutive[s] <= ReadyRX + Ahead(s) =>
           heartbeatConsecutive'[s] <= ReadyRX + Ahead(s)'
    <3>1. Ahead(s) = Since(s) + 0 + Missed(s) /\ Ahead(s)' = (Since(s) - 1) + 1 + Missed(s)'
      BY <1>10 DEF Ahead
    <3>2. Missed(s)' \in {0, 1}
      BY DEF Missed
    <3> QED
      BY <1>2, <1>10, <3>1, <3>2, Ranges
  <2>6. ~(~handshakeRXDone[o] /\ handshakeTXDone[s])
    BY <1>2, OneSide DEF Handshake, Heralded
  <2>7. /\ ~handshakeRXDone[o] /\ ~handshakeTXDone[s] =>
             heartbeatConsecutive[s] <= ReadyRX + Ahead(s) \/ Slow(s)
        /\ handshakeTXDone[s] => handshakeRXDone[s]
    BY OneSide DEF Handshake
  <2>8. ~(ccCycles[s] > 0)'
    BY <1>2
  <2> QED
    BY <1>2, <2>1, <2>2, <2>3, <2>4, <2>5, <2>6, <2>7, <2>8 DEF Handshake
<1>12. Handshake(o)'
  <2>1. Handshake(o)
    BY <1>1, OneSide
  <2>2. (\A i, j \in BeatsIn(o) : i = j)'
    BY <1>8, <2>1 DEF Handshake
  <2>3. (\A i \in BeatsIn(o) : link[o][i].consecutive <= ReadyRX =>
                                 heartbeatConsecutive[o] <= ReadyRX + Since(o))'
    BY <1>2, <1>5, <1>8, <1>10, <2>1 DEF Handshake
  <2>4. (\A i \in BeatsIn(s) : link[s][i].consecutive = heartbeatConsecutive[s])'
    BY <1>2, <1>3, <1>8
  <2>5. Slow(o) => Slow(o)'
    <3> SUFFICES ASSUME Slow(o) PROVE Slow(o)'
      OBVIOUS
    <3>1. heartbeatConsecutive[s] <= ReadyRX + 1
      BY <1>1 DEF Slow
    <3>2. heartbeatConsecutive[s] <= ReadyTX
      BY <3>1, Ranges
    <3> QED
      BY <1>1, <1>2, <1>3, <1>8, <3>1, <3>2 DEF Slow
  <2>6. Ahead(o)' = Ahead(o)
    BY <1>10 DEF Ahead
  <2>7. Heralded(o) => Heralded(o)'
    BY <1>2, <1>5, <1>8 DEF Heralded
  <2>8. (ccCycles[o] > 0 => /\ BeatsIn(o) = {} /\ heartbeatConsecutive[s] = 0
                            /\ \A i \in BeatsIn(s) : link[s][i].consecutive = 0)'
    BY <1>1, <1>2, <1>3, <1>8, <2>1 DEF Handshake
  <2> QED
    BY <1>1, <1>2, <2>1, <2>2, <2>3, <2>4, <2>5, <2>6, <2>7, <2>8 DEF Handshake
<1> QED
  BY <1>6, <1>7, <1>9, <1>11, <1>12, BothSides, OtherSide

\* A heartbeat that is not sent leaves the other side waiting, which matters only
\* where one may be skipped: before that nothing has been counted yet, and after it
\* the link has carried words or credits.
LEMMA SkipHeartbeatStep ==
    ASSUME FlowInv, EarlyEnough, NEW s \in Sides, SkipHeartbeat(s)
    PROVE  FlowInv'
<1> DEFINE o == Other(s)
<1>1. TypeOK /\ o \in Sides /\ o # s /\ Other(o) = s
  BY Typed, OtherSide
<1>2. /\ turn = s /\ turn' = o /\ BeatsIn(s) = {}
      /\ \/ ccCycles[s] > 0 \/ flitCountTX[s] # 0 \/ Len(link[s]) = LinkBound
         \/ "skip" \in trouble /\ ~skipped[s]
      /\ skipped' = [skipped EXCEPT ![s] = TRUE]
      /\ UNCHANGED <<ccCycles, heartbeatTX, heartbeatRX, heartbeatConsecutive, heartbeatFirst,
                     handshakeRXDone, handshakeTXDone, trouble, sendVars, link, receiveVars,
                     outVars>>
  BY OneBeat DEF SkipHeartbeat, handshakeVars
<1>3. skipped'[s] = TRUE /\ skipped'[o] = skipped[o]
  BY <1>1, <1>2 DEF TypeOK
<1>4. TypeOK'
  BY <1>1, <1>2 DEF TypeOK, sendVars, receiveVars, outVars
<1>5. trouble' \in Troubles \cup {{}}
  BY <1>2, Typed
<1>6. \A t \in Sides : Buffered(t)' /\ Framed(t)' /\ Ordered(t)' /\ Balanced(t)' /\ Quiet(t)'
  BY <1>2, TrafficIdle
<1>7. BeatsIn(s)' = {} /\ BeatsIn(o)' = BeatsIn(o)
  BY <1>2 DEF BeatsIn
<1>8. /\ AtSea(s)' = 0 /\ AtSea(o)' = AtSea(o) /\ AtSea(s) = 0
      /\ Since(s)' = Since(s) - 1 /\ Since(o)' = Since(o) + 1
      /\ Missed(s)' \in {0, 1} /\ Missed(o)' = Missed(o)
  <2>1. AtSea(s)' = 0 /\ AtSea(o)' = AtSea(o) /\ AtSea(s) = 0
    BY <1>2, <1>7 DEF AtSea
  <2>2. AtSea(o) \in {0, 1}
    BY DEF AtSea
  <2>3. Since(s)' = Since(s) - 1 /\ Since(o)' = Since(o) + 1
    BY <1>1, <1>2, <2>1, <2>2 DEF Since
  <2>4. Missed(s)' \in {0, 1}
    BY DEF Missed
  <2>5. Missed(o)' = Missed(o)
    BY <1>2, <1>3, <1>7 DEF Missed, Delay
  <2> QED
    BY <2>1, <2>3, <2>4, <2>5
<1>9. Slow(s)' <=> Slow(s)
  BY <1>2, <1>7 DEF Slow
<1>10. ASSUME ~handshakeRXDone[o], ~handshakeTXDone[s]
       PROVE  heartbeatConsecutive[s] <= ReadyRX + Ahead(s)' \/ Slow(s)
  <2>1. CASE ccCycles[s] > 0
    <3>1. /\ heartbeatConsecutive[o] = 0
          /\ \A i \in BeatsIn(o) : link[o][i].consecutive = 0
      BY <2>1, OneSide DEF Handshake
    <3> QED
      BY <3>1, Ranges DEF Slow
  <2>2. flitCountTX[s] = 0
    BY <1>10, SenderMaySend
  <2>3. CASE Len(link[s]) = LinkBound
    <3>1. link[s] \in Seq(Flits) /\ Len(link[s]) > 0
      BY <1>1, <2>3, TypesOf, FlowAssumption
    <3>2. 1 \in 1 .. Len(link[s]) /\ link[s][1] \in Flits
      BY <3>1
    <3>3. link[s][1].kind \in {"data", "credit", "heartbeat"}
      BY <3>2 DEF Flits
    <3>4. link[s][1].kind # "heartbeat"
      BY <1>2, <3>2 DEF BeatsIn, At
    <3>5. link[s][1].kind # "data"
      <4>1. At(link[s], "data") = {}
        BY <1>10, SenderMaySend
      <4> QED
        BY <3>2, <4>1 DEF At
    <3>6. link[s][1].kind # "credit"
      <4>1. CreditsIn(s) = {}
        BY <1>1, <1>10, CreditsNeedSender, SenderReceives
      <4> QED
        BY <3>2, <4>1 DEF CreditsIn, At
    <3> QED
      BY <3>3, <3>4, <3>5, <3>6
  <2>4. CASE "skip" \in trouble /\ ~skipped[s]
    <3>1. trouble = {"skip"} /\ Delay # 0
      BY <2>4, OneTrouble
    <3>2. Missed(s) = 0
      BY <1>2, <2>4 DEF Missed
    <3>3. Missed(s)' = 1
      BY <1>2, <1>3, <3>1 DEF Missed, Delay
    <3>4. Ahead(s) = Since(s) + 0 + 0 /\ Ahead(s)' = (Since(s) - 1) + 0 + 1
      BY <1>8, <3>2, <3>3 DEF Ahead
    <3>5. Ahead(s)' = Ahead(s)
      BY <3>4, Ranges
    <3> QED
      BY <1>10, <3>5, OneSide DEF Handshake
  <2> QED
    BY <1>2, <2>1, <2>2, <2>3, <2>4
<1>11. Handshake(s)'
  <2>1. ~(~handshakeRXDone[o] /\ handshakeTXDone[s])
    BY <1>2, OneSide DEF Handshake, Heralded
  <2>2. ~(turn = s)'
    BY <1>1, <1>2
  <2>3. /\ handshakeTXDone[s] => handshakeRXDone[s]
        /\ ccCycles[s] > 0 => /\ heartbeatConsecutive[o] = 0
                              /\ \A i \in BeatsIn(o) : link[o][i].consecutive = 0
    BY OneSide DEF Handshake
  <2> QED
    BY <1>2, <1>7, <1>9, <1>10, <2>1, <2>2, <2>3 DEF Handshake
<1>12. Handshake(o)'
  <2>1. Handshake(o)
    BY <1>1, OneSide
  <2>2. (\A i \in BeatsIn(o) : link[o][i].consecutive <= ReadyRX =>
                                 heartbeatConsecutive[o] <= ReadyRX + Since(o))'
    <3> SUFFICES ASSUME heartbeatConsecutive[o] <= ReadyRX + Since(o)
                 PROVE  heartbeatConsecutive[o] <= ReadyRX + Since(o)'
      BY <1>2, <1>7, <2>1 DEF Handshake
    <3> QED
      BY <1>1, <1>8, Ranges
  <2>3. heartbeatConsecutive[o] <= ReadyRX + Ahead(o) =>
           heartbeatConsecutive[o] <= ReadyRX + Ahead(o)'
    <3>1. Ahead(o)' = (Since(o) + 1) + AtSea(o) + Missed(o)
      BY <1>8 DEF Ahead
    <3> QED
      BY <1>1, <3>1, Ranges
  <2>4. Slow(o) => Slow(o)'
    BY <1>1, <1>2, <1>7 DEF Slow
  <2>5. Heralded(o) => Heralded(o)'
    BY <1>2, <1>7 DEF Heralded
  <2>6. (ccCycles[o] > 0 => /\ BeatsIn(o) = {} /\ heartbeatConsecutive[s] = 0
                            /\ \A i \in BeatsIn(s) : link[s][i].consecutive = 0)'
    BY <1>1, <1>2, <1>7, <2>1 DEF Handshake
  <2>7. /\ (\A i, j \in BeatsIn(o) : i = j)'
        /\ (\A i \in BeatsIn(s) : link[s][i].consecutive = heartbeatConsecutive[s])'
    BY <1>7, <2>1 DEF Handshake
  <2> QED
    BY <1>1, <1>2, <2>1, <2>2, <2>3, <2>4, <2>5, <2>6, <2>7 DEF Handshake
<1> QED
  BY <1>4, <1>5, <1>6, <1>11, <1>12, BothSides, OtherSide

\* The heartbeat at the head of a link is the only one on it.
LEMMA LastBeat ==
    ASSUME FlowInv, NEW s \in Sides, link[s] # <<>>, Head(link[s]).kind = "heartbeat",
           link'[s] = Tail(link[s])
    PROVE  BeatsIn(s) = {1} /\ link[s][1] = Head(link[s]) /\ BeatsIn(s)' = {}
<1> DEFINE q == link[s]
<1>1. q \in Seq(Flits) /\ q # <<>> /\ Head(q).kind = "heartbeat"
  BY Typed, TypesOf
<1>2. BeatsIn(s) = At(q, "heartbeat") /\ BeatsIn(s)' = At(Tail(q), "heartbeat")
  BY DEF BeatsIn
<1>3. \A i, j \in At(q, "heartbeat") : i = j
  BY <1>2, OneSide DEF Handshake
<1> HIDE DEF q
<1>4. /\ 1 \in At(q, "heartbeat") /\ q[1] = Head(q)
      /\ \A i \in At(Tail(q), "heartbeat") : i + 1 \in At(q, "heartbeat") /\ i \in Nat
  BY <1>1, AtArrived
<1>5. At(q, "heartbeat") = {1}
  BY <1>3, <1>4
<1>6. \A i \in At(Tail(q), "heartbeat") : i + 1 = 1 /\ i \in 1 .. Len(Tail(q))
  BY <1>4, <1>5 DEF At
<1>7. At(Tail(q), "heartbeat") = {}
  BY <1>4, <1>6
<1> QED
  BY <1>2, <1>4, <1>5, <1>7 DEF q

\* The traffic after a heartbeat has been taken from the link from o to s.
LEMMA TrafficAfterBeat ==
    ASSUME FlowInv, NEW o \in Sides, link[o] # <<>>, Head(link[o]).kind = "heartbeat",
           link'[o] = Tail(link[o]), link'[Other(o)] = link[Other(o)],
           UNCHANGED <<sendVars, receiveVars, outVars>>,
           \A t \in Sides : handshakeTXDone[t] => handshakeTXDone'[t]
    PROVE  \A t \in Sides : Buffered(t)' /\ Framed(t)' /\ Ordered(t)' /\ Balanced(t)' /\ Quiet(t)'
<1> DEFINE s == Other(o)
           q == link[o]
<1>1. TypeOK /\ s \in Sides /\ Other(s) = o
  BY Typed, OtherSide
<1>2. q \in Seq(Flits) /\ Written(o) \in Nat /\ Arrived(s) \in Nat
  BY <1>1, TypesOf, Progress
<1>3. SameCredits(o) /\ SameCredits(s)
  BY <1>1, <1>2, ArrivingKeepsCredits, LinkKeepsCredits
<1>4. Stream(link'[o], Arrived(s), Written(o))
  <2>1. Stream(q, Arrived(s), Written(o))
    BY OneSide DEF Ordered
  <2>2. Stream(Tail(q), Arrived(s), Written(o))
    BY <1>2, <2>1, StreamTail
  <2> QED
    BY <2>2
<1>5. Stream(link'[s], Arrived(o), Written(s))
  BY <1>1, OneSide DEF Ordered
<1> QED
  BY <1>1, <1>3, <1>4, <1>5, TrafficUnmoved, OtherSide

LEMMA LoseHeartbeatStep ==
    ASSUME FlowInv, EarlyEnough, NEW s \in Sides, LoseHeartbeat(s)
    PROVE  FlowInv'
<1> DEFINE o == Other(s)
<1>1. TypeOK /\ o \in Sides /\ o # s /\ Other(o) = s
  BY Typed, OtherSide
<1>2. /\ "lose" \in trouble /\ trouble' = trouble \ {"lose"}
      /\ link[o] # <<>> /\ Head(link[o]).kind = "heartbeat"
      /\ link' = [link EXCEPT ![o] = Tail(@)]
      /\ UNCHANGED <<ccCycles, heartbeatTX, turn, skipped, heartbeatRX, heartbeatConsecutive,
                     heartbeatFirst, handshakeRXDone, handshakeTXDone, sendVars, receiveVars,
                     outVars>>
  BY DEF LoseHeartbeat, incoming, beatVars, handshakeVars
<1>3. trouble = {"lose"} /\ trouble' = {} /\ Delay # 0
  BY <1>2, OneTrouble
<1>4. link'[o] = Tail(link[o]) /\ link'[s] = link[s]
  BY <1>1, <1>2 DEF TypeOK
<1>5. TypeOK'
  <2>1. Tail(link[o]) \in Seq(Flits)
    <3>1. link[o] \in Seq(Flits) /\ link[o] # <<>>
      BY <1>1, <1>2, TypesOf
    <3> QED
      BY <3>1
  <2>2. link' \in [Sides -> Seq(Flits)]
    BY <1>1, <1>2, <2>1 DEF TypeOK
  <2> QED
    BY <1>1, <1>2, <1>3, <2>2 DEF TypeOK, sendVars, receiveVars, outVars
<1>6. \A t \in Sides : Buffered(t)' /\ Framed(t)' /\ Ordered(t)' /\ Balanced(t)' /\ Quiet(t)'
  BY <1>1, <1>2, <1>4, TrafficAfterBeat
<1>7. BeatsIn(o) # {} /\ BeatsIn(o)' = {} /\ BeatsIn(s)' = BeatsIn(s)
  <2>1. BeatsIn(o) = {1} /\ BeatsIn(o)' = {}
    BY <1>1, <1>2, <1>4, LastBeat
  <2> QED
    BY <1>4, <2>1 DEF BeatsIn
<1>8. /\ AtSea(s)' = AtSea(s) /\ AtSea(o)' = 0 /\ AtSea(o) = 1
      /\ Since(s)' = Since(s) + 1 /\ Since(o)' = Since(o)
      /\ \A t \in Sides : Missed(t) = 0 /\ Missed(t)' = 1
  <2>1. AtSea(s)' = AtSea(s) /\ AtSea(o)' = 0 /\ AtSea(o) = 1
    BY <1>7 DEF AtSea
  <2>2. AtSea(s) \in {0, 1}
    BY DEF AtSea
  <2>3. Since(s)' = Since(s) + 1 /\ Since(o)' = Since(o)
    BY <1>1, <1>2, <2>1, <2>2 DEF Since
  <2>4. \A t \in Sides : Missed(t) = 0 /\ Missed(t)' = 1
    BY <1>2, <1>3 DEF Missed, Delay
  <2> QED
    BY <2>1, <2>3, <2>4
<1>9. ~Heralded(s) /\ ~Heralded(o)
  BY <1>2 DEF Heralded
<1>10. Handshake(s)'
  <2>1. Handshake(s)
    BY OneSide
  <2>2. (\A i \in BeatsIn(s) : link[s][i].consecutive <= ReadyRX =>
                                 heartbeatConsecutive[s] <= ReadyRX + Since(s))'
    <3> SUFFICES ASSUME heartbeatConsecutive[s] <= ReadyRX + Since(s)
                 PROVE  heartbeatConsecutive[s] <= ReadyRX + Since(s)'
      BY <1>2, <1>4, <1>7, <2>1 DEF Handshake
    <3> QED
      BY <1>8, Ranges
  <2>3. heartbeatConsecutive[s] <= ReadyRX + Ahead(s) =>
           heartbeatConsecutive[s] <= ReadyRX + Ahead(s)'
    <3>1. Ahead(s)' = (Since(s) + 1) + AtSea(s) + 1 /\ Ahead(s) = Since(s) + AtSea(s) + 0
      BY <1>8 DEF Ahead
    <3> QED
      BY <3>1, Ranges
  <2>4. Slow(s) => Slow(s)'
    BY <1>2, <1>7 DEF Slow
  <2>5. (ccCycles[s] > 0 => /\ BeatsIn(s) = {} /\ heartbeatConsecutive[o] = 0
                            /\ \A i \in BeatsIn(o) : link[o][i].consecutive = 0)'
    BY <1>2, <1>7, <2>1 DEF Handshake
  <2>6. /\ (\A i, j \in BeatsIn(s) : i = j)'
        /\ (\A i \in BeatsIn(o) : link[o][i].consecutive = heartbeatConsecutive[o])'
    BY <1>7, <2>1 DEF Handshake
  <2> QED
    BY <1>2, <1>9, <2>1, <2>2, <2>3, <2>4, <2>5, <2>6 DEF Handshake
<1>11. Handshake(o)'
  <2>1. Handshake(o)
    BY <1>1, OneSide
  <2>2. Ahead(o)' = Ahead(o)
    <3>1. Ahead(o)' = Since(o) + 0 + 1 /\ Ahead(o) = Since(o) + 1 + 0
      BY <1>1, <1>8 DEF Ahead
    <3> QED
      BY <1>1, <3>1, Ranges
  <2>3. Slow(o) => Slow(o)'
    BY <1>1, <1>2, <1>4, <1>7 DEF Slow
  <2>4. (ccCycles[o] > 0 => /\ BeatsIn(o) = {} /\ heartbeatConsecutive[s] = 0
                            /\ \A i \in BeatsIn(s) : link[s][i].consecutive = 0)'
    BY <1>1, <1>2, <1>4, <1>7, <2>1 DEF Handshake
  <2> QED
    BY <1>1, <1>2, <1>7, <1>9, <2>1, <2>2, <2>3, <2>4 DEF Handshake
<1> QED
  BY <1>3, <1>5, <1>6, <1>10, <1>11, BothSides, OtherSide

\* A heartbeat arrives.  A side that it lets send knows that the other one has a
\* heartbeat on its way that lets it receive, or may receive already.
LEMMA RxHeartbeatStep ==
    ASSUME FlowInv, EarlyEnough, NEW s \in Sides, RxHeartbeat(s)
    PROVE  FlowInv'
<1> DEFINE o == Other(s)
           q == link[o]
           h == heartbeatConsecutive[s]
           k == heartbeatConsecutive[o]
           x == Head(link[o]).consecutive
           new == heartbeatConsecutive'[s]
<1>1. TypeOK /\ o \in Sides /\ o # s /\ Other(o) = s
  BY Typed, OtherSide
<1>2. /\ q # <<>> /\ Head(q).kind = "heartbeat"
      /\ link' = [link EXCEPT ![o] = Tail(@)]
      /\ heartbeatRX' = [heartbeatRX EXCEPT ![s] = Head(q).n]
      /\ \/ /\ heartbeatFirst' = [heartbeatFirst EXCEPT ![s] = FALSE]
            /\ heartbeatConsecutive' = [heartbeatConsecutive EXCEPT ![s] = NextHeartbeat(@)]
         \/ heartbeatFirst' = heartbeatFirst /\ heartbeatConsecutive' = heartbeatConsecutive
      /\ handshakeRXDone' =
            [handshakeRXDone EXCEPT ![s] = @ \/ (h > ReadyRX /\ x > ReadyRX)]
      /\ handshakeTXDone' =
            [handshakeTXDone EXCEPT ![s] = @ \/ (h > ReadyTX /\ x > ReadyTX)]
      /\ UNCHANGED <<ccCycles, heartbeatTX, turn, skipped, trouble, sendVars, receiveVars,
                     outVars>>
  BY DEF RxHeartbeat, RxIntake, incoming, beatVars
<1>3. /\ q \in Seq(Flits) /\ Tail(q) \in Seq(Flits) /\ Head(q) \in Flits
      /\ x \in Numbers /\ Head(q).n \in Numbers /\ h \in Numbers /\ k \in Numbers
      /\ Numbers \subseteq Nat
  <2>1. q \in Seq(Flits) /\ q # <<>>
    BY <1>1, <1>2, TypesOf
  <2>2. Tail(q) \in Seq(Flits) /\ Head(q) \in Flits
    BY <2>1
  <2>3. x \in Numbers /\ Head(q).n \in Numbers
    BY <1>2, <2>2 DEF Flits, Numbers
  <2>4. Numbers \subseteq Nat
    BY FlowAssumption DEF Numbers
  <2> QED
    BY <1>1, <2>1, <2>2, <2>3, <2>4, TypesOf
<1>4. NextHeartbeat(h) \in Numbers /\ NextHeartbeat(h) <= h + 1
  <2>1. h \in 0 .. HeartbeatNumbers - 1 /\ HeartbeatNumbers \in Nat \ {0}
    BY <1>3, FlowAssumption DEF Numbers
  <2> HIDE DEF h
  <2> QED
    BY <2>1, Z3 DEF NextHeartbeat, Numbers
<1>5. /\ link'[o] = Tail(q) /\ link'[s] = link[s]
      /\ new \in {h, NextHeartbeat(h)} /\ heartbeatConsecutive'[o] = k
      /\ handshakeRXDone'[s] = (handshakeRXDone[s] \/ (h > ReadyRX /\ x > ReadyRX))
      /\ handshakeTXDone'[s] = (handshakeTXDone[s] \/ (h > ReadyTX /\ x > ReadyTX))
      /\ handshakeRXDone'[o] = handshakeRXDone[o] /\ handshakeTXDone'[o] = handshakeTXDone[o]
  <2>1. link'[o] = Tail(q) /\ link'[s] = link[s]
    BY <1>1, <1>2 DEF TypeOK
  <2>2. new \in {h, NextHeartbeat(h)} /\ heartbeatConsecutive'[o] = k
    BY <1>1, <1>2 DEF TypeOK
  <2>3. /\ handshakeRXDone'[s] = (handshakeRXDone[s] \/ (h > ReadyRX /\ x > ReadyRX))
        /\ handshakeRXDone'[o] = handshakeRXDone[o]
    <3>1. handshakeRXDone \in [Sides -> BOOLEAN]
      BY <1>1 DEF TypeOK
    <3> HIDE DEF h, x
    <3> QED
      BY <1>1, <1>2, <3>1
  <2>4. /\ handshakeTXDone'[s] = (handshakeTXDone[s] \/ (h > ReadyTX /\ x > ReadyTX))
        /\ handshakeTXDone'[o] = handshakeTXDone[o]
    <3>1. handshakeTXDone \in [Sides -> BOOLEAN]
      BY <1>1 DEF TypeOK
    <3> HIDE DEF h, x
    <3> QED
      BY <1>1, <1>2, <3>1
  <2> QED
    BY <2>1, <2>2, <2>3, <2>4
<1>6. TypeOK'
  <2>1. link' \in [Sides -> Seq(Flits)]
    BY <1>1, <1>2, <1>3 DEF TypeOK
  <2>2. /\ heartbeatRX' \in [Sides -> Numbers] /\ heartbeatFirst' \in [Sides -> BOOLEAN]
        /\ heartbeatConsecutive' \in [Sides -> Numbers]
    <3>1. /\ heartbeatRX \in [Sides -> Numbers] /\ heartbeatFirst \in [Sides -> BOOLEAN]
          /\ heartbeatConsecutive \in [Sides -> Numbers]
      BY <1>1 DEF TypeOK
    <3> QED
      BY <1>2, <1>3, <1>4, <3>1
  <2>3. /\ handshakeRXDone' \in [Sides -> BOOLEAN] /\ handshakeTXDone' \in [Sides -> BOOLEAN]
    <3>1. handshakeRXDone \in [Sides -> BOOLEAN] /\ handshakeTXDone \in [Sides -> BOOLEAN]
      BY <1>1 DEF TypeOK
    <3> HIDE DEF h, x
    <3> QED
      BY <1>2, <3>1
  <2> QED
    BY <1>1, <1>2, <2>1, <2>2, <2>3 DEF TypeOK, sendVars, receiveVars, outVars
<1>7. trouble' \in Troubles \cup {{}}
  BY <1>2, Typed
<1>8. \A t \in Sides : Buffered(t)' /\ Framed(t)' /\ Ordered(t)' /\ Balanced(t)' /\ Quiet(t)'
  <2>1. \A t \in Sides : handshakeTXDone[t] => handshakeTXDone'[t]
    BY <1>5, OtherSide
  <2> QED
    BY <1>1, <1>2, <1>5, <2>1, TrafficAfterBeat
<1>9. BeatsIn(o) = {1} /\ link[o][1] = Head(q) /\ BeatsIn(o)' = {} /\ BeatsIn(s)' = BeatsIn(s)
  <2>1. BeatsIn(o) = {1} /\ link[o][1] = Head(q) /\ BeatsIn(o)' = {}
    BY <1>1, <1>2, <1>5, LastBeat
  <2> QED
    BY <1>5, <2>1 DEF BeatsIn
<1>10. /\ AtSea(s)' = AtSea(s) /\ AtSea(o)' = 0 /\ AtSea(o) = 1
       /\ Since(s)' = Since(s) + 1 /\ Since(o)' = Since(o)
       /\ Missed(s)' = Missed(s) /\ Missed(o)' \in {0, 1}
  <2>1. AtSea(s)' = AtSea(s) /\ AtSea(o)' = 0 /\ AtSea(o) = 1
    BY <1>9 DEF AtSea
  <2>2. AtSea(s) \in {0, 1}
    BY DEF AtSea
  <2>3. Since(s)' = Since(s) + 1 /\ Since(o)' = Since(o)
    BY <1>1, <1>2, <2>1, <2>2 DEF Since
  <2>4. Missed(s)' = Missed(s) /\ Missed(o)' \in {0, 1}
    BY <1>2, <1>9 DEF Missed, Delay
  <2> QED
    BY <2>1, <2>3, <2>4
<1>11. Handshake(s) /\ Handshake(o)
  BY <1>1, OneSide
<1>12. h \in Nat /\ k \in Nat /\ x \in Nat /\ new \in Nat /\ new <= h + 1
  <2>1. /\ h \in Nat /\ k \in Nat /\ x \in Nat /\ NextHeartbeat(h) \in Nat
        /\ NextHeartbeat(h) <= h + 1 /\ new \in {h, NextHeartbeat(h)}
    BY <1>3, <1>4, <1>5
  <2> HIDE DEF h, k, x, new
  <2> QED
    BY <2>1
<1> HIDE DEF h, k, x, new
<1>13. Handshake(s)'
  <2>1. (\A i \in BeatsIn(s) : link[s][i].consecutive <= ReadyRX =>
                                 heartbeatConsecutive[s] <= ReadyRX + Since(s))'
    <3> SUFFICES ASSUME h <= ReadyRX + Since(s) PROVE new <= ReadyRX + Since(s)'
      BY <1>5, <1>9, <1>11 DEF Handshake, h, new
    <3> QED
      BY <1>10, <1>12, Ranges
  <2>2. h <= ReadyRX + Ahead(s) => new <= ReadyRX + Ahead(s)'
    <3>1. /\ Ahead(s)' = (Since(s) + 1) + AtSea(s) + Missed(s)
          /\ Ahead(s) = Since(s) + AtSea(s) + Missed(s)
      BY <1>10 DEF Ahead
    <3> QED
      BY <1>12, <3>1, Ranges
  <2>3. Slow(s) => Slow(s)'
    BY <1>5, <1>9 DEF Slow, k
  <2>4. Heralded(s) => Heralded(s)'
    BY <1>2, <1>5, <1>9 DEF Heralded, k
  <2>5. ASSUME ~handshakeRXDone[o], ~handshakeTXDone[s], h > ReadyTX, x > ReadyTX
        PROVE  Heralded(s)'
    <3>1. ~Slow(s)
      BY <1>9, <1>12, <2>5, Ranges DEF Slow, h, x
    <3>2. h <= ReadyRX + Ahead(s)
      BY <1>11, <2>5, <3>1 DEF Handshake, h
    <3>3. /\ turn = s /\ AtSea(s) = 1 /\ Missed(s) = Delay /\ Since(s) = 1
      <4>1. Since(s) = (IF turn = s THEN 2 ELSE 1) - 1
        BY <1>10 DEF Since
      <4>2. Since(s) \in {0, 1} /\ (Since(s) = 1 => turn = s)
        BY <4>1
      <4> QED
        BY <1>12, <2>5, <3>2, <4>2, Ranges
    <3>4. BeatsIn(s) # {}
      BY <3>3 DEF AtSea
    <3>5. "lose" \notin trouble
      <4>1. CASE Delay = 0
        BY <4>1, OneTrouble
      <4>2. CASE Delay # 0
        <5>1. Missed(s) = 1
          BY <3>3, <4>2, Ranges
        <5> QED
          BY <5>1 DEF Missed
      <4> QED
        BY <4>1, <4>2
    <3>6. \A i \in BeatsIn(s) : link[s][i].consecutive > ReadyRX
      <4> SUFFICES ASSUME NEW i \in BeatsIn(s) PROVE link[s][i].consecutive > ReadyRX
        OBVIOUS
      <4>1. link[s][i].consecutive \in Nat
        <5>1. i \in 1 .. Len(link[s]) /\ link[s][i].kind = "heartbeat"
          BY DEF BeatsIn, At
        <5>2. link[s][i] \in Flits
          BY <1>1, <5>1, TypesOf
        <5> QED
          BY <1>3, <5>1, <5>2 DEF Flits, Numbers
      <4>2. ~(link[s][i].consecutive <= ReadyRX)
        <5>1. link[s][i].consecutive <= ReadyRX => h <= ReadyRX + 1
          BY <1>11, <3>3 DEF Handshake, h
        <5>2. ReadyRX + 1 <= ReadyTX
          BY Ranges
        <5> QED
          BY <1>12, <2>5, <5>1, <5>2, Ranges
      <4> QED
        BY <4>1, <4>2, Ranges
    <3>7. k > ReadyRX
      <4>1. x = k
        BY <1>9, <1>11, <3>3, <3>4 DEF Handshake, x, k
      <4> QED
        BY <1>12, <2>5, <4>1, Ranges
    <3>8. At(link[s], "data") = {}
      BY <2>5, SenderMaySend
    <3> QED
      BY <1>2, <1>5, <1>9, <3>4, <3>5, <3>6, <3>7, <3>8 DEF Heralded, k
  <2>6. handshakeTXDone'[s] => handshakeRXDone'[s]
    <3>1. h > ReadyTX /\ x > ReadyTX => h > ReadyRX /\ x > ReadyRX
      BY <1>12, Ranges
    <3> QED
      BY <1>5, <1>11, <3>1 DEF Handshake
  <2>7. (ccCycles[s] > 0 => /\ BeatsIn(s) = {} /\ heartbeatConsecutive[o] = 0
                            /\ \A i \in BeatsIn(o) : link[o][i].consecutive = 0)'
    BY <1>2, <1>5, <1>9, <1>11 DEF Handshake, k
  <2>8. /\ (\A i, j \in BeatsIn(s) : i = j)'
        /\ (\A i \in BeatsIn(o) : link[o][i].consecutive = heartbeatConsecutive[o])'
    BY <1>9, <1>11 DEF Handshake
  <2>9. /\ ~handshakeRXDone[o] /\ ~handshakeTXDone[s] => h <= ReadyRX + Ahead(s) \/ Slow(s)
        /\ ~handshakeRXDone[o] /\ handshakeTXDone[s] => Heralded(s)
    BY <1>11 DEF Handshake, h
  <2>10. (~handshakeRXDone[o] /\ ~handshakeTXDone[s] =>
            heartbeatConsecutive[s] <= ReadyRX + Ahead(s) \/ Slow(s))'
    BY <1>5, <2>2, <2>3, <2>9 DEF new
  <2>11. (~handshakeRXDone[o] /\ handshakeTXDone[s] => Heralded(s))'
    BY <1>5, <2>4, <2>5, <2>9
  <2> QED
    BY <2>1, <2>6, <2>7, <2>8, <2>10, <2>11 DEF Handshake
<1>14. Handshake(o)'
  <2>1. ASSUME ~handshakeRXDone'[s], ~handshakeTXDone[o]
        PROVE  k <= ReadyRX + Ahead(o)' \/ Slow(o)'
    <3>1. ~handshakeRXDone[s] /\ ~(h > ReadyRX /\ x > ReadyRX)
      BY <1>5, <2>1
    <3>2. CASE ~(x > ReadyRX)
      <4>1. k <= ReadyRX + Since(o)
        <5>1. x <= ReadyRX
          BY <1>12, <3>2, Ranges
        <5> QED
          BY <1>9, <1>11, <5>1 DEF Handshake, x, k
      <4>2. Ahead(o)' = Since(o) + 0 + Missed(o)'
        BY <1>10 DEF Ahead
      <4> QED
        BY <1>1, <1>10, <1>12, <4>1, <4>2, Ranges
    <3>3. CASE ~(h > ReadyRX)
      <4>1. new <= ReadyRX + 1 /\ h <= ReadyTX
        BY <1>12, <3>3, Ranges
      <4>2. \A i \in BeatsIn(s) : link[s][i].consecutive <= ReadyTX \/ k <= ReadyTX
        <5>1. CASE Slow(o)
          BY <1>1, <5>1 DEF Slow, k
        <5>2. CASE BeatsIn(s) # {} /\ ~Slow(o)
          <6>1. k <= ReadyRX + Ahead(o)
            BY <1>1, <1>11, <2>1, <3>1, <5>2 DEF Handshake, k
          <6>2. AtSea(s) = 1
            BY <5>2 DEF AtSea
          <6>3. CASE turn = o
            <7>1. \A i \in BeatsIn(s) : link[s][i].consecutive = h
              BY <1>1, <1>9, <1>11, <6>3 DEF Handshake, h
            <7> QED
              BY <4>1, <7>1
          <6>4. CASE turn # o
            <7>1. Since(o) = 0
              BY <1>1, <6>2, <6>4 DEF Since
            <7>2. Ahead(o) = 0 + 1 + Missed(o)
              BY <1>10, <7>1 DEF Ahead
            <7>3. k <= ReadyTX
              BY <1>1, <1>12, <6>1, <7>2, Ranges
            <7> QED
              BY <7>3
          <6> QED
            BY <6>3, <6>4
        <5> QED
          BY <5>1, <5>2
      <4>3. Slow(o)'
        BY <1>1, <1>5, <1>9, <4>1, <4>2 DEF Slow, new, k
      <4> QED
        BY <4>3
    <3> QED
      BY <3>1, <3>2, <3>3
  <2>2. ASSUME ~handshakeRXDone'[s] PROVE ~handshakeTXDone[o]
    <3>1. ~handshakeRXDone[s] /\ ~(h > ReadyRX /\ x > ReadyRX)
      BY <1>5, <2>2
    <3>2. handshakeTXDone[o] => Heralded(o)
      BY <1>1, <1>11, <3>1 DEF Handshake
    <3>3. Heralded(o) => h > ReadyRX /\ x > ReadyRX
      BY <1>1, <1>9 DEF Heralded, h, x
    <3> QED
      BY <3>1, <3>2, <3>3
  <2>3. ~(ccCycles[o] > 0)
    BY <1>1, <1>9, <1>11 DEF Handshake
  <2>4. (~handshakeRXDone[s] /\ ~handshakeTXDone[o] =>
            heartbeatConsecutive[o] <= ReadyRX + Ahead(o) \/ Slow(o))'
    BY <1>5, <2>1 DEF k
  <2>5. (~handshakeRXDone[s] /\ handshakeTXDone[o] => Heralded(o))'
    BY <1>5, <2>2
  <2>6. handshakeTXDone'[o] => handshakeRXDone'[o]
    BY <1>5, <1>11 DEF Handshake
  <2> QED
    BY <1>1, <1>2, <1>9, <2>3, <2>4, <2>5, <2>6 DEF Handshake
<1> QED
  BY <1>6, <1>7, <1>8, <1>13, <1>14, BothSides, OtherSide

-----------------------------------------------------------------------------
(* The invariant *)

LEMMA InitInv ==
    ASSUME Init
    PROVE  FlowInv
<1> USE DEF Init, All
<1>1. TypeOK
  <2>1. 0 \in Numbers /\ 0 \in 0 .. InterfaceWords - 1 /\ 0 \in 0 .. InterfaceWords
    BY FlowAssumption DEF Numbers
  <2>2. /\ 0 \in 0 .. Credits /\ Credits \in 0 .. Credits /\ 0 \in 0 .. RxDepth
        /\ CCCycles \in 0 .. CCCycles
    BY FlowAssumption
  <2>3. trouble \subseteq {"skip", "lose"}
    BY FlowAssumption
  <2>4. \A T : <<>> \in Seq(T)
    OBVIOUS
  <2> QED
    BY <2>1, <2>2, <2>3, <2>4 DEF TypeOK
<1>2. \A t \in Sides : BeatsIn(t) = {} /\ CreditsIn(t) = {}
  BY DEF BeatsIn, CreditsIn, At
<1>3. ASSUME NEW s \in Sides
      PROVE  /\ Handshake(s) /\ Buffered(s) /\ Framed(s) /\ Ordered(s)
             /\ Balanced(s) /\ Quiet(s)
  <2> DEFINE o == Other(s)
  <2>1. o \in Sides
    BY OtherSide
  <2>2. InterfaceWords \in Nat \ {0} /\ InterfaceWords * 0 = 0 /\ Credits \in Nat
        /\ ReadyRX \in Nat
    BY Times, FlowAssumption
  <2>3. Arrived(s) = 0 /\ Arrived(o) = 0 /\ Written(s) = 0
    BY <2>1, <2>2 DEF Arrived, Written
  <2>4. Handshake(s)
    <3>1. Slow(s)
      BY <1>2, <2>1, <2>2 DEF Slow
    <3> QED
      BY <1>2, <2>1, <3>1 DEF Handshake
  <2>5. Buffered(s)
    <3>1. Len(demarshaller[s]) = 0 /\ Len(infifo[s]) = 0
      OBVIOUS
    <3> QED
      BY <2>2, <3>1 DEF Buffered
  <2>6. Framed(s)
    BY <2>2, <2>3 DEF Framed
  <2>7. Ordered(s)
    <3>1. link[s] = <<>> /\ At(link[s], "data") = {} /\ Len(link[s]) = 0
      BY DEF At
    <3> QED
      BY <2>3, <3>1 DEF Ordered, Stream
  <2>8. Balanced(s)
    <3>1. Returning(s, 0)
      BY <1>2, <2>1 DEF Returning
    <3>2. txCredits[s] + (accepted[s] - delivered[o]) + rxCredits[o] + 0 = Credits
      BY <2>1, <2>2
    <3> QED
      BY <2>2, <3>1, <3>2 DEF Balanced
  <2>9. Quiet(s)
    BY DEF Quiet
  <2> QED
    BY <2>4, <2>5, <2>6, <2>7, <2>8, <2>9
<1>4. trouble \in Troubles \cup {{}}
  OBVIOUS
<1> QED
  BY <1>1, <1>3, <1>4 DEF FlowInv

LEMMA StutterInv ==
    ASSUME FlowInv, UNCHANGED flowVars
    PROVE  FlowInv'
<1> USE DEF flowVars, beatVars, handshakeVars
<1>1. TypeOK' /\ trouble' \in Troubles \cup {{}}
  BY Typed DEF TypeOK, sendVars, receiveVars, outVars
<1>2. \A t \in Sides : Handshake(t)'
  BY OneSide, HandshakeIdle
<1>3. \A t \in Sides : Buffered(t)' /\ Framed(t)' /\ Ordered(t)' /\ Balanced(t)' /\ Quiet(t)'
  BY TrafficIdle
<1> QED
  BY <1>1, <1>2, <1>3, BothSides

LEMMA NextInv ==
    ASSUME FlowInv, EarlyEnough, [Next]_flowVars
    PROVE  FlowInv'
<1>1. CASE UNCHANGED flowVars
  BY <1>1, StutterInv
<1>2. CASE Next
  <2>1. PICK s \in Sides :
           \/ TickCC(s) \/ TxHeartbeat(s) \/ SkipHeartbeat(s)
           \/ TxFC(s) \/ TxData(s) \/ TxSend(s)
           \/ RxCredit(s) \/ RxHeartbeat(s) \/ RxData(s)
           \/ UpdateCredit(s) \/ RxDemarsh(s) \/ RxDone(s)
           \/ Deq(s) \/ LoseHeartbeat(s)
    BY <1>2 DEF Next
  <2>2. CASE TickCC(s)
    BY <2>2, TickCCStep
  <2>3. CASE TxHeartbeat(s)
    BY <2>3, TxHeartbeatStep
  <2>4. CASE SkipHeartbeat(s)
    BY <2>4, SkipHeartbeatStep
  <2>5. CASE TxFC(s)
    BY <2>5, TxFCStep
  <2>6. CASE TxData(s)
    BY <2>6, TxDataStep
  <2>7. CASE TxSend(s)
    BY <2>7, TxSendStep
  <2>8. CASE RxCredit(s)
    BY <2>8, RxCreditStep
  <2>9. CASE RxHeartbeat(s)
    BY <2>9, RxHeartbeatStep
  <2>10. CASE RxData(s)
    BY <2>10, RxDataStep
  <2>11. CASE UpdateCredit(s)
    BY <2>11, UpdateCreditStep
  <2>12. CASE RxDemarsh(s)
    BY <2>12, RxDemarshStep
  <2>13. CASE RxDone(s)
    BY <2>13, RxDoneStep
  <2>14. CASE Deq(s)
    BY <2>14, DeqStep
  <2>15. CASE LoseHeartbeat(s)
    BY <2>15, LoseHeartbeatStep
  <2> QED
    BY <2>1, <2>2, <2>3, <2>4, <2>5, <2>6, <2>7, <2>8, <2>9, <2>10, <2>11, <2>12,
       <2>13, <2>14, <2>15
<1> QED
  BY <1>1, <1>2

\* The link from the first heartbeat on: what is known of the handshake, the flits on
\* their way and the credits holds in every state.
THEOREM FlowInvariant ==
    ASSUME EarlyEnough
    PROVE  Spec => []FlowInv
<1>1. Init => FlowInv
  BY InitInv
<1>2. FlowInv /\ [Next]_flowVars => FlowInv'
  BY NextInv
<1> QED
  BY <1>1, <1>2, PTL DEF Spec

-----------------------------------------------------------------------------
(* What it means for the users of the link *)

\* Words and credits are not ignored: they only come to a side that is ready.
THEOREM ReceivesWhatIsSent ==
    ASSUME EarlyEnough
    PROVE  Spec => []NothingIgnored
<1>1. FlowInv => NothingIgnored
  BY ArrivesInTurn DEF NothingIgnored
<1> QED
  BY <1>1, FlowInvariant, PTL

\* The credits that come back never make more of them than there are
\* (creditUnderflow is never set).
THEOREM CreditsBounded ==
    ASSUME EarlyEnough
    PROVE  Spec => []NoCreditUnderflow
<1>1. FlowInv => NoCreditUnderflow
  <2> SUFFICES ASSUME FlowInv, NEW s \in Sides, creditFIFO[s] # <<>>
               PROVE  txCredits[s] + Head(creditFIFO[s]) <= Credits
    BY DEF NoCreditUnderflow
  <2> DEFINE o == Other(s)
             x == txCredits[s]
             a == accepted[s]
             d == delivered[o]
             r == rxCredits[o]
  <2>1. PICK c \in 0 .. Credits : x + (a - d) + r + c = Credits /\ Returning(s, c)
    BY OneSide DEF Balanced
  <2>2. Head(creditFIFO[s]) = c
    <3>1. creditFIFO[s] = <<c>>
      BY <2>1 DEF Returning
    <3> QED
      BY <3>1
  <2>3. /\ x \in Nat /\ a \in Nat /\ d \in Nat /\ r \in Nat /\ d <= a
        /\ Credits \in Nat /\ c \in Nat
    BY Typed, OtherSide, TypesOf, Progress, FlowAssumption
  <2>4. x + c <= Credits
    <3> HIDE DEF x, a, d, r
    <3> QED
      BY <2>1, <2>3
  <2> QED
    BY <2>2, <2>4
<1> QED
  BY <1>1, FlowInvariant, PTL

\* Each word that is handed to the user is the next one that the other side wrote.
THEOREM WordsArriveIntact ==
    ASSUME EarlyEnough
    PROVE  Spec => []WordsIntact
<1>1. FlowInv => WordsIntact
  <2> SUFFICES ASSUME FlowInv, NEW s \in Sides, Len(demarshaller[s]) = InterfaceWords,
                      NEW i \in 1 .. InterfaceWords
               PROVE  demarshaller[s][i] = Data(delivered[s] * InterfaceWords + i - 1)
    BY DEF WordsIntact
  <2>1. demarshaller[s][i] = Data(InterfaceWords * delivered[s] + i - 1)
    BY OneSide DEF Buffered
  <2>2. delivered[s] * InterfaceWords = InterfaceWords * delivered[s]
    BY Typed, TypesOf, Times
  <2> QED
    BY <2>1, <2>2
<1> QED
  BY <1>1, FlowInvariant, PTL

\* A side without credits, whose words have all been delivered, is owed enough of them
\* for the other side to return them.
THEOREM CreditsReturned ==
    ASSUME EarlyEnough
    PROVE  Spec => []CreditsComeBack
<1>1. FlowInv => CreditsComeBack
  <2> SUFFICES ASSUME FlowInv, NEW s \in Sides, txCredits[s] = 0,
                      accepted[s] = delivered[Other(s)], creditFIFO[s] = <<>>,
                      \A i \in DOMAIN incoming(s) : incoming(s)[i].kind # "credit"
               PROVE  CreditsDue(Other(s))
    BY DEF CreditsComeBack
  <2> DEFINE o == Other(s)
  <2>1. PICK c \in 0 .. Credits :
           txCredits[s] + (accepted[s] - delivered[o]) + rxCredits[o] + c = Credits /\ Returning(s, c)
    BY OneSide DEF Balanced
  <2>2. CreditsIn(o) = {}
    <3>1. link[o] \in Seq(Flits)
      BY Typed, OtherSide, TypesOf
    <3>2. DOMAIN link[o] = 1 .. Len(link[o])
      BY <3>1
    <3> QED
      BY <3>2 DEF CreditsIn, At, incoming
  <2>3. c = 0
    BY <2>1, <2>2 DEF Returning
  <2>4. rxCredits[o] = Credits
    <3>1. accepted[s] \in Nat /\ rxCredits[o] \in 0 .. Credits /\ Credits \in Nat
      BY Typed, OtherSide, TypesOf, FlowAssumption
    <3> QED
      BY <2>1, <2>3, <3>1
  <2>5. Credits > 3 * (Credits \div 4)
    <3>1. Credits \in Nat \ {0} /\ Credits % 4 = 0
      BY FlowAssumption
    <3>2. Credits = 4 * (Credits \div 4) /\ Credits \div 4 \in Int
      BY <3>1, Z3
    <3> DEFINE k == Credits \div 4
    <3>3. Credits = 4 * k /\ k \in Int
      BY <3>2
    <3> HIDE DEF k
    <3>4. Credits > 3 * k
      BY <3>1, <3>3
    <3> QED
      BY <3>4 DEF k
  <2> QED
    BY <2>4, <2>5 DEF CreditsDue
<1> QED
  BY <1>1, FlowInvariant, PTL

\* Neither the buffer for words nor the one for credits is full when a flit arrives:
\* the rule drop never fires.  (There are four places for credits; two would do.)
THEOREM NothingDropped ==
    ASSUME EarlyEnough, CreditDepth > 1
    PROVE  Spec => []AlwaysReceives
<1>1. FlowInv => AlwaysReceives
  <2> SUFFICES ASSUME FlowInv, NEW s \in Sides, DemarshIdle(s)
               PROVE  IntakeReady(s)
    BY DEF AlwaysReceives
  <2> DEFINE o == Other(s)
  <2>1. TypeOK /\ o \in Sides /\ Other(o) = s /\ Credits \in Nat \ {0} /\ CreditDepth \in Nat
    BY Typed, OtherSide, FlowAssumption
  <2>2. Len(creditFIFO[s]) < CreditDepth
    <3>1. PICK c \in 0 .. Credits : Returning(s, c)
      BY OneSide DEF Balanced
    <3>2. creditFIFO[s] = <<>> \/ creditFIFO[s] = <<c>>
      BY <3>1 DEF Returning
    <3>3. Len(<<>>) = 0 /\ Len(<<c>>) = 1
      OBVIOUS
    <3>4. Len(creditFIFO[s]) = 0 \/ Len(creditFIFO[s]) = 1
      BY <3>2, <3>3
    <3> QED
      BY <2>1, <3>4
  <2>3. InterfaceWords \in Nat \ {0} /\ InterfaceWords * Credits \in Nat
        /\ Credits * InterfaceWords = InterfaceWords * Credits
        /\ InterfaceWords <= InterfaceWords * Credits
    <3>1. 0 < Credits => InterfaceWords * 0 + InterfaceWords <= InterfaceWords * Credits
      BY <2>1, TimesOrder
    <3>2. InterfaceWords * 0 = 0
      BY Times
    <3> QED
      BY <2>1, <3>1, <3>2, Times
  <2>4. CASE infifo[s] = <<>>
    <3>1. Len(infifo[s]) = 0
      BY <2>4
    <3> QED
      BY <2>2, <2>3, <3>1 DEF IntakeReady
  <2>5. CASE Len(demarshaller[s]) = InterfaceWords
    <3> DEFINE m == Len(infifo[s])
               a == accepted[o]
               d == delivered[s]
               W == InterfaceWords
    <3>1. m \in Nat /\ a \in Nat /\ d \in Nat
      BY <2>1, TypesOf
    <3>2. a <= d + Credits
      <4> DEFINE x == txCredits[o]
                 r == rxCredits[s]
      <4>1. PICK c \in 0 .. Credits : x + (a - d) + r + c = Credits
        BY <2>1, OneSide DEF Balanced
      <4>2. x \in Nat /\ r \in Nat /\ c \in Nat
        BY <2>1, TypesOf
      <4> HIDE DEF x, r, a, d
      <4> QED
        BY <2>1, <3>1, <4>1, <4>2
    <3>3. W * d + W + m <= W * a /\ W * d \in Nat /\ W * a \in Nat
      <4>1. Arrived(s) = W * d + W + m
        BY <2>5 DEF Arrived
      <4>2. /\ Arrived(s) \in Nat /\ Written(o) \in Nat /\ Arrived(s) <= Written(o)
            /\ Written(o) <= W * a
        BY <2>1, Progress
      <4>3. W * d \in Nat /\ W * a \in Nat
        BY <3>1, Times
      <4>4. Arrived(s) <= W * a
        BY <4>2, <4>3
      <4> QED
        BY <4>1, <4>3, <4>4
    <3>4. W * a <= W * (d + Credits)
      BY <2>1, <3>1, <3>2, TimesOrder
    <3>5. W * (d + Credits) = W * d + W * Credits
      BY <2>1, <2>3, <3>1, Z3
    <3>6. m < W * Credits
      <4> DEFINE p == W * d
                 z == W * a
                 y == W * Credits
      <4>1. p \in Nat /\ z \in Nat /\ y \in Nat /\ m \in Nat /\ W \in Nat \ {0}
            /\ p + W + m <= z /\ z <= p + y
        BY <2>3, <3>1, <3>3, <3>4, <3>5
      <4> HIDE DEF p, z, y, m, W
      <4>2. m < y
        BY <4>1
      <4> QED
        BY <4>2 DEF y
    <3> QED
      BY <2>2, <2>3, <3>6 DEF IntakeReady
  <2> QED
    BY <2>4, <2>5 DEF DemarshIdle
<1> QED
  BY <1>1, FlowInvariant, PTL
=============================================================================
