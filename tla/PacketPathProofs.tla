------------------------- MODULE PacketPathProofs ---------------------------
(***************************************************************************)
(* Theorems about the ephemeral ports of SenderApplication, for every      *)
(* range of ports (ns-3's holds 16384) and any number of packets, and about*)
(* the path of a packet, for every delay, transmission time and length of  *)
(* the transmit queue.                                                     *)
(***************************************************************************)
EXTENDS PacketPath, SequenceTheorems, FiniteSetTheorems, TLAPS

(* A host has used one port for each packet it has transmitted, and its    *)
(* ports are used up before a packet is lost.                              *)
PortsInv ==
  /\ ephemeral \in [Hosts -> Ports] /\ endPoints \in [Hosts -> Seq(Ports)]
  /\ traced \in [Hosts -> Nat] /\ transmitted \in [Hosts -> Nat]
  /\ \A h \in Hosts :
       /\ IsInjective(endPoints[h])
       /\ transmitted[h] = Len(endPoints[h])
       /\ transmitted[h] = IF traced[h] <= Size THEN traced[h] ELSE Size

-----------------------------------------------------------------------------
LEMMA SizeIsPositive == Size \in Nat \ {0} /\ First \in Nat /\ Last \in Nat
BY PortsAssumption DEF Size

LEMMA MinIsLeast ==
  ASSUME NEW S \in SUBSET Nat, S # {}
  PROVE  Min(S) \in S /\ \A y \in S : Min(S) <= y
<1> DEFINE R == OpToRel(<, Nat)
<1>1. IsWellFoundedOn(R, Nat)
  BY NatLessThanWellFounded
<1> HIDE DEF R
<1>2. PICK x \in S : \A y \in S : ~ (<<y, x>> \in R)
  BY <1>1, WFMin
<1>3. \A a, b \in Nat : a < b => <<a, b>> \in R
  BY DEF R, OpToRel
<1>4. ASSUME NEW y \in S
      PROVE  x <= y
  <2>1. x \in Nat /\ y \in Nat
    OBVIOUS
  <2>2. ~ (y < x)
    BY <1>2, <1>3, <2>1
  <2> QED
    BY <2>1, <2>2
<1> QED
  BY <1>4 DEF Min

LEMMA MinOfTwo ==
  ASSUME NEW a \in Nat, NEW b \in Nat
  PROVE  Min({a, b}) = IF a <= b THEN a ELSE b
<1>1. Min({a, b}) \in {a, b} /\ Min({a, b}) <= a /\ Min({a, b}) <= b
  BY MinIsLeast
<1> QED
  BY <1>1

(* The loop of AllocateEphemeralPort looks at ports of the range only, and *)
(* at every one of them.                                                   *)
LEMMA ProbesCoverPorts ==
  ASSUME PortsInv, NEW h \in Hosts
  PROVE  /\ \A k \in 1 .. Size : Probe(h, k) \in Ports
         /\ \A port \in Ports : \E k \in 1 .. Size : Probe(h, k) = port
<1> DEFINE e == ephemeral[h]
<1>1. e \in First .. Last
  BY DEF PortsInv, Ports
<1> HIDE DEF e
<1>2. /\ \A x \in 0 .. Size - 1 : x % Size = x
      /\ \A x \in Size .. 2 * Size - 1 : x % Size = x - Size
  <2> DEFINE n == Size
  <2>1. n \in Nat \ {0}
    BY SizeIsPositive
  <2> HIDE DEF n
  <2>2. /\ \A x \in 0 .. n - 1 : x % n = x
        /\ \A x \in n .. 2 * n - 1 : x % n = x - n
    BY <2>1
  <2> QED
    BY <2>2 DEF n
<1>3. ASSUME NEW k \in 1 .. Size
      PROVE  Probe(h, k) = IF e + k <= Last THEN e + k ELSE e + k - Size
  <2> DEFINE d == e - First + k
  <2>1. Probe(h, k) = First + (d % Size)
    BY DEF Probe, e
  <2>2. First + d = e + k
    BY <1>1, SizeIsPositive
  <2>3. CASE e + k <= Last
    <3>1. d \in 0 .. Size - 1
      BY <1>1, <2>3, SizeIsPositive DEF Size
    <3>2. d % Size = d
      BY <1>2, <3>1
    <3> QED
      BY <2>1, <2>2, <2>3, <3>2
  <2>4. CASE ~(e + k <= Last)
    <3>1. d \in Size .. 2 * Size - 1
      BY <1>1, <2>4, SizeIsPositive DEF Size
    <3>2. d % Size = d - Size
      BY <1>2, <3>1
    <3>3. First + (d - Size) = e + k - Size
      BY <1>1, <2>2, SizeIsPositive
    <3> QED
      BY <2>1, <2>4, <3>2, <3>3
  <2> QED
    BY <2>3, <2>4
<1>4. \A k \in 1 .. Size : Probe(h, k) \in Ports
  BY <1>1, <1>3, SizeIsPositive DEF Ports, Size
<1>5. ASSUME NEW port \in Ports
      PROVE  \E k \in 1 .. Size : Probe(h, k) = port
  <2>1. CASE port > e
    <3>1. port - e \in 1 .. Size /\ e + (port - e) = port /\ port <= Last
      BY <1>1, <2>1, SizeIsPositive DEF Ports, Size
    <3> QED
      BY <1>3, <3>1
  <2>2. CASE ~(port > e)
    <3>1. /\ port - e + Size \in 1 .. Size /\ e + (port - e + Size) - Size = port
          /\ ~(e + (port - e + Size) <= Last)
      BY <1>1, <2>2, SizeIsPositive DEF Ports, Size
    <3> QED
      BY <1>3, <3>1
  <2> QED
    BY <2>1, <2>2
<1> QED
  BY <1>4, <1>5

LEMMA PortsAreFinite == IsFiniteSet(Ports) /\ Cardinality(Ports) = Size
BY FS_Interval, SizeIsPositive DEF Ports, Size

(* Distinct ports are at most Size, and all ports are at least Size.       *)
LEMMA UsedPorts ==
  ASSUME NEW q \in Seq(Ports)
  PROVE  /\ IsInjective(q) => Len(q) <= Size
         /\ Ports \subseteq Range(q) => Len(q) >= Size
<1>1. IsFiniteSet(1 .. Len(q)) /\ Cardinality(1 .. Len(q)) = Len(q)
  <2> DEFINE n == Len(q)
  <2>1. n \in Nat
    OBVIOUS
  <2> HIDE DEF n
  <2>2. IsFiniteSet(1 .. n) /\ Cardinality(1 .. n) = n
    BY <2>1, FS_Interval
  <2> QED
    BY <2>2 DEF n
<1>2. q \in [1 .. Len(q) -> Ports] /\ DOMAIN q = 1 .. Len(q)
  OBVIOUS
<1>3. ASSUME IsInjective(q)
      PROVE  Len(q) <= Size
  <2>1. q \in Injection(1 .. Len(q), Ports)
    BY <1>2, <1>3 DEF Injection, IsInjective
  <2>2. Cardinality(1 .. Len(q)) <= Cardinality(Ports)
    BY <2>1, PortsAreFinite, FS_Injection
  <2> QED
    BY <1>1, <2>2, PortsAreFinite
<1>4. ASSUME Ports \subseteq Range(q)
      PROVE  Len(q) >= Size
  <2>1. q \in Surjection(1 .. Len(q), Ports)
    BY <1>2, <1>4 DEF Surjection, Range
  <2>2. Cardinality(Ports) <= Len(q)
    BY <1>1, <2>1, FS_Surjection
  <2> QED
    BY <2>2, PortsAreFinite, SizeIsPositive
<1> QED
  BY <1>3, <1>4

LEMMA AppendFresh ==
  ASSUME NEW q \in Seq(Ports), IsInjective(q), NEW port \in Ports, port \notin Range(q)
  PROVE  /\ Append(q, port) \in Seq(Ports) /\ Len(Append(q, port)) = Len(q) + 1
         /\ IsInjective(Append(q, port))
<1> DEFINE r == Append(q, port)
<1>1. r \in Seq(Ports) /\ Len(r) = Len(q) + 1
  OBVIOUS
<1>2. /\ \A i \in DOMAIN r : (i \in DOMAIN q /\ r[i] = q[i]) \/ (i = Len(q) + 1 /\ r[i] = port)
      /\ \A i \in DOMAIN q : q[i] # port
  BY DEF Range
<1> HIDE DEF r
<1>3. IsInjective(r)
  BY <1>2 DEF IsInjective
<1> QED
  BY <1>1, <1>3 DEF r

-----------------------------------------------------------------------------
LEMMA SendPacketKeeps ==
  ASSUME PortsInv, NEW h \in Hosts, SendPacket(h)
  PROVE  PortsInv'
<1>1. /\ endPoints[h] \in Seq(Ports) /\ IsInjective(endPoints[h])
      /\ traced[h] \in Nat /\ transmitted[h] \in Nat /\ transmitted[h] = Len(endPoints[h])
      /\ transmitted[h] = IF traced[h] <= Size THEN traced[h] ELSE Size
      /\ traced' = [traced EXCEPT ![h] = @ + 1]
  BY DEF PortsInv, SendPacket
<1>2. CASE FreeProbes(h) # {}
  <2> DEFINE port == Probe(h, Min(FreeProbes(h)))
             q == Append(endPoints[h], port)
  <2>1. /\ ephemeral' = [ephemeral EXCEPT ![h] = port]
        /\ endPoints' = [endPoints EXCEPT ![h] = q]
        /\ transmitted' = [transmitted EXCEPT ![h] = @ + 1]
    BY <1>2 DEF SendPacket, PortsInv
  <2>2. Min(FreeProbes(h)) \in FreeProbes(h)
    <3>1. FreeProbes(h) \in SUBSET Nat
      BY DEF FreeProbes
    <3> QED
      BY <1>2, <3>1, MinIsLeast
  <2>3. port \in Ports /\ port \notin Range(endPoints[h])
    BY <2>2, ProbesCoverPorts DEF FreeProbes, LookupPortLocal
  <2> HIDE DEF port
  <2>4. q \in Seq(Ports) /\ Len(q) = Len(endPoints[h]) + 1 /\ IsInjective(q)
    BY <1>1, <2>3, AppendFresh
  <2> HIDE DEF q
  <2>5. transmitted[h] + 1 = Len(q) /\ Len(q) <= Size
    BY <1>1, <2>4, UsedPorts
  <2>6. transmitted[h] + 1 = IF traced[h] + 1 <= Size THEN traced[h] + 1 ELSE Size
    BY <1>1, <2>5, SizeIsPositive
  <2>7. /\ ephemeral' \in [Hosts -> Ports] /\ endPoints' \in [Hosts -> Seq(Ports)]
        /\ traced' \in [Hosts -> Nat] /\ transmitted' \in [Hosts -> Nat]
    BY <1>1, <2>1, <2>3, <2>4 DEF PortsInv
  <2>8. ASSUME NEW g \in Hosts
        PROVE  /\ IsInjective(endPoints'[g]) /\ transmitted'[g] = Len(endPoints'[g])
               /\ transmitted'[g] = IF traced'[g] <= Size THEN traced'[g] ELSE Size
    <3>1. CASE g = h
      <4>1. /\ endPoints'[g] = q /\ transmitted'[g] = transmitted[h] + 1
            /\ traced'[g] = traced[h] + 1
        BY <1>1, <2>1, <3>1 DEF PortsInv
      <4> QED
        BY <2>4, <2>5, <2>6, <4>1
    <3>2. CASE g # h
      <4>1. endPoints'[g] = endPoints[g] /\ transmitted'[g] = transmitted[g] /\ traced'[g] = traced[g]
        BY <1>1, <2>1, <3>2 DEF PortsInv
      <4> QED
        BY <4>1 DEF PortsInv
    <3> QED
      BY <3>1, <3>2
  <2> QED
    BY <2>7, <2>8, SizeIsPositive DEF PortsInv, Ports, Size
<1>3. CASE FreeProbes(h) = {}
  <2>1. UNCHANGED <<ephemeral, endPoints, transmitted>>
    BY <1>3 DEF SendPacket
  <2>2. Ports \subseteq Range(endPoints[h])
    BY <1>3, ProbesCoverPorts DEF FreeProbes, LookupPortLocal
  <2>3. Len(endPoints[h]) >= Size
    BY <1>1, <2>2, UsedPorts
  <2>4. transmitted[h] = IF traced[h] + 1 <= Size THEN traced[h] + 1 ELSE Size
    BY <1>1, <2>3, SizeIsPositive, UsedPorts
  <2> QED
    BY <1>1, <2>1, <2>4 DEF PortsInv, Ports, Size
<1> QED
  BY <1>2, <1>3

LEMMA PortsInvariance == Spec => []PortsInv
<1>1. Init => PortsInv
  <2> SUFFICES ASSUME Init
               PROVE  PortsInv
    OBVIOUS
  <2>1. First \in Ports /\ 0 <= Size
    BY SizeIsPositive, PortsAssumption DEF Ports
  <2>2. IsInjective(<<>>) /\ Len(<<>>) = 0 /\ <<>> \in Seq(Ports)
    BY DEF IsInjective
  <2> QED
    BY <2>1, <2>2 DEF Init, PortsInv
<1>2. PortsInv /\ [Next]_vars => PortsInv'
  <2> SUFFICES ASSUME PortsInv, [Next]_vars
               PROVE  PortsInv'
    OBVIOUS
  <2>1. CASE UNCHANGED vars
    BY <2>1 DEF vars, PortsInv, Ports, Size
  <2>2. CASE Next
    BY <2>2, SendPacketKeeps DEF Next
  <2> QED
    BY <2>1, <2>2
<1> QED
  BY <1>1, <1>2, PTL DEF Spec

(* Every socket of a host has an ephemeral port of its own, although the   *)
(* search starts anywhere and no port is ever given back                   *)
(* (ipv4-end-point-demux.cc:353).                                          *)
THEOREM DistinctPorts == Spec => []PortsAreDistinct
<1>1. PortsInv => PortsAreDistinct
  BY DEF PortsInv, PortsAreDistinct
<1> QED
  BY <1>1, PortsInvariance, PTL

(* The search finds a port as long as there is one: a host transmits as    *)
(* many packets as it has ports, each of them, and nothing after them.     *)
THEOREM SilentAfterLastPort == Spec => []SilentOnceExhausted
<1>1. PortsInv => SilentOnceExhausted
  BY MinOfTwo, SizeIsPositive DEF PortsInv, SilentOnceExhausted
<1> QED
  BY <1>1, PortsInvariance, PTL

-----------------------------------------------------------------------------
(* The simulator's event queue.                                            *)

Events(W) == [wait : Nat, what : W]

Sorted(q) == \A i, j \in DOMAIN q : i < j => q[i].wait <= q[j].wait

LEMMA SequenceFacts ==
  ASSUME NEW S, NEW q \in Seq(S)
  PROVE  /\ DOMAIN q = 1 .. Len(q) /\ Len(q) \in Nat
         /\ \A i \in DOMAIN q : q[i] \in S
OBVIOUS

LEMMA EventFacts ==
  ASSUME NEW W, NEW q \in Seq(Events(W))
  PROVE  /\ DOMAIN q = 1 .. Len(q) /\ Len(q) \in Nat
         /\ \A i \in DOMAIN q : q[i] \in Events(W) /\ q[i].wait \in Nat /\ q[i].what \in W
<1>1. /\ DOMAIN q = 1 .. Len(q) /\ Len(q) \in Nat
      /\ \A i \in DOMAIN q : q[i] \in Events(W)
  BY SequenceFacts
<1> QED
  BY <1>1 DEF Events

(* The events due no later than a new one are the first ones.              *)
LEMMA NotLater ==
  ASSUME NEW W, NEW q \in Seq(Events(W)), Sorted(q), NEW wait \in Nat
  PROVE  LET S == {i \in DOMAIN q : q[i].wait <= wait}
         IN  /\ Cardinality(S) \in 0 .. Len(q)
             /\ \A i \in DOMAIN q : i \in S <=> i <= Cardinality(S)
<1> DEFINE S == {i \in DOMAIN q : q[i].wait <= wait}
<1>1. /\ DOMAIN q = 1 .. Len(q) /\ Len(q) \in Nat
      /\ \A i \in DOMAIN q : q[i].wait \in Nat
  BY EventFacts
<1>2. /\ IsFiniteSet(S) /\ Cardinality(S) \in Nat /\ Cardinality(S) <= Len(q)
  <2>1. IsFiniteSet(1 .. Len(q)) /\ Cardinality(1 .. Len(q)) = Len(q)
    BY <1>1, FS_Interval
  <2>2. S \in SUBSET (1 .. Len(q))
    BY <1>1
  <2> HIDE DEF S
  <2> QED
    BY <2>1, <2>2, FS_Subset, FS_CardinalityType
<1>3. ASSUME NEW i \in S PROVE i <= Cardinality(S)
  <2>1. 1 .. i \in SUBSET S /\ i \in Nat
    BY <1>1 DEF Sorted
  <2>2. Cardinality(1 .. i) = i
    BY <2>1, FS_Interval
  <2> HIDE DEF S
  <2> QED
    BY <1>2, <2>1, <2>2, FS_Subset
<1>4. ASSUME NEW i \in DOMAIN q, i \notin S PROVE Cardinality(S) < i
  <2>1. S \in SUBSET (1 .. i - 1) /\ i - 1 \in Nat
    <3>1. ASSUME NEW j \in S PROVE j < i
      <4>1. ~(i < j) /\ i # j
        BY <1>1, <1>4, <3>1 DEF Sorted
      <4> QED
        BY <1>1, <4>1
    <3>2. \A j \in S : j \in 1 .. i - 1
      BY <1>1, <3>1
    <3> QED
      BY <1>1, <3>2
  <2>2. Cardinality(1 .. i - 1) = i - 1 /\ IsFiniteSet(1 .. i - 1)
    BY <2>1, FS_Interval
  <2> HIDE DEF S
  <2>3. Cardinality(S) <= i - 1
    BY <2>1, <2>2, FS_Subset
  <2> QED
    BY <1>1, <1>2, <2>3
<1> HIDE DEF S
<1>5. \A i \in DOMAIN q : i \in S <=> i <= Cardinality(S)
  BY <1>1, <1>2, <1>3, <1>4
<1> QED
  BY <1>1, <1>2, <1>5 DEF S

LEMMA InsertFacts ==
  ASSUME NEW S, NEW q \in Seq(S), NEW e \in S, NEW n \in 0 .. Len(q)
  PROVE  LET r == Insert(q, n, e)
         IN  /\ r \in Seq(S) /\ DOMAIN r = 1 .. Len(q) + 1
             /\ \A i \in 1 .. n : r[i] = q[i]
             /\ r[n + 1] = e
             /\ \A i \in n + 1 .. Len(q) : r[i + 1] = q[i]
<1> DEFINE a == SubSeq(q, 1, n)
           b == SubSeq(q, n + 1, Len(q))
           c == a \o <<e>>
           r == c \o b
<1>1. Len(q) \in Nat /\ n \in Nat /\ n <= Len(q) /\ \A i \in 1 .. Len(q) : q[i] \in S
  BY SequenceFacts
<1>2. a \in Seq(S) /\ Len(a) = n /\ \A i \in 1 .. n : a[i] = q[i]
  <2>1. \A i \in 1 .. n : q[i] \in S
    BY <1>1
  <2> QED
    BY <1>1, <2>1, SubSeqProperties
<1>3. b \in Seq(S) /\ Len(b) = Len(q) - n /\ \A i \in 1 .. Len(q) - n : b[i] = q[n + i]
  <2>1. \A i \in n + 1 .. Len(q) : q[i] \in S
    BY <1>1
  <2>2. /\ b \in Seq(S)
        /\ Len(b) = IF n + 1 <= Len(q) THEN Len(q) - (n + 1) + 1 ELSE 0
        /\ \A i \in 1 .. Len(q) - (n + 1) + 1 : b[i] = q[(n + 1) + i - 1]
    BY <1>1, <2>1, SubSeqProperties
  <2> HIDE DEF b
  <2>3. \A i \in 1 .. Len(q) - n : (n + 1) + i - 1 = n + i
    BY <1>1
  <2> QED
    BY <1>1, <2>2, <2>3
<1> HIDE DEF a, b
<1>4. /\ c \in Seq(S) /\ Len(c) = n + 1 /\ c[n + 1] = e
      /\ \A i \in 1 .. n : c[i] = q[i]
  <2>1. <<e>> \in Seq(S) /\ Len(<<e>>) = 1 /\ <<e>>[1] = e
    OBVIOUS
  <2>2. /\ c \in Seq(S) /\ Len(c) = n + 1
        /\ \A i \in 1 .. n + 1 : c[i] = IF i <= n THEN a[i] ELSE <<e>>[i - n]
    BY <1>2, <2>1, ConcatProperties
  <2> HIDE DEF c
  <2>3. (n + 1) - n = 1 /\ n + 1 \in 1 .. n + 1 /\ ~(n + 1 <= n)
    BY <1>1
  <2>4. \A i \in 1 .. n : i \in 1 .. n + 1 /\ i <= n
    BY <1>1
  <2> QED
    BY <1>2, <2>1, <2>2, <2>3, <2>4
<1> HIDE DEF c
<1>5. /\ r \in Seq(S) /\ Len(r) = Len(q) + 1
      /\ \A i \in 1 .. Len(q) + 1 : r[i] = IF i <= n + 1 THEN c[i] ELSE b[i - (n + 1)]
  <2>1. /\ r \in Seq(S) /\ Len(r) = Len(c) + Len(b)
        /\ \A i \in 1 .. Len(c) + Len(b) : r[i] = IF i <= Len(c) THEN c[i] ELSE b[i - Len(c)]
    BY <1>3, <1>4, ConcatProperties
  <2>2. Len(c) + Len(b) = Len(q) + 1
    BY <1>1, <1>3, <1>4
  <2> QED
    BY <1>4, <2>1, <2>2
<1>6. r = Insert(q, n, e)
  BY DEF Insert, a, b, c
<1> HIDE DEF r
<1>7. DOMAIN r = 1 .. Len(q) + 1
  BY <1>5, SequenceFacts
<1>8. ASSUME NEW i \in 1 .. n PROVE r[i] = q[i]
  BY <1>1, <1>4, <1>5
<1>9. r[n + 1] = e
  BY <1>1, <1>4, <1>5
<1>10. ASSUME NEW i \in n + 1 .. Len(q) PROVE r[i + 1] = q[i]
  <2>1. /\ i + 1 \in 1 .. Len(q) + 1 /\ ~(i + 1 <= n + 1)
        /\ (i + 1) - (n + 1) \in 1 .. Len(q) - n
        /\ n + ((i + 1) - (n + 1)) = i
    BY <1>1
  <2> QED
    BY <1>3, <1>5, <2>1
<1> QED
  BY <1>5, <1>6, <1>7, <1>8, <1>9, <1>10

(* Something is scheduled; what is scheduled in q is so in r.              *)
Holds(q, what) == \E i \in DOMAIN q : q[i].what = what

Keeps(q, r) == \A w : Holds(q, w) => Holds(r, w)

(* An event queue stays in order, and loses nothing, when an event is      *)
(* added.                                                                  *)
LEMMA ScheduleKeeps ==
  ASSUME NEW W, NEW q \in Seq(Events(W)), Sorted(q), NEW wait \in Nat, NEW what \in W
  PROVE  LET r == Schedule(q, wait, what)
         IN  /\ r \in Seq(Events(W)) /\ Sorted(r)
             /\ Keeps(q, r) /\ Holds(r, what)
<1> DEFINE n == Cardinality({i \in DOMAIN q : q[i].wait <= wait})
           e == Event(wait, what)
           r == Insert(q, n, e)
<1>1. /\ n \in 0 .. Len(q)
      /\ \A i \in DOMAIN q : q[i].wait <= wait <=> i <= n
  BY NotLater
<1>2. /\ DOMAIN q = 1 .. Len(q) /\ Len(q) \in Nat
      /\ \A i \in DOMAIN q : q[i].wait \in Nat
  BY EventFacts
<1>3. e \in Events(W) /\ e.wait = wait /\ e.what = what
  BY DEF Event, Events
<1> HIDE DEF n, e
<1>4. /\ r \in Seq(Events(W)) /\ DOMAIN r = 1 .. Len(q) + 1
      /\ \A i \in 1 .. n : r[i] = q[i]
      /\ r[n + 1] = e
      /\ \A i \in n + 1 .. Len(q) : r[i + 1] = q[i]
  BY <1>1, <1>3, InsertFacts
<1>5. Schedule(q, wait, what) = r
  BY DEF Schedule, n, e
<1> HIDE DEF r
<1>6. \A j \in DOMAIN r :
         \/ j \in 1 .. n /\ j \in DOMAIN q /\ r[j] = q[j]
         \/ j = n + 1 /\ r[j] = e
         \/ j > n + 1 /\ j - 1 \in n + 1 .. Len(q) /\ j - 1 \in DOMAIN q /\ r[j] = q[j - 1]
  <2> SUFFICES ASSUME NEW j \in DOMAIN r
               PROVE  \/ j \in 1 .. n /\ j \in DOMAIN q /\ r[j] = q[j]
                      \/ j = n + 1 /\ r[j] = e
                      \/ /\ j > n + 1 /\ j - 1 \in n + 1 .. Len(q)
                         /\ j - 1 \in DOMAIN q /\ r[j] = q[j - 1]
    OBVIOUS
  <2>1. \/ j \in 1 .. n /\ j \in DOMAIN q
        \/ j = n + 1
        \/ j > n + 1 /\ j - 1 \in n + 1 .. Len(q) /\ j - 1 \in DOMAIN q /\ (j - 1) + 1 = j
    BY <1>1, <1>2, <1>4
  <2> QED
    BY <1>4, <2>1
<1>7. Sorted(r)
  <2> SUFFICES ASSUME NEW i \in DOMAIN r, NEW j \in DOMAIN r, i < j
               PROVE  r[i].wait <= r[j].wait
    BY DEF Sorted
  <2>1. \A k \in DOMAIN q : k \in 1 .. n => q[k].wait <= wait
    BY <1>1, <1>2
  <2>2. \A k \in DOMAIN q : k \in n + 1 .. Len(q) => wait <= q[k].wait
    BY <1>1, <1>2
  <2>3. i \in Int /\ j \in Int /\ n \in Int
    BY <1>1, <1>4
  <2>4. CASE i \in 1 .. n /\ i \in DOMAIN q /\ r[i] = q[i]
    <3>1. CASE j \in 1 .. n /\ j \in DOMAIN q /\ r[j] = q[j]
      BY <2>4, <3>1 DEF Sorted
    <3>2. CASE j = n + 1 /\ r[j] = e
      BY <1>3, <2>1, <2>4, <3>2
    <3>3. CASE j - 1 \in n + 1 .. Len(q) /\ j - 1 \in DOMAIN q /\ r[j] = q[j - 1]
      <4>1. i < j - 1
        BY <2>3, <2>4, <3>3
      <4> QED
        BY <2>4, <3>3, <4>1 DEF Sorted
    <3> QED
      BY <1>6, <3>1, <3>2, <3>3
  <2>5. CASE i = n + 1 /\ r[i] = e
    <3>1. j - 1 \in n + 1 .. Len(q) /\ j - 1 \in DOMAIN q /\ r[j] = q[j - 1]
      BY <1>6, <2>3, <2>5
    <3> QED
      BY <1>3, <2>2, <2>5, <3>1
  <2>6. CASE i > n + 1 /\ i - 1 \in DOMAIN q /\ r[i] = q[i - 1]
    <3>1. j - 1 \in DOMAIN q /\ r[j] = q[j - 1]
      BY <1>6, <2>3, <2>6
    <3>2. i - 1 < j - 1
      BY <2>3
    <3> QED
      BY <2>6, <3>1, <3>2 DEF Sorted
  <2> QED
    BY <1>6, <2>4, <2>5, <2>6
<1>8. ASSUME NEW i \in DOMAIN q PROVE \E j \in DOMAIN r : r[j] = q[i]
  <2>1. CASE i <= n
    <3>1. i \in 1 .. n /\ i \in DOMAIN r
      BY <1>1, <1>2, <1>4, <2>1
    <3> QED
      BY <1>4, <3>1
  <2>2. CASE ~(i <= n)
    <3>1. i \in n + 1 .. Len(q) /\ i + 1 \in DOMAIN r
      BY <1>1, <1>2, <1>4, <2>2
    <3> QED
      BY <1>4, <3>1
  <2> QED
    BY <2>1, <2>2
<1>9. \E j \in DOMAIN r : r[j].what = what
  <2>1. n + 1 \in DOMAIN r
    BY <1>1, <1>2, <1>4
  <2> QED
    BY <1>3, <1>4, <2>1
<1>10. Keeps(q, r)
  BY <1>8 DEF Keeps, Holds
<1>11. Holds(r, what)
  BY <1>9 DEF Holds
<1> QED
  BY <1>4, <1>5, <1>7, <1>10, <1>11

(* ... or the first one is processed.                                      *)
LEMMA TailKeeps ==
  ASSUME NEW W, NEW q \in Seq(Events(W)), Sorted(q), q # <<>>
  PROVE  /\ Tail(q) \in Seq(Events(W)) /\ Sorted(Tail(q))
         /\ \A i \in DOMAIN q :
              q[i] = Head(q) \/ \E j \in DOMAIN Tail(q) : Tail(q)[j] = q[i]
<1> DEFINE r == Tail(q)
<1>1. /\ DOMAIN q = 1 .. Len(q) /\ Len(q) \in Nat
      /\ r \in Seq(Events(W)) /\ DOMAIN r = 1 .. Len(q) - 1
      /\ \A i \in 1 .. Len(q) - 1 : r[i] = q[i + 1]
      /\ Head(q) = q[1]
  OBVIOUS
<1> HIDE DEF r
<1>2. Sorted(r)
  <2> SUFFICES ASSUME NEW i \in DOMAIN r, NEW j \in DOMAIN r, i < j
               PROVE  r[i].wait <= r[j].wait
    BY DEF Sorted
  <2>1. i + 1 \in DOMAIN q /\ j + 1 \in DOMAIN q /\ i + 1 < j + 1
    BY <1>1
  <2> QED
    BY <1>1, <2>1 DEF Sorted
<1>3. ASSUME NEW i \in DOMAIN q, i # 1 PROVE \E j \in DOMAIN r : r[j] = q[i]
  <2>1. i - 1 \in DOMAIN r /\ (i - 1) + 1 = i
    BY <1>1, <1>3
  <2> QED
    BY <1>1, <2>1
<1> QED
  BY <1>1, <1>2, <1>3 DEF r

(* ... or time passes.                                                     *)
LEMMA ElapseKeeps ==
  ASSUME NEW W, NEW q \in Seq(Events(W)), Sorted(q), q # <<>>, Head(q).wait > 0
  PROVE  /\ Elapse(q) \in Seq(Events(W)) /\ Sorted(Elapse(q))
         /\ DOMAIN Elapse(q) = DOMAIN q
         /\ \A i \in DOMAIN q : Elapse(q)[i].what = q[i].what
<1>1. /\ DOMAIN q = 1 .. Len(q) /\ Len(q) \in Nat
      /\ \A i \in DOMAIN q : q[i] \in Events(W) /\ q[i].wait \in Nat /\ q[i].what \in W
  BY EventFacts
<1>2. 1 \in DOMAIN q /\ Head(q) = q[1]
  OBVIOUS
<1>3. \A i \in DOMAIN q : q[i].wait > 0
  <2>1. \A i \in DOMAIN q : i = 1 \/ 1 < i
    BY <1>1
  <2>2. \A i \in DOMAIN q : q[1].wait <= q[i].wait
    BY <1>1, <1>2, <2>1 DEF Sorted
  <2> QED
    BY <1>1, <1>2, <2>2
<1>4. \A e \in Events(W) : e.wait > 0 =>
        /\ [e EXCEPT !.wait = @ - 1] \in Events(W)
        /\ [e EXCEPT !.wait = @ - 1].wait = e.wait - 1
        /\ [e EXCEPT !.wait = @ - 1].what = e.what
  BY DEF Events
<1> DEFINE r == Elapse(q)
<1>5. /\ DOMAIN r = DOMAIN q
      /\ \A i \in DOMAIN q : r[i] = [q[i] EXCEPT !.wait = @ - 1]
  BY DEF Elapse
<1>6. r \in [1 .. Len(q) -> Events(W)]
  <2>1. r = [i \in 1 .. Len(q) |-> [q[i] EXCEPT !.wait = @ - 1]]
    BY <1>1 DEF Elapse
  <2>2. \A i \in 1 .. Len(q) : [q[i] EXCEPT !.wait = @ - 1] \in Events(W)
    BY <1>1, <1>3, <1>4
  <2> HIDE DEF r
  <2> QED
    BY <2>1, <2>2
<1> HIDE DEF r
<1>7. r \in Seq(Events(W))
  BY <1>1, <1>6
<1>8. \A i \in DOMAIN q : r[i].wait = q[i].wait - 1 /\ r[i].what = q[i].what
  BY <1>1, <1>3, <1>4, <1>5
<1>9. Sorted(r)
  BY <1>1, <1>5, <1>8 DEF Sorted
<1> QED
  BY <1>5, <1>7, <1>8, <1>9 DEF r

-----------------------------------------------------------------------------
(* The path.                                                               *)

(* Numbers of the packets a host has transmitted.                          *)
Numbers(h) == 1 .. transmitted[h]

HostsOK ==
  /\ transmitter \in [Hosts -> {"READY", "BUSY"}]
  /\ DOMAIN queue = Hosts /\ DOMAIN received = Hosts
  /\ \A h \in Hosts :
       /\ queue[h] \in Seq(Numbers(h)) /\ Len(queue[h]) <= QueueLimit
       /\ received[h] \in Seq(Numbers(h))
       /\ transmitted[h] \in Nat /\ traced[h] \in Nat
       /\ transmitted[h] <= traced[h] /\ traced[h] <= MaxPackets

EventsOK == events \in Seq(Events(Whats)) /\ Sorted(events)

(* What is queued waits for a busy transmitter, and a busy transmitter for *)
(* the end of a transmission.                                              *)
Scheduled(h) == Holds(events, TransmitComplete(h))

QueueIsServed ==
  \A h \in Hosts :
    /\ queue[h] # <<>> => transmitter[h] = "BUSY"
    /\ transmitter[h] = "BUSY" => Scheduled(h)

PathInv ==
  HostsOK /\ EventsOK /\ QueueIsServed /\ delay \in Delays /\ stopped \in BOOLEAN

LEMMA PathPorts == PathSpec => Spec
<1>1. PathInit => Init
  BY DEF PathInit
<1>2. [PathNext]_pathVars => [Next]_vars
  <2>1. UNCHANGED pathVars => UNCHANGED vars
    BY DEF pathVars
  <2>2. \A h \in Hosts : Transmit(h) => Next
    BY DEF Transmit, Next
  <2>3. Pass \/ ProcessOneEvent => UNCHANGED vars
    BY DEF Pass, ProcessOneEvent, StopSimulation, Complete, Arrive, HandOn
  <2> QED
    BY <2>1, <2>2, <2>3 DEF PathNext
<1> QED
  BY <1>1, <1>2, PTL DEF PathSpec, Spec

LEMMA WhatsFacts ==
  /\ Stop \in Whats
  /\ \A h \in Hosts :
       /\ TransmitComplete(h) \in Whats /\ TransmitComplete(h) # Stop
       /\ \A n \in 1 .. MaxPackets : Receive(h, n) \in Whats /\ ForwardUp(h, n) \in Whats
       /\ \A g, n : TransmitComplete(h) # Receive(g, n) /\ TransmitComplete(h) # ForwardUp(g, n)
<1>1. \A h, g, n : /\ TransmitComplete(h).type = "TransmitComplete"
                   /\ Receive(g, n).type = "Receive" /\ ForwardUp(g, n).type = "ForwardUp"
                   /\ Stop.type = "Stop"
  BY DEF TransmitComplete, Receive, ForwardUp, Stop
<1>2. \A h, g, n : /\ TransmitComplete(h) # Receive(g, n)
                   /\ TransmitComplete(h) # ForwardUp(g, n) /\ TransmitComplete(h) # Stop
  BY <1>1
<1> QED
  BY <1>2 DEF Whats

LEMMA MoreNumbers ==
  ASSUME NEW m \in Nat, NEW n \in Nat, m <= n, NEW q \in Seq(1 .. m)
  PROVE  q \in Seq(1 .. n)
<1>1. 1 .. m \subseteq 1 .. n
  OBVIOUS
<1> QED
  BY <1>1, SeqMonotonic

LEMMA NextEvent ==
  ASSUME EventsOK, NEW what, IsNext(events, what)
  PROVE  /\ events # <<>> /\ Head(events).what = what
         /\ Tail(events) \in Seq(Events(Whats)) /\ Sorted(Tail(events))
         /\ \A w : Holds(events, w) /\ w # what => Holds(Tail(events), w)
<1>1. events # <<>> /\ Head(events).what = what
  BY DEF IsNext, Event
<1> QED
  BY <1>1, TailKeeps DEF EventsOK, Holds

(* A transmission adds its end and the arrival of its packet.              *)
LEMMA TransmitStartKeeps ==
  ASSUME NEW agenda \in Seq(Events(Whats)), Sorted(agenda), delay \in Delays,
         NEW h \in Hosts, NEW n \in 1 .. MaxPackets, TransmitStart(h, n, agenda)
  PROVE  EventsOK' /\ Scheduled(h)' /\ Keeps(agenda, events')
<1>1. PICK txTime \in TxTimes :
        events' = Schedule(Schedule(agenda, txTime, TransmitComplete(h)),
                           txTime + delay, Receive(h, n))
  BY DEF TransmitStart
<1> DEFINE e == Schedule(agenda, txTime, TransmitComplete(h))
<1>2. /\ txTime \in Nat /\ txTime + delay \in Nat
      /\ TransmitComplete(h) \in Whats /\ Receive(h, n) \in Whats
  BY PathAssumption, WhatsFacts
<1>3. /\ e \in Seq(Events(Whats)) /\ Sorted(e)
      /\ Keeps(agenda, e) /\ Holds(e, TransmitComplete(h))
  BY <1>2, ScheduleKeeps
<1>4. events' = Schedule(e, txTime + delay, Receive(h, n))
  BY <1>1
<1> HIDE DEF e
<1>5. events' \in Seq(Events(Whats)) /\ Sorted(events') /\ Keeps(e, events')
  BY <1>2, <1>3, <1>4, ScheduleKeeps
<1>6. EventsOK'
  BY <1>5 DEF EventsOK, Whats, Events, Sorted
<1> QED
  BY <1>3, <1>5, <1>6 DEF Keeps, Scheduled

(* SendPacket counts its packet, and hands at most one to IP.              *)
LEMMA SendPacketCounts ==
  ASSUME PortsInv, HostsOK, NEW h \in Hosts, SendPacket(h)
  PROVE  /\ transmitted'[h] \in {transmitted[h], transmitted[h] + 1}
         /\ \A g \in Hosts :
              /\ g # h => transmitted'[g] = transmitted[g]
              /\ transmitted[g] \in Nat /\ transmitted'[g] \in Nat
              /\ transmitted[g] <= transmitted'[g]
              /\ traced'[g] \in Nat /\ traced'[g] <= MaxPackets
<1>1. /\ traced \in [Hosts -> Nat] /\ transmitted \in [Hosts -> Nat]
      /\ traced[h] < MaxPackets /\ MaxPackets \in Nat
      /\ traced' = [traced EXCEPT ![h] = @ + 1]
      /\ transmitted' = transmitted \/ transmitted' = [transmitted EXCEPT ![h] = @ + 1]
  BY PortsAssumption DEF PortsInv, SendPacket
<1>2. /\ transmitted'[h] \in {transmitted[h], transmitted[h] + 1}
      /\ traced'[h] = traced[h] + 1 /\ traced[h] \in Nat /\ transmitted[h] \in Nat
  BY <1>1
<1>3. \A g \in Hosts : g # h =>
        /\ transmitted'[g] = transmitted[g] /\ traced'[g] = traced[g]
        /\ transmitted[g] \in Nat /\ traced[g] \in Nat /\ traced[g] <= MaxPackets
  BY <1>1 DEF HostsOK
<1>4. \A g \in Hosts :
        /\ transmitted[g] \in Nat /\ transmitted'[g] \in Nat
        /\ transmitted[g] <= transmitted'[g]
        /\ traced'[g] \in Nat /\ traced'[g] <= MaxPackets
  BY <1>1, <1>2, <1>3
<1> QED
  BY <1>2, <1>3, <1>4

LEMMA EnqueueFacts ==
  ASSUME NEW S, NEW q \in Seq(S), NEW e \in S
  PROVE  /\ Append(q, e) \in Seq(S) /\ Append(q, e) # <<>>
         /\ Len(Append(q, e)) = Len(q) + 1 /\ Len(q) \in Nat
         /\ q = <<>> => Append(q, e) = <<e>>
<1>1. Append(<<>>, e) = <<e>>
  OBVIOUS
<1>2. /\ Append(q, e) \in Seq(S) /\ Len(Append(q, e)) = Len(q) + 1 /\ Len(q) \in Nat
  OBVIOUS
<1>3. Append(q, e) # <<>>
  BY <1>2
<1> QED
  BY <1>1, <1>2, <1>3

(* The hosts' state when one device's queue changes.                       *)
LEMMA HostsStay ==
  ASSUME HostsOK, NEW h \in Hosts, NEW s \in {"READY", "BUSY"},
         UNCHANGED <<transmitted, traced, received>>,
         transmitter' = [transmitter EXCEPT ![h] = s],
         \/ UNCHANGED queue
         \/ queue[h] # <<>> /\ queue' = [queue EXCEPT ![h] = Tail(@)]
  PROVE  HostsOK'
<1>1. ASSUME queue[h] # <<>>
      PROVE  Tail(queue[h]) \in Seq(Numbers(h)) /\ Len(Tail(queue[h])) <= QueueLimit
  <2>1. /\ queue[h] \in Seq(Numbers(h)) /\ Len(queue[h]) \in Nat
        /\ Len(queue[h]) <= QueueLimit /\ QueueLimit \in Nat
    BY PathAssumption, SequenceFacts DEF HostsOK
  <2>2. Tail(queue[h]) \in Seq(Numbers(h)) /\ Len(Tail(queue[h])) = Len(queue[h]) - 1
    BY <1>1, <2>1, HeadTailProperties
  <2> QED
    BY <2>1, <2>2
<1>2. transmitter' \in [Hosts -> {"READY", "BUSY"}]
  BY DEF HostsOK
<1>3. \A g \in Hosts : queue'[g] \in {queue[g]} \/ (g = h /\ queue[h] # <<>> /\ queue'[g] = Tail(queue[h]))
  BY DEF HostsOK
<1>4. DOMAIN queue' = Hosts
  BY DEF HostsOK
<1> QED
  BY <1>1, <1>2, <1>3, <1>4 DEF HostsOK, Numbers

LEMMA SameHosts ==
  ASSUME HostsOK, UNCHANGED <<vars, transmitter, queue, received>>
  PROVE  HostsOK'
BY DEF HostsOK, Numbers, vars

LEMMA TransmitKeeps ==
  ASSUME PathInv, PortsInv, PortsInv', NEW h \in Hosts, Transmit(h)
  PROVE  PathInv'
<1>1. /\ SendPacket(h) /\ UNCHANGED <<received, delay, stopped>>
      /\ HostsOK /\ EventsOK /\ QueueIsServed /\ delay \in Delays
  BY DEF Transmit, PathInv
<1>2. /\ transmitted'[h] \in {transmitted[h], transmitted[h] + 1}
      /\ \A g \in Hosts :
           /\ g # h => transmitted'[g] = transmitted[g]
           /\ transmitted[g] \in Nat /\ transmitted'[g] \in Nat
           /\ transmitted[g] <= transmitted'[g]
           /\ traced'[g] \in Nat /\ traced'[g] <= MaxPackets
           /\ transmitted'[g] <= traced'[g]
  <2>1. \A g \in Hosts :
          /\ traced'[g] \in Nat
          /\ transmitted'[g] = IF traced'[g] <= Size THEN traced'[g] ELSE Size
    BY DEF PortsInv, Size
  <2>2. \A g \in Hosts : transmitted'[g] <= traced'[g]
    BY <2>1, SizeIsPositive
  <2> QED
    BY <1>1, <2>2, SendPacketCounts
<1>3. \A g \in Hosts :
        /\ queue[g] \in Seq(Numbers(g)') /\ Len(queue[g]) <= QueueLimit
        /\ received'[g] \in Seq(Numbers(g)')
  <2> SUFFICES ASSUME NEW g \in Hosts
               PROVE  /\ queue[g] \in Seq(Numbers(g)') /\ Len(queue[g]) <= QueueLimit
                      /\ received'[g] \in Seq(Numbers(g)')
    OBVIOUS
  <2>1. queue[g] \in Seq(1 .. transmitted[g]) /\ received[g] \in Seq(1 .. transmitted[g])
    BY <1>1 DEF HostsOK, Numbers
  <2>2. /\ transmitted[g] \in Nat /\ transmitted'[g] \in Nat
        /\ transmitted[g] <= transmitted'[g]
    BY <1>2
  <2>3. queue[g] \in Seq(1 .. transmitted'[g]) /\ received[g] \in Seq(1 .. transmitted'[g])
    BY <2>1, <2>2, MoreNumbers
  <2> QED
    BY <1>1, <2>3 DEF HostsOK, Numbers
<1> DEFINE n == transmitted'[h]
           Goal == /\ transmitter' \in [Hosts -> {"READY", "BUSY"}] /\ DOMAIN queue' = Hosts
                   /\ \A g \in Hosts :
                        queue'[g] \in Seq(Numbers(g)') /\ Len(queue'[g]) <= QueueLimit
                   /\ EventsOK' /\ QueueIsServed'
<1> SUFFICES Goal
  BY <1>1, <1>2, <1>3 DEF PathInv, HostsOK
<1>4. CASE UNCHANGED <<events, transmitter, queue>>
  <2>1. EventsOK'
    BY <1>1, <1>4 DEF EventsOK, Whats, Events, Sorted
  <2>2. QueueIsServed'
    BY <1>1, <1>4 DEF QueueIsServed, Scheduled
  <2> QED
    BY <1>1, <1>3, <1>4, <2>1, <2>2 DEF HostsOK
<1>5. CASE transmitted'[h] > transmitted[h] /\ DeviceSend(h, n)
  <2>1. n \in 1 .. MaxPackets /\ n \in Numbers(h)' /\ queue[h] \in Seq(Numbers(h)')
    <3>1. n \in Nat /\ n >= 1 /\ n <= MaxPackets
      BY <1>2, <1>5, PortsAssumption
    <3> QED
      BY <1>3, <3>1, PortsAssumption DEF Numbers
  <2> DEFINE longer == Append(queue[h], n)
  <2>2. /\ longer \in Seq(Numbers(h)') /\ longer # <<>>
        /\ Head(longer) \in Numbers(h)' /\ Tail(longer) \in Seq(Numbers(h)')
        /\ Len(longer) = Len(queue[h]) + 1 /\ Len(Tail(longer)) = Len(queue[h])
        /\ Len(queue[h]) \in Nat
        /\ queue[h] = <<>> => Tail(longer) = <<>> /\ Head(longer) = n
    <3>1. /\ longer \in Seq(Numbers(h)') /\ longer # <<>>
          /\ Len(longer) = Len(queue[h]) + 1 /\ Len(queue[h]) \in Nat
          /\ queue[h] = <<>> => longer = <<n>>
      BY <2>1, EnqueueFacts
    <3> HIDE DEF longer, n
    <3>2. /\ Head(longer) \in Numbers(h)' /\ Tail(longer) \in Seq(Numbers(h)')
          /\ Len(Tail(longer)) = Len(longer) - 1
      BY <3>1, HeadTailProperties
    <3>3. longer = <<n>> => Tail(longer) = <<>> /\ Head(longer) = n
      OBVIOUS
    <3> QED
      BY <3>1, <3>2, <3>3
  <2>3. \A m \in Numbers(h)' : m \in 1 .. MaxPackets
    BY <1>2, PortsAssumption DEF Numbers
  <2>4. \A g \in Hosts : queue[g] \in Seq(Numbers(g)') /\ Len(queue[g]) <= QueueLimit
    BY <1>3
  <2>5. QueueLimit \in Nat /\ DOMAIN queue = Hosts
    BY <1>1, PathAssumption DEF HostsOK
  <2> HIDE DEF n, longer
  <2>6. CASE /\ transmitter[h] = "READY" /\ HasRoom(queue[h])
             /\ TransmitStart(h, Head(longer), events)
             /\ queue' = [queue EXCEPT ![h] = Tail(longer)]
    <3>1. EventsOK' /\ Scheduled(h)' /\ Keeps(events, events')
      BY <1>1, <2>2, <2>3, <2>6, TransmitStartKeeps DEF EventsOK
    <3>2. transmitter' = [transmitter EXCEPT ![h] = "BUSY"]
      BY <2>6 DEF TransmitStart
    <3>3. /\ transmitter' \in [Hosts -> {"READY", "BUSY"}] /\ transmitter'[h] = "BUSY"
          /\ \A g \in Hosts : g # h => transmitter'[g] = transmitter[g]
      BY <1>1, <3>2 DEF HostsOK
    <3>4. /\ DOMAIN queue' = Hosts /\ queue'[h] = Tail(longer)
          /\ \A g \in Hosts : g # h => queue'[g] = queue[g]
      BY <2>5, <2>6
    <3>5. \A g \in Hosts : Scheduled(g) => Scheduled(g)'
      BY <3>1 DEF Keeps, Scheduled
    <3>6. QueueIsServed'
      BY <1>1, <3>1, <3>3, <3>4, <3>5 DEF QueueIsServed
    <3>7. Len(Tail(longer)) <= QueueLimit
      BY <2>2, <2>4
    <3> QED
      BY <2>2, <2>4, <3>1, <3>3, <3>4, <3>6, <3>7
  <2>7. CASE /\ transmitter[h] = "BUSY" /\ HasRoom(queue[h])
             /\ queue' = [queue EXCEPT ![h] = longer]
             /\ UNCHANGED <<events, transmitter>>
    <3>1. /\ DOMAIN queue' = Hosts /\ queue'[h] = longer
          /\ \A g \in Hosts : g # h => queue'[g] = queue[g]
      BY <2>5, <2>7
    <3>2. Len(longer) <= QueueLimit
      BY <2>2, <2>5, <2>7 DEF HasRoom
    <3>3. EventsOK'
      BY <1>1, <2>7 DEF EventsOK, Whats, Events, Sorted
    <3>4. QueueIsServed'
      BY <1>1, <2>7, <3>1 DEF QueueIsServed, Scheduled
    <3> QED
      BY <1>1, <2>2, <2>4, <2>7, <3>1, <3>2, <3>3, <3>4 DEF HostsOK
  <2>8. CASE ~HasRoom(queue[h]) /\ UNCHANGED <<events, transmitter, queue>>
    BY <1>4, <2>8
  <2> QED
    BY <1>5, <2>5, <2>6, <2>7, <2>8 DEF DeviceSend, longer
<1> QED
  BY <1>4, <1>5 DEF Transmit

LEMMA CompleteKeeps ==
  ASSUME PathInv, NEW h \in Hosts, Complete(h)
  PROVE  PathInv'
<1>1. /\ UNCHANGED <<vars, received, delay, stopped>>
      /\ IsNext(events, TransmitComplete(h))
      /\ HostsOK /\ EventsOK /\ QueueIsServed /\ delay \in Delays /\ stopped \in BOOLEAN
  BY DEF Complete, PathInv
<1>2. /\ Tail(events) \in Seq(Events(Whats)) /\ Sorted(Tail(events))
      /\ \A w : Holds(events, w) /\ w # TransmitComplete(h) => Holds(Tail(events), w)
  BY <1>1, NextEvent
<1>3. \A g \in Hosts : g # h /\ Scheduled(g) => Holds(Tail(events), TransmitComplete(g))
  <2>1. \A g \in Hosts : g # h => TransmitComplete(g) # TransmitComplete(h)
    <3>1. \A g : TransmitComplete(g).host = g
      BY DEF TransmitComplete
    <3> QED
      BY <3>1
  <2> QED
    BY <1>2, <2>1 DEF Scheduled
<1>4. DOMAIN queue = Hosts /\ DOMAIN transmitter = Hosts
  BY <1>1 DEF HostsOK
<1> SUFFICES HostsOK' /\ EventsOK' /\ QueueIsServed'
  BY <1>1 DEF PathInv
<1>5. CASE /\ queue[h] # <<>>
           /\ TransmitStart(h, Head(queue[h]), Tail(events))
           /\ queue' = [queue EXCEPT ![h] = Tail(@)]
  <2>1. Head(queue[h]) \in 1 .. MaxPackets
    <3>1. queue[h] \in Seq(Numbers(h))
      BY <1>1 DEF HostsOK
    <3>2. Head(queue[h]) \in Numbers(h)
      BY <1>5, <3>1, HeadTailProperties
    <3>3. \A m \in Numbers(h) : m \in 1 .. MaxPackets
      BY <1>1, PortsAssumption DEF HostsOK, Numbers
    <3> QED
      BY <3>2, <3>3
  <2>2. EventsOK' /\ Scheduled(h)' /\ Keeps(Tail(events), events')
    BY <1>1, <1>2, <1>5, <2>1, TransmitStartKeeps
  <2>3. transmitter' = [transmitter EXCEPT ![h] = "BUSY"]
    BY <1>5 DEF TransmitStart
  <2>4. HostsOK'
    BY <1>1, <1>5, <2>3, HostsStay DEF vars
  <2>5. \A g \in Hosts : g # h => queue'[g] = queue[g] /\ transmitter'[g] = transmitter[g]
    BY <1>4, <1>5, <2>3
  <2>6. \A g \in Hosts : Scheduled(g) => Scheduled(g)'
    BY <1>3, <2>2 DEF Keeps, Scheduled
  <2>7. transmitter'[h] = "BUSY"
    BY <1>4, <2>3
  <2>8. QueueIsServed'
    BY <1>1, <2>2, <2>5, <2>6, <2>7 DEF QueueIsServed
  <2> QED
    BY <2>2, <2>4, <2>8
<1>6. CASE /\ queue[h] = <<>>
           /\ transmitter' = [transmitter EXCEPT ![h] = "READY"]
           /\ events' = Tail(events)
           /\ UNCHANGED queue
  <2>1. HostsOK'
    BY <1>1, <1>6, HostsStay DEF vars
  <2>2. EventsOK'
    BY <1>2, <1>6 DEF EventsOK, Whats, Events, Sorted
  <2>3. transmitter'[h] = "READY" /\ \A g \in Hosts : g # h => transmitter'[g] = transmitter[g]
    BY <1>4, <1>6
  <2>4. \A g \in Hosts : g # h /\ Scheduled(g) => Scheduled(g)'
    BY <1>3, <1>6 DEF Scheduled
  <2>5. QueueIsServed'
    BY <1>1, <1>6, <2>3, <2>4 DEF QueueIsServed
  <2> QED
    BY <2>1, <2>2, <2>5
<1> QED
  BY <1>5, <1>6 DEF Complete

LEMMA ArriveKeeps ==
  ASSUME PathInv, NEW h \in Hosts, Arrive(h)
  PROVE  PathInv'
<1>1. PICK n \in 1 .. transmitted[h] :
        /\ IsNext(events, Receive(h, n))
        /\ events' = Schedule(Tail(events), 0, ForwardUp(h, n))
  BY DEF Arrive
<1>2. /\ UNCHANGED <<vars, transmitter, queue, received, delay, stopped>>
      /\ HostsOK /\ EventsOK /\ QueueIsServed /\ delay \in Delays /\ stopped \in BOOLEAN
  BY DEF Arrive, PathInv
<1>3. /\ Tail(events) \in Seq(Events(Whats)) /\ Sorted(Tail(events))
      /\ \A w : Holds(events, w) /\ w # Receive(h, n) => Holds(Tail(events), w)
  BY <1>1, <1>2, NextEvent
<1>4. ForwardUp(h, n) \in Whats
  <2>1. n \in 1 .. MaxPackets
    BY <1>2, PortsAssumption DEF HostsOK
  <2> QED
    BY <2>1, WhatsFacts
<1>5. events' \in Seq(Events(Whats)) /\ Sorted(events') /\ Keeps(Tail(events), events')
  BY <1>1, <1>3, <1>4, ScheduleKeeps
<1>6. EventsOK'
  BY <1>5 DEF EventsOK, Whats, Events, Sorted
<1>7. \A g \in Hosts : Scheduled(g) => Scheduled(g)'
  BY <1>3, <1>5, WhatsFacts DEF Keeps, Scheduled
<1>8. QueueIsServed'
  BY <1>2, <1>7 DEF QueueIsServed
<1> QED
  BY <1>2, <1>6, <1>8, SameHosts DEF PathInv

LEMMA HandOnKeeps ==
  ASSUME PathInv, NEW h \in Hosts, HandOn(h)
  PROVE  PathInv'
<1>1. PICK n \in 1 .. transmitted[h] :
        /\ IsNext(events, ForwardUp(h, n))
        /\ received' = [received EXCEPT ![h] = Append(@, n)]
  BY DEF HandOn
<1>2. /\ UNCHANGED <<vars, transmitter, queue, delay, stopped>> /\ events' = Tail(events)
      /\ HostsOK /\ EventsOK /\ QueueIsServed /\ delay \in Delays /\ stopped \in BOOLEAN
  BY DEF HandOn, PathInv
<1>3. /\ Tail(events) \in Seq(Events(Whats)) /\ Sorted(Tail(events))
      /\ \A w : Holds(events, w) /\ w # ForwardUp(h, n) => Holds(Tail(events), w)
  BY <1>1, <1>2, NextEvent
<1>4. EventsOK'
  BY <1>2, <1>3 DEF EventsOK, Whats, Events, Sorted
<1>5. \A g \in Hosts : Scheduled(g) => Scheduled(g)'
  BY <1>2, <1>3, WhatsFacts DEF Scheduled
<1>6. QueueIsServed'
  BY <1>2, <1>5 DEF QueueIsServed
<1>7. DOMAIN received' = Hosts /\ \A g \in Hosts : received'[g] \in Seq(Numbers(g))
  <2>1. received[h] \in Seq(Numbers(h)) /\ n \in Numbers(h)
    BY <1>2 DEF HostsOK, Numbers
  <2>2. Append(received[h], n) \in Seq(Numbers(h))
    BY <2>1, EnqueueFacts
  <2> QED
    BY <1>1, <1>2, <2>2 DEF HostsOK
<1>8. HostsOK'
  BY <1>2, <1>7 DEF HostsOK, Numbers, vars
<1> QED
  BY <1>2, <1>4, <1>6, <1>8 DEF PathInv

LEMMA StopKeeps ==
  ASSUME PathInv, StopSimulation
  PROVE  PathInv'
<1>1. /\ UNCHANGED <<vars, transmitter, queue, received, delay>>
      /\ events' = Tail(events) /\ stopped' = TRUE /\ IsNext(events, Stop)
      /\ HostsOK /\ EventsOK /\ QueueIsServed /\ delay \in Delays
  BY DEF StopSimulation, PathInv
<1>2. /\ Tail(events) \in Seq(Events(Whats)) /\ Sorted(Tail(events))
      /\ \A w : Holds(events, w) /\ w # Stop => Holds(Tail(events), w)
  BY <1>1, NextEvent
<1>3. EventsOK'
  BY <1>1, <1>2 DEF EventsOK, Whats, Events, Sorted
<1>4. \A g \in Hosts : Scheduled(g) => Scheduled(g)'
  BY <1>1, <1>2, WhatsFacts DEF Scheduled
<1>5. QueueIsServed'
  BY <1>1, <1>4 DEF QueueIsServed
<1> QED
  BY <1>1, <1>3, <1>5, SameHosts DEF PathInv

LEMMA PassKeeps ==
  ASSUME PathInv, Pass
  PROVE  PathInv'
<1>1. /\ UNCHANGED <<vars, transmitter, queue, received, delay, stopped>>
      /\ events' = Elapse(events) /\ events # <<>> /\ Head(events).wait > 0
      /\ HostsOK /\ EventsOK /\ QueueIsServed /\ delay \in Delays /\ stopped \in BOOLEAN
  BY DEF Pass, PathInv
<1>2. /\ events' \in Seq(Events(Whats)) /\ Sorted(events')
      /\ DOMAIN events' = DOMAIN events
      /\ \A i \in DOMAIN events : events'[i].what = events[i].what
  BY <1>1, ElapseKeeps DEF EventsOK
<1>3. EventsOK'
  BY <1>2 DEF EventsOK, Whats, Events, Sorted
<1>4. Keeps(events, events')
  BY <1>2 DEF Keeps, Holds
<1>5. QueueIsServed'
  BY <1>1, <1>4 DEF QueueIsServed, Scheduled, Keeps
<1> QED
  BY <1>1, <1>3, <1>5, SameHosts DEF PathInv

LEMMA PathStart == PathInit => PathInv
<1> SUFFICES ASSUME PathInit
             PROVE  PathInv
  OBVIOUS
<1>1. /\ Init /\ delay \in Delays /\ stopped = FALSE
      /\ events \in {<<>>} \cup {<<Event(t, Stop)>> : t \in StopTimes}
      /\ transmitter = [h \in Hosts |-> "READY"]
      /\ queue = [h \in Hosts |-> <<>>] /\ received = [h \in Hosts |-> <<>>]
  BY DEF PathInit
<1>2. EventsOK
  <2>1. CASE events = <<>>
    BY <2>1 DEF EventsOK, Sorted
  <2>2. ASSUME NEW t \in StopTimes, events = <<Event(t, Stop)>>
        PROVE  EventsOK
    <3>1. Event(t, Stop) \in Events(Whats)
      BY PathAssumption, WhatsFacts DEF Event, Events
    <3> DEFINE e == Event(t, Stop)
    <3> HIDE DEF e
    <3>2. <<e>> \in Seq(Events(Whats)) /\ Sorted(<<e>>)
      BY <3>1 DEF e, Sorted
    <3> QED
      BY <2>2, <3>2 DEF EventsOK, e
  <2> QED
    BY <1>1, <2>1, <2>2
<1>3. QueueIsServed
  BY <1>1 DEF QueueIsServed
<1>4. HostsOK
  BY <1>1, PathAssumption, PortsAssumption DEF HostsOK, Numbers, Init
<1> QED
  BY <1>1, <1>2, <1>3, <1>4 DEF PathInv

LEMMA PathInvariance == PathSpec => []PathInv
<1>1. PathInv /\ PortsInv /\ PortsInv' /\ [PathNext]_pathVars => PathInv'
  <2> SUFFICES ASSUME PathInv, PortsInv, PortsInv', [PathNext]_pathVars
               PROVE  PathInv'
    OBVIOUS
  <2>1. CASE UNCHANGED pathVars
    <3>1. UNCHANGED <<vars, transmitter, queue, received, events, delay, stopped>>
      BY <2>1 DEF pathVars
    <3>2. EventsOK' /\ QueueIsServed'
      BY <3>1 DEF PathInv, EventsOK, Whats, Events, Sorted, QueueIsServed, Scheduled
    <3> QED
      BY <3>1, <3>2, SameHosts DEF PathInv
  <2>2. ASSUME NEW h \in Hosts, Transmit(h)
        PROVE  PathInv'
    BY <2>2, TransmitKeeps
  <2>3. CASE ProcessOneEvent
    BY <2>3, StopKeeps, CompleteKeeps, ArriveKeeps, HandOnKeeps DEF ProcessOneEvent
  <2>4. CASE Pass
    BY <2>4, PassKeeps
  <2> QED
    BY <2>1, <2>2, <2>3, <2>4 DEF PathNext
<1> QED
  BY <1>1, PathStart, PathPorts, PortsInvariance, PTL DEF PathSpec

(* In the event queue of the simulator (map-scheduler.cc:55) the events    *)
(* stay in the order of their times, however many hosts, transmission      *)
(* times and delays put them there; a transmit queue keeps its limit, and  *)
(* only transmitted packets are queued or received.                        *)
THEOREM PathTypeCorrect == PathSpec => []PathTypeOK
<1>1. PathInv => PathTypeOK
  BY DEF PathInv, HostsOK, EventsOK, Sorted, Events, Numbers, PathTypeOK
<1> QED
  BY <1>1, PathInvariance, PTL

(* No packet is left behind in a transmit queue: as long as a device has   *)
(* one queued its transmitter is busy, and the end of its transmission, on *)
(* which the next packet is taken from the queue                           *)
(* (point-to-point-net-device.cc:255), is an event of the simulator.       *)
THEOREM NothingIsLeftBehind == PathSpec => []QueueIsServed
<1>1. PathInv => QueueIsServed
  BY DEF PathInv
<1> QED
  BY <1>1, PathInvariance, PTL

-----------------------------------------------------------------------------
(* The order of the events.                                                *)

Before(q, v, w) == \E i, j \in DOMAIN q : i < j /\ q[i].what = v /\ q[j].what = w

Due(q, w, t) == \E i \in DOMAIN q : q[i].what = w /\ q[i].wait = t

Numbered == 1 .. MaxPackets

(* A packet of h is in the channel or about to be handed on.               *)
Travels(e, h, n) == Holds(e, Receive(h, n)) \/ Holds(e, ForwardUp(h, n))

(* The packets of h arrive and are handed on in their order.               *)
Ordered(e, h) ==
  \A m, n \in Numbered :
    /\ Before(e, Receive(h, m), Receive(h, n)) => m < n
    /\ Before(e, ForwardUp(h, m), ForwardUp(h, n)) => m < n
    /\ Holds(e, ForwardUp(h, m)) /\ Holds(e, Receive(h, n)) => m < n

Prompt(e, h) == \A n \in Numbered, t \in Nat : Due(e, ForwardUp(h, n), t) => t = 0

NotAfter(e, h, d) == \A n \in Numbered, t \in Nat : Due(e, Receive(h, n), t) => t <= d

(* A transmission ends once, and nothing arrives later than its packet.    *)
OneEnd(e, h, d) ==
  /\ ~Before(e, TransmitComplete(h), TransmitComplete(h))
  /\ \A s \in Nat : Due(e, TransmitComplete(h), s) => NotAfter(e, h, s + d)

(* The packet being transmitted is on its way as well.                     *)
Underway(e, h) == \E n \in Numbered : Before(e, TransmitComplete(h), Receive(h, n))

Increasing(q) == \A i, j \in DOMAIN q : i < j => q[i] < q[j]

(* What waits in the queue was handed over after all that travels.         *)
Behind(e, q, last, h) ==
  /\ Increasing(q)
  /\ \A n \in Numbered : Travels(e, h, n) => n <= last /\ \A i \in DOMAIN q : n < q[i]

InTurn(h) ==
  /\ Ordered(events, h) /\ Prompt(events, h) /\ OneEnd(events, h, delay)
  /\ Behind(events, queue[h], transmitted[h], h)
  /\ transmitter[h] = "READY" =>
       ~Holds(events, TransmitComplete(h)) /\ NotAfter(events, h, delay)
  /\ transmitter[h] = "BUSY" => Underway(events, h)

OrderInv == \A h \in Hosts : InTurn(h)

(* The events of M are the same in q and in r, and in the same order.      *)
SameEvents(q, r, M) ==
  \A v, w \in M :
    /\ Before(q, v, w) <=> Before(r, v, w)
    /\ Holds(q, v) <=> Holds(r, v)
    /\ \A t \in Nat : Due(q, v, t) <=> Due(r, v, t)

(* The events of a host.                                                   *)
Mine(h) ==
  {TransmitComplete(h)} \cup {Receive(h, n) : n \in Numbered}
    \cup {ForwardUp(h, n) : n \in Numbered}

(* r is q with one event more, or with its first event taken.              *)
Added(q, r, wait, what) ==
  /\ \A w : Holds(r, w) <=> Holds(q, w) \/ w = what
  /\ \A w, t : Due(r, w, t) <=> Due(q, w, t) \/ (w = what /\ t = wait)
  /\ \A v, w : Before(q, v, w) => Before(r, v, w)
  /\ \A v, w : Before(r, v, w) =>
       \/ Before(q, v, w)
       \/ w = what /\ \E t \in Nat : Due(q, v, t) /\ t <= wait
       \/ v = what /\ \E t \in Nat : Due(q, w, t) /\ t > wait
  /\ \A v : \A t \in Nat : Due(q, v, t) /\ t <= wait => Before(r, v, what)

Taken(q, r, what, wait) ==
  /\ \A w : Holds(r, w) => Holds(q, w) /\ Before(q, what, w)
  /\ \A w : Holds(q, w) => Holds(r, w) \/ w = what
  /\ \A w, t : Due(r, w, t) => Due(q, w, t)
  /\ \A w, t : Due(q, w, t) => Due(r, w, t) \/ (w = what /\ t = wait)
  /\ \A v, w : Before(r, v, w) => Before(q, v, w)
  /\ \A v, w : Before(q, v, w) /\ v # what => Before(r, v, w)

LEMMA ScheduleAdds ==
  ASSUME NEW W, NEW q \in Seq(Events(W)), Sorted(q), NEW wait \in Nat, NEW what \in W
  PROVE  Added(q, Schedule(q, wait, what), wait, what)
<1> DEFINE n == Cardinality({i \in DOMAIN q : q[i].wait <= wait})
           e == Event(wait, what)
           r == Insert(q, n, e)
           at == [i \in DOMAIN q |-> IF i <= n THEN i ELSE i + 1]
<1>1. /\ n \in 0 .. Len(q)
      /\ \A i \in DOMAIN q : q[i].wait <= wait <=> i <= n
  BY NotLater
<1>2. /\ DOMAIN q = 1 .. Len(q) /\ Len(q) \in Nat
      /\ \A i \in DOMAIN q : q[i].wait \in Nat
  BY EventFacts
<1>3. e \in Events(W) /\ e.wait = wait /\ e.what = what
  BY DEF Event, Events
<1> HIDE DEF n, e
<1>4. /\ DOMAIN r = 1 .. Len(q) + 1
      /\ \A i \in 1 .. n : r[i] = q[i]
      /\ r[n + 1] = e
      /\ \A i \in n + 1 .. Len(q) : r[i + 1] = q[i]
  BY <1>1, <1>3, InsertFacts
<1>5. Schedule(q, wait, what) = r
  BY DEF Schedule, n, e
<1> HIDE DEF r
<1>6. \A i \in DOMAIN q : at[i] \in DOMAIN r /\ r[at[i]] = q[i]
  <2> SUFFICES ASSUME NEW i \in DOMAIN q
               PROVE  at[i] \in DOMAIN r /\ r[at[i]] = q[i]
    OBVIOUS
  <2>1. CASE i <= n
    BY <1>1, <1>2, <1>4, <2>1
  <2>2. CASE ~(i <= n)
    <3>1. i \in n + 1 .. Len(q) /\ at[i] = i + 1
      BY <1>1, <1>2, <2>2
    <3> QED
      BY <1>2, <1>4, <3>1
  <2> QED
    BY <2>1, <2>2
<1>7. \A i, j \in DOMAIN q : i < j <=> at[i] < at[j]
  BY <1>1, <1>2
<1>8. \A k \in DOMAIN r : k = n + 1 \/ \E i \in DOMAIN q : at[i] = k
  <2> SUFFICES ASSUME NEW k \in DOMAIN r, k # n + 1
               PROVE  \E i \in DOMAIN q : at[i] = k
    OBVIOUS
  <2>1. CASE k <= n
    BY <1>1, <1>2, <1>4, <2>1
  <2>2. CASE ~(k <= n)
    <3>1. k - 1 \in DOMAIN q /\ ~(k - 1 <= n) /\ (k - 1) + 1 = k
      BY <1>1, <1>2, <1>4, <2>2
    <3> QED
      BY <3>1
  <2> QED
    BY <2>1, <2>2
<1>9. \A i \in DOMAIN q : /\ at[i] < n + 1 <=> q[i].wait <= wait
                          /\ n + 1 < at[i] <=> ~(q[i].wait <= wait)
  BY <1>1, <1>2
<1>10. n + 1 \in DOMAIN r /\ r[n + 1].what = what /\ r[n + 1].wait = wait /\ ~(n + 1 < n + 1)
  BY <1>1, <1>2, <1>3, <1>4
<1> HIDE DEF at
<1>11. \A w : Holds(r, w) <=> Holds(q, w) \/ w = what
  BY <1>6, <1>8, <1>10 DEF Holds
<1>12. \A w, t : Due(r, w, t) <=> Due(q, w, t) \/ (w = what /\ t = wait)
  BY <1>6, <1>8, <1>10 DEF Due
<1>13. \A v, w : Before(q, v, w) => Before(r, v, w)
  BY <1>6, <1>7 DEF Before
<1>14. ASSUME NEW v, NEW w, Before(r, v, w)
       PROVE  \/ Before(q, v, w)
              \/ w = what /\ \E t \in Nat : Due(q, v, t) /\ t <= wait
              \/ v = what /\ \E t \in Nat : Due(q, w, t) /\ t > wait
  <2>1. PICK k \in DOMAIN r, l \in DOMAIN r : k < l /\ r[k].what = v /\ r[l].what = w
    BY <1>14 DEF Before
  <2>2. CASE k = n + 1
    <3>1. v = what /\ l # n + 1
      BY <1>10, <2>1, <2>2
    <3>2. PICK j \in DOMAIN q : at[j] = l
      BY <1>8, <3>1
    <3>3. q[j].what = w /\ q[j].wait \in Nat /\ q[j].wait > wait
      BY <1>2, <1>6, <1>9, <2>1, <2>2, <3>2
    <3> QED
      BY <3>1, <3>3 DEF Due
  <2>3. CASE l = n + 1
    <3>1. w = what /\ k # n + 1
      BY <1>10, <2>1, <2>3
    <3>2. PICK i \in DOMAIN q : at[i] = k
      BY <1>8, <3>1
    <3>3. q[i].what = v /\ q[i].wait \in Nat /\ q[i].wait <= wait
      BY <1>2, <1>6, <1>9, <2>1, <2>3, <3>2
    <3> QED
      BY <3>1, <3>3 DEF Due
  <2>4. CASE k # n + 1 /\ l # n + 1
    <3>1. PICK i \in DOMAIN q, j \in DOMAIN q : at[i] = k /\ at[j] = l
      BY <1>8, <2>4
    <3> QED
      BY <1>6, <1>7, <2>1, <3>1 DEF Before
  <2> QED
    BY <2>2, <2>3, <2>4
<1>15. ASSUME NEW v, NEW t \in Nat, Due(q, v, t), t <= wait
       PROVE  Before(r, v, what)
  <2>1. PICK i \in DOMAIN q : q[i].what = v /\ q[i].wait = t
    BY <1>15 DEF Due
  <2>2. at[i] < n + 1 /\ at[i] \in DOMAIN r /\ r[at[i]].what = v
    BY <1>6, <1>9, <1>15, <2>1
  <2> QED
    BY <1>10, <2>2 DEF Before
<1> QED
  BY <1>5, <1>11, <1>12, <1>13, <1>14, <1>15 DEF Added

LEMMA TailTakes ==
  ASSUME NEW W, NEW q \in Seq(Events(W)), q # <<>>
  PROVE  Taken(q, Tail(q), Head(q).what, Head(q).wait)
<1> DEFINE r == Tail(q)
<1>1. /\ DOMAIN q = 1 .. Len(q) /\ Len(q) \in Nat /\ DOMAIN r = 1 .. Len(q) - 1
      /\ \A i \in 1 .. Len(q) - 1 : r[i] = q[i + 1]
      /\ 1 \in DOMAIN q /\ Head(q) = q[1]
  OBVIOUS
<1> HIDE DEF r
<1>2. \A i \in DOMAIN r : i + 1 \in DOMAIN q /\ r[i] = q[i + 1] /\ 1 < i + 1
  BY <1>1
<1>3. \A i \in DOMAIN q : i # 1 => i - 1 \in DOMAIN r /\ r[i - 1] = q[i]
  <2> SUFFICES ASSUME NEW i \in DOMAIN q, i # 1
               PROVE  i - 1 \in DOMAIN r /\ r[i - 1] = q[i]
    OBVIOUS
  <2>1. i - 1 \in DOMAIN r /\ (i - 1) + 1 = i
    BY <1>1
  <2> QED
    BY <1>2, <2>1
<1>4. \A i, j \in DOMAIN r : i < j => i + 1 < j + 1
  BY <1>1
<1>5. \A i, j \in DOMAIN q : i < j /\ i # 1 => j # 1 /\ i - 1 < j - 1
  BY <1>1
<1>6. \A w : Holds(r, w) => Holds(q, w) /\ Before(q, Head(q).what, w)
  BY <1>1, <1>2 DEF Holds, Before
<1>7. \A w : Holds(q, w) => Holds(r, w) \/ w = Head(q).what
  BY <1>1, <1>3 DEF Holds
<1>8. \A w, t : Due(r, w, t) => Due(q, w, t)
  BY <1>2 DEF Due
<1>9. \A w, t : Due(q, w, t) => Due(r, w, t) \/ (w = Head(q).what /\ t = Head(q).wait)
  BY <1>1, <1>3 DEF Due
<1>10. \A v, w : Before(r, v, w) => Before(q, v, w)
  BY <1>2, <1>4 DEF Before
<1>11. \A v, w : Before(q, v, w) /\ v # Head(q).what => Before(r, v, w)
  <2> SUFFICES ASSUME NEW v, NEW w, Before(q, v, w), v # Head(q).what
               PROVE  Before(r, v, w)
    OBVIOUS
  <2>1. PICK i \in DOMAIN q, j \in DOMAIN q : i < j /\ q[i].what = v /\ q[j].what = w
    BY DEF Before
  <2>2. i # 1
    BY <1>1, <2>1
  <2> QED
    BY <1>3, <1>5, <2>1, <2>2 DEF Before
<1> QED
  BY <1>6, <1>7, <1>8, <1>9, <1>10, <1>11 DEF Taken, r

LEMMA AddedOthers ==
  ASSUME NEW q, NEW r, NEW wait, NEW what, Added(q, r, wait, what), NEW M, what \notin M
  PROVE  SameEvents(q, r, M)
BY DEF Added, SameEvents

LEMMA TakenOthers ==
  ASSUME NEW q, NEW r, NEW what, NEW wait, Taken(q, r, what, wait), NEW M, what \notin M
  PROVE  SameEvents(q, r, M)
BY DEF Taken, SameEvents

LEMMA SameTransitive ==
  ASSUME NEW q, NEW r, NEW s, NEW M, SameEvents(q, r, M), SameEvents(r, s, M)
  PROVE  SameEvents(q, s, M)
BY DEF SameEvents

LEMMA NumbersAreNumbered ==
  ASSUME HostsOK
  PROVE  \A h \in Hosts : \A n \in 1 .. transmitted[h] : n \in Numbered
<1> SUFFICES ASSUME NEW h \in Hosts, NEW n \in 1 .. transmitted[h]
             PROVE  n \in Numbered
  OBVIOUS
<1>1. /\ transmitted[h] \in Nat /\ traced[h] \in Nat
      /\ transmitted[h] <= traced[h] /\ traced[h] <= MaxPackets
  BY DEF HostsOK
<1>2. n \in Nat /\ 1 <= n /\ n <= MaxPackets
  BY <1>1, PortsAssumption
<1> QED
  BY <1>2, PortsAssumption DEF Numbered

LEMMA EventsDiffer ==
  /\ \A g, h, m, n :
       /\ Receive(g, m) = Receive(h, n) => g = h /\ m = n
       /\ ForwardUp(g, m) = ForwardUp(h, n) => g = h /\ m = n
       /\ TransmitComplete(g) = TransmitComplete(h) => g = h
       /\ Receive(g, m) # ForwardUp(h, n)
       /\ Receive(g, m) # TransmitComplete(h) /\ ForwardUp(g, m) # TransmitComplete(h)
       /\ Receive(g, m) # Stop /\ ForwardUp(g, m) # Stop /\ TransmitComplete(g) # Stop
<1>1. \A h, n : /\ Receive(h, n).type = "Receive" /\ Receive(h, n).host = h /\ Receive(h, n).n = n
                /\ ForwardUp(h, n).type = "ForwardUp" /\ ForwardUp(h, n).host = h
                /\ ForwardUp(h, n).n = n
                /\ TransmitComplete(h).type = "TransmitComplete" /\ TransmitComplete(h).host = h
                /\ Stop.type = "Stop"
  BY DEF Receive, ForwardUp, TransmitComplete, Stop
<1>2. \A g, h, m, n :
        /\ Receive(g, m) = Receive(h, n) => g = h /\ m = n
        /\ ForwardUp(g, m) = ForwardUp(h, n) => g = h /\ m = n
        /\ TransmitComplete(g) = TransmitComplete(h) => g = h
  BY <1>1
<1>3. \A g, h, m, n :
        /\ Receive(g, m) # ForwardUp(h, n)
        /\ Receive(g, m) # TransmitComplete(h) /\ ForwardUp(g, m) # TransmitComplete(h)
        /\ Receive(g, m) # Stop /\ ForwardUp(g, m) # Stop /\ TransmitComplete(g) # Stop
  BY <1>1
<1> QED
  BY <1>2, <1>3

LEMMA MineFacts ==
  ASSUME NEW h
  PROVE  /\ TransmitComplete(h) \in Mine(h) /\ Stop \notin Mine(h)
         /\ \A n \in Numbered : Receive(h, n) \in Mine(h) /\ ForwardUp(h, n) \in Mine(h)
         /\ \A g : g # h =>
              /\ TransmitComplete(g) \notin Mine(h)
              /\ \A n : Receive(g, n) \notin Mine(h) /\ ForwardUp(g, n) \notin Mine(h)
<1>1. /\ TransmitComplete(h) \in Mine(h)
      /\ \A n \in Numbered : Receive(h, n) \in Mine(h) /\ ForwardUp(h, n) \in Mine(h)
  BY DEF Mine
<1>2. \A w \in Mine(h) : \/ w = TransmitComplete(h)
                         \/ \E n \in Numbered : w = Receive(h, n)
                         \/ \E n \in Numbered : w = ForwardUp(h, n)
  BY DEF Mine
<1>3. Stop \notin Mine(h)
  BY <1>2, EventsDiffer
<1>4. \A g : g # h => TransmitComplete(g) \notin Mine(h)
  BY <1>2, EventsDiffer
<1>5. \A g, n : g # h => Receive(g, n) \notin Mine(h) /\ ForwardUp(g, n) \notin Mine(h)
  BY <1>2, EventsDiffer
<1> QED
  BY <1>1, <1>3, <1>4, <1>5

(* All that is said of the order of a host's packets depends on its own    *)
(* events only.                                                            *)
LEMMA SameTurn ==
  ASSUME NEW h, NEW q, NEW r, SameEvents(q, r, Mine(h))
  PROVE  /\ Ordered(q, h) => Ordered(r, h)
         /\ Prompt(q, h) => Prompt(r, h)
         /\ \A d : NotAfter(q, h, d) => NotAfter(r, h, d)
         /\ \A d : OneEnd(q, h, d) => OneEnd(r, h, d)
         /\ Underway(q, h) => Underway(r, h)
         /\ \A n \in Numbered : Travels(q, h, n) <=> Travels(r, h, n)
         /\ \A p, last : Behind(q, p, last, h) => Behind(r, p, last, h)
         /\ Holds(q, TransmitComplete(h)) <=> Holds(r, TransmitComplete(h))
<1> DEFINE c == TransmitComplete(h)
           R(n) == Receive(h, n)
           F(n) == ForwardUp(h, n)
<1>1. /\ c \in Mine(h)
      /\ \A n \in Numbered : R(n) \in Mine(h) /\ F(n) \in Mine(h)
  BY MineFacts
<1>2. \A m, n \in Numbered :
        /\ Before(q, R(m), R(n)) <=> Before(r, R(m), R(n))
        /\ Before(q, F(m), F(n)) <=> Before(r, F(m), F(n))
        /\ Before(q, c, R(n)) <=> Before(r, c, R(n))
        /\ Holds(q, R(n)) <=> Holds(r, R(n))
        /\ Holds(q, F(n)) <=> Holds(r, F(n))
  BY <1>1 DEF SameEvents
<1>3. /\ Holds(q, c) <=> Holds(r, c)
      /\ Before(q, c, c) <=> Before(r, c, c)
      /\ \A t \in Nat : Due(q, c, t) <=> Due(r, c, t)
  BY <1>1 DEF SameEvents
<1>4. \A n \in Numbered : \A t \in Nat :
        /\ Due(q, R(n), t) <=> Due(r, R(n), t)
        /\ Due(q, F(n), t) <=> Due(r, F(n), t)
  BY <1>1 DEF SameEvents
<1>5. Ordered(q, h) => Ordered(r, h)
  BY <1>2 DEF Ordered
<1>6. Prompt(q, h) => Prompt(r, h)
  BY <1>4 DEF Prompt
<1>7. \A d : NotAfter(q, h, d) => NotAfter(r, h, d)
  BY <1>4 DEF NotAfter
<1>8. \A d : OneEnd(q, h, d) => OneEnd(r, h, d)
  BY <1>3, <1>7 DEF OneEnd
<1>9. Underway(q, h) => Underway(r, h)
  BY <1>2 DEF Underway
<1>10. \A n \in Numbered : Travels(q, h, n) <=> Travels(r, h, n)
  BY <1>2 DEF Travels
<1>11. \A p, last : Behind(q, p, last, h) => Behind(r, p, last, h)
  BY <1>10 DEF Behind
<1> QED
  BY <1>3, <1>5, <1>6, <1>7, <1>8, <1>9, <1>10, <1>11

(* A step that leaves a host alone leaves the order of its packets.        *)
LEMMA OthersTurn ==
  ASSUME NEW h \in Hosts, InTurn(h), SameEvents(events, events', Mine(h)),
         transmitter'[h] = transmitter[h], queue'[h] = queue[h],
         transmitted'[h] = transmitted[h], delay' = delay
  PROVE  InTurn(h)'
BY SameTurn DEF InTurn

LEMMA HoldsDue ==
  ASSUME NEW W, NEW q \in Seq(Events(W)), NEW w, Holds(q, w)
  PROVE  \E t \in Nat : Due(q, w, t)
<1>1. PICK i \in DOMAIN q : q[i].what = w
  BY DEF Holds
<1>2. q[i].wait \in Nat
  BY EventFacts
<1> QED
  BY <1>1, <1>2 DEF Due

(* No transmission is under way, and the packet was handed over after all  *)
(* that travel.                                                            *)
MayStart(e, h, n, d) ==
  /\ e \in Seq(Events(Whats)) /\ Sorted(e)
  /\ Ordered(e, h) /\ Prompt(e, h) /\ NotAfter(e, h, d) /\ ~Holds(e, TransmitComplete(h))
  /\ \A m \in Numbered : Travels(e, h, m) => m < n

Started(e, h, n, d, txTime) ==
  Schedule(Schedule(e, txTime, TransmitComplete(h)), txTime + d, Receive(h, n))

LEMMA StartInTurn ==
  ASSUME NEW agenda, NEW h \in Hosts, NEW n \in Numbered, NEW txTime \in Nat, NEW d \in Nat,
         MayStart(agenda, h, n, d)
  PROVE  LET last == Started(agenda, h, n, d, txTime) IN
         /\ Ordered(last, h) /\ Prompt(last, h) /\ OneEnd(last, h, d) /\ Underway(last, h)
         /\ \A m \in Numbered : Travels(last, h, m) <=> Travels(agenda, h, m) \/ m = n
         /\ \A g : g # h => SameEvents(agenda, last, Mine(g))
<1> DEFINE c == TransmitComplete(h)
           R(m) == Receive(h, m)
           F(m) == ForwardUp(h, m)
           a == txTime + d
           e == Schedule(agenda, txTime, c)
           last == Started(agenda, h, n, d, txTime)
<1>0. /\ agenda \in Seq(Events(Whats)) /\ Sorted(agenda)
      /\ Ordered(agenda, h) /\ Prompt(agenda, h) /\ NotAfter(agenda, h, d) /\ ~Holds(agenda, c)
      /\ \A m \in Numbered : Travels(agenda, h, m) => m < n
  BY DEF MayStart
<1>1. a \in Nat /\ c \in Whats /\ R(n) \in Whats /\ txTime <= a
  BY WhatsFacts DEF Numbered
<1>2. e \in Seq(Events(Whats)) /\ Sorted(e) /\ Added(agenda, e, txTime, c)
  BY <1>0, <1>1, ScheduleKeeps, ScheduleAdds
<1>3. Added(e, last, a, R(n))
  <2>1. last = Schedule(e, a, R(n))
    BY DEF Started
  <2> HIDE DEF e, a, last
  <2> QED
    BY <1>1, <1>2, <2>1, ScheduleAdds
<1> HIDE DEF e, a, last
<1>4. \A m, k : /\ c # R(m) /\ c # F(m) /\ R(m) # F(k)
                /\ R(m) = R(k) => m = k
  BY EventsDiffer
<1> HIDE DEF c
<1>5. \A m \in Numbered :
        /\ Holds(last, R(m)) <=> Holds(agenda, R(m)) \/ m = n
        /\ Holds(last, F(m)) <=> Holds(agenda, F(m))
  BY <1>2, <1>3, <1>4 DEF Added
<1>6. \A t : Due(last, c, t) => Due(agenda, c, t) \/ t = txTime
  BY <1>2, <1>3, <1>4 DEF Added
<1>7. \A m \in Numbered, t \in Nat :
        /\ Due(last, F(m), t) => Due(agenda, F(m), t)
        /\ Due(last, R(m), t) => Due(agenda, R(m), t) \/ t = a
        /\ Due(e, R(m), t) => Due(agenda, R(m), t)
  BY <1>2, <1>3, <1>4 DEF Added
<1>8. \A m, k \in Numbered : Before(last, F(m), F(k)) => Before(agenda, F(m), F(k))
  <2>1. \A m, k \in Numbered : Before(last, F(m), F(k)) => Before(e, F(m), F(k))
    BY <1>3, <1>4 DEF Added
  <2>2. \A m, k \in Numbered : Before(e, F(m), F(k)) => Before(agenda, F(m), F(k))
    BY <1>2, <1>4 DEF Added
  <2> QED
    BY <2>1, <2>2
<1>9. \A m \in Numbered, t \in Nat : Due(agenda, R(m), t) => t <= d /\ t <= a
  BY <1>0, <1>1 DEF NotAfter, a
<1>10. \A t \in Nat : ~Due(agenda, c, t)
  BY <1>0 DEF Due, Holds
<1>11. ASSUME NEW m \in Numbered, NEW k \in Numbered, Before(last, R(m), R(k))
       PROVE  m < k
  <2>1. \/ Before(e, R(m), R(k))
        \/ R(k) = R(n) /\ \E t \in Nat : Due(e, R(m), t)
        \/ R(m) = R(n) /\ \E t \in Nat : Due(e, R(k), t) /\ t > a
    BY <1>3, <1>11 DEF Added
  <2>2. Before(e, R(m), R(k)) => Before(agenda, R(m), R(k))
    BY <1>2, <1>4 DEF Added
  <2>3. CASE Before(agenda, R(m), R(k))
    BY <1>0, <2>3 DEF Ordered
  <2>4. ASSUME R(k) = R(n), NEW t \in Nat, Due(e, R(m), t)
        PROVE  m < k
    <3>1. Holds(agenda, R(m))
      BY <1>7, <2>4 DEF Due, Holds
    <3> QED
      BY <1>0, <1>4, <2>4, <3>1 DEF Travels
  <2>5. ASSUME NEW t \in Nat, Due(e, R(k), t), t > a
        PROVE  FALSE
    <3>1. t <= a
      BY <1>7, <1>9, <2>5
    <3> QED
      BY <1>1, <2>5, <3>1
  <2> QED
    BY <2>1, <2>2, <2>3, <2>4, <2>5
<1>12. Ordered(last, h)
  <2>1. ASSUME NEW m \in Numbered, NEW k \in Numbered, Holds(last, F(m)), Holds(last, R(k))
        PROVE  m < k
    <3>1. Holds(agenda, F(m))
      BY <1>5, <2>1
    <3>2. CASE k = n
      BY <1>0, <3>1, <3>2 DEF Travels
    <3>3. CASE Holds(agenda, R(k))
      BY <1>0, <3>1, <3>3 DEF Ordered
    <3> QED
      BY <1>5, <2>1, <3>2, <3>3
  <2>2. \A m, k \in Numbered : Before(last, F(m), F(k)) => m < k
    BY <1>0, <1>8 DEF Ordered
  <2> QED
    BY <1>11, <2>1, <2>2 DEF Ordered
<1>13. Prompt(last, h)
  BY <1>0, <1>7 DEF Prompt
<1>14. OneEnd(last, h, d)
  <2>1. ~Before(last, c, c)
    <3>1. ~Before(e, c, c)
      <4>1. ~Before(agenda, c, c)
        BY <1>0 DEF Before, Holds
      <4> QED
        BY <1>2, <1>10, <4>1 DEF Added
    <3> QED
      BY <1>3, <1>4, <3>1 DEF Added
  <2>2. ASSUME NEW s \in Nat, Due(last, c, s)
        PROVE  NotAfter(last, h, s + d)
    <3>1. s + d = a
      BY <1>6, <1>10, <2>2 DEF a
    <3>2. \A m \in Numbered, t \in Nat : Due(last, R(m), t) => t <= a
      BY <1>1, <1>7, <1>9
    <3> QED
      BY <3>1, <3>2 DEF NotAfter
  <2> QED
    BY <2>1, <2>2 DEF OneEnd, c
<1>15. Underway(last, h)
  <2>1. Due(e, c, txTime)
    BY <1>2 DEF Added
  <2>2. Before(last, c, R(n))
    BY <1>1, <1>3, <2>1 DEF Added
  <2> QED
    BY <2>2 DEF Underway, c
<1>16. \A m \in Numbered : Travels(last, h, m) <=> Travels(agenda, h, m) \/ m = n
  BY <1>5 DEF Travels
<1>17. ASSUME NEW g, g # h
       PROVE  SameEvents(agenda, last, Mine(g))
  <2>1. SameEvents(agenda, e, Mine(g))
    BY <1>2, <1>17, MineFacts, AddedOthers DEF c
  <2>2. SameEvents(e, last, Mine(g))
    BY <1>3, <1>17, MineFacts, AddedOthers
  <2> QED
    BY <2>1, <2>2, SameTransitive
<1> QED
  BY <1>12, <1>13, <1>14, <1>15, <1>16, <1>17 DEF last

-----------------------------------------------------------------------------
(* The order through each action.                                          *)

LEMMA SameReflexive ==
  ASSUME NEW q, NEW M
  PROVE  SameEvents(q, q, M)
BY DEF SameEvents

(* Taking an event disturbs nothing of what is said of the others.         *)
LEMMA TakenTurn ==
  ASSUME NEW h, NEW q, NEW r, NEW what, NEW wait, Taken(q, r, what, wait)
  PROVE  /\ Ordered(q, h) => Ordered(r, h)
         /\ Prompt(q, h) => Prompt(r, h)
         /\ \A d : NotAfter(q, h, d) => NotAfter(r, h, d)
         /\ \A d : OneEnd(q, h, d) => OneEnd(r, h, d)
         /\ \A n : Travels(r, h, n) => Travels(q, h, n)
         /\ \A n : Travels(q, h, n) =>
              \/ Travels(r, h, n)
              \/ what = Receive(h, n) \/ what = ForwardUp(h, n)
         /\ \A p, last : Behind(q, p, last, h) => Behind(r, p, last, h)
         /\ what # TransmitComplete(h) /\ Underway(q, h) => Underway(r, h)
<1>1. /\ \A w : Holds(r, w) => Holds(q, w)
      /\ \A w : Holds(q, w) => Holds(r, w) \/ w = what
      /\ \A w, t : Due(r, w, t) => Due(q, w, t)
      /\ \A v, w : Before(r, v, w) => Before(q, v, w)
      /\ \A v, w : Before(q, v, w) /\ v # what => Before(r, v, w)
  BY DEF Taken
<1>2. Ordered(q, h) => Ordered(r, h)
  BY <1>1 DEF Ordered
<1>3. Prompt(q, h) => Prompt(r, h)
  BY <1>1 DEF Prompt
<1>4. \A d : NotAfter(q, h, d) => NotAfter(r, h, d)
  BY <1>1 DEF NotAfter
<1>5. \A d : OneEnd(q, h, d) => OneEnd(r, h, d)
  BY <1>1, <1>4 DEF OneEnd
<1>6. \A n : Travels(r, h, n) => Travels(q, h, n)
  BY <1>1 DEF Travels
<1>7. \A n : Travels(q, h, n) =>
               Travels(r, h, n) \/ what = Receive(h, n) \/ what = ForwardUp(h, n)
  BY <1>1 DEF Travels
<1>8. \A p, last : Behind(q, p, last, h) => Behind(r, p, last, h)
  BY <1>6 DEF Behind
<1>9. what # TransmitComplete(h) /\ Underway(q, h) => Underway(r, h)
  BY <1>1 DEF Underway
<1> QED
  BY <1>2, <1>3, <1>4, <1>5, <1>6, <1>7, <1>8, <1>9

LEMMA NextIsTaken ==
  ASSUME EventsOK, NEW what, IsNext(events, what)
  PROVE  Taken(events, Tail(events), what, 0) /\ Due(events, what, 0)
<1>1. events # <<>> /\ Head(events).what = what /\ Head(events).wait = 0
  BY DEF IsNext, Event
<1>2. Taken(events, Tail(events), what, 0)
  BY <1>1, TailTakes DEF EventsOK
<1>3. 1 \in DOMAIN events /\ events[1] = Head(events)
  BY <1>1 DEF EventsOK
<1> QED
  BY <1>1, <1>2, <1>3 DEF Due

LEMMA LongerIncreases ==
  ASSUME NEW last \in Nat, NEW q \in Seq(1 .. last), Increasing(q)
  PROVE  Increasing(Append(q, last + 1))
<1> DEFINE r == Append(q, last + 1)
<1>1. /\ DOMAIN q = 1 .. Len(q) /\ Len(q) \in Nat /\ DOMAIN r = 1 .. Len(q) + 1
      /\ \A i \in 1 .. Len(q) : r[i] = q[i] /\ q[i] \in 1 .. last
      /\ r[Len(q) + 1] = last + 1
  OBVIOUS
<1> HIDE DEF r
<1>2. ASSUME NEW i \in DOMAIN r, NEW j \in DOMAIN r, i < j
      PROVE  r[i] < r[j]
  <2>1. i \in 1 .. Len(q)
    BY <1>1, <1>2
  <2>2. CASE j = Len(q) + 1
    <3>1. r[i] <= last /\ r[i] \in Nat
      BY <1>1, <2>1
    <3> QED
      BY <1>1, <2>2, <3>1
  <2>3. CASE j # Len(q) + 1
    <3>1. j \in 1 .. Len(q)
      BY <1>1, <2>3
    <3> QED
      BY <1>1, <1>2, <2>1, <3>1 DEF Increasing
  <2> QED
    BY <2>2, <2>3
<1> QED
  BY <1>2 DEF Increasing, r

LEMMA TailIncreases ==
  ASSUME NEW S \in SUBSET Nat, NEW q \in Seq(S), q # <<>>, Increasing(q)
  PROVE  /\ Increasing(Tail(q)) /\ 1 \in DOMAIN q /\ q[1] = Head(q)
         /\ \A i \in DOMAIN Tail(q) : i + 1 \in DOMAIN q /\ Tail(q)[i] = q[i + 1]
         /\ \A i \in DOMAIN Tail(q) : Head(q) < Tail(q)[i]
<1> DEFINE r == Tail(q)
<1>1. /\ DOMAIN q = 1 .. Len(q) /\ Len(q) \in Nat /\ DOMAIN r = 1 .. Len(q) - 1
      /\ \A i \in 1 .. Len(q) - 1 : r[i] = q[i + 1]
      /\ 1 \in DOMAIN q /\ Head(q) = q[1]
  OBVIOUS
<1> HIDE DEF r
<1>2. \A i \in DOMAIN r : i + 1 \in DOMAIN q /\ r[i] = q[i + 1] /\ 1 < i + 1
  BY <1>1
<1>3. \A i, j \in DOMAIN r : i < j => i + 1 < j + 1
  BY <1>1
<1>4. Increasing(r)
  BY <1>2, <1>3 DEF Increasing
<1>5. \A i \in DOMAIN r : Head(q) < r[i]
  BY <1>1, <1>2 DEF Increasing
<1> QED
  BY <1>1, <1>2, <1>4, <1>5 DEF r

LEMMA TransmitTurn ==
  ASSUME PathInv, PortsInv, OrderInv, NEW h \in Hosts, Transmit(h)
  PROVE  OrderInv'
<1>1. /\ SendPacket(h) /\ delay' = delay
      /\ HostsOK /\ EventsOK /\ QueueIsServed /\ delay \in Delays
  BY DEF Transmit, PathInv
<1>2. /\ transmitted'[h] \in {transmitted[h], transmitted[h] + 1}
      /\ \A g \in Hosts :
           /\ g # h => transmitted'[g] = transmitted[g]
           /\ transmitted[g] \in Nat /\ transmitted'[g] \in Nat
  BY <1>1, SendPacketCounts
<1>3. DOMAIN queue = Hosts /\ DOMAIN transmitter = Hosts
  BY <1>1 DEF HostsOK
<1>4. \A g \in Hosts : InTurn(g)
  BY DEF OrderInv
<1> DEFINE n == transmitted'[h]
<1>5. ASSUME transmitted'[h] = transmitted[h], UNCHANGED <<events, transmitter, queue>>
      PROVE  OrderInv'
  <2>1. \A g \in Hosts : transmitted'[g] = transmitted[g]
    BY <1>2, <1>5
  <2>2. \A g \in Hosts : InTurn(g)'
    BY <1>1, <1>4, <1>5, <2>1, SameReflexive, OthersTurn
  <2> QED
    BY <2>2 DEF OrderInv
<1>6. ASSUME transmitted'[h] > transmitted[h], DeviceSend(h, n)
      PROVE  OrderInv'
  <2>1. /\ n = transmitted[h] + 1 /\ transmitted[h] \in Nat /\ n \in Nat
        /\ queue[h] \in Seq(1 .. transmitted[h]) /\ n \in Numbered
    <3>1. n = transmitted[h] + 1 /\ transmitted[h] \in Nat /\ n \in Nat
      BY <1>2, <1>6
    <3>2. queue[h] \in Seq(1 .. transmitted[h])
      BY <1>1 DEF HostsOK, Numbers
    <3>3. n <= MaxPackets
      <4>1. transmitted[h] <= traced[h] /\ traced[h] < MaxPackets /\ traced[h] \in Nat
        BY <1>1 DEF HostsOK, SendPacket
      <4> QED
        BY <3>1, <4>1, PortsAssumption
    <3> QED
      BY <3>1, <3>2, <3>3, PortsAssumption DEF Numbered
  <2>2. /\ Ordered(events, h) /\ Prompt(events, h) /\ OneEnd(events, h, delay)
        /\ Behind(events, queue[h], transmitted[h], h)
        /\ transmitter[h] = "READY" =>
             ~Holds(events, TransmitComplete(h)) /\ NotAfter(events, h, delay)
        /\ transmitter[h] = "BUSY" => Underway(events, h)
    BY <1>4 DEF InTurn
  <2>3. \A m \in Numbered : Travels(events, h, m) => m < n
    BY <2>1, <2>2 DEF Behind, Numbered
  <2>4. transmitter[h] \in {"READY", "BUSY"}
    BY <1>1 DEF HostsOK
  <2> HIDE DEF n
  <2>5. CASE /\ transmitter[h] = "READY"
             /\ TransmitStart(h, Head(Append(queue[h], n)), events)
             /\ queue' = [queue EXCEPT ![h] = Tail(Append(@, n))]
    <3>1. queue[h] = <<>>
      BY <1>1, <2>5 DEF QueueIsServed
    <3>2. Head(Append(queue[h], n)) = n /\ Tail(Append(queue[h], n)) = <<>>
      <4>1. Append(<<>>, n) = <<n>>
        BY <2>1
      <4> QED
        BY <3>1, <4>1
    <3>3. PICK txTime \in TxTimes : events' = Started(events, h, n, delay, txTime)
      BY <2>5, <3>2 DEF TransmitStart, Started
    <3>4. txTime \in Nat /\ delay \in Nat
      BY <1>1, PathAssumption
    <3>5. n \in Numbered /\ MayStart(events, h, n, delay)
      BY <1>1, <2>1, <2>2, <2>3, <2>5 DEF EventsOK, MayStart
    <3>6. /\ Ordered(events', h) /\ Prompt(events', h) /\ OneEnd(events', h, delay)
          /\ Underway(events', h)
          /\ \A m \in Numbered : Travels(events', h, m) <=> Travels(events, h, m) \/ m = n
          /\ \A g : g # h => SameEvents(events, events', Mine(g))
      BY <3>3, <3>4, <3>5, StartInTurn
    <3>7. transmitter'[h] = "BUSY" /\ queue'[h] = <<>>
      BY <1>3, <2>5, <3>2 DEF TransmitStart
    <3>8. \A g \in Hosts : g # h => transmitter'[g] = transmitter[g] /\ queue'[g] = queue[g]
      BY <1>3, <2>5 DEF TransmitStart
    <3>9. Behind(events', <<>>, n, h)
      <4>1. Increasing(<<>>)
        BY DEF Increasing
      <4>2. \A m \in Numbered : Travels(events', h, m) => m <= n
        BY <2>1, <2>3, <3>6 DEF Numbered
      <4> QED
        BY <4>1, <4>2 DEF Behind
    <3>10. InTurn(h)'
      BY <1>1, <3>6, <3>7, <3>9 DEF InTurn, n
    <3>11. \A g \in Hosts : g # h => InTurn(g)'
      BY <1>1, <1>2, <1>4, <3>6, <3>8, OthersTurn
    <3> QED
      BY <3>10, <3>11 DEF OrderInv
  <2>6. ASSUME UNCHANGED <<events, transmitter>>,
               \/ UNCHANGED queue
               \/ queue' = [queue EXCEPT ![h] = Append(@, n)]
        PROVE  OrderInv'
    <3>1. \A g \in Hosts : g # h => queue'[g] = queue[g]
      BY <1>3, <2>6
    <3>2. queue'[h] = queue[h] \/ queue'[h] = Append(queue[h], n)
      BY <1>3, <2>6
    <3>3. Behind(events, queue'[h], n, h)
      <4>1. Increasing(queue'[h])
        BY <2>1, <2>2, <3>2, LongerIncreases DEF Behind
      <4>2. ASSUME NEW m \in Numbered, Travels(events, h, m)
            PROVE  m <= n /\ \A i \in DOMAIN queue'[h] : m < queue'[h][i]
        <5>1. m < n /\ \A i \in DOMAIN queue[h] : m < queue[h][i]
          BY <2>2, <2>3, <4>2 DEF Behind
        <5>2. \A i \in DOMAIN Append(queue[h], n) :
                \/ i \in DOMAIN queue[h] /\ Append(queue[h], n)[i] = queue[h][i]
                \/ Append(queue[h], n)[i] = n
          BY <2>1
        <5>3. \A i \in DOMAIN queue'[h] : m < queue'[h][i]
          BY <3>2, <5>1, <5>2
        <5> QED
          BY <2>1, <5>1, <5>3 DEF Numbered
      <4> QED
        BY <4>1, <4>2 DEF Behind
    <3>4. InTurn(h)'
      BY <1>1, <2>2, <2>6, <3>3 DEF InTurn, n
    <3>5. \A g \in Hosts : g # h => InTurn(g)'
      BY <1>1, <1>2, <1>4, <2>6, <3>1, SameReflexive, OthersTurn
    <3> QED
      BY <3>4, <3>5 DEF OrderInv
  <2> QED
    BY <1>6, <2>5, <2>6 DEF DeviceSend
<1> QED
  BY <1>5, <1>6 DEF Transmit

LEMMA CompleteTurn ==
  ASSUME PathInv, OrderInv, NEW h \in Hosts, Complete(h)
  PROVE  OrderInv'
<1>1. /\ UNCHANGED <<vars, received, delay, stopped>>
      /\ IsNext(events, TransmitComplete(h))
      /\ HostsOK /\ EventsOK /\ QueueIsServed /\ delay \in Delays
  BY DEF Complete, PathInv
<1> DEFINE rest == Tail(events)
           c == TransmitComplete(h)
<1>2. /\ rest \in Seq(Events(Whats)) /\ Sorted(rest)
      /\ Taken(events, rest, c, 0) /\ Due(events, c, 0)
  BY <1>1, NextEvent, NextIsTaken
<1> HIDE DEF rest
<1>3. DOMAIN queue = Hosts /\ DOMAIN transmitter = Hosts /\ UNCHANGED <<transmitted, delay>>
  BY <1>1 DEF HostsOK, vars
<1>4. \A g \in Hosts : InTurn(g)
  BY DEF OrderInv
<1>5. /\ Ordered(events, h) /\ Prompt(events, h) /\ OneEnd(events, h, delay)
      /\ Behind(events, queue[h], transmitted[h], h)
  BY <1>4 DEF InTurn
<1>6. /\ Ordered(rest, h) /\ Prompt(rest, h) /\ OneEnd(rest, h, delay)
      /\ Behind(rest, queue[h], transmitted[h], h)
  BY <1>2, <1>5, TakenTurn
<1>7. delay \in Nat
  BY <1>1, PathAssumption
<1>8. NotAfter(rest, h, delay)
  <2>1. NotAfter(events, h, 0 + delay)
    BY <1>2, <1>5 DEF OneEnd
  <2>2. NotAfter(events, h, delay)
    BY <1>7, <2>1
  <2> QED
    BY <1>2, <2>2, TakenTurn
<1>9. ~Holds(rest, c)
  BY <1>2, <1>5 DEF Taken, OneEnd
<1>10. \A g : g # h => SameEvents(events, rest, Mine(g))
  BY <1>2, MineFacts, TakenOthers
<1>11. CASE /\ queue[h] # <<>>
            /\ TransmitStart(h, Head(queue[h]), rest)
            /\ queue' = [queue EXCEPT ![h] = Tail(@)]
  <2> DEFINE n == Head(queue[h])
  <2>1. /\ queue[h] \in Seq(Numbers(h)) /\ n \in Numbers(h)
        /\ Numbers(h) \in SUBSET Nat /\ \A m \in Numbers(h) : m \in Numbered /\ m <= transmitted[h]
    <3>1. queue[h] \in Seq(Numbers(h)) /\ transmitted[h] \in Nat
          /\ transmitted[h] <= traced[h] /\ traced[h] <= MaxPackets /\ traced[h] \in Nat
      BY <1>1 DEF HostsOK
    <3>2. n \in Numbers(h)
      BY <1>11, <3>1, HeadTailProperties
    <3>3. Numbers(h) \in SUBSET Nat /\ \A m \in Numbers(h) : m \in Numbered /\ m <= transmitted[h]
      BY <3>1, PortsAssumption DEF Numbers, Numbered
    <3> QED
      BY <3>1, <3>2, <3>3
  <2>2. /\ Increasing(Tail(queue[h])) /\ 1 \in DOMAIN queue[h] /\ queue[h][1] = n
        /\ \A i \in DOMAIN Tail(queue[h]) :
             i + 1 \in DOMAIN queue[h] /\ Tail(queue[h])[i] = queue[h][i + 1]
        /\ \A i \in DOMAIN Tail(queue[h]) : n < Tail(queue[h])[i]
    BY <1>5, <1>11, <2>1, TailIncreases DEF Behind
  <2> HIDE DEF n
  <2>3. \A m \in Numbered : Travels(rest, h, m) => m < n
    BY <1>6, <2>2 DEF Behind
  <2>4. PICK txTime \in TxTimes : events' = Started(rest, h, n, delay, txTime)
    BY <1>11 DEF TransmitStart, Started, n
  <2>5. txTime \in Nat /\ n \in Numbered /\ MayStart(rest, h, n, delay)
    BY <1>2, <1>6, <1>8, <1>9, <2>1, <2>3, PathAssumption DEF MayStart
  <2>6. /\ Ordered(events', h) /\ Prompt(events', h) /\ OneEnd(events', h, delay)
        /\ Underway(events', h)
        /\ \A m \in Numbered : Travels(events', h, m) <=> Travels(rest, h, m) \/ m = n
        /\ \A g : g # h => SameEvents(rest, events', Mine(g))
    BY <1>7, <2>4, <2>5, StartInTurn
  <2>7. transmitter'[h] = "BUSY" /\ queue'[h] = Tail(queue[h])
    BY <1>3, <1>11 DEF TransmitStart
  <2>8. \A g \in Hosts : g # h => transmitter'[g] = transmitter[g] /\ queue'[g] = queue[g]
    BY <1>3, <1>11 DEF TransmitStart
  <2>9. Behind(events', Tail(queue[h]), transmitted[h], h)
    <3>1. ASSUME NEW m \in Numbered, Travels(events', h, m)
          PROVE  m <= transmitted[h] /\ \A i \in DOMAIN Tail(queue[h]) : m < Tail(queue[h])[i]
      <4>1. CASE m = n
        BY <2>1, <2>2, <4>1
      <4>2. CASE Travels(rest, h, m)
        BY <1>6, <2>2, <4>2 DEF Behind
      <4> QED
        BY <2>6, <3>1, <4>1, <4>2
    <3> QED
      BY <2>2, <3>1 DEF Behind
  <2>10. InTurn(h)'
    BY <1>3, <2>6, <2>7, <2>9 DEF InTurn
  <2>11. \A g \in Hosts : g # h => InTurn(g)'
    <3>1. \A g \in Hosts : g # h => SameEvents(events, events', Mine(g))
      BY <1>10, <2>6, SameTransitive
    <3> QED
      BY <1>3, <1>4, <2>8, <3>1, OthersTurn
  <2> QED
    BY <2>10, <2>11 DEF OrderInv
<1>12. CASE /\ transmitter' = [transmitter EXCEPT ![h] = "READY"]
            /\ events' = rest
            /\ UNCHANGED queue
  <2>1. transmitter'[h] = "READY" /\ \A g \in Hosts : g # h => transmitter'[g] = transmitter[g]
    BY <1>3, <1>12
  <2>2. InTurn(h)'
    BY <1>3, <1>6, <1>8, <1>9, <1>12, <2>1 DEF InTurn
  <2>3. \A g \in Hosts : g # h => InTurn(g)'
    BY <1>3, <1>4, <1>10, <1>12, <2>1, OthersTurn
  <2> QED
    BY <2>2, <2>3 DEF OrderInv
<1> QED
  BY <1>11, <1>12 DEF Complete, rest

LEMMA ArriveTurn ==
  ASSUME PathInv, OrderInv, NEW h \in Hosts, Arrive(h)
  PROVE  OrderInv'
<1>1. PICK n \in 1 .. transmitted[h] :
        /\ IsNext(events, Receive(h, n))
        /\ events' = Schedule(Tail(events), 0, ForwardUp(h, n))
  BY DEF Arrive
<1>2. /\ UNCHANGED <<transmitted, transmitter, queue, delay>>
      /\ HostsOK /\ EventsOK
  BY DEF Arrive, PathInv, vars
<1> DEFINE rest == Tail(events)
           c == TransmitComplete(h)
           R(m) == Receive(h, m)
           F(m) == ForwardUp(h, m)
<1>3. n \in Numbered /\ F(n) \in Whats
  <2>1. n \in Numbered
    BY <1>1, <1>2, NumbersAreNumbered
  <2> QED
    BY <2>1, WhatsFacts DEF Numbered
<1>4. /\ rest \in Seq(Events(Whats)) /\ Sorted(rest)
      /\ Taken(events, rest, R(n), 0) /\ Due(events, R(n), 0)
  BY <1>1, <1>2, NextEvent, NextIsTaken
<1> HIDE DEF rest
<1>5. Added(rest, events', 0, F(n))
  BY <1>1, <1>3, <1>4, ScheduleAdds DEF rest
<1>6. \A g \in Hosts : InTurn(g)
  BY DEF OrderInv
<1>7. ASSUME NEW g \in Hosts, g # h
      PROVE  InTurn(g)'
  <2>1. SameEvents(events, rest, Mine(g)) /\ SameEvents(rest, events', Mine(g))
    BY <1>4, <1>5, <1>7, MineFacts, TakenOthers, AddedOthers
  <2>2. SameEvents(events, events', Mine(g))
    BY <2>1, SameTransitive
  <2> QED
    BY <1>2, <1>6, <2>2, OthersTurn
<1>8. \A m, k : /\ c # R(m) /\ c # F(m) /\ R(m) # F(k) /\ (F(m) = F(k) => m = k)
                /\ (R(m) = R(k) => m = k)
  BY EventsDiffer
<1>9. /\ Ordered(events, h) /\ Prompt(events, h) /\ OneEnd(events, h, delay)
      /\ Behind(events, queue[h], transmitted[h], h)
      /\ transmitter[h] = "READY" => ~Holds(events, c) /\ NotAfter(events, h, delay)
      /\ transmitter[h] = "BUSY" => Underway(events, h)
  BY <1>6 DEF InTurn
<1>10. /\ Ordered(rest, h) /\ Prompt(rest, h) /\ OneEnd(rest, h, delay)
       /\ Behind(rest, queue[h], transmitted[h], h)
       /\ \A d : NotAfter(events, h, d) => NotAfter(rest, h, d)
       /\ Underway(events, h) => Underway(rest, h)
       /\ Holds(rest, c) => Holds(events, c)
  <2>1. Holds(rest, c) => Holds(events, c)
    BY <1>4 DEF Taken
  <2> QED
    BY <1>4, <1>8, <1>9, <2>1, TakenTurn
<1>11. Holds(events, R(n))
  BY <1>4 DEF Due, Holds
<1> HIDE DEF c
<1>12. Ordered(events', h)
  <2>1. \A m, k \in Numbered : Before(events', R(m), R(k)) => m < k
    <3>1. \A m, k \in Numbered : Before(events', R(m), R(k)) => Before(rest, R(m), R(k))
      BY <1>5, <1>8 DEF Added
    <3> QED
      BY <1>10, <3>1 DEF Ordered
  <2>2. ASSUME NEW m \in Numbered, NEW k \in Numbered, Before(events', F(m), F(k))
        PROVE  m < k
    <3>1. \/ Before(rest, F(m), F(k))
          \/ F(k) = F(n) /\ \E t \in Nat : Due(rest, F(m), t)
          \/ \E t \in Nat : Due(rest, F(k), t) /\ t > 0
      BY <1>5, <2>2 DEF Added
    <3>2. CASE Before(rest, F(m), F(k))
      BY <1>10, <3>2 DEF Ordered
    <3>3. ASSUME F(k) = F(n), NEW t \in Nat, Due(rest, F(m), t)
          PROVE  m < k
      <4>1. Holds(events, F(m))
        <5>1. Holds(rest, F(m))
          BY <3>3 DEF Due, Holds
        <5> QED
          BY <1>4, <5>1 DEF Taken
      <4>2. m < n /\ k = n
        BY <1>3, <1>8, <1>9, <1>11, <3>3, <4>1 DEF Ordered
      <4> QED
        BY <4>2
    <3>4. ~ \E t \in Nat : Due(rest, F(k), t) /\ t > 0
      BY <1>10 DEF Prompt
    <3> QED
      BY <3>1, <3>2, <3>3, <3>4
  <2>3. ASSUME NEW m \in Numbered, NEW k \in Numbered, Holds(events', F(m)), Holds(events', R(k))
        PROVE  m < k
    <3>1. Holds(rest, R(k))
      BY <1>5, <1>8, <2>3 DEF Added
    <3>2. CASE Holds(rest, F(m))
      BY <1>10, <3>1, <3>2 DEF Ordered
    <3>3. CASE m = n
      <4>1. Before(events, R(n), R(k))
        BY <1>4, <3>1 DEF Taken
      <4> QED
        BY <1>3, <1>9, <3>3, <4>1 DEF Ordered
    <3> QED
      BY <1>5, <1>8, <2>3, <3>2, <3>3 DEF Added
  <2> QED
    BY <2>1, <2>2, <2>3 DEF Ordered
<1>13. Prompt(events', h)
  <2>1. \A m, t : Due(events', F(m), t) => Due(rest, F(m), t) \/ t = 0
    BY <1>5 DEF Added
  <2> QED
    BY <1>10, <2>1 DEF Prompt
<1>14. \A m, t : Due(events', R(m), t) => Due(rest, R(m), t)
  BY <1>5, <1>8 DEF Added
<1>15. \A d : NotAfter(rest, h, d) => NotAfter(events', h, d)
  BY <1>14 DEF NotAfter
<1>16. OneEnd(events', h, delay)
  <2>1. ~Before(events', c, c)
    BY <1>5, <1>8, <1>10 DEF Added, OneEnd, c
  <2>2. \A s : Due(events', c, s) => Due(rest, c, s)
    BY <1>5, <1>8 DEF Added
  <2> QED
    BY <1>10, <1>15, <2>1, <2>2 DEF OneEnd, c
<1>17. \A m \in Numbered : Travels(events', h, m) => Travels(events, h, m)
  <2>1. \A m : Travels(events', h, m) => Travels(rest, h, m) \/ m = n
    BY <1>5, <1>8 DEF Added, Travels
  <2>2. \A m : Travels(rest, h, m) => Travels(events, h, m)
    BY <1>4, TakenTurn
  <2> QED
    BY <1>11, <2>1, <2>2 DEF Travels
<1>18. Behind(events', queue[h], transmitted[h], h)
  BY <1>9, <1>17 DEF Behind
<1>19. Holds(events', c) => Holds(events, c)
  BY <1>5, <1>8, <1>10 DEF Added
<1>20. Underway(events, h) => Underway(events', h)
  BY <1>5, <1>10 DEF Added, Underway
<1>21. InTurn(h)'
  <2>1. transmitter[h] = "READY" => ~Holds(events', c) /\ NotAfter(events', h, delay)
    BY <1>9, <1>10, <1>15, <1>19
  <2>2. transmitter[h] = "BUSY" => Underway(events', h)
    BY <1>9, <1>20
  <2> QED
    BY <1>2, <1>12, <1>13, <1>16, <1>18, <2>1, <2>2 DEF InTurn, c
<1> QED
  BY <1>7, <1>21 DEF OrderInv

LEMMA HandOnTurn ==
  ASSUME PathInv, OrderInv, NEW h \in Hosts, HandOn(h)
  PROVE  OrderInv'
<1>1. PICK n \in 1 .. transmitted[h] : IsNext(events, ForwardUp(h, n))
  BY DEF HandOn
<1>2. /\ UNCHANGED <<transmitted, transmitter, queue, delay>>
      /\ events' = Tail(events) /\ EventsOK
  BY DEF HandOn, PathInv, vars
<1>3. Taken(events, events', ForwardUp(h, n), 0)
  BY <1>1, <1>2, NextIsTaken
<1>4. \A g \in Hosts : InTurn(g)
  BY DEF OrderInv
<1>5. \A g \in Hosts : Holds(events', TransmitComplete(g)) => Holds(events, TransmitComplete(g))
  BY <1>3 DEF Taken
<1>6. \A g \in Hosts : InTurn(g)'
  <2> SUFFICES ASSUME NEW g \in Hosts PROVE InTurn(g)'
    OBVIOUS
  <2>1. /\ Ordered(events, g) /\ Prompt(events, g) /\ OneEnd(events, g, delay)
        /\ Behind(events, queue[g], transmitted[g], g)
        /\ transmitter[g] = "READY" =>
             ~Holds(events, TransmitComplete(g)) /\ NotAfter(events, g, delay)
        /\ transmitter[g] = "BUSY" => Underway(events, g)
    BY <1>4 DEF InTurn
  <2>2. ForwardUp(h, n) # TransmitComplete(g)
    BY EventsDiffer
  <2>3. /\ Ordered(events', g) /\ Prompt(events', g) /\ OneEnd(events', g, delay)
        /\ Behind(events', queue[g], transmitted[g], g)
        /\ NotAfter(events, g, delay) => NotAfter(events', g, delay)
        /\ Underway(events, g) => Underway(events', g)
    BY <1>3, <2>1, <2>2, TakenTurn
  <2> QED
    BY <1>2, <1>5, <2>1, <2>3 DEF InTurn
<1> QED
  BY <1>6 DEF OrderInv

LEMMA StopTurn ==
  ASSUME PathInv, OrderInv, StopSimulation
  PROVE  OrderInv'
<1>1. /\ UNCHANGED <<transmitted, transmitter, queue, delay>>
      /\ events' = Tail(events) /\ EventsOK /\ IsNext(events, Stop)
  BY DEF StopSimulation, PathInv, vars
<1>2. \A g \in Hosts : SameEvents(events, events', Mine(g))
  BY <1>1, NextIsTaken, MineFacts, TakenOthers
<1> QED
  BY <1>1, <1>2, OthersTurn DEF OrderInv

LEMMA PassTurn ==
  ASSUME PathInv, OrderInv, Pass
  PROVE  OrderInv'
<1>1. /\ UNCHANGED <<transmitted, transmitter, queue, delay>>
      /\ events' = Elapse(events) /\ events # <<>> /\ Head(events).wait > 0
      /\ events \in Seq(Events(Whats)) /\ Sorted(events) /\ delay \in Nat
  BY PathAssumption DEF Pass, PathInv, EventsOK, vars
<1>2. /\ DOMAIN events' = DOMAIN events
      /\ \A i \in DOMAIN events :
           /\ events'[i].what = events[i].what
           /\ events[i].wait \in Nat /\ events'[i].wait = events[i].wait - 1
  <2>1. DOMAIN events' = DOMAIN events /\ \A i \in DOMAIN events : events'[i].what = events[i].what
    BY <1>1, ElapseKeeps
  <2>2. \A i \in DOMAIN events : events[i] \in Events(Whats) /\ events[i].wait \in Nat
    BY <1>1, EventFacts
  <2>3. \A e \in Events(Whats) : [e EXCEPT !.wait = @ - 1].wait = e.wait - 1
    BY DEF Events
  <2>4. \A i \in DOMAIN events : events'[i] = [events[i] EXCEPT !.wait = @ - 1]
    BY <1>1 DEF Elapse
  <2> QED
    BY <2>1, <2>2, <2>3, <2>4
<1>3. /\ \A w : Holds(events', w) <=> Holds(events, w)
      /\ \A v, w : Before(events', v, w) <=> Before(events, v, w)
  BY <1>2 DEF Holds, Before
<1>4. \A w : \A t \in Nat : Due(events', w, t) => Due(events, w, t + 1)
  BY <1>2 DEF Due
<1>5. ASSUME NEW h \in Hosts
      PROVE  InTurn(h)'
  <2>1. /\ Ordered(events, h) /\ Prompt(events, h) /\ OneEnd(events, h, delay)
        /\ Behind(events, queue[h], transmitted[h], h)
        /\ transmitter[h] = "READY" =>
             ~Holds(events, TransmitComplete(h)) /\ NotAfter(events, h, delay)
        /\ transmitter[h] = "BUSY" => Underway(events, h)
    BY DEF OrderInv, InTurn
  <2>2. Ordered(events', h)
    BY <1>3, <2>1 DEF Ordered
  <2>3. Prompt(events', h)
    <3>1. ASSUME NEW n \in Numbered, NEW t \in Nat, Due(events', ForwardUp(h, n), t)
          PROVE  FALSE
      <4>1. Due(events, ForwardUp(h, n), t + 1) /\ t + 1 \in Nat
        BY <1>4, <3>1
      <4>2. t + 1 = 0
        BY <2>1, <4>1 DEF Prompt
      <4> QED
        BY <4>2
    <3> QED
      BY <3>1 DEF Prompt
  <2>4. ASSUME NEW d \in Nat, NotAfter(events, h, d + 1) \/ NotAfter(events, h, d)
        PROVE  NotAfter(events', h, d)
    <3>1. ASSUME NEW n \in Numbered, NEW t \in Nat, Due(events', Receive(h, n), t)
          PROVE  t <= d
      <4>1. Due(events, Receive(h, n), t + 1) /\ t + 1 \in Nat
        BY <1>4, <3>1
      <4>2. t + 1 <= d + 1 \/ t + 1 <= d
        BY <2>4, <4>1 DEF NotAfter
      <4> QED
        BY <4>2
    <3> QED
      BY <3>1 DEF NotAfter
  <2>5. OneEnd(events', h, delay)
    <3>1. ASSUME NEW s \in Nat, Due(events', TransmitComplete(h), s)
          PROVE  NotAfter(events', h, s + delay)
      <4>1. Due(events, TransmitComplete(h), s + 1) /\ s + 1 \in Nat
        BY <1>4, <3>1
      <4>2. NotAfter(events, h, (s + 1) + delay)
        BY <2>1, <4>1 DEF OneEnd
      <4>3. (s + 1) + delay = (s + delay) + 1 /\ s + delay \in Nat
        BY <1>1
      <4> QED
        BY <2>4, <4>2, <4>3
    <3> QED
      BY <1>3, <2>1, <3>1 DEF OneEnd
  <2>6. Behind(events', queue[h], transmitted[h], h)
    BY <1>3, <2>1 DEF Behind, Travels
  <2>7. Underway(events, h) => Underway(events', h)
    BY <1>3 DEF Underway
  <2>8. NotAfter(events, h, delay) => NotAfter(events', h, delay)
    BY <1>1, <2>4
  <2> QED
    BY <1>1, <1>3, <2>1, <2>2, <2>3, <2>5, <2>6, <2>7, <2>8 DEF InTurn
<1> QED
  BY <1>5 DEF OrderInv

LEMMA OrderStart == PathInit => OrderInv
<1> SUFFICES ASSUME PathInit, NEW h \in Hosts
             PROVE  InTurn(h)
  BY DEF OrderInv
<1>1. /\ transmitter[h] = "READY" /\ queue[h] = <<>>
      /\ events \in {<<>>} \cup {<<Event(t, Stop)>> : t \in StopTimes}
  BY DEF PathInit
<1>2. \A i \in DOMAIN events : i = 1 /\ events[i].what = Stop
  BY <1>1 DEF Event
<1>3. /\ \A w : Holds(events, w) => w = Stop
      /\ \A w, t : Due(events, w, t) => w = Stop
      /\ \A v, w : ~Before(events, v, w)
  BY <1>2 DEF Holds, Due, Before
<1>4. \A n : Stop # Receive(h, n) /\ Stop # ForwardUp(h, n) /\ Stop # TransmitComplete(h)
  BY EventsDiffer
<1>5. Ordered(events, h) /\ Prompt(events, h) /\ OneEnd(events, h, delay)
  BY <1>3, <1>4 DEF Ordered, Prompt, OneEnd
<1>6. \A d : NotAfter(events, h, d)
  BY <1>3, <1>4 DEF NotAfter
<1>7. Behind(events, <<>>, transmitted[h], h)
  BY <1>3, <1>4 DEF Behind, Travels, Increasing
<1> QED
  BY <1>1, <1>3, <1>4, <1>5, <1>6, <1>7 DEF InTurn

LEMMA OrderInvariance == PathSpec => []OrderInv
<1>1. PathInv /\ PortsInv /\ OrderInv /\ [PathNext]_pathVars => OrderInv'
  <2> SUFFICES ASSUME PathInv, PortsInv, OrderInv, [PathNext]_pathVars
               PROVE  OrderInv'
    OBVIOUS
  <2>1. CASE UNCHANGED pathVars
    <3>1. UNCHANGED <<events, transmitter, queue, transmitted, delay>>
      BY <2>1 DEF pathVars, vars
    <3> QED
      BY <3>1, SameReflexive, OthersTurn DEF OrderInv
  <2>2. ASSUME NEW h \in Hosts, Transmit(h)
        PROVE  OrderInv'
    BY <2>2, TransmitTurn
  <2>3. CASE ProcessOneEvent
    BY <2>3, StopTurn, CompleteTurn, ArriveTurn, HandOnTurn DEF ProcessOneEvent
  <2>4. CASE Pass
    BY <2>4, PassTurn
  <2> QED
    BY <2>1, <2>2, <2>3, <2>4 DEF PathNext
<1> QED
  BY <1>1, OrderStart, PathInvariance, PathPorts, PortsInvariance, PTL DEF PathSpec

-----------------------------------------------------------------------------
(* The path implements the lossy FIFO.                                     *)

Flight(e, q, last, h) == {n \in 1 .. last : Travels(e, h, n)} \cup Range(q)

LEMMA OnTheWayTravels ==
  \A e, h, n : {Receive(h, n), ForwardUp(h, n)} \cap Range(Agenda(e)) # {} <=> Travels(e, h, n)
<1> SUFFICES ASSUME NEW e, NEW h, NEW n
             PROVE  {Receive(h, n), ForwardUp(h, n)} \cap Range(Agenda(e)) # {}
                      <=> Travels(e, h, n)
  OBVIOUS
<1>1. \A w : w \in Range(Agenda(e)) <=> Holds(e, w)
  BY DEF Range, Agenda, Holds
<1> QED
  BY <1>1 DEF Travels

LEMMA InFlightIs ==
  /\ InFlight = [h \in Hosts |-> Flight(events, queue[h], transmitted[h], h)]
  /\ InFlight' = [h \in Hosts |-> Flight(events', queue'[h], transmitted'[h], h)]
<1>1. \A h : OnTheWay(h) = {n \in 1 .. transmitted[h] : Travels(events, h, n)}
  BY OnTheWayTravels DEF OnTheWay
<1>2. \A h : OnTheWay(h)' = {n \in 1 .. transmitted'[h] : Travels(events', h, n)}
  BY OnTheWayTravels DEF OnTheWay
<1> QED
  BY <1>1, <1>2 DEF InFlight, Flight

(* The same packets travel.                                                *)
SameTravels(e, r, h) == \A n \in Numbered : Travels(e, h, n) <=> Travels(r, h, n)

LEMMA FlightStays ==
  ASSUME HostsOK, UNCHANGED transmitted, DOMAIN queue' = Hosts,
         \A h \in Hosts : /\ SameTravels(events, events', h)
                          /\ queue'[h] = queue[h]
  PROVE  InFlight' = InFlight
<1>1. ASSUME NEW h \in Hosts
      PROVE  Flight(events', queue'[h], transmitted'[h], h)
               = Flight(events, queue[h], transmitted[h], h)
  <2>1. \A n \in 1 .. transmitted[h] : n \in Numbered
    BY NumbersAreNumbered
  <2> QED
    BY <2>1 DEF Flight, SameTravels
<1> QED
  BY <1>1, InFlightIs

LEMMA StartTravels ==
  ASSUME NEW agenda \in Seq(Events(Whats)), Sorted(agenda), delay \in Delays,
         NEW h \in Hosts, NEW n \in Numbered, TransmitStart(h, n, agenda)
  PROVE  \A g \in Hosts : \A m \in Numbered :
           Travels(events', g, m) <=> Travels(agenda, g, m) \/ (g = h /\ m = n)
<1>1. PICK txTime \in TxTimes :
        events' = Schedule(Schedule(agenda, txTime, TransmitComplete(h)),
                           txTime + delay, Receive(h, n))
  BY DEF TransmitStart
<1> DEFINE e == Schedule(agenda, txTime, TransmitComplete(h))
<1>2. /\ txTime \in Nat /\ txTime + delay \in Nat
      /\ TransmitComplete(h) \in Whats /\ Receive(h, n) \in Whats
  BY PathAssumption, WhatsFacts DEF Numbered
<1>3. /\ e \in Seq(Events(Whats)) /\ Sorted(e)
      /\ Added(agenda, e, txTime, TransmitComplete(h))
  BY <1>2, ScheduleKeeps, ScheduleAdds
<1>4. events' = Schedule(e, txTime + delay, Receive(h, n))
  BY <1>1
<1> HIDE DEF e
<1>5. Added(e, events', txTime + delay, Receive(h, n))
  BY <1>2, <1>3, <1>4, ScheduleAdds
<1>6. \A w : Holds(events', w) <=>
               Holds(agenda, w) \/ w = TransmitComplete(h) \/ w = Receive(h, n)
  BY <1>3, <1>5 DEF Added
<1> QED
  BY <1>6, EventsDiffer DEF Travels

LEMMA SameCardinality == \A S : Link!Cardinality(S) = Cardinality(S)
BY DEF Link!Cardinality, Cardinality

LEMMA NumbersAreFinite == \A k \in Nat : IsFiniteSet(1 .. k)
<1> SUFFICES ASSUME NEW k \in Nat
             PROVE  IsFiniteSet(1 .. k)
  OBVIOUS
<1>1. 1 \in Int /\ k \in Int
  OBVIOUS
<1> QED
  BY <1>1, FS_Interval

(* What a host hands over is accepted, or dropped if as many packets as the*)
(* queue holds and one more are on their way.                              *)
LEMMA DropNeedsFull ==
  ASSUME HostsOK, QueueIsServed, OrderInv, NEW h \in Hosts, ~HasRoom(queue[h])
  PROVE  Cardinality(InFlight[h]) >= QueueLimit + 1
<1> DEFINE q == queue[h]
           F == InFlight[h]
<1>1. /\ q \in Seq(Numbers(h)) /\ Len(q) \in Nat /\ DOMAIN q = 1 .. Len(q)
      /\ \A i \in DOMAIN q : q[i] \in Numbers(h)
      /\ Len(q) >= QueueLimit /\ QueueLimit \in Nat \ {0}
      /\ transmitted[h] \in Nat /\ Numbers(h) = 1 .. transmitted[h]
  <2>1. q \in Seq(Numbers(h)) /\ transmitted[h] \in Nat
    BY DEF HostsOK
  <2>2. Len(q) \in Nat /\ DOMAIN q = 1 .. Len(q) /\ \A i \in DOMAIN q : q[i] \in Numbers(h)
    BY <2>1, SequenceFacts
  <2>3. Len(q) >= QueueLimit /\ QueueLimit \in Nat \ {0}
    BY <2>2, PathAssumption DEF HasRoom
  <2> QED
    BY <2>1, <2>2, <2>3 DEF Numbers
<1>2. InTurn(h) /\ transmitter[h] = "BUSY"
  <2>1. q # <<>>
    BY <1>1
  <2> QED
    BY <2>1 DEF OrderInv, QueueIsServed
<1>3. PICK m \in Numbered : Travels(events, h, m)
  BY <1>2 DEF InTurn, Underway, Before, Travels, Holds
<1>4. /\ m <= transmitted[h] /\ m \in Nat \ {0} /\ \A i \in DOMAIN q : m < q[i]
      /\ Increasing(q)
  BY <1>2, <1>3 DEF InTurn, Behind, Numbered
<1>5. F = {n \in 1 .. transmitted[h] : Travels(events, h, n)} \cup Range(q)
  BY InFlightIs DEF Flight
<1>6. m \in F /\ \A i \in DOMAIN q : q[i] \in F
  BY <1>1, <1>3, <1>4, <1>5 DEF Range
<1>7. F \in SUBSET (1 .. transmitted[h])
  BY <1>1, <1>5 DEF Range
<1>8. IsFiniteSet(F) /\ Cardinality(F) \in Nat
  <2> DEFINE S == 1 .. transmitted[h]
  <2> HIDE DEF F
  <2>1. IsFiniteSet(S)
    <3>1. transmitted[h] \in Nat
      BY <1>1
    <3> QED
      BY <3>1, NumbersAreFinite
  <2>2. F \in SUBSET S
    BY <1>7
  <2> HIDE DEF S
  <2>3. IsFiniteSet(F)
    BY <2>1, <2>2, FS_Subset
  <2> QED
    BY <2>3, FS_CardinalityType
<1> DEFINE k == Len(q) + 1
           f == [i \in 1 .. k |-> IF i = k THEN m ELSE q[i]]
<1>9. f \in Injection(1 .. k, F)
  <2>1. \A i \in 1 .. k : i = k \/ i \in DOMAIN q
    BY <1>1
  <2>2. f \in [1 .. k -> F]
    BY <1>6, <2>1
  <2>3. ASSUME NEW i \in 1 .. k, NEW j \in 1 .. k, i < j
        PROVE  f[i] # f[j]
    <3>1. i \in DOMAIN q /\ i # k
      BY <1>1, <2>3
    <3>2. CASE j = k
      <4>1. m < q[i] /\ q[i] \in Nat
        BY <1>1, <1>4, <3>1
      <4> QED
        BY <1>4, <3>1, <3>2, <4>1
    <3>3. CASE j # k
      <4>1. j \in DOMAIN q
        BY <2>1, <3>3
      <4>2. q[i] < q[j] /\ q[i] \in Nat
        BY <1>1, <1>4, <2>3, <3>1, <4>1 DEF Increasing
      <4> QED
        BY <3>1, <3>3, <4>1, <4>2
    <3> QED
      BY <3>2, <3>3
  <2>4. \A i, j \in 1 .. k : i = j \/ i < j \/ j < i
    BY <1>1
  <2> HIDE DEF f, F
  <2>5. \A i, j \in 1 .. k : f[i] = f[j] => i = j
    BY <2>3, <2>4
  <2> QED
    BY <2>2, <2>5 DEF Injection, IsInjective
<1>10. k \in Nat /\ Cardinality(1 .. k) = k
  <2>1. k \in Nat
    BY <1>1
  <2> HIDE DEF k
  <2> QED
    BY <2>1, FS_Interval
<1> HIDE DEF f, F, k
<1>11. k <= Cardinality(F)
  BY <1>8, <1>9, <1>10, FS_Injection
<1>12. QueueLimit + 1 <= k
  BY <1>1 DEF k
<1>13. QueueLimit + 1 <= Cardinality(F)
  BY <1>1, <1>8, <1>10, <1>11, <1>12
<1> QED
  BY <1>1, <1>8, <1>13 DEF F

LEMMA AppendedRange ==
  ASSUME NEW S, NEW q \in Seq(S), NEW e
  PROVE  Range(Append(q, e)) = Range(q) \cup {e}
<1>1. /\ DOMAIN q = 1 .. Len(q) /\ Len(q) \in Nat /\ DOMAIN Append(q, e) = 1 .. Len(q) + 1
      /\ \A i \in 1 .. Len(q) : Append(q, e)[i] = q[i]
      /\ Append(q, e)[Len(q) + 1] = e
  OBVIOUS
<1> DEFINE r == Append(q, e)
<1> HIDE DEF r
<1>2. \A i \in DOMAIN r : (i \in DOMAIN q /\ r[i] = q[i]) \/ r[i] = e
  BY <1>1 DEF r
<1>3. /\ \A i \in DOMAIN q : i \in DOMAIN r /\ r[i] = q[i]
      /\ \E i \in DOMAIN r : r[i] = e
  <2>1. Len(q) + 1 \in DOMAIN r /\ r[Len(q) + 1] = e
    BY <1>1 DEF r
  <2>2. \A i \in DOMAIN q : i \in DOMAIN r /\ r[i] = q[i]
    BY <1>1 DEF r
  <2> QED
    BY <2>1, <2>2
<1>4. Range(r) = Range(q) \cup {e}
  BY <1>2, <1>3 DEF Range
<1> QED
  BY <1>4 DEF r

LEMMA TailRange ==
  ASSUME NEW S, NEW q \in Seq(S), q # <<>>
  PROVE  Range(q) = {Head(q)} \cup Range(Tail(q))
<1> DEFINE r == Tail(q)
<1>1. /\ DOMAIN q = 1 .. Len(q) /\ Len(q) \in Nat /\ DOMAIN r = 1 .. Len(q) - 1
      /\ \A i \in 1 .. Len(q) - 1 : r[i] = q[i + 1]
      /\ 1 \in DOMAIN q /\ Head(q) = q[1]
  OBVIOUS
<1> HIDE DEF r
<1>2. \A i \in DOMAIN r : i + 1 \in DOMAIN q /\ r[i] = q[i + 1]
  BY <1>1
<1>3. \A i \in DOMAIN q : i = 1 \/ (i - 1 \in DOMAIN r /\ r[i - 1] = q[i])
  <2> SUFFICES ASSUME NEW i \in DOMAIN q, i # 1
               PROVE  i - 1 \in DOMAIN r /\ r[i - 1] = q[i]
    OBVIOUS
  <2>1. i - 1 \in DOMAIN r /\ (i - 1) + 1 = i
    BY <1>1
  <2> QED
    BY <1>2, <2>1
<1>4. \A x : x \in Range(q) <=> x = Head(q) \/ x \in Range(r)
  BY <1>1, <1>2, <1>3 DEF Range
<1> QED
  BY <1>4 DEF r

LEMMA TransmitIsLink ==
  ASSUME PathInv, PortsInv, OrderInv, NEW h \in Hosts, Transmit(h)
  PROVE  Link!Accept(h) \/ Link!Drop(h) \/ UNCHANGED Link!vars
<1>1. /\ SendPacket(h) /\ UNCHANGED <<received, delay>>
      /\ HostsOK /\ EventsOK /\ QueueIsServed /\ delay \in Delays
      /\ DOMAIN queue = Hosts /\ transmitted \in [Hosts -> Nat]
  BY DEF Transmit, PathInv, HostsOK, PortsInv
<1>2. /\ transmitted' = transmitted \/ transmitted' = [transmitted EXCEPT ![h] = @ + 1]
      /\ transmitted[h] \in Nat /\ transmitted[h] < MaxPackets
  <2>1. transmitted[h] <= traced[h] /\ traced[h] < MaxPackets /\ traced[h] \in Nat
        /\ transmitted[h] \in Nat
    BY <1>1 DEF HostsOK, SendPacket
  <2> QED
    BY <1>1, <2>1, PortsAssumption DEF SendPacket
<1>3. ASSUME transmitted'[h] = transmitted[h], UNCHANGED <<events, transmitter, queue>>
      PROVE  UNCHANGED Link!vars
  <2>1. transmitted' = transmitted
    BY <1>1, <1>2, <1>3
  <2>2. InFlight' = InFlight
    BY <1>1, <1>3, <2>1, FlightStays DEF SameTravels
  <2> QED
    BY <1>1, <2>1, <2>2 DEF Link!vars
<1> DEFINE n == transmitted'[h]
<1>4. ASSUME transmitted'[h] > transmitted[h], DeviceSend(h, n)
      PROVE  Link!Accept(h) \/ Link!Drop(h)
  <2>1. /\ transmitted' = [transmitted EXCEPT ![h] = @ + 1]
        /\ n = transmitted[h] + 1 /\ n \in Nat /\ n \in Numbered
        /\ queue[h] \in Seq(1 .. transmitted[h])
        /\ \A g \in Hosts : g # h => transmitted'[g] = transmitted[g]
        /\ \A g \in Hosts : \A m \in 1 .. transmitted[g] : m \in Numbered
        /\ \A m \in 1 .. n : m \in Numbered /\ (m = n \/ m \in 1 .. transmitted[h])
        /\ \A m \in 1 .. transmitted[h] : m \in 1 .. n /\ m # n
        /\ n \in 1 .. n
    <3>1. transmitted' = [transmitted EXCEPT ![h] = @ + 1]
      BY <1>2, <1>4
    <3>2. n = transmitted[h] + 1 /\ \A g \in Hosts : g # h => transmitted'[g] = transmitted[g]
      BY <1>1, <3>1
    <3>3. n \in Numbered /\ n \in Nat
      BY <1>2, <3>2, PortsAssumption DEF Numbered
    <3>4. \A g \in Hosts : \A m \in 1 .. transmitted[g] : m \in Numbered
      BY <1>1, NumbersAreNumbered
    <3>5. queue[h] \in Seq(1 .. transmitted[h])
      BY <1>1 DEF HostsOK, Numbers
    <3> HIDE DEF n
    <3>6. /\ \A m \in 1 .. n : m \in Numbered /\ (m = n \/ m \in 1 .. transmitted[h])
          /\ \A m \in 1 .. transmitted[h] : m \in 1 .. n /\ m # n
          /\ n \in 1 .. n
      BY <1>2, <3>2, PortsAssumption DEF Numbered
    <3> QED
      BY <3>1, <3>2, <3>3, <3>4, <3>5, <3>6 DEF n
  <2>2. Behind(events, queue[h], transmitted[h], h)
    BY DEF OrderInv, InTurn
  <2>3. ~Travels(events, h, n)
    BY <1>2, <2>1, <2>2 DEF Behind
  <2>4. InFlight[h] = Flight(events, queue[h], transmitted[h], h)
    BY InFlightIs
  <2> HIDE DEF n
  <2>5. ASSUME DOMAIN queue' = Hosts,
               \A g \in Hosts : g # h => queue'[g] = queue[g] /\ SameTravels(events, events', g),
               Flight(events', queue'[h], n, h) = InFlight[h] \cup {n}
        PROVE  Link!Accept(h)
    <3>1. InFlight' = [InFlight EXCEPT ![h] = @ \cup {transmitted[h] + 1}]
      <4>1. ASSUME NEW g \in Hosts, g # h
            PROVE  Flight(events', queue'[g], transmitted'[g], g)
                     = Flight(events, queue[g], transmitted[g], g)
        BY <2>1, <2>5, <4>1 DEF Flight, SameTravels
      <4>2. Flight(events', queue'[h], transmitted'[h], h) = InFlight[h] \cup {n}
        BY <2>5 DEF n
      <4>3. /\ InFlight = [g \in Hosts |-> Flight(events, queue[g], transmitted[g], g)]
            /\ InFlight' = [g \in Hosts |-> Flight(events', queue'[g], transmitted'[g], g)]
        BY InFlightIs
      <4>4. InFlight' = [InFlight EXCEPT ![h] = @ \cup {n}]
        BY <4>1, <4>2, <4>3
      <4> QED
        BY <2>1, <4>4
    <3> QED
      BY <1>1, <2>1, <3>1 DEF Link!Accept
  <2>6. CASE /\ transmitter[h] = "READY"
             /\ TransmitStart(h, Head(Append(queue[h], n)), events)
             /\ queue' = [queue EXCEPT ![h] = Tail(Append(@, n))]
    <3>1. queue[h] = <<>>
      BY <1>1, <2>6 DEF QueueIsServed
    <3>2. Head(Append(queue[h], n)) = n /\ Tail(Append(queue[h], n)) = <<>>
      <4>1. Append(<<>>, n) = <<n>>
        BY <2>1
      <4> QED
        BY <3>1, <4>1
    <3>3. \A g \in Hosts : \A m \in Numbered :
            Travels(events', g, m) <=> Travels(events, g, m) \/ (g = h /\ m = n)
      BY <1>1, <2>1, <2>6, <3>2, StartTravels DEF EventsOK
    <3>4. /\ DOMAIN queue' = Hosts /\ queue'[h] = queue[h]
          /\ \A g \in Hosts : g # h => queue'[g] = queue[g]
      BY <1>1, <2>6, <3>1, <3>2
    <3>5. Flight(events', queue'[h], n, h) = InFlight[h] \cup {n}
      BY <2>1, <2>4, <3>3, <3>4 DEF Flight
    <3>6. \A g \in Hosts : g # h => SameTravels(events, events', g)
      BY <3>3 DEF SameTravels
    <3> QED
      BY <2>5, <3>4, <3>5, <3>6
  <2>7. CASE UNCHANGED <<events, transmitter>> /\ queue' = [queue EXCEPT ![h] = Append(@, n)]
    <3>1. /\ DOMAIN queue' = Hosts /\ queue'[h] = Append(queue[h], n)
          /\ \A g \in Hosts : g # h => queue'[g] = queue[g]
      BY <1>1, <2>7
    <3>2. Range(queue'[h]) = Range(queue[h]) \cup {n}
      BY <2>1, <3>1, AppendedRange
    <3>3. Flight(events', queue'[h], n, h) = InFlight[h] \cup {n}
      BY <2>1, <2>3, <2>4, <2>7, <3>2 DEF Flight
    <3> QED
      BY <2>5, <2>7, <3>1, <3>3 DEF SameTravels
  <2>8. CASE ~HasRoom(queue[h]) /\ UNCHANGED <<events, transmitter, queue>>
    <3>1. Cardinality(InFlight[h]) >= QueueLimit + 1
      BY <1>1, <2>8, DropNeedsFull
    <3>2. InFlight' = InFlight
      <4>1. Flight(events', queue'[h], transmitted'[h], h)
              = Flight(events, queue[h], transmitted[h], h)
        BY <2>1, <2>3, <2>8 DEF Flight, n
      <4>2. ASSUME NEW g \in Hosts, g # h
            PROVE  Flight(events', queue'[g], transmitted'[g], g)
                     = Flight(events, queue[g], transmitted[g], g)
        BY <2>1, <2>8, <4>2
      <4> QED
        BY <4>1, <4>2, InFlightIs
    <3> QED
      BY <1>1, <2>1, <3>1, <3>2, SameCardinality DEF Link!Drop
  <2>9. \/ /\ transmitter[h] = "READY"
           /\ TransmitStart(h, Head(Append(queue[h], n)), events)
           /\ queue' = [queue EXCEPT ![h] = Tail(Append(@, n))]
        \/ UNCHANGED <<events, transmitter>> /\ queue' = [queue EXCEPT ![h] = Append(@, n)]
        \/ ~HasRoom(queue[h]) /\ UNCHANGED <<events, transmitter, queue>>
    BY <1>4 DEF DeviceSend
  <2> QED
    BY <2>6, <2>7, <2>8, <2>9
<1> QED
  BY <1>3, <1>4 DEF Transmit

LEMMA CompleteIsQuiet ==
  ASSUME PathInv, NEW h \in Hosts, Complete(h)
  PROVE  UNCHANGED Link!vars
<1>1. /\ UNCHANGED <<transmitted, received, delay>>
      /\ IsNext(events, TransmitComplete(h))
      /\ HostsOK /\ EventsOK /\ delay \in Delays /\ DOMAIN queue = Hosts
  BY DEF Complete, PathInv, HostsOK, vars
<1> DEFINE rest == Tail(events)
<1>2. /\ rest \in Seq(Events(Whats)) /\ Sorted(rest)
      /\ Taken(events, rest, TransmitComplete(h), 0)
  BY <1>1, NextEvent, NextIsTaken
<1> HIDE DEF rest
<1>3. \A g, m : Travels(rest, g, m) <=> Travels(events, g, m)
  <2>1. \A w : /\ Holds(rest, w) => Holds(events, w)
               /\ Holds(events, w) => Holds(rest, w) \/ w = TransmitComplete(h)
    BY <1>2 DEF Taken
  <2> QED
    BY <2>1, EventsDiffer DEF Travels
<1>4. CASE /\ queue[h] # <<>>
           /\ TransmitStart(h, Head(queue[h]), rest)
           /\ queue' = [queue EXCEPT ![h] = Tail(@)]
  <2> DEFINE n == Head(queue[h])
  <2>1. /\ n \in Numbers(h) /\ n \in Numbered /\ queue[h] \in Seq(Numbers(h))
        /\ \A g \in Hosts : \A m \in 1 .. transmitted[g] : m \in Numbered
    <3>1. queue[h] \in Seq(Numbers(h))
      BY <1>1 DEF HostsOK
    <3>2. n \in Numbers(h)
      BY <1>4, <3>1, HeadTailProperties
    <3>3. \A g \in Hosts : \A m \in 1 .. transmitted[g] : m \in Numbered
      BY <1>1, NumbersAreNumbered
    <3> QED
      BY <3>1, <3>2, <3>3 DEF Numbers
  <2>2. \A g \in Hosts : \A m \in Numbered :
          Travels(events', g, m) <=> Travels(rest, g, m) \/ (g = h /\ m = n)
    BY <1>1, <1>2, <1>4, <2>1, StartTravels
  <2>3. Range(queue[h]) = {n} \cup Range(Tail(queue[h]))
    BY <1>4, <2>1, TailRange
  <2> HIDE DEF n
  <2>4. queue'[h] = Tail(queue[h]) /\ \A g \in Hosts : g # h => queue'[g] = queue[g]
    BY <1>1, <1>4
  <2>5. ASSUME NEW g \in Hosts
        PROVE  Flight(events', queue'[g], transmitted'[g], g)
                 = Flight(events, queue[g], transmitted[g], g)
    <3>1. CASE g = h
      BY <1>1, <1>3, <2>1, <2>2, <2>3, <2>4, <3>1 DEF Flight, Numbers
    <3>2. CASE g # h
      BY <1>1, <1>3, <2>1, <2>2, <2>4, <3>2 DEF Flight
    <3> QED
      BY <3>1, <3>2
  <2>6. InFlight' = InFlight
    BY <2>5, InFlightIs
  <2> QED
    BY <1>1, <2>6 DEF Link!vars
<1>5. CASE events' = rest /\ UNCHANGED queue
  <2>1. InFlight' = InFlight
    BY <1>1, <1>3, <1>5, FlightStays DEF SameTravels
  <2> QED
    BY <1>1, <2>1 DEF Link!vars
<1> QED
  BY <1>4, <1>5 DEF Complete, rest

LEMMA ArriveIsQuiet ==
  ASSUME PathInv, NEW h \in Hosts, Arrive(h)
  PROVE  UNCHANGED Link!vars
<1>1. PICK n \in 1 .. transmitted[h] :
        /\ IsNext(events, Receive(h, n))
        /\ events' = Schedule(Tail(events), 0, ForwardUp(h, n))
  BY DEF Arrive
<1>2. /\ UNCHANGED <<transmitted, queue, received>>
      /\ HostsOK /\ EventsOK /\ DOMAIN queue = Hosts
  BY DEF Arrive, PathInv, HostsOK, vars
<1> DEFINE rest == Tail(events)
<1>3. n \in Numbered /\ ForwardUp(h, n) \in Whats
  <2>1. n \in Numbered
    BY <1>2, PortsAssumption DEF HostsOK, Numbered
  <2> QED
    BY <2>1, WhatsFacts DEF Numbered
<1>4. /\ rest \in Seq(Events(Whats)) /\ Sorted(rest)
      /\ Taken(events, rest, Receive(h, n), 0) /\ Due(events, Receive(h, n), 0)
  BY <1>1, <1>2, NextEvent, NextIsTaken
<1> HIDE DEF rest
<1>5. Added(rest, events', 0, ForwardUp(h, n))
  BY <1>1, <1>3, <1>4, ScheduleAdds DEF rest
<1>6. \A w : /\ Holds(rest, w) => Holds(events, w)
             /\ Holds(events, w) => Holds(rest, w) \/ w = Receive(h, n)
             /\ Holds(events', w) <=> Holds(rest, w) \/ w = ForwardUp(h, n)
  BY <1>4, <1>5 DEF Taken, Added
<1>7. Holds(events, Receive(h, n))
  BY <1>4 DEF Due, Holds
<1>8. \A g, m : Travels(events', g, m) => Travels(events, g, m)
  BY <1>6, <1>7, EventsDiffer DEF Travels
<1>9. \A g, m : Travels(events, g, m) => Travels(events', g, m)
  BY <1>6, EventsDiffer DEF Travels
<1>10. InFlight' = InFlight
  BY <1>2, <1>8, <1>9, FlightStays DEF SameTravels
<1> QED
  BY <1>2, <1>10 DEF Link!vars

LEMMA HandOnDelivers ==
  ASSUME PathInv, OrderInv, NEW h \in Hosts, HandOn(h)
  PROVE  Link!Deliver(h)
<1>1. PICK n \in 1 .. transmitted[h] :
        /\ IsNext(events, ForwardUp(h, n))
        /\ received' = [received EXCEPT ![h] = Append(@, n)]
  BY DEF HandOn
<1>2. /\ UNCHANGED <<transmitted, queue>> /\ events' = Tail(events)
      /\ HostsOK /\ EventsOK /\ DOMAIN queue = Hosts
  BY DEF HandOn, PathInv, HostsOK, vars
<1>3. \A g \in Hosts : \A m \in 1 .. transmitted[g] : m \in Numbered
  BY <1>2, NumbersAreNumbered
<1>4. Taken(events, events', ForwardUp(h, n), 0) /\ Due(events, ForwardUp(h, n), 0)
  BY <1>1, <1>2, NextIsTaken
<1> DEFINE R(m) == Receive(h, m)
           F(m) == ForwardUp(h, m)
<1>5. /\ \A w : Holds(events', w) => Holds(events, w) /\ Before(events, F(n), w)
      /\ \A w : Holds(events, w) => Holds(events', w) \/ w = F(n)
      /\ Holds(events, F(n))
  BY <1>4 DEF Taken, Due, Holds
<1>6. Ordered(events, h) /\ Behind(events, queue[h], transmitted[h], h)
  BY DEF OrderInv, InTurn
<1>7. n \in Numbered
  BY <1>3
<1>8. \A m, k : F(m) = F(k) => m = k
  BY EventsDiffer
<1>9. \A m \in Numbered : Holds(events, R(m)) => n < m
  BY <1>5, <1>6, <1>7 DEF Ordered
<1>10. \A m \in Numbered : Holds(events', F(m)) => n < m
  BY <1>5, <1>6, <1>7 DEF Ordered
<1>11. \A m \in Numbered : Travels(events, h, m) => m = n \/ n < m
  BY <1>5, <1>8, <1>9, <1>10 DEF Travels
<1>12. ~Travels(events', h, n)
  BY <1>5, <1>7, <1>9, <1>10 DEF Travels, Numbered
<1>13. \A m : m # n => (Travels(events', h, m) <=> Travels(events, h, m))
  BY <1>5, <1>8, EventsDiffer DEF Travels
<1>14. \A g \in Hosts : g # h => \A m : Travels(events', g, m) <=> Travels(events, g, m)
  BY <1>5, EventsDiffer DEF Travels
<1>15. \A i \in DOMAIN queue[h] : n < queue[h][i]
  BY <1>5, <1>6, <1>7 DEF Behind, Travels
<1>16. n \notin Range(queue[h]) /\ \A m \in Range(queue[h]) : n <= m
  <2>1. \A i \in DOMAIN queue[h] : queue[h][i] \in Nat
    <3>1. queue[h] \in Seq(Numbers(h))
      BY <1>2 DEF HostsOK
    <3>2. \A i \in DOMAIN queue[h] : queue[h][i] \in Numbers(h)
      BY <3>1, SequenceFacts
    <3> QED
      BY <3>2 DEF Numbers
  <2>2. \A i \in DOMAIN queue[h] : n <= queue[h][i] /\ n # queue[h][i]
    BY <1>15, <2>1
  <2> QED
    BY <2>2 DEF Range
<1>17. InFlight[h] = Flight(events, queue[h], transmitted[h], h)
  BY InFlightIs
<1>18. n \in InFlight[h] /\ \A m \in InFlight[h] : n <= m
  <2>1. n \in InFlight[h]
    BY <1>5, <1>17 DEF Flight, Travels
  <2>2. \A m \in 1 .. transmitted[h] : Travels(events, h, m) => n <= m
    BY <1>3, <1>11
  <2> QED
    BY <1>16, <1>17, <2>1, <2>2 DEF Flight
<1>19. Flight(events', queue'[h], transmitted'[h], h) = InFlight[h] \ {n}
  BY <1>2, <1>12, <1>13, <1>16, <1>17 DEF Flight
<1>20. ASSUME NEW g \in Hosts, g # h
       PROVE  Flight(events', queue'[g], transmitted'[g], g)
                = Flight(events, queue[g], transmitted[g], g)
  BY <1>2, <1>14, <1>20 DEF Flight
<1>21. InFlight' = [InFlight EXCEPT ![h] = @ \ {n}]
  BY <1>17, <1>19, <1>20, InFlightIs
<1> QED
  BY <1>1, <1>2, <1>18, <1>21 DEF Link!Deliver

LEMMA StopIsQuiet ==
  ASSUME PathInv, StopSimulation
  PROVE  UNCHANGED Link!vars
<1>1. /\ UNCHANGED <<transmitted, queue, received>>
      /\ events' = Tail(events) /\ HostsOK /\ EventsOK /\ IsNext(events, Stop)
      /\ DOMAIN queue = Hosts
  BY DEF StopSimulation, PathInv, HostsOK, vars
<1>2. \A g, m : Travels(events', g, m) <=> Travels(events, g, m)
  <2>1. Taken(events, events', Stop, 0)
    BY <1>1, NextIsTaken
  <2>2. \A w : /\ Holds(events', w) => Holds(events, w)
               /\ Holds(events, w) => Holds(events', w) \/ w = Stop
    BY <2>1 DEF Taken
  <2> QED
    BY <2>2, EventsDiffer DEF Travels
<1>3. InFlight' = InFlight
  BY <1>1, <1>2, FlightStays DEF SameTravels
<1> QED
  BY <1>1, <1>3 DEF Link!vars

LEMMA PassIsQuiet ==
  ASSUME PathInv, Pass
  PROVE  UNCHANGED Link!vars
<1>1. /\ UNCHANGED <<transmitted, queue, received>>
      /\ events' = Elapse(events) /\ events # <<>> /\ Head(events).wait > 0
      /\ events \in Seq(Events(Whats)) /\ Sorted(events) /\ HostsOK /\ DOMAIN queue = Hosts
  BY DEF Pass, PathInv, EventsOK, HostsOK, vars
<1>2. /\ DOMAIN events' = DOMAIN events
      /\ \A i \in DOMAIN events : events'[i].what = events[i].what
  BY <1>1, ElapseKeeps
<1>3. \A g, m : Travels(events', g, m) <=> Travels(events, g, m)
  BY <1>2 DEF Travels, Holds
<1>4. InFlight' = InFlight
  BY <1>1, <1>3, FlightStays DEF SameTravels
<1> QED
  BY <1>1, <1>4 DEF Link!vars

(* However long the queue and whatever the times of transmission and of the*)
(* channel, the path is the link that the negotiations are modelled over:  *)
(* events of the same time run in the order in which they were scheduled   *)
(* (default-simulator-impl.cc:245), so no packet overtakes another, none   *)
(* arrives twice, and DropTailQueue (drop-tail-queue.cc:89) drops one only *)
(* when a whole queue and one more are on their way.                       *)
THEOREM ImplementsFifo == PathSpec => ImplementsLossyFifo
<1>1. PathInit => Link!Init
  <2> SUFFICES ASSUME PathInit
               PROVE  Link!Init
    OBVIOUS
  <2>1. /\ transmitted = [h \in Hosts |-> 0] /\ received = [h \in Hosts |-> <<>>]
        /\ \A h \in Hosts : queue[h] = <<>> /\ transmitted[h] = 0
    BY DEF PathInit, Init
  <2>2. \A h \in Hosts : Flight(events, queue[h], transmitted[h], h) = {}
    <3>1. Range(<<>>) = {} /\ 1 .. 0 = {}
      BY DEF Range
    <3> QED
      BY <2>1, <3>1 DEF Flight
  <2>3. InFlight = [h \in Hosts |-> {}]
    BY <2>2, InFlightIs
  <2> QED
    BY <2>1, <2>3 DEF Link!Init
<1>2. PathInv /\ PortsInv /\ OrderInv /\ [PathNext]_pathVars => [Link!Next]_Link!vars
  <2> SUFFICES ASSUME PathInv, PortsInv, OrderInv, [PathNext]_pathVars
               PROVE  Link!Next \/ UNCHANGED Link!vars
    OBVIOUS
  <2>1. CASE UNCHANGED pathVars
    <3>1. UNCHANGED <<events, queue, transmitted, received>> /\ HostsOK /\ DOMAIN queue = Hosts
      BY <2>1 DEF pathVars, vars, PathInv, HostsOK
    <3>2. InFlight' = InFlight
      BY <3>1, FlightStays DEF SameTravels
    <3> QED
      BY <3>1, <3>2 DEF Link!vars
  <2>2. ASSUME NEW h \in Hosts, Transmit(h)
        PROVE  Link!Next \/ UNCHANGED Link!vars
    BY <2>2, TransmitIsLink DEF Link!Next
  <2>3. CASE ProcessOneEvent
    BY <2>3, StopIsQuiet, CompleteIsQuiet, ArriveIsQuiet, HandOnDelivers
       DEF ProcessOneEvent, Link!Next
  <2>4. CASE Pass
    BY <2>4, PassIsQuiet
  <2> QED
    BY <2>1, <2>2, <2>3, <2>4 DEF PathNext
<1> QED
  BY <1>1, <1>2, PathInvariance, OrderInvariance, PathPorts, PortsInvariance, PTL
     DEF PathSpec, ImplementsLossyFifo
=============================================================================
