------------------------- MODULE PacketHandlerProofs -------------------------
(***************************************************************************)
(* Proofs about NetPacket and PacketHandler, for every size of bytes,      *)
(* header fields and limits, every set of kinds of packets and every way   *)
(* the bytes may arrive in pieces.                                         *)
(***************************************************************************)
EXTENDS PacketHandler, NumberTheorems, FiniteSetTheorems

-----------------------------------------------------------------------------
(* Integers as bytes.                                                      *)

Octets == 0 .. Base - 1

\* The powers of Base are what their definition says.
LEMMA PowFacts ==
    /\ Pow[0] = 1
    /\ \A n \in Nat : Pow[n] \in Nat \ {0} /\ Pow[n + 1] = Base * Pow[n]
<1> DEFINE S == Nat \ {0}
           step == [n \in Nat |-> [v \in S |-> Base * v]]
           Powers(f) == f = [n \in Nat |-> IF n = 0 THEN 1 ELSE Base * f[n - 1]]
<1>1. Base \in Nat \ {0, 1}
  BY NetPacketAssumption
<1>2. step \in [Nat -> [S -> S]] /\ 1 \in S
  BY <1>1
<1>3. PICK g : Iterates(g, S, 1, step)
  <2> HIDE DEF S, step
  <2> QED  BY <1>2, Recursion
<1>4. /\ g \in [Nat -> S] /\ g[0] = 1
      /\ \A n \in Nat : g[n + 1] = step[n][g[n]]
  BY <1>3 DEF Iterates
<1>5. ASSUME NEW n \in Nat
      PROVE  g[n] = IF n = 0 THEN 1 ELSE Base * g[n - 1]
  <2>1. CASE n = 0
    BY <2>1, <1>4
  <2>2. CASE n # 0
    <3>1. n - 1 \in Nat /\ (n - 1) + 1 = n
      BY <2>2
    <3>2. g[(n - 1) + 1] = step[n - 1][g[n - 1]]
      BY <3>1, <1>4
    <3>3. step[n - 1][g[n - 1]] = Base * g[n - 1]
      BY <3>1, <1>4
    <3> QED  BY <3>1, <3>2, <3>3, <2>2
  <2> QED  BY <2>1, <2>2
<1>6. Powers(g)
  BY <1>4, <1>5
<1>7. Powers(CHOOSE f : Powers(f))
  <2>1. \E f : Powers(f)
    BY <1>6
  <2> HIDE DEF Powers
  <2> QED  BY <2>1
<1>8. Pow = [n \in Nat |-> IF n = 0 THEN 1 ELSE Base * Pow[n - 1]]
  BY <1>7 DEF Pow
<1> HIDE DEF S, step, Powers
<1>9. Pow[0] = 1 /\ \A n \in Nat : Pow[n + 1] = Base * Pow[n]
  <2>1. Pow[0] = 1
    BY <1>8
  <2>2. ASSUME NEW n \in Nat
        PROVE  Pow[n + 1] = Base * Pow[n]
    <3>1. n + 1 \in Nat /\ n + 1 # 0 /\ (n + 1) - 1 = n
      OBVIOUS
    <3> QED  BY <3>1, <1>8
  <2> QED  BY <2>1, <2>2
<1>10. \A n \in Nat : Pow[n] \in Nat \ {0}
  <2> DEFINE T == {n \in Nat : Pow[n] \notin Nat \ {0}}
  <2>1. SUFFICES ASSUME T # {}
        PROVE  FALSE
    OBVIOUS
  <2>2. PICK m \in T : \A n \in T : m <= n
    BY <2>1, Least
  <2>3. m \in Nat /\ m # 0 /\ Pow[m] \notin Nat \ {0}
    BY <2>2, <1>9
  <2>4. m - 1 \in Nat /\ (m - 1) + 1 = m /\ ~(m <= m - 1)
    BY <2>3
  <2>5. Pow[m - 1] \in Nat \ {0}
    BY <2>2, <2>4
  <2>6. Pow[m] = Base * Pow[m - 1]
    BY <2>4, <1>9
  <2>7. Base * Pow[m - 1] \in Nat \ {0}
    BY <2>5, <1>1
  <2> QED  BY <2>3, <2>6, <2>7
<1> QED  BY <1>9, <1>10

\* The bytes of a number are bytes; the first is its remainder, the others are
\* those of its quotient.
LEMMA StoredFacts ==
    ASSUME NEW n \in Nat, NEW size \in Nat
    PROVE  /\ Stored(n, size) \in [1 .. size -> Octets]
           /\ n \div Base \in Nat
           /\ n = Base * (n \div Base) + (n % Base)
           /\ n % Base \in Octets
           /\ size # 0 => Stored(n, size)[1] = n % Base
           /\ \A k \in 1 .. size :
                 k # 1 => Stored(n, size)[k] = Stored(n \div Base, size - 1)[k - 1]
<1>1. Base \in Nat \ {0, 1}
  BY NetPacketAssumption
<1>2. \A v \in Nat : v % Base \in Octets
  BY <1>1 DEF Octets
<1>3. ASSUME NEW k \in 1 .. size
      PROVE  n \div Pow[k - 1] \in Nat
  <2>1. Pow[k - 1] \in Nat \ {0}
    BY PowFacts
  <2> QED  BY <2>1
<1>4. Stored(n, size) \in [1 .. size -> Octets]
  BY <1>2, <1>3 DEF Stored
<1>5. n \div Base \in Nat /\ n = Base * (n \div Base) + (n % Base)
  <2>1. n \div Base \in Nat
    BY <1>1
  <2>2. n = Base * (n \div Base) + (n % Base)
    BY <1>1
  <2> QED  BY <2>1, <2>2
<1>6. ASSUME size # 0
      PROVE  Stored(n, size)[1] = n % Base
  <2>1. n \div Pow[1 - 1] = n
    BY PowFacts
  <2> QED  BY <2>1, <1>6 DEF Stored
<1>7. ASSUME NEW k \in 1 .. size, k # 1
      PROVE  Stored(n, size)[k] = Stored(n \div Base, size - 1)[k - 1]
  <2>1. k - 2 \in Nat /\ k - 1 = (k - 2) + 1 /\ k - 1 \in 1 .. size - 1
        /\ (k - 1) - 1 = k - 2
    BY <1>7
  <2> DEFINE p == Pow[k - 2]
  <2>2. p \in Nat \ {0} /\ Pow[k - 1] = Base * p
    BY <2>1, PowFacts
  <2> HIDE DEF p
  <2>3. n \div (Base * p) = (n \div Base) \div p
    BY <2>2, <1>1, DivDiv
  <2>4. Stored(n, size)[k] = (n \div Pow[k - 1]) % Base
    BY DEF Stored
  <2>5. Stored(n \div Base, size - 1)[k - 1] = ((n \div Base) \div Pow[k - 2]) % Base
    BY <2>1 DEF Stored
  <2> QED  BY <2>2, <2>3, <2>4, <2>5 DEF p
<1> QED  BY <1>2, <1>4, <1>5, <1>6, <1>7

\* Every list of bytes is a number's, and only one number's of that size.
LEMMA StoredIsBijection ==
    ASSUME NEW size \in Nat
    PROVE  /\ \A bytes \in [1 .. size -> Octets] :
                 \E n \in Nat : n < Pow[size] /\ Stored(n, size) = bytes
           /\ \A m, n \in Nat :
                 m < Pow[size] /\ n < Pow[size] /\ Stored(m, size) = Stored(n, size)
                    => m = n
<1> DEFINE Onto(s) == \A bytes \in [1 .. s -> Octets] :
                         \E n \in Nat : n < Pow[s] /\ Stored(n, s) = bytes
           OneToOne(s) == \A m, n \in Nat :
                             /\ m < Pow[s] /\ n < Pow[s]
                             /\ Stored(m, s) = Stored(n, s)
                             => m = n
           T == {s \in Nat : ~(Onto(s) /\ OneToOne(s))}
<1>1. SUFFICES ASSUME T # {}
      PROVE  FALSE
  OBVIOUS
<1>2. PICK s \in T : \A r \in T : s <= r
  <2>1. T \subseteq Nat
    OBVIOUS
  <2> HIDE DEF T
  <2> QED  BY <2>1, <1>1, Least
<1>3. s \in Nat /\ ~(Onto(s) /\ OneToOne(s))
  BY <1>2
<1>4. Base \in Nat \ {0, 1}
  BY NetPacketAssumption
<1>5. CASE s = 0
  <2>1. Pow[0] = 1 /\ 1 .. 0 = {}
    BY PowFacts
  <2>2. Onto(0)
    <3>1. ASSUME NEW bytes \in [1 .. 0 -> Octets]
          PROVE  0 < Pow[0] /\ Stored(0, 0) = bytes
      BY <2>1 DEF Stored
    <3> QED  BY <3>1
  <2>3. OneToOne(0)
    BY <2>1
  <2> QED  BY <2>2, <2>3, <1>3, <1>5
<1>6. CASE s # 0
  <2> DEFINE r == s - 1
  <2>1. r \in Nat /\ s = r + 1
    BY <1>3, <1>6
  <2>2. Onto(r) /\ OneToOne(r)
    <3>1. ~(s <= r)
      BY <2>1
    <3>2. r \notin T
      BY <3>1, <1>2
    <3> QED  BY <3>2, <2>1
  <2> HIDE DEF r
  <2>3. Pow[r] \in Nat \ {0} /\ Pow[s] = Base * Pow[r] /\ s - 1 = r
    BY <2>1, PowFacts
  <2>4. Onto(s)
    <3>1. SUFFICES ASSUME NEW bytes \in [1 .. s -> Octets]
          PROVE  \E n \in Nat : n < Pow[s] /\ Stored(n, s) = bytes
      OBVIOUS
    <3> DEFINE rest == [k \in 1 .. r |-> bytes[k + 1]]
    <3>2. rest \in [1 .. r -> Octets]
      BY <2>1
    <3>3. PICK q \in Nat : q < Pow[r] /\ Stored(q, r) = rest
      BY <2>2, <3>2
    <3> DEFINE b == bytes[1]
               n == Base * q + b
    <3>4. b \in Nat /\ b < Base
      BY <2>1, <1>4 DEF Octets
    <3> HIDE DEF b
    <3>5. Base * q \in Nat /\ n \in Nat
      BY <3>4, <1>4
    <3>6. n < (q + 1) * Base /\ q * Base <= n
      BY <3>4, <3>5, <1>4
    <3>7. n < Pow[s]
      <4>1. q + 1 <= Pow[r]
        BY <3>3, <2>3
      <4>2. (q + 1) * Base <= Pow[r] * Base
        BY <4>1, <2>3, <1>4
      <4>3. (q + 1) * Base \in Nat /\ Pow[r] * Base = Pow[s] /\ Pow[r] * Base \in Nat
        BY <2>3, <1>4
      <4> QED  BY <4>2, <4>3, <3>5, <3>6
    <3>8. n \div Base = q
      <4> HIDE DEF n
      <4>1. n \div Base \in Int
        BY <3>5, <1>4
      <4>2. n \div Base <= q /\ q <= n \div Base
        BY <3>5, <3>6, <1>4, DivBetween
      <4> QED  BY <4>1, <4>2
    <3>9. n % Base = b
      <4>1. n = Base * (n \div Base) + (n % Base) /\ n % Base \in Octets
        BY <3>5, <2>1, StoredFacts
      <4>2. Base * q + b = Base * q + (n % Base) /\ n % Base \in Nat
        BY <4>1, <3>8 DEF Octets
      <4> QED  BY <4>2, <3>4, <3>5
    <3> HIDE DEF n
    <3>10. /\ Stored(n, s) \in [1 .. s -> Octets]
           /\ Stored(n, s)[1] = b
           /\ \A k \in 1 .. s : k # 1 => Stored(n, s)[k] = rest[k - 1]
      <4>1. /\ Stored(n, s) \in [1 .. s -> Octets]
            /\ Stored(n, s)[1] = n % Base
            /\ \A k \in 1 .. s :
                  k # 1 => Stored(n, s)[k] = Stored(n \div Base, s - 1)[k - 1]
        BY <3>5, <1>3, <1>6, StoredFacts
      <4> QED  BY <4>1, <3>3, <3>8, <3>9, <2>3
    <3>11. ASSUME NEW k \in 1 .. s
           PROVE  Stored(n, s)[k] = bytes[k]
      <4>1. CASE k = 1
        BY <4>1, <3>10 DEF b
      <4>2. CASE k # 1
        <5>1. k - 1 \in 1 .. r /\ (k - 1) + 1 = k
          BY <4>2, <2>1
        <5> QED  BY <5>1, <4>2, <3>10
      <4> QED  BY <4>1, <4>2
    <3>12. Stored(n, s) = bytes
      BY <3>10, <3>11
    <3> QED  BY <3>5, <3>7, <3>12
  <2>5. OneToOne(s)
    <3>1. SUFFICES ASSUME NEW m \in Nat, NEW n \in Nat, m < Pow[s], n < Pow[s],
                          Stored(m, s) = Stored(n, s)
          PROVE  m = n
      OBVIOUS
    <3> DEFINE mq == m \div Base
               nq == n \div Base
    <3>2. /\ mq \in Nat /\ m = Base * mq + (m % Base) /\ m % Base \in Octets
          /\ nq \in Nat /\ n = Base * nq + (n % Base) /\ n % Base \in Octets
          /\ Stored(m, s)[1] = m % Base /\ Stored(n, s)[1] = n % Base
          /\ \A k \in 1 .. s : k # 1 => /\ Stored(m, s)[k] = Stored(mq, r)[k - 1]
                                       /\ Stored(n, s)[k] = Stored(nq, r)[k - 1]
      <4>1. ASSUME NEW v \in Nat
            PROVE  /\ v \div Base \in Nat
                   /\ v = Base * (v \div Base) + (v % Base)
                   /\ v % Base \in Octets
                   /\ Stored(v, s)[1] = v % Base
                   /\ \A k \in 1 .. s :
                         k # 1 => Stored(v, s)[k] = Stored(v \div Base, s - 1)[k - 1]
        BY <1>3, <1>6, StoredFacts
      <4> QED  BY <4>1, <2>3, <3>1
    <3>3. mq < Pow[r] /\ nq < Pow[r]
      <4>1. ASSUME NEW v \in Nat, v < Pow[s]
            PROVE  v \div Base < Pow[r]
        <5>1. v < ((Pow[r] - 1) + 1) * Base
          BY <4>1, <2>3, <1>4
        <5>2. v \div Base <= Pow[r] - 1
          BY <5>1, <2>3, <1>4, DivBetween
        <5>3. v \div Base \in Int
          BY <1>4
        <5> QED  BY <5>2, <5>3, <2>3
      <4> QED  BY <4>1, <3>1
    <3> HIDE DEF mq, nq
    <3>4. Stored(mq, r) = Stored(nq, r)
      <4>1. /\ Stored(mq, r) \in [1 .. r -> Octets]
            /\ Stored(nq, r) \in [1 .. r -> Octets]
        BY <3>2, <2>1, StoredFacts
      <4>2. ASSUME NEW k \in 1 .. r
            PROVE  Stored(mq, r)[k] = Stored(nq, r)[k]
        <5>1. k + 1 \in 1 .. s /\ k + 1 # 1 /\ (k + 1) - 1 = k
          BY <2>1
        <5> QED  BY <5>1, <3>1, <3>2
      <4>3. r \in Nat
        BY <2>1
      <4> QED  BY <4>1, <4>2, <4>3
    <3>5. mq = nq
      BY <3>2, <3>3, <3>4, <2>2
    <3> QED  BY <3>1, <3>2, <3>5
  <2> QED  BY <2>4, <2>5, <1>3
<1> QED  BY <1>5, <1>6

\* Loading gives the number that was stored, and storing the bytes it was
\* loaded from.
LEMMA LoadedFacts ==
    ASSUME NEW size \in Nat
    PROVE  /\ \A bytes \in [1 .. size -> Octets] :
                 /\ Loaded(bytes) \in Nat /\ Loaded(bytes) < Pow[size]
           /\ \A n \in Nat : n < Pow[size] => Loaded(Stored(n, size)) = n
<1>1. Pow[size] \in Nat
  BY PowFacts
<1>2. ASSUME NEW bytes \in [1 .. size -> Octets]
      PROVE  /\ Loaded(bytes) \in Nat /\ Loaded(bytes) < Pow[size]
             /\ Stored(Loaded(bytes), size) = bytes
  <2>1. Len(bytes) = size
    OBVIOUS
  <2>2. PICK n \in Nat : n < Pow[size] /\ Stored(n, size) = bytes
    BY StoredIsBijection
  <2>3. n \in 0 .. Pow[size] - 1
    BY <2>2, <1>1
  <2>4. /\ Loaded(bytes) \in 0 .. Pow[size] - 1
        /\ Stored(Loaded(bytes), size) = bytes
    BY <2>1, <2>2, <2>3 DEF Loaded
  <2> QED  BY <2>4, <1>1
<1>3. ASSUME NEW n \in Nat, n < Pow[size]
      PROVE  Loaded(Stored(n, size)) = n
  <2>1. Stored(n, size) \in [1 .. size -> Octets]
    BY StoredFacts
  <2> QED  BY <2>1, <1>2, <1>3, StoredIsBijection
<1> QED  BY <1>2, <1>3

\* swap_endian keeps the bytes and undoes itself.
LEMMA SwapFacts ==
    ASSUME NEW size \in Nat, NEW bytes \in [1 .. size -> Octets]
    PROVE  /\ swap_endian(bytes) \in [1 .. size -> Octets]
           /\ swap_endian(swap_endian(bytes)) = bytes
<1> DEFINE once == [i \in 1 .. size |-> bytes[(size - i) + 1]]
           twice == [i \in 1 .. size |-> once[(size - i) + 1]]
<1>1. Len(bytes) = size
  OBVIOUS
<1>2. swap_endian(bytes) = once
  BY <1>1 DEF swap_endian, Reverse
<1>3. \A i \in 1 .. size : (size - i) + 1 \in 1 .. size
  OBVIOUS
<1>4. once \in [1 .. size -> Octets]
  BY <1>3
<1>5. Len(once) = size
  BY <1>4
<1>6. swap_endian(once) = twice
  BY <1>5 DEF swap_endian, Reverse
<1>7. ASSUME NEW i \in 1 .. size
      PROVE  twice[i] = bytes[i]
  <2>1. (size - ((size - i) + 1)) + 1 = i /\ (size - i) + 1 \in 1 .. size
    BY <1>3
  <2> QED  BY <2>1
<1>8. twice = bytes
  BY <1>7
<1> QED  BY <1>2, <1>4, <1>6, <1>8

\* A number in network byte order is read back.
LEMMA NetFacts ==
    ASSUME NEW size \in Nat
    PROVE  /\ \A n \in Nat : ToNet(n, size) \in [1 .. size -> Octets]
           /\ \A bytes \in [1 .. size -> Octets] :
                 FromNet(bytes) \in Nat /\ FromNet(bytes) < Pow[size]
           /\ \A n \in Nat : n < Pow[size] => FromNet(ToNet(n, size)) = n
<1>1. ASSUME NEW n \in Nat
      PROVE  /\ ToNet(n, size) \in [1 .. size -> Octets]
             /\ FromNet(ToNet(n, size)) = Loaded(Stored(n, size))
  <2>1. Stored(n, size) \in [1 .. size -> Octets]
    BY StoredFacts
  <2> QED  BY <2>1, SwapFacts DEF ToNet, FromNet
<1>2. ASSUME NEW bytes \in [1 .. size -> Octets]
      PROVE  FromNet(bytes) \in Nat /\ FromNet(bytes) < Pow[size]
  <2>1. swap_endian(bytes) \in [1 .. size -> Octets]
    BY SwapFacts
  <2> QED  BY <2>1, LoadedFacts DEF FromNet
<1> QED  BY <1>1, <1>2, LoadedFacts

-----------------------------------------------------------------------------
(* Packets.                                                                *)

AnyPacket == [opcode : [1 .. OpcodeBytes -> Octets],
              size : [1 .. SizeBytes -> Octets],
              has : BOOLEAN, body : Seq(Octets)]

\* The constants have their types.
LEMMA ConstantTypes ==
    /\ Base \in Nat \ {0, 1} /\ OpcodeBytes \in Nat \ {0} /\ SizeBytes \in Nat \ {0}
    /\ HeadSize \in Nat \ {0} /\ HeadSize = OpcodeBytes + SizeBytes
    /\ kMaxOpcode \in Nat /\ kMaxPayloadSize \in Nat \ {0}
    /\ kMaxPayloadSize < Pow[SizeBytes]
    /\ 0 \in Octets /\ Octets \subseteq Nat
<1>1. Pow[SizeBytes] \in Nat
  BY NetPacketAssumption, PowFacts
<1> QED  BY <1>1, NetPacketAssumption DEF HeadSize, Octets

\* The size a header holds is a number of SizeBytes bytes.
LEMMA HeadSizeType ==
    ASSUME NEW p \in AnyPacket
    PROVE  GetHeadSize(p) \in Nat /\ FromNet(p.opcode) \in Nat
<1>1. p.size \in [1 .. SizeBytes -> Octets] /\ p.opcode \in [1 .. OpcodeBytes -> Octets]
  BY DEF AnyPacket
<1>2. SizeBytes \in Nat /\ OpcodeBytes \in Nat
  BY ConstantTypes
<1> QED  BY <1>1, <1>2, NetFacts DEF GetHeadSize

\* A new packet, with an empty body.
LEMMA NewFacts ==
    ASSUME NEW opcode \in Nat
    PROVE  LET p == ResizeBody(NewPacket(opcode), 0)
           IN  p \in AnyPacket /\ p.has = TRUE /\ p.body = << >> /\ GetHeadSize(p) = 0
<1> DEFINE q == NewPacket(opcode)
           p == ResizeBody(q, 0)
<1>1. /\ ToNet(opcode, OpcodeBytes) \in [1 .. OpcodeBytes -> Octets]
      /\ ToNet(0, SizeBytes) \in [1 .. SizeBytes -> Octets]
      /\ FromNet(ToNet(0, SizeBytes)) = 0
  <2>1. 0 < Pow[SizeBytes]
    BY ConstantTypes, PowFacts
  <2> QED  BY <2>1, ConstantTypes, NetFacts
<1>2. << >> \in Seq(Octets)
  OBVIOUS
<1>3. /\ q \in AnyPacket /\ q.size = ToNet(0, SizeBytes)
      /\ q.opcode = ToNet(opcode, OpcodeBytes) /\ q.body = << >>
  BY <1>1, <1>2 DEF NewPacket, AnyPacket
<1> HIDE DEF q
<1>4. [k \in 1 .. 0 |-> IF k <= Len(q.body) THEN q.body[k] ELSE 0] = << >>
  OBVIOUS
<1>5. /\ p.has = TRUE /\ p.size = q.size /\ p.opcode = q.opcode /\ p.body = << >>
      /\ p \in AnyPacket
  BY <1>2, <1>3, <1>4 DEF ResizeBody, AnyPacket
<1>6. GetHeadSize(p) = 0
  BY <1>1, <1>3, <1>5 DEF GetHeadSize
<1> QED  BY <1>5, <1>6 DEF q

Field == [value : Nat, size : Nat]

\* operator<< makes a packet of a packet.
LEMMA PutFacts ==
    ASSUME NEW p \in AnyPacket, NEW f \in Field
    PROVE  /\ Put(p, f) \in AnyPacket /\ Put(p, f).has = TRUE
           /\ Put(p, f).opcode = p.opcode
           /\ Put(p, f).body = p.body \o ToNet(f.value, f.size)
           /\ Len(Put(p, f).body) = Len(p.body) + f.size
           /\ Put(p, f).size = ToNet(Len(p.body) + f.size, SizeBytes)
<1>1. f.value \in Nat /\ f.size \in Nat /\ p.body \in Seq(Octets)
  BY DEF Field, AnyPacket
<1>2. ToNet(f.value, f.size) \in [1 .. f.size -> Octets]
  BY <1>1, NetFacts
<1>3. Len(p.body) + f.size \in Nat
  BY <1>1
<1>4. ToNet(Len(p.body) + f.size, SizeBytes) \in [1 .. SizeBytes -> Octets]
  BY <1>3, ConstantTypes, NetFacts
<1>5. /\ ToNet(f.value, f.size) \in Seq(Octets) /\ Len(ToNet(f.value, f.size)) = f.size
  BY <1>1, <1>2
<1>6. p.body \o ToNet(f.value, f.size) \in Seq(Octets)
  BY <1>1, <1>5
<1>7. Len(p.body \o ToNet(f.value, f.size)) = Len(p.body) + f.size
  <2> DEFINE t == ToNet(f.value, f.size)
             b == p.body
  <2>1. t \in Seq(Octets) /\ b \in Seq(Octets) /\ Len(t) = f.size
    BY <1>1, <1>5
  <2> HIDE DEF t, b
  <2>2. Len(b \o t) = Len(b) + Len(t)
    BY <2>1
  <2> QED  BY <2>1, <2>2 DEF t, b
<1> QED  BY <1>4, <1>6, <1>7 DEF Put, AnyPacket

\* The packets of a kind are what their definition says.
LEMMA FilledFacts ==
    ASSUME NEW kind \in Kinds
    PROVE  /\ kind.fields \in Seq(Field) /\ kind.opcode \in Nat
           /\ Filled(kind)[0] = ResizeBody(NewPacket(kind.opcode), 0)
           /\ \A m \in 0 .. Len(kind.fields) : Filled(kind)[m] \in AnyPacket
           /\ \A m \in 1 .. Len(kind.fields) :
                 Filled(kind)[m] = Put(Filled(kind)[m - 1], kind.fields[m])
<1> DEFINE fs == kind.fields
           first == ResizeBody(NewPacket(kind.opcode), 0)
           S == AnyPacket
           step == [n \in Nat |-> [p \in S |->
                       IF n + 1 \in 1 .. Len(fs) THEN Put(p, fs[n + 1]) ELSE p]]
           IsFilled(f) == f = [m \in 0 .. Len(fs) |->
                                 IF m = 0 THEN first ELSE Put(f[m - 1], fs[m])]
<1>1. fs \in Seq(Field) /\ kind.opcode \in Nat
  <2>1. Pow[OpcodeBytes] \in Nat
    BY ConstantTypes, PowFacts
  <2>2. kind \in [opcode : 0 .. Pow[OpcodeBytes] - 1, fields : Seq(Field)]
    BY PacketHandlerAssumption DEF Field
  <2> QED  BY <2>1, <2>2
<1>2. first \in S
  BY <1>1, NewFacts
<1>3. \A m \in 1 .. Len(fs) : fs[m] \in Field
  BY <1>1
<1>4. step \in [Nat -> [S -> S]]
  <2>1. ASSUME NEW n \in Nat, NEW p \in S
        PROVE  (IF n + 1 \in 1 .. Len(fs) THEN Put(p, fs[n + 1]) ELSE p) \in S
    BY <1>3, PutFacts
  <2> HIDE DEF S, fs
  <2> QED  BY <2>1
<1>5. PICK g : Iterates(g, S, first, step)
  <2> HIDE DEF S, first, step
  <2> QED  BY <1>2, <1>4, Recursion
<1>6. /\ g \in [Nat -> S] /\ g[0] = first
      /\ \A n \in Nat : g[n + 1] = step[n][g[n]]
  <2> HIDE DEF S, first, step
  <2> QED  BY <1>5 DEF Iterates
<1> DEFINE h == [m \in 0 .. Len(fs) |-> g[m]]
<1> HIDE DEF S, first
<1>7. ASSUME NEW m \in 1 .. Len(fs)
      PROVE  g[m] = Put(g[m - 1], fs[m])
  <2>1. m - 1 \in Nat /\ (m - 1) + 1 = m
    OBVIOUS
  <2>2. g[m - 1] \in S
    BY <2>1, <1>6
  <2>3. step[m - 1][g[m - 1]] = Put(g[m - 1], fs[m])
    BY <2>1, <2>2
  <2> QED  BY <2>1, <2>3, <1>6
<1> HIDE DEF step
<1>8. IsFilled(h)
  <2>1. Len(fs) \in Nat
    BY <1>1
  <2>2. ASSUME NEW m \in 0 .. Len(fs)
        PROVE  h[m] = IF m = 0 THEN first ELSE Put(h[m - 1], fs[m])
    <3>1. CASE m = 0
      BY <3>1, <1>6
    <3>2. CASE m # 0
      <4>1. m \in 1 .. Len(fs) /\ m - 1 \in 0 .. Len(fs)
        BY <3>2, <2>1
      <4> QED  BY <4>1, <3>2, <1>7
    <3> QED  BY <3>1, <3>2
  <2> QED  BY <2>2
<1>9. IsFilled(CHOOSE f : IsFilled(f))
  <2>1. \E f : IsFilled(f)
    BY <1>8
  <2> HIDE DEF IsFilled
  <2> QED  BY <2>1
<1>10. Filled(kind) = CHOOSE f : IsFilled(f)
  BY Zenon DEF Filled, first
<1>11. IsFilled(Filled(kind))
  <2> HIDE DEF IsFilled
  <2> QED  BY <1>9, <1>10
<1> DEFINE F == Filled(kind)
<1>12. /\ F[0] = first
       /\ \A m \in 1 .. Len(fs) : F[m] = Put(F[m - 1], fs[m])
  <2>1. Len(fs) \in Nat
    BY <1>1
  <2>2. \A m \in 0 .. Len(fs) : F[m] = IF m = 0 THEN first ELSE Put(F[m - 1], fs[m])
    BY <1>11
  <2> HIDE DEF F, fs
  <2>3. F[0] = first
    BY <2>1, <2>2
  <2>4. ASSUME NEW m \in 1 .. Len(fs)
        PROVE  F[m] = Put(F[m - 1], fs[m])
    <3>1. m \in 0 .. Len(fs) /\ m # 0
      BY <2>1
    <3> QED  BY <3>1, <2>2
  <2> QED  BY <2>3, <2>4
<1>13. \A m \in 0 .. Len(fs) : F[m] \in S
  <2> DEFINE T == {m \in Nat : m <= Len(fs) /\ F[m] \notin S}
  <2>1. SUFFICES ASSUME T # {}
        PROVE  FALSE
    BY <1>1
  <2>2. PICK m \in T : \A n \in T : m <= n
    BY <2>1, Least
  <2>3. m \in Nat /\ m <= Len(fs) /\ F[m] \notin S /\ m # 0
    BY <2>2, <1>2, <1>12
  <2>4. m - 1 \in Nat /\ m - 1 <= Len(fs) /\ ~(m <= m - 1) /\ m \in 1 .. Len(fs)
    BY <2>3, <1>1
  <2>5. F[m - 1] \in S
    BY <2>2, <2>4
  <2>6. F[m] \in S
    BY <2>4, <2>5, <1>3, <1>12, PutFacts DEF S
  <2> QED  BY <2>3, <2>6
<1> QED  BY <1>1, <1>12, <1>13 DEF S, first

\* A packet as a client makes it says how long it is.
LEMMA MadeFacts ==
    ASSUME NEW kind \in Kinds
    PROVE  /\ Made(kind) \in AnyPacket /\ Made(kind).has = TRUE
           /\ GetHeadSize(Made(kind)) = Len(Made(kind).body)
           /\ kind.fields = << >> => Made(kind).body = << >>
<1> DEFINE n == Len(kind.fields)
<1>1. n \in Nat /\ Made(kind) = Filled(kind)[n] /\ kind.opcode \in Nat
  BY FilledFacts DEF Made
<1>2. Made(kind) \in AnyPacket
  BY <1>1, FilledFacts
<1>3. CASE n = 0
  <2>1. Made(kind) = ResizeBody(NewPacket(kind.opcode), 0)
    BY <1>1, <1>3, FilledFacts
  <2>2. /\ Made(kind).has = TRUE /\ Made(kind).body = << >>
        /\ GetHeadSize(Made(kind)) = 0
    BY <2>1, <1>1, NewFacts
  <2> QED  BY <2>2, <1>2
<1>4. CASE n # 0
  <2> DEFINE p == Filled(kind)[n - 1]
             f == kind.fields[n]
             b == Made(kind).body
  <2>1. p \in AnyPacket /\ f \in Field /\ Made(kind) = Put(p, f)
    BY <1>1, <1>4, FilledFacts
  <2> HIDE DEF p, f
  <2>2. /\ Made(kind).has = TRUE /\ Len(b) = Len(p.body) + f.size
        /\ Made(kind).size = ToNet(Len(p.body) + f.size, SizeBytes)
    <3>1. /\ Put(p, f).has = TRUE /\ Len(Put(p, f).body) = Len(p.body) + f.size
          /\ Put(p, f).size = ToNet(Len(p.body) + f.size, SizeBytes)
      BY <2>1, PutFacts
    <3> QED  BY <2>1, <3>1
  <2>3. Len(b) \in Nat /\ Len(b) < Pow[SizeBytes]
    BY <1>2, KindsFit DEF AnyPacket
  <2>4. FromNet(ToNet(Len(b), SizeBytes)) = Len(b)
    BY <2>3, ConstantTypes, NetFacts
  <2>5. GetHeadSize(Made(kind)) = Len(b)
    BY <2>2, <2>4 DEF GetHeadSize
  <2>6. kind.fields # << >>
    BY <1>4
  <2> QED  BY <1>2, <2>2, <2>5, <2>6
<1> QED  BY <1>3, <1>4

\* The bytes behind GetHeadData are the opcode and then the size, and writing
\* them writes both.
LEMMA HeadFacts ==
    ASSUME NEW p \in AnyPacket
    PROVE  /\ HeadBytes(p) \in [1 .. HeadSize -> Octets]
           /\ \A q \in AnyPacket :
                 HeadBytes(p) = HeadBytes(q) => p.opcode = q.opcode /\ p.size = q.size
           /\ \A bytes \in [1 .. HeadSize -> Octets] :
                 /\ WithHead(p, bytes) \in AnyPacket
                 /\ HeadBytes(WithHead(p, bytes)) = bytes
                 /\ WithHead(p, bytes).body = p.body
                 /\ WithHead(p, bytes).has = p.has
<1>1. /\ OpcodeBytes \in Nat /\ SizeBytes \in Nat /\ HeadSize = OpcodeBytes + SizeBytes
      /\ HeadSize \in Nat
  BY ConstantTypes
<1>2. ASSUME NEW q \in AnyPacket
      PROVE  /\ HeadBytes(q) \in [1 .. HeadSize -> Octets]
             /\ \A k \in 1 .. OpcodeBytes : HeadBytes(q)[k] = q.opcode[k]
             /\ \A k \in 1 .. SizeBytes : HeadBytes(q)[OpcodeBytes + k] = q.size[k]
  <2> DEFINE o == q.opcode
             s == q.size
  <2>1. o \in [1 .. OpcodeBytes -> Octets] /\ s \in [1 .. SizeBytes -> Octets]
    BY DEF AnyPacket
  <2>2. HeadBytes(q) = o \o s
    BY DEF HeadBytes
  <2> HIDE DEF o, s
  <2>3. /\ o \in Seq(Octets) /\ s \in Seq(Octets)
        /\ Len(o) = OpcodeBytes /\ Len(s) = SizeBytes
    BY <2>1, <1>1
  <2>4. o \o s \in Seq(Octets) /\ Len(o \o s) = HeadSize
    BY <2>3, <1>1
  <2>5. o \o s \in [1 .. HeadSize -> Octets]
    <3> DEFINE t == o \o s
    <3>1. t \in Seq(Octets) /\ Len(t) = HeadSize
      BY <2>4
    <3> HIDE DEF t
    <3>2. t \in [1 .. HeadSize -> Octets]
      BY <3>1
    <3> QED  BY <3>2 DEF t
  <2>6. \A k \in 1 .. OpcodeBytes : (o \o s)[k] = o[k]
    BY <2>3, <1>1
  <2>7. \A k \in 1 .. SizeBytes : (o \o s)[OpcodeBytes + k] = s[k]
    BY <2>3, <1>1
  <2> QED  BY <2>2, <2>5, <2>6, <2>7 DEF o, s
<1>3. ASSUME NEW q \in AnyPacket, HeadBytes(p) = HeadBytes(q)
      PROVE  p.opcode = q.opcode /\ p.size = q.size
  <2>1. /\ p.opcode \in [1 .. OpcodeBytes -> Octets] /\ p.size \in [1 .. SizeBytes -> Octets]
        /\ q.opcode \in [1 .. OpcodeBytes -> Octets] /\ q.size \in [1 .. SizeBytes -> Octets]
    BY DEF AnyPacket
  <2>2. \A k \in 1 .. OpcodeBytes : p.opcode[k] = q.opcode[k]
    BY <1>2, <1>3
  <2>3. \A k \in 1 .. SizeBytes : p.size[k] = q.size[k]
    BY <1>2, <1>3
  <2>4. p.opcode = q.opcode
    BY <2>1, <2>2, <1>1
  <2>5. p.size = q.size
    BY <2>1, <2>3, <1>1
  <2> QED  BY <2>4, <2>5
<1>4. ASSUME NEW bytes \in [1 .. HeadSize -> Octets]
      PROVE  /\ WithHead(p, bytes) \in AnyPacket
             /\ HeadBytes(WithHead(p, bytes)) = bytes
             /\ WithHead(p, bytes).body = p.body
             /\ WithHead(p, bytes).has = p.has
  <2> DEFINE w == WithHead(p, bytes)
             o == SubSeq(bytes, 1, OpcodeBytes)
             s == SubSeq(bytes, OpcodeBytes + 1, HeadSize)
  <2>1. bytes \in Seq(Octets) /\ Len(bytes) = HeadSize
    BY <1>1
  <2>2. /\ o \in [1 .. OpcodeBytes -> Octets]
        /\ \A k \in 1 .. OpcodeBytes : o[k] = bytes[k]
    <3>1. o = [k \in 1 .. OpcodeBytes |-> bytes[1 + k - 1]]
      BY <1>1
    <3>2. \A k \in 1 .. OpcodeBytes : 1 + k - 1 = k /\ k \in 1 .. HeadSize
      BY <1>1
    <3> QED  BY <3>1, <3>2
  <2>3. /\ s \in [1 .. SizeBytes -> Octets]
        /\ \A k \in 1 .. SizeBytes : s[k] = bytes[OpcodeBytes + k]
    <3>1. HeadSize - (OpcodeBytes + 1) + 1 = SizeBytes /\ OpcodeBytes + 1 \in Nat
      BY <1>1
    <3>2. ASSUME NEW k \in 1 .. SizeBytes
          PROVE  /\ s[k] = bytes[(OpcodeBytes + 1) + k - 1]
                 /\ (OpcodeBytes + 1) + k - 1 = OpcodeBytes + k
                 /\ OpcodeBytes + k \in 1 .. HeadSize
      BY <2>1, <3>1, <1>1
    <3>3. s = [k \in 1 .. SizeBytes |-> bytes[(OpcodeBytes + 1) + k - 1]]
      BY <3>1, <1>1
    <3> QED  BY <3>2, <3>3
  <2> HIDE DEF o, s
  <2>4. /\ w \in AnyPacket /\ w.opcode = o /\ w.size = s
        /\ w.body = p.body /\ w.has = p.has
    BY <2>2, <2>3 DEF WithHead, AnyPacket, o, s
  <2> HIDE DEF w
  <2>5. HeadBytes(w) \in [1 .. HeadSize -> Octets]
    BY <2>4, <1>2
  <2>6. ASSUME NEW k \in 1 .. HeadSize
        PROVE  HeadBytes(w)[k] = bytes[k]
    <3>1. CASE k <= OpcodeBytes
      <4>1. k \in 1 .. OpcodeBytes
        BY <3>1, <1>1
      <4> QED  BY <4>1, <2>2, <2>4, <1>2
    <3>2. CASE ~(k <= OpcodeBytes)
      <4>1. k - OpcodeBytes \in 1 .. SizeBytes /\ OpcodeBytes + (k - OpcodeBytes) = k
        BY <3>2, <1>1
      <4>2. HeadBytes(w)[OpcodeBytes + (k - OpcodeBytes)] = s[k - OpcodeBytes]
        BY <4>1, <2>4, <1>2
      <4>3. s[k - OpcodeBytes] = bytes[OpcodeBytes + (k - OpcodeBytes)]
        BY <4>1, <2>3
      <4> QED  BY <4>1, <4>2, <4>3
    <3> QED  BY <3>1, <3>2
  <2>7. HeadBytes(w) = bytes
    BY <2>5, <2>6, <1>1
  <2> QED  BY <2>4, <2>7 DEF w
<1> QED  BY <1>2, <1>3, <1>4

\* ResizeBody gives the body its new length and leaves the header.
LEMMA ResizeFacts ==
    ASSUME NEW p \in AnyPacket, NEW n \in Nat
    PROVE  /\ ResizeBody(p, n) \in AnyPacket /\ ResizeBody(p, n).has = TRUE
           /\ ResizeBody(p, n).opcode = p.opcode /\ ResizeBody(p, n).size = p.size
           /\ Len(ResizeBody(p, n).body) = n
           /\ \A k \in 1 .. n :
                 k <= Len(p.body) => ResizeBody(p, n).body[k] = p.body[k]
<1> DEFINE b == [k \in 1 .. n |-> IF k <= Len(p.body) THEN p.body[k] ELSE 0]
<1>1. p.body \in Seq(Octets) /\ 0 \in Octets
  BY ConstantTypes DEF AnyPacket
<1>2. b \in [1 .. n -> Octets]
  BY <1>1
<1>3. b \in Seq(Octets) /\ Len(b) = n
  BY <1>2
<1>4. \A k \in 1 .. n : k <= Len(p.body) => b[k] = p.body[k]
  OBVIOUS
<1> HIDE DEF b
<1>5. /\ ResizeBody(p, n).body = b /\ ResizeBody(p, n).has = TRUE
      /\ ResizeBody(p, n).opcode = p.opcode /\ ResizeBody(p, n).size = p.size
      /\ ResizeBody(p, n) \in AnyPacket
  BY <1>3 DEF ResizeBody, AnyPacket, b
<1> QED  BY <1>3, <1>4, <1>5

\* The buffer of a packet with a body is its header and its payload.
LEMMA BufferFacts ==
    ASSUME NEW p \in AnyPacket, p.has = TRUE
    PROVE  /\ MakeBuffer(p) \in Seq(Octets)
           /\ Len(MakeBuffer(p)) = HeadSize + Len(p.body)
           /\ \A k \in 1 .. HeadSize : MakeBuffer(p)[k] = HeadBytes(p)[k]
           /\ \A k \in 1 .. Len(p.body) : MakeBuffer(p)[HeadSize + k] = p.body[k]
<1> DEFINE h == HeadBytes(p)
           b == p.body
<1>1. h \in [1 .. HeadSize -> Octets] /\ b \in Seq(Octets) /\ HeadSize \in Nat
  BY HeadFacts, ConstantTypes DEF AnyPacket
<1>2. MakeBuffer(p) = h \o b
  BY DEF MakeBuffer
<1> HIDE DEF h, b
<1>3. h \in Seq(Octets) /\ Len(h) = HeadSize
  BY <1>1
<1>4. h \o b \in Seq(Octets) /\ Len(h \o b) = HeadSize + Len(b)
  BY <1>1, <1>3
<1>5. \A k \in 1 .. HeadSize : (h \o b)[k] = h[k]
  BY <1>1, <1>3
<1>6. \A k \in 1 .. Len(b) : (h \o b)[HeadSize + k] = b[k]
  BY <1>1, <1>3
<1> QED  BY <1>2, <1>4, <1>5, <1>6 DEF h, b

\* The packets a session may hold are those with a short body.
LEMMA PacketsFacts ==
    ASSUME NEW p
    PROVE  p \in Packets <=> p \in AnyPacket /\ Len(p.body) < kMaxPayloadSize
<1> DEFINE Bodies == UNION {[1 .. n -> 0 .. Base - 1] : n \in 0 .. kMaxPayloadSize - 1}
<1>1. kMaxPayloadSize \in Nat
  BY ConstantTypes
<1>2. ASSUME NEW b
      PROVE  b \in Bodies <=> b \in Seq(Octets) /\ Len(b) < kMaxPayloadSize
  <2>1. ASSUME b \in Bodies
        PROVE  b \in Seq(Octets) /\ Len(b) < kMaxPayloadSize
    <3>1. PICK n \in 0 .. kMaxPayloadSize - 1 : b \in [1 .. n -> Octets]
      BY <2>1 DEF Octets
    <3>2. n \in Nat /\ n < kMaxPayloadSize
      BY <1>1
    <3> QED  BY <3>1, <3>2
  <2>2. ASSUME b \in Seq(Octets), Len(b) < kMaxPayloadSize
        PROVE  b \in Bodies
    <3>1. Len(b) \in 0 .. kMaxPayloadSize - 1 /\ b \in [1 .. Len(b) -> Octets]
      BY <2>2, <1>1
    <3> QED  BY <3>1 DEF Octets
  <2> QED  BY <2>1, <2>2
<1> HIDE DEF Bodies
<1>3. Packets = [opcode : [1 .. OpcodeBytes -> Octets],
                 size : [1 .. SizeBytes -> Octets], has : BOOLEAN, body : Bodies]
  BY DEF Packets, Bodies, Octets
<1>4. ASSUME p \in Packets
      PROVE  p \in AnyPacket /\ Len(p.body) < kMaxPayloadSize
  <2>1. p.body \in Bodies
    BY <1>3, <1>4
  <2>2. p.body \in Seq(Octets) /\ Len(p.body) < kMaxPayloadSize
    BY <2>1, <1>2
  <2> QED  BY <2>2, <1>3, <1>4 DEF AnyPacket
<1>5. ASSUME p \in AnyPacket, Len(p.body) < kMaxPayloadSize
      PROVE  p \in Packets
  <2>1. p.body \in Bodies
    BY <1>2, <1>5 DEF AnyPacket
  <2> QED  BY <2>1, <1>3, <1>5 DEF AnyPacket
<1> QED  BY <1>4, <1>5

-----------------------------------------------------------------------------
(* The read loop.                                                          *)

\* What mode says of the counters: packet_ has the whole header when its body is
\* read, and room for the payload, of which something is missing.
Counters ==
    /\ mode = "head" => head_already_read < HeadSize /\ body_already_read = 0
    /\ mode = "body" => /\ head_already_read = HeadSize
                        /\ packet.has = TRUE
                        /\ IsValidHeader(packet)
                        /\ Len(packet.body) = GetHeadSize(packet)
                        /\ body_already_read < Len(packet.body)

ReadInv == TypeOK /\ Counters

\* The packet after a read of n bytes of the header, and of the body.
HeadRead(n) == WithHead(packet, Received(HeadBytes(packet), head_already_read, n))
BodyRead(n) == [packet EXCEPT !.body = Received(@, body_already_read, n)]

\* The variables have these types.
LEMMA StateTypes ==
    ASSUME ReadInv
    PROVE  /\ sent \in Seq(Kinds) /\ stream \in Seq(Octets)
           /\ head_already_read \in Nat /\ body_already_read \in Nat
           /\ packet \in AnyPacket /\ Len(packet.body) < kMaxPayloadSize
           /\ packet.body \in Seq(Octets) /\ Len(packet.body) \in Nat
           /\ extracted \in Seq(AnyPacket)
           /\ HeadSize \in Nat \ {0} /\ kMaxPayloadSize \in Nat
<1> DEFINE Whole == {p \in Packets : Len(p.body) = GetHeadSize(p)}
<1>1. /\ sent \in Seq(Kinds) /\ stream \in Seq(Octets)
      /\ head_already_read \in 0 .. HeadSize
      /\ body_already_read \in 0 .. kMaxPayloadSize
      /\ packet \in Packets /\ extracted \in Seq(Whole)
  BY DEF ReadInv, TypeOK, Octets
<1>2. packet \in AnyPacket /\ Len(packet.body) < kMaxPayloadSize
  BY <1>1, PacketsFacts
<1>3. Whole \subseteq AnyPacket
  BY PacketsFacts
<1> HIDE DEF Whole
<1>4. extracted \in Seq(AnyPacket)
  BY <1>1, <1>3
<1>5. packet.body \in Seq(Octets)
  BY <1>2 DEF AnyPacket
<1> QED  BY <1>1, <1>2, <1>4, <1>5, ConstantTypes

\* A read changes the bytes it reads and no others.
LEMMA ReceivedFacts ==
    ASSUME NEW len \in Nat, NEW buffer \in [1 .. len -> Octets], NEW at \in Nat,
           NEW n \in Nat, at + n <= len, n <= Len(stream), stream \in Seq(Octets)
    PROVE  /\ Received(buffer, at, n) \in [1 .. len -> Octets]
           /\ \A k \in 1 .. len :
                 Received(buffer, at, n)[k] =
                    IF k \in at + 1 .. at + n THEN stream[k - at] ELSE buffer[k]
<1>1. Received(buffer, at, n) =
        [k \in 1 .. len |->
            IF k \in at + 1 .. at + n THEN stream[k - at] ELSE buffer[k]]
  BY DEF Received
<1>2. ASSUME NEW k \in 1 .. len, k \in at + 1 .. at + n
      PROVE  stream[k - at] \in Octets
  <2>1. k - at \in 1 .. Len(stream)
    BY <1>2
  <2> QED  BY <2>1
<1> QED  BY <1>1, <1>2

\* A read of the header.
LEMMA HeadReadFacts ==
    ASSUME ReadInv, mode = "head", NEW n \in 1 .. HeadSizeLeft, n <= Len(stream)
    PROVE  /\ n \in Nat /\ n >= 1 /\ head_already_read + n <= HeadSize
           /\ HeadRead(n) \in AnyPacket
           /\ HeadRead(n).body = packet.body /\ HeadRead(n).has = packet.has
           /\ \A k \in 1 .. HeadSize :
                 HeadBytes(HeadRead(n))[k] =
                    IF k \in head_already_read + 1 .. head_already_read + n
                    THEN stream[k - head_already_read] ELSE HeadBytes(packet)[k]
<1> DEFINE bytes == Received(HeadBytes(packet), head_already_read, n)
<1>1. /\ stream \in Seq(Octets) /\ head_already_read \in Nat /\ packet \in AnyPacket
      /\ HeadSize \in Nat
  BY StateTypes
<1>2. n \in Nat /\ n >= 1 /\ head_already_read + n <= HeadSize
  BY <1>1 DEF HeadSizeLeft
<1>3. HeadBytes(packet) \in [1 .. HeadSize -> Octets]
  BY <1>1, HeadFacts
<1>4. /\ bytes \in [1 .. HeadSize -> Octets]
      /\ \A k \in 1 .. HeadSize :
            bytes[k] = IF k \in head_already_read + 1 .. head_already_read + n
                       THEN stream[k - head_already_read] ELSE HeadBytes(packet)[k]
  BY <1>1, <1>2, <1>3, ReceivedFacts
<1> HIDE DEF bytes
<1>5. HeadRead(n) = WithHead(packet, bytes)
  BY DEF HeadRead, bytes
<1>6. /\ WithHead(packet, bytes) \in AnyPacket
      /\ HeadBytes(WithHead(packet, bytes)) = bytes
      /\ WithHead(packet, bytes).body = packet.body
      /\ WithHead(packet, bytes).has = packet.has
  BY <1>1, <1>4, HeadFacts
<1> QED  BY <1>2, <1>4, <1>5, <1>6

\* A read of the body.
LEMMA BodyReadFacts ==
    ASSUME ReadInv, mode = "body", NEW n \in 1 .. BodySizeLeft, n <= Len(stream)
    PROVE  /\ n \in Nat /\ n >= 1 /\ body_already_read + n <= Len(packet.body)
           /\ BodyRead(n) \in AnyPacket
           /\ BodyRead(n).opcode = packet.opcode /\ BodyRead(n).size = packet.size
           /\ BodyRead(n).has = packet.has
           /\ Len(BodyRead(n).body) = Len(packet.body)
           /\ \A k \in 1 .. Len(packet.body) :
                 BodyRead(n).body[k] =
                    IF k \in body_already_read + 1 .. body_already_read + n
                    THEN stream[k - body_already_read] ELSE packet.body[k]
<1> DEFINE old == packet.body
           new == Received(packet.body, body_already_read, n)
<1>1. /\ stream \in Seq(Octets) /\ body_already_read \in Nat /\ packet \in AnyPacket
      /\ old \in Seq(Octets) /\ Len(old) \in Nat
  BY StateTypes
<1>2. n \in Nat /\ n >= 1 /\ body_already_read + n <= Len(old)
  BY <1>1 DEF BodySizeLeft
<1>3. old \in [1 .. Len(old) -> Octets]
  BY <1>1
<1>4. /\ new \in [1 .. Len(old) -> Octets]
      /\ \A k \in 1 .. Len(old) :
            new[k] = IF k \in body_already_read + 1 .. body_already_read + n
                     THEN stream[k - body_already_read] ELSE old[k]
  BY <1>1, <1>2, <1>3, ReceivedFacts
<1> HIDE DEF new
<1>5. new \in Seq(Octets) /\ Len(new) = Len(old)
  <2> DEFINE len == Len(old)
  <2>1. len \in Nat /\ new \in [1 .. len -> Octets]
    BY <1>1, <1>4
  <2> HIDE DEF len
  <2>2. new \in Seq(Octets) /\ Len(new) = len
    BY <2>1
  <2> QED  BY <2>2 DEF len
<1>6. /\ BodyRead(n).body = new /\ BodyRead(n).opcode = packet.opcode
      /\ BodyRead(n).size = packet.size /\ BodyRead(n).has = packet.has
      /\ BodyRead(n) \in AnyPacket
  BY <1>1, <1>5 DEF BodyRead, AnyPacket, new
<1> QED  BY <1>2, <1>4, <1>5, <1>6

\* The packet with room for the payload its header announces.
WithRoom(p) == ResizeBody(p, GetHeadSize(p))

\* What a read of the header may do.
LEMMA ReadHeadCases ==
    ASSUME NEW n, ReadHead(n)
    PROVE  /\ mode = "head" /\ sent' = sent
           /\ stream' = SubSeq(stream, n + 1, Len(stream))
           /\ \/ /\ head_already_read + n < HeadSize
                 /\ head_already_read' = head_already_read + n
                 /\ packet' = HeadRead(n)
                 /\ UNCHANGED <<mode, body_already_read, extracted>>
              \/ /\ head_already_read + n >= HeadSize /\ ~IsValidHeader(HeadRead(n))
                 /\ head_already_read' = 0
                 /\ packet' = HeadRead(n)
                 /\ UNCHANGED <<mode, body_already_read, extracted>>
              \/ /\ head_already_read + n >= HeadSize /\ IsValidHeader(HeadRead(n))
                 /\ Len(WithRoom(HeadRead(n)).body) > 0
                 /\ head_already_read' = head_already_read + n
                 /\ packet' = WithRoom(HeadRead(n))
                 /\ mode' = "body"
                 /\ UNCHANGED <<body_already_read, extracted>>
              \/ /\ head_already_read + n >= HeadSize /\ IsValidHeader(HeadRead(n))
                 /\ Len(WithRoom(HeadRead(n)).body) = 0
                 /\ Extract(WithRoom(HeadRead(n)))
BY DEF ReadHead, HeadRead, WithRoom, Consume, AfterRefusal

\* What a read of the body may do.
LEMMA ReadBodyCases ==
    ASSUME NEW n, ReadBody(n)
    PROVE  /\ mode = "body" /\ sent' = sent
           /\ stream' = SubSeq(stream, n + 1, Len(stream))
           /\ \/ /\ body_already_read + n < GetHeadSize(packet)
                 /\ body_already_read' = body_already_read + n
                 /\ packet' = BodyRead(n)
                 /\ UNCHANGED <<mode, head_already_read, extracted>>
              \/ /\ body_already_read + n >= GetHeadSize(packet)
                 /\ Extract(BodyRead(n))
BY DEF ReadBody, BodyRead, Consume

\* A packet that has been read whole.
LEMMA ExtractType ==
    ASSUME ReadInv, NEW p \in AnyPacket, Len(p.body) = GetHeadSize(p),
           Len(p.body) < kMaxPayloadSize, Extract(p)
    PROVE  /\ mode' = "head" /\ head_already_read' = 0 /\ body_already_read' = 0
           /\ packet' \in Packets
           /\ extracted' \in Seq({q \in Packets : Len(q.body) = GetHeadSize(q)})
<1> DEFINE Whole == {q \in Packets : Len(q.body) = GetHeadSize(q)}
<1>1. p \in Whole
  BY PacketsFacts
<1>2. extracted \in Seq(Whole)
  BY DEF ReadInv, TypeOK
<1>3. extracted' = Append(extracted, p) /\ packet' = MovedFrom(p)
  BY DEF Extract
<1>4. extracted' \in Seq(Whole)
  <2> HIDE DEF Whole
  <2> QED  BY <1>1, <1>2, <1>3
<1>5. packet' \in AnyPacket /\ packet'.body = << >>
  <2>1. [k \in 1 .. SizeBytes |-> 0] \in [1 .. SizeBytes -> Octets]
    BY ConstantTypes
  <2>2. << >> \in Seq(Octets)
    OBVIOUS
  <2> QED  BY <1>3, <2>1, <2>2 DEF MovedFrom, AnyPacket
<1>6. packet' \in Packets
  BY <1>5, ConstantTypes, PacketsFacts
<1> QED  BY <1>4, <1>6 DEF Extract

\* What is left of the stream.
LEMMA StreamLeft ==
    ASSUME stream \in Seq(Octets), NEW n \in Nat, n <= Len(stream),
           stream' = SubSeq(stream, n + 1, Len(stream))
    PROVE  /\ stream' \in Seq(Octets) /\ Len(stream') = Len(stream) - n
           /\ \A k \in 1 .. Len(stream) - n : stream'[k] = stream[k + n]
<1> DEFINE l == Len(stream)
<1>1. l \in Nat /\ n + 1 \in Nat /\ l - (n + 1) + 1 = l - n /\ l - n \in Nat
  OBVIOUS
<1>2. stream' = [k \in 1 .. l - n |-> stream[(n + 1) + k - 1]]
  BY <1>1
<1>3. \A k \in 1 .. l - n : k + n \in 1 .. l /\ (n + 1) + k - 1 = k + n
  BY <1>1
<1>4. \A k \in 1 .. l - n : stream'[k] = stream[k + n]
  BY <1>2, <1>3
<1>5. \A k \in 1 .. l - n : stream[(n + 1) + k - 1] \in Octets
  BY <1>3
<1>6. stream' \in Seq(Octets) /\ Len(stream') = l - n
  <2> DEFINE len == l - n
  <2>1. len \in Nat /\ stream' \in [1 .. len -> Octets]
    BY <1>1, <1>2, <1>5
  <2> HIDE DEF len
  <2>2. stream' \in Seq(Octets) /\ Len(stream') = len
    BY <2>1
  <2> QED  BY <2>2 DEF len
<1> QED  BY <1>4, <1>6

\* Every step of the read loop keeps the types and the counters.
LEMMA ReadStep ==
    ASSUME ReadInv, NEW n \in 1 .. Limit, n <= Len(stream), ReadHead(n) \/ ReadBody(n)
    PROVE  ReadInv'
<1>1. /\ sent \in Seq(Kinds) /\ stream \in Seq(Octets)
      /\ head_already_read \in Nat /\ body_already_read \in Nat
      /\ packet \in AnyPacket /\ Len(packet.body) < kMaxPayloadSize
      /\ HeadSize \in Nat /\ kMaxPayloadSize \in Nat /\ Len(packet.body) \in Nat
  BY StateTypes
<1>2. extracted \in Seq({p \in Packets : Len(p.body) = GetHeadSize(p)})
  BY DEF ReadInv, TypeOK
<1>3. CASE ReadHead(n)
  <2> DEFINE h == head_already_read
             p == HeadRead(n)
             q == WithRoom(HeadRead(n))
  <2>1. mode = "head" /\ body_already_read = 0
    BY <1>3, ReadHeadCases DEF ReadInv, Counters
  <2>2. n \in 1 .. HeadSizeLeft
    BY <2>1 DEF Limit
  <2>3. /\ n \in Nat /\ n >= 1 /\ h + n <= HeadSize /\ p \in AnyPacket
        /\ p.body = packet.body
    BY <2>1, <2>2, HeadReadFacts
  <2>4. stream' \in Seq(Octets) /\ sent' \in Seq(Kinds)
    BY <1>1, <1>3, <2>3, ReadHeadCases, StreamLeft
  <2>5. p \in Packets
    BY <1>1, <2>3, PacketsFacts
  <2>6. /\ q \in AnyPacket /\ q.has = TRUE /\ q.size = p.size /\ q.opcode = p.opcode
        /\ Len(q.body) = GetHeadSize(p) /\ GetHeadSize(q) = GetHeadSize(p)
    BY <2>3, HeadSizeType, ResizeFacts DEF WithRoom, GetHeadSize
  <2> HIDE DEF p, q
  <2>7. CASE /\ h + n < HeadSize
             /\ head_already_read' = h + n
             /\ packet' = p
             /\ UNCHANGED <<mode, body_already_read, extracted>>
    <3>1. TypeOK'
      BY <2>1, <2>3, <2>4, <2>5, <2>7, <1>1, <1>2 DEF TypeOK, Octets
    <3>2. Counters'
      BY <2>1, <2>7 DEF Counters
    <3> QED  BY <3>1, <3>2 DEF ReadInv
  <2>8. CASE /\ h + n >= HeadSize /\ ~IsValidHeader(p)
             /\ head_already_read' = 0
             /\ packet' = p
             /\ UNCHANGED <<mode, body_already_read, extracted>>
    <3>1. TypeOK'
      BY <2>1, <2>3, <2>4, <2>5, <2>8, <1>1, <1>2 DEF TypeOK, Octets
    <3>2. Counters'
      BY <2>1, <2>8, ConstantTypes DEF Counters
    <3> QED  BY <3>1, <3>2 DEF ReadInv
  <2>9. CASE /\ h + n >= HeadSize /\ IsValidHeader(p) /\ Len(q.body) > 0
             /\ head_already_read' = h + n
             /\ packet' = q
             /\ mode' = "body"
             /\ UNCHANGED <<body_already_read, extracted>>
    <3>1. h + n = HeadSize /\ GetHeadSize(p) < kMaxPayloadSize
      BY <2>3, <2>9, <1>1 DEF IsValidHeader
    <3>2. q \in Packets
      BY <3>1, <2>6, PacketsFacts
    <3>3. TypeOK'
      BY <2>1, <2>3, <2>4, <2>9, <3>1, <3>2, <1>1, <1>2 DEF TypeOK, Octets
    <3>4. IsValidHeader(q)
      BY <2>6, <2>9 DEF IsValidHeader
    <3>5. Counters'
      BY <2>1, <2>6, <2>9, <3>1, <3>4 DEF Counters
    <3> QED  BY <3>3, <3>5 DEF ReadInv
  <2>10. CASE /\ h + n >= HeadSize /\ IsValidHeader(p) /\ Len(q.body) = 0
              /\ Extract(q)
    <3>1. /\ mode' = "head" /\ head_already_read' = 0 /\ body_already_read' = 0
          /\ packet' \in Packets
          /\ extracted' \in Seq({r \in Packets : Len(r.body) = GetHeadSize(r)})
      <4>1. Len(q.body) < kMaxPayloadSize /\ Len(q.body) = GetHeadSize(q)
        BY <2>6, <2>10, ConstantTypes
      <4> QED  BY <4>1, <2>6, <2>10, ExtractType
    <3>2. TypeOK'
      BY <2>4, <3>1, <1>1 DEF TypeOK, Octets
    <3>3. Counters'
      BY <3>1, ConstantTypes DEF Counters
    <3> QED  BY <3>2, <3>3 DEF ReadInv
  <2> QED  BY <1>3, <2>7, <2>8, <2>9, <2>10, ReadHeadCases DEF p, q
<1>4. CASE ReadBody(n)
  <2> DEFINE b == body_already_read
             p == BodyRead(n)
  <2>1. /\ mode = "body" /\ head_already_read = HeadSize /\ packet.has = TRUE
        /\ IsValidHeader(packet) /\ Len(packet.body) = GetHeadSize(packet)
    BY <1>4, ReadBodyCases DEF ReadInv, Counters
  <2>2. n \in 1 .. BodySizeLeft
    BY <2>1 DEF Limit
  <2>3. /\ n \in Nat /\ n >= 1 /\ b + n <= Len(packet.body) /\ p \in AnyPacket
        /\ p.size = packet.size /\ p.has = packet.has /\ p.opcode = packet.opcode
        /\ Len(p.body) = Len(packet.body)
    BY <2>1, <2>2, BodyReadFacts
  <2>4. stream' \in Seq(Octets) /\ sent' \in Seq(Kinds)
    BY <1>1, <1>4, <2>3, ReadBodyCases, StreamLeft
  <2>5. p \in Packets /\ GetHeadSize(p) = GetHeadSize(packet)
    BY <1>1, <2>3, PacketsFacts DEF GetHeadSize
  <2> HIDE DEF p
  <2>6. CASE /\ b + n < GetHeadSize(packet)
             /\ body_already_read' = b + n
             /\ packet' = p
             /\ UNCHANGED <<mode, head_already_read, extracted>>
    <3>1. TypeOK'
      BY <2>1, <2>3, <2>4, <2>5, <2>6, <1>1, <1>2 DEF TypeOK, Octets
    <3>2. IsValidHeader(p)
      BY <2>1, <2>3, <2>5 DEF IsValidHeader
    <3>3. Counters'
      BY <2>1, <2>3, <2>5, <2>6, <3>2 DEF Counters
    <3> QED  BY <3>1, <3>3 DEF ReadInv
  <2>7. CASE /\ b + n >= GetHeadSize(packet)
             /\ Extract(p)
    <3>1. /\ mode' = "head" /\ head_already_read' = 0 /\ body_already_read' = 0
          /\ packet' \in Packets
          /\ extracted' \in Seq({r \in Packets : Len(r.body) = GetHeadSize(r)})
      BY <2>1, <2>3, <2>5, <2>7, <1>1, ExtractType
    <3>2. TypeOK'
      BY <2>4, <3>1, <1>1 DEF TypeOK, Octets
    <3>3. Counters'
      BY <3>1, ConstantTypes DEF Counters
    <3> QED  BY <3>2, <3>3 DEF ReadInv
  <2> QED  BY <1>4, <2>6, <2>7, ReadBodyCases DEF p
<1> QED  BY <1>3, <1>4

\* What the client sends.
LEMMA SendFacts ==
    ASSUME ReadInv, NEW kind \in Kinds, ClientSend(kind)
    PROVE  LET b == MakeBuffer(Made(kind))
           IN  /\ b \in Seq(Octets)
               /\ stream' = stream \o b
               /\ stream' \in Seq(Octets) /\ Len(stream') = Len(stream) + Len(b)
               /\ \A k \in 1 .. Len(stream) : stream'[k] = stream[k]
               /\ \A k \in 1 .. Len(b) : stream'[Len(stream) + k] = b[k]
               /\ sent' \in Seq(Kinds) /\ Len(sent') = Len(sent) + 1
               /\ \A k \in 1 .. Len(sent) : sent'[k] = sent[k]
               /\ sent'[Len(sent) + 1] = kind
<1> DEFINE b == MakeBuffer(Made(kind))
<1>1. b \in Seq(Octets)
  BY MadeFacts, BufferFacts
<1>2. stream' = stream \o b /\ sent' = Append(sent, kind)
  BY DEF ClientSend
<1>3. stream \in Seq(Octets) /\ sent \in Seq(Kinds)
  BY StateTypes
<1> HIDE DEF b
<1>4. stream' \in Seq(Octets) /\ Len(stream') = Len(stream) + Len(b)
  BY <1>1, <1>2, <1>3
<1>5. \A k \in 1 .. Len(stream) : stream'[k] = stream[k]
  BY <1>1, <1>2, <1>3
<1>6. \A k \in 1 .. Len(b) : stream'[Len(stream) + k] = b[k]
  BY <1>1, <1>2, <1>3
<1>7. /\ sent' \in Seq(Kinds) /\ Len(sent') = Len(sent) + 1
      /\ \A k \in 1 .. Len(sent) : sent'[k] = sent[k]
      /\ sent'[Len(sent) + 1] = kind
  BY <1>2, <1>3
<1> QED  BY <1>1, <1>2, <1>4, <1>5, <1>6, <1>7 DEF b

\* The types and the counters are right from the start.
LEMMA ReadInit == Init => ReadInv
<1>1. SUFFICES ASSUME Init
      PROVE  ReadInv
  OBVIOUS
<1>2. packet \in Packets
  <2>1. /\ ToNet(0, OpcodeBytes) \in [1 .. OpcodeBytes -> Octets]
        /\ ToNet(0, SizeBytes) \in [1 .. SizeBytes -> Octets]
    BY ConstantTypes, NetFacts
  <2>2. << >> \in Seq(Octets) /\ Len(<< >>) = 0
    OBVIOUS
  <2>3. packet \in AnyPacket /\ packet.body = << >>
    BY <1>1, <2>1, <2>2 DEF Init, NewPacket, AnyPacket
  <2> QED  BY <2>2, <2>3, ConstantTypes, PacketsFacts
<1>3. TypeOK
  BY <1>1, <1>2, ConstantTypes DEF Init, TypeOK
<1>4. Counters
  BY <1>1, ConstantTypes DEF Init, Counters
<1> QED  BY <1>3, <1>4 DEF ReadInv

\* Every step keeps the types and the counters.
LEMMA ReadNext == ReadInv /\ [Next]_vars => ReadInv'
<1>1. SUFFICES ASSUME ReadInv, [Next]_vars
      PROVE  ReadInv'
  OBVIOUS
<1>2. CASE Read
  <2>1. PICK n \in 1 .. Limit : n <= Len(stream) /\ (ReadHead(n) \/ ReadBody(n))
    BY <1>2 DEF Read
  <2> QED  BY <1>1, <2>1, ReadStep
<1>3. ASSUME NEW kind \in Kinds, ClientSend(kind)
      PROVE  ReadInv'
  <2>1. stream' \in Seq(Octets) /\ sent' \in Seq(Kinds)
    BY <1>1, <1>3, SendFacts
  <2>2. UNCHANGED <<mode, head_already_read, body_already_read, packet, extracted>>
    BY <1>3 DEF ClientSend
  <2>3. TypeOK'
    BY <1>1, <2>1, <2>2 DEF ReadInv, TypeOK, Octets
  <2>4. Counters'
    BY <1>1, <2>2 DEF ReadInv, Counters
  <2> QED  BY <2>3, <2>4 DEF ReadInv
<1>4. CASE UNCHANGED vars
  BY <1>1, <1>4 DEF vars, ReadInv, TypeOK, Counters
<1> QED  BY <1>1, <1>2, <1>3, <1>4 DEF Next

\* The types and what mode says of the counters hold throughout.
THEOREM ReadInvariance == Spec => []ReadInv
<1> QED  BY ReadInit, ReadNext, PTL DEF Spec

\* Every variable has its type, and every packet pushed is as long as its header
\* says, out of step or not (packet_handler.cpp:16-59).
THEOREM TypeCorrect == Spec => []TypeOK
<1>1. ReadInv => TypeOK
  BY DEF ReadInv
<1> QED  BY <1>1, ReadInvariance, PTL

\* Every read asks for at least one byte of its buffer (packet_handler.hpp:29,
\* 32).
THEOREM ReadsAskForBytes == Spec => []ReadAsksForBytes
<1>1. ReadInv => ReadAsksForBytes
  <2>1. SUFFICES ASSUME ReadInv
        PROVE  ReadAsksForBytes
    OBVIOUS
  <2>2. /\ head_already_read \in Nat /\ body_already_read \in Nat /\ HeadSize \in Nat
        /\ Len(packet.body) \in Nat /\ mode \in {"head", "body"} /\ Counters
    BY <2>1, StateTypes DEF ReadInv, TypeOK
  <2> QED  BY <2>2 DEF Counters, ReadAsksForBytes, Limit, HeadSizeLeft, BodySizeLeft
<1> QED  BY <1>1, ReadInvariance, PTL

-----------------------------------------------------------------------------
(* Framing.  The definitions take the state they speak of as arguments: the  *)
(* packets s that were sent, the stream t, the packets e that were pushed.   *)

\* Packet n is refused, and its bytes.
Bad(s, n) == ~IsValidHeader(Made(s[n]))
Buffer(s, n) == MakeBuffer(Made(s[n]))

\* The stream holds what is left of packet c + 1, of which r bytes have been
\* read, and then the packets after it: packet m ends at end[m].
Layout(s, t, r, c, end) ==
    /\ end \in [c .. Len(s) -> Int]
    /\ end[c] = 0 - r
    /\ end[Len(s)] = Len(t)
    /\ \A m \in c + 1 .. Len(s) :
          /\ end[m] = end[m - 1] + Len(Buffer(s, m))
          /\ \A k \in 1 .. Len(Buffer(s, m)) :
                end[m - 1] + k >= 1 => t[end[m - 1] + k] = Buffer(s, m)[k]

\* The first h bytes of the header of packet c + 1 and the first b bytes of its
\* payload are in the packet p.
PartlyRead(s, p, h, b, c) ==
    /\ \A k \in 1 .. h : HeadBytes(p)[k] = Buffer(s, c + 1)[k]
    /\ \A k \in 1 .. b : p.body[k] = Buffer(s, c + 1)[HeadSize + k]

\* The valid packets among the first n.
Valid(s, n) == {l \in 1 .. n : ~Bad(s, l)}

\* The first c packets are dealt with: the valid ones have been pushed, in order,
\* and the others had no payload.
Pushed(s, e, c) ==
    /\ \A m \in 1 .. c : Bad(s, m) => s[m].fields = << >>
    /\ Len(e) >= Cardinality(Valid(s, c))
    /\ \A m \in Valid(s, c) : e[Cardinality(Valid(s, m))] = Made(s[m])

\* The server is in step: it reads packet c + 1, and has pushed what came before.
Sync(c) ==
    /\ \E end : Layout(sent, stream, head_already_read + body_already_read, c, end)
    /\ PartlyRead(sent, packet, head_already_read, body_already_read, c)
    /\ Pushed(sent, extracted, c)
    /\ Len(extracted) = Cardinality(Valid(sent, c))

\* The server has refused packet c and taken its payload for a header.
Lost(c) ==
    /\ Bad(sent, c) /\ sent[c].fields # << >>
    /\ Pushed(sent, extracted, c - 1)

FramingInv ==
    /\ ReadInv
    /\ (\E c \in 0 .. Len(sent) : Sync(c)) \/ (\E c \in 1 .. Len(sent) : Lost(c))

\* How many valid packets there are.
LEMMA ValidFacts ==
    ASSUME NEW s, NEW n \in Nat
    PROVE  /\ IsFiniteSet(Valid(s, n)) /\ Cardinality(Valid(s, n)) \in Nat
           /\ \A m \in 0 .. n : Cardinality(Valid(s, m)) <= Cardinality(Valid(s, n))
           /\ ~Bad(s, n + 1) =>
                 Cardinality(Valid(s, n + 1)) = Cardinality(Valid(s, n)) + 1
           /\ Bad(s, n + 1) => Valid(s, n + 1) = Valid(s, n)
<1>1. IsFiniteSet(Valid(s, n)) /\ Cardinality(Valid(s, n)) \in Nat
  <2>1. IsFiniteSet(1 .. n)
    BY FS_Interval
  <2>2. Valid(s, n) \subseteq 1 .. n
    BY DEF Valid
  <2> QED  BY <2>1, <2>2, FS_Subset, FS_CardinalityType
<1>2. ASSUME NEW m \in 0 .. n
      PROVE  Cardinality(Valid(s, m)) <= Cardinality(Valid(s, n))
  <2>1. Valid(s, m) \subseteq Valid(s, n)
    BY DEF Valid
  <2> QED  BY <2>1, <1>1, FS_Subset
<1>3. ASSUME ~Bad(s, n + 1)
      PROVE  Cardinality(Valid(s, n + 1)) = Cardinality(Valid(s, n)) + 1
  <2>1. Valid(s, n + 1) = Valid(s, n) \cup {n + 1}
    BY <1>3 DEF Valid
  <2>2. n + 1 \notin Valid(s, n)
    BY DEF Valid
  <2> QED  BY <2>1, <2>2, <1>1, FS_AddElement
<1>4. ASSUME Bad(s, n + 1)
      PROVE  Valid(s, n + 1) = Valid(s, n)
  <2>1. ASSUME NEW l
        PROVE  l \in 1 .. n + 1 /\ ~Bad(s, l) <=> l \in 1 .. n /\ ~Bad(s, l)
    <3>1. l \in 1 .. n + 1 <=> l \in 1 .. n \/ l = n + 1
      OBVIOUS
    <3> QED  BY <3>1, <1>4
  <2> QED  BY <2>1 DEF Valid
<1> QED  BY <1>1, <1>2, <1>3, <1>4

\* The place of a valid packet among those pushed.
LEMMA PlaceFacts ==
    ASSUME NEW s, NEW n \in Nat, NEW m \in Valid(s, n)
    PROVE  /\ m \in 1 .. n
           /\ Cardinality(Valid(s, m)) \in 1 .. Cardinality(Valid(s, n))
           /\ \A l \in 0 .. m - 1 : Cardinality(Valid(s, l)) < Cardinality(Valid(s, m))
<1>1. m \in 1 .. n /\ ~Bad(s, m) /\ m - 1 \in Nat /\ (m - 1) + 1 = m
  BY DEF Valid
<1>2. /\ Cardinality(Valid(s, m)) = Cardinality(Valid(s, m - 1)) + 1
      /\ Cardinality(Valid(s, m - 1)) \in Nat
      /\ \A l \in 0 .. m - 1 :
            Cardinality(Valid(s, l)) <= Cardinality(Valid(s, m - 1))
  BY <1>1, ValidFacts
<1>3. /\ Cardinality(Valid(s, m)) <= Cardinality(Valid(s, n))
      /\ Cardinality(Valid(s, n)) \in Nat
  <2>1. m \in 0 .. n
    BY <1>1
  <2> QED  BY <2>1, ValidFacts
<1>4. \A l \in 0 .. m - 1 : Cardinality(Valid(s, l)) \in Nat
  BY <1>1, ValidFacts
<1> QED  BY <1>1, <1>2, <1>3, <1>4

\* Packet c + 1 is pushed after e, which gives f, or is refused.
Dealt(s, e, f, c) ==
    \/ Bad(s, c + 1) /\ s[c + 1].fields = << >> /\ f = e
    \/ ~Bad(s, c + 1) /\ f = Append(e, Made(s[c + 1]))

\* Packets are pushed one after the other.
LEMMA PushedNext ==
    ASSUME NEW s, NEW e, NEW f, NEW c \in Nat, Pushed(s, e, c), e \in Seq(AnyPacket),
           f \in Seq(AnyPacket), Len(e) = Cardinality(Valid(s, c)), Dealt(s, e, f, c)
    PROVE  Pushed(s, f, c + 1) /\ Len(f) = Cardinality(Valid(s, c + 1))
<1>1. \A m \in 1 .. c + 1 : m \in 1 .. c \/ m = c + 1
  OBVIOUS
<1>2. CASE Bad(s, c + 1) /\ s[c + 1].fields = << >> /\ f = e
  <2>1. Valid(s, c + 1) = Valid(s, c)
    BY <1>2, ValidFacts
  <2> QED  BY <2>1, <1>1, <1>2 DEF Pushed
<1>3. CASE ~Bad(s, c + 1) /\ f = Append(e, Made(s[c + 1]))
  <2> DEFINE n == Cardinality(Valid(s, c))
             a == Made(s[c + 1])
  <2>1. n \in Nat /\ Len(e) = n /\ Cardinality(Valid(s, c + 1)) = n + 1
    BY <1>3, ValidFacts
  <2> HIDE DEF n, a
  <2>2. /\ Len(f) = n + 1 /\ f[n + 1] = a
        /\ \A k \in 1 .. n : f[k] = e[k]
    <3>1. f = Append(e, a)
      BY <1>3 DEF a
    <3> QED  BY <3>1, <2>1
  <2>3. ASSUME NEW m \in Valid(s, c + 1)
        PROVE  f[Cardinality(Valid(s, m))] = Made(s[m])
    <3>1. CASE m = c + 1
      BY <3>1, <2>1, <2>2 DEF a
    <3>2. CASE m # c + 1
      <4>1. m \in Valid(s, c)
        BY <3>2, <1>1 DEF Valid
      <4>2. Cardinality(Valid(s, m)) \in 1 .. n
        BY <4>1, PlaceFacts DEF n
      <4>3. e[Cardinality(Valid(s, m))] = Made(s[m])
        BY <4>1 DEF Pushed
      <4> QED  BY <4>2, <4>3, <2>2
    <3> QED  BY <3>1, <3>2
  <2>4. \A m \in 1 .. c + 1 : Bad(s, m) => s[m].fields = << >>
    BY <1>1, <1>3 DEF Pushed
  <2>5. Len(f) = Cardinality(Valid(s, c + 1)) /\ Len(f) >= Cardinality(Valid(s, c + 1))
    BY <2>1, <2>2
  <2> QED  BY <2>3, <2>4, <2>5 DEF Pushed
<1> QED  BY <1>2, <1>3 DEF Dealt

\* What has been pushed stays so when more is sent and more is pushed.
LEMMA PushedStays ==
    ASSUME NEW s, NEW u, NEW e, NEW f, NEW c \in Nat, Pushed(s, e, c),
           \A m \in 1 .. c : u[m] = s[m],
           e \in Seq(AnyPacket), f \in Seq(AnyPacket), Len(f) >= Len(e),
           \A k \in 1 .. Len(e) : f[k] = e[k]
    PROVE  /\ Pushed(u, f, c)
           /\ Cardinality(Valid(u, c)) = Cardinality(Valid(s, c))
<1>1. \A m \in 1 .. c : Bad(u, m) <=> Bad(s, m)
  BY DEF Bad
<1>2. \A m \in 0 .. c : Valid(u, m) = Valid(s, m)
  BY <1>1 DEF Valid
<1>3. Cardinality(Valid(s, c)) \in Nat /\ Len(e) \in Nat /\ Len(f) \in Nat
  BY ValidFacts
<1>4. Valid(u, c) = Valid(s, c)
  BY <1>2
<1>5. ASSUME NEW m \in Valid(s, c)
      PROVE  f[Cardinality(Valid(u, m))] = Made(u[m])
  <2>1. m \in 1 .. c /\ Cardinality(Valid(s, m)) \in 1 .. Cardinality(Valid(s, c))
    BY PlaceFacts
  <2>2. Cardinality(Valid(s, m)) \in 1 .. Len(e)
    BY <2>1, <1>3 DEF Pushed
  <2>3. Valid(u, m) = Valid(s, m) /\ u[m] = s[m]
    BY <2>1, <1>2
  <2> QED  BY <2>2, <2>3 DEF Pushed
<1>6. Len(f) >= Cardinality(Valid(u, c))
  BY <1>3, <1>4 DEF Pushed
<1>7. \A m \in 1 .. c : Bad(u, m) => u[m].fields = << >>
  BY <1>1 DEF Pushed
<1> QED  BY <1>4, <1>5, <1>6, <1>7 DEF Pushed

\* The buffers are what was sent: a header and a payload.
LEMMA SentBuffer ==
    ASSUME NEW s \in Seq(Kinds), NEW m \in 1 .. Len(s)
    PROVE  /\ s[m] \in Kinds
           /\ Made(s[m]) \in AnyPacket /\ Made(s[m]).has = TRUE
           /\ GetHeadSize(Made(s[m])) = Len(Made(s[m]).body)
           /\ s[m].fields = << >> => Len(Made(s[m]).body) = 0
           /\ Buffer(s, m) \in Seq(Octets)
           /\ Len(Made(s[m]).body) \in Nat
           /\ Len(Buffer(s, m)) = HeadSize + Len(Made(s[m]).body)
           /\ \A k \in 1 .. HeadSize : Buffer(s, m)[k] = HeadBytes(Made(s[m]))[k]
           /\ \A k \in 1 .. Len(Made(s[m]).body) :
                 Buffer(s, m)[HeadSize + k] = Made(s[m]).body[k]
<1> DEFINE kind == s[m]
<1>1. kind \in Kinds
  OBVIOUS
<1> HIDE DEF kind
<1> DEFINE p == Made(kind)
<1>2. /\ p \in AnyPacket /\ p.has = TRUE /\ GetHeadSize(p) = Len(p.body)
      /\ kind.fields = << >> => p.body = << >>
  BY <1>1, MadeFacts
<1> HIDE DEF p
<1>3. /\ MakeBuffer(p) \in Seq(Octets)
      /\ Len(MakeBuffer(p)) = HeadSize + Len(p.body)
      /\ \A k \in 1 .. HeadSize : MakeBuffer(p)[k] = HeadBytes(p)[k]
      /\ \A k \in 1 .. Len(p.body) : MakeBuffer(p)[HeadSize + k] = p.body[k]
  BY <1>2, BufferFacts
<1>4. p.body \in Seq(Octets) /\ Len(p.body) \in Nat
  BY <1>2 DEF AnyPacket
<1>5. kind.fields = << >> => Len(p.body) = 0
  BY <1>2
<1> QED  BY <1>1, <1>2, <1>3, <1>4, <1>5 DEF p, kind, Buffer

\* No packet ends behind the stream.
LEMMA LayoutEnds ==
    ASSUME NEW s \in Seq(Kinds), NEW t \in Seq(Octets), NEW r \in Nat,
           NEW c \in 0 .. Len(s), NEW end, Layout(s, t, r, c, end),
           NEW m \in c .. Len(s)
    PROVE  end[m] <= Len(t)
<1> DEFINE n == Len(s)
           T == {j \in Nat : j <= n /\ m <= j /\ end[j] < end[m]}
<1>1. /\ end \in [c .. n -> Int] /\ end[n] = Len(t)
      /\ \A j \in c + 1 .. n : end[j] = end[j - 1] + Len(Buffer(s, j))
  BY DEF Layout
<1>2. n \in Nat /\ c \in Nat /\ m \in Nat /\ m <= n /\ c <= m /\ Len(t) \in Nat
  OBVIOUS
<1>3. \A j \in c .. n : end[j] \in Int
  BY <1>1
<1>4. ASSUME T # {}
      PROVE  FALSE
  <2>1. PICK j \in T : \A i \in T : j <= i
    BY <1>4, Least
  <2>2. j \in Nat /\ j <= n /\ m <= j /\ end[j] < end[m]
    BY <2>1
  <2>3. j # m
    BY <2>2, <1>2, <1>3
  <2>4. /\ j - 1 \in Nat /\ j - 1 <= n /\ m <= j - 1 /\ ~(j <= j - 1)
        /\ j \in c + 1 .. n /\ j - 1 \in c .. n /\ j \in c .. n /\ j \in 1 .. n
    BY <2>2, <2>3, <1>2
  <2>5. ~(end[j - 1] < end[m])
    BY <2>1, <2>4
  <2>6. Len(Buffer(s, j)) \in Nat
    BY <2>4, SentBuffer
  <2>7. end[j] = end[j - 1] + Len(Buffer(s, j))
    BY <2>4, <1>1
  <2> QED  BY <2>2, <2>4, <2>5, <2>6, <2>7, <1>2, <1>3
<1>5. n \notin T
  BY <1>4
<1>6. ~(end[n] < end[m])
  BY <1>5, <1>2
<1>7. end[m] \in Int
  BY <1>2, <1>3
<1> QED  BY <1>1, <1>2, <1>6, <1>7

\* The client sends a packet.
LEMMA LayoutSend ==
    ASSUME NEW s \in Seq(Kinds), NEW t \in Seq(Octets), NEW r \in Nat,
           NEW c \in 0 .. Len(s), NEW end, Layout(s, t, r, c, end),
           NEW u \in Seq(Kinds), Len(u) = Len(s) + 1,
           \A k \in 1 .. Len(s) : u[k] = s[k],
           NEW v \in Seq(Octets), Len(v) = Len(t) + Len(Buffer(u, Len(u))),
           \A k \in 1 .. Len(t) : v[k] = t[k],
           \A k \in 1 .. Len(Buffer(u, Len(u))) :
              v[Len(t) + k] = Buffer(u, Len(u))[k]
    PROVE  \E e : Layout(u, v, r, c, e)
<1> DEFINE n == Len(s)
           e == [m \in c .. n + 1 |-> IF m = n + 1 THEN Len(v) ELSE end[m]]
<1>1. n \in Nat /\ c \in Nat /\ c <= n /\ Len(u) = n + 1 /\ Len(t) \in Nat
      /\ Len(v) \in Nat
  OBVIOUS
<1>2. /\ end \in [c .. n -> Int] /\ end[c] = 0 - r /\ end[n] = Len(t)
      /\ \A m \in c + 1 .. n :
            /\ end[m] = end[m - 1] + Len(Buffer(s, m))
            /\ \A k \in 1 .. Len(Buffer(s, m)) :
                  end[m - 1] + k >= 1 => t[end[m - 1] + k] = Buffer(s, m)[k]
  BY DEF Layout
<1>3. \A m \in 1 .. n : Buffer(u, m) = Buffer(s, m)
  BY DEF Buffer
<1> HIDE DEF n
<1>4. e \in [c .. n + 1 -> Int] /\ e[c] = 0 - r /\ e[n + 1] = Len(v)
  BY <1>1, <1>2
<1>5. \A m \in c .. n : e[m] = end[m]
  BY <1>1
<1>6. ASSUME NEW m \in c + 1 .. n + 1
      PROVE  /\ e[m] = e[m - 1] + Len(Buffer(u, m))
             /\ \A k \in 1 .. Len(Buffer(u, m)) :
                   e[m - 1] + k >= 1 => v[e[m - 1] + k] = Buffer(u, m)[k]
  <2>1. m - 1 \in c .. n /\ e[m - 1] = end[m - 1] /\ end[m - 1] \in Int
    BY <1>1, <1>2, <1>5
  <2>2. CASE m = n + 1
    <3>1. e[m] = Len(v) /\ e[m - 1] = Len(t)
      BY <2>1, <2>2, <1>1, <1>2, <1>4
    <3> QED  BY <3>1, <2>2, <1>1
  <2>3. CASE m # n + 1
    <3>1. m \in c + 1 .. n /\ m \in 1 .. n /\ m \in c .. n
      BY <2>3, <1>1
    <3>2. end[m] \in Int /\ e[m] = end[m] /\ Buffer(u, m) = Buffer(s, m)
      BY <3>1, <1>2, <1>3, <1>5
    <3>3. end[m] <= Len(t)
      BY <3>1, LayoutEnds DEF n
    <3>4. ASSUME NEW k \in 1 .. Len(Buffer(u, m)), e[m - 1] + k >= 1
          PROVE  v[e[m - 1] + k] = Buffer(u, m)[k]
      <4>1. Len(Buffer(s, m)) \in Nat
        <5>1. m \in 1 .. Len(s)
          BY <3>1 DEF n
        <5> QED  BY <5>1, SentBuffer
      <4>2. end[m] = end[m - 1] + Len(Buffer(s, m))
        BY <3>1, <1>2
      <4>3. end[m - 1] + k \in 1 .. Len(t)
        <5> DEFINE x == end[m - 1]
                   y == Len(Buffer(s, m))
        <5>1. x \in Int /\ y \in Nat /\ k \in 1 .. y /\ x + y <= Len(t) /\ x + k >= 1
          BY <3>2, <3>3, <3>4, <4>1, <4>2, <2>1
        <5> HIDE DEF x, y
        <5>2. x + k \in 1 .. Len(t)
          BY <5>1, <1>1
        <5> QED  BY <5>2 DEF x
      <4>4. t[end[m - 1] + k] = Buffer(s, m)[k]
        BY <3>1, <3>2, <3>4, <2>1, <1>2
      <4> QED  BY <4>3, <4>4, <3>2, <2>1
    <3> QED  BY <3>1, <3>2, <3>4, <2>1, <1>2
  <2> QED  BY <2>2, <2>3
<1> HIDE DEF e
<1>7. Layout(u, v, r, c, e)
  BY <1>1, <1>4, <1>6 DEF Layout
<1> QED  BY <1>7

\* A read takes the next bytes of packet c + 1.
LEMMA LayoutBytes ==
    ASSUME NEW s \in Seq(Kinds), NEW t \in Seq(Octets), NEW r \in Nat,
           NEW c \in 0 .. Len(s), NEW end, Layout(s, t, r, c, end), Len(t) >= 1
    PROVE  /\ c + 1 \in 1 .. Len(s)
           /\ \A k \in 1 .. Len(Buffer(s, c + 1)) :
                 k > r => t[k - r] = Buffer(s, c + 1)[k]
<1>1. c # Len(s)
  BY DEF Layout
<1>2. c + 1 \in 1 .. Len(s) /\ c + 1 \in c + 1 .. Len(s) /\ (c + 1) - 1 = c
  BY <1>1
<1>3. /\ end[c] = 0 - r
      /\ \A k \in 1 .. Len(Buffer(s, c + 1)) :
            end[c] + k >= 1 => t[end[c] + k] = Buffer(s, c + 1)[k]
  BY <1>2 DEF Layout
<1>4. ASSUME NEW k \in 1 .. Len(Buffer(s, c + 1)), k > r
      PROVE  t[k - r] = Buffer(s, c + 1)[k]
  <2>1. end[c] + k = k - r /\ k - r >= 1
    BY <1>3, <1>4
  <2> QED  BY <2>1, <1>3
<1> QED  BY <1>2, <1>4

\* A read within packet c + 1.
LEMMA LayoutStay ==
    ASSUME NEW s \in Seq(Kinds), NEW t \in Seq(Octets), NEW r \in Nat,
           NEW c \in 0 .. Len(s), NEW end, Layout(s, t, r, c, end),
           NEW n \in Nat, n <= Len(t), NEW v \in Seq(Octets), Len(v) = Len(t) - n,
           \A k \in 1 .. Len(t) - n : v[k] = t[k + n]
    PROVE  Layout(s, v, r + n, c, [m \in c .. Len(s) |-> end[m] - n])
<1> DEFINE e == [m \in c .. Len(s) |-> end[m] - n]
<1>1. /\ end \in [c .. Len(s) -> Int] /\ end[c] = 0 - r /\ end[Len(s)] = Len(t)
      /\ \A m \in c + 1 .. Len(s) :
            /\ end[m] = end[m - 1] + Len(Buffer(s, m))
            /\ \A k \in 1 .. Len(Buffer(s, m)) :
                  end[m - 1] + k >= 1 => t[end[m - 1] + k] = Buffer(s, m)[k]
  BY DEF Layout
<1>2. Len(s) \in Nat /\ c \in Nat /\ c <= Len(s) /\ Len(t) \in Nat
  OBVIOUS
<1>3. e \in [c .. Len(s) -> Int] /\ e[c] = 0 - (r + n) /\ e[Len(s)] = Len(v)
  BY <1>1, <1>2
<1>4. ASSUME NEW m \in c + 1 .. Len(s)
      PROVE  /\ e[m] = e[m - 1] + Len(Buffer(s, m))
             /\ \A k \in 1 .. Len(Buffer(s, m)) :
                   e[m - 1] + k >= 1 => v[e[m - 1] + k] = Buffer(s, m)[k]
  <2>1. /\ m \in c .. Len(s) /\ m - 1 \in c .. Len(s) /\ m \in 1 .. Len(s)
        /\ e[m] = end[m] - n /\ e[m - 1] = end[m - 1] - n
        /\ end[m] \in Int /\ end[m - 1] \in Int
    <3>1. m \in c .. Len(s) /\ m - 1 \in c .. Len(s) /\ m \in 1 .. Len(s)
      BY <1>2
    <3> QED  BY <3>1, <1>1
  <2>2. Len(Buffer(s, m)) \in Nat
    BY <2>1, SentBuffer
  <2>3. end[m] = end[m - 1] + Len(Buffer(s, m))
    BY <1>1
  <2>4. ASSUME NEW k \in 1 .. Len(Buffer(s, m)), e[m - 1] + k >= 1
        PROVE  v[e[m - 1] + k] = Buffer(s, m)[k]
    <3>1. end[m] <= Len(t)
      BY <2>1, LayoutEnds
    <3>2. /\ e[m - 1] + k \in 1 .. Len(t) - n
          /\ (e[m - 1] + k) + n = end[m - 1] + k /\ end[m - 1] + k >= 1
      <4> DEFINE x == end[m - 1]
                 y == Len(Buffer(s, m))
      <4>1. x \in Int /\ y \in Nat /\ k \in 1 .. y /\ x + y <= Len(t)
            /\ e[m - 1] = x - n /\ (x - n) + k >= 1
        BY <3>1, <2>1, <2>2, <2>3, <2>4
      <4> HIDE DEF x, y, e
      <4>2. k \in Int /\ k <= y /\ Len(t) \in Int
        BY <4>1, <1>2
      <4>3. (x - n) + k \in Int /\ (x - n) + k <= Len(t) - n
        BY <4>1, <4>2
      <4>4. ((x - n) + k) + n = x + k /\ x + k >= 1
        BY <4>1, <4>2
      <4>5. (x - n) + k \in 1 .. Len(t) - n
        BY <4>1, <4>2, <4>3
      <4> QED  BY <4>1, <4>4, <4>5 DEF x
    <3>3. t[end[m - 1] + k] = Buffer(s, m)[k]
      BY <3>2, <1>1
    <3> QED  BY <3>2, <3>3
  <2> QED  BY <2>1, <2>2, <2>3, <2>4
<1> HIDE DEF e
<1>5. Layout(s, v, r + n, c, e)
  BY <1>3, <1>4 DEF Layout
<1> QED  BY <1>5 DEF e

\* Packet c + 1 has been read.
LEMMA LayoutNext ==
    ASSUME NEW s \in Seq(Kinds), NEW t, NEW r \in Nat,
           NEW c \in 0 .. Len(s), NEW end, Layout(s, t, r, c, end),
           c < Len(s), Len(Buffer(s, c + 1)) = r
    PROVE  Layout(s, t, 0, c + 1, [m \in c + 1 .. Len(s) |-> end[m]])
<1> DEFINE e == [m \in c + 1 .. Len(s) |-> end[m]]
<1>1. /\ end \in [c .. Len(s) -> Int] /\ end[c] = 0 - r /\ end[Len(s)] = Len(t)
      /\ \A m \in c + 1 .. Len(s) :
            /\ end[m] = end[m - 1] + Len(Buffer(s, m))
            /\ \A k \in 1 .. Len(Buffer(s, m)) :
                  end[m - 1] + k >= 1 => t[end[m - 1] + k] = Buffer(s, m)[k]
  BY DEF Layout
<1>2. Len(s) \in Nat /\ c \in Nat /\ c + 1 \in c + 1 .. Len(s) /\ (c + 1) - 1 = c
  OBVIOUS
<1>3. e[c + 1] = 0 - 0
  BY <1>1, <1>2
<1>4. e \in [c + 1 .. Len(s) -> Int] /\ e[Len(s)] = Len(t)
  BY <1>1, <1>2
<1>5. \A m \in (c + 1) + 1 .. Len(s) :
         /\ m \in c + 1 .. Len(s) /\ e[m] = end[m] /\ e[m - 1] = end[m - 1]
  BY <1>2
<1> HIDE DEF e
<1>6. Layout(s, t, 0, c + 1, e)
  BY <1>1, <1>3, <1>4, <1>5 DEF Layout
<1> QED  BY <1>6 DEF e

\* Packets with the same fields are equal.
LEMMA SamePacket ==
    ASSUME NEW p \in AnyPacket, NEW q \in AnyPacket, p.opcode = q.opcode,
           p.size = q.size, p.has = q.has, Len(p.body) = Len(q.body),
           \A k \in 1 .. Len(p.body) : p.body[k] = q.body[k]
    PROVE  p = q
<1>1. p.body \in Seq(Octets) /\ q.body \in Seq(Octets)
  BY DEF AnyPacket
<1>2. p.body = q.body
  <2> DEFINE a == p.body
             b == q.body
  <2>1. /\ a \in Seq(Octets) /\ b \in Seq(Octets) /\ Len(a) = Len(b)
        /\ \A k \in 1 .. Len(a) : a[k] = b[k]
    BY <1>1
  <2> HIDE DEF a, b
  <2>2. a = b
    BY <2>1
  <2> QED  BY <2>2 DEF a, b
<1> QED  BY <1>2 DEF AnyPacket

\* After the client has sent a packet the server is as much in step as before.
LEMMA SendSync ==
    ASSUME ReadInv, ReadInv', NEW kind \in Kinds, ClientSend(kind)
    PROVE  /\ \A c \in 0 .. Len(sent) : Sync(c) => c \in 0 .. Len(sent') /\ Sync(c)'
           /\ \A c \in 1 .. Len(sent) : Lost(c) => c \in 1 .. Len(sent') /\ Lost(c)'
<1> DEFINE b == MakeBuffer(Made(kind))
           h == head_already_read
           y == body_already_read
<1>1. /\ sent \in Seq(Kinds) /\ stream \in Seq(Octets) /\ h \in Nat /\ y \in Nat
      /\ extracted \in Seq(AnyPacket)
  BY StateTypes
<1>2. /\ stream' \in Seq(Octets) /\ Len(stream') = Len(stream) + Len(b)
      /\ \A k \in 1 .. Len(stream) : stream'[k] = stream[k]
      /\ \A k \in 1 .. Len(b) : stream'[Len(stream) + k] = b[k]
      /\ sent' \in Seq(Kinds) /\ Len(sent') = Len(sent) + 1
      /\ \A k \in 1 .. Len(sent) : sent'[k] = sent[k]
      /\ sent'[Len(sent) + 1] = kind
  BY SendFacts
<1>3. UNCHANGED <<mode, head_already_read, body_already_read, packet, extracted>>
  BY DEF ClientSend
<1>4. Buffer(sent', Len(sent')) = b
  BY <1>2 DEF Buffer
<1> HIDE DEF b
<1>5. ASSUME NEW c \in 0 .. Len(sent), Pushed(sent, extracted, c)
      PROVE  /\ Pushed(sent', extracted', c)
             /\ Cardinality(Valid(sent', c)) = Cardinality(Valid(sent, c))
  <2>1. c \in Nat /\ \A m \in 1 .. c : sent'[m] = sent[m]
    BY <1>1, <1>2
  <2>2. /\ Len(extracted) >= Len(extracted)
        /\ \A k \in 1 .. Len(extracted) : extracted[k] = extracted[k]
    BY <1>1
  <2>3. /\ Pushed(sent', extracted, c)
        /\ Cardinality(Valid(sent', c)) = Cardinality(Valid(sent, c))
    BY <2>1, <2>2, <1>1, <1>5, PushedStays
  <2> QED  BY <2>3, <1>3
<1>6. ASSUME NEW c \in 0 .. Len(sent), Sync(c)
      PROVE  c \in 0 .. Len(sent') /\ Sync(c)'
  <2>1. PICK end : Layout(sent, stream, h + y, c, end)
    BY <1>6 DEF Sync
  <2>2. \E e : Layout(sent', stream', h + y, c, e)
    <3>1. /\ Len(stream') = Len(stream) + Len(Buffer(sent', Len(sent')))
          /\ \A k \in 1 .. Len(Buffer(sent', Len(sent'))) :
                stream'[Len(stream) + k] = Buffer(sent', Len(sent'))[k]
      BY <1>2, <1>4
    <3>2. h + y \in Nat
      BY <1>1
    <3> QED  BY <2>1, <3>1, <3>2, <1>1, <1>2, LayoutSend
  <2>3. PartlyRead(sent', packet, h, y, c)
    <3>1. CASE c = Len(sent)
      <4>1. h + y = 0
        BY <2>1, <3>1, <1>1 DEF Layout
      <4>2. h = 0 /\ y = 0
        BY <4>1, <1>1
      <4> QED  BY <4>2 DEF PartlyRead
    <3>2. CASE c # Len(sent)
      <4>1. c + 1 \in 1 .. Len(sent)
        BY <3>2, <1>1
      <4>2. Buffer(sent', c + 1) = Buffer(sent, c + 1)
        BY <4>1, <1>2 DEF Buffer
      <4> QED  BY <4>2, <1>6 DEF Sync, PartlyRead
    <3> QED  BY <3>1, <3>2
  <2>4. c \in 0 .. Len(sent')
    BY <1>1, <1>2
  <2>5. /\ Pushed(sent', extracted', c)
        /\ Len(extracted') = Cardinality(Valid(sent', c))
    BY <1>3, <1>5, <1>6 DEF Sync
  <2>6. head_already_read' = h /\ body_already_read' = y /\ packet' = packet
    BY <1>3
  <2> QED  BY <2>2, <2>3, <2>4, <2>5, <2>6 DEF Sync
<1>7. ASSUME NEW c \in 1 .. Len(sent), Lost(c)
      PROVE  c \in 1 .. Len(sent') /\ Lost(c)'
  <2>1. c - 1 \in 0 .. Len(sent) /\ c \in 1 .. Len(sent') /\ sent'[c] = sent[c]
    BY <1>1, <1>2
  <2>2. Pushed(sent', extracted', c - 1)
    BY <2>1, <1>5, <1>7 DEF Lost
  <2>3. Bad(sent', c) /\ sent'[c].fields # << >>
    BY <2>1, <1>7 DEF Lost, Bad
  <2> QED  BY <2>1, <2>2, <2>3 DEF Lost
<1> QED  BY <1>6, <1>7

\* What has been pushed stays while the server is out of step.
LEMMA ReadLost ==
    ASSUME ReadInv, ReadInv', NEW c \in 1 .. Len(sent), Lost(c), sent' = sent,
           \/ extracted' = extracted
           \/ \E p : extracted' = Append(extracted, p)
    PROVE  Lost(c)'
<1>1. sent \in Seq(Kinds) /\ extracted \in Seq(AnyPacket)
  BY StateTypes
<1>2. extracted' \in Seq(AnyPacket)
  <2>1. extracted' \in Seq({q \in Packets : Len(q.body) = GetHeadSize(q)})
    BY DEF ReadInv, TypeOK
  <2>2. {q \in Packets : Len(q.body) = GetHeadSize(q)} \subseteq AnyPacket
    BY PacketsFacts
  <2> QED  BY <2>1, <2>2
<1>3. /\ Len(extracted') >= Len(extracted)
      /\ \A k \in 1 .. Len(extracted) : extracted'[k] = extracted[k]
  <2>1. CASE extracted' = extracted
    BY <2>1, <1>1
  <2>2. ASSUME NEW p, extracted' = Append(extracted, p)
        PROVE  /\ Len(extracted') >= Len(extracted)
               /\ \A k \in 1 .. Len(extracted) : extracted'[k] = extracted[k]
    BY <2>2, <1>1
  <2> QED  BY <2>1, <2>2
<1>4. c - 1 \in Nat /\ Pushed(sent, extracted, c - 1)
  BY <1>1 DEF Lost
<1>5. Pushed(sent, extracted', c - 1)
  BY <1>1, <1>2, <1>3, <1>4, PushedStays
<1> QED  BY <1>5 DEF Lost

\* Packet c + 1 has been read whole, and was pushed or had no payload.
LEMMA SyncNext ==
    ASSUME ReadInv, ReadInv', NEW c \in 0 .. Len(sent), Sync(c), c + 1 \in 1 .. Len(sent),
           NEW n \in Nat, n <= Len(stream),
           stream' = SubSeq(stream, n + 1, Len(stream)), sent' = sent,
           head_already_read + body_already_read + n = Len(Buffer(sent, c + 1)),
           head_already_read' = 0, body_already_read' = 0,
           Dealt(sent, extracted, extracted', c)
    PROVE  Sync(c + 1)'
<1> DEFINE r == head_already_read + body_already_read
<1>1. /\ sent \in Seq(Kinds) /\ stream \in Seq(Octets) /\ extracted \in Seq(AnyPacket)
      /\ r \in Nat /\ c \in Nat /\ r + n \in Nat
  BY StateTypes
<1>2. extracted' \in Seq(AnyPacket)
  <2>1. Made(sent[c + 1]) \in AnyPacket
    BY <1>1, SentBuffer
  <2>2. \A a \in AnyPacket : Append(extracted, a) \in Seq(AnyPacket)
    BY <1>1
  <2> QED  BY <2>1, <2>2, <1>1 DEF Dealt
<1>3. /\ stream' \in Seq(Octets) /\ Len(stream') = Len(stream) - n
      /\ \A k \in 1 .. Len(stream) - n : stream'[k] = stream[k + n]
  BY <1>1, StreamLeft
<1>4. PICK end : Layout(sent, stream, r, c, end)
  BY DEF Sync
<1> HIDE DEF r
<1>5. PICK e : Layout(sent, stream', r + n, c, e)
  BY <1>1, <1>3, <1>4, LayoutStay
<1>6. c < Len(sent) /\ Len(Buffer(sent, c + 1)) = r + n
  BY <1>1 DEF r
<1>7. \E f : Layout(sent, stream', 0, c + 1, f)
  BY <1>1, <1>5, <1>6, LayoutNext
<1>8. /\ Pushed(sent, extracted', c + 1)
      /\ Len(extracted') = Cardinality(Valid(sent, c + 1))
  <2>1. /\ Pushed(sent, extracted, c)
        /\ Len(extracted) = Cardinality(Valid(sent, c))
    BY DEF Sync
  <2> QED  BY <2>1, <1>1, <1>2, PushedNext
<1>9. PartlyRead(sent, packet', 0, 0, c + 1)
  BY DEF PartlyRead
<1>10. head_already_read' + body_already_read' = 0
  OBVIOUS
<1> QED  BY <1>7, <1>8, <1>9, <1>10 DEF Sync

\* More of packet c + 1 has been read.
LEMMA SyncStay ==
    ASSUME ReadInv, NEW c \in 0 .. Len(sent), Sync(c),
           NEW n \in Nat, n <= Len(stream),
           stream' = SubSeq(stream, n + 1, Len(stream)), sent' = sent,
           head_already_read' + body_already_read'
              = head_already_read + body_already_read + n,
           PartlyRead(sent, packet', head_already_read', body_already_read', c),
           extracted' = extracted
    PROVE  Sync(c)'
<1> DEFINE r == head_already_read + body_already_read
<1>1. sent \in Seq(Kinds) /\ stream \in Seq(Octets) /\ r \in Nat
  BY StateTypes
<1>2. /\ stream' \in Seq(Octets) /\ Len(stream') = Len(stream) - n
      /\ \A k \in 1 .. Len(stream) - n : stream'[k] = stream[k + n]
  BY <1>1, StreamLeft
<1>3. PICK end : Layout(sent, stream, r, c, end)
  BY DEF Sync
<1> HIDE DEF r
<1>4. \E e : Layout(sent, stream', r + n, c, e)
  BY <1>1, <1>2, <1>3, LayoutStay
<1>5. head_already_read' + body_already_read' = r + n
  BY DEF r
<1> QED  BY <1>4, <1>5 DEF Sync

\* A read of the header, in step.
LEMMA ReadHeadSync ==
    ASSUME ReadInv, ReadInv', NEW c \in 0 .. Len(sent), Sync(c), NEW n \in 1 .. Limit,
           n <= Len(stream), ReadHead(n)
    PROVE  \/ Sync(c)'
           \/ c + 1 \in 1 .. Len(sent) /\ (Sync(c + 1)' \/ Lost(c + 1)')
<1> DEFINE h == head_already_read
           p == HeadRead(n)
           q == WithRoom(HeadRead(n))
           made == Made(sent[c + 1])
           buffer == Buffer(sent, c + 1)
<1>1. /\ sent \in Seq(Kinds) /\ stream \in Seq(Octets) /\ h \in Nat /\ packet \in AnyPacket
      /\ HeadSize \in Nat
  BY StateTypes
<1>2. mode = "head" /\ body_already_read = 0 /\ sent' = sent
      /\ stream' = SubSeq(stream, n + 1, Len(stream))
  BY ReadHeadCases DEF ReadInv, Counters
<1>3. n \in 1 .. HeadSizeLeft
  BY <1>2 DEF Limit
<1>4. /\ n \in Nat /\ n >= 1 /\ h + n <= HeadSize /\ p \in AnyPacket
      /\ \A k \in 1 .. HeadSize :
            HeadBytes(p)[k] = IF k \in h + 1 .. h + n
                              THEN stream[k - h] ELSE HeadBytes(packet)[k]
  BY <1>2, <1>3, HeadReadFacts
<1>5. PICK end : Layout(sent, stream, h, c, end)
  BY <1>1, <1>2 DEF Sync
<1>6. /\ c + 1 \in 1 .. Len(sent)
      /\ \A k \in 1 .. Len(buffer) : k > h => stream[k - h] = buffer[k]
  BY <1>1, <1>4, <1>5, LayoutBytes
<1>7. /\ made \in AnyPacket /\ made.has = TRUE
      /\ GetHeadSize(made) = Len(made.body) /\ Len(made.body) \in Nat
      /\ sent[c + 1].fields = << >> => Len(made.body) = 0
      /\ Len(buffer) = HeadSize + Len(made.body)
      /\ \A k \in 1 .. HeadSize : buffer[k] = HeadBytes(made)[k]
  BY <1>1, <1>6, SentBuffer
<1>8. /\ q \in AnyPacket /\ q.has = TRUE /\ q.size = p.size /\ q.opcode = p.opcode
      /\ Len(q.body) = GetHeadSize(p)
  BY <1>4, HeadSizeType, ResizeFacts DEF WithRoom
<1> HIDE DEF p, q, made, buffer
<1>9. \A k \in 1 .. h + n : HeadBytes(p)[k] = buffer[k]
  <2>1. SUFFICES ASSUME NEW k \in 1 .. h + n
        PROVE  HeadBytes(p)[k] = buffer[k]
    OBVIOUS
  <2>2. k \in 1 .. HeadSize /\ k \in 1 .. Len(buffer)
    BY <1>1, <1>4, <1>7
  <2>3. CASE k \in h + 1 .. h + n
    BY <2>2, <2>3, <1>1, <1>4, <1>6
  <2>4. CASE k \notin h + 1 .. h + n
    <3>1. k \in 1 .. h
      BY <2>4, <1>1, <1>4
    <3>2. HeadBytes(packet)[k] = buffer[k]
      BY <3>1 DEF Sync, PartlyRead, buffer
    <3> QED  BY <3>2, <2>2, <2>4, <1>4
  <2> QED  BY <2>3, <2>4
<1>10. ASSUME h + n >= HeadSize
       PROVE  h + n = HeadSize /\ p.opcode = made.opcode /\ p.size = made.size
  <2>1. h + n = HeadSize
    BY <1>1, <1>4, <1>10
  <2>2. HeadBytes(p) \in [1 .. HeadSize -> Octets] /\ HeadBytes(made) \in [1 .. HeadSize -> Octets]
    BY <1>4, <1>7, HeadFacts
  <2>3. \A k \in 1 .. HeadSize : HeadBytes(p)[k] = HeadBytes(made)[k]
    BY <2>1, <1>7, <1>9
  <2>4. HeadBytes(p) = HeadBytes(made)
    BY <2>2, <2>3, <1>1
  <2> QED  BY <2>1, <2>4, <1>4, <1>7, HeadFacts
<1>11. ASSUME h + n >= HeadSize
       PROVE  (Bad(sent, c + 1) <=> ~IsValidHeader(p)) /\ GetHeadSize(p) = Len(made.body)
  BY <1>7, <1>10, <1>11 DEF Bad, IsValidHeader, GetHeadSize, made
<1>12. CASE /\ h + n < HeadSize
            /\ head_already_read' = h + n
            /\ packet' = p
            /\ UNCHANGED <<mode, body_already_read, extracted>>
  <2>1. PartlyRead(sent, packet', head_already_read', body_already_read', c)
    BY <1>2, <1>9, <1>12 DEF PartlyRead, buffer
  <2> QED  BY <2>1, <1>1, <1>2, <1>4, <1>12, SyncStay
<1>13. CASE /\ h + n >= HeadSize /\ ~IsValidHeader(p)
            /\ head_already_read' = 0
            /\ packet' = p
            /\ UNCHANGED <<mode, body_already_read, extracted>>
  <2>1. Bad(sent, c + 1) /\ h + n = HeadSize
    BY <1>10, <1>11, <1>13
  <2>2. CASE sent[c + 1].fields = << >>
    <3>1. h + body_already_read + n = Len(Buffer(sent, c + 1))
      BY <2>1, <2>2, <1>1, <1>2, <1>4, <1>7 DEF buffer
    <3>2. Dealt(sent, extracted, extracted', c)
      BY <2>1, <2>2, <1>13 DEF Dealt
    <3>3. Sync(c + 1)'
      BY <3>1, <3>2, <1>2, <1>4, <1>6, <1>13, SyncNext
    <3> QED  BY <3>3, <1>6
  <2>3. CASE sent[c + 1].fields # << >>
    <3>1. (c + 1) - 1 = c /\ Pushed(sent, extracted, c)
      BY <1>1 DEF Sync
    <3>2. Lost(c + 1)'
      BY <2>1, <2>3, <3>1, <1>2, <1>13 DEF Lost
    <3> QED  BY <3>2, <1>6
  <2> QED  BY <2>2, <2>3
<1>14. CASE /\ h + n >= HeadSize /\ IsValidHeader(p) /\ Len(q.body) > 0
            /\ head_already_read' = h + n
            /\ packet' = q
            /\ mode' = "body"
            /\ UNCHANGED <<body_already_read, extracted>>
  <2>1. HeadBytes(q) = HeadBytes(p)
    BY <1>8 DEF HeadBytes
  <2>2. PartlyRead(sent, packet', head_already_read', body_already_read', c)
    BY <2>1, <1>2, <1>9, <1>14 DEF PartlyRead, buffer
  <2>3. /\ head_already_read' + body_already_read' = h + body_already_read + n
        /\ extracted' = extracted
    BY <1>1, <1>2, <1>4, <1>14
  <2> QED  BY <2>2, <2>3, <1>2, <1>4, SyncStay
<1>15. CASE /\ h + n >= HeadSize /\ IsValidHeader(p) /\ Len(q.body) = 0
            /\ Extract(q)
  <2>1. ~Bad(sent, c + 1) /\ h + n = HeadSize /\ Len(made.body) = 0
    BY <1>8, <1>10, <1>11, <1>15
  <2>2. q = made
    <3>1. /\ q.opcode = made.opcode /\ q.size = made.size /\ q.has = made.has
          /\ Len(q.body) = Len(made.body)
      BY <2>1, <1>7, <1>8, <1>10, <1>15
    <3>2. \A k \in 1 .. Len(q.body) : q.body[k] = made.body[k]
      BY <1>15
    <3> QED  BY <3>1, <3>2, <1>7, <1>8, SamePacket
  <2>3. /\ head_already_read' = 0 /\ body_already_read' = 0
        /\ Dealt(sent, extracted, extracted', c)
    BY <2>1, <2>2, <1>15 DEF Extract, made, Dealt
  <2>4. h + body_already_read + n = Len(Buffer(sent, c + 1))
    BY <2>1, <1>1, <1>2, <1>4, <1>7 DEF buffer
  <2>5. Sync(c + 1)'
    BY <2>3, <2>4, <1>2, <1>4, <1>6, SyncNext
  <2> QED  BY <2>5, <1>6
<1> QED  BY <1>12, <1>13, <1>14, <1>15, ReadHeadCases DEF p, q

\* A read of the payload, in step.
LEMMA ReadBodySync ==
    ASSUME ReadInv, ReadInv', NEW c \in 0 .. Len(sent), Sync(c), NEW n \in 1 .. Limit,
           n <= Len(stream), ReadBody(n)
    PROVE  Sync(c)' \/ (c + 1 \in 1 .. Len(sent) /\ Sync(c + 1)')
<1> DEFINE b == body_already_read
           p == BodyRead(n)
           made == Made(sent[c + 1])
           buffer == Buffer(sent, c + 1)
<1>1. /\ sent \in Seq(Kinds) /\ stream \in Seq(Octets) /\ b \in Nat
      /\ packet \in AnyPacket /\ HeadSize \in Nat /\ HeadSize + b \in Nat
  BY StateTypes
<1>2. /\ mode = "body" /\ head_already_read = HeadSize /\ sent' = sent
      /\ packet.has = TRUE /\ IsValidHeader(packet)
      /\ Len(packet.body) = GetHeadSize(packet)
      /\ stream' = SubSeq(stream, n + 1, Len(stream))
  BY ReadBodyCases DEF ReadInv, Counters
<1>3. n \in 1 .. BodySizeLeft
  BY <1>2 DEF Limit
<1>4. /\ n \in Nat /\ n >= 1 /\ b + n <= Len(packet.body) /\ p \in AnyPacket
      /\ p.opcode = packet.opcode /\ p.size = packet.size /\ p.has = packet.has
      /\ Len(p.body) = Len(packet.body) /\ Len(packet.body) \in Nat
      /\ \A k \in 1 .. Len(packet.body) :
            p.body[k] = IF k \in b + 1 .. b + n THEN stream[k - b] ELSE packet.body[k]
  BY <1>2, <1>3, BodyReadFacts, StateTypes
<1>5. PICK end : Layout(sent, stream, HeadSize + b, c, end)
  BY <1>2 DEF Sync
<1>6. /\ c + 1 \in 1 .. Len(sent)
      /\ \A k \in 1 .. Len(buffer) :
            k > HeadSize + b => stream[k - (HeadSize + b)] = buffer[k]
  <2> DEFINE r == HeadSize + b
  <2>1. r \in Nat /\ Layout(sent, stream, r, c, end) /\ Len(stream) >= 1
    BY <1>1, <1>4, <1>5
  <2> HIDE DEF r
  <2>2. /\ c + 1 \in 1 .. Len(sent)
        /\ \A k \in 1 .. Len(buffer) : k > r => stream[k - r] = buffer[k]
    BY <2>1, <1>1, LayoutBytes
  <2> QED  BY <2>2 DEF r
<1>7. /\ made \in AnyPacket /\ made.has = TRUE
      /\ GetHeadSize(made) = Len(made.body) /\ Len(made.body) \in Nat
      /\ Len(buffer) = HeadSize + Len(made.body)
      /\ \A k \in 1 .. HeadSize : buffer[k] = HeadBytes(made)[k]
      /\ \A k \in 1 .. Len(made.body) : buffer[HeadSize + k] = made.body[k]
  BY <1>1, <1>6, SentBuffer
<1>8. /\ \A k \in 1 .. HeadSize : HeadBytes(packet)[k] = buffer[k]
      /\ \A k \in 1 .. b : packet.body[k] = buffer[HeadSize + k]
  BY <1>2 DEF Sync, PartlyRead
<1> HIDE DEF p, made, buffer
<1>9. packet.opcode = made.opcode /\ packet.size = made.size
  <2>1. /\ HeadBytes(packet) \in [1 .. HeadSize -> Octets]
        /\ HeadBytes(made) \in [1 .. HeadSize -> Octets]
    BY <1>1, <1>7, HeadFacts
  <2>2. \A k \in 1 .. HeadSize : HeadBytes(packet)[k] = HeadBytes(made)[k]
    BY <1>7, <1>8
  <2>3. HeadBytes(packet) = HeadBytes(made)
    BY <2>1, <2>2, <1>1
  <2> QED  BY <2>3, <1>1, <1>7, HeadFacts
<1>10. ~Bad(sent, c + 1) /\ Len(packet.body) = Len(made.body)
  BY <1>2, <1>7, <1>9 DEF Bad, IsValidHeader, GetHeadSize, made
<1>11. \A k \in 1 .. b + n : p.body[k] = buffer[HeadSize + k]
  <2>1. SUFFICES ASSUME NEW k \in 1 .. b + n
        PROVE  p.body[k] = buffer[HeadSize + k]
    OBVIOUS
  <2>2. k \in 1 .. Len(packet.body) /\ HeadSize + k \in 1 .. Len(buffer)
    BY <1>1, <1>4, <1>7, <1>10
  <2>3. CASE k \in b + 1 .. b + n
    <3>1. HeadSize + k > HeadSize + b /\ (HeadSize + k) - (HeadSize + b) = k - b
      BY <2>3, <1>1
    <3> QED  BY <3>1, <2>2, <2>3, <1>4, <1>6
  <2>4. CASE k \notin b + 1 .. b + n
    <3>1. k \in 1 .. b
      BY <2>4, <1>1, <1>4
    <3> QED  BY <3>1, <2>2, <2>4, <1>4, <1>8
  <2> QED  BY <2>3, <2>4
<1>12. CASE /\ b + n < GetHeadSize(packet)
            /\ body_already_read' = b + n
            /\ packet' = p
            /\ UNCHANGED <<mode, head_already_read, extracted>>
  <2>1. HeadBytes(p) = HeadBytes(packet)
    BY <1>4 DEF HeadBytes
  <2>2. PartlyRead(sent, packet', head_already_read', body_already_read', c)
    BY <2>1, <1>2, <1>8, <1>11, <1>12 DEF PartlyRead, buffer
  <2>3. /\ head_already_read' + body_already_read' = head_already_read + b + n
        /\ extracted' = extracted
    BY <1>1, <1>2, <1>4, <1>12
  <2> QED  BY <2>2, <2>3, <1>2, <1>4, SyncStay
<1>13. CASE /\ b + n >= GetHeadSize(packet)
            /\ Extract(p)
  <2>1. b + n = Len(made.body)
    <3>1. b + n >= Len(packet.body)
      BY <1>2, <1>13
    <3>2. b + n = Len(packet.body)
      BY <3>1, <1>1, <1>4
    <3> QED  BY <3>2, <1>10
  <2>2. p = made
    <3>1. /\ p.opcode = made.opcode /\ p.size = made.size /\ p.has = made.has
          /\ Len(p.body) = Len(made.body)
      BY <1>2, <1>4, <1>7, <1>9, <1>10
    <3>2. \A k \in 1 .. Len(p.body) : p.body[k] = made.body[k]
      BY <2>1, <3>1, <1>7, <1>11
    <3> QED  BY <3>1, <3>2, <1>4, <1>7, SamePacket
  <2>3. /\ head_already_read' = 0 /\ body_already_read' = 0
        /\ Dealt(sent, extracted, extracted', c)
    BY <2>2, <1>10, <1>13 DEF Extract, made, Dealt
  <2>4. head_already_read + b + n = Len(Buffer(sent, c + 1))
    BY <2>1, <1>1, <1>2, <1>4, <1>7 DEF buffer
  <2>5. Sync(c + 1)'
    BY <2>3, <2>4, <1>2, <1>4, <1>6, SyncNext
  <2> QED  BY <2>5, <1>6
<1> QED  BY <1>12, <1>13, ReadBodyCases DEF p

\* The server starts in step.
LEMMA FramingInit == Init => FramingInv
<1>1. SUFFICES ASSUME Init
      PROVE  FramingInv
  OBVIOUS
<1>2. ReadInv
  BY <1>1, ReadInit
<1>3. /\ sent = << >> /\ stream = << >> /\ extracted = << >>
      /\ head_already_read = 0 /\ body_already_read = 0
  BY <1>1 DEF Init
<1>4. Layout(sent, stream, 0, 0, [m \in 0 .. 0 |-> 0])
  BY <1>3 DEF Layout
<1>5. PartlyRead(sent, packet, 0, 0, 0)
  BY DEF PartlyRead
<1>6. Valid(sent, 0) = {} /\ Cardinality(Valid(sent, 0)) = 0
  BY FS_EmptySet DEF Valid
<1>7. Pushed(sent, extracted, 0) /\ Len(extracted) = Cardinality(Valid(sent, 0))
  BY <1>3, <1>6 DEF Pushed
<1>8. Sync(0)
  BY <1>3, <1>4, <1>5, <1>7 DEF Sync
<1>9. 0 \in 0 .. Len(sent)
  BY <1>3
<1> QED  BY <1>2, <1>8, <1>9 DEF FramingInv

\* Every step keeps the server in step, or what it pushed until it fell out.
LEMMA FramingNext == FramingInv /\ [Next]_vars => FramingInv'
<1>1. SUFFICES ASSUME FramingInv, [Next]_vars
      PROVE  FramingInv'
  OBVIOUS
<1>2. ReadInv /\ ReadInv'
  BY <1>1, ReadNext DEF FramingInv
<1>3. SUFFICES \/ \E c \in 0 .. Len(sent') : Sync(c)'
               \/ \E c \in 1 .. Len(sent') : Lost(c)'
  BY <1>2, <1>3 DEF FramingInv
<1>4. CASE Read
  <2>1. PICK n \in 1 .. Limit : n <= Len(stream) /\ (ReadHead(n) \/ ReadBody(n))
    BY <1>4 DEF Read
  <2>2. sent' = sent
    BY <2>1, ReadHeadCases, ReadBodyCases
  <2>3. \A c \in 1 .. Len(sent) : c \in 0 .. Len(sent)
    OBVIOUS
  <2>4. ASSUME NEW c \in 0 .. Len(sent), Sync(c)
        PROVE  \/ \E d \in 0 .. Len(sent') : Sync(d)'
               \/ \E d \in 1 .. Len(sent') : Lost(d)'
    <3>1. \/ Sync(c)'
          \/ c + 1 \in 1 .. Len(sent) /\ (Sync(c + 1)' \/ Lost(c + 1)')
      BY <2>1, <2>4, <1>2, ReadHeadSync, ReadBodySync
    <3> QED  BY <3>1, <2>2, <2>3, <2>4
  <2>5. ASSUME NEW c \in 1 .. Len(sent), Lost(c)
        PROVE  Lost(c)'
    <3>1. \/ extracted' = extracted
          \/ \E p : extracted' = Append(extracted, p)
      BY <2>1, ReadHeadCases, ReadBodyCases DEF Extract
    <3> QED  BY <3>1, <2>2, <2>5, <1>2, ReadLost
  <2> QED  BY <2>2, <2>4, <2>5, <1>1 DEF FramingInv
<1>5. ASSUME NEW kind \in Kinds, ClientSend(kind)
      PROVE  \/ \E c \in 0 .. Len(sent') : Sync(c)'
             \/ \E c \in 1 .. Len(sent') : Lost(c)'
  BY <1>1, <1>2, <1>5, SendSync DEF FramingInv
<1>6. CASE UNCHANGED vars
  BY <1>1, <1>6 DEF vars, FramingInv, Sync, Lost
<1> QED  BY <1>1, <1>4, <1>5, <1>6 DEF Next

\* The server is in step with the client, or lost track at a payload behind a
\* header it refused and keeps what it had pushed by then.
THEOREM FramingInvariance == Spec => []FramingInv
<1> QED  BY FramingInit, FramingNext, PTL DEF Spec

\* The place of a wanted packet is its number among the valid ones.
LEMMA WantedFacts ==
    ASSUME sent \in Seq(Kinds), NEW n \in Wanted
    PROVE  /\ n \in 1 .. Len(sent) /\ ~Bad(sent, n)
           /\ \A m \in 1 .. n - 1 : Bad(sent, m) => sent[m].fields = << >>
           /\ n \in Valid(sent, n) /\ n \in Valid(sent, Len(sent))
           /\ Place(n) = Cardinality(Valid(sent, n))
<1>1. n \in 1 .. Len(sent) /\ ~Bad(sent, n) /\ InStep(n)
  BY DEF Wanted, Refused, Bad
<1>2. \A m \in 1 .. n - 1 : Bad(sent, m) => sent[m].fields = << >>
  BY <1>1 DEF InStep, Refused, Bad
<1>3. n \in Valid(sent, n) /\ n \in Valid(sent, Len(sent))
  BY <1>1 DEF Valid
<1>4. ASSUME NEW m \in 1 .. n
      PROVE  InStep(m) /\ m \in DOMAIN sent
  BY <1>1, <1>2 DEF InStep, Refused, Bad
<1>5. {m \in Wanted : m <= n} \subseteq Valid(sent, n)
  BY <1>1 DEF Wanted, Valid, Refused, Bad
<1>6. Valid(sent, n) \subseteq {m \in Wanted : m <= n}
  BY <1>1, <1>4 DEF Wanted, Valid, Refused, Bad
<1>7. {m \in Wanted : m <= n} = Valid(sent, n)
  BY <1>5, <1>6
<1> QED  BY <1>1, <1>2, <1>3, <1>7 DEF Place

\* A wanted packet that is one of the first c has been pushed to its place.
LEMMA WantedPushed ==
    ASSUME sent \in Seq(Kinds), NEW n \in Wanted, NEW c \in Nat, n <= c,
           Pushed(sent, extracted, c)
    PROVE  extracted[Place(n)] = Made(sent[n])
<1>1. n \in 1 .. Len(sent) /\ ~Bad(sent, n) /\ Place(n) = Cardinality(Valid(sent, n))
  BY WantedFacts
<1>2. n \in Valid(sent, c)
  BY <1>1 DEF Valid
<1> QED  BY <1>1, <1>2 DEF Pushed

\* The packets pushed to the world are the valid packets the client sent, in
\* order, whatever pieces their bytes arrive in, until a payload follows a
\* refused header (packet_handler.cpp:16-59, session.cpp:107-120, 148-157).
THEOREM FramesArrive == Spec => []Framing
<1>1. FramingInv => Framing
  <2>1. SUFFICES ASSUME FramingInv
        PROVE  Framing
    OBVIOUS
  <2>2. sent \in Seq(Kinds) /\ Len(sent) \in Nat
    BY <2>1, StateTypes DEF FramingInv
  <2>3. ASSUME NEW c \in 0 .. Len(sent), Sync(c)
        PROVE  Framing
    <3>1. Pushed(sent, extracted, c) /\ Len(extracted) = Cardinality(Valid(sent, c))
      BY <2>3 DEF Sync
    <3>2. ASSUME NEW n \in Wanted, Place(n) <= Len(extracted)
          PROVE  extracted[Place(n)] = Made(sent[n])
      <4>1. n \in 1 .. Len(sent) /\ Place(n) = Cardinality(Valid(sent, n))
        BY <2>2, WantedFacts
      <4>2. CASE n <= c
        BY <4>2, <3>1, <2>2, WantedPushed
      <4>3. CASE n > c
        <5>1. n \in Valid(sent, Len(sent)) /\ c \in 0 .. n - 1
          BY <4>1, <4>3, <2>2, WantedFacts
        <5>2. /\ Cardinality(Valid(sent, c)) < Cardinality(Valid(sent, n))
          BY <5>1, <2>2, PlaceFacts
        <5>3. Cardinality(Valid(sent, c)) \in Nat /\ Cardinality(Valid(sent, n)) \in Nat
          BY <4>1, ValidFacts
        <5> QED  BY <5>2, <5>3, <4>1, <3>1, <3>2
      <4> QED  BY <4>1, <4>2, <4>3
    <3>3. ASSUME InStep(Len(sent) + 1)
          PROVE  Len(extracted) <= Cardinality(Wanted)
      <4>1. \A m \in 1 .. Len(sent) : InStep(m)
        BY <3>3, <2>2 DEF InStep
      <4>2. Wanted = Valid(sent, Len(sent))
        BY <4>1, <2>2 DEF Wanted, Valid, Refused, Bad
      <4> QED  BY <4>2, <3>1, <2>2, ValidFacts
    <3> QED  BY <3>2, <3>3 DEF Framing
  <2>4. ASSUME NEW c \in 1 .. Len(sent), Lost(c)
        PROVE  Framing
    <3>1. /\ Bad(sent, c) /\ sent[c].fields # << >>
          /\ Pushed(sent, extracted, c - 1) /\ c - 1 \in Nat
      BY <2>4 DEF Lost
    <3>2. ASSUME NEW n \in Wanted
          PROVE  extracted[Place(n)] = Made(sent[n])
      <4>1. /\ n \in 1 .. Len(sent) /\ ~Bad(sent, n)
            /\ \A m \in 1 .. n - 1 : Bad(sent, m) => sent[m].fields = << >>
        BY <2>2, WantedFacts
      <4>2. n # c /\ ~(c \in 1 .. n - 1)
        BY <3>1, <4>1
      <4>3. n <= c - 1
        BY <4>1, <4>2
      <4> QED  BY <4>3, <3>1, <2>2, WantedPushed
    <3>3. ~InStep(Len(sent) + 1)
      BY <3>1, <2>2 DEF InStep, Refused, Bad
    <3> QED  BY <3>2, <3>3 DEF Framing
  <2> QED  BY <2>1, <2>3, <2>4 DEF FramingInv
<1> QED  BY <1>1, FramingInvariance, PTL

-----------------------------------------------------------------------------
(* Reading the fields back.                                                *)

\* The packet says how long it is, and has a body to write to.
Whole(p) == p.has = TRUE /\ p.size = ToNet(Len(p.body), SizeBytes)

\* operator<< leaves a packet whole.
LEMMA FilledWhole ==
    ASSUME NEW kind \in Kinds, NEW m \in 0 .. Len(kind.fields)
    PROVE  Whole(Filled(kind)[m])
<1>1. kind.fields \in Seq(Field) /\ kind.opcode \in Nat /\ Len(kind.fields) \in Nat
  BY FilledFacts
<1>2. CASE m = 0
  <2> DEFINE q == NewPacket(kind.opcode)
             p == ResizeBody(q, 0)
  <2>1. p.has = TRUE /\ p.body = << >>
    BY <1>1, NewFacts
  <2>2. p.size = ToNet(0, SizeBytes)
    BY DEF NewPacket, ResizeBody
  <2>3. Filled(kind)[m] = p
    BY <1>2, FilledFacts
  <2> HIDE DEF p
  <2> QED  BY <2>1, <2>2, <2>3 DEF Whole
<1>3. CASE m # 0
  <2> DEFINE p == Filled(kind)[m - 1]
             f == kind.fields[m]
  <2>1. m \in 1 .. Len(kind.fields) /\ m - 1 \in 0 .. Len(kind.fields)
    BY <1>1, <1>3
  <2>2. Filled(kind)[m] = Put(p, f) /\ p \in AnyPacket /\ f \in Field
    BY <2>1, <1>1, FilledFacts
  <2> HIDE DEF p, f
  <2>3. /\ Put(p, f).has = TRUE /\ Len(Put(p, f).body) = Len(p.body) + f.size
        /\ Put(p, f).size = ToNet(Len(p.body) + f.size, SizeBytes)
    BY <2>2, PutFacts
  <2> QED  BY <2>2, <2>3 DEF Whole
<1> QED  BY <1>2, <1>3

\* operator>> undoes operator<<.
LEMMA GetPut ==
    ASSUME NEW p \in AnyPacket, Whole(p), NEW f \in Field, f.value < Pow[f.size]
    PROVE  Get(Put(p, f), f.size) = f.value /\ Rest(Put(p, f), f.size) = p
<1> DEFINE q == Put(p, f)
           b == p.body
           n == f.size
           t == ToNet(f.value, f.size)
           r == ResizeBody(q, Len(b))
<1>1. f.value \in Nat /\ n \in Nat /\ b \in Seq(Octets) /\ Len(b) \in Nat
  BY DEF Field, AnyPacket
<1>2. t \in [1 .. n -> Octets] /\ FromNet(t) = f.value
  BY <1>1, NetFacts
<1>3. t \in Seq(Octets) /\ Len(t) = n
  BY <1>1, <1>2
<1>4. /\ q \in AnyPacket /\ q.has = TRUE /\ q.opcode = p.opcode
      /\ q.body = b \o t /\ Len(q.body) = Len(b) + n
  BY PutFacts
<1>5. r \in AnyPacket /\ r.has = TRUE /\ r.opcode = q.opcode /\ Len(r.body) = Len(b)
      /\ \A k \in 1 .. Len(b) : k <= Len(q.body) => r.body[k] = q.body[k]
  BY <1>1, <1>4, ResizeFacts
<1> HIDE DEF q, b, n, t, r
<1>6. Taken(q, n) = t
  <2>1. SubSeq(b \o t, Len(b) + 1, Len(b) + n) = t
    BY <1>1, <1>3
  <2>2. (Len(b) + n) - n + 1 = Len(b) + 1
    BY <1>1
  <2> QED  BY <2>1, <2>2, <1>4 DEF Taken
<1>7. r.body = b
  <2>1. \A k \in 1 .. Len(b) : q.body[k] = b[k]
    BY <1>1, <1>3, <1>4
  <2>2. \A k \in 1 .. Len(b) : r.body[k] = b[k]
    BY <2>1, <1>1, <1>4, <1>5
  <2>3. r.body \in Seq(Octets)
    BY <1>5 DEF AnyPacket
  <2> QED  BY <2>2, <2>3, <1>1, <1>5
<1>8. Rest(q, n) = [r EXCEPT !.size = ToNet(Len(b), SizeBytes)]
  <2>1. Len(q.body) - n = Len(b)
    BY <1>1, <1>4
  <2> QED  BY <2>1 DEF Rest, r
<1>9. ToNet(Len(b), SizeBytes) = p.size /\ p.has = TRUE
  BY DEF Whole, b
<1>10. Rest(q, n) = p
  BY <1>4, <1>5, <1>7, <1>8, <1>9 DEF AnyPacket, b
<1>11. Get(q, n) = f.value
  BY <1>2, <1>6 DEF Get
<1> QED  BY <1>10, <1>11 DEF q, n

\* What is left after j fields of a packet is the packet as it was without them.
LEMMA LeftFacts ==
    ASSUME NEW kind \in Kinds
    PROVE  \A j \in 0 .. Len(kind.fields) :
              Left(Made(kind), kind.fields)[j] = Filled(kind)[Len(kind.fields) - j]
<1> DEFINE fs == kind.fields
           n == Len(fs)
           F == Filled(kind)
           made == Made(kind)
           IsLeft(g) == g = [j \in 0 .. n |->
                               IF j = 0 THEN made ELSE Rest(g[j - 1], NthLast(fs, j).size)]
           h == [j \in 0 .. n |-> F[n - j]]
<1>1. n \in Nat /\ fs \in Seq(Field)
  BY FilledFacts
<1>2. ASSUME NEW j \in 1 .. n
      PROVE  F[n - j] = Rest(F[n - (j - 1)], NthLast(fs, j).size)
  <2> DEFINE m == n - (j - 1)
             p == F[m - 1]
             f == fs[m]
  <2>1. m \in 1 .. n /\ m - 1 \in 0 .. n /\ m - 1 = n - j /\ m = n + 1 - j
    BY <1>1
  <2>2. f \in Field /\ NthLast(fs, j) = f
    BY <2>1, <1>1 DEF NthLast
  <2>3. F[m] = Put(p, f) /\ p \in AnyPacket
    BY <2>1, FilledFacts
  <2>4. Whole(p)
    BY <2>1, FilledWhole
  <2>5. f.value < Pow[f.size]
    BY <2>1, <1>1, KindsFit
  <2> HIDE DEF m, f, p
  <2>6. Rest(F[m], f.size) = p
    BY <2>2, <2>3, <2>4, <2>5, GetPut
  <2>7. p = F[n - j]
    BY <2>1 DEF p
  <2> QED  BY <2>2, <2>6, <2>7 DEF m
<1>3. made = F[n]
  BY DEF Made
<1> HIDE DEF F, made, n, fs
<1>4. IsLeft(h)
  <2>1. ASSUME NEW j \in 0 .. n
        PROVE  h[j] = IF j = 0 THEN made ELSE Rest(h[j - 1], NthLast(fs, j).size)
    <3>1. CASE j = 0
      BY <3>1, <1>1, <1>3
    <3>2. CASE j # 0
      <4>1. j \in 1 .. n /\ j - 1 \in 0 .. n
        BY <3>2, <1>1
      <4> QED  BY <4>1, <3>2, <1>2
    <3> QED  BY <3>1, <3>2
  <2> QED  BY <2>1
<1>5. IsLeft(CHOOSE g : IsLeft(g))
  <2>1. \E g : IsLeft(g)
    BY <1>4
  <2> HIDE DEF IsLeft
  <2> QED  BY <2>1
<1> DEFINE L == Left(made, fs)
<1>6. L = CHOOSE g : IsLeft(g)
  BY Zenon DEF Left, n
<1>7. IsLeft(L)
  <2> HIDE DEF IsLeft, L
  <2> QED  BY <1>5, <1>6
<1> HIDE DEF L
<1>8. \A j \in 0 .. n : L[j] = IF j = 0 THEN made ELSE Rest(L[j - 1], NthLast(fs, j).size)
  BY <1>7
<1> HIDE DEF IsLeft
<1> DEFINE T == {j \in Nat : j <= n /\ L[j] # F[n - j]}
<1>9. T = {}
  <2>1. SUFFICES ASSUME T # {}
        PROVE  FALSE
    OBVIOUS
  <2>2. PICK j \in T : \A i \in T : j <= i
    BY <2>1, Least
  <2>3. j \in Nat /\ j <= n /\ L[j] # F[n - j]
    BY <2>2
  <2>4. CASE j = 0
    BY <2>3, <2>4, <1>1, <1>3, <1>8
  <2>5. CASE j # 0
    <3>1. j \in 1 .. n /\ j \in 0 .. n /\ j - 1 \in Nat /\ j - 1 <= n /\ ~(j <= j - 1)
      BY <2>3, <2>5, <1>1
    <3>2. L[j - 1] = F[n - (j - 1)]
      BY <3>1, <2>2
    <3>3. L[j] = Rest(L[j - 1], NthLast(fs, j).size)
      BY <3>1, <2>5, <1>8
    <3> QED  BY <3>1, <3>2, <3>3, <2>3, <1>2
  <2> QED  BY <2>4, <2>5
<1>10. \A j \in 0 .. n : L[j] = F[n - j]
  BY <1>1, <1>9
<1> QED  BY <1>10 DEF L, F, made, n, fs

\* Whatever pieces a packet has arrived in, reading its fields back gives the
\* values its sender wrote and leaves an empty packet (net_packet.hpp:78-116).
THEOREM FieldsArrive == Spec => []FieldsReadBack
<1>1. ReadInv /\ Framing => FieldsReadBack
  <2>1. SUFFICES ASSUME ReadInv, Framing, NEW n \in Wanted, Place(n) <= Len(extracted)
        PROVE  LET fields == sent[n].fields
                   left   == Left(extracted[Place(n)], fields)
               IN  /\ \A j \in 1 .. Len(fields) :
                         Get(left[j - 1], NthLast(fields, j).size) = NthLast(fields, j).value
                   /\ GetHeadSize(left[Len(fields)]) = 0
                   /\ left[Len(fields)].body = << >>
    BY DEF FieldsReadBack
  <2> DEFINE kind == sent[n]
             fs == kind.fields
             F == Filled(kind)
             left == Left(extracted[Place(n)], fs)
             l == Len(fs)
  <2>2. kind \in Kinds
    BY <2>1, StateTypes, WantedFacts
  <2>3. extracted[Place(n)] = Made(kind)
    BY <2>1 DEF Framing
  <2> HIDE DEF kind
  <2>4. l \in Nat /\ fs \in Seq(Field) /\ kind.opcode \in Nat
    BY <2>2, FilledFacts
  <2>5. \A j \in 0 .. l : left[j] = F[l - j]
    BY <2>2, <2>3, LeftFacts
  <2>6. ASSUME NEW j \in 1 .. l
        PROVE  Get(left[j - 1], NthLast(fs, j).size) = NthLast(fs, j).value
    <3> DEFINE m == l + 1 - j
               p == F[m - 1]
               f == fs[m]
    <3>1. m \in 1 .. l /\ m - 1 \in 0 .. l /\ j - 1 \in 0 .. l /\ l - (j - 1) = m
      BY <2>4
    <3>2. f \in Field /\ NthLast(fs, j) = f
      BY <3>1, <2>4 DEF NthLast
    <3>3. F[m] = Put(p, f) /\ p \in AnyPacket
      BY <3>1, <2>2, FilledFacts
    <3>4. Whole(p)
      BY <3>1, <2>2, FilledWhole
    <3>5. f.value < Pow[f.size]
      BY <3>1, <2>2, <2>4, KindsFit
    <3>6. left[j - 1] = F[m]
      BY <3>1, <2>5
    <3> HIDE DEF m, f, p, F, left, l
    <3> QED  BY <3>2, <3>3, <3>4, <3>5, <3>6, GetPut
  <2>7. GetHeadSize(left[l]) = 0 /\ left[l].body = << >>
    <3>1. l \in 0 .. l /\ l - l = 0
      BY <2>4
    <3>2. left[l] = F[0]
      BY <3>1, <2>5
    <3>3. F[0] = ResizeBody(NewPacket(kind.opcode), 0)
      BY <2>2, FilledFacts
    <3> HIDE DEF left, F
    <3> QED  BY <3>2, <3>3, <2>4, NewFacts
  <2> QED  BY <2>6, <2>7 DEF kind
<1> QED  BY <1>1, ReadInvariance, FramesArrive, PTL
=============================================================================
