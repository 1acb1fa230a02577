------------------------- MODULE InetAddressProofs -------------------------
(***************************************************************************)
(* Proofs about InetAddress, for every machine, every set of octets and    *)
(* ports addresses are built from and every text they are parsed from.     *)
(***************************************************************************)
EXTENDS InetAddress, IntegerLemmas, SequenceTheorems, TLAPS

Ip4 == [1 .. 4 -> Octet]
Ip6 == [1 .. 16 -> Octet]
Word == [1 .. 2 -> Octet]

\* The u16 whose octets these are.
Value(w) == w[1] * 256 + w[2]

\* Memory that some IP and port, or nil, account for: the member that the
\* family does not use is zero.
Addr4(ip, w) == [family |-> AF_INET, port |-> w, lo |-> ip, hi |-> Zeroes(16)]
Addr6(ip, w) == [family |-> AF_INET6, port |-> w, lo |-> Zeroes(4), hi |-> ip]
Is4(m) == m.family = AF_INET /\ m.lo \in Ip4 /\ m.port \in Word /\ m = Addr4(m.lo, m.port)
Is6(m) == m.family = AF_INET6 /\ m.hi \in Ip6 /\ m.port \in Word /\ m = Addr6(m.hi, m.port)
Proper(m) == m = Nil \/ Is4(m) \/ Is6(m)

-----------------------------------------------------------------------------
\* Zeroed memory consists of octets.
LEMMA ZeroesType == Zeroes(2) \in Word /\ Zeroes(4) \in Ip4 /\ Zeroes(16) \in Ip6
BY SMT DEF Zeroes, Word, Ip4, Ip6, Octet

\* A pair of octets is a port in memory.
LEMMA PairWord == \A x, y \in Octet : <<x, y>> \in Word
BY SMT DEF Word, Octet

\* A port is a number below 256 * 256.
LEMMA U16Range == \A p : p \in U16 <=> p \in Nat /\ p < 256 * 256
<1>1. ASSUME NEW n \in Nat PROVE \A p : p \in 0 .. (n - 1) <=> p \in Nat /\ p < n
  OBVIOUS
<1>2. 256 * 256 \in Nat
  OBVIOUS
<1> QED
  BY <1>1, <1>2, Zenon DEF U16

\* The port in network order is the port.
LEMMA PortBytes ==
    ASSUME NEW p \in U16
    PROVE  to_be_bytes(p) \in Word /\ Value(to_be_bytes(p)) = p
<1>0. p \in Nat /\ p < 256 * 256
  BY U16Range
<1>1. p \div 256 \in Octet
  <2>1. p \in Int /\ 0 <= p /\ p < 256 * 256
    BY <1>0
  <2>2. p \div 256 \in Int /\ 0 <= p \div 256
    BY <2>1, SMT
  <2>3. p \div 256 < 256
    BY <2>1, SMT
  <2> QED
    BY <2>2, <2>3, SMT DEF Octet
<1>2. p % 256 \in Octet
  BY <1>0, SMT DEF Octet
<1>3. to_be_bytes(p) \in Word
  BY <1>1, <1>2, PairWord, SMT DEF to_be_bytes
<1>4. Value(to_be_bytes(p)) = p
  BY <1>0, SMT DEF Value, to_be_bytes
<1> QED
  BY <1>3, <1>4

\* And the other way round.
LEMMA BytesPort ==
    ASSUME NEW w \in Word
    PROVE  Value(w) \in U16 /\ to_be_bytes(Value(w)) = w
<1> DEFINE x == w[1]
           y == w[2]
           z == x * 256 + y
<1>1. x \in 0 .. 255 /\ y \in 0 .. 255
  BY SMT DEF Word, Octet
<1>2. w = <<x, y>>
  BY SMT DEF Word
<1> HIDE DEF x, y
<1>3. z \in U16
  <2>1. z \in Nat /\ z < 256 * 256
    BY <1>1
  <2> QED
    BY <2>1, U16Range
<1>4. z \div 256 = x
  BY <1>1, SMT
<1>5. z % 256 = y
  BY <1>1, SMT
<1>6. Value(w) = z
  BY DEF Value, x, y
<1> HIDE DEF z
<1>7. to_be_bytes(z) = <<x, y>>
  BY <1>4, <1>5, SMT DEF to_be_bytes
<1> QED
  BY <1>2, <1>3, <1>6, <1>7

\* Octets of one length are a sequence of it.
LEMMA OctetsSeq ==
    ASSUME NEW n \in Nat
    PROVE  /\ \A x \in [1 .. n -> Octet] : x \in Seq(Octet) /\ Len(x) = n
           /\ \A x \in Seq(Octet) : Len(x) = n => x \in [1 .. n -> Octet]
<1>1. ASSUME NEW x \in [1 .. n -> Octet] PROVE x \in Seq(Octet) /\ Len(x) = n
  <2>1. x \in Seq(Octet)
    BY SeqDef
  <2> QED
    BY <2>1, LenProperties
<1>2. ASSUME NEW x \in Seq(Octet), Len(x) = n PROVE x \in [1 .. n -> Octet]
  BY <1>2, LenProperties
<1> QED
  BY <1>1, <1>2

\* In particular those of the two kinds of IP address and of a port.
LEMMA IpSeq ==
    /\ \A x \in Ip4 : x \in Seq(Octet) /\ Len(x) = 4
    /\ \A x \in Ip6 : x \in Seq(Octet) /\ Len(x) = 16
    /\ \A x \in Word : x \in Seq(Octet) /\ Len(x) = 2
    /\ \A x \in Seq(Octet) : Len(x) = 4 => x \in Ip4
    /\ \A x \in Seq(Octet) : Len(x) = 16 => x \in Ip6
<1>1. 2 \in Nat /\ 4 \in Nat /\ 16 \in Nat
  BY SMT
<1>2. /\ \A x \in Ip4 : x \in Seq(Octet) /\ Len(x) = 4
      /\ \A x \in Seq(Octet) : Len(x) = 4 => x \in Ip4
  BY <1>1, OctetsSeq, Zenon DEF Ip4
<1>3. /\ \A x \in Ip6 : x \in Seq(Octet) /\ Len(x) = 16
      /\ \A x \in Seq(Octet) : Len(x) = 16 => x \in Ip6
  BY <1>1, OctetsSeq, Zenon DEF Ip6
<1>4. \A x \in Word : x \in Seq(Octet) /\ Len(x) = 2
  BY <1>1, OctetsSeq, Zenon DEF Word
<1> QED
  BY <1>2, <1>3, <1>4, Zenon

\* Nil and the two kinds of addresses are proper, and proper ones are memory.
LEMMA ProperMemory ==
    /\ Proper(Nil) /\ Nil \in Memory
    /\ \A ip \in Ip4, w \in Word : Is4(Addr4(ip, w)) /\ Addr4(ip, w) \in Memory
    /\ \A ip \in Ip6, w \in Word : Is6(Addr6(ip, w)) /\ Addr6(ip, w) \in Memory
    /\ \A ip \in Ip4, w \in Word : Proper(Addr4(ip, w))
    /\ \A ip \in Ip6, w \in Word : Proper(Addr6(ip, w))
    /\ \A m : Proper(m) => m \in Memory
<1>1. Proper(Nil) /\ Nil \in Memory
  BY ZeroesType, SMT DEF Proper, Nil, Memory, Word, Ip4, Ip6
<1>2. \A ip \in Ip4, w \in Word : Is4(Addr4(ip, w)) /\ Addr4(ip, w) \in Memory
  BY ZeroesType, SMT DEF Is4, Addr4, Memory, Word, Ip4, Ip6
<1>3. \A ip \in Ip6, w \in Word : Is6(Addr6(ip, w)) /\ Addr6(ip, w) \in Memory
  BY ZeroesType, SMT DEF Is6, Addr6, Memory, Word, Ip4, Ip6
<1>4. ASSUME NEW m, Proper(m) PROVE m \in Memory
  <2>1. CASE m = Nil
    BY <1>1, <2>1
  <2>2. CASE Is4(m)
    BY <1>2, <2>2, SMT DEF Is4
  <2>3. CASE Is6(m)
    BY <1>3, <2>3, SMT DEF Is6
  <2> QED
    BY <1>4, <2>1, <2>2, <2>3 DEF Proper
<1>5. /\ \A ip \in Ip4, w \in Word : Proper(Addr4(ip, w))
      /\ \A ip \in Ip6, w \in Word : Proper(Addr6(ip, w))
  BY <1>2, <1>3, Zenon DEF Proper
<1> QED
  BY <1>1, <1>2, <1>3, <1>4, <1>5

\* Zeroed memory in which family, port and one address are written.
LEMMA Written ==
    /\ \A ip, w : /\ [Nil EXCEPT !.family = AF_INET, !.port = w, !.lo = ip] = Addr4(ip, w)
                  /\ [Nil EXCEPT !.family = AF_INET6, !.port = w, !.hi = ip] = Addr6(ip, w)
    /\ [Nil EXCEPT !.family = AF_INET] = Addr4(Zeroes(4), Zeroes(2))
    /\ [Nil EXCEPT !.family = AF_INET6] = Addr6(Zeroes(16), Zeroes(2))
<1> DEFINE R(f) == [family |-> f, port |-> Zeroes(2), lo |-> Zeroes(4), hi |-> Zeroes(16)]
           S(f, w) == [family |-> f, port |-> w, lo |-> Zeroes(4), hi |-> Zeroes(16)]
<1>1. \A f : [Nil EXCEPT !.family = f] = R(f)
  BY SMT DEF Nil
<1>2. \A f, w : [R(f) EXCEPT !.port = w] = S(f, w)
  BY SMT
<1>3. \A ip, w : /\ [S(AF_INET, w) EXCEPT !.lo = ip] = Addr4(ip, w)
                 /\ [S(AF_INET6, w) EXCEPT !.hi = ip] = Addr6(ip, w)
  BY SMT DEF Addr4, Addr6
<1>4. R(AF_INET) = Addr4(Zeroes(4), Zeroes(2)) /\ R(AF_INET6) = Addr6(Zeroes(16), Zeroes(2))
  BY Zenon DEF Addr4, Addr6
<1> HIDE DEF R, S
<1>5. \A ip, w :
        /\ [Nil EXCEPT !.family = AF_INET, !.port = w, !.lo = ip] = Addr4(ip, w)
        /\ [Nil EXCEPT !.family = AF_INET6, !.port = w, !.hi = ip] = Addr6(ip, w)
  BY <1>1, <1>2, <1>3
<1> QED
  BY <1>1, <1>4, <1>5, Zenon

\* What set and the constructors over it make of octets and a port.
LEMMA SetBuilds ==
    ASSUME NEW m, NEW p
    PROVE  /\ \A ip \in Ip4 : set(m, ip, p) = Addr4(ip, to_be_bytes(p))
           /\ \A ip \in Ip6 : set(m, ip, p) = Addr6(ip, to_be_bytes(p))
           /\ \A ip : Len(ip) \notin {4, 16} => set(m, ip, p) = Nil
<1>1. ASSUME NEW ip \in Ip4 PROVE set(m, ip, p) = Addr4(ip, to_be_bytes(p))
  <2>1. Len(ip) = 4
    BY IpSeq
  <2>2. set(m, ip, p) = [Nil EXCEPT !.family = AF_INET, !.port = to_be_bytes(p), !.lo = ip]
    BY <2>1, SMT DEF set
  <2> QED
    BY <2>2, Written, Zenon
<1>2. ASSUME NEW ip \in Ip6 PROVE set(m, ip, p) = Addr6(ip, to_be_bytes(p))
  <2>1. Len(ip) = 16
    BY IpSeq
  <2>2. set(m, ip, p) = [Nil EXCEPT !.family = AF_INET6, !.port = to_be_bytes(p), !.hi = ip]
    BY <2>1, SMT DEF set
  <2> QED
    BY <2>2, Written, Zenon
<1>3. ASSUME NEW ip, Len(ip) \notin {4, 16} PROVE set(m, ip, p) = Nil
  BY <1>3, SMT DEF set
<1> QED
  BY <1>1, <1>2, <1>3

\* set gives a proper address for every sequence of octets.
LEMMA SetProper ==
    ASSUME NEW m, NEW ip \in Seq(Octet), NEW p \in U16
    PROVE  Proper(set(m, ip, p))
<1>1. to_be_bytes(p) \in Word
  BY PortBytes
<1>2. CASE Len(ip) = 4
  BY <1>1, <1>2, IpSeq, SetBuilds, ProperMemory, Zenon
<1>3. CASE Len(ip) = 16
  BY <1>1, <1>3, IpSeq, SetBuilds, ProperMemory, Zenon
<1>4. CASE Len(ip) \notin {4, 16}
  BY <1>4, SetBuilds, ProperMemory, Zenon
<1> QED
  BY <1>2, <1>3, <1>4, Zenon

\* The members of a proper address.
LEMMA Members ==
    ASSUME NEW m
    PROVE  /\ m = Nil => m.family = 0
           /\ Is4(m) => /\ m.family = AF_INET /\ m.lo \in Ip4 /\ m.port \in Word
                        /\ m.lo \in Seq(Octet) /\ Len(m.lo) = 4 /\ m.hi = Zeroes(16)
                        /\ m.port \in Seq(Octet) /\ Len(m.port) = 2
                        /\ port(m) = Value(m.port) /\ ip_bytes(m) = m.lo
           /\ Is6(m) => /\ m.family = AF_INET6 /\ m.hi \in Ip6 /\ m.port \in Word
                        /\ m.hi \in Seq(Octet) /\ Len(m.hi) = 16 /\ m.lo = Zeroes(4)
                        /\ m.port \in Seq(Octet) /\ Len(m.port) = 2
                        /\ port(m) = Value(m.port) /\ ip_bytes(m) = m.hi
<1>1. m = Nil => m.family = 0
  BY SMT DEF Nil
<1>2. ASSUME Is4(m)
      PROVE  /\ m.hi = Zeroes(16)
             /\ port(m) = Value(m.port) /\ ip_bytes(m) = m.lo
  <2>1. m.hi = Zeroes(16)
    BY <1>2, SMT DEF Is4, Addr4
  <2>2. port(m) = Value(m.port)
    BY <1>2, Zenon DEF Is4, port, is_ip, Value
  <2>3. ip_bytes(m) = m.lo
    BY <1>2, SMT DEF Is4, ip_bytes, AF_INET, AF_INET6
  <2> QED
    BY <2>1, <2>2, <2>3
<1>3. ASSUME Is6(m)
      PROVE  /\ m.lo = Zeroes(4)
             /\ port(m) = Value(m.port) /\ ip_bytes(m) = m.hi
  <2>1. m.lo = Zeroes(4)
    BY <1>3, SMT DEF Is6, Addr6
  <2>2. port(m) = Value(m.port)
    BY <1>3, Zenon DEF Is6, port, is_ip, Value
  <2>3. ip_bytes(m) = m.hi
    BY <1>3, SMT DEF Is6, ip_bytes, AF_INET, AF_INET6
  <2> QED
    BY <2>1, <2>2, <2>3
<1> QED
  BY <1>1, <1>2, <1>3, IpSeq, Zenon DEF Is4, Is6

\* All of a proper address follows from its IP and its port.
LEMMA ProperCanonical ==
    ASSUME NEW m, Proper(m)
    PROVE  m = set(Nil, ip_bytes(m), port(m))
<1>1. CASE Is4(m)
  <2>1. m.port \in Word /\ m.lo \in Ip4 /\ ip_bytes(m) = m.lo /\ port(m) = Value(m.port)
    BY <1>1, Members, Zenon
  <2>2. to_be_bytes(port(m)) = m.port
    BY <2>1, BytesPort, Zenon
  <2>3. set(Nil, m.lo, port(m)) = Addr4(m.lo, m.port)
    BY <2>1, <2>2, SetBuilds, Zenon
  <2>4. m = Addr4(m.lo, m.port)
    BY <1>1, Zenon DEF Is4
  <2> QED
    BY <2>1, <2>3, <2>4, Zenon
<1>2. CASE Is6(m)
  <2>1. m.port \in Word /\ m.hi \in Ip6 /\ ip_bytes(m) = m.hi /\ port(m) = Value(m.port)
    BY <1>2, Members, Zenon
  <2>2. to_be_bytes(port(m)) = m.port
    BY <2>1, BytesPort, Zenon
  <2>3. set(Nil, m.hi, port(m)) = Addr6(m.hi, m.port)
    BY <2>1, <2>2, SetBuilds, Zenon
  <2>4. m = Addr6(m.hi, m.port)
    BY <1>2, Zenon DEF Is6
  <2> QED
    BY <2>1, <2>3, <2>4, Zenon
<1>3. CASE m = Nil
  <2>1. ip_bytes(m) = <<>>
    BY <1>3, Members, SMT DEF ip_bytes, AF_INET, AF_INET6
  <2>2. Len(ip_bytes(m)) \notin {4, 16}
    BY <2>1, SMT
  <2> QED
    BY <1>3, <2>2, SetBuilds, Zenon
<1> QED
  BY <1>1, <1>2, <1>3 DEF Proper

\* set_port keeps a proper address proper.
LEMMA SetPortProper ==
    ASSUME NEW m, Proper(m), NEW p \in U16
    PROVE  /\ Proper(set_port(m, p))
           /\ Is4(m) => set_port(m, p) = Addr4(m.lo, to_be_bytes(p))
           /\ Is6(m) => set_port(m, p) = Addr6(m.hi, to_be_bytes(p))
<1>1. to_be_bytes(p) \in Word
  BY PortBytes
<1>2. ASSUME Is4(m) PROVE set_port(m, p) = Addr4(m.lo, to_be_bytes(p))
  <2>1. set_port(m, p) = [m EXCEPT !.port = to_be_bytes(p)]
    BY <1>2, Zenon DEF set_port, is_ip, Is4
  <2>2. m = Addr4(m.lo, m.port)
    BY <1>2 DEF Is4
  <2>3. \A x, w, v : [Addr4(x, w) EXCEPT !.port = v] = Addr4(x, v)
    BY SMT DEF Addr4
  <2> QED
    BY <2>1, <2>2, <2>3, SMT
<1>3. ASSUME Is6(m) PROVE set_port(m, p) = Addr6(m.hi, to_be_bytes(p))
  <2>1. set_port(m, p) = [m EXCEPT !.port = to_be_bytes(p)]
    BY <1>3, Zenon DEF set_port, is_ip, Is6
  <2>2. m = Addr6(m.hi, m.port)
    BY <1>3 DEF Is6
  <2>3. \A x, w, v : [Addr6(x, w) EXCEPT !.port = v] = Addr6(x, v)
    BY SMT DEF Addr6
  <2> QED
    BY <2>1, <2>2, <2>3, SMT
<1>4. m = Nil => set_port(m, p) = Nil
  BY Members, SMT DEF set_port, is_ip, AF_INET, AF_INET6
<1>5. Proper(set_port(m, p))
  <2>1. CASE Is4(m)
    BY <1>1, <1>2, <2>1, Members, ProperMemory, Zenon
  <2>2. CASE Is6(m)
    BY <1>1, <1>3, <2>2, Members, ProperMemory, Zenon
  <2>3. CASE m = Nil
    BY <1>4, <2>3, ProperMemory, Zenon
  <2> QED
    BY <2>1, <2>2, <2>3 DEF Proper
<1> QED
  BY <1>2, <1>3, <1>5

\* The constructors for loopback and any give proper addresses.
LEMMA ConstantsProper ==
    ASSUME NEW p \in U16
    PROVE  /\ Proper(ipv4_loopback(p)) /\ Proper(ipv4_any)
           /\ Proper(ipv6_loopback(p)) /\ Proper(ipv6_any)
<1>1. to_be_bytes(p) \in Word
  BY PortBytes
<1>2. <<127, 0, 0, 1>> \in Ip4
  BY SMT DEF Ip4, Octet
<1>3. Zeroes(15) \o <<1>> \in Ip6
  <2>1. Zeroes(15) \in Seq(Octet) /\ Len(Zeroes(15)) = 15
    <3>1. Zeroes(15) \in [1 .. 15 -> Octet] /\ 15 \in Nat
      BY SMT DEF Zeroes, Octet
    <3> QED
      BY <3>1, OctetsSeq, Zenon
  <2>2. <<1>> \in Seq(Octet) /\ Len(<<1>>) = 1
    BY SMT DEF Octet
  <2>3. /\ Zeroes(15) \o <<1>> \in Seq(Octet)
        /\ Len(Zeroes(15) \o <<1>>) = Len(Zeroes(15)) + Len(<<1>>)
    BY <2>1, <2>2, ConcatProperties, Zenon
  <2>4. 15 + 1 = 16
    BY SMT
  <2> QED
    BY <2>1, <2>2, <2>3, <2>4, IpSeq, Zenon
<1>4. Proper(ipv4_loopback(p))
  <2>1. ipv4_loopback(p) = Addr4(<<127, 0, 0, 1>>, to_be_bytes(p))
    BY Written, Zenon DEF ipv4_loopback
  <2> QED
    BY <1>1, <1>2, <2>1, ProperMemory
<1>5. Proper(ipv6_loopback(p))
  <2>1. ipv6_loopback(p) = Addr6(Zeroes(15) \o <<1>>, to_be_bytes(p))
    BY Written, Zenon DEF ipv6_loopback
  <2> QED
    BY <1>1, <1>3, <2>1, ProperMemory
<1>6. Proper(ipv4_any) /\ Proper(ipv6_any)
  <2>1. ipv4_any = Addr4(Zeroes(4), Zeroes(2)) /\ ipv6_any = Addr6(Zeroes(16), Zeroes(2))
    BY Written, Zenon DEF ipv4_any, ipv6_any
  <2> QED
    BY <2>1, ZeroesType, ProperMemory
<1> QED
  BY <1>4, <1>5, <1>6

\* The port in a text: a number, or -1 for none.
TextPort == {-1} \cup U16

\* A port that is missing or wrong is 0.
LEMMA ParsedPortType ==
    ASSUME NEW p \in TextPort
    PROVE  ParsedPort(p) \in Word
<1>1. p = -1 \/ p \in U16
  BY DEF TextPort
<1>2. 0 \in U16
  BY U16Range
<1>3. CASE p = -1
  <2>1. ParsedPort(p) = to_be_bytes(0)
    BY <1>3, SMT DEF ParsedPort
  <2> QED
    BY <1>2, <2>1, PortBytes
<1>4. CASE p # -1
  <2>1. ParsedPort(p) = to_be_bytes(p)
    BY <1>4, SMT DEF ParsedPort
  <2> QED
    BY <1>1, <1>4, <2>1, PortBytes
<1> QED
  BY <1>3, <1>4

\* What from_str makes of a text.
LEMMA Parses ==
    ASSUME NEW s
    PROVE  /\ s.empty => from_str(s) = <<Nil>>
           /\ ~s.empty /\ s.ip = NoIp => from_str(s) = <<>>
           /\ ~s.empty /\ s.ip \in Ip4 => from_str(s) = <<Addr4(s.ip, ParsedPort(s.port))>>
           /\ ~s.empty /\ s.ip \in Ip6 => from_str(s) = <<Addr6(s.ip, ParsedPort(s.port))>>
<1>0. \A x : /\ x \in Ip4 => x # NoIp /\ Len(x) = 4
             /\ x \in Ip6 => x # NoIp /\ Len(x) # 4
  <2>1. Len(NoIp) = 0
    BY SMT DEF NoIp
  <2>2. 0 # 4 /\ 0 # 16 /\ 16 # 4
    BY SMT
  <2> QED
    BY <2>1, <2>2, IpSeq, Zenon
<1>1. s.empty => from_str(s) = <<Nil>>
  BY Zenon DEF from_str
<1>2. ~s.empty /\ s.ip = NoIp => from_str(s) = <<>>
  BY Zenon DEF from_str
<1>3. ASSUME ~s.empty, s.ip \in Ip4
      PROVE  from_str(s) = <<Addr4(s.ip, ParsedPort(s.port))>>
  <2>1. s.ip # NoIp /\ Len(s.ip) = 4
    BY <1>0, <1>3, Zenon
  <2>2. from_str(s) = <<[Nil EXCEPT !.family = AF_INET, !.port = ParsedPort(s.port), !.lo = s.ip]>>
    BY <1>3, <2>1, Zenon DEF from_str
  <2> QED
    BY <2>2, Written, Zenon
<1>4. ASSUME ~s.empty, s.ip \in Ip6
      PROVE  from_str(s) = <<Addr6(s.ip, ParsedPort(s.port))>>
  <2>1. s.ip # NoIp /\ Len(s.ip) # 4
    BY <1>0, <1>4, Zenon
  <2>2. from_str(s) = <<[Nil EXCEPT !.family = AF_INET6, !.port = ParsedPort(s.port), !.hi = s.ip]>>
    BY <1>4, <2>1, Zenon DEF from_str
  <2> QED
    BY <2>2, Written, Zenon
<1> QED
  BY <1>1, <1>2, <1>3, <1>4

\* from_str fails or gives a proper address.
LEMMA ParsedProper ==
    ASSUME NEW s \in AnyText, from_str(s) # <<>>
    PROVE  Proper(from_str(s)[1])
<1>1. /\ s.port \in TextPort /\ s.empty \in BOOLEAN
      /\ s.ip \in {<<>>} \cup Ip4 \cup Ip6
  BY SMT DEF AnyText, TextPort, Ip4, Ip6
<1>2. ParsedPort(s.port) \in Word
  BY <1>1, ParsedPortType
<1>3. \A x : <<x>>[1] = x
  BY SMT
<1>4. PICK x : Proper(x) /\ from_str(s) = <<x>>
  BY <1>1, <1>2, Parses, ProperMemory, Zenon DEF NoIp
<1> QED
  BY <1>3, <1>4, Zenon

-----------------------------------------------------------------------------
\* Where the bytes of two sequences in a row are.
Joins(x, y) ==
    /\ x \o y \in Seq(Octet)
    /\ Len(x) \in Nat /\ Len(y) \in Nat /\ Len(x \o y) = Len(x) + Len(y)
    /\ \A i \in 1 .. Len(x) : (x \o y)[i] = x[i]
    /\ \A i \in 1 .. Len(y) : (x \o y)[Len(x) + i] = y[i]

\* They are where \o puts them.
LEMMA Joined ==
    ASSUME NEW x \in Seq(Octet), NEW y \in Seq(Octet)
    PROVE  Joins(x, y)
<1>1. Len(x) \in Nat /\ Len(y) \in Nat
  BY LenProperties
<1>2. x \o y \in Seq(Octet) /\ Len(x \o y) = Len(x) + Len(y)
  BY ConcatProperties
<1>3. \A i \in 1 .. Len(x) : (x \o y)[i] = x[i]
  BY <1>1, ConcatProperties
<1>4. \A i \in 1 .. Len(y) : (x \o y)[Len(x) + i] = y[i]
  BY <1>1, ConcatProperties
<1> QED
  BY <1>1, <1>2, <1>3, <1>4 DEF Joins

\* What write_bytes puts on the wire for an IP address: a tag, the octets of
\* the IP and those of the port.
Frame(t, x, y) == <<t>> \o x \o y

IsFrame(f, t, x, y) ==
    /\ f \in Seq(Octet) /\ Len(x) \in Nat /\ Len(f) = Len(x) + 3
    /\ f[1] = t
    /\ \A k \in 1 .. Len(x) : f[k + 1] = x[k]
    /\ f[Len(x) + 2] = y[1] /\ f[Len(x) + 3] = y[2]

\* The bytes of a frame.
LEMMA FrameBytes ==
    ASSUME NEW t \in Octet, NEW x \in Seq(Octet), NEW y \in Seq(Octet), Len(y) = 2
    PROVE  IsFrame(Frame(t, x, y), t, x, y)
<1> DEFINE u == <<t>>
           v == u \o x
           f == v \o y
<1>1. u \in Seq(Octet) /\ Len(u) = 1 /\ u[1] = t
  OBVIOUS
<1> HIDE DEF u
<1>2. Joins(u, x)
  BY <1>1, Joined
<1>3. /\ v \in Seq(Octet) /\ Len(x) \in Nat /\ Len(v) = Len(x) + 1
      /\ v[1] = t /\ \A i \in 1 .. Len(x) : v[1 + i] = x[i]
  BY <1>1, <1>2 DEF Joins
<1> HIDE DEF v
<1>4. Joins(v, y)
  BY <1>3, Joined
<1>5. /\ f \in Seq(Octet) /\ Len(f) = Len(v) + 2
      /\ \A i \in 1 .. Len(v) : f[i] = v[i]
      /\ \A i \in 1 .. 2 : f[Len(v) + i] = y[i]
  BY <1>4 DEF Joins
<1>6. Frame(t, x, y) = f
  BY Zenon DEF Frame, u, v
<1> HIDE DEF f
<1>7. IsFrame(f, t, x, y)
  BY <1>3, <1>5 DEF IsFrame
<1> QED
  BY <1>6, <1>7, Zenon

\* A buffer that begins with a frame of l + 3 bytes has its parts where
\* read_bytes looks for them.
LEMMA FrameParts ==
    ASSUME NEW t \in Octet, NEW x \in Seq(Octet), NEW y \in Seq(Octet), Len(y) = 2,
           NEW b \in Seq(Octet), Len(b) >= Len(x) + 3,
           \A k \in 1 .. (Len(x) + 3) : b[k] = Frame(t, x, y)[k]
    PROVE  /\ b[1] = t /\ SubSeq(b, 2, Len(x) + 1) = x
           /\ b[Len(x) + 2] = y[1] /\ b[Len(x) + 3] = y[2]
<1> DEFINE f == Frame(t, x, y)
           l == Len(x)
<1>1. IsFrame(f, t, x, y)
  BY FrameBytes
<1>2. l \in Nat /\ Len(b) \in Nat /\ \A k \in 1 .. (l + 3) : b[k] = f[k]
  BY LenProperties
<1>2a. /\ f[1] = t /\ f[l + 2] = y[1] /\ f[l + 3] = y[2]
       /\ \A k \in 1 .. l : f[k + 1] = x[k]
  BY <1>1 DEF IsFrame
<1> HIDE DEF f
<1>3. /\ SubSeq(b, 2, l + 1) \in Seq(Octet) /\ Len(SubSeq(b, 2, l + 1)) = l
      /\ \A k \in 1 .. l : SubSeq(b, 2, l + 1)[k] = b[2 + k - 1]
  <2>1. 2 \in 1 .. (Len(b) + 1) /\ l + 1 \in (2 - 1) .. Len(b) /\ (l + 1) - 2 + 1 = l
    BY <1>2
  <2> HIDE DEF l
  <2> QED
    BY <2>1, SubSeqProperties
<1>4. \A k \in 1 .. l : SubSeq(b, 2, l + 1)[k] = x[k]
  <2> SUFFICES ASSUME NEW k \in 1 .. l PROVE SubSeq(b, 2, l + 1)[k] = x[k]
    OBVIOUS
  <2>1. 2 + k - 1 = k + 1 /\ k + 1 \in 1 .. (l + 3)
    BY <1>2
  <2> QED
    BY <1>2, <1>2a, <1>3, <2>1
<1>5. SubSeq(b, 2, l + 1) = x
  BY <1>3, <1>4, SeqEqual
<1>6. b[1] = t /\ b[l + 2] = y[1] /\ b[l + 3] = y[2]
  BY <1>2, <1>2a
<1> QED
  BY <1>5, <1>6

-----------------------------------------------------------------------------
\* The buffer b begins with the bytes w.
Begins(b, w) == Len(b) >= Len(w) /\ \A k \in 1 .. Len(w) : b[k] = w[k]

\* What write_bytes puts on the wire for the three kinds of address.
LEMMA Wire ==
    ASSUME NEW m
    PROVE  /\ write_bytes(Nil) = <<0>>
           /\ Is4(m) => write_bytes(m) = Frame(4, m.lo, m.port)
           /\ Is6(m) => write_bytes(m) = Frame(6, m.hi, m.port)
<1>1. write_bytes(Nil) = <<0>>
  <2>1. Nil.family = 0
    BY Members
  <2>2. 0 # AF_INET /\ 0 # AF_INET6
    BY SMT DEF AF_INET, AF_INET6
  <2> QED
    BY <2>1, <2>2, SMT DEF write_bytes
<1>a. write_bytes(m) = CASE m.family = AF_INET  -> Frame(4, m.lo, m.port)
                         [] m.family = AF_INET6 -> Frame(6, m.hi, m.port)
                         [] OTHER               -> <<0>>
  BY Zenon DEF write_bytes, Frame
<1>b. AF_INET # AF_INET6
  BY SMT DEF AF_INET, AF_INET6
<1>2. Is4(m) => write_bytes(m) = Frame(4, m.lo, m.port)
  BY <1>a, <1>b, SMT DEF Is4
<1>3. Is6(m) => write_bytes(m) = Frame(6, m.hi, m.port)
  BY <1>a, <1>b, SMT DEF Is6
<1> QED
  BY <1>1, <1>2, <1>3

\* It is 1, 7 or 19 bytes, and the first tells how many.
LEMMA WireBytes ==
    ASSUME NEW m, Proper(m)
    PROVE  /\ write_bytes(m) \in Seq(Octet)
           /\ m = Nil => Len(write_bytes(m)) = 1 /\ write_bytes(m)[1] = 0
           /\ Is4(m) => Len(write_bytes(m)) = 7 /\ write_bytes(m)[1] = 4
           /\ Is6(m) => Len(write_bytes(m)) = 19 /\ write_bytes(m)[1] = 6
<1>0. 4 \in Octet /\ 6 \in Octet /\ 4 + 3 = 7 /\ 16 + 3 = 19
  BY SMT DEF Octet
<1>1. ASSUME m = Nil
      PROVE  /\ write_bytes(m) \in Seq(Octet)
             /\ Len(write_bytes(m)) = 1 /\ write_bytes(m)[1] = 0
  <2>1. write_bytes(m) = <<0>>
    BY <1>1, Wire, Zenon
  <2>2. <<0>> \in Seq(Octet) /\ Len(<<0>>) = 1 /\ <<0>>[1] = 0
    BY SMT DEF Octet
  <2> QED
    BY <2>1, <2>2, Zenon
<1>2. ASSUME Is4(m)
      PROVE  /\ write_bytes(m) \in Seq(Octet)
             /\ Len(write_bytes(m)) = 7 /\ write_bytes(m)[1] = 4
  <2>1. write_bytes(m) = Frame(4, m.lo, m.port)
    BY <1>2, Wire, Zenon
  <2>2. m.lo \in Seq(Octet) /\ Len(m.lo) = 4 /\ m.port \in Seq(Octet) /\ Len(m.port) = 2
    BY <1>2, Members, Zenon
  <2>3. IsFrame(Frame(4, m.lo, m.port), 4, m.lo, m.port)
    BY <1>0, <2>2, FrameBytes, Zenon
  <2> QED
    BY <1>0, <2>1, <2>2, <2>3, Zenon DEF IsFrame
<1>3. ASSUME Is6(m)
      PROVE  /\ write_bytes(m) \in Seq(Octet)
             /\ Len(write_bytes(m)) = 19 /\ write_bytes(m)[1] = 6
  <2>1. write_bytes(m) = Frame(6, m.hi, m.port)
    BY <1>3, Wire, Zenon
  <2>2. m.hi \in Seq(Octet) /\ Len(m.hi) = 16 /\ m.port \in Seq(Octet) /\ Len(m.port) = 2
    BY <1>3, Members, Zenon
  <2>3. IsFrame(Frame(6, m.hi, m.port), 6, m.hi, m.port)
    BY <1>0, <2>2, FrameBytes, Zenon
  <2> QED
    BY <1>0, <2>1, <2>2, <2>3, Zenon DEF IsFrame
<1> QED
  BY <1>1, <1>2, <1>3, Zenon DEF Proper

\* What read_bytes makes of a buffer, by its first byte and its length.
LEMMA Reads ==
    ASSUME NEW b \in Seq(Octet)
    PROVE  /\ b = <<>> => read_bytes(b) = <<>>
           /\ b # <<>> /\ b[1] = 4 /\ Len(b) < 7 => read_bytes(b) = <<>>
           /\ b # <<>> /\ b[1] = 6 /\ Len(b) < 19 => read_bytes(b) = <<>>
           /\ b # <<>> /\ b[1] = 0 => read_bytes(b) = <<[a |-> Nil, n |-> 1]>>
           /\ b # <<>> /\ b[1] = 4 /\ Len(b) >= 7 => read_bytes(b) =
                <<[a |-> from_ip_port(Nil, SubSeq(b, 2, 5), b[6] * 256 + b[7]), n |-> 7]>>
           /\ b # <<>> /\ b[1] = 6 /\ Len(b) >= 19 => read_bytes(b) =
                <<[a |-> from_ip_port(Nil, SubSeq(b, 2, 17), b[18] * 256 + b[19]), n |-> 19]>>
<1> DEFINE Rest(n) ==
             IF Len(b) < n THEN <<>>
             ELSE IF n = 1 THEN <<[a |-> Nil, n |-> 1]>>
             ELSE <<[a |-> from_ip_port(Nil, SubSeq(b, 2, n - 2), b[n - 1] * 256 + b[n]), n |-> n]>>
<1>1. read_bytes(b) =
        Rest(IF b = <<>> THEN 1 ELSE CASE b[1] = 4 -> 7 [] b[1] = 6 -> 19 [] OTHER -> 1)
  BY Zenon DEF read_bytes
<1>2. /\ b = <<>> => read_bytes(b) = Rest(1)
      /\ b # <<>> /\ b[1] = 4 => read_bytes(b) = Rest(7)
      /\ b # <<>> /\ b[1] = 6 => read_bytes(b) = Rest(19)
      /\ b # <<>> /\ b[1] = 0 => read_bytes(b) = Rest(1)
  <2> HIDE DEF Rest
  <2> QED
    BY <1>1, SMT
<1>3. Len(b) \in Nat /\ (b = <<>> <=> Len(b) = 0)
  BY SMT
<1>4. b = <<>> => Rest(1) = <<>>
  BY <1>3, SMT
<1>5. b # <<>> => Rest(1) = <<[a |-> Nil, n |-> 1]>>
  BY <1>3, SMT
<1>6. /\ Len(b) < 7 => Rest(7) = <<>>
      /\ Len(b) < 19 => Rest(19) = <<>>
  BY <1>3, SMT
<1>7. Len(b) >= 7 =>
        Rest(7) = <<[a |-> from_ip_port(Nil, SubSeq(b, 2, 5), b[6] * 256 + b[7]), n |-> 7]>>
  <2>1. 7 - 2 = 5 /\ 7 - 1 = 6 /\ 7 # 1
    BY SMT
  <2>2. Len(b) >= 7 => ~(Len(b) < 7)
    BY <1>3, SMT
  <2> QED
    BY <2>1, <2>2, Zenon
<1>8. Len(b) >= 19 =>
        Rest(19) = <<[a |-> from_ip_port(Nil, SubSeq(b, 2, 17), b[18] * 256 + b[19]), n |-> 19]>>
  <2>1. 19 - 2 = 17 /\ 19 - 1 = 18 /\ 19 # 1
    BY SMT
  <2>2. Len(b) >= 19 => ~(Len(b) < 19)
    BY <1>3, SMT
  <2> QED
    BY <2>1, <2>2, Zenon
<1> HIDE DEF Rest
<1>9. b = <<>> => read_bytes(b) = <<>>
  BY <1>2, <1>4, Zenon
<1>10. b # <<>> /\ b[1] = 4 /\ Len(b) < 7 => read_bytes(b) = <<>>
  BY <1>2, <1>6, Zenon
<1>11. b # <<>> /\ b[1] = 6 /\ Len(b) < 19 => read_bytes(b) = <<>>
  BY <1>2, <1>6, Zenon
<1>12. b # <<>> /\ b[1] = 0 => read_bytes(b) = <<[a |-> Nil, n |-> 1]>>
  BY <1>2, <1>5, Zenon
<1>13. b # <<>> /\ b[1] = 4 /\ Len(b) >= 7 => read_bytes(b) =
         <<[a |-> from_ip_port(Nil, SubSeq(b, 2, 5), b[6] * 256 + b[7]), n |-> 7]>>
  BY <1>2, <1>7, Zenon
<1>14. b # <<>> /\ b[1] = 6 /\ Len(b) >= 19 => read_bytes(b) =
         <<[a |-> from_ip_port(Nil, SubSeq(b, 2, 17), b[18] * 256 + b[19]), n |-> 19]>>
  BY <1>2, <1>8, Zenon
<1> QED
  BY <1>9, <1>10, <1>11, <1>12, <1>13, <1>14, Zenon

\* read_bytes gives back what write_bytes wrote, whatever follows it.
LEMMA ReadBack ==
    ASSUME NEW m, Proper(m), NEW b \in Seq(Octet), Begins(b, write_bytes(m))
    PROVE  read_bytes(b) = <<[a |-> m, n |-> Len(write_bytes(m))]>>
<1>0. /\ Len(b) \in Nat /\ (b = <<>> <=> Len(b) = 0)
      /\ 4 + 1 = 5 /\ 4 + 2 = 6 /\ 4 + 3 = 7 /\ 16 + 1 = 17 /\ 16 + 2 = 18 /\ 16 + 3 = 19
  BY SMT
<1>1. \A w : Value(w) = w[1] * 256 + w[2]
  BY DEF Value
<1>2. CASE m = Nil
  <2>1. Len(write_bytes(m)) = 1 /\ write_bytes(m)[1] = 0
    BY <1>2, WireBytes, Zenon
  <2>2. b # <<>> /\ b[1] = 0
    BY <1>0, <2>1, SMT DEF Begins
  <2>3. read_bytes(b) = <<[a |-> Nil, n |-> 1]>>
    BY <2>2, Reads, Zenon
  <2> QED
    BY <1>2, <2>1, <2>3
<1>3. CASE Is4(m)
  <2>1. /\ write_bytes(m) = Frame(4, m.lo, m.port)
        /\ Len(write_bytes(m)) = 7 /\ write_bytes(m)[1] = 4
    BY <1>3, Wire, WireBytes, Zenon
  <2>2. /\ m.lo \in Seq(Octet) /\ Len(m.lo) = 4 /\ m.port \in Seq(Octet) /\ Len(m.port) = 2
        /\ port(m) = Value(m.port) /\ ip_bytes(m) = m.lo
    BY <1>3, Members, Zenon
  <2>3. Len(b) >= 7 /\ \A k \in 1 .. 7 : b[k] = Frame(4, m.lo, m.port)[k]
    BY <2>1, Zenon DEF Begins
  <2>4. b # <<>>
    BY <1>0, <2>3, SMT
  <2>5. 4 \in Octet
    BY SMT DEF Octet
  <2>6. b[1] = 4 /\ SubSeq(b, 2, 5) = m.lo /\ b[6] = m.port[1] /\ b[7] = m.port[2]
    <3> DEFINE x == m.lo
               y == m.port
    <3>1. /\ x \in Seq(Octet) /\ y \in Seq(Octet) /\ Len(y) = 2
          /\ Len(b) >= Len(x) + 3 /\ \A k \in 1 .. (Len(x) + 3) : b[k] = Frame(4, x, y)[k]
      BY <1>0, <2>2, <2>3, Zenon
    <3>2. Len(x) + 1 = 5 /\ Len(x) + 2 = 6 /\ Len(x) + 3 = 7
      BY <1>0, <2>2, Zenon
    <3> HIDE DEF x, y
    <3>3. /\ b[1] = 4 /\ SubSeq(b, 2, Len(x) + 1) = x
          /\ b[Len(x) + 2] = y[1] /\ b[Len(x) + 3] = y[2]
      BY <2>5, <3>1, FrameParts
    <3> QED
      BY <3>2, <3>3, Zenon DEF x, y
  <2>7. b[6] * 256 + b[7] = port(m)
    BY <1>1, <2>2, <2>6, Zenon
  <2>8. from_ip_port(Nil, SubSeq(b, 2, 5), b[6] * 256 + b[7]) = m
    BY <2>2, <2>6, <2>7, ProperCanonical, Zenon DEF from_ip_port
  <2> QED
    <3>1. Len(b) >= 7 /\ b[1] = 4
      BY <2>3, <2>6
    <3>2. read_bytes(b) =
            <<[a |-> from_ip_port(Nil, SubSeq(b, 2, 5), b[6] * 256 + b[7]), n |-> 7]>>
      BY <2>4, <3>1, Reads, Zenon
    <3> QED
      BY <2>1, <2>8, <3>2
<1>4. CASE Is6(m)
  <2>1. /\ write_bytes(m) = Frame(6, m.hi, m.port)
        /\ Len(write_bytes(m)) = 19 /\ write_bytes(m)[1] = 6
    BY <1>4, Wire, WireBytes, Zenon
  <2>2. /\ m.hi \in Seq(Octet) /\ Len(m.hi) = 16 /\ m.port \in Seq(Octet) /\ Len(m.port) = 2
        /\ port(m) = Value(m.port) /\ ip_bytes(m) = m.hi
    BY <1>4, Members, Zenon
  <2>3. Len(b) >= 19 /\ \A k \in 1 .. 19 : b[k] = Frame(6, m.hi, m.port)[k]
    BY <2>1, Zenon DEF Begins
  <2>4. b # <<>>
    BY <1>0, <2>3, SMT
  <2>5. 6 \in Octet
    BY SMT DEF Octet
  <2>6. b[1] = 6 /\ SubSeq(b, 2, 17) = m.hi /\ b[18] = m.port[1] /\ b[19] = m.port[2]
    <3> DEFINE x == m.hi
               y == m.port
    <3>1. /\ x \in Seq(Octet) /\ y \in Seq(Octet) /\ Len(y) = 2
          /\ Len(b) >= Len(x) + 3 /\ \A k \in 1 .. (Len(x) + 3) : b[k] = Frame(6, x, y)[k]
      BY <1>0, <2>2, <2>3, Zenon
    <3>2. Len(x) + 1 = 17 /\ Len(x) + 2 = 18 /\ Len(x) + 3 = 19
      BY <1>0, <2>2, Zenon
    <3> HIDE DEF x, y
    <3>3. /\ b[1] = 6 /\ SubSeq(b, 2, Len(x) + 1) = x
          /\ b[Len(x) + 2] = y[1] /\ b[Len(x) + 3] = y[2]
      BY <2>5, <3>1, FrameParts
    <3> QED
      BY <3>2, <3>3, Zenon DEF x, y
  <2>7. b[18] * 256 + b[19] = port(m)
    BY <1>1, <2>2, <2>6, Zenon
  <2>8. from_ip_port(Nil, SubSeq(b, 2, 17), b[18] * 256 + b[19]) = m
    BY <2>2, <2>6, <2>7, ProperCanonical, Zenon DEF from_ip_port
  <2> QED
    <3>1. Len(b) >= 19 /\ b[1] = 6
      BY <2>3, <2>6
    <3>2. read_bytes(b) =
            <<[a |-> from_ip_port(Nil, SubSeq(b, 2, 17), b[18] * 256 + b[19]), n |-> 19]>>
      BY <2>4, <3>1, Reads, Zenon
    <3> QED
      BY <2>1, <2>8, <3>2
<1> QED
  BY <1>2, <1>3, <1>4 DEF Proper

\* And none of it when the buffer ends inside it.
LEMMA ReadShort ==
    ASSUME NEW m, Proper(m), NEW b \in Seq(Octet), Begins(b, write_bytes(m)),
           NEW n \in 0 .. (Len(write_bytes(m)) - 1)
    PROVE  read_bytes(SubSeq(b, 1, n)) = <<>>
<1> DEFINE w == write_bytes(m)
           c == SubSeq(b, 1, n)
<1>1. w \in Seq(Octet) /\ Len(w) \in Nat /\ Len(b) \in Nat
  BY WireBytes, LenProperties, Zenon
<1>2. n \in Nat /\ n < Len(w) /\ n <= Len(b)
  BY <1>1, SMT DEF Begins
<1>3. c \in Seq(Octet) /\ Len(c) = n /\ \A k \in 1 .. n : c[k] = b[k]
  <2>1. 1 \in 1 .. (Len(b) + 1) /\ n \in (1 - 1) .. Len(b) /\ n - 1 + 1 = n
    BY <1>1, <1>2, SMT
  <2>2. \A k \in 1 .. n : 1 + k - 1 = k
    BY <1>2, SMT
  <2>3. /\ c \in Seq(Octet) /\ Len(c) = n
        /\ \A k \in 1 .. n : c[k] = b[1 + k - 1]
    BY <2>1, SubSeqProperties
  <2> QED
    BY <2>2, <2>3
<1>4. c # <<>> => c[1] = w[1]
  BY <1>1, <1>2, <1>3, SMT DEF Begins
<1> HIDE DEF c
<1>5. CASE c = <<>>
  BY <1>3, <1>5, Reads, Zenon DEF c
<1>6. CASE c # <<>> /\ Is4(m)
  <2>1. c[1] = 4 /\ Len(c) < 7
    BY <1>2, <1>3, <1>4, <1>6, WireBytes, Zenon
  <2> QED
    BY <1>3, <1>6, <2>1, Reads, Zenon DEF c
<1>7. CASE c # <<>> /\ Is6(m)
  <2>1. c[1] = 6 /\ Len(c) < 19
    BY <1>2, <1>3, <1>4, <1>7, WireBytes, Zenon
  <2> QED
    BY <1>3, <1>7, <2>1, Reads, Zenon DEF c
<1>8. CASE c # <<>> /\ m = Nil
  <2>1. Len(w) = 1
    BY <1>8, WireBytes, Zenon
  <2> HIDE DEF w
  <2> QED
    BY <1>2, <1>3, <1>8, <2>1, SMT
<1> QED
  BY <1>5, <1>6, <1>7, <1>8 DEF Proper

-----------------------------------------------------------------------------
\* off[i] bytes of the stream s stand for the first i of the addresses u.
Lays(off, s, u) ==
    /\ off \in [0 .. Len(u) -> 0 .. Len(s)]
    /\ off[0] = 0 /\ off[Len(u)] = Len(s)
    /\ \A i, j \in 0 .. Len(u) : i <= j => off[i] <= off[j]
    /\ \A i \in 1 .. Len(u) :
         /\ off[i] = off[i - 1] + Len(write_bytes(u[i]))
         /\ \A k \in 1 .. Len(write_bytes(u[i])) : s[off[i - 1] + k] = write_bytes(u[i])[k]

\* The stream is the bytes of the unread addresses, one after the other.
StreamInv ==
    /\ stream \in Seq(Octet) /\ unread \in Seq(Memory)
    /\ \A i \in 1 .. Len(unread) : Proper(unread[i])
    /\ \E off \in [0 .. Len(unread) -> 0 .. Len(stream)] : Lays(off, stream, unread)

\* The inductive invariant.
InetInv == Proper(addr) /\ StreamInv

\* Nothing is unread of a stream without bytes, and of any other the bytes of
\* the first unread address come first.
LEMMA LaysFirst ==
    ASSUME NEW s \in Seq(Octet), NEW u \in Seq(Memory), NEW off, Lays(off, s, u),
           \A i \in 1 .. Len(u) : Proper(u[i])
    PROVE  /\ u = <<>> => s = <<>>
           /\ u # <<>> => /\ Begins(s, write_bytes(u[1]))
                          /\ off[1] = Len(write_bytes(u[1])) /\ off[1] \in 0 .. Len(s)
<1>1. Len(s) \in Nat /\ Len(u) \in Nat
  BY LenProperties
<1>2. u = <<>> => s = <<>>
  <2> SUFFICES ASSUME u = <<>> PROVE s = <<>>
    OBVIOUS
  <2>1. Len(s) = 0
    BY <1>1, SMT DEF Lays
  <2> QED
    BY <2>1, EmptySeq
<1>3. ASSUME u # <<>>
      PROVE  /\ Begins(s, write_bytes(u[1]))
             /\ off[1] = Len(write_bytes(u[1])) /\ off[1] \in 0 .. Len(s)
  <2> DEFINE w == write_bytes(u[1])
  <2>1. 1 \in 1 .. Len(u) /\ 1 \in 0 .. Len(u) /\ 1 - 1 = 0
    BY <1>1, <1>3, SMT
  <2>2. Len(w) \in Nat
    BY <2>1, WireBytes, LenProperties
  <2>3. /\ off[1] \in 0 .. Len(s) /\ off[0] = 0
        /\ off[1] = off[0] + Len(w) /\ \A k \in 1 .. Len(w) : s[off[0] + k] = w[k]
    BY <2>1 DEF Lays
  <2> HIDE DEF w
  <2>4. off[1] = Len(w) /\ Len(w) <= Len(s) /\ \A k \in 1 .. Len(w) : s[k] = w[k]
    BY <1>1, <2>2, <2>3
  <2> QED
    BY <1>1, <2>2, <2>3, <2>4 DEF w, Begins
<1> QED
  BY <1>2, <1>3

\* Write appends the bytes of one more address.
LEMMA LaysWrite ==
    ASSUME NEW s \in Seq(Octet), NEW u \in Seq(Memory), NEW off, Lays(off, s, u),
           \A i \in 1 .. Len(u) : Proper(u[i]), NEW m, Proper(m)
    PROVE  \E to \in [0 .. Len(Append(u, m)) -> 0 .. Len(s \o write_bytes(m))] :
             Lays(to, s \o write_bytes(m), Append(u, m))
<1> DEFINE w == write_bytes(m)
           n == Len(u)
           t == s \o w
           v == Append(u, m)
           to == [i \in 0 .. (n + 1) |-> IF i = n + 1 THEN Len(t) ELSE off[i]]
<1>0. m \in Memory
  BY ProperMemory
<1>1. w \in Seq(Octet) /\ Len(w) \in Nat /\ Len(s) \in Nat /\ n \in Nat
  BY WireBytes, LenProperties
<1> HIDE DEF w
<1>2. Joins(s, w)
  BY <1>1, Joined
<1>3. /\ Len(t) = Len(s) + Len(w)
      /\ \A i \in 1 .. Len(s) : t[i] = s[i]
      /\ \A i \in 1 .. Len(w) : t[Len(s) + i] = w[i]
  BY <1>2 DEF Joins
<1>4. Len(v) = n + 1 /\ v[n + 1] = m /\ \A i \in 1 .. n : v[i] = u[i]
  BY <1>0, <1>1, AppendProperties
<1>5. /\ off \in [0 .. n -> 0 .. Len(s)]
      /\ off[0] = 0 /\ off[n] = Len(s)
      /\ \A i, j \in 0 .. n : i <= j => off[i] <= off[j]
      /\ \A i \in 1 .. n :
           /\ off[i] = off[i - 1] + Len(write_bytes(u[i]))
           /\ \A k \in 1 .. Len(write_bytes(u[i])) : s[off[i - 1] + k] = write_bytes(u[i])[k]
  BY DEF Lays
<1> HIDE DEF n, t, v
<1>6. to \in [0 .. (n + 1) -> 0 .. Len(t)]
  BY <1>1, <1>3, <1>5
<1>7. to[0] = 0 /\ to[n + 1] = Len(t) /\ \A i \in 0 .. n : to[i] = off[i]
  BY <1>1, <1>5
<1>8. ASSUME NEW i \in 0 .. (n + 1), NEW j \in 0 .. (n + 1), i <= j PROVE to[i] <= to[j]
  <2>1. CASE j = n + 1
    BY <1>1, <1>3, <1>6, <1>7, <2>1
  <2>2. CASE j # n + 1
    BY <1>1, <1>5, <1>7, <1>8, <2>2
  <2> QED
    BY <2>1, <2>2
<1> HIDE DEF to
<1>9. ASSUME NEW i \in 1 .. (n + 1)
      PROVE  /\ to[i] = to[i - 1] + Len(write_bytes(v[i]))
             /\ \A k \in 1 .. Len(write_bytes(v[i])) : t[to[i - 1] + k] = write_bytes(v[i])[k]
  <2>1. CASE i = n + 1
    <3>1. write_bytes(v[i]) = w
      BY <1>4, <2>1 DEF w
    <3>2. to[i - 1] = Len(s) /\ to[i] = Len(t)
      BY <1>1, <1>5, <1>7, <2>1
    <3> QED
      BY <1>1, <1>3, <3>1, <3>2
  <2>2. CASE i \in 1 .. n
    <3> DEFINE z == write_bytes(u[i])
    <3>1. write_bytes(v[i]) = z
      BY <1>4, <2>2
    <3>2. /\ i \in 0 .. n /\ i - 1 \in 0 .. n
          /\ to[i] = off[i] /\ to[i - 1] = off[i - 1]
      BY <1>1, <1>7, <2>2
    <3>3. /\ off[i] = off[i - 1] + Len(z)
          /\ \A k \in 1 .. Len(z) : s[off[i - 1] + k] = z[k]
      BY <1>5, <2>2
    <3>4. Len(z) \in Int /\ off[i] \in 0 .. Len(s) /\ off[i - 1] \in 0 .. Len(s)
      <4>1. off[i] \in 0 .. Len(s) /\ off[i - 1] \in 0 .. Len(s)
        BY <1>5, <3>2
      <4>2. Len(z) \in Nat
        <5>1. z \in Seq(Octet)
          BY <2>2, WireBytes DEF n
        <5> QED
          BY <5>1, LenProperties
      <4> QED
        BY <4>1, <4>2
    <3> HIDE DEF z
    <3>5. ASSUME NEW k \in 1 .. Len(z) PROVE t[off[i - 1] + k] = z[k]
      <4>1. off[i - 1] + k \in 1 .. Len(s)
        <5> DEFINE x == off[i - 1]
                   y == off[i]
        <5>1. y = x + Len(z) /\ y \in 0 .. Len(s) /\ x \in 0 .. Len(s)
          BY <3>3, <3>4
        <5> HIDE DEF x, y
        <5>2. x + k \in 1 .. Len(s)
          BY <1>1, <3>4, <5>1
        <5> QED
          BY <5>2 DEF x
      <4> QED
        BY <1>3, <3>3, <4>1
    <3> QED
      BY <3>1, <3>2, <3>3, <3>5
  <2> QED
    BY <1>1, <2>1, <2>2
<1>10. Lays(to, t, v)
  BY <1>4, <1>6, <1>7, <1>8, <1>9 DEF Lays
<1> QED
  BY <1>4, <1>6, <1>10 DEF t, v, w

\* Read takes the bytes of the first address off.
LEMMA LaysRead ==
    ASSUME NEW s \in Seq(Octet), NEW u \in Seq(Memory), NEW off, Lays(off, s, u), u # <<>>,
           \A i \in 1 .. Len(u) : Proper(u[i]),
           NEW l, l = Len(write_bytes(u[1]))
    PROVE  \E to \in [0 .. Len(Tail(u)) -> 0 .. Len(SubSeq(s, l + 1, Len(s)))] :
             Lays(to, SubSeq(s, l + 1, Len(s)), Tail(u))
<1> DEFINE n == Len(u)
           t == SubSeq(s, l + 1, Len(s))
           v == Tail(u)
           to == [i \in 0 .. (n - 1) |-> off[i + 1] - l]
<1>1. Len(s) \in Nat /\ n \in Nat /\ n # 0
  BY LenProperties, EmptySeq
<1>2. off[1] = l /\ l \in 0 .. Len(s)
  BY LaysFirst
<1>3. /\ t \in Seq(Octet) /\ Len(t) = Len(s) - l
      /\ \A k \in 1 .. (Len(s) - l) : t[k] = s[l + k]
  <2> DEFINE p == l + 1
             q == Len(s)
             d == q - p + 1
  <2>1. p \in 1 .. (Len(s) + 1) /\ q \in (p - 1) .. Len(s)
    BY <1>1, <1>2
  <2>2. d = Len(s) - l /\ \A k \in 1 .. d : p + k - 1 = l + k
    BY <1>1, <1>2
  <2> HIDE DEF p, q
  <2>3. /\ SubSeq(s, p, q) \in Seq(Octet) /\ Len(SubSeq(s, p, q)) = d
        /\ \A k \in 1 .. d : SubSeq(s, p, q)[k] = s[p + k - 1]
    BY <2>1, SubSeqProperties
  <2>4. t = SubSeq(s, p, q)
    BY DEF p, q
  <2> HIDE DEF d, t
  <2> QED
    BY <2>2, <2>3, <2>4
<1>4. Len(v) = n - 1 /\ \A i \in 1 .. (n - 1) : v[i] = u[i + 1]
  BY <1>1, HeadTailProperties
<1>5. /\ off \in [0 .. n -> 0 .. Len(s)]
      /\ off[0] = 0 /\ off[n] = Len(s)
      /\ \A i, j \in 0 .. n : i <= j => off[i] <= off[j]
      /\ \A i \in 1 .. n :
           /\ off[i] = off[i - 1] + Len(write_bytes(u[i]))
           /\ \A k \in 1 .. Len(write_bytes(u[i])) : s[off[i - 1] + k] = write_bytes(u[i])[k]
  BY DEF Lays
<1> HIDE DEF n, t, v
<1>6. ASSUME NEW i \in 0 .. (n - 1)
      PROVE  /\ to[i] = off[i + 1] - l /\ to[i] \in 0 .. Len(t)
             /\ off[i + 1] \in Int /\ i + 1 \in 1 .. n
  <2>1. i + 1 \in 0 .. n /\ 1 \in 0 .. n /\ 1 <= i + 1
    BY <1>1
  <2>2. off[1] <= off[i + 1] /\ off[i + 1] \in 0 .. Len(s)
    BY <1>5, <2>1
  <2> QED
    BY <1>1, <1>2, <1>3, <2>1, <2>2
<1>7. to \in [0 .. (n - 1) -> 0 .. Len(t)]
  BY <1>6
<1> HIDE DEF to
<1>8. to[0] = 0 /\ to[n - 1] = Len(t)
  <2>1. 0 \in 0 .. (n - 1) /\ n - 1 \in 0 .. (n - 1) /\ 0 + 1 = 1 /\ (n - 1) + 1 = n
    BY <1>1
  <2>2. to[0] = off[1] - l /\ to[n - 1] = off[n] - l
    BY <1>6, <2>1
  <2>3. off[n] = Len(s)
    BY <1>5
  <2> QED
    BY <1>1, <1>2, <1>3, <2>2, <2>3
<1>9. ASSUME NEW i \in 0 .. (n - 1), NEW j \in 0 .. (n - 1), i <= j PROVE to[i] <= to[j]
  <2>1. i + 1 \in 0 .. n /\ j + 1 \in 0 .. n /\ i + 1 <= j + 1
    BY <1>1, <1>9
  <2>2. off[i + 1] <= off[j + 1]
    BY <1>5, <2>1
  <2> QED
    BY <1>2, <1>6, <2>2
<1>10. ASSUME NEW i \in 1 .. (n - 1)
       PROVE  /\ to[i] = to[i - 1] + Len(write_bytes(v[i]))
              /\ \A k \in 1 .. Len(write_bytes(v[i])) : t[to[i - 1] + k] = write_bytes(v[i])[k]
  <2> DEFINE z == write_bytes(u[i + 1])
  <2>1. write_bytes(v[i]) = z
    BY <1>4
  <2>2. /\ i \in 0 .. (n - 1) /\ i - 1 \in 0 .. (n - 1) /\ (i - 1) + 1 = i
        /\ i + 1 \in 1 .. n /\ (i + 1) - 1 = i
    BY <1>1
  <2>3. /\ to[i] = off[i + 1] - l /\ to[i - 1] = off[i] - l
        /\ off[i + 1] \in Int /\ off[i] \in Int /\ to[i] \in 0 .. Len(t) /\ to[i - 1] \in 0 .. Len(t)
    BY <1>6, <2>2
  <2>4. /\ off[i + 1] = off[i] + Len(z)
        /\ \A k \in 1 .. Len(z) : s[off[i] + k] = z[k]
    BY <1>5, <2>2
  <2>5. Len(z) \in Nat
    <3>1. z \in Seq(Octet)
      BY <2>2, WireBytes DEF n
    <3> QED
      BY <3>1, LenProperties
  <2> HIDE DEF z
  <2>6. ASSUME NEW k \in 1 .. Len(z) PROVE t[to[i - 1] + k] = z[k]
    <3> DEFINE x == off[i]
               y == off[i + 1]
               a == to[i - 1]
               b == to[i]
    <3>1. /\ b = y - l /\ a = x - l /\ x \in Int /\ y = x + Len(z)
          /\ a \in 0 .. Len(t) /\ b \in 0 .. Len(t)
      BY <2>3, <2>4
    <3>2. s[x + k] = z[k]
      BY <2>4
    <3> HIDE DEF x, y, a, b
    <3>3. a + k \in 1 .. (Len(s) - l) /\ l + (a + k) = x + k
      BY <1>1, <1>2, <1>3, <2>5, <3>1
    <3>4. t[a + k] = z[k]
      BY <1>3, <3>2, <3>3
    <3> QED
      BY <3>4 DEF a
  <2>7. to[i] = to[i - 1] + Len(z)
    <3> DEFINE x == off[i]
               y == off[i + 1]
    <3>1. to[i] = y - l /\ to[i - 1] = x - l /\ x \in Int /\ y = x + Len(z)
      BY <2>3, <2>4
    <3> HIDE DEF x, y
    <3> QED
      BY <1>2, <2>5, <3>1
  <2> QED
    BY <2>1, <2>6, <2>7, Zenon
<1>11. Lays(to, t, v)
  BY <1>4, <1>7, <1>8, <1>9, <1>10 DEF Lays
<1> QED
  BY <1>4, <1>7, <1>11 DEF t, v

-----------------------------------------------------------------------------
\* Whatever builds an address leaves the stream alone.
LEMMA BecomeInv ==
    ASSUME InetInv, NEW m, Proper(m), Become(m)
    PROVE  InetInv'
<1>1. addr' = m /\ stream' = stream /\ unread' = unread
  BY DEF Become
<1>2. Proper(addr')
  BY <1>1
<1>3. StreamInv'
  BY <1>1, Zenon DEF InetInv, StreamInv
<1> QED
  BY <1>2, <1>3 DEF InetInv

\* Write puts the address at the end of the stream.
LEMMA WriteInv == InetInv /\ Write => InetInv'
<1> SUFFICES ASSUME InetInv, Write PROVE InetInv'
  OBVIOUS
<1>1. /\ Proper(addr) /\ stream \in Seq(Octet) /\ unread \in Seq(Memory)
      /\ \A i \in 1 .. Len(unread) : Proper(unread[i])
  BY DEF InetInv, StreamInv
<1>2. PICK off : Lays(off, stream, unread)
  BY Zenon DEF InetInv, StreamInv
<1>3. stream' = stream \o write_bytes(addr) /\ unread' = Append(unread, addr) /\ addr' = addr
  BY DEF Write
<1>4. stream' \in Seq(Octet)
  BY <1>1, <1>3, WireBytes, ConcatProperties
<1>5. addr \in Memory
  BY <1>1, ProperMemory
<1>6. /\ unread' \in Seq(Memory) /\ Len(unread') = Len(unread) + 1
      /\ unread'[Len(unread) + 1] = addr
      /\ \A i \in 1 .. Len(unread) : unread'[i] = unread[i]
  BY <1>1, <1>3, <1>5, AppendProperties
<1>7. \A i \in 1 .. Len(unread') : Proper(unread'[i])
  <2>1. Len(unread) \in Nat
    BY <1>1, LenProperties
  <2>2. \A i \in 1 .. Len(unread') : i \in 1 .. Len(unread) \/ i = Len(unread) + 1
    BY <1>6, <2>1
  <2> QED
    BY <1>1, <1>6, <2>2, Zenon
<1>8. \E to \in [0 .. Len(unread') -> 0 .. Len(stream')] : Lays(to, stream', unread')
  BY <1>1, <1>2, <1>3, LaysWrite, Zenon
<1>9. Proper(addr')
  BY <1>1, <1>3
<1> QED
  BY <1>4, <1>6, <1>7, <1>8, <1>9, Zenon DEF InetInv, StreamInv

\* What the stream holds is what read_bytes gives, and it gives nothing when
\* nothing is unread.
LEMMA ReadsFirst ==
    InetInv =>
        /\ unread = <<>> => read_bytes(stream) = <<>>
        /\ unread # <<>> =>
             /\ Proper(unread[1]) /\ Begins(stream, write_bytes(unread[1]))
             /\ read_bytes(stream) = <<[a |-> unread[1], n |-> Len(write_bytes(unread[1]))]>>
<1> SUFFICES ASSUME InetInv
             PROVE  /\ unread = <<>> => read_bytes(stream) = <<>>
                    /\ unread # <<>> =>
                         /\ Proper(unread[1]) /\ Begins(stream, write_bytes(unread[1]))
                         /\ read_bytes(stream) =
                              <<[a |-> unread[1], n |-> Len(write_bytes(unread[1]))]>>
  OBVIOUS
<1>1. /\ stream \in Seq(Octet) /\ unread \in Seq(Memory)
      /\ \A i \in 1 .. Len(unread) : Proper(unread[i])
  BY DEF InetInv, StreamInv
<1>2. PICK off : Lays(off, stream, unread)
  BY Zenon DEF InetInv, StreamInv
<1>3. unread = <<>> => read_bytes(stream) = <<>>
  BY <1>1, <1>2, LaysFirst, Reads, Zenon
<1>4. ASSUME unread # <<>>
      PROVE  Proper(unread[1]) /\ Begins(stream, write_bytes(unread[1]))
  <2>1. 1 \in 1 .. Len(unread)
    BY <1>1, <1>4
  <2> QED
    BY <1>1, <1>2, <1>4, <2>1, LaysFirst, Zenon
<1> QED
  BY <1>1, <1>3, <1>4, ReadBack, Zenon

\* Read takes the address from the front of the stream.
LEMMA ReadInv == InetInv /\ Read => InetInv'
<1> SUFFICES ASSUME InetInv, Read PROVE InetInv'
  OBVIOUS
<1>1. /\ stream \in Seq(Octet) /\ unread \in Seq(Memory)
      /\ \A i \in 1 .. Len(unread) : Proper(unread[i])
  BY DEF InetInv, StreamInv
<1>2. PICK off : Lays(off, stream, unread)
  BY Zenon DEF InetInv, StreamInv
<1>3. unread # <<>>
  BY ReadsFirst, Zenon DEF Read
<1> DEFINE l == Len(write_bytes(unread[1]))
<1>4. read_bytes(stream) = <<[a |-> unread[1], n |-> l]>> /\ Proper(unread[1])
  BY <1>3, ReadsFirst, Zenon
<1>5. \A x, y : <<[a |-> x, n |-> y]>>[1].a = x /\ <<[a |-> x, n |-> y]>>[1].n = y
  BY SMT
<1>6. /\ addr' = unread[1] /\ unread' = Tail(unread)
      /\ stream' = SubSeq(stream, l + 1, Len(stream))
  <2>1. /\ addr' = read_bytes(stream)[1].a
        /\ stream' = SubSeq(stream, read_bytes(stream)[1].n + 1, Len(stream))
        /\ unread' = IF unread = <<>> THEN <<>> ELSE Tail(unread)
    BY Zenon DEF Read
  <2>2. read_bytes(stream)[1].a = unread[1] /\ read_bytes(stream)[1].n = l
    <3> HIDE DEF l
    <3> QED
      BY <1>4, <1>5
  <2> QED
    BY <1>3, <2>1, <2>2, Zenon
<1>7. /\ unread' \in Seq(Memory) /\ Len(unread') = Len(unread) - 1
      /\ \A i \in 1 .. Len(unread') : unread'[i] = unread[i + 1]
  BY <1>1, <1>3, <1>6, HeadTailProperties
<1>8. \A i \in 1 .. Len(unread') : Proper(unread'[i])
  <2>1. Len(unread) \in Nat
    BY <1>1, LenProperties
  <2>2. \A i \in 1 .. Len(unread') : i + 1 \in 1 .. Len(unread)
    BY <1>7, <2>1
  <2> QED
    BY <1>1, <1>7, <2>2, Zenon
<1>9. stream' \in Seq(Octet)
  <2>1. l \in 0 .. Len(stream)
    BY <1>1, <1>2, <1>3, LaysFirst, Zenon
  <2> HIDE DEF l
  <2>2. Len(stream) \in Nat /\ l + 1 \in 1 .. (Len(stream) + 1) /\ Len(stream) \in Int
    BY <1>1, <2>1
  <2> QED
    BY <1>1, <1>6, <2>2
<1>10. \E to \in [0 .. Len(unread') -> 0 .. Len(stream')] : Lays(to, stream', unread')
  BY <1>1, <1>2, <1>3, <1>6, LaysRead, Zenon
<1> QED
  BY <1>4, <1>6, <1>7, <1>8, <1>9, <1>10, Zenon DEF InetInv, StreamInv

\* Nothing is on the stream at first.
LEMMA InitInv == Init => InetInv
<1> SUFFICES ASSUME Init PROVE InetInv
  OBVIOUS
<1>1. addr = Nil /\ stream = <<>> /\ unread = <<>>
  BY DEF Init
<1>2. stream \in Seq(Octet) /\ unread \in Seq(Memory) /\ Len(stream) = 0 /\ Len(unread) = 0
  BY <1>1
<1>3. Proper(addr)
  BY <1>1, ProperMemory
<1>4. \A i \in 1 .. Len(unread) : Proper(unread[i])
  BY <1>2
<1> DEFINE off == [i \in 0 .. 0 |-> 0]
<1>5. off \in [0 .. Len(unread) -> 0 .. Len(stream)] /\ off[0] = 0
  BY <1>2
<1>6. Lays(off, stream, unread)
  BY <1>2, <1>5 DEF Lays
<1> QED
  BY <1>2, <1>3, <1>4, <1>5, <1>6, Zenon DEF InetInv, StreamInv

\* The octets, ports and texts that the program builds addresses from.
LEMMA Inputs ==
    /\ \A ip \in Ips : ip \in Seq(Octet)
    /\ \A p \in Ports : p \in U16
    /\ \A s \in Texts : s \in AnyText
    /\ 0 \in U16
<1>1. Ips \subseteq Seq(Octet) /\ Ports \subseteq U16 /\ Texts \subseteq AnyText
  BY InetAssumption, Zenon
<1>2. 0 \in U16
  BY U16Range
<1> QED
  BY <1>1, <1>2

\* Every way to build an address, to write one and to read one keeps the
\* invariant.
LEMMA StepInv == InetInv /\ [Next]_vars => InetInv'
<1> SUFFICES ASSUME InetInv, [Next]_vars PROVE InetInv'
  OBVIOUS
<1>0. Proper(addr)
  BY DEF InetInv
<1>1. CASE Set
  BY <1>1, Inputs, SetProper, BecomeInv, Zenon DEF Set
<1>2. CASE From
  <2>1. PICK ip \in Ips : \/ Become(from_IpAddr(addr, ip))
                          \/ \E p \in Ports : Become(from_SocketAddr(addr, [ip |-> ip, port |-> p]))
    BY <1>2, Zenon DEF From
  <2>2. \A p : from_SocketAddr(addr, [ip |-> ip, port |-> p]) = set(addr, ip, p)
    BY SMT DEF from_SocketAddr, from_ip_port
  <2>3. from_IpAddr(addr, ip) = set(addr, ip, 0)
    BY Zenon DEF from_IpAddr, from_ip_port
  <2> QED
    BY <2>1, <2>2, <2>3, Inputs, SetProper, BecomeInv, Zenon
<1>3. CASE SetPort
  BY <1>0, <1>3, Inputs, SetPortProper, BecomeInv, Zenon DEF SetPort
<1>4. CASE Zero
  BY <1>4, ProperMemory, BecomeInv, Zenon DEF Zero
<1>5. CASE Construct
  BY <1>5, Inputs, ConstantsProper, BecomeInv, Zenon DEF Construct
<1>6. CASE Parse
  BY <1>0, <1>6, Inputs, ParsedProper, BecomeInv, Zenon DEF Parse
<1>7. CASE Write
  BY <1>7, WriteInv
<1>8. CASE Read
  BY <1>8, ReadInv
<1>9. CASE UNCHANGED vars
  <2>1. addr' = addr /\ stream' = stream /\ unread' = unread
    BY <1>9 DEF vars
  <2> QED
    BY <2>1, Zenon DEF InetInv, StreamInv
<1> QED
  BY <1>1, <1>2, <1>3, <1>4, <1>5, <1>6, <1>7, <1>8, <1>9 DEF Next

\* The address is always proper, and the stream the bytes of what is unread.
THEOREM InetInvariance == Spec => []InetInv
BY InitInv, StepInv, PTL DEF Spec

\* Families, octets and bytes always have their types.
THEOREM InetTypeCorrect == Spec => []TypeOK
<1>1. InetInv => TypeOK
  BY ProperMemory, Zenon DEF InetInv, StreamInv, TypeOK
<1> QED
  BY <1>1, InetInvariance, PTL

\* However an address was built (set, a conversion, a constructor, text, the
\* wire), all of its memory follows from its IP and its port: nothing of what
\* the memory held before is left in it.
THEOREM AlwaysCanonical == Spec => []Canonical
<1>1. InetInv => Canonical
  BY ProperCanonical, Zenon DEF InetInv, Canonical
<1> QED
  BY <1>1, InetInvariance, PTL

\* read_bytes gives back the addresses that write_bytes wrote, in their order
\* and whatever follows them, and nothing when the bytes end inside one.
THEOREM WireInverts == Spec => []ReadsWhatWasWritten
<1>1. InetInv => ReadsWhatWasWritten
  <2> SUFFICES ASSUME InetInv, unread # <<>>
               PROVE  LET first == write_bytes(unread[1])
                      IN  /\ read_bytes(stream) = <<[a |-> unread[1], n |-> Len(first)]>>
                          /\ \A n \in 0 .. (Len(first) - 1) :
                               read_bytes(SubSeq(stream, 1, n)) = <<>>
    BY Zenon DEF ReadsWhatWasWritten
  <2>1. /\ Proper(unread[1]) /\ Begins(stream, write_bytes(unread[1]))
        /\ read_bytes(stream) = <<[a |-> unread[1], n |-> Len(write_bytes(unread[1]))]>>
    BY ReadsFirst, Zenon
  <2>2. stream \in Seq(Octet)
    BY DEF InetInv, StreamInv
  <2> QED
    BY <2>1, <2>2, ReadShort, Zenon
<1> QED
  BY <1>1, InetInvariance, PTL

-----------------------------------------------------------------------------
\* Text gives an IP address back, and is refused for nil.
LEMMA TextInverts ==
    ASSUME NEW m
    PROVE  /\ m = Nil => from_str(to_string(m)) = <<>>
           /\ Is4(m) \/ Is6(m) => from_str(to_string(m)) = <<m>>
<1> DEFINE s == to_string(m)
<1>1. ~s.empty /\ s.ip = ip_bytes(m) /\ s.port = IF is_ip(m) THEN port(m) ELSE -1
  BY SMT DEF to_string, to_ip_string, ip_bytes, is_ip, NoIp, AF_INET, AF_INET6
<1> HIDE DEF s
<1>2. ASSUME m = Nil PROVE from_str(s) = <<>>
  <2>1. m.family = 0
    BY <1>2, Members
  <2>2. ip_bytes(m) = NoIp
    BY <2>1, SMT DEF ip_bytes, AF_INET, AF_INET6, NoIp
  <2> QED
    BY <1>1, <2>2, Parses, Zenon
<1>3. ASSUME Is4(m) \/ Is6(m)
      PROVE  /\ s.port = Value(m.port) /\ m.port \in Word
             /\ ParsedPort(s.port) = m.port
  <2>1. s.port = Value(m.port) /\ m.port \in Word
    BY <1>1, <1>3, Members, Zenon DEF is_ip
  <2>2. Value(m.port) \in U16 /\ to_be_bytes(Value(m.port)) = m.port
    BY <2>1, BytesPort
  <2>3. \A p \in U16 : p # -1
    BY U16Range
  <2> QED
    BY <2>1, <2>2, <2>3, Zenon DEF ParsedPort
<1>4. ASSUME Is4(m) PROVE from_str(s) = <<m>>
  <2>1. s.ip = m.lo /\ m.lo \in Ip4 /\ ~s.empty
    BY <1>1, <1>4, Members, Zenon
  <2>2. from_str(s) = <<Addr4(s.ip, ParsedPort(s.port))>>
    BY <2>1, Parses, Zenon
  <2>3. m = Addr4(m.lo, m.port) /\ ParsedPort(s.port) = m.port
    BY <1>3, <1>4, Zenon DEF Is4
  <2> QED
    BY <2>1, <2>2, <2>3
<1>5. ASSUME Is6(m) PROVE from_str(s) = <<m>>
  <2>1. s.ip = m.hi /\ m.hi \in Ip6 /\ ~s.empty
    BY <1>1, <1>5, Members, Zenon
  <2>2. from_str(s) = <<Addr6(s.ip, ParsedPort(s.port))>>
    BY <2>1, Parses, Zenon
  <2>3. m = Addr6(m.hi, m.port) /\ ParsedPort(s.port) = m.port
    BY <1>3, <1>5, Zenon DEF Is6
  <2> QED
    BY <2>1, <2>2, <2>3
<1> QED
  BY <1>2, <1>4, <1>5, Zenon DEF s

\* What get_s6_addr may lead to in a proper address, and the address as read:
\* an IPv6 address again, with the same port.
LEMMA ReadsAs ==
    ASSUME NEW m
    PROVE  /\ m = Nil \/ Is4(m) => AsRead(m) = {m}
           /\ Is6(m) => /\ get_s6_addr(m) \subseteq Ip6
                        /\ AsRead(m) = {Addr6(a, m.port) : a \in get_s6_addr(m)}
                        /\ \A a \in get_s6_addr(m) : Is6(Addr6(a, m.port))
<1>1. 0 # AF_INET6 /\ AF_INET # AF_INET6
  BY SMT DEF AF_INET, AF_INET6
<1>2. ASSUME m = Nil \/ Is4(m) PROVE AsRead(m) = {m}
  <2>1. m.family # AF_INET6
    BY <1>1, <1>2, Members, Zenon
  <2> QED
    BY <2>1, Zenon DEF AsRead
<1>3. ASSUME Is6(m)
      PROVE  /\ get_s6_addr(m) \subseteq Ip6
             /\ AsRead(m) = {Addr6(a, m.port) : a \in get_s6_addr(m)}
             /\ \A a \in get_s6_addr(m) : Is6(Addr6(a, m.port))
  <2>1. m.family = AF_INET6 /\ m.hi \in Ip6 /\ m.port \in Word /\ m = Addr6(m.hi, m.port)
    BY <1>3, Zenon DEF Is6
  <2>2. Dangling \subseteq Ip6
    BY InetAssumption DEF Ip6
  <2>3. get_s6_addr(m) \subseteq Ip6
    BY <2>1, <2>2, Zenon DEF get_s6_addr
  <2>4. \A x, w, a : [Addr6(x, w) EXCEPT !.hi = a] = Addr6(a, w)
    BY SMT DEF Addr6
  <2>5. \A a : [m EXCEPT !.hi = a] = Addr6(a, m.port)
    <3> DEFINE x == m.hi  w == m.port
    <3>1. m = Addr6(x, w)
      BY <2>1, Zenon
    <3> HIDE DEF x, w
    <3>2. \A a : [m EXCEPT !.hi = a] = Addr6(a, w)
      BY <2>4, <3>1
    <3> QED
      BY <3>2 DEF w
  <2>6. AsRead(m) = {[m EXCEPT !.hi = a] : a \in get_s6_addr(m)}
    BY <2>1, Zenon DEF AsRead
  <2>7. AsRead(m) = {Addr6(a, m.port) : a \in get_s6_addr(m)}
    BY <2>5, <2>6, Zenon
  <2>8. \A a \in get_s6_addr(m) : Is6(Addr6(a, m.port))
    BY <2>1, <2>3, ProperMemory, Zenon
  <2> QED
    BY <2>3, <2>7, <2>8, Zenon
<1> QED
  BY <1>2, <1>3, Zenon

\* What the conversions to std::net types give.
LEMMA StdTypes ==
    ASSUME NEW m
    PROVE  /\ m = Nil => to_socketaddr(m) = {<<>>}
           /\ Is4(m) => /\ to_socketaddr(m) = {<<[ip |-> m.lo, port |-> port(m)]>>}
                        /\ try_into_IpAddr(m, {m.family}) = {<<m.lo>>}
           /\ Is6(m) => /\ to_socketaddr(m) =
                             {<<[ip |-> a, port |-> port(m)]>> : a \in get_s6_addr(m)}
                        /\ try_into_IpAddr(m, {m.family}) = {<<a>> : a \in get_s6_addr(m)}
<1>1. AF_INET # AF_INET6 /\ 0 \notin {AF_INET, AF_INET6}
  BY SMT DEF AF_INET, AF_INET6
<1> DEFINE X == <<[ip |-> m.lo, port |-> port(m)]>>
           Y(a) == <<[ip |-> a, port |-> port(m)]>>
           YS == {Y(a) : a \in get_s6_addr(m)}
           ZS == {<<a>> : a \in get_s6_addr(m)}
<1>3. to_socketaddr(m) =
        IF m.family \notin {AF_INET, AF_INET6} THEN {<<>>}
        ELSE IF m.family = AF_INET THEN {X} ELSE YS
  BY Zenon DEF to_socketaddr, try_into_SocketAddr
<1>5. try_into_IpAddr(m, {m.family}) = IF m.family = AF_INET THEN {<<m.lo>>} ELSE ZS
  BY Zenon DEF try_into_IpAddr
<1> HIDE DEF X, Y, YS, ZS
<1>6. m = Nil => to_socketaddr(m) = {<<>>}
  <2>1. m = Nil => m.family \notin {AF_INET, AF_INET6}
    BY <1>1, Members, Zenon
  <2> QED
    BY <1>3, <2>1, SMT
<1>7. Is4(m) => to_socketaddr(m) = {X} /\ try_into_IpAddr(m, {m.family}) = {<<m.lo>>}
  <2> SUFFICES ASSUME Is4(m)
               PROVE  to_socketaddr(m) = {X} /\ try_into_IpAddr(m, {m.family}) = {<<m.lo>>}
    OBVIOUS
  <2>1. m.family = AF_INET
    BY DEF Is4
  <2>2. to_socketaddr(m) = {X}
    BY <1>3, <2>1, SMT
  <2>3. try_into_IpAddr(m, {m.family}) = {<<m.lo>>}
    BY <1>5, <2>1, SMT
  <2> QED
    BY <2>2, <2>3
<1>8. Is6(m) => to_socketaddr(m) = YS /\ try_into_IpAddr(m, {m.family}) = ZS
  <2> SUFFICES ASSUME Is6(m)
               PROVE  to_socketaddr(m) = YS /\ try_into_IpAddr(m, {m.family}) = ZS
    OBVIOUS
  <2>1. m.family = AF_INET6
    BY DEF Is6
  <2>2. to_socketaddr(m) = YS
    BY <1>1, <1>3, <2>1, SMT
  <2>3. try_into_IpAddr(m, {m.family}) = ZS
    BY <1>1, <1>5, <2>1, SMT
  <2> QED
    BY <2>2, <2>3
<1> QED
  BY <1>6, <1>7, <1>8, Zenon DEF X, Y, YS, ZS

\* Text and std::net types give a proper address back as it was read.
LEMMA Inverts ==
    ASSUME InetInv
    PROVE  ConversionsInvert
<1> DEFINE socks == {from_SocketAddr(Nil, sa[1]) : sa \in to_socketaddr(addr)}
           ips == {from_IpAddr(Nil, ip[1]) : ip \in try_into_IpAddr(addr, {addr.family})}
           noports == {set_port(m, 0) : m \in AsRead(addr)}
           Back == socks = AsRead(addr) /\ ips = noports
<1>1. Proper(addr) /\ addr = set(Nil, ip_bytes(addr), port(addr))
  BY ProperCanonical DEF InetInv
<1>2. \A x : <<x>>[1] = x
  BY SMT
<1>3. \A x, y : from_SocketAddr(Nil, [ip |-> x, port |-> y]) = set(Nil, x, y)
  BY SMT DEF from_SocketAddr, from_ip_port
<1>4. \A x : from_IpAddr(Nil, x) = set(Nil, x, 0)
  BY Zenon DEF from_IpAddr, from_ip_port
<1>5. 0 \in U16
  BY U16Range
<1>6. CASE addr = Nil
  <2>1. addr.family = 0
    BY <1>6, Members
  <2>2. is_nil(addr) /\ c_sockaddr(addr) = 0
    BY <2>1, SMT DEF is_nil, c_sockaddr, AF_INET, AF_INET6
  <2> QED
    BY <1>6, <2>2, TextInverts, StdTypes, Zenon DEF ConversionsInvert
<1>7. ASSUME Is4(addr) \/ Is6(addr), Back
      PROVE  ConversionsInvert
  <2>1. addr.family # 0
    BY <1>7, Members, SMT DEF AF_INET, AF_INET6
  <2>2. ~is_nil(addr)
    BY <2>1 DEF is_nil
  <2>3. from_str(to_string(addr)) = <<addr>>
    BY <1>7, TextInverts, Zenon
  <2>4. socks = AsRead(addr) /\ ips = noports
    BY <1>7
  <2> QED
    BY <2>2, <2>3, <2>4, Zenon DEF ConversionsInvert
<1>8. CASE Is4(addr)
  <2> DEFINE sock == [ip |-> addr.lo, port |-> port(addr)]
  <2>1. addr.lo \in Ip4 /\ ip_bytes(addr) = addr.lo
    BY <1>8, Members, Zenon
  <2>2. set(Nil, addr.lo, 0) = set_port(addr, 0)
    BY <1>1, <1>5, <1>8, <2>1, SetBuilds, SetPortProper, Zenon
  <2>3. to_socketaddr(addr) = {<<sock>>} /\ try_into_IpAddr(addr, {addr.family}) = {<<addr.lo>>}
    BY <1>8, StdTypes, Zenon
  <2>4. from_SocketAddr(Nil, sock) = addr
    BY <1>1, <1>3, <2>1, Zenon
  <2> HIDE DEF sock
  <2>5. AsRead(addr) = {addr}
    BY <1>8, ReadsAs, Zenon
  <2>6. socks = {addr}
    <3>1. socks = {from_SocketAddr(Nil, <<sock>>[1])}
      BY <2>3, Zenon
    <3>2. from_SocketAddr(Nil, <<sock>>[1]) = addr
      BY <1>2, <2>4, Zenon
    <3> QED
      BY <3>1, <3>2, Zenon
  <2>7. ips = {set_port(addr, 0)}
    <3>1. ips = {from_IpAddr(Nil, <<addr.lo>>[1])}
      BY <2>3, Zenon
    <3>2. from_IpAddr(Nil, <<addr.lo>>[1]) = set_port(addr, 0)
      BY <1>2, <1>4, <2>2, Zenon
    <3> QED
      BY <3>1, <3>2, Zenon
  <2>8. noports = {set_port(addr, 0)}
    BY <2>5, Zenon
  <2>9. Back
    BY <2>5, <2>6, <2>7, <2>8, Zenon
  <2> QED
    BY <1>7, <1>8, <2>9, Zenon
<1>9. CASE Is6(addr)
  <2> DEFINE A == get_s6_addr(addr)
             w == addr.port
             zero == to_be_bytes(0)
             Sock(a) == [ip |-> a, port |-> port(addr)]
  <2>1. addr.port \in Word /\ port(addr) = Value(addr.port)
    BY <1>9, Members, Zenon
  <2>2. to_be_bytes(port(addr)) = w
    BY <2>1, BytesPort, Zenon
  <2>3. A \subseteq Ip6 /\ AsRead(addr) = {Addr6(a, w) : a \in A} /\ \A a \in A : Is6(Addr6(a, w))
    BY <1>9, ReadsAs, Zenon
  <2>4. /\ to_socketaddr(addr) = {<<Sock(a)>> : a \in A}
        /\ try_into_IpAddr(addr, {addr.family}) = {<<a>> : a \in A}
    BY <1>9, StdTypes, Zenon
  <2>5. \A a \in A : from_SocketAddr(Nil, Sock(a)) = Addr6(a, w)
    <3> SUFFICES ASSUME NEW a \in A PROVE from_SocketAddr(Nil, Sock(a)) = Addr6(a, w)
      OBVIOUS
    <3>1. from_SocketAddr(Nil, Sock(a)) = set(Nil, a, port(addr))
      BY <1>3, Zenon
    <3>2. a \in Ip6
      BY <2>3, Zenon
    <3>3. set(Nil, a, port(addr)) = Addr6(a, to_be_bytes(port(addr)))
      BY <3>2, SetBuilds, Zenon
    <3> HIDE DEF A, w, Sock
    <3> QED
      BY <2>2, <3>1, <3>3, Zenon
  <2>6. \A a \in A : from_IpAddr(Nil, a) = Addr6(a, zero)
    BY <1>4, <2>3, SetBuilds, Zenon
  <2>7. \A a \in A : set_port(Addr6(a, w), 0) = Addr6(a, zero)
    <3> SUFFICES ASSUME NEW a \in A PROVE set_port(Addr6(a, w), 0) = Addr6(a, zero)
      OBVIOUS
    <3>1. Proper(Addr6(a, w)) /\ Is6(Addr6(a, w))
      BY <2>3, Zenon DEF Proper
    <3>2. Addr6(a, w).hi = a
      BY SMT DEF Addr6
    <3>3. set_port(Addr6(a, w), 0) = Addr6(Addr6(a, w).hi, zero)
      BY <1>5, <3>1, SetPortProper, Zenon
    <3> QED
      BY <3>2, <3>3, Zenon
  <2> HIDE DEF A, w, zero, Sock
  <2>8. socks = {Addr6(a, w) : a \in A}
    <3>1. socks = {from_SocketAddr(Nil, <<Sock(a)>>[1]) : a \in A}
      BY <2>4, Zenon
    <3>2. \A a \in A : from_SocketAddr(Nil, <<Sock(a)>>[1]) = Addr6(a, w)
      BY <1>2, <2>5, Zenon
    <3> QED
      BY <3>1, <3>2, Zenon
  <2>9. ips = {Addr6(a, zero) : a \in A}
    <3>1. ips = {from_IpAddr(Nil, <<a>>[1]) : a \in A}
      BY <2>4, Zenon
    <3>2. \A a \in A : from_IpAddr(Nil, <<a>>[1]) = Addr6(a, zero)
      BY <1>2, <2>6, Zenon
    <3> QED
      BY <3>1, <3>2, Zenon
  <2>10. noports = {Addr6(a, zero) : a \in A}
    <3>1. noports = {set_port(Addr6(a, w), 0) : a \in A}
      BY <2>3, Zenon
    <3> QED
      BY <2>7, <3>1, Zenon
  <2>11. Back
    BY <2>3, <2>8, <2>9, <2>10, Zenon
  <2> QED
    BY <1>7, <1>9, <2>11, Zenon
<1> QED
  BY <1>1, <1>6, <1>8, <1>9 DEF Proper

\* to_string and from_str give every address the program can hold back as it
\* was, and so do the conversions to and from std::net types, except for the
\* octets of an IPv6 address, which are those that get_s6_addr's reference led
\* to, whatever these are.
THEOREM ConversionsRoundTrip == Spec => []ConversionsInvert
<1>1. InetInv => ConversionsInvert
  BY Inverts
<1> QED
  BY <1>1, InetInvariance, PTL

-----------------------------------------------------------------------------
\* Reading octets natively twice gives them back, so no two read the same.
LEMMA NativeTwice ==
    ASSUME NEW x \in Seq(Octet)
    PROVE  Native(x) \in Seq(Octet) /\ Len(Native(x)) = Len(x) /\ Native(Native(x)) = x
<1>1. Len(x) \in Nat /\ x \in [1 .. Len(x) -> Octet]
  BY LenProperties
<1>2. ASSUME NEW y \in Seq(Octet), Len(y) = Len(x)
      PROVE  /\ Reverse(y) \in Seq(Octet) /\ Len(Reverse(y)) = Len(x)
             /\ \A i \in 1 .. Len(x) : Reverse(y)[i] = y[(Len(x) - i) + 1]
  <2>1. y \in [1 .. Len(x) -> Octet]
    BY <1>2, LenProperties
  <2>2. Reverse(y) = [i \in 1 .. Len(x) |-> y[(Len(x) - i) + 1]]
    BY <1>2 DEF Reverse
  <2>3. Reverse(y) \in [1 .. Len(x) -> Octet]
    BY <1>1, <2>1, <2>2
  <2> QED
    BY <1>1, <2>2, <2>3, OctetsSeq
<1>3. CASE LittleEndian
  <2>1. Native(x) = Reverse(x) /\ Native(Reverse(x)) = Reverse(Reverse(x))
    BY <1>3 DEF Native
  <2>2. /\ Reverse(x) \in Seq(Octet) /\ Len(Reverse(x)) = Len(x)
        /\ \A i \in 1 .. Len(x) : Reverse(x)[i] = x[(Len(x) - i) + 1]
    BY <1>2
  <2>3. /\ Reverse(Reverse(x)) \in Seq(Octet) /\ Len(Reverse(Reverse(x))) = Len(x)
        /\ \A i \in 1 .. Len(x) : Reverse(Reverse(x))[i] = Reverse(x)[(Len(x) - i) + 1]
    BY <1>2, <2>2
  <2>4. ASSUME NEW i \in 1 .. Len(x) PROVE Reverse(Reverse(x))[i] = x[i]
    <3>1. (Len(x) - i) + 1 \in 1 .. Len(x) /\ (Len(x) - ((Len(x) - i) + 1)) + 1 = i
      BY <1>1
    <3> QED
      BY <2>2, <2>3, <3>1
  <2>5. Reverse(Reverse(x)) = x
    BY <2>3, <2>4, SeqEqual
  <2> QED
    BY <2>1, <2>2, <2>5
<1>4. CASE ~LittleEndian
  BY <1>4 DEF Native
<1> QED
  BY <1>3, <1>4

\* In the first place at which two sequences of one length differ lies their
\* order.
LEMMA CompareAt ==
    ASSUME NEW x \in Seq(Octet), NEW y \in Seq(Octet), Len(x) = Len(y),
           NEW i \in 1 .. Len(x), x[i] # y[i], \A j \in 1 .. (i - 1) : x[j] = y[j]
    PROVE  Compare(x, y) = IF x[i] < y[i] THEN -1 ELSE 1
<1> DEFINE First(k) == x[k] # y[k] /\ \A j \in 1 .. (k - 1) : x[j] = y[j]
<1>1. x # y
  OBVIOUS
<1>2. DOMAIN x = 1 .. Len(x) /\ Len(x) \in Nat
  BY LenProperties
<1>3. ASSUME NEW k \in 1 .. Len(x), First(k) PROVE k = i
  <2>1. ~(k < i)
    <3>1. k < i => k \in 1 .. (i - 1)
      BY <1>2
    <3> QED
      BY <1>3, <3>1
  <2>2. ~(i < k)
    <3>1. i < k => i \in 1 .. (k - 1)
      BY <1>2
    <3> QED
      BY <1>3, <3>1
  <2> QED
    BY <1>2, <2>1, <2>2
<1>4. First(i)
  OBVIOUS
<1> HIDE DEF First
<1>5. (CHOOSE k \in DOMAIN x : First(k)) = i
  BY <1>2, <1>3, <1>4, Zenon
<1>6. Compare(x, y) = IF x = y THEN 0
                      ELSE LET k == CHOOSE k \in DOMAIN x : First(k)
                           IN  IF x[k] < y[k] THEN -1 ELSE 1
  BY Zenon DEF Compare, First
<1> QED
  BY <1>1, <1>5, <1>6, Zenon

\* Two different sequences of one length have such a place.
LEMMA Differ ==
    ASSUME NEW x \in Seq(Octet), NEW y \in Seq(Octet), Len(x) = Len(y), x # y
    PROVE  \E i \in 1 .. Len(x) : x[i] # y[i] /\ \A j \in 1 .. (i - 1) : x[j] = y[j]
<1> DEFINE T == {i \in 1 .. Len(x) : x[i] # y[i]}
<1>1. Len(x) \in Nat
  BY LenProperties
<1>2. T # {}
  BY SeqEqual
<1>3. T \subseteq Nat
  BY <1>1
<1>4. PICK i \in T : \A j \in T : i <= j
  <2> HIDE DEF T
  <2> QED
    BY <1>2, <1>3, LeastElement
<1>5. ASSUME NEW j \in 1 .. (i - 1) PROVE x[j] = y[j]
  <2>1. j \in 1 .. Len(x) /\ ~(i <= j)
    BY <1>1
  <2> QED
    BY <1>4, <2>1
<1> QED
  BY <1>5

\* Compare tells equal sequences from all others.
LEMMA CompareEqual ==
    ASSUME NEW x, NEW y
    PROVE  (Compare(x, y) = 0) <=> (x = y)
<1>1. -1 # 0 /\ 1 # 0
  BY SMT
<1> QED
  BY <1>1, Zenon DEF Compare

\* Sequences in a row compare as the first ones do, then as the second ones.
LEMMA CompareConcat ==
    ASSUME NEW x \in Seq(Octet), NEW v \in Seq(Octet), Len(x) = Len(v),
           NEW y \in Seq(Octet), NEW w \in Seq(Octet), Len(y) = Len(w)
    PROVE  Compare(x \o y, v \o w) = Then(Compare(x, v), Compare(y, w))
<1> DEFINE s == x \o y
           t == v \o w
           l == Len(x)
<1>1. Joins(x, y) /\ Joins(v, w)
  BY Joined
<1>2. /\ s \in Seq(Octet) /\ t \in Seq(Octet) /\ Len(s) = Len(t)
      /\ l \in Nat /\ Len(y) \in Nat /\ Len(s) = l + Len(y)
      /\ \A i \in 1 .. l : s[i] = x[i] /\ t[i] = v[i]
      /\ \A i \in 1 .. Len(y) : s[l + i] = y[i] /\ t[l + i] = w[i]
  BY <1>1 DEF Joins
<1>3. CASE x # v
  <2>1. PICK i \in 1 .. Len(x) : x[i] # v[i] /\ \A j \in 1 .. (i - 1) : x[j] = v[j]
    BY <1>3, Differ
  <2>2. Compare(x, v) = IF x[i] < v[i] THEN -1 ELSE 1
    BY <2>1, CompareAt
  <2> HIDE DEF s, t
  <2>3. i \in 1 .. Len(s) /\ i \in 1 .. l /\ \A j \in 1 .. (i - 1) : j \in 1 .. l
    BY <1>2
  <2>4. s[i] = x[i] /\ t[i] = v[i]
    BY <1>2, <2>3
  <2>5. \A j \in 1 .. (i - 1) : s[j] = t[j]
    BY <1>2, <2>1, <2>3
  <2>6. Compare(s, t) = IF s[i] < t[i] THEN -1 ELSE 1
    BY <1>2, <2>1, <2>3, <2>4, <2>5, CompareAt
  <2>7. Compare(s, t) = Compare(x, v)
    BY <2>2, <2>4, <2>6
  <2>8. Compare(x, v) # 0
    BY <1>3, CompareEqual, Zenon
  <2> QED
    BY <2>7, <2>8, Zenon DEF Then, s, t
<1>4. CASE x = v /\ y # w
  <2>1. PICK i \in 1 .. Len(y) : y[i] # w[i] /\ \A j \in 1 .. (i - 1) : y[j] = w[j]
    BY <1>4, Differ
  <2>2. Compare(y, w) = IF y[i] < w[i] THEN -1 ELSE 1
    BY <2>1, CompareAt
  <2> HIDE DEF s, t
  <2>3. l + i \in 1 .. Len(s)
    BY <1>2
  <2>4. s[l + i] = y[i] /\ t[l + i] = w[i]
    BY <1>2
  <2>5. ASSUME NEW j \in 1 .. ((l + i) - 1) PROVE s[j] = t[j]
    <3>1. CASE j <= l
      <4>1. j \in 1 .. l
        BY <1>2, <3>1
      <4> QED
        BY <1>2, <1>4, <4>1
    <3>2. CASE j > l
      <4> DEFINE k == j - l
      <4>1. k \in 1 .. Len(y) /\ k \in 1 .. (i - 1) /\ l + k = j
        BY <1>2, <3>2
      <4> HIDE DEF k
      <4>2. s[l + k] = y[k] /\ t[l + k] = w[k] /\ y[k] = w[k]
        BY <1>2, <2>1, <4>1
      <4> QED
        BY <4>1, <4>2
    <3> QED
      BY <1>2, <3>1, <3>2
  <2>6. Compare(s, t) = IF s[l + i] < t[l + i] THEN -1 ELSE 1
    <3> DEFINE k == l + i
    <3>1. k \in 1 .. Len(s) /\ s[k] # t[k] /\ \A j \in 1 .. (k - 1) : s[j] = t[j]
      BY <2>1, <2>3, <2>4, <2>5
    <3> HIDE DEF k
    <3>2. Compare(s, t) = IF s[k] < t[k] THEN -1 ELSE 1
      BY <1>2, <3>1, CompareAt
    <3> QED
      BY <3>2 DEF k
  <2>7. Compare(s, t) = Compare(y, w)
    BY <2>2, <2>4, <2>6
  <2>8. Compare(x, v) = 0
    BY <1>4, CompareEqual, Zenon
  <2> QED
    BY <2>7, <2>8, Zenon DEF Then, s, t
<1>5. CASE x = v /\ y = w
  <2>1. x \o y = v \o w
    BY <1>5
  <2>2. Compare(x \o y, v \o w) = 0 /\ Compare(x, v) = 0 /\ Compare(y, w) = 0
    BY <1>5, <2>1, CompareEqual, Zenon
  <2> QED
    BY <2>2, Zenon DEF Then
<1> QED
  BY <1>3, <1>4, <1>5

-----------------------------------------------------------------------------
\* The octets that stand for family, IP and port as numbers.
ByteRank(m) == <<m.family>> \o ip_bytes(m) \o to_be_bytes(port(m))

\* Which two addresses are the same, by their members.
Alike(m, n, x, y) == (m = n) <=> (x = y /\ m.port = n.port)

\* The order by rank is the order by IP, then by port.
LEMMA RankOrder ==
    ASSUME NEW m, NEW n, m.family = n.family, m.family \in Octet,
           m.port \in Word, n.port \in Word,
           port(m) = Value(m.port), port(n) = Value(n.port),
           NEW x \in Seq(Octet), NEW y \in Seq(Octet), Len(x) = Len(y),
           ip_bytes(m) = x, ip_bytes(n) = y
    PROVE  Compare(ByteRank(m), ByteRank(n)) = Then(Compare(x, y), Compare(m.port, n.port))
<1> DEFINE f == <<m.family>>
           p == m.port
           q == n.port
<1>1. to_be_bytes(port(m)) = p /\ to_be_bytes(port(n)) = q
  BY BytesPort, Zenon
<1>2. ByteRank(m) = (f \o x) \o p /\ ByteRank(n) = (f \o y) \o q
  BY <1>1, Zenon DEF ByteRank
<1>3. f \in Seq(Octet) /\ Len(f) = 1
  OBVIOUS
<1>4. p \in Seq(Octet) /\ q \in Seq(Octet) /\ Len(p) = Len(q)
  BY IpSeq, Zenon
<1> HIDE DEF f, p, q
<1>5. /\ f \o x \in Seq(Octet) /\ f \o y \in Seq(Octet)
      /\ Len(f \o x) = Len(f) + Len(x) /\ Len(f \o y) = Len(f) + Len(y)
  BY <1>3, ConcatProperties, Zenon
<1>6. Compare(ByteRank(m), ByteRank(n)) = Then(Compare(f \o x, f \o y), Compare(p, q))
  <2> DEFINE s == f \o x
             t == f \o y
  <2>1. s \in Seq(Octet) /\ t \in Seq(Octet) /\ Len(s) = Len(t)
    BY <1>5, Zenon
  <2> HIDE DEF s, t
  <2>2. Compare(s \o p, t \o q) = Then(Compare(s, t), Compare(p, q))
    BY <1>4, <2>1, CompareConcat
  <2> QED
    BY <1>2, <2>2, Zenon DEF s, t
<1>7. Compare(f \o x, f \o y) = Then(Compare(f, f), Compare(x, y))
  BY <1>3, CompareConcat
<1>8. Then(Compare(f, f), Compare(x, y)) = Compare(x, y)
  BY CompareEqual, Zenon DEF Then
<1> QED
  BY <1>6, <1>7, <1>8, Zenon DEF p, q

\* What cmp, eq, hash and key should tell of two addresses.
Agrees(m, n) ==
    /\ cmp(m, n) = IF m.family # n.family THEN Compare(<<m.family>>, <<n.family>>)
                   ELSE Compare(ByteRank(m), ByteRank(n))
    /\ eq(m, n) = (m = n)
    /\ (hash(m) = hash(n)) = (m = n)
    /\ m.family = n.family => (key(m) = key(n)) = (m = n)

\* No two octet sequences have the same native value.
LEMMA NativeInjective ==
    ASSUME NEW x \in Seq(Octet), NEW y \in Seq(Octet)
    PROVE  (Native(x) = Native(y)) <=> (x = y)
BY NativeTwice, Zenon

\* They tell two IPv4 addresses apart.
LEMMA Agree4 ==
    ASSUME NEW m, NEW n, Is4(m), Is4(n)
    PROVE  Agrees(m, n)
<1>0. AF_INET # AF_INET6 /\ AF_INET \in Octet
  BY SMT DEF AF_INET, AF_INET6, Octet
<1>1. /\ m.family = AF_INET /\ m.lo \in Seq(Octet) /\ Len(m.lo) = 4
      /\ m.port \in Word /\ m.port \in Seq(Octet)
      /\ port(m) = Value(m.port) /\ ip_bytes(m) = m.lo
  BY Members, Zenon
<1>2. /\ n.family = AF_INET /\ n.lo \in Seq(Octet) /\ Len(n.lo) = 4
      /\ n.port \in Word /\ n.port \in Seq(Octet)
      /\ port(n) = Value(n.port) /\ ip_bytes(n) = n.lo
  BY Members, Zenon
<1>3. Alike(m, n, m.lo, n.lo)
  BY Zenon DEF Is4, Alike
<1>4. /\ (Native(m.lo) = Native(n.lo)) <=> (m.lo = n.lo)
      /\ (Native(m.port) = Native(n.port)) <=> (m.port = n.port)
  BY <1>1, <1>2, NativeInjective, Zenon
<1>5. cmp(m, n) = Compare(ByteRank(m), ByteRank(n))
  <2>1. from_be(get_s_addr(m)) = m.lo /\ from_be(get_s_addr(n)) = n.lo
    BY <1>1, <1>2, NativeTwice, Zenon DEF from_be, get_s_addr
  <2>2. cmp(m, n) = Then(Compare(from_be(get_s_addr(m)), from_be(get_s_addr(n))),
                         Compare(m.port, n.port))
    BY <1>0, <1>1, <1>2, SMT DEF cmp
  <2>3. Compare(ByteRank(m), ByteRank(n)) = Then(Compare(m.lo, n.lo), Compare(m.port, n.port))
    BY <1>0, <1>1, <1>2, RankOrder, Zenon
  <2> QED
    BY <2>1, <2>2, <2>3, Zenon
<1>6. eq(m, n) <=> (m = n)
  BY <1>0, <1>1, <1>2, <1>3, <1>4, Zenon DEF eq, get_s_addr, Alike
<1>7. (hash(m) = hash(n)) <=> (m = n)
  <2>1. /\ hash(m) = <<AF_INET, Native(m.port), Native(m.lo)>>
        /\ hash(n) = <<AF_INET, Native(n.port), Native(n.lo)>>
    BY <1>0, <1>1, <1>2, SMT DEF hash, get_s_addr
  <2>2. (hash(m) = hash(n)) <=> (Native(m.port) = Native(n.port) /\ Native(m.lo) = Native(n.lo))
    BY <2>1, SMT
  <2> QED
    BY <1>3, <1>4, <2>1, <2>2, Zenon DEF Alike
<1>8. (key(m) = key(n)) <=> (m = n)
  <2> DEFINE z == Zeroes(12)
  <2>1. /\ key(m) = <<z \o Native(m.lo), Native(m.port)>>
        /\ key(n) = <<z \o Native(n.lo), Native(n.port)>>
    <3> HIDE DEF z
    <3>1. /\ key(m) = <<Zeroes(12) \o get_s_addr(m), Native(m.port)>>
          /\ key(n) = <<Zeroes(12) \o get_s_addr(n), Native(n.port)>>
      BY <1>0, <1>1, <1>2, SMT DEF key
    <3> QED
      BY <3>1, Zenon DEF get_s_addr, z
  <2>2. z \in Seq(Octet)
    <3>1. Zeroes(12) \in [1 .. 12 -> Octet] /\ 12 \in Nat
      BY SMT DEF Zeroes, Octet
    <3> QED
      BY <3>1, OctetsSeq, Zenon
  <2> HIDE DEF z
  <2>3. (z \o Native(m.lo) = z \o Native(n.lo)) <=> (Native(m.lo) = Native(n.lo))
    <3>1. Native(m.lo) \in Seq(Octet) /\ Native(n.lo) \in Seq(Octet)
      BY <1>1, <1>2, NativeTwice, Zenon
    <3>2. \A u, v, w \in Seq(Octet) : u \o v = u \o w => v = w
      BY ConcatSimplifications
    <3> QED
      BY <2>2, <3>1, <3>2, Zenon
  <2>4. (key(m) = key(n)) <=>
          (z \o Native(m.lo) = z \o Native(n.lo) /\ Native(m.port) = Native(n.port))
    <3> DEFINE a == z \o Native(m.lo)
               b == z \o Native(n.lo)
    <3>1. key(m) = <<a, Native(m.port)>> /\ key(n) = <<b, Native(n.port)>>
      BY <2>1, Zenon
    <3> HIDE DEF a, b
    <3>2. (key(m) = key(n)) <=> (a = b /\ Native(m.port) = Native(n.port))
      BY <3>1, SMT
    <3> QED
      BY <3>2, Zenon DEF a, b
  <2> QED
    BY <1>3, <1>4, <2>1, <2>3, <2>4, Zenon DEF Alike
<1> QED
  BY <1>1, <1>2, <1>5, <1>6, <1>7, <1>8 DEF Agrees, eq

\* And two IPv6 addresses.
LEMMA Agree6 ==
    ASSUME NEW m, NEW n, Is6(m), Is6(n)
    PROVE  Agrees(m, n)
<1>0. AF_INET # AF_INET6 /\ AF_INET6 \in Octet
  BY SMT DEF AF_INET, AF_INET6, Octet
<1>1. /\ m.family = AF_INET6 /\ m.hi \in Seq(Octet) /\ Len(m.hi) = 16
      /\ m.port \in Word /\ m.port \in Seq(Octet)
      /\ port(m) = Value(m.port) /\ ip_bytes(m) = m.hi
  BY Members, Zenon
<1>2. /\ n.family = AF_INET6 /\ n.hi \in Seq(Octet) /\ Len(n.hi) = 16
      /\ n.port \in Word /\ n.port \in Seq(Octet)
      /\ port(n) = Value(n.port) /\ ip_bytes(n) = n.hi
  BY Members, Zenon
<1>3. Alike(m, n, m.hi, n.hi)
  BY Zenon DEF Is6, Alike
<1>4. /\ (Native(m.hi) = Native(n.hi)) <=> (m.hi = n.hi)
      /\ (Native(m.port) = Native(n.port)) <=> (m.port = n.port)
  BY <1>1, <1>2, NativeInjective, Zenon
<1>5. cmp(m, n) = Compare(ByteRank(m), ByteRank(n))
  <2>2. cmp(m, n) = Then(Compare(m.hi, n.hi), Compare(m.port, n.port))
    BY <1>0, <1>1, <1>2, SMT DEF cmp
  <2>3. Compare(ByteRank(m), ByteRank(n)) = Then(Compare(m.hi, n.hi), Compare(m.port, n.port))
    BY <1>0, <1>1, <1>2, RankOrder, Zenon
  <2> QED
    BY <2>2, <2>3, Zenon
<1>6. eq(m, n) <=> (m = n)
  BY <1>0, <1>1, <1>2, <1>3, Zenon DEF eq, Alike
<1>7. (hash(m) = hash(n)) <=> (m = n)
  <2>1. /\ hash(m) = <<AF_INET6, Native(m.port), m.hi>>
        /\ hash(n) = <<AF_INET6, Native(n.port), n.hi>>
    BY <1>0, <1>1, <1>2, SMT DEF hash
  <2>2. (hash(m) = hash(n)) <=> (Native(m.port) = Native(n.port) /\ m.hi = n.hi)
    BY <2>1, SMT
  <2> QED
    BY <1>3, <1>4, <2>1, <2>2, Zenon DEF Alike
<1>8. (key(m) = key(n)) <=> (m = n)
  <2>1. key(m) = <<Native(m.hi), Native(m.port)>> /\ key(n) = <<Native(n.hi), Native(n.port)>>
    BY <1>0, <1>1, <1>2, SMT DEF key
  <2>2. (key(m) = key(n)) <=>
          (Native(m.hi) = Native(n.hi) /\ Native(m.port) = Native(n.port))
    BY <2>1, SMT
  <2> QED
    BY <1>3, <1>4, <2>2, Zenon DEF Alike
<1> QED
  BY <1>1, <1>2, <1>5, <1>6, <1>7, <1>8 DEF Agrees, eq

\* And two addresses of different families.
LEMMA AgreeApart ==
    ASSUME NEW m, NEW n, Proper(m), Proper(n), m.family # n.family
    PROVE  Agrees(m, n)
<1>1. m.family \in Octet /\ n.family \in Octet
  <2>1. 0 \in Octet /\ AF_INET \in Octet /\ AF_INET6 \in Octet
    BY SMT DEF AF_INET, AF_INET6, Octet
  <2> QED
    BY <2>1, Members, Zenon DEF Proper
<1>2. m # n
  OBVIOUS
<1>3. cmp(m, n) = IF m.family < n.family THEN -1 ELSE 1
  BY SMT DEF cmp
<1>4. Compare(<<m.family>>, <<n.family>>) = IF m.family < n.family THEN -1 ELSE 1
  <2> DEFINE x == <<m.family>>
             y == <<n.family>>
  <2>1. /\ x \in Seq(Octet) /\ y \in Seq(Octet) /\ Len(x) = Len(y) /\ 1 \in 1 .. Len(x)
        /\ x[1] = m.family /\ y[1] = n.family /\ \A j \in 1 .. (1 - 1) : x[j] = y[j]
    BY <1>1
  <2> HIDE DEF x, y
  <2>2. Compare(x, y) = IF x[1] < y[1] THEN -1 ELSE 1
    BY <2>1, CompareAt
  <2> QED
    BY <2>1, <2>2 DEF x, y
<1>5. ~eq(m, n)
  BY DEF eq
<1>6. hash(m) # hash(n)
  <2>1. \A k : hash(k)[1] = k.family
    BY SMT DEF hash
  <2> QED
    BY <2>1
<1>7. eq(m, n) = (m = n) /\ (hash(m) = hash(n)) = (m = n)
  BY <1>2, <1>5, <1>6 DEF eq
<1>8. cmp(m, n) = Compare(<<m.family>>, <<n.family>>)
  BY <1>3, <1>4
<1> QED
  BY <1>7, <1>8 DEF Agrees

\* And nil from itself.
LEMMA AgreeNil == Agrees(Nil, Nil)
<1>1. Nil.family = 0
  BY Members
<1>2. cmp(Nil, Nil) = 0
  BY <1>1, SMT DEF cmp, AF_INET, AF_INET6
<1>3. Compare(ByteRank(Nil), ByteRank(Nil)) = 0
  BY CompareEqual, Zenon
<1>4. eq(Nil, Nil)
  BY Zenon DEF eq
<1> QED
  BY <1>2, <1>3, <1>4 DEF Agrees

\* eq, hash and key agree on which addresses are the same, and cmp orders
\* them by family, IP and port as numbers, whatever the machine's byte order.
THEOREM IdentityAgrees == Spec => []IdentityConsistent
<1>1. InetInv => IdentityConsistent
  <2> SUFFICES ASSUME InetInv, NEW i \in DOMAIN unread
               PROVE  Agrees(addr, unread[i])
    BY Zenon DEF IdentityConsistent, Agrees, ByteRank
  <2>1. Proper(addr) /\ Proper(unread[i])
    <3>1. unread \in Seq(Memory) /\ \A k \in 1 .. Len(unread) : Proper(unread[k])
      BY DEF InetInv, StreamInv
    <3> QED
      BY <3>1, LenProperties DEF InetInv
  <2>2. CASE addr.family # unread[i].family
    BY <2>1, <2>2, AgreeApart
  <2>3. CASE addr.family = unread[i].family
    <3>1. 0 # AF_INET /\ 0 # AF_INET6 /\ AF_INET # AF_INET6
      BY SMT DEF AF_INET, AF_INET6
    <3>2. \/ addr = Nil /\ unread[i] = Nil
          \/ Is4(addr) /\ Is4(unread[i])
          \/ Is6(addr) /\ Is6(unread[i])
      BY <2>1, <2>3, <3>1, Members, Zenon DEF Proper
    <3> QED
      BY <3>2, Agree4, Agree6, AgreeNil, Zenon
  <2> QED
    BY <2>2, <2>3
<1> QED
  BY <1>1, InetInvariance, PTL
-----------------------------------------------------------------------------
\* Halving an octet n times takes its lowest bit off each time.
LEMMA Halves ==
    ASSUME NEW x \in Octet
    PROVE  /\ x = 2 * (x \div 2) + (x % 2) /\ x \div 2 = 2 * (x \div 4) + ((x \div 2) % 2)
           /\ x \div 4 = 2 * (x \div 8) + ((x \div 4) % 2)
           /\ x \div 8 = 2 * (x \div 16) + ((x \div 8) % 2)
           /\ x \div 16 = 2 * (x \div 32) + ((x \div 16) % 2)
           /\ x \div 32 = 2 * (x \div 64) + ((x \div 32) % 2)
           /\ x \div 64 = 2 * (x \div 128) + ((x \div 64) % 2)
           /\ x \div 128 = (x \div 128) % 2
<1>0. x \in Int /\ 0 <= x /\ x < 256
  BY DEF Octet
<1>1. x = 2 * (x \div 2) + (x % 2)
  BY <1>0
<1>2. x \div 2 = 2 * (x \div 4) + ((x \div 2) % 2)
  BY <1>0
<1>3. x \div 4 = 2 * (x \div 8) + ((x \div 4) % 2)
  BY <1>0
<1>4. x \div 8 = 2 * (x \div 16) + ((x \div 8) % 2)
  BY <1>0
<1>5. x \div 16 = 2 * (x \div 32) + ((x \div 16) % 2)
  BY <1>0
<1>6. x \div 32 = 2 * (x \div 64) + ((x \div 32) % 2)
  BY <1>0
<1>7. x \div 64 = 2 * (x \div 128) + ((x \div 64) % 2)
  BY <1>0
<1>8. x \div 128 = (x \div 128) % 2
  BY <1>0
<1> QED
  BY <1>1, <1>2, <1>3, <1>4, <1>5, <1>6, <1>7, <1>8

\* Bit k of an octet, from the right.
OctetBit(x, k) == (x \div 2 ^ k) % 2

\* An octet is its bits.
LEMMA OctetIsBits ==
    ASSUME NEW x \in Octet, NEW y \in Octet, \A k \in 0 .. 7 : OctetBit(x, k) = OctetBit(y, k)
    PROVE  x = y
<1>1. \A z \in Octet : /\ OctetBit(z, 0) = z % 2 /\ OctetBit(z, 1) = (z \div 2) % 2
                       /\ OctetBit(z, 2) = (z \div 4) % 2 /\ OctetBit(z, 3) = (z \div 8) % 2
                       /\ OctetBit(z, 4) = (z \div 16) % 2 /\ OctetBit(z, 5) = (z \div 32) % 2
                       /\ OctetBit(z, 6) = (z \div 64) % 2 /\ OctetBit(z, 7) = (z \div 128) % 2
  <2>1. /\ 2 ^ 0 = 1 /\ 2 ^ 1 = 2 /\ 2 ^ 2 = 4 /\ 2 ^ 3 = 8 /\ 2 ^ 4 = 16 /\ 2 ^ 5 = 32
        /\ 2 ^ 6 = 64 /\ 2 ^ 7 = 128
    OBVIOUS
  <2>2. \A z \in Octet : z \div 1 = z
    BY DEF Octet
  <2> QED
    BY <2>1, <2>2 DEF OctetBit
<1>2. \A k \in {0, 1, 2, 3, 4, 5, 6, 7} : OctetBit(x, k) = OctetBit(y, k)
  BY DEF Octet
<1>3. x \div 128 = y \div 128
  BY <1>1, <1>2, Halves
<1>4. x \div 64 = y \div 64
  BY <1>1, <1>2, <1>3, Halves
<1>5. x \div 32 = y \div 32
  BY <1>1, <1>2, <1>4, Halves
<1>6. x \div 16 = y \div 16
  BY <1>1, <1>2, <1>5, Halves
<1>7. x \div 8 = y \div 8
  BY <1>1, <1>2, <1>6, Halves
<1>8. x \div 4 = y \div 4
  BY <1>1, <1>2, <1>7, Halves
<1>9. x \div 2 = y \div 2
  BY <1>1, <1>2, <1>8, Halves
<1> QED
  BY <1>1, <1>2, <1>9, Halves

\* Where bit 8p + j of an IP address is.
LEMMA BitOf ==
    ASSUME NEW x \in Seq(Octet), NEW n \in Nat, Len(x) = n, NEW p \in Nat, NEW j \in 1 .. 8
    PROVE  Bit(x, 8 * p + j) = OctetBit(x[p + 1], 8 - j)
<1> DEFINE i == 8 * p + j
<1>1. (i + 7) \div 8 = p + 1
  OBVIOUS
<1>2. (8 * n - i) % 8 = 8 - j
  OBVIOUS
<1> HIDE DEF i
<1>3. Bit(x, i) = (x[p + 1] \div 2 ^ (8 - j)) % 2
  BY <1>1, <1>2 DEF Bit
<1> QED
  BY <1>3 DEF OctetBit, i
\* The first q octets are the same, and the first r bits of the next.
SameUpTo(x, y, q, r) ==
    /\ \A i \in 1 .. q : x[i] = y[i]
    /\ \A j \in 1 .. r : OctetBit(x[q + 1], 8 - j) = OctetBit(y[q + 1], 8 - j)

\* IPs of one length have the first 8q + r bits in common when they have the
\* first q octets in common, and the first r bits of the next.
LEMMA SameOctets ==
    ASSUME NEW n \in Nat, NEW x \in Seq(Octet), NEW y \in Seq(Octet), Len(x) = n, Len(y) = n,
           NEW q \in Nat, NEW r \in 0 .. 7, 8 * q + r <= 8 * n
    PROVE  SamePrefix(x, y, 8 * q + r) <=> SameUpTo(x, y, q, r)
<1> DEFINE bits == 8 * q + r
<1>1. \A i \in 1 .. n : x[i] \in Octet /\ y[i] \in Octet
  BY ElementOfSeq
<1>2. \A p \in Nat, j \in 1 .. 8 : /\ Bit(x, 8 * p + j) = OctetBit(x[p + 1], 8 - j)
                                   /\ Bit(y, 8 * p + j) = OctetBit(y[p + 1], 8 - j)
  BY BitOf
<1>3. ASSUME SamePrefix(x, y, bits), NEW i \in 1 .. q PROVE x[i] = y[i]
  <2> DEFINE p == i - 1
  <2>1. p \in Nat /\ p + 1 = i /\ i \in 1 .. n
    OBVIOUS
  <2>2. ASSUME NEW k \in 0 .. 7 PROVE OctetBit(x[i], k) = OctetBit(y[i], k)
    <3> DEFINE j == 8 - k
    <3>1. j \in 1 .. 8 /\ 8 - j = k /\ 8 * p + j \in 1 .. bits
      OBVIOUS
    <3> HIDE DEF j, p, bits
    <3>2. Bit(x, 8 * p + j) = Bit(y, 8 * p + j)
      BY <1>3, <3>1 DEF SamePrefix
    <3> QED
      BY <1>2, <2>1, <3>1, <3>2
  <2> QED
    BY <1>1, <2>1, <2>2, OctetIsBits
<1>4. ASSUME SamePrefix(x, y, bits), NEW j \in 1 .. r
      PROVE  OctetBit(x[q + 1], 8 - j) = OctetBit(y[q + 1], 8 - j)
  <2>1. j \in 1 .. 8 /\ 8 * q + j \in 1 .. bits
    OBVIOUS
  <2>2. Bit(x, 8 * q + j) = Bit(y, 8 * q + j)
    <3> HIDE DEF bits
    <3> QED
      BY <1>4, <2>1 DEF SamePrefix
  <2> QED
    BY <1>2, <2>1, <2>2
<1>5. ASSUME \A i \in 1 .. q : x[i] = y[i],
             \A j \in 1 .. r : OctetBit(x[q + 1], 8 - j) = OctetBit(y[q + 1], 8 - j),
             NEW t \in 1 .. bits
      PROVE  Bit(x, t) = Bit(y, t)
  <2> DEFINE p == (t - 1) \div 8
             j == ((t - 1) % 8) + 1
  <2>1. p \in Nat /\ j \in 1 .. 8 /\ t = 8 * p + j /\ p <= q
    <3>1. t - 1 \in Nat /\ t - 1 < 8 * q + 8
      OBVIOUS
    <3> DEFINE u == t - 1
    <3>2. u \div 8 \in Nat /\ u % 8 \in 0 .. 7 /\ u = 8 * (u \div 8) + (u % 8) /\ u \div 8 <= q
      <4> HIDE DEF u
      <4> QED
        BY <3>1 DEF u
    <3> QED
      BY <3>2
  <2> HIDE DEF p, j
  <2>2. Bit(x, t) = OctetBit(x[p + 1], 8 - j) /\ Bit(y, t) = OctetBit(y[p + 1], 8 - j)
    BY <1>2, <2>1
  <2>3. CASE p < q
    <3>1. p + 1 \in 1 .. q
      BY <2>1, <2>3
    <3> QED
      BY <1>5, <2>2, <3>1
  <2>4. CASE ~(p < q)
    <3>1. p = q /\ j \in 1 .. r
      BY <2>1, <2>4
    <3> QED
      BY <1>5, <2>2, <3>1
  <2> QED
    BY <2>3, <2>4
<1>6. SamePrefix(x, y, bits) <=> \A t \in 1 .. bits : Bit(x, t) = Bit(y, t)
  BY DEF SamePrefix
<1> HIDE DEF bits
<1>7. SamePrefix(x, y, bits) <=>
         /\ \A i \in 1 .. q : x[i] = y[i]
         /\ \A j \in 1 .. r : OctetBit(x[q + 1], 8 - j) = OctetBit(y[q + 1], 8 - j)
  BY <1>3, <1>4, <1>5, <1>6
<1> QED
  BY <1>7 DEF bits, SameUpTo

\* Words shifted to the right by less than their width are equal when the bits
\* that stay are.
LEMMA Shifts ==
    ASSUME NEW n \in Nat \ {0}, NEW x, NEW y, Len(x) = n, Len(y) = n,
           NEW d \in Nat, d < 8 * n
    PROVE  wrapping_shr(x, d) = wrapping_shr(y, d) <=> SamePrefix(x, y, 8 * n - d)
<1> DEFINE m == 8 * n - d
           f == [i \in 1 .. m |-> Bit(x, i)]
           g == [i \in 1 .. m |-> Bit(y, i)]
<1>1. d % (8 * n) = d
  <2> DEFINE w == 8 * n
  <2>1. w \in Nat \ {0} /\ d < w
    OBVIOUS
  <2> HIDE DEF w
  <2>2. d % w = d
    BY <2>1
  <2> QED
    BY <2>2 DEF w
<1>2. wrapping_shr(x, d) = f /\ wrapping_shr(y, d) = g
  BY <1>1 DEF wrapping_shr
<1> HIDE DEF m
<1>3. f = g <=> \A i \in 1 .. m : Bit(x, i) = Bit(y, i)
  <2>1. ASSUME f = g, NEW i \in 1 .. m PROVE Bit(x, i) = Bit(y, i)
    <3>1. f[i] = g[i]
      BY <2>1
    <3> QED
      BY <3>1
  <2> QED
    BY <2>1
<1> QED
  BY <1>2, <1>3 DEF SamePrefix, m

\* is_within compares IPv4 addresses by as many bits as the range's port says.
LEMMA WithinBits4 ==
    ASSUME NEW m, NEW c, Is4(m), Is4(c), port(c) # 0
    PROVE  Within4(m, c) <=> port(c) <= 32 /\ SamePrefix(m.lo, c.lo, port(c))
<1> DEFINE b == port(c)
           x == m.lo
           y == c.lo
           d == 32 - b
<1>1. /\ b \in U16 /\ x \in Seq(Octet) /\ y \in Seq(Octet) /\ Len(x) = 4 /\ Len(y) = 4
  BY Members, BytesPort
<1>2. from_be(get_s_addr(m)) = x /\ from_be(get_s_addr(c)) = y
  BY <1>1, NativeTwice DEF from_be, get_s_addr
<1>3. b \in Nat /\ b # 0
  <2>1. U16 \subseteq Nat
    BY U16Range
  <2> QED
    BY <1>1, <2>1, Zenon
<1>4. Within4(m, c) <=> d >= 0 /\ wrapping_shr(x, d) = wrapping_shr(y, d)
  BY <1>2 DEF Within4
<1> HIDE DEF b, x, y
<1>5. CASE b <= 32
  <2>1. d \in Nat /\ d < 8 * 4 /\ 8 * 4 - d = b /\ d >= 0
    BY <1>3, <1>5
  <2> HIDE DEF d
  <2>2. 4 \in Nat \ {0}
    OBVIOUS
  <2>3. wrapping_shr(x, d) = wrapping_shr(y, d) <=> SamePrefix(x, y, 8 * 4 - d)
    BY <1>1, <2>1, <2>2, Shifts, Zenon
  <2> QED
    BY <1>4, <1>5, <2>1, <2>3 DEF b, x, y
<1>6. CASE ~(b <= 32)
  <2>1. ~(d >= 0)
    BY <1>3, <1>6
  <2> QED
    BY <1>4, <1>6, <2>1 DEF b
<1> QED
  BY <1>5, <1>6

\* It compares IPv6 addresses so, unless the number of bits is that of whole
\* octets.
LEMMA WithinBits6 ==
    ASSUME NEW x \in Ip6, NEW y \in Ip6, NEW b \in U16, b % 8 # 0 \/ b > 128
    PROVE  Within6(x, y, b) = IF b <= 128 /\ SamePrefix(x, y, b) THEN "true" ELSE "false"
<1> DEFINE q == b \div 8
           r == b % 8
           d == 8 - r
<1>1. b \in Nat /\ x \in Seq(Octet) /\ y \in Seq(Octet) /\ Len(x) = 16 /\ Len(y) = 16
  BY IpSeq, U16Range
<1>2. CASE b > 128
  BY <1>1, <1>2 DEF Within6
<1>3. CASE ~(b > 128)
  <2>1. q \in 0 .. 15 /\ r \in 1 .. 7 /\ b = 8 * q + r /\ d \in 1 .. 7 /\ 8 * 1 - d = r /\ b <= 128
    BY <1>1, <1>3
  <2>2. Within6(x, y, b) =
          IF b > 128 \/ \E i \in 1 .. q : x[i] # y[i] THEN "false"
          ELSE IF q = 16 THEN "panic"
          ELSE IF wrapping_shr(<<x[q + 1]>>, d) = wrapping_shr(<<y[q + 1]>>, d) THEN "true"
          ELSE "false"
    BY DEF Within6
  <2> HIDE DEF q, r, d
  <2> DEFINE s == <<x[q + 1]>>
             t == <<y[q + 1]>>
  <2>3. s \in Seq(Octet) /\ t \in Seq(Octet) /\ Len(s) = 1 /\ Len(t) = 1
        /\ s[1] = x[q + 1] /\ t[1] = y[q + 1]
    <3>1. x[q + 1] \in Octet /\ y[q + 1] \in Octet
      BY <2>1 DEF Ip6
    <3> QED
      BY <3>1
  <2> HIDE DEF s, t
  <2>4. wrapping_shr(s, d) = wrapping_shr(t, d) <=> SamePrefix(s, t, 8 * 1 - d)
    <3>1. 1 \in Nat \ {0} /\ d \in Nat /\ d < 8 * 1
      BY <2>1
    <3> QED
      BY <2>3, <3>1, Shifts
  <2>5. SamePrefix(s, t, r) <=>
          \A j \in 1 .. r : OctetBit(x[q + 1], 8 - j) = OctetBit(y[q + 1], 8 - j)
    <3>1. 0 \in Nat /\ 1 \in Nat /\ r \in 0 .. 7 /\ 8 * 0 + r <= 8 * 1 /\ 8 * 0 + r = r /\ 0 + 1 = 1
      BY <2>1
    <3>2. SamePrefix(s, t, 8 * 0 + r) <=> SameUpTo(s, t, 0, r)
      BY <2>3, <3>1, SameOctets, Zenon
    <3>3. \A i \in 1 .. 0 : FALSE
      OBVIOUS
    <3>4. SameUpTo(s, t, 0, r) <=>
            \A j \in 1 .. r : OctetBit(s[1], 8 - j) = OctetBit(t[1], 8 - j)
      BY <3>1, <3>3 DEF SameUpTo
    <3> QED
      BY <2>3, <3>1, <3>2, <3>4
  <2>6. SamePrefix(x, y, b) <=>
          /\ \A i \in 1 .. q : x[i] = y[i]
          /\ \A j \in 1 .. r : OctetBit(x[q + 1], 8 - j) = OctetBit(y[q + 1], 8 - j)
    <3> DEFINE n == 16
    <3>1. /\ n \in Nat /\ q \in Nat /\ r \in 0 .. 7 /\ 8 * q + r <= 8 * n
          /\ Len(x) = n /\ Len(y) = n
      BY <1>1, <2>1
    <3> HIDE DEF n
    <3>2. SamePrefix(x, y, 8 * q + r) <=> SameUpTo(x, y, q, r)
      <4>1. x \in Seq(Octet) /\ y \in Seq(Octet)
        BY <1>1
      <4> QED
        BY <4>1, <3>1, SameOctets, Zenon
    <3> QED
      BY <2>1, <3>2 DEF SameUpTo
  <2>7. wrapping_shr(s, d) = wrapping_shr(t, d) <=> SamePrefix(s, t, r)
    BY <2>1, <2>4
  <2>8. q # 16 /\ ~(b > 128) /\ b <= 128
    BY <1>3, <2>1
  <2> QED
    BY <2>2, <2>5, <2>6, <2>7, <2>8 DEF s, t
<1> QED
  BY <1>2, <1>3

\* set_port gives a range the number of bits as its port, and keeps its IP.
LEMMA RangeOf ==
    ASSUME NEW c, Proper(c), NEW b \in U16
    PROVE  /\ Is4(c) => /\ Is4(set_port(c, b)) /\ port(set_port(c, b)) = b
                        /\ set_port(c, b).lo = c.lo
           /\ Is6(c) => /\ Is6(set_port(c, b)) /\ port(set_port(c, b)) = b
                        /\ set_port(c, b).hi = c.hi
           /\ set_port(c, b).family = c.family
<1> DEFINE w == to_be_bytes(b)
           a == set_port(c, b)
<1>1. w \in Word /\ Value(w) = b
  BY PortBytes
<1> HIDE DEF w
<1>2. \A ip, v : /\ Addr4(ip, v).lo = ip /\ Addr4(ip, v).port = v
                 /\ Addr6(ip, v).hi = ip /\ Addr6(ip, v).port = v
  BY SMT DEF Addr4, Addr6
<1>3. ASSUME Is4(c) PROVE Is4(a) /\ port(a) = b /\ a.lo = c.lo /\ a.family = c.family
  <2>1. a = Addr4(c.lo, w) /\ c.lo \in Ip4 /\ c.family = AF_INET
    BY <1>3, SetPortProper, Members, Zenon DEF w
  <2>2. Is4(a)
    <3>1. Is4(Addr4(c.lo, w))
      BY <1>1, <2>1, ProperMemory, Zenon
    <3> QED
      BY <2>1, <3>1, Zenon
  <2>3. a.lo = c.lo /\ a.port = w
    BY <1>2, <2>1
  <2> QED
    BY <1>1, <2>1, <2>2, <2>3, Members, Zenon
<1>4. ASSUME Is6(c) PROVE Is6(a) /\ port(a) = b /\ a.hi = c.hi /\ a.family = c.family
  <2>1. a = Addr6(c.hi, w) /\ c.hi \in Ip6 /\ c.family = AF_INET6
    BY <1>4, SetPortProper, Members, Zenon DEF w
  <2>2. Is6(a)
    <3>1. Is6(Addr6(c.hi, w))
      BY <1>1, <2>1, ProperMemory, Zenon
    <3> QED
      BY <2>1, <3>1, Zenon
  <2>3. a.hi = c.hi /\ a.port = w
    BY <1>2, <2>1
  <2> QED
    BY <1>1, <2>1, <2>2, <2>3, Members, Zenon
<1>5. ASSUME c = Nil PROVE a.family = c.family
  BY <1>5, Members, SMT DEF set_port, is_ip, AF_INET, AF_INET6
<1> QED
  BY <1>3, <1>4, <1>5 DEF Proper

\* What the documentation says of two addresses of one family, and of others.
LEMMA DocumentedIs ==
    ASSUME NEW m, NEW c, NEW b \in U16
    PROVE  /\ m.family # c.family \/ m = Nil => Documented(m, c, b) = "false"
           /\ Is4(m) /\ Is4(c) =>
                Documented(m, c, b) = IF b <= 32 /\ SamePrefix(m.lo, c.lo, b) THEN "true" ELSE "false"
           /\ Is6(m) /\ Is6(c) =>
                Documented(m, c, b) = IF b <= 128 /\ SamePrefix(m.hi, c.hi, b) THEN "true" ELSE "false"
<1> DEFINE in == /\ is_ip(m) /\ m.family = c.family
                 /\ b <= 8 * Len(ip_bytes(m))
                 /\ SamePrefix(ip_bytes(m), ip_bytes(c), b)
<1>1. Documented(m, c, b) = IF in THEN "true" ELSE "false"
  BY Zenon DEF Documented
<1>2. 0 # AF_INET /\ 0 # AF_INET6
  BY SMT DEF AF_INET, AF_INET6
<1>3. m.family # c.family \/ m = Nil => ~in
  BY <1>2, Members DEF is_ip
<1>4. ASSUME Is4(m), Is4(c) PROVE in <=> b <= 32 /\ SamePrefix(m.lo, c.lo, b)
  <2>1. /\ m.family = AF_INET /\ c.family = AF_INET
        /\ ip_bytes(m) = m.lo /\ ip_bytes(c) = c.lo /\ Len(m.lo) = 4
    BY <1>4, Members, Zenon
  <2>2. 8 * Len(m.lo) = 32 /\ is_ip(m)
    BY <2>1 DEF is_ip
  <2> QED
    BY <2>1, <2>2
<1>5. ASSUME Is6(m), Is6(c) PROVE in <=> b <= 128 /\ SamePrefix(m.hi, c.hi, b)
  <2>1. /\ m.family = AF_INET6 /\ c.family = AF_INET6
        /\ ip_bytes(m) = m.hi /\ ip_bytes(c) = c.hi /\ Len(m.hi) = 16
    BY <1>5, Members, Zenon
  <2>2. 8 * Len(m.hi) = 128 /\ is_ip(m)
    BY <2>1 DEF is_ip
  <2> QED
    BY <2>1, <2>2
<1> HIDE DEF in
<1> QED
  BY <1>1, <1>3, <1>4, <1>5, Zenon

\* Of two addresses that are proper, is_within tells whether they have the
\* range's prefix in common, as it read them.
LEMMA WithinPrefix ==
    ASSUME NEW m, NEW c, Proper(m), Proper(c), NEW b \in U16,
           ~(m.family = AF_INET /\ b = 0),
           ~(m.family = AF_INET6 /\ b % 8 = 0 /\ b <= 128)
    PROVE  WithinDocumented(m, c, b)
<1> DEFINE a == set_port(c, b)
           D == {Documented(x, y, b) : x \in AsRead(m), y \in AsRead(c)}
<1>1. a.family = c.family
  BY RangeOf
<1>2. 0 # AF_INET /\ 0 # AF_INET6 /\ AF_INET # AF_INET6
  BY SMT DEF AF_INET, AF_INET6
<1>3. SUFFICES is_within(m, a) = D
  BY DEF WithinDocumented
<1>8. \A z : z \in D <=> \E x \in AsRead(m), y \in AsRead(c) : z = Documented(x, y, b)
  OBVIOUS
<1> HIDE DEF a, D
<1>9. AsRead(m) = {m} /\ AsRead(c) = {c} => D = {Documented(m, c, b)}
  BY <1>8, Zenon
<1>4. CASE m.family # c.family
  <2>1. is_within(m, a) = {"false"}
    BY <1>1, <1>4, SMT DEF is_within
  <2>2. \A z \in {m, c} : AsRead(z) # {} /\ \A x \in AsRead(z) : x.family = z.family
    <3> SUFFICES ASSUME NEW z, Proper(z)
                 PROVE  AsRead(z) # {} /\ \A x \in AsRead(z) : x.family = z.family
      BY Zenon
    <3>1. CASE z = Nil \/ Is4(z)
      BY <3>1, ReadsAs, Zenon
    <3>2. CASE Is6(z)
      <4>1. AsRead(z) = {Addr6(x, z.port) : x \in get_s6_addr(z)}
        BY <3>2, ReadsAs, Zenon
      <4>2. z.hi \in get_s6_addr(z) /\ z.family = AF_INET6
        BY <3>2, Members, Zenon DEF get_s6_addr
      <4>3. \A x, w : Addr6(x, w).family = AF_INET6
        BY SMT DEF Addr6
      <4> QED
        BY <4>1, <4>2, <4>3, Zenon
    <3> QED
      BY <3>1, <3>2, Zenon DEF Proper
  <2>3. \A x \in AsRead(m), y \in AsRead(c) : Documented(x, y, b) = "false"
    <3> SUFFICES ASSUME NEW x \in AsRead(m), NEW y \in AsRead(c)
                 PROVE  Documented(x, y, b) = "false"
      OBVIOUS
    <3>1. x.family # y.family
      BY <1>4, <2>2, Zenon
    <3> QED
      BY <3>1, DocumentedIs, Zenon
  <2>4. D = {"false"}
    BY <1>8, <2>2, <2>3, Zenon
  <2> QED
    BY <2>1, <2>4, Zenon
<1>5. CASE m = Nil /\ c = Nil
  <2>1. m.family = 0 /\ a.family = 0
    BY <1>1, <1>5, Members
  <2>2. is_within(m, a) = {"false"}
    BY <1>2, <2>1 DEF is_within
  <2>3. AsRead(m) = {m} /\ AsRead(c) = {c} /\ Documented(m, c, b) = "false"
    BY <1>5, ReadsAs, DocumentedIs, Zenon
  <2>4. D = {"false"}
    BY <1>9, <2>3
  <2> QED
    BY <2>2, <2>4, Zenon
<1>6. CASE Is4(m) /\ Is4(c)
  <2>1. /\ Is4(a) /\ port(a) = b /\ a.lo = c.lo /\ a.family = AF_INET
        /\ m.family = AF_INET /\ b # 0
    BY <1>6, RangeOf, Members, Zenon DEF a
  <2>2. Within4(m, a) <=> b <= 32 /\ SamePrefix(m.lo, c.lo, b)
    BY <1>6, <2>1, WithinBits4
  <2>3. is_within(m, a) = {IF Within4(m, a) THEN "true" ELSE "false"}
    BY <1>2, <2>1 DEF is_within
  <2>4. Documented(m, c, b) = IF b <= 32 /\ SamePrefix(m.lo, c.lo, b) THEN "true" ELSE "false"
    BY <1>6, DocumentedIs, Zenon
  <2>5. is_within(m, a) = {Documented(m, c, b)}
    BY <2>2, <2>3, <2>4, Zenon
  <2>6. AsRead(m) = {m} /\ AsRead(c) = {c}
    BY <1>6, ReadsAs, Zenon
  <2>7. D = {Documented(m, c, b)}
    BY <1>9, <2>6
  <2> QED
    BY <2>5, <2>7, Zenon
<1>7. CASE Is6(m) /\ Is6(c)
  <2> DEFINE M == get_s6_addr(m)
             K == get_s6_addr(c)
             v == m.port
             w == c.port
  <2>1. /\ port(a) = b /\ a.hi = c.hi /\ a.family = AF_INET6 /\ m.family = AF_INET6
    BY <1>7, RangeOf, Members, Zenon DEF a
  <2>2. b % 8 # 0 \/ b > 128
    <3>1. b \in Nat
      BY U16Range
    <3>2. ~(b % 8 = 0 /\ b <= 128)
      BY <2>1
    <3> QED
      BY <3>1, <3>2
  <2>3. M \subseteq Ip6 /\ AsRead(m) = {Addr6(x, v) : x \in M} /\ \A x \in M : Is6(Addr6(x, v))
    BY <1>7, ReadsAs, Zenon
  <2>4. K \subseteq Ip6 /\ AsRead(c) = {Addr6(y, w) : y \in K} /\ \A y \in K : Is6(Addr6(y, w))
    BY <1>7, ReadsAs, Zenon
  <2>5. get_s6_addr(a) = K
    BY <2>1, Zenon DEF get_s6_addr
  <2>6. is_within(m, a) = {Within6(x, y, port(a)) : x \in M, y \in get_s6_addr(a)}
    BY <1>2, <2>1 DEF is_within
  <2> HIDE DEF M, K, v, w
  <2>7. \A z : z \in is_within(m, a) <=> \E x \in M, y \in K : z = Within6(x, y, b)
    BY <2>1, <2>5, <2>6
  <2>8. \A x, u : Addr6(x, u).hi = x
    BY SMT DEF Addr6
  <2>9. \A x \in M, y \in K : Within6(x, y, b) = Documented(Addr6(x, v), Addr6(y, w), b)
    <3> SUFFICES ASSUME NEW x \in M, NEW y \in K
                 PROVE  Within6(x, y, b) = Documented(Addr6(x, v), Addr6(y, w), b)
      OBVIOUS
    <3>1. x \in Ip6 /\ y \in Ip6 /\ Is6(Addr6(x, v)) /\ Is6(Addr6(y, w))
      BY <2>3, <2>4, Zenon
    <3>2. Within6(x, y, b) = IF b <= 128 /\ SamePrefix(x, y, b) THEN "true" ELSE "false"
      BY <2>2, <3>1, WithinBits6, Zenon
    <3>3. Documented(Addr6(x, v), Addr6(y, w), b) =
            IF b <= 128 /\ SamePrefix(Addr6(x, v).hi, Addr6(y, w).hi, b) THEN "true" ELSE "false"
      BY <3>1, DocumentedIs, Zenon
    <3>4. Addr6(x, v).hi = x /\ Addr6(y, w).hi = y
      BY <2>8, Zenon
    <3> QED
      BY <3>2, <3>3, <3>4
  <2>10. \A z : z \in D <=> \E x \in M, y \in K : z = Documented(Addr6(x, v), Addr6(y, w), b)
    <3>1. /\ \A u : u \in AsRead(m) <=> \E x \in M : u = Addr6(x, v)
          /\ \A u : u \in AsRead(c) <=> \E y \in K : u = Addr6(y, w)
      BY <2>3, <2>4
    <3>2. ASSUME NEW z \in D
          PROVE  \E x \in M, y \in K : z = Documented(Addr6(x, v), Addr6(y, w), b)
      <4>1. PICK f \in AsRead(m), g \in AsRead(c) : z = Documented(f, g, b)
        BY <1>8, Zenon
      <4>2. PICK x \in M : f = Addr6(x, v)
        BY <3>1, Zenon
      <4>3. PICK y \in K : g = Addr6(y, w)
        BY <3>1, Zenon
      <4> QED
        BY <4>1, <4>2, <4>3
    <3>3. ASSUME NEW x \in M, NEW y \in K
          PROVE  Documented(Addr6(x, v), Addr6(y, w), b) \in D
      <4>1. Addr6(x, v) \in AsRead(m) /\ Addr6(y, w) \in AsRead(c)
        BY <3>1, Zenon
      <4> QED
        BY <1>8, <4>1, Zenon
    <3> QED
      BY <3>2, <3>3
  <2>11. \A z : z \in is_within(m, a) <=> z \in D
    BY <2>7, <2>9, <2>10
  <2> QED
    BY <2>11, Zenon
<1> QED
  <2>1. \/ m.family # c.family
        \/ m = Nil /\ c = Nil
        \/ Is4(m) /\ Is4(c)
        \/ Is6(m) /\ Is6(c)
    BY <1>2, Members, Zenon DEF Proper
  <2> QED
    BY <1>4, <1>5, <1>6, <1>7, <2>1

\* is_within compares the prefix that the range's port says, on every two
\* addresses the program can hold and for every number of bits but those the
\* finding is about: of IPv4 addresses, and of the octets that get_s6_addr's
\* references led to for IPv6 ones, whatever these are.
THEOREM WithinComparesPrefix == Spec => []WithinCountsBits
<1>1. InetInv => WithinCountsBits
  <2> SUFFICES ASSUME InetInv, NEW i \in DOMAIN unread, NEW b \in PrefixBits,
                      ~(addr.family = AF_INET /\ b = 0),
                      ~(addr.family = AF_INET6 /\ b % 8 = 0 /\ b <= 128)
               PROVE  WithinDocumented(addr, unread[i], b)
    BY Zenon DEF WithinCountsBits
  <2>1. Proper(addr) /\ Proper(unread[i])
    <3>1. unread \in Seq(Memory) /\ \A k \in 1 .. Len(unread) : Proper(unread[k])
      BY DEF InetInv, StreamInv
    <3> QED
      BY <3>1, LenProperties DEF InetInv
  <2>2. b \in U16
    BY InetAssumption
  <2> QED
    BY <2>1, <2>2, WithinPrefix
<1> QED
  BY <1>1, InetInvariance, PTL
-----------------------------------------------------------------------------
\* The bits of an octet, one by one.
LEMMA OctetBits ==
    ASSUME NEW z \in Octet
    PROVE  /\ OctetBit(z, 1) = (z \div 2) % 2
           /\ OctetBit(z, 2) = (z \div 4) % 2 /\ OctetBit(z, 3) = (z \div 8) % 2
           /\ OctetBit(z, 4) = (z \div 16) % 2 /\ OctetBit(z, 5) = (z \div 32) % 2
           /\ OctetBit(z, 6) = (z \div 64) % 2 /\ OctetBit(z, 7) = (z \div 128) % 2
<1>1. /\ 2 ^ 1 = 2 /\ 2 ^ 2 = 4 /\ 2 ^ 3 = 8 /\ 2 ^ 4 = 16 /\ 2 ^ 5 = 32
      /\ 2 ^ 6 = 64 /\ 2 ^ 7 = 128
  OBVIOUS
<1> QED
  BY <1>1 DEF OctetBit

\* The first r bits of two octets are the same.
SameTop(x, y, r) == \A j \in 1 .. r : OctetBit(x, 8 - j) = OctetBit(y, 8 - j)

\* The bits at the top are what remains of an octet without the others.
LEMMA SameTops ==
    ASSUME NEW x \in Octet, NEW y \in Octet
    PROVE  /\ SameTop(x, y, 2) <=> x \div 64 = y \div 64
           /\ SameTop(x, y, 4) <=> x \div 16 = y \div 16
           /\ SameTop(x, y, 7) <=> x \div 2 = y \div 2
<1> DEFINE Eq(k) == OctetBit(x, k) = OctetBit(y, k)
<1>1. /\ SameTop(x, y, 2) <=> Eq(7) /\ Eq(6)
      /\ SameTop(x, y, 4) <=> Eq(7) /\ Eq(6) /\ Eq(5) /\ Eq(4)
      /\ SameTop(x, y, 7) <=> Eq(7) /\ Eq(6) /\ Eq(5) /\ Eq(4) /\ Eq(3) /\ Eq(2) /\ Eq(1)
  <2>1. /\ \A j \in 1 .. 2 : j = 1 \/ j = 2
        /\ \A j \in 1 .. 4 : j = 1 \/ j = 2 \/ j = 3 \/ j = 4
        /\ \A j \in 1 .. 7 : j = 1 \/ j = 2 \/ j = 3 \/ j = 4 \/ j = 5 \/ j = 6 \/ j = 7
    OBVIOUS
  <2>2. /\ 8 - 1 = 7 /\ 8 - 2 = 6 /\ 8 - 3 = 5 /\ 8 - 4 = 4 /\ 8 - 5 = 3 /\ 8 - 6 = 2 /\ 8 - 7 = 1
    OBVIOUS
  <2> QED
    BY <2>1, <2>2 DEF SameTop
<1>2. /\ x \div 128 = y \div 128 <=> Eq(7)
      /\ x \div 64 = y \div 64 <=> x \div 128 = y \div 128 /\ Eq(6)
      /\ x \div 32 = y \div 32 <=> x \div 64 = y \div 64 /\ Eq(5)
      /\ x \div 16 = y \div 16 <=> x \div 32 = y \div 32 /\ Eq(4)
      /\ x \div 8 = y \div 8 <=> x \div 16 = y \div 16 /\ Eq(3)
      /\ x \div 4 = y \div 4 <=> x \div 8 = y \div 8 /\ Eq(2)
      /\ x \div 2 = y \div 2 <=> x \div 4 = y \div 4 /\ Eq(1)
  <2>1. \A a \in Int : a \div 128 = (a \div 64) \div 2 /\ a \div 64 = (a \div 32) \div 2
                       /\ a \div 32 = (a \div 16) \div 2 /\ a \div 16 = (a \div 8) \div 2
                       /\ a \div 8 = (a \div 4) \div 2 /\ a \div 4 = (a \div 2) \div 2
    OBVIOUS
  <2>2. x \in Int /\ y \in Int
    BY DEF Octet
  <2> QED
    BY <2>1, <2>2, OctetBits, Halves
<1> QED
  BY <1>1, <1>2, Zenon

\* Prefixes of the lengths that the ranges of scope have.
LEMMA RangePrefixes ==
    ASSUME NEW n \in Nat, n >= 3, NEW x \in Seq(Octet), NEW y \in Seq(Octet), Len(x) = n, Len(y) = n
    PROVE  /\ SamePrefix(x, y, 4) <=> x[1] \div 16 = y[1] \div 16
           /\ SamePrefix(x, y, 7) <=> x[1] \div 2 = y[1] \div 2
           /\ SamePrefix(x, y, 8) <=> x[1] = y[1]
           /\ SamePrefix(x, y, 10) <=> x[1] = y[1] /\ x[2] \div 64 = y[2] \div 64
           /\ SamePrefix(x, y, 12) <=> x[1] = y[1] /\ x[2] \div 16 = y[2] \div 16
           /\ SamePrefix(x, y, 15) <=> x[1] = y[1] /\ x[2] \div 2 = y[2] \div 2
           /\ SamePrefix(x, y, 16) <=> x[1] = y[1] /\ x[2] = y[2]
           /\ SamePrefix(x, y, 24) <=> x[1] = y[1] /\ x[2] = y[2] /\ x[3] = y[3]
<1>1. /\ x[1] \in Octet /\ x[2] \in Octet /\ y[1] \in Octet /\ y[2] \in Octet
  <2>1. 1 \in 1 .. n /\ 2 \in 1 .. n
    OBVIOUS
  <2> QED
    BY <2>1, ElementOfSeq
<1>2. ASSUME NEW q \in Nat, NEW r \in 0 .. 7, 8 * q + r <= 8 * n
      PROVE  SamePrefix(x, y, 8 * q + r) <=>
               (\A i \in 1 .. q : x[i] = y[i]) /\ SameTop(x[q + 1], y[q + 1], r)
  <2>1. SamePrefix(x, y, 8 * q + r) <=> SameUpTo(x, y, q, r)
    BY <1>2, SameOctets
  <2>2. SameUpTo(x, y, q, r) <=>
          (\A i \in 1 .. q : x[i] = y[i]) /\ SameTop(x[q + 1], y[q + 1], r)
    BY Zenon DEF SameUpTo, SameTop
  <2> QED
    BY <2>1, <2>2, Zenon
<1> DEFINE P(q, r, b) == q \in Nat /\ r \in 0 .. 7 /\ 8 * q + r <= 8 * n /\ 8 * q + r = b
<1>3. /\ P(0, 4, 4) /\ P(0, 7, 7) /\ P(1, 0, 8) /\ P(1, 2, 10) /\ P(1, 4, 12) /\ P(1, 7, 15)
      /\ P(2, 0, 16) /\ P(3, 0, 24)
  OBVIOUS
<1>4. /\ \A i \in 1 .. 0 : FALSE
      /\ \A i : i \in 1 .. 1 <=> i = 1
      /\ \A i : i \in 1 .. 2 <=> i = 1 \/ i = 2
      /\ \A i : i \in 1 .. 3 <=> i = 1 \/ i = 2 \/ i = 3
      /\ 0 + 1 = 1 /\ 1 + 1 = 2
  OBVIOUS
<1>5. \A u, v : SameTop(u, v, 0)
  BY <1>4, Zenon DEF SameTop
<1>6. ASSUME NEW q, NEW r, NEW b, P(q, r, b)
      PROVE  SamePrefix(x, y, b) <=> (\A i \in 1 .. q : x[i] = y[i]) /\ SameTop(x[q + 1], y[q + 1], r)
  BY <1>2, <1>6, Zenon
<1>7. /\ SamePrefix(x, y, 4) <=> SameTop(x[1], y[1], 4)
      /\ SamePrefix(x, y, 7) <=> SameTop(x[1], y[1], 7)
  <2>1. /\ SamePrefix(x, y, 4) <=> (\A i \in 1 .. 0 : x[i] = y[i]) /\ SameTop(x[0 + 1], y[0 + 1], 4)
        /\ SamePrefix(x, y, 7) <=> (\A i \in 1 .. 0 : x[i] = y[i]) /\ SameTop(x[0 + 1], y[0 + 1], 7)
    BY <1>3, <1>6, Zenon
  <2> QED
    BY <1>4, <2>1, Zenon
<1>8. /\ SamePrefix(x, y, 8) <=> x[1] = y[1]
      /\ SamePrefix(x, y, 10) <=> x[1] = y[1] /\ SameTop(x[2], y[2], 2)
      /\ SamePrefix(x, y, 12) <=> x[1] = y[1] /\ SameTop(x[2], y[2], 4)
      /\ SamePrefix(x, y, 15) <=> x[1] = y[1] /\ SameTop(x[2], y[2], 7)
  <2>1. \A r, b : P(1, r, b) =>
          (SamePrefix(x, y, b) <=> (\A i \in 1 .. 1 : x[i] = y[i]) /\ SameTop(x[1 + 1], y[1 + 1], r))
    BY <1>6, Zenon
  <2>2. (\A i \in 1 .. 1 : x[i] = y[i]) <=> x[1] = y[1]
    BY <1>4, Zenon
  <2> QED
    BY <1>3, <1>4, <1>5, <2>1, <2>2, Zenon
<1>9. SamePrefix(x, y, 16) <=> x[1] = y[1] /\ x[2] = y[2]
  <2>1. SamePrefix(x, y, 16) <=> (\A i \in 1 .. 2 : x[i] = y[i]) /\ SameTop(x[2 + 1], y[2 + 1], 0)
    BY <1>3, <1>6, Zenon
  <2>2. (\A i \in 1 .. 2 : x[i] = y[i]) <=> x[1] = y[1] /\ x[2] = y[2]
    BY <1>4, Zenon
  <2> QED
    BY <1>5, <2>1, <2>2, Zenon
<1>10. SamePrefix(x, y, 24) <=> x[1] = y[1] /\ x[2] = y[2] /\ x[3] = y[3]
  <2>1. SamePrefix(x, y, 24) <=> (\A i \in 1 .. 3 : x[i] = y[i]) /\ SameTop(x[3 + 1], y[3 + 1], 0)
    BY <1>3, <1>6, Zenon
  <2>2. (\A i \in 1 .. 3 : x[i] = y[i]) <=> x[1] = y[1] /\ x[2] = y[2] /\ x[3] = y[3]
    BY <1>4, Zenon
  <2> QED
    BY <1>5, <2>1, <2>2, Zenon
<1> QED
  BY <1>1, <1>7, <1>8, <1>9, <1>10, SameTops, Zenon

\* The class of the first range in the table that an IP is in.
ClassIn(R, ip) ==
    LET i == SelectInSeq(R, LAMBDA r : SamePrefix(ip, r[1], r[2]))
    IN  IF i = 0 THEN "Global" ELSE R[i][3]

\* The IP has the prefix of the range.
InRange(ip, r) == SamePrefix(ip, r[1], r[2])

\* It is that of range k when the IP is in it and in none before it, and
\* global when it is in none.
LEMMA FirstRange ==
    ASSUME NEW R, Len(R) \in Nat, NEW ip
    PROVE  /\ \A k \in 1 .. Len(R) :
                InRange(ip, R[k]) /\ (\A j \in 1 .. Len(R) : j < k => ~InRange(ip, R[j])) =>
                    ClassIn(R, ip) = R[k][3]
           /\ (\A j \in 1 .. Len(R) : ~InRange(ip, R[j])) => ClassIn(R, ip) = "Global"
<1> DEFINE Q == {i \in 1 .. Len(R) : InRange(ip, R[i])}
           s == IF Q # {} THEN Min(Q) ELSE 0
<1>1. ClassIn(R, ip) = IF s = 0 THEN "Global" ELSE R[s][3]
  BY DEF ClassIn, SelectInSeq, InRange
<1>2. ASSUME NEW k \in 1 .. Len(R), InRange(ip, R[k]),
             \A j \in 1 .. Len(R) : j < k => ~InRange(ip, R[j])
      PROVE  ClassIn(R, ip) = R[k][3]
  <2>1. k \in Q /\ \A j \in Q : k <= j
    BY <1>2
  <2>2. Q \subseteq Int /\ Q # {}
    BY <2>1
  <2> HIDE DEF Q
  <2>3. Min(Q) = k
    <3>1. \A x \in Q : (\A y \in Q : x <= y) => x = k
      BY <2>1, <2>2
    <3> QED
      BY <2>1, <3>1, Zenon DEF Min
  <2>4. s = k /\ k # 0
    BY <2>2, <2>3
  <2> QED
    BY <1>1, <2>4
<1>3. ASSUME \A j \in 1 .. Len(R) : ~InRange(ip, R[j]) PROVE ClassIn(R, ip) = "Global"
  <2>1. Q = {}
    BY <1>3, Zenon
  <2> HIDE DEF Q
  <2> QED
    BY <1>1, <2>1
<1> QED
  BY <1>2, <1>3

\* The nets of the last rows of the table.
Nets == <<6, 21, 22, 25, 26, 28, 29, 30, 51, 55, 56>>
Head4 == <<
             <<<<0, 0, 0, 0>>, 8, "None">>,
             <<<<255, 0, 0, 0>>, 8, "None">>,
             <<<<10, 0, 0, 0>>, 8, "Private">>,
             <<<<127, 0, 0, 0>>, 8, "Loopback">>,
             <<<<100, 64, 0, 0>>, 10, "Private">>,
             <<<<169, 254, 0, 0>>, 16, "LinkLocal">>,
             <<<<172, 16, 0, 0>>, 12, "Private">>,
             <<<<192, 168, 0, 0>>, 16, "Private">>,
             <<<<192, 0, 2, 0>>, 24, "Private">>,
             <<<<198, 18, 0, 0>>, 15, "Private">>,
             <<<<198, 51, 100, 0>>, 24, "Private">>,
             <<<<203, 0, 113, 0>>, 24, "Private">>,
             <<<<224, 0, 0, 0>>, 4, "Multicast">>,
             <<<<240, 0, 0, 0>>, 4, "Private">> >>
Tail4 == [i \in DOMAIN Nets |-> <<<<Nets[i], 0, 0, 0>>, 8, "PseudoPrivate">>]

\* Row k of the table has this range and this class.
Row(k, a, b, c, n, v) ==
    a \in Octet /\ b \in Octet /\ c \in Octet /\ Ranges4[k] = <<<<a, b, c, 0>>, n, v>>

\* The table of IPv4 ranges, row by row.
LEMMA Table4 ==
    /\ Len(Ranges4) = 25
    /\ Row(1, 0, 0, 0, 8, "None")
    /\ Row(2, 255, 0, 0, 8, "None")
    /\ Row(3, 10, 0, 0, 8, "Private")
    /\ Row(4, 127, 0, 0, 8, "Loopback")
    /\ Row(5, 100, 64, 0, 10, "Private")
    /\ Row(6, 169, 254, 0, 16, "LinkLocal")
    /\ Row(7, 172, 16, 0, 12, "Private")
    /\ Row(8, 192, 168, 0, 16, "Private")
    /\ Row(9, 192, 0, 2, 24, "Private")
    /\ Row(10, 198, 18, 0, 15, "Private")
    /\ Row(11, 198, 51, 100, 24, "Private")
    /\ Row(12, 203, 0, 113, 24, "Private")
    /\ Row(13, 224, 0, 0, 4, "Multicast")
    /\ Row(14, 240, 0, 0, 4, "Private")
    /\ \A i \in 1 .. 11 : Row(14 + i, Nets[i], 0, 0, 8, "PseudoPrivate")
<1>1. Ranges4 = Head4 \o Tail4
  BY Zenon DEF Ranges4, Head4, Tail4, Nets
<1>2. Len(Nets) = 11 /\ DOMAIN Nets = 1 .. 11 /\ Nets \in Seq(Octet)
  BY DEF Nets, Octet
<1>3. DOMAIN Tail4 = 1 .. 11 /\ Tail4 \in Seq({Tail4[i] : i \in 1 .. 11}) /\ Len(Tail4) = 11
  BY <1>2 DEF Tail4
<1>4. Len(Head4) = 14 /\ Head4 \in Seq({Head4[i] : i \in 1 .. 14})
  BY DEF Head4
<1>5. /\ Len(Ranges4) = 25 /\ \A i \in 1 .. 14 : Ranges4[i] = Head4[i]
      /\ \A i \in 1 .. 11 : Ranges4[14 + i] = Tail4[i]
  <2> DEFINE S == {Tail4[i] : i \in 1 .. 11} \cup {Head4[i] : i \in 1 .. 14}
  <2>1. Tail4 \in Seq(S) /\ Head4 \in Seq(S)
    BY <1>3, <1>4, SeqMonotonic
  <2> HIDE DEF S
  <2>2. ASSUME NEW h \in Seq(S), NEW t \in Seq(S), Len(h) = 14, Len(t) = 11
        PROVE  /\ Len(h \o t) = 25 /\ \A i \in 1 .. 14 : (h \o t)[i] = h[i]
               /\ \A i \in 1 .. 11 : (h \o t)[14 + i] = t[i]
    <3>0. /\ Len(h \o t) = Len(h) + Len(t)
          /\ \A i \in 1 .. Len(h) + Len(t) : (h \o t)[i] = IF i <= Len(h) THEN h[i] ELSE t[i - Len(h)]
      BY ConcatProperties, Zenon
    <3>1. /\ Len(h \o t) = 14 + 11
          /\ \A i \in 1 .. (14 + 11) : (h \o t)[i] = IF i <= 14 THEN h[i] ELSE t[i - 14]
      BY <2>2, <3>0, Zenon
    <3>2. \A i \in 1 .. 14 : i \in 1 .. (14 + 11) /\ i <= 14
      OBVIOUS
    <3>3. \A i \in 1 .. 11 : 14 + i \in 1 .. (14 + 11) /\ ~(14 + i <= 14) /\ (14 + i) - 14 = i
      OBVIOUS
    <3>4. \A i \in 1 .. 11 : (h \o t)[14 + i] = t[(14 + i) - 14]
      BY <3>1, <3>3, Zenon
    <3>5. 14 + 11 = 25
      OBVIOUS
    <3>6. \A i \in 1 .. 14 : (h \o t)[i] = h[i]
      BY <3>1, <3>2, Zenon
    <3>7. \A i \in 1 .. 11 : (h \o t)[14 + i] = t[i]
      <4>1. ASSUME NEW i \in 1 .. 11 PROVE (h \o t)[14 + i] = t[i]
        <5>1. (14 + i) - 14 = i
          BY <3>3, Zenon
        <5> QED
          BY <3>4, <5>1, Zenon
      <4> QED
        BY <4>1, Zenon
    <3>8. Len(h \o t) = 25
      BY <3>1, <3>5, Zenon
    <3> QED
      BY <3>6, <3>7, <3>8, Zenon
  <2> DEFINE hd == Head4
             tl == Tail4
  <2>3. hd \in Seq(S) /\ tl \in Seq(S) /\ Len(hd) = 14 /\ Len(tl) = 11
    BY <1>3, <1>4, <2>1
  <2> HIDE DEF hd, tl
  <2>4. /\ Len(hd \o tl) = 25 /\ \A i \in 1 .. 14 : (hd \o tl)[i] = hd[i]
        /\ \A i \in 1 .. 11 : (hd \o tl)[14 + i] = tl[i]
    BY <2>2, <2>3
  <2>5. Ranges4 = hd \o tl
    BY <1>1 DEF hd, tl
  <2> QED
    BY <2>4, <2>5 DEF hd, tl
<1>11. Row(1, 0, 0, 0, 8, "None")
  <2>1. Head4[1] = <<<<0, 0, 0, 0>>, 8, "None">> /\ 1 \in 1 .. 14
    BY DEF Head4
  <2>2. 0 \in Octet /\ 0 \in Octet /\ 0 \in Octet
    BY DEF Octet
  <2> QED
    BY <1>5, <2>1, <2>2 DEF Row
<1>12. Row(2, 255, 0, 0, 8, "None")
  <2>1. Head4[2] = <<<<255, 0, 0, 0>>, 8, "None">> /\ 2 \in 1 .. 14
    BY DEF Head4
  <2>2. 255 \in Octet /\ 0 \in Octet /\ 0 \in Octet
    BY DEF Octet
  <2> QED
    BY <1>5, <2>1, <2>2 DEF Row
<1>13. Row(3, 10, 0, 0, 8, "Private")
  <2>1. Head4[3] = <<<<10, 0, 0, 0>>, 8, "Private">> /\ 3 \in 1 .. 14
    BY DEF Head4
  <2>2. 10 \in Octet /\ 0 \in Octet /\ 0 \in Octet
    BY DEF Octet
  <2> QED
    BY <1>5, <2>1, <2>2 DEF Row
<1>14. Row(4, 127, 0, 0, 8, "Loopback")
  <2>1. Head4[4] = <<<<127, 0, 0, 0>>, 8, "Loopback">> /\ 4 \in 1 .. 14
    BY DEF Head4
  <2>2. 127 \in Octet /\ 0 \in Octet /\ 0 \in Octet
    BY DEF Octet
  <2> QED
    BY <1>5, <2>1, <2>2 DEF Row
<1>15. Row(5, 100, 64, 0, 10, "Private")
  <2>1. Head4[5] = <<<<100, 64, 0, 0>>, 10, "Private">> /\ 5 \in 1 .. 14
    BY DEF Head4
  <2>2. 100 \in Octet /\ 64 \in Octet /\ 0 \in Octet
    BY DEF Octet
  <2> QED
    BY <1>5, <2>1, <2>2 DEF Row
<1>16. Row(6, 169, 254, 0, 16, "LinkLocal")
  <2>1. Head4[6] = <<<<169, 254, 0, 0>>, 16, "LinkLocal">> /\ 6 \in 1 .. 14
    BY DEF Head4
  <2>2. 169 \in Octet /\ 254 \in Octet /\ 0 \in Octet
    BY DEF Octet
  <2> QED
    BY <1>5, <2>1, <2>2 DEF Row
<1>17. Row(7, 172, 16, 0, 12, "Private")
  <2>1. Head4[7] = <<<<172, 16, 0, 0>>, 12, "Private">> /\ 7 \in 1 .. 14
    BY DEF Head4
  <2>2. 172 \in Octet /\ 16 \in Octet /\ 0 \in Octet
    BY DEF Octet
  <2> QED
    BY <1>5, <2>1, <2>2 DEF Row
<1>18. Row(8, 192, 168, 0, 16, "Private")
  <2>1. Head4[8] = <<<<192, 168, 0, 0>>, 16, "Private">> /\ 8 \in 1 .. 14
    BY DEF Head4
  <2>2. 192 \in Octet /\ 168 \in Octet /\ 0 \in Octet
    BY DEF Octet
  <2> QED
    BY <1>5, <2>1, <2>2 DEF Row
<1>19. Row(9, 192, 0, 2, 24, "Private")
  <2>1. Head4[9] = <<<<192, 0, 2, 0>>, 24, "Private">> /\ 9 \in 1 .. 14
    BY DEF Head4
  <2>2. 192 \in Octet /\ 0 \in Octet /\ 2 \in Octet
    BY DEF Octet
  <2> QED
    BY <1>5, <2>1, <2>2 DEF Row
<1>20. Row(10, 198, 18, 0, 15, "Private")
  <2>1. Head4[10] = <<<<198, 18, 0, 0>>, 15, "Private">> /\ 10 \in 1 .. 14
    BY DEF Head4
  <2>2. 198 \in Octet /\ 18 \in Octet /\ 0 \in Octet
    BY DEF Octet
  <2> QED
    BY <1>5, <2>1, <2>2 DEF Row
<1>21. Row(11, 198, 51, 100, 24, "Private")
  <2>1. Head4[11] = <<<<198, 51, 100, 0>>, 24, "Private">> /\ 11 \in 1 .. 14
    BY DEF Head4
  <2>2. 198 \in Octet /\ 51 \in Octet /\ 100 \in Octet
    BY DEF Octet
  <2> QED
    BY <1>5, <2>1, <2>2 DEF Row
<1>22. Row(12, 203, 0, 113, 24, "Private")
  <2>1. Head4[12] = <<<<203, 0, 113, 0>>, 24, "Private">> /\ 12 \in 1 .. 14
    BY DEF Head4
  <2>2. 203 \in Octet /\ 0 \in Octet /\ 113 \in Octet
    BY DEF Octet
  <2> QED
    BY <1>5, <2>1, <2>2 DEF Row
<1>23. Row(13, 224, 0, 0, 4, "Multicast")
  <2>1. Head4[13] = <<<<224, 0, 0, 0>>, 4, "Multicast">> /\ 13 \in 1 .. 14
    BY DEF Head4
  <2>2. 224 \in Octet /\ 0 \in Octet /\ 0 \in Octet
    BY DEF Octet
  <2> QED
    BY <1>5, <2>1, <2>2 DEF Row
<1>24. Row(14, 240, 0, 0, 4, "Private")
  <2>1. Head4[14] = <<<<240, 0, 0, 0>>, 4, "Private">> /\ 14 \in 1 .. 14
    BY DEF Head4
  <2>2. 240 \in Octet /\ 0 \in Octet /\ 0 \in Octet
    BY DEF Octet
  <2> QED
    BY <1>5, <2>1, <2>2 DEF Row
<1>25. \A i \in 1 .. 11 : Row(14 + i, Nets[i], 0, 0, 8, "PseudoPrivate")
  <2>1. \A i \in 1 .. 11 : Tail4[i] = <<<<Nets[i], 0, 0, 0>>, 8, "PseudoPrivate">>
    BY <1>2, Zenon DEF Tail4
  <2>2. 0 \in Octet /\ \A i \in 1 .. 11 : Nets[i] \in Octet
    <3>1. 0 \in Octet
      BY DEF Octet
    <3> QED
      BY <1>2, <3>1, ElementOfSeq
  <2> QED
    BY <1>5, <2>1, <2>2, Zenon DEF Row
<1> QED
  BY <1>5, <1>11, <1>12, <1>13, <1>14, <1>15, <1>16, <1>17, <1>18, <1>19, <1>20, <1>21, <1>22,
     <1>23, <1>24, <1>25

\* To be in the range of row k is to have the first n bits in common with it.
RowMeans(ip, k, a, b, c, n) ==
    \E y \in Seq(Octet) : /\ Len(y) = 4 /\ y[1] = a /\ y[2] = b /\ y[3] = c
                          /\ InRange(ip, Ranges4[k]) <=> SamePrefix(ip, y, n)

\* What it takes to be in the range of a row.
LEMMA RowIs ==
    ASSUME NEW ip \in Ip4, NEW k, NEW a, NEW b, NEW c, NEW n, NEW v, Row(k, a, b, c, n, v)
    PROVE  Ranges4[k][3] = v /\ RowMeans(ip, k, a, b, c, n)
<1> DEFINE y == <<a, b, c, 0>>
<1>1. y \in Seq(Octet) /\ Len(y) = 4 /\ y[1] = a /\ y[2] = b /\ y[3] = c
  <2>1. 0 \in Octet /\ a \in Octet /\ b \in Octet /\ c \in Octet
    BY DEF Octet, Row
  <2> QED
    BY <2>1
<1> HIDE DEF y
<1>2. Ranges4[k] = <<y, n, v>>
  BY Zenon DEF Row, y
<1>3. Ranges4[k][1] = y /\ Ranges4[k][2] = n /\ Ranges4[k][3] = v
  BY <1>2
<1>4. InRange(ip, Ranges4[k]) <=> SamePrefix(ip, y, n)
  BY <1>3, Zenon DEF InRange
<1> QED
  BY <1>1, <1>3, <1>4, Zenon DEF RowMeans

\* The same for a prefix of 4 bits.
LEMMA Row4 ==
    ASSUME NEW ip \in Ip4, NEW k, NEW a, NEW b, NEW c, NEW v,
           Row(k, a, b, c, 4, v)
    PROVE  InRange(ip, Ranges4[k]) <=> ip[1] \div 16 = a \div 16
<1>1. ip \in Seq(Octet) /\ Len(ip) = 4 /\ 4 \in Nat /\ 4 >= 3
  BY IpSeq
<1>2. PICK y \in Seq(Octet) : /\ Len(y) = 4 /\ y[1] = a /\ y[2] = b /\ y[3] = c
                              /\ InRange(ip, Ranges4[k]) <=> SamePrefix(ip, y, 4)
  <2>1. RowMeans(ip, k, a, b, c, 4)
    BY RowIs
  <2> QED
    BY <2>1, Zenon DEF RowMeans
<1> DEFINE n == 4
<1>3. n \in Nat /\ n >= 3 /\ Len(ip) = n /\ Len(y) = n
  BY <1>1, <1>2
<1> HIDE DEF n
<1>4. SamePrefix(ip, y, 4) <=> ip[1] \div 16 = a \div 16
  BY <1>1, <1>2, <1>3, RangePrefixes
<1> QED
  BY <1>2, <1>4

\* The same for a prefix of 8 bits.
LEMMA Row8 ==
    ASSUME NEW ip \in Ip4, NEW k, NEW a, NEW b, NEW c, NEW v,
           Row(k, a, b, c, 8, v)
    PROVE  InRange(ip, Ranges4[k]) <=> ip[1] = a
<1>1. ip \in Seq(Octet) /\ Len(ip) = 4 /\ 4 \in Nat /\ 4 >= 3
  BY IpSeq
<1>2. PICK y \in Seq(Octet) : /\ Len(y) = 4 /\ y[1] = a /\ y[2] = b /\ y[3] = c
                              /\ InRange(ip, Ranges4[k]) <=> SamePrefix(ip, y, 8)
  <2>1. RowMeans(ip, k, a, b, c, 8)
    BY RowIs, Zenon
  <2> QED
    BY <2>1, Zenon DEF RowMeans
<1> DEFINE n == 4
<1>3. n \in Nat /\ n >= 3 /\ Len(ip) = n /\ Len(y) = n
  BY <1>1, <1>2
<1> HIDE DEF n
<1>4. SamePrefix(ip, y, 8) <=> ip[1] = a
  BY <1>1, <1>2, <1>3, RangePrefixes
<1> QED
  BY <1>2, <1>4

\* The same for a prefix of 10 bits.
LEMMA Row10 ==
    ASSUME NEW ip \in Ip4, NEW k, NEW a, NEW b, NEW c, NEW v,
           Row(k, a, b, c, 10, v)
    PROVE  InRange(ip, Ranges4[k]) <=> ip[1] = a /\ ip[2] \div 64 = b \div 64
<1>1. ip \in Seq(Octet) /\ Len(ip) = 4 /\ 4 \in Nat /\ 4 >= 3
  BY IpSeq
<1>2. PICK y \in Seq(Octet) : /\ Len(y) = 4 /\ y[1] = a /\ y[2] = b /\ y[3] = c
                              /\ InRange(ip, Ranges4[k]) <=> SamePrefix(ip, y, 10)
  <2>1. RowMeans(ip, k, a, b, c, 10)
    BY RowIs, Zenon
  <2> QED
    BY <2>1, Zenon DEF RowMeans
<1> DEFINE n == 4
<1>3. n \in Nat /\ n >= 3 /\ Len(ip) = n /\ Len(y) = n
  BY <1>1, <1>2
<1> HIDE DEF n
<1>4. SamePrefix(ip, y, 10) <=> ip[1] = a /\ ip[2] \div 64 = b \div 64
  BY <1>1, <1>2, <1>3, RangePrefixes
<1> QED
  BY <1>2, <1>4

\* The same for a prefix of 12 bits.
LEMMA Row12 ==
    ASSUME NEW ip \in Ip4, NEW k, NEW a, NEW b, NEW c, NEW v,
           Row(k, a, b, c, 12, v)
    PROVE  InRange(ip, Ranges4[k]) <=> ip[1] = a /\ ip[2] \div 16 = b \div 16
<1>1. ip \in Seq(Octet) /\ Len(ip) = 4 /\ 4 \in Nat /\ 4 >= 3
  BY IpSeq
<1>2. PICK y \in Seq(Octet) : /\ Len(y) = 4 /\ y[1] = a /\ y[2] = b /\ y[3] = c
                              /\ InRange(ip, Ranges4[k]) <=> SamePrefix(ip, y, 12)
  <2>1. RowMeans(ip, k, a, b, c, 12)
    BY RowIs, Zenon
  <2> QED
    BY <2>1, Zenon DEF RowMeans
<1> DEFINE n == 4
<1>3. n \in Nat /\ n >= 3 /\ Len(ip) = n /\ Len(y) = n
  BY <1>1, <1>2
<1> HIDE DEF n
<1>4. SamePrefix(ip, y, 12) <=> ip[1] = a /\ ip[2] \div 16 = b \div 16
  BY <1>1, <1>2, <1>3, RangePrefixes
<1> QED
  BY <1>2, <1>4

\* The same for a prefix of 15 bits.
LEMMA Row15 ==
    ASSUME NEW ip \in Ip4, NEW k, NEW a, NEW b, NEW c, NEW v,
           Row(k, a, b, c, 15, v)
    PROVE  InRange(ip, Ranges4[k]) <=> ip[1] = a /\ ip[2] \div 2 = b \div 2
<1>1. ip \in Seq(Octet) /\ Len(ip) = 4 /\ 4 \in Nat /\ 4 >= 3
  BY IpSeq
<1>2. PICK y \in Seq(Octet) : /\ Len(y) = 4 /\ y[1] = a /\ y[2] = b /\ y[3] = c
                              /\ InRange(ip, Ranges4[k]) <=> SamePrefix(ip, y, 15)
  <2>1. RowMeans(ip, k, a, b, c, 15)
    BY RowIs, Zenon
  <2> QED
    BY <2>1, Zenon DEF RowMeans
<1> DEFINE n == 4
<1>3. n \in Nat /\ n >= 3 /\ Len(ip) = n /\ Len(y) = n
  BY <1>1, <1>2
<1> HIDE DEF n
<1>4. SamePrefix(ip, y, 15) <=> ip[1] = a /\ ip[2] \div 2 = b \div 2
  BY <1>1, <1>2, <1>3, RangePrefixes
<1> QED
  BY <1>2, <1>4

\* The same for a prefix of 16 bits.
LEMMA Row16 ==
    ASSUME NEW ip \in Ip4, NEW k, NEW a, NEW b, NEW c, NEW v,
           Row(k, a, b, c, 16, v)
    PROVE  InRange(ip, Ranges4[k]) <=> ip[1] = a /\ ip[2] = b
<1>1. ip \in Seq(Octet) /\ Len(ip) = 4 /\ 4 \in Nat /\ 4 >= 3
  BY IpSeq
<1>2. PICK y \in Seq(Octet) : /\ Len(y) = 4 /\ y[1] = a /\ y[2] = b /\ y[3] = c
                              /\ InRange(ip, Ranges4[k]) <=> SamePrefix(ip, y, 16)
  <2>1. RowMeans(ip, k, a, b, c, 16)
    BY RowIs, Zenon
  <2> QED
    BY <2>1, Zenon DEF RowMeans
<1> DEFINE n == 4
<1>3. n \in Nat /\ n >= 3 /\ Len(ip) = n /\ Len(y) = n
  BY <1>1, <1>2
<1> HIDE DEF n
<1>4. SamePrefix(ip, y, 16) <=> ip[1] = a /\ ip[2] = b
  BY <1>1, <1>2, <1>3, RangePrefixes
<1> QED
  BY <1>2, <1>4

\* The same for a prefix of 24 bits.
LEMMA Row24 ==
    ASSUME NEW ip \in Ip4, NEW k, NEW a, NEW b, NEW c, NEW v,
           Row(k, a, b, c, 24, v)
    PROVE  InRange(ip, Ranges4[k]) <=> ip[1] = a /\ ip[2] = b /\ ip[3] = c
<1>1. ip \in Seq(Octet) /\ Len(ip) = 4 /\ 4 \in Nat /\ 4 >= 3
  BY IpSeq
<1>2. PICK y \in Seq(Octet) : /\ Len(y) = 4 /\ y[1] = a /\ y[2] = b /\ y[3] = c
                              /\ InRange(ip, Ranges4[k]) <=> SamePrefix(ip, y, 24)
  <2>1. RowMeans(ip, k, a, b, c, 24)
    BY RowIs, Zenon
  <2> QED
    BY <2>1, Zenon DEF RowMeans
<1> DEFINE n == 4
<1>3. n \in Nat /\ n >= 3 /\ Len(ip) = n /\ Len(y) = n
  BY <1>1, <1>2
<1> HIDE DEF n
<1>4. SamePrefix(ip, y, 24) <=> ip[1] = a /\ ip[2] = b /\ ip[3] = c
  BY <1>1, <1>2, <1>3, RangePrefixes
<1> QED
  BY <1>2, <1>4

\* The ranges that an address with these first octets is in.
Hit(k, x, y, z) ==
    \/ k = 1 /\ x = 0
    \/ k = 2 /\ x = 255
    \/ k = 3 /\ x = 10
    \/ k = 4 /\ x = 127
    \/ k = 5 /\ x = 100 /\ y \div 64 = 1
    \/ k = 6 /\ x = 169 /\ y = 254
    \/ k = 7 /\ x = 172 /\ y \div 16 = 1
    \/ k = 8 /\ x = 192 /\ y = 168
    \/ k = 9 /\ x = 192 /\ y = 0 /\ z = 2
    \/ k = 10 /\ x = 198 /\ y \div 2 = 9
    \/ k = 11 /\ x = 198 /\ y = 51 /\ z = 100
    \/ k = 12 /\ x = 203 /\ y = 0 /\ z = 113
    \/ k = 13 /\ x \div 16 = 14
    \/ k = 14 /\ x \div 16 = 15
    \/ k \in 15 .. 25 /\ x = Nets[k - 14]

\* It is in the rows of the table that they say.
LEMMA Hits ==
    ASSUME NEW ip \in Ip4, NEW k \in 1 .. 25
    PROVE  InRange(ip, Ranges4[k]) <=> Hit(k, ip[1], ip[2], ip[3])
<1> DEFINE H(n) == InRange(ip, Ranges4[n])
           x == ip[1]
           y == ip[2]
           z == ip[3]
<1>0. ASSUME NEW j, NEW a, NEW b, NEW c, NEW v
      PROVE  /\ Row(j, a, b, c, 4, v) => (H(j) <=> x \div 16 = a \div 16)
             /\ Row(j, a, b, c, 8, v) => (H(j) <=> x = a)
             /\ Row(j, a, b, c, 10, v) => (H(j) <=> x = a /\ y \div 64 = b \div 64)
             /\ Row(j, a, b, c, 12, v) => (H(j) <=> x = a /\ y \div 16 = b \div 16)
             /\ Row(j, a, b, c, 15, v) => (H(j) <=> x = a /\ y \div 2 = b \div 2)
             /\ Row(j, a, b, c, 16, v) => (H(j) <=> x = a /\ y = b)
             /\ Row(j, a, b, c, 24, v) => (H(j) <=> x = a /\ y = b /\ z = c)
  <2>1. ASSUME Row(j, a, b, c, 4, v) PROVE H(j) <=> x \div 16 = a \div 16
    BY <2>1, Row4
  <2>2. ASSUME Row(j, a, b, c, 8, v) PROVE H(j) <=> x = a
    BY <2>2, Row8
  <2>3. ASSUME Row(j, a, b, c, 10, v) PROVE H(j) <=> x = a /\ y \div 64 = b \div 64
    BY <2>3, Row10
  <2>4. ASSUME Row(j, a, b, c, 12, v) PROVE H(j) <=> x = a /\ y \div 16 = b \div 16
    BY <2>4, Row12
  <2>5. ASSUME Row(j, a, b, c, 15, v) PROVE H(j) <=> x = a /\ y \div 2 = b \div 2
    BY <2>5, Row15
  <2>6. ASSUME Row(j, a, b, c, 16, v) PROVE H(j) <=> x = a /\ y = b
    BY <2>6, Row16
  <2>7. ASSUME Row(j, a, b, c, 24, v) PROVE H(j) <=> x = a /\ y = b /\ z = c
    BY <2>7, Row24
  <2> QED
    BY <2>1, <2>2, <2>3, <2>4, <2>5, <2>6, <2>7, Zenon
<1> HIDE DEF H, x, y, z
<1>1. H(1) <=> x = 0
  <2>1. Row(1, 0, 0, 0, 8, "None")
    BY Table4
  <2> QED
    BY <1>0, <2>1
<1>2. H(2) <=> x = 255
  <2>1. Row(2, 255, 0, 0, 8, "None")
    BY Table4
  <2> QED
    BY <1>0, <2>1
<1>3. H(3) <=> x = 10
  <2>1. Row(3, 10, 0, 0, 8, "Private")
    BY Table4
  <2> QED
    BY <1>0, <2>1
<1>4. H(4) <=> x = 127
  <2>1. Row(4, 127, 0, 0, 8, "Loopback")
    BY Table4
  <2> QED
    BY <1>0, <2>1
<1>5. H(5) <=> x = 100 /\ y \div 64 = 1
  <2>1. Row(5, 100, 64, 0, 10, "Private")
    BY Table4
  <2> QED
    BY <1>0, <2>1
<1>6. H(6) <=> x = 169 /\ y = 254
  <2>1. Row(6, 169, 254, 0, 16, "LinkLocal")
    BY Table4
  <2> QED
    BY <1>0, <2>1
<1>7. H(7) <=> x = 172 /\ y \div 16 = 1
  <2>1. Row(7, 172, 16, 0, 12, "Private")
    BY Table4
  <2> QED
    BY <1>0, <2>1
<1>8. H(8) <=> x = 192 /\ y = 168
  <2>1. Row(8, 192, 168, 0, 16, "Private")
    BY Table4
  <2> QED
    BY <1>0, <2>1
<1>9. H(9) <=> x = 192 /\ y = 0 /\ z = 2
  <2>1. Row(9, 192, 0, 2, 24, "Private")
    BY Table4
  <2> QED
    BY <1>0, <2>1
<1>10. H(10) <=> x = 198 /\ y \div 2 = 9
  <2>1. Row(10, 198, 18, 0, 15, "Private")
    BY Table4
  <2> QED
    BY <1>0, <2>1
<1>11. H(11) <=> x = 198 /\ y = 51 /\ z = 100
  <2>1. Row(11, 198, 51, 100, 24, "Private")
    BY Table4
  <2> QED
    BY <1>0, <2>1
<1>12. H(12) <=> x = 203 /\ y = 0 /\ z = 113
  <2>1. Row(12, 203, 0, 113, 24, "Private")
    BY Table4
  <2> QED
    BY <1>0, <2>1
<1>13. H(13) <=> x \div 16 = 14
  <2>1. Row(13, 224, 0, 0, 4, "Multicast")
    BY Table4
  <2> QED
    BY <1>0, <2>1
<1>14. H(14) <=> x \div 16 = 15
  <2>1. Row(14, 240, 0, 0, 4, "Private")
    BY Table4
  <2> QED
    BY <1>0, <2>1
<1>15. ASSUME k \in 15 .. 25 PROVE H(k) <=> x = Nets[k - 14]
  <2> DEFINE i == k - 14
  <2>1. i \in 1 .. 11 /\ k = 14 + i
    BY <1>15
  <2> HIDE DEF i
  <2>3. Row(k, Nets[i], 0, 0, 8, "PseudoPrivate")
    BY <2>1, Table4
  <2>4. H(k) <=> x = Nets[i]
    BY <1>0, <2>3, Zenon
  <2> QED
    BY <2>4, Zenon DEF i
<1>16. H(k) <=> Hit(k, x, y, z)
  BY <1>1, <1>2, <1>3, <1>4, <1>5, <1>6, <1>7, <1>8, <1>9, <1>10, <1>11, <1>12, <1>13, <1>14, <1>15 DEF Hit
<1> QED
  BY <1>16, Zenon DEF H, x, y, z

\* The nets of the table are those of the code.
LEMMA NetsAre ==
    /\ \A i \in 1 .. 11 : Nets[i] \in PseudoPrivateNets
    /\ \A x \in PseudoPrivateNets : \E i \in 1 .. 11 : Nets[i] = x
<1>1. /\ Nets[1] = 6 /\ Nets[2] = 21 /\ Nets[3] = 22 /\ Nets[4] = 25 /\ Nets[5] = 26 /\ Nets[6] = 28
      /\ Nets[7] = 29 /\ Nets[8] = 30 /\ Nets[9] = 51 /\ Nets[10] = 55 /\ Nets[11] = 56
  BY DEF Nets
<1> HIDE DEF Nets
<1>2. \A i \in 1 .. 11 : i \in {1, 2, 3, 4, 5, 6, 7, 8, 9, 10, 11}
  OBVIOUS
<1>3. /\ 1 \in 1 .. 11 /\ 2 \in 1 .. 11 /\ 3 \in 1 .. 11 /\ 4 \in 1 .. 11 /\ 5 \in 1 .. 11 /\ 6 \in 1 .. 11
      /\ 7 \in 1 .. 11 /\ 8 \in 1 .. 11 /\ 9 \in 1 .. 11 /\ 10 \in 1 .. 11 /\ 11 \in 1 .. 11
  OBVIOUS
<1> QED
  BY <1>1, <1>2, <1>3 DEF PseudoPrivateNets

\* They are all different.
LEMMA NetsDiffer == \A i, j \in 1 .. 11 : i < j => Nets[i] < Nets[j]
<1>1. /\ Nets[1] = 6 /\ Nets[2] = 21 /\ Nets[3] = 22 /\ Nets[4] = 25 /\ Nets[5] = 26 /\ Nets[6] = 28
      /\ Nets[7] = 29 /\ Nets[8] = 30 /\ Nets[9] = 51 /\ Nets[10] = 55 /\ Nets[11] = 56
  BY DEF Nets
<1> HIDE DEF Nets
<1>2. \A i \in 1 .. 11 : i \in {1, 2, 3, 4, 5, 6, 7, 8, 9, 10, 11}
  OBVIOUS
<1> QED
  BY <1>1, <1>2

\* The class of an address by its first octets.
LEMMA HitClass ==
    ASSUME NEW ip \in Ip4, NEW x, NEW y, NEW z, x = ip[1], y = ip[2], z = ip[3]
    PROVE  /\ \A k \in 1 .. 25 : Hit(k, x, y, z) /\ (\A j \in 1 .. 25 : j < k => ~Hit(j, x, y, z)) =>
                ScopeByRange(ip) = Ranges4[k][3]
           /\ (\A j \in 1 .. 25 : ~Hit(j, x, y, z)) => ScopeByRange(ip) = "Global"
<1>1. Len(ip) = 4
  BY IpSeq
<1>2. ScopeByRange(ip) = ClassIn(Ranges4, ip)
  BY <1>1, Zenon DEF ScopeByRange, ClassIn
<1>3. Len(Ranges4) = 25 /\ Len(Ranges4) \in Nat
  BY Table4
<1>4. \A k \in 1 .. 25 : InRange(ip, Ranges4[k]) <=> Hit(k, x, y, z)
  BY Hits
<1> DEFINE R == Ranges4
<1> HIDE DEF R
<1>5. /\ \A k \in 1 .. Len(R) :
                InRange(ip, R[k]) /\ (\A j \in 1 .. Len(R) : j < k => ~InRange(ip, R[j])) =>
                    ClassIn(R, ip) = R[k][3]
      /\ (\A j \in 1 .. Len(R) : ~InRange(ip, R[j])) => ClassIn(R, ip) = "Global"
  <2>1. Len(R) \in Nat
    BY <1>3 DEF R
  <2> QED
    BY <2>1, FirstRange, Zenon
<1>6. Len(R) = 25
  BY <1>3 DEF R
<1> QED
  BY <1>2, <1>4, <1>5, <1>6, Zenon DEF R

\* The class that each row of the table gives.
LEMMA RowClass ==
    /\ Ranges4[1][3] = "None" /\ Ranges4[2][3] = "None" /\ Ranges4[3][3] = "Private"
    /\ Ranges4[4][3] = "Loopback" /\ Ranges4[5][3] = "Private" /\ Ranges4[6][3] = "LinkLocal"
    /\ Ranges4[7][3] = "Private" /\ Ranges4[8][3] = "Private" /\ Ranges4[9][3] = "Private"
    /\ Ranges4[10][3] = "Private" /\ Ranges4[11][3] = "Private" /\ Ranges4[12][3] = "Private"
    /\ Ranges4[13][3] = "Multicast" /\ Ranges4[14][3] = "Private"
    /\ \A i \in 1 .. 11 : Ranges4[14 + i][3] = "PseudoPrivate"
<1>1. \A k, a, b, c, n, v : Row(k, a, b, c, n, v) => Ranges4[k][3] = v
  <2>1. \A k, y, n, v : Ranges4[k] = <<y, n, v>> => Ranges4[k][3] = v
    OBVIOUS
  <2> QED
    BY <2>1, Zenon DEF Row
<1> QED
  BY <1>1, Table4

\* scope on an IPv4 address agrees with the table.
LEMMA Scope4Table ==
    ASSUME NEW ip \in Ip4
    PROVE  Scope4(ip) = ScopeByRange(ip)
<1> DEFINE x == ip[1]
           y == ip[2]
           z == ip[3]
           S == ScopeByRange(ip)
           Is(k) == S = Ranges4[k][3]
<1>1. x \in 0 .. 255 /\ y \in 0 .. 255 /\ z \in 0 .. 255
  <2>1. 1 \in 1 .. 4 /\ 2 \in 1 .. 4 /\ 3 \in 1 .. 4
    OBVIOUS
  <2> QED
    BY <2>1 DEF Ip4, Octet
<1>2. /\ \A k \in 1 .. 25 : Hit(k, x, y, z) /\ (\A j \in 1 .. 25 : j < k => ~Hit(j, x, y, z)) => Is(k)
      /\ (\A j \in 1 .. 25 : ~Hit(j, x, y, z)) => S = "Global"
  BY HitClass, Zenon
<1>n. \A k \in 15 .. 25 : Nets[k - 14] \in PseudoPrivateNets
  <2>1. \A k \in 15 .. 25 : k - 14 \in 1 .. 11
    OBVIOUS
  <2> QED
    BY <2>1, NetsAre, Zenon
<1> SUFFICES Scope4(ip) = S
  OBVIOUS
<1> HIDE DEF x, y, z, S
<1>3. CASE x = 0
  <2>1. Scope4(ip) = "None"
    BY <1>1, <1>n, <1>3 DEF Scope4, PseudoPrivateNets, x, y, z
  <2>2. 1 \in 1 .. 25 /\ Hit(1, x, y, z) /\ \A j \in 1 .. 25 : j < 1 => ~Hit(j, x, y, z)
    BY <1>1, <1>n, <1>3 DEF Hit, PseudoPrivateNets
  <2> QED
    BY <1>2, <2>1, <2>2, RowClass
<1>4. CASE x = 255
  <2>1. Scope4(ip) = "None"
    BY <1>1, <1>n, <1>4 DEF Scope4, PseudoPrivateNets, x, y, z
  <2>2. 2 \in 1 .. 25 /\ Hit(2, x, y, z) /\ \A j \in 1 .. 25 : j < 2 => ~Hit(j, x, y, z)
    BY <1>1, <1>n, <1>4 DEF Hit, PseudoPrivateNets
  <2> QED
    BY <1>2, <2>1, <2>2, RowClass
<1>5. CASE x = 10
  <2>1. Scope4(ip) = "Private"
    BY <1>1, <1>n, <1>5 DEF Scope4, PseudoPrivateNets, x, y, z
  <2>2. 3 \in 1 .. 25 /\ Hit(3, x, y, z) /\ \A j \in 1 .. 25 : j < 3 => ~Hit(j, x, y, z)
    BY <1>1, <1>n, <1>5 DEF Hit, PseudoPrivateNets
  <2> QED
    BY <1>2, <2>1, <2>2, RowClass
<1>6. CASE x = 127
  <2>1. Scope4(ip) = "Loopback"
    BY <1>1, <1>n, <1>6 DEF Scope4, PseudoPrivateNets, x, y, z
  <2>2. 4 \in 1 .. 25 /\ Hit(4, x, y, z) /\ \A j \in 1 .. 25 : j < 4 => ~Hit(j, x, y, z)
    BY <1>1, <1>n, <1>6 DEF Hit, PseudoPrivateNets
  <2> QED
    BY <1>2, <2>1, <2>2, RowClass
<1>7. CASE x = 100
  <2>1. CASE y \div 64 = 1
    <3>1. Scope4(ip) = "Private"
      BY <1>1, <1>n, <1>7, <2>1 DEF Scope4, PseudoPrivateNets, x, y, z
    <3>2. 5 \in 1 .. 25 /\ Hit(5, x, y, z) /\ \A j \in 1 .. 25 : j < 5 => ~Hit(j, x, y, z)
      BY <1>1, <1>n, <1>7, <2>1 DEF Hit, PseudoPrivateNets
    <3> QED
      BY <1>2, <3>1, <3>2, RowClass
  <2>2. CASE y \div 64 # 1
    <3>1. Scope4(ip) = "Global"
      BY <1>1, <1>n, <1>7, <2>2 DEF Scope4, PseudoPrivateNets, x, y, z
    <3>2. \A j \in 1 .. 25 : ~Hit(j, x, y, z)
      BY <1>1, <1>n, <1>7, <2>2 DEF Hit, PseudoPrivateNets
    <3> QED
      BY <1>2, <3>1, <3>2
  <2> QED
    BY <2>1, <2>2
<1>8. CASE x = 169
  <2>1. CASE y = 254
    <3>1. Scope4(ip) = "LinkLocal"
      BY <1>1, <1>n, <1>8, <2>1 DEF Scope4, PseudoPrivateNets, x, y, z
    <3>2. 6 \in 1 .. 25 /\ Hit(6, x, y, z) /\ \A j \in 1 .. 25 : j < 6 => ~Hit(j, x, y, z)
      BY <1>1, <1>n, <1>8, <2>1 DEF Hit, PseudoPrivateNets
    <3> QED
      BY <1>2, <3>1, <3>2, RowClass
  <2>2. CASE y # 254
    <3>1. Scope4(ip) = "Global"
      BY <1>1, <1>n, <1>8, <2>2 DEF Scope4, PseudoPrivateNets, x, y, z
    <3>2. \A j \in 1 .. 25 : ~Hit(j, x, y, z)
      BY <1>1, <1>n, <1>8, <2>2 DEF Hit, PseudoPrivateNets
    <3> QED
      BY <1>2, <3>1, <3>2
  <2> QED
    BY <2>1, <2>2
<1>9. CASE x = 172
  <2>1. CASE y \div 16 = 1
    <3>1. Scope4(ip) = "Private"
      BY <1>1, <1>n, <1>9, <2>1 DEF Scope4, PseudoPrivateNets, x, y, z
    <3>2. 7 \in 1 .. 25 /\ Hit(7, x, y, z) /\ \A j \in 1 .. 25 : j < 7 => ~Hit(j, x, y, z)
      BY <1>1, <1>n, <1>9, <2>1 DEF Hit, PseudoPrivateNets
    <3> QED
      BY <1>2, <3>1, <3>2, RowClass
  <2>2. CASE y \div 16 # 1
    <3>1. Scope4(ip) = "Global"
      BY <1>1, <1>n, <1>9, <2>2 DEF Scope4, PseudoPrivateNets, x, y, z
    <3>2. \A j \in 1 .. 25 : ~Hit(j, x, y, z)
      BY <1>1, <1>n, <1>9, <2>2 DEF Hit, PseudoPrivateNets
    <3> QED
      BY <1>2, <3>1, <3>2
  <2> QED
    BY <2>1, <2>2
<1>10. CASE x = 192
  <2>1. CASE y = 168
    <3>1. Scope4(ip) = "Private"
      BY <1>1, <1>n, <1>10, <2>1 DEF Scope4, PseudoPrivateNets, x, y, z
    <3>2. 8 \in 1 .. 25 /\ Hit(8, x, y, z) /\ \A j \in 1 .. 25 : j < 8 => ~Hit(j, x, y, z)
      BY <1>1, <1>n, <1>10, <2>1 DEF Hit, PseudoPrivateNets
    <3> QED
      BY <1>2, <3>1, <3>2, RowClass
  <2>2. CASE y = 0 /\ z = 2
    <3>1. Scope4(ip) = "Private"
      BY <1>1, <1>n, <1>10, <2>2 DEF Scope4, PseudoPrivateNets, x, y, z
    <3>2. 9 \in 1 .. 25 /\ Hit(9, x, y, z) /\ \A j \in 1 .. 25 : j < 9 => ~Hit(j, x, y, z)
      BY <1>1, <1>n, <1>10, <2>2 DEF Hit, PseudoPrivateNets
    <3> QED
      BY <1>2, <3>1, <3>2, RowClass
  <2>3. CASE y # 168 /\ ~(y = 0 /\ z = 2)
    <3>1. Scope4(ip) = "Global"
      BY <1>1, <1>n, <1>10, <2>3 DEF Scope4, PseudoPrivateNets, x, y, z
    <3>2. \A j \in 1 .. 25 : ~Hit(j, x, y, z)
      BY <1>1, <1>n, <1>10, <2>3 DEF Hit, PseudoPrivateNets
    <3> QED
      BY <1>2, <3>1, <3>2
  <2> QED
    BY <2>1, <2>2, <2>3
<1>11. CASE x = 198
  <2>1. CASE y \div 2 = 9
    <3>1. Scope4(ip) = "Private"
      BY <1>1, <1>n, <1>11, <2>1 DEF Scope4, PseudoPrivateNets, x, y, z
    <3>2. 10 \in 1 .. 25 /\ Hit(10, x, y, z) /\ \A j \in 1 .. 25 : j < 10 => ~Hit(j, x, y, z)
      BY <1>1, <1>n, <1>11, <2>1 DEF Hit, PseudoPrivateNets
    <3> QED
      BY <1>2, <3>1, <3>2, RowClass
  <2>2. CASE y = 51 /\ z = 100
    <3>1. Scope4(ip) = "Private"
      BY <1>1, <1>n, <1>11, <2>2 DEF Scope4, PseudoPrivateNets, x, y, z
    <3>2. 11 \in 1 .. 25 /\ Hit(11, x, y, z) /\ \A j \in 1 .. 25 : j < 11 => ~Hit(j, x, y, z)
      BY <1>1, <1>n, <1>11, <2>2 DEF Hit, PseudoPrivateNets
    <3> QED
      BY <1>2, <3>1, <3>2, RowClass
  <2>3. CASE y \div 2 # 9 /\ ~(y = 51 /\ z = 100)
    <3>1. Scope4(ip) = "Global"
      BY <1>1, <1>n, <1>11, <2>3 DEF Scope4, PseudoPrivateNets, x, y, z
    <3>2. \A j \in 1 .. 25 : ~Hit(j, x, y, z)
      BY <1>1, <1>n, <1>11, <2>3 DEF Hit, PseudoPrivateNets
    <3> QED
      BY <1>2, <3>1, <3>2
  <2> QED
    BY <2>1, <2>2, <2>3
<1>12. CASE x = 203
  <2>1. CASE y = 0 /\ z = 113
    <3>1. Scope4(ip) = "Private"
      BY <1>1, <1>n, <1>12, <2>1 DEF Scope4, PseudoPrivateNets, x, y, z
    <3>2. 12 \in 1 .. 25 /\ Hit(12, x, y, z) /\ \A j \in 1 .. 25 : j < 12 => ~Hit(j, x, y, z)
      BY <1>1, <1>n, <1>12, <2>1 DEF Hit, PseudoPrivateNets
    <3> QED
      BY <1>2, <3>1, <3>2, RowClass
  <2>2. CASE ~(y = 0 /\ z = 113)
    <3>1. Scope4(ip) = "Global"
      BY <1>1, <1>n, <1>12, <2>2 DEF Scope4, PseudoPrivateNets, x, y, z
    <3>2. \A j \in 1 .. 25 : ~Hit(j, x, y, z)
      BY <1>1, <1>n, <1>12, <2>2 DEF Hit, PseudoPrivateNets
    <3> QED
      BY <1>2, <3>1, <3>2
  <2> QED
    BY <2>1, <2>2
<1>13. CASE x \in 224 .. 239
  <2>1. Scope4(ip) = "Multicast"
    BY <1>1, <1>n, <1>13 DEF Scope4, PseudoPrivateNets, x, y, z
  <2>2. 13 \in 1 .. 25 /\ Hit(13, x, y, z) /\ \A j \in 1 .. 25 : j < 13 => ~Hit(j, x, y, z)
    BY <1>1, <1>n, <1>13 DEF Hit, PseudoPrivateNets
  <2> QED
    BY <1>2, <2>1, <2>2, RowClass
<1>14. CASE x \in 240 .. 254
  <2>1. Scope4(ip) = "Private"
    BY <1>1, <1>n, <1>14 DEF Scope4, PseudoPrivateNets, x, y, z
  <2>2. 14 \in 1 .. 25 /\ Hit(14, x, y, z) /\ \A j \in 1 .. 25 : j < 14 => ~Hit(j, x, y, z)
    BY <1>1, <1>n, <1>14 DEF Hit, PseudoPrivateNets
  <2> QED
    BY <1>2, <2>1, <2>2, RowClass
<1>15. CASE x \in PseudoPrivateNets
  <2>1. Scope4(ip) = "PseudoPrivate"
    BY <1>1, <1>15 DEF Scope4, PseudoPrivateNets, x, y, z
  <2>2. PICK i \in 1 .. 11 : Nets[i] = x
    BY <1>15, NetsAre, Zenon
  <2> DEFINE k == 14 + i
  <2>3. k \in 1 .. 25 /\ Hit(k, x, y, z)
    BY <2>2 DEF Hit
  <2>4. \A j \in 1 .. 25 : j < k => ~Hit(j, x, y, z)
    <3>1. \A j \in 1 .. 14 : ~Hit(j, x, y, z)
      BY <1>1, <1>15 DEF Hit, PseudoPrivateNets
    <3>2. ASSUME NEW j \in 15 .. 25, j < k PROVE ~Hit(j, x, y, z)
      <4>1. j - 14 \in 1 .. 11 /\ j - 14 < i /\ j \notin 1 .. 14
        BY <3>2
      <4>2. Nets[j - 14] < Nets[i]
        BY <4>1, NetsDiffer, Zenon
      <4>3. Nets[j - 14] \in Int /\ Nets[i] \in Int
        BY <4>1, NetsAre DEF PseudoPrivateNets
      <4>4. x # Nets[j - 14]
        BY <2>2, <4>2, <4>3
      <4> QED
        BY <4>1, <4>4 DEF Hit
    <3> QED
      BY <3>1, <3>2
  <2>5. S = Ranges4[14 + i][3]
    BY <1>2, <2>3, <2>4
  <2> QED
    BY <2>1, <2>5, RowClass
<1>16. CASE /\ x # 0 /\ x # 255 /\ x # 10 /\ x # 127 /\ x # 100 /\ x # 169 /\ x # 172
            /\ x # 192 /\ x # 198 /\ x # 203
            /\ ~(x \in 224 .. 239) /\ ~(x \in 240 .. 254) /\ x \notin PseudoPrivateNets
  <2>1. Scope4(ip) = "Global"
    BY <1>1, <1>16 DEF Scope4, x, y, z
  <2>2. \A j \in 1 .. 25 : ~Hit(j, x, y, z)
    BY <1>1, <1>n, <1>16 DEF Hit
  <2> QED
    BY <1>2, <2>1, <2>2
<1> QED
  BY <1>3, <1>4, <1>5, <1>6, <1>7, <1>8, <1>9, <1>10, <1>11, <1>12, <1>13, <1>14, <1>15, <1>16

\* An IPv6 address that begins with the m octets of f, ends with the n octets
\* of b, and is zero between them.
BeginsEnds(v, f, m, b, n) ==
    /\ v \in Seq(Octet) /\ Len(v) = 16
    /\ \A i \in 1 .. m : v[i] = f[i]
    /\ \A i \in (m + 1) .. (16 - n) : v[i] = 0
    /\ \A i \in 1 .. n : v[16 - n + i] = b[i]

\* The octets of an IPv6 address written with its beginning and its end.
LEMMA V6Octets ==
    ASSUME NEW f \in Seq(Octet), NEW b \in Seq(Octet), NEW m \in Nat, NEW n \in Nat,
           Len(f) = m, Len(b) = n, m + n <= 16
    PROVE  BeginsEnds(V6(f, b), f, m, b, n)
<1> DEFINE k == 16 - m - n
           z == Zeroes(k)
           g == f \o z
<1>1. k \in Nat /\ m + k = 16 - n /\ (m + k) + n = 16
  OBVIOUS
<1> HIDE DEF k
<1>2. z \in Seq(Octet) /\ Len(z) = k /\ \A i \in 1 .. k : z[i] = 0
  <2>1. 0 \in Octet
    BY DEF Octet
  <2>2. z \in [1 .. k -> Octet] /\ \A i \in 1 .. k : z[i] = 0
    BY <2>1, Zenon DEF Zeroes
  <2> QED
    BY <1>1, <2>2, OctetsSeq, Zenon
<1> HIDE DEF z
<1>3. /\ g \in Seq(Octet) /\ Len(g) = m + k
      /\ \A i \in 1 .. (m + k) : g[i] = IF i <= m THEN f[i] ELSE z[i - m]
  BY <1>2, ConcatProperties, Zenon
<1>4. \A i \in 1 .. (16 - n) : g[i] = IF i <= m THEN f[i] ELSE 0
  <2>1. \A i \in 1 .. (m + k) : i <= m \/ i - m \in 1 .. k
    BY <1>1
  <2> QED
    BY <1>1, <1>2, <1>3, <2>1, Zenon
<1> HIDE DEF g
<1>5. V6(f, b) = g \o b
  <2>1. V6(f, b) = (f \o Zeroes(16 - m - n)) \o b
    BY Zenon DEF V6
  <2> QED
    BY <2>1, Zenon DEF g, z, k
<1>6. /\ g \o b \in Seq(Octet) /\ Len(g \o b) = (m + k) + n
      /\ \A i \in 1 .. ((m + k) + n) : (g \o b)[i] = IF i <= m + k THEN g[i] ELSE b[i - (m + k)]
  <2>1. /\ g \o b \in Seq(Octet) /\ Len(g \o b) = Len(g) + Len(b)
        /\ \A i \in 1 .. Len(g) + Len(b) : (g \o b)[i] = IF i <= Len(g) THEN g[i] ELSE b[i - Len(g)]
    BY <1>3, ConcatProperties, Zenon
  <2>2. Len(g) = m + k /\ Len(b) = n
    BY <1>3, Zenon
  <2> QED
    BY <2>1, <2>2, Zenon
<1> DEFINE v == g \o b
<1> HIDE DEF v
<1>7. \A i \in 1 .. 16 : v[i] = IF i <= 16 - n THEN g[i] ELSE b[i - (16 - n)]
  BY <1>1, <1>6, Zenon DEF v
<1>8. ASSUME NEW i \in 1 .. m PROVE v[i] = f[i]
  <2>1. i \in 1 .. 16 /\ i <= 16 - n /\ i \in 1 .. (16 - n) /\ i <= m
    OBVIOUS
  <2> QED
    BY <1>4, <1>7, <2>1, Zenon
<1>9. ASSUME NEW i \in (m + 1) .. (16 - n) PROVE v[i] = 0
  <2>1. i \in 1 .. 16 /\ i <= 16 - n /\ i \in 1 .. (16 - n) /\ ~(i <= m)
    OBVIOUS
  <2> QED
    BY <1>4, <1>7, <2>1, Zenon
<1>10. ASSUME NEW i \in 1 .. n PROVE v[16 - n + i] = b[i]
  <2>1. 16 - n + i \in 1 .. 16 /\ ~(16 - n + i <= 16 - n) /\ (16 - n + i) - (16 - n) = i
    OBVIOUS
  <2>2. v[16 - n + i] = b[(16 - n + i) - (16 - n)]
    BY <1>7, <2>1, Zenon
  <2> QED
    BY <2>1, <2>2, Zenon
<1>11. v \in Seq(Octet) /\ Len(v) = 16
  BY <1>1, <1>6, Zenon DEF v
<1>12. V6(f, b) = v
  BY <1>5, Zenon DEF v
<1> QED
  BY <1>8, <1>9, <1>10, <1>11, <1>12, Zenon DEF BeginsEnds

\* The rows of the table of IPv6 ranges.
IsRow(k, y, n, v) == y \in Seq(Octet) /\ Len(y) = 16 /\ Ranges6[k] = <<y, n, v>>

\* The table of IPv6 ranges, row by row.
LEMMA Table6 ==
    /\ Len(Ranges6) = 6
    /\ \E y : IsRow(1, y, 8, "Multicast") /\ y[1] = 255
    /\ \E y : /\ IsRow(2, y, 128, "Loopback") /\ y[1] = 254 /\ y[2] = 128
              /\ (\A i \in 3 .. 15 : y[i] = 0) /\ y[16] = 1
    /\ \E y : IsRow(3, y, 10, "LinkLocal") /\ y[1] = 254 /\ y[2] = 128
    /\ \E y : IsRow(4, y, 7, "Private") /\ y[1] = 252
    /\ \E y : IsRow(5, y, 128, "Loopback") /\ (\A i \in 1 .. 15 : y[i] = 0) /\ y[16] = 1
    /\ \E y : IsRow(6, y, 128, "None") /\ \A i \in 1 .. 16 : y[i] = 0
<1> DEFINE e == <<>>
           u == <<1>>
           p == <<255>>
           q == <<254, 128>>
           r == <<252>>
<1>0. /\ e \in Seq(Octet) /\ Len(e) = 0 /\ u \in Seq(Octet) /\ Len(u) = 1 /\ u[1] = 1
      /\ p \in Seq(Octet) /\ Len(p) = 1 /\ p[1] = 255
      /\ q \in Seq(Octet) /\ Len(q) = 2 /\ q[1] = 254 /\ q[2] = 128
      /\ r \in Seq(Octet) /\ Len(r) = 1 /\ r[1] = 252
  BY DEF Octet
<1>1. Ranges6 = << <<V6(p, e), 8, "Multicast">>, <<V6(q, u), 128, "Loopback">>,
                   <<V6(q, e), 10, "LinkLocal">>, <<V6(r, e), 7, "Private">>,
                   <<V6(e, u), 128, "Loopback">>, <<V6(e, e), 128, "None">> >>
  BY Zenon DEF Ranges6
<1> HIDE DEF e, u, p, q, r
<1> DEFINE y1 == V6(p, e)
           y2 == V6(q, u)
           y3 == V6(q, e)
           y4 == V6(r, e)
           y5 == V6(e, u)
           y6 == V6(e, e)
<1>n. /\ 1 \in 1 .. 1 /\ 1 \in 1 .. 2 /\ 2 \in 1 .. 2 /\ 16 - 1 + 1 = 16
      /\ \A i : i \in 3 .. 15 <=> i \in (2 + 1) .. (16 - 1)
      /\ \A i : i \in 1 .. 15 <=> i \in (0 + 1) .. (16 - 1)
      /\ \A i : i \in 1 .. 16 <=> i \in (0 + 1) .. (16 - 0)
  OBVIOUS
<1>2. y1 \in Seq(Octet) /\ Len(y1) = 16 /\ y1[1] = 255
  <2>1. BeginsEnds(y1, p, 1, e, 0)
    <3>1. p \in Seq(Octet) /\ e \in Seq(Octet) /\ Len(p) = 1 /\ Len(e) = 0
      BY <1>0
    <3>2. 1 \in Nat /\ 0 \in Nat /\ 1 + 0 <= 16
      OBVIOUS
    <3> QED
      BY <3>1, <3>2, V6Octets, Zenon
  <2> HIDE DEF y1
  <2> QED
    BY <1>0, <1>n, <2>1 DEF BeginsEnds
<1>3. /\ y2 \in Seq(Octet) /\ Len(y2) = 16 /\ y2[1] = 254 /\ y2[2] = 128
      /\ (\A i \in 3 .. 15 : y2[i] = 0) /\ y2[16] = 1
  <2>1. BeginsEnds(y2, q, 2, u, 1)
    <3>1. q \in Seq(Octet) /\ u \in Seq(Octet) /\ Len(q) = 2 /\ Len(u) = 1
      BY <1>0
    <3>2. 2 \in Nat /\ 1 \in Nat /\ 2 + 1 <= 16
      OBVIOUS
    <3> QED
      BY <3>1, <3>2, V6Octets, Zenon
  <2> HIDE DEF y2
  <2> QED
    BY <1>0, <1>n, <2>1 DEF BeginsEnds
<1>4. y3 \in Seq(Octet) /\ Len(y3) = 16 /\ y3[1] = 254 /\ y3[2] = 128
  <2>1. BeginsEnds(y3, q, 2, e, 0)
    <3>1. q \in Seq(Octet) /\ e \in Seq(Octet) /\ Len(q) = 2 /\ Len(e) = 0
      BY <1>0
    <3>2. 2 \in Nat /\ 0 \in Nat /\ 2 + 0 <= 16
      OBVIOUS
    <3> QED
      BY <3>1, <3>2, V6Octets, Zenon
  <2> HIDE DEF y3
  <2> QED
    BY <1>0, <1>n, <2>1 DEF BeginsEnds
<1>5. y4 \in Seq(Octet) /\ Len(y4) = 16 /\ y4[1] = 252
  <2>1. BeginsEnds(y4, r, 1, e, 0)
    <3>1. r \in Seq(Octet) /\ e \in Seq(Octet) /\ Len(r) = 1 /\ Len(e) = 0
      BY <1>0
    <3>2. 1 \in Nat /\ 0 \in Nat /\ 1 + 0 <= 16
      OBVIOUS
    <3> QED
      BY <3>1, <3>2, V6Octets, Zenon
  <2> HIDE DEF y4
  <2> QED
    BY <1>0, <1>n, <2>1 DEF BeginsEnds
<1>6. y5 \in Seq(Octet) /\ Len(y5) = 16 /\ (\A i \in 1 .. 15 : y5[i] = 0) /\ y5[16] = 1
  <2>1. BeginsEnds(y5, e, 0, u, 1)
    <3>1. e \in Seq(Octet) /\ u \in Seq(Octet) /\ Len(e) = 0 /\ Len(u) = 1
      BY <1>0
    <3>2. 0 \in Nat /\ 1 \in Nat /\ 0 + 1 <= 16
      OBVIOUS
    <3> QED
      BY <3>1, <3>2, V6Octets, Zenon
  <2> HIDE DEF y5
  <2> QED
    BY <1>0, <1>n, <2>1 DEF BeginsEnds
<1>7. y6 \in Seq(Octet) /\ Len(y6) = 16 /\ \A i \in 1 .. 16 : y6[i] = 0
  <2>1. BeginsEnds(y6, e, 0, e, 0)
    <3>1. e \in Seq(Octet) /\ e \in Seq(Octet) /\ Len(e) = 0 /\ Len(e) = 0
      BY <1>0
    <3>2. 0 \in Nat /\ 0 \in Nat /\ 0 + 0 <= 16
      OBVIOUS
    <3> QED
      BY <3>1, <3>2, V6Octets, Zenon
  <2> HIDE DEF y6
  <2> QED
    BY <1>0, <1>n, <2>1 DEF BeginsEnds
<1> HIDE DEF y1, y2, y3, y4, y5, y6
<1>8. /\ Len(Ranges6) = 6 /\ Ranges6[1] = <<y1, 8, "Multicast">> /\ Ranges6[2] = <<y2, 128, "Loopback">>
      /\ Ranges6[3] = <<y3, 10, "LinkLocal">> /\ Ranges6[4] = <<y4, 7, "Private">>
      /\ Ranges6[5] = <<y5, 128, "Loopback">> /\ Ranges6[6] = <<y6, 128, "None">>
  <2> DEFINE a1 == <<y1, 8, "Multicast">>
             a2 == <<y2, 128, "Loopback">>
             a3 == <<y3, 10, "LinkLocal">>
             a4 == <<y4, 7, "Private">>
             a5 == <<y5, 128, "Loopback">>
             a6 == <<y6, 128, "None">>
  <2>1. Ranges6 = <<a1, a2, a3, a4, a5, a6>>
    BY <1>1, Zenon DEF y1, y2, y3, y4, y5, y6
  <2> HIDE DEF a1, a2, a3, a4, a5, a6
  <2>2. /\ Len(Ranges6) = 6 /\ Ranges6[1] = a1 /\ Ranges6[2] = a2 /\ Ranges6[3] = a3
        /\ Ranges6[4] = a4 /\ Ranges6[5] = a5 /\ Ranges6[6] = a6
    BY <2>1
  <2> QED
    BY <2>2, Zenon DEF a1, a2, a3, a4, a5, a6
<1>9. IsRow(1, y1, 8, "Multicast") /\ y1[1] = 255
  BY <1>2, <1>8 DEF IsRow
<1>10. /\ IsRow(2, y2, 128, "Loopback") /\ y2[1] = 254 /\ y2[2] = 128
       /\ (\A i \in 3 .. 15 : y2[i] = 0) /\ y2[16] = 1
  BY <1>3, <1>8 DEF IsRow
<1>11. IsRow(3, y3, 10, "LinkLocal") /\ y3[1] = 254 /\ y3[2] = 128
  BY <1>4, <1>8 DEF IsRow
<1>12. IsRow(4, y4, 7, "Private") /\ y4[1] = 252
  BY <1>5, <1>8 DEF IsRow
<1>13. IsRow(5, y5, 128, "Loopback") /\ (\A i \in 1 .. 15 : y5[i] = 0) /\ y5[16] = 1
  BY <1>6, <1>8 DEF IsRow
<1>14. IsRow(6, y6, 128, "None") /\ \A i \in 1 .. 16 : y6[i] = 0
  BY <1>7, <1>8 DEF IsRow
<1>15. Len(Ranges6) = 6
  BY <1>8
<1>16. \E y : IsRow(1, y, 8, "Multicast") /\ y[1] = 255
  BY <1>9
<1>17. \E y : /\ IsRow(2, y, 128, "Loopback") /\ y[1] = 254 /\ y[2] = 128
              /\ (\A i \in 3 .. 15 : y[i] = 0) /\ y[16] = 1
  BY <1>10
<1>18. \E y : IsRow(3, y, 10, "LinkLocal") /\ y[1] = 254 /\ y[2] = 128
  BY <1>11
<1>19. \E y : IsRow(4, y, 7, "Private") /\ y[1] = 252
  BY <1>12
<1>20. \E y : IsRow(5, y, 128, "Loopback") /\ (\A i \in 1 .. 15 : y[i] = 0) /\ y[16] = 1
  BY <1>13
<1>21. \E y : IsRow(6, y, 128, "None") /\ \A i \in 1 .. 16 : y[i] = 0
  BY <1>14
<1> QED
  BY <1>15, <1>16, <1>17, <1>18, <1>19, <1>20, <1>21

\* Addresses whose 128 bits are the same have the same octets.
LEMMA WholePrefix ==
    ASSUME NEW x \in Seq(Octet), NEW y \in Seq(Octet), Len(x) = 16, Len(y) = 16
    PROVE  SamePrefix(x, y, 128) <=> \A i \in 1 .. 16 : x[i] = y[i]
<1> DEFINE n == 16
           q == 16
           r == 0
<1>1. n \in Nat /\ q \in Nat /\ r \in 0 .. 7 /\ 8 * q + r <= 8 * n
  OBVIOUS
<1>6. 8 * q + r = 128 /\ \A j \in 1 .. r : FALSE
  OBVIOUS
<1>2. Len(x) = n /\ Len(y) = n
  OBVIOUS
<1> HIDE DEF n, q, r
<1>3. SamePrefix(x, y, 8 * q + r) <=> SameUpTo(x, y, q, r)
  <2>1. x \in Seq(Octet) /\ y \in Seq(Octet)
    OBVIOUS
  <2> QED
    BY <1>1, <1>2, <2>1, SameOctets, Zenon
<1>4. SameUpTo(x, y, q, r) <=> \A i \in 1 .. q : x[i] = y[i]
  BY <1>6, Zenon DEF SameUpTo
<1>5. SamePrefix(x, y, 128) <=> \A i \in 1 .. q : x[i] = y[i]
  BY <1>3, <1>4, <1>6
<1> QED
  BY <1>5 DEF q

\* The ranges that an IPv6 address is in.
Hit6(k, s) ==
    \/ k = 1 /\ s[1] = 255
    \/ k = 2 /\ s[1] = 254 /\ s[2] = 128 /\ ZeroUpToLast(s, 3) /\ s[16] = 1
    \/ k = 3 /\ s[1] = 254 /\ s[2] \div 64 = 2
    \/ k = 4 /\ s[1] \div 2 = 126
    \/ k = 5 /\ ZeroUpToLast(s, 1) /\ s[16] = 1
    \/ k = 6 /\ ZeroUpToLast(s, 1) /\ s[16] = 0

\* It is in the rows that its octets say.
LEMMA Hits6 ==
    ASSUME NEW s \in Ip6
    PROVE  /\ \A k \in 1 .. 6 : InRange(s, Ranges6[k]) <=> Hit6(k, s)
           /\ Ranges6[1][3] = "Multicast" /\ Ranges6[2][3] = "Loopback" /\ Ranges6[3][3] = "LinkLocal"
           /\ Ranges6[4][3] = "Private" /\ Ranges6[5][3] = "Loopback" /\ Ranges6[6][3] = "None"
<1> DEFINE H(k) == InRange(s, Ranges6[k])
<1>0. s \in Seq(Octet) /\ Len(s) = 16
  BY IpSeq
<1>1. ASSUME NEW k, NEW y, NEW n, NEW v, IsRow(k, y, n, v)
      PROVE  /\ H(k) <=> SamePrefix(s, y, n)
             /\ Ranges6[k][3] = v /\ y \in Seq(Octet) /\ Len(y) = 16
  <2>1. Ranges6[k] = <<y, n, v>> /\ y \in Seq(Octet) /\ Len(y) = 16
    BY <1>1, Zenon DEF IsRow
  <2>2. Ranges6[k][1] = y /\ Ranges6[k][2] = n /\ Ranges6[k][3] = v
    BY <2>1
  <2> QED
    BY <2>1, <2>2, Zenon DEF InRange
<1>2. ASSUME NEW y \in Seq(Octet), Len(y) = 16
      PROVE  /\ SamePrefix(s, y, 7) <=> s[1] \div 2 = y[1] \div 2
             /\ SamePrefix(s, y, 8) <=> s[1] = y[1]
             /\ SamePrefix(s, y, 10) <=> s[1] = y[1] /\ s[2] \div 64 = y[2] \div 64
             /\ SamePrefix(s, y, 128) <=> \A i \in 1 .. 16 : s[i] = y[i]
  <2> DEFINE n == 16
  <2>1. n \in Nat /\ n >= 3 /\ Len(s) = n /\ Len(y) = n
    BY <1>0, <1>2
  <2> HIDE DEF n
  <2>2. /\ SamePrefix(s, y, 7) <=> s[1] \div 2 = y[1] \div 2
        /\ SamePrefix(s, y, 8) <=> s[1] = y[1]
        /\ SamePrefix(s, y, 10) <=> s[1] = y[1] /\ s[2] \div 64 = y[2] \div 64
    BY <1>0, <2>1, RangePrefixes
  <2>3. SamePrefix(s, y, 128) <=> \A i \in 1 .. 16 : s[i] = y[i]
    BY <1>0, <1>2, WholePrefix
  <2> QED
    BY <2>2, <2>3
<1> HIDE DEF H
<1>3. (H(1) <=> s[1] = 255) /\ Ranges6[1][3] = "Multicast"
  <2>1. PICK y : IsRow(1, y, 8, "Multicast") /\ y[1] = 255
    BY Table6
  <2> QED
    BY <1>1, <1>2, <2>1
<1>4. /\ H(2) <=> s[1] = 254 /\ s[2] = 128 /\ ZeroUpToLast(s, 3) /\ s[16] = 1
      /\ Ranges6[2][3] = "Loopback"
  <2>1. PICK y : /\ IsRow(2, y, 128, "Loopback") /\ y[1] = 254 /\ y[2] = 128
                 /\ (\A i \in 3 .. 15 : y[i] = 0) /\ y[16] = 1
    BY Table6
  <2>2. (H(2) <=> \A i \in 1 .. 16 : s[i] = y[i]) /\ Ranges6[2][3] = "Loopback"
    <3>1. IsRow(2, y, 128, "Loopback")
      BY <2>1
    <3>2. /\ H(2) <=> SamePrefix(s, y, 128)
          /\ Ranges6[2][3] = "Loopback" /\ y \in Seq(Octet) /\ Len(y) = 16
      BY <1>1, <3>1
    <3>3. SamePrefix(s, y, 128) <=> \A i \in 1 .. 16 : s[i] = y[i]
      BY <1>2, <3>2
    <3> QED
      BY <3>2, <3>3
  <2>3. /\ \A i \in 1 .. 16 : i = 1 \/ i = 2 \/ i \in 3 .. 15 \/ i = 16
        /\ 1 \in 1 .. 16 /\ 2 \in 1 .. 16 /\ 16 \in 1 .. 16 /\ \A i \in 3 .. 15 : i \in 1 .. 16
    OBVIOUS
  <2> QED
    BY <2>1, <2>2, <2>3 DEF ZeroUpToLast
<1>5. (H(3) <=> s[1] = 254 /\ s[2] \div 64 = 2) /\ Ranges6[3][3] = "LinkLocal"
  <2>1. PICK y : IsRow(3, y, 10, "LinkLocal") /\ y[1] = 254 /\ y[2] = 128
    BY Table6
  <2>2. 128 \div 64 = 2
    OBVIOUS
  <2> QED
    BY <1>1, <1>2, <2>1, <2>2
<1>6. (H(4) <=> s[1] \div 2 = 126) /\ Ranges6[4][3] = "Private"
  <2>1. PICK y : IsRow(4, y, 7, "Private") /\ y[1] = 252
    BY Table6
  <2>2. 252 \div 2 = 126
    OBVIOUS
  <2> QED
    BY <1>1, <1>2, <2>1, <2>2
<1>7. (H(5) <=> ZeroUpToLast(s, 1) /\ s[16] = 1) /\ Ranges6[5][3] = "Loopback"
  <2>1. PICK y : IsRow(5, y, 128, "Loopback") /\ (\A i \in 1 .. 15 : y[i] = 0) /\ y[16] = 1
    BY Table6
  <2>2. (H(5) <=> \A i \in 1 .. 16 : s[i] = y[i]) /\ Ranges6[5][3] = "Loopback"
    <3>1. IsRow(5, y, 128, "Loopback")
      BY <2>1
    <3>2. /\ H(5) <=> SamePrefix(s, y, 128)
          /\ Ranges6[5][3] = "Loopback" /\ y \in Seq(Octet) /\ Len(y) = 16
      BY <1>1, <3>1
    <3>3. SamePrefix(s, y, 128) <=> \A i \in 1 .. 16 : s[i] = y[i]
      BY <1>2, <3>2
    <3> QED
      BY <3>2, <3>3
  <2>3. /\ \A i \in 1 .. 16 : i \in 1 .. 15 \/ i = 16
        /\ 16 \in 1 .. 16 /\ \A i \in 1 .. 15 : i \in 1 .. 16
    OBVIOUS
  <2> QED
    BY <2>1, <2>2, <2>3 DEF ZeroUpToLast
<1>8. (H(6) <=> ZeroUpToLast(s, 1) /\ s[16] = 0) /\ Ranges6[6][3] = "None"
  <2>1. PICK y : IsRow(6, y, 128, "None") /\ \A i \in 1 .. 16 : y[i] = 0
    BY Table6
  <2>2. (H(6) <=> \A i \in 1 .. 16 : s[i] = y[i]) /\ Ranges6[6][3] = "None"
    <3>1. IsRow(6, y, 128, "None")
      BY <2>1
    <3>2. /\ H(6) <=> SamePrefix(s, y, 128)
          /\ Ranges6[6][3] = "None" /\ y \in Seq(Octet) /\ Len(y) = 16
      BY <1>1, <3>1
    <3>3. SamePrefix(s, y, 128) <=> \A i \in 1 .. 16 : s[i] = y[i]
      BY <1>2, <3>2
    <3> QED
      BY <3>2, <3>3
  <2>3. /\ \A i \in 1 .. 16 : i \in 1 .. 15 \/ i = 16
        /\ 16 \in 1 .. 16 /\ \A i \in 1 .. 15 : i \in 1 .. 16
    OBVIOUS
  <2> QED
    BY <2>1, <2>2, <2>3 DEF ZeroUpToLast
<1>9. ASSUME NEW k \in 1 .. 6 PROVE H(k) <=> Hit6(k, s)
  <2> DEFINE z3 == ZeroUpToLast(s, 3)
             z1 == ZeroUpToLast(s, 1)
  <2> HIDE DEF z3, z1
  <2>1. k = 1 \/ k = 2 \/ k = 3 \/ k = 4 \/ k = 5 \/ k = 6
    OBVIOUS
  <2> QED
    BY <1>3, <1>4, <1>5, <1>6, <1>7, <1>8, <2>1 DEF Hit6
<1> QED
  BY <1>3, <1>4, <1>5, <1>6, <1>7, <1>8, <1>9 DEF H

\* What scope sees of an address is the address, but for the second octet of
\* one in fe80::/10.
LEMMA SeenIs ==
    ASSUME NEW ip \in Ip6
    PROVE  /\ Seen(ip) \in Ip6
           /\ ip[1] = 254 /\ ip[2] \div 64 = 2 =>
                Seen(ip)[2] = 128 /\ \A i \in 1 .. 16 : i # 2 => Seen(ip)[i] = ip[i]
           /\ ~(ip[1] = 254 /\ ip[2] \div 64 = 2) => Seen(ip) = ip
<1> DEFINE q == <<254, 128>>
           y == V6(q, <<>>)
<1>1. y \in Seq(Octet) /\ Len(y) = 16 /\ y[1] = 254 /\ y[2] = 128
  <2> DEFINE e == <<>>
  <2>1. q \in Seq(Octet) /\ e \in Seq(Octet) /\ Len(q) = 2 /\ Len(e) = 0 /\ q[1] = 254 /\ q[2] = 128
    BY DEF Octet
  <2>2. 2 \in Nat /\ 0 \in Nat /\ 2 + 0 <= 16
    OBVIOUS
  <2> HIDE DEF q, e
  <2>3. BeginsEnds(V6(q, e), q, 2, e, 0)
    <3>1. q \in Seq(Octet) /\ e \in Seq(Octet) /\ Len(q) = 2 /\ Len(e) = 0
      BY <2>1
    <3> QED
      BY <2>2, <3>1, V6Octets, Zenon
  <2> DEFINE v == V6(q, e)
  <2> HIDE DEF v
  <2>4. v \in Seq(Octet) /\ Len(v) = 16 /\ v[1] = 254 /\ v[2] = 128
    <3>1. BeginsEnds(v, q, 2, e, 0)
      BY <2>3 DEF v
    <3>2. v \in Seq(Octet) /\ Len(v) = 16 /\ \A i \in 1 .. 2 : v[i] = q[i]
      BY <3>1, Zenon DEF BeginsEnds
    <3>3. 1 \in 1 .. 2 /\ 2 \in 1 .. 2
      OBVIOUS
    <3>4. v[1] = q[1] /\ v[2] = q[2]
      BY <3>2, <3>3, Zenon
    <3> QED
      BY <2>1, <3>2, <3>4
  <2> QED
    BY <2>4, Zenon DEF v, e
<1>2. Seen(ip) = IF SamePrefix(ip, y, 10) THEN [ip EXCEPT ![2] = 128] ELSE ip
  BY Zenon DEF Seen
<1> HIDE DEF y
<1>3. SamePrefix(ip, y, 10) <=> ip[1] = 254 /\ ip[2] \div 64 = 2
  <2> DEFINE n == 16
  <2>1. n \in Nat /\ n >= 3 /\ ip \in Seq(Octet) /\ Len(ip) = n /\ Len(y) = n
    BY <1>1, IpSeq
  <2> HIDE DEF n
  <2>2. SamePrefix(ip, y, 10) <=> ip[1] = y[1] /\ ip[2] \div 64 = y[2] \div 64
    BY <1>1, <2>1, RangePrefixes
  <2>3. 128 \div 64 = 2
    OBVIOUS
  <2> QED
    BY <1>1, <2>2, <2>3
<1> DEFINE s == [ip EXCEPT ![2] = 128]
<1>4. s \in Ip6 /\ s[2] = 128 /\ \A i \in 1 .. 16 : i # 2 => s[i] = ip[i]
  BY DEF Ip6, Octet
<1> HIDE DEF s
<1>5. Seen(ip) = IF SamePrefix(ip, y, 10) THEN s ELSE ip
  BY <1>2, Zenon DEF s
<1> QED
  BY <1>3, <1>4, <1>5

\* The class of an IPv6 address.
LEMMA HitClass6 ==
    ASSUME NEW s \in Ip6
    PROVE  /\ \A k \in 1 .. 6 : Hit6(k, s) /\ (\A j \in 1 .. 6 : j < k => ~Hit6(j, s)) =>
                ScopeByRange(s) = Ranges6[k][3]
           /\ (\A j \in 1 .. 6 : ~Hit6(j, s)) => ScopeByRange(s) = "Global"
<1>1. Len(s) # 4
  <2>1. Len(s) = 16
    BY IpSeq
  <2> QED
    BY <2>1
<1>2. ScopeByRange(s) = ClassIn(Ranges6, s)
  BY <1>1, Zenon DEF ScopeByRange, ClassIn
<1>3. Len(Ranges6) = 6
  BY Table6
<1>4. \A k \in 1 .. 6 : InRange(s, Ranges6[k]) <=> Hit6(k, s)
  BY Hits6
<1> DEFINE R == Ranges6
<1> HIDE DEF R
<1>5. Len(R) = 6 /\ Len(R) \in Nat
  BY <1>3 DEF R
<1>6. /\ \A k \in 1 .. Len(R) :
                InRange(s, R[k]) /\ (\A j \in 1 .. Len(R) : j < k => ~InRange(s, R[j])) =>
                    ClassIn(R, s) = R[k][3]
      /\ (\A j \in 1 .. Len(R) : ~InRange(s, R[j])) => ClassIn(R, s) = "Global"
  BY <1>5, FirstRange, Zenon
<1> QED
  BY <1>2, <1>4, <1>5, <1>6, Zenon DEF R

\* scope on an IPv6 address agrees with the table on what it sees of it.
LEMMA Scope6Table ==
    ASSUME NEW ip \in Ip6
    PROVE  Scope6(ip) = ScopeByRange(Seen(ip))
<1> DEFINE s == Seen(ip)
           S == ScopeByRange(s)
           link == ip[1] = 254 /\ ip[2] \div 64 = 2
<1>1. /\ s \in Ip6 /\ s[1] = ip[1] /\ s[16] = ip[16] /\ s[2] \in 0 .. 255 /\ ip[1] \in 0 .. 255 /\ ip[2] \in 0 .. 255
      /\ \A i \in 3 .. 15 : s[i] = ip[i]
      /\ link => s[2] = 128
      /\ ~link => s = ip
  <2>1. /\ 1 \in 1 .. 16 /\ 16 \in 1 .. 16 /\ 1 # 2 /\ 16 # 2 /\ 2 \in 1 .. 16
        /\ \A i \in 3 .. 15 : i \in 1 .. 16 /\ i # 2
    OBVIOUS
  <2>2. \A t \in Ip6 : t[2] \in 0 .. 255 /\ t[1] \in 0 .. 255
    BY <2>1 DEF Ip6, Octet
  <2> HIDE DEF s
  <2> QED
    BY <2>1, <2>2, SeenIs DEF s
<1>2. /\ \A k \in 1 .. 6 : Hit6(k, s) /\ (\A j \in 1 .. 6 : j < k => ~Hit6(j, s)) => S = Ranges6[k][3]
      /\ (\A j \in 1 .. 6 : ~Hit6(j, s)) => S = "Global"
  BY <1>1, HitClass6, Zenon
<1>3. /\ Ranges6[1][3] = "Multicast" /\ Ranges6[2][3] = "Loopback" /\ Ranges6[3][3] = "LinkLocal"
      /\ Ranges6[4][3] = "Private" /\ Ranges6[5][3] = "Loopback" /\ Ranges6[6][3] = "None"
  BY <1>1, Hits6
<1> SUFFICES Scope6(ip) = S
  OBVIOUS
<1> HIDE DEF S, s
<1> DEFINE z1 == ZeroUpToLast(ip, 1)
           z3 == ZeroUpToLast(ip, 3)
<1>4. /\ ZeroUpToLast(s, 3) <=> z3
      /\ ZeroUpToLast(s, 1) <=> z1
      /\ z1 => ip[1] = 0
  <2>1. 1 \in 1 .. 15
    OBVIOUS
  <2>2. z1 => ip[1] = 0
    BY <2>1, Zenon DEF ZeroUpToLast
  <2>3. ZeroUpToLast(s, 1) => ip[1] = 0
    BY <1>1, <2>1, Zenon DEF ZeroUpToLast
  <2>4. ZeroUpToLast(s, 3) <=> z3
    BY <1>1 DEF ZeroUpToLast
  <2>5. ip[1] = 0 => s = ip
    BY <1>1
  <2> QED
    BY <2>2, <2>3, <2>4, <2>5, Zenon
<1> HIDE DEF z1, z3
<1>5. \A k \in 1 .. 6 : Hit6(k, s) <=>
        \/ k = 1 /\ ip[1] = 255
        \/ k = 2 /\ ip[1] = 254 /\ s[2] = 128 /\ z3 /\ ip[16] = 1
        \/ k = 3 /\ ip[1] = 254 /\ s[2] \div 64 = 2
        \/ k = 4 /\ ip[1] \div 2 = 126
        \/ k = 5 /\ z1 /\ ip[16] = 1
        \/ k = 6 /\ z1 /\ ip[16] = 0
  BY <1>1, <1>4 DEF Hit6
<1>6. s[2] \div 64 = 2 /\ ip[1] = 254 => link
  BY <1>1
<1>7. CASE ip[1] = 255
  <2>1. Scope6(ip) = "Multicast"
    BY <1>4, <1>7 DEF Scope6, z1
  <2>2. 1 \in 1 .. 6 /\ Hit6(1, s) /\ \A j \in 1 .. 6 : j < 1 => ~Hit6(j, s)
    BY <1>5, <1>7
  <2> QED
    BY <1>2, <1>3, <2>1, <2>2
<1>8. CASE link
  <2>1. s[2] = 128 /\ 128 \div 64 = 2 /\ ip[1] = 254
    BY <1>1, <1>8
  <2>2. CASE z3 /\ ip[16] = 1
    <3>1. Scope6(ip) = "Loopback"
      BY <1>4, <1>8, <2>1, <2>2 DEF Scope6, z1, z3
    <3>2. 2 \in 1 .. 6 /\ Hit6(2, s) /\ \A j \in 1 .. 6 : j < 2 => ~Hit6(j, s)
      BY <1>5, <2>1, <2>2
    <3> QED
      BY <1>2, <1>3, <3>1, <3>2
  <2>3. CASE ~(z3 /\ ip[16] = 1)
    <3>1. Scope6(ip) = "LinkLocal"
      BY <1>4, <1>8, <2>1, <2>3 DEF Scope6, z1, z3
    <3>2. 3 \in 1 .. 6 /\ Hit6(3, s) /\ \A j \in 1 .. 6 : j < 3 => ~Hit6(j, s)
      BY <1>5, <2>1, <2>3
    <3> QED
      BY <1>2, <1>3, <3>1, <3>2
  <2> QED
    BY <2>2, <2>3
<1>9. CASE ip[1] \div 2 = 126
  <2>1. ip[1] # 255 /\ ip[1] # 254 /\ ip[1] # 0
    BY <1>1, <1>9
  <2>2. Scope6(ip) = "Private"
    BY <1>4, <1>9, <2>1 DEF Scope6, z1
  <2>3. 4 \in 1 .. 6 /\ Hit6(4, s) /\ \A j \in 1 .. 6 : j < 4 => ~Hit6(j, s)
    BY <1>5, <1>9, <2>1
  <2> QED
    BY <1>2, <1>3, <2>2, <2>3
<1>10. CASE z1 /\ ip[16] = 1
  <2>1. ip[1] = 0 /\ 0 \div 2 = 0
    BY <1>4, <1>10
  <2>2. Scope6(ip) = "Loopback"
    BY <1>10, <2>1 DEF Scope6, z1
  <2>3. 5 \in 1 .. 6 /\ Hit6(5, s) /\ \A j \in 1 .. 6 : j < 5 => ~Hit6(j, s)
    BY <1>5, <1>10, <2>1
  <2> QED
    BY <1>2, <1>3, <2>2, <2>3
<1>11. CASE z1 /\ ip[16] = 0
  <2>1. ip[1] = 0 /\ 0 \div 2 = 0
    BY <1>4, <1>11
  <2>2. Scope6(ip) = "None"
    BY <1>11, <2>1 DEF Scope6, z1
  <2>3. 6 \in 1 .. 6 /\ Hit6(6, s) /\ \A j \in 1 .. 6 : j < 6 => ~Hit6(j, s)
    BY <1>5, <1>11, <2>1
  <2> QED
    BY <1>2, <1>3, <2>2, <2>3
<1>12. CASE /\ ip[1] # 255 /\ ~link /\ ip[1] \div 2 # 126
            /\ ~(z1 /\ ip[16] = 1) /\ ~(z1 /\ ip[16] = 0)
  <2>1. Scope6(ip) = "Global"
    BY <1>12 DEF Scope6, z1
  <2>2. \A j \in 1 .. 6 : ~Hit6(j, s)
    BY <1>1, <1>5, <1>6, <1>12
  <2> QED
    BY <1>2, <2>1, <2>2
<1> QED
  BY <1>7, <1>8, <1>9, <1>10, <1>11, <1>12

\* scope classifies every address the program can hold as the ranges in its
\* comments do, in the order of the octets and with the exception that
\* ScopeTable names.
THEOREM ScopeClassifies == Spec => []ScopeTable
<1>1. InetInv => ScopeTable
  <2> SUFFICES ASSUME InetInv
               PROVE  /\ addr.family = AF_INET => Scope4(addr.lo) = ScopeByRange(addr.lo)
                      /\ addr.family = AF_INET6 => scope(addr) = ScopeByRange(Seen(addr.hi))
    BY Zenon DEF ScopeTable
  <2>1. 0 # AF_INET /\ 0 # AF_INET6 /\ AF_INET # AF_INET6
    BY SMT DEF AF_INET, AF_INET6
  <2>2. /\ addr.family = AF_INET => addr.lo \in Ip4
        /\ addr.family = AF_INET6 => addr.hi \in Ip6
    BY <2>1, Members, Zenon DEF InetInv, Proper
  <2>3. ASSUME addr.family = AF_INET6 PROVE scope(addr) = Scope6(addr.hi)
    BY <2>1, <2>3, Zenon DEF scope
  <2> QED
    BY <2>2, <2>3, Scope4Table, Scope6Table, Zenon
<1> QED
  BY <1>1, InetInvariance, PTL
=============================================================================
