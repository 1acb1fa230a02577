---------------------------- MODULE InetAddress ----------------------------
(***************************************************************************)
(* InetAddress (inetaddress.rs): a union of C socket addresses, built and  *)
(* read through whichever member the family calls for, sent as bytes and   *)
(* written as text.  Memory is modelled octet by octet, because the code   *)
(* mixes network order, native order and overlapping members; a u16 or u32 *)
(* value is the sequence of its octets, the most significant first.        *)
(***************************************************************************)
EXTENDS Integers, Sequences, SequencesExt

CONSTANTS
    LittleEndian,  \* the byte order of the machine
    Dangling,      \* what else a read through get_s6_addr may find (see there)
    Ips,           \* octets the program builds addresses from
    Ports,
    Texts,         \* texts the program parses
    PrefixBits,    \* ports that stand for the number of bits of a CIDR range
    MaxUnread      \* bound: addresses on the stream

Octet == 0 .. 255
U16 == 0 .. (256 * 256 - 1)

\* What from_str tells apart in a text (see there).
AnyText == [empty : BOOLEAN, port : {-1} \cup U16,
            ip : {<<>>} \cup [1 .. 4 -> Octet] \cup [1 .. 16 -> Octet]]

ASSUME InetAssumption ==
    /\ LittleEndian \in BOOLEAN
    /\ Dangling \subseteq [1 .. 16 -> Octet]
    /\ Ips \subseteq Seq(Octet)
    /\ Ports \subseteq U16
    /\ Texts \subseteq AnyText
    /\ PrefixBits \subseteq U16

AF_INET == 2
AF_INET6 == 10

VARIABLES
    addr,    \* the memory of an InetAddress
    stream,  \* bytes written and not read yet
    unread   \* the addresses they stand for

vars == <<addr, stream, unread>>

-----------------------------------------------------------------------------
\* The union: lo is sin_addr and sin6_flowinfo, hi is sin_zero and sin6_addr,
\* port is the port of both, in network order.
Zeroes(n) == [i \in 1 .. n |-> 0]
Nil == [family |-> 0, port |-> Zeroes(2), lo |-> Zeroes(4), hi |-> Zeroes(16)]

Memory == [family : {0, AF_INET, AF_INET6}, port : [1 .. 2 -> Octet],
           lo : [1 .. 4 -> Octet], hi : [1 .. 16 -> Octet]]

\* The value that a native load of these octets gives, and from_be of one.
Native(octets) == IF LittleEndian THEN Reverse(octets) ELSE octets
from_be(word) == Native(word)
to_be_bytes(port) == <<port \div 256, port % 256>>

get_s_addr(m) == Native(m.lo)

\* get_s6_addr returns a reference into a copy that it makes of its argument:
\* what a caller reads there is that copy, or whatever has replaced it.
get_s6_addr(m) == {m.hi} \cup Dangling

is_nil(m) == m.family = 0
is_ip(m) == m.family \in {AF_INET, AF_INET6}

ip_bytes(m) ==
    CASE m.family = AF_INET  -> m.lo
      [] m.family = AF_INET6 -> m.hi
      [] OTHER               -> <<>>

port(m) == IF is_ip(m) THEN m.port[1] * 256 + m.port[2] ELSE 0

\* The length that goes with the pointer of c_sockaddr.
c_sockaddr(m) == CASE m.family = AF_INET -> 16 [] m.family = AF_INET6 -> 28 [] OTHER -> 0

\* key(): the octets as one integer, without the family.
key(m) ==
    CASE m.family = AF_INET  -> <<Zeroes(12) \o get_s_addr(m), Native(m.port)>>
      [] m.family = AF_INET6 -> <<Native(m.hi), Native(m.port)>>
      [] OTHER               -> <<Zeroes(16), Zeroes(2)>>

\* What the conversions to std::net types may give, by the families that the
\* type has room for; an error or None is the empty sequence.
try_into_IpAddr(m, families) ==
    IF m.family \notin families THEN {<<>>}
    ELSE IF m.family = AF_INET THEN {<<m.lo>>}
    ELSE {<<a>> : a \in get_s6_addr(m)}
try_into_SocketAddr(m, families) ==
    IF m.family \notin families THEN {<<>>}
    ELSE IF m.family = AF_INET THEN {<<[ip |-> m.lo, port |-> port(m)]>>}
    ELSE {<<[ip |-> a, port |-> port(m)]>> : a \in get_s6_addr(m)}
to_socketaddr(m) == try_into_SocketAddr(m, {AF_INET, AF_INET6})

-----------------------------------------------------------------------------
\* set on memory m.
set_NoZero(m, ip, p) ==
    CASE Len(ip) = 4  -> [m EXCEPT !.family = AF_INET, !.port = to_be_bytes(p), !.lo = ip]
      [] Len(ip) = 16 -> [m EXCEPT !.family = AF_INET6, !.port = to_be_bytes(p), !.hi = ip]
      [] OTHER        -> Nil
set_AnyLength(m, ip, p) ==
    IF Len(ip) = 4 THEN [Nil EXCEPT !.family = AF_INET, !.port = to_be_bytes(p), !.lo = ip]
    ELSE [Nil EXCEPT !.family = AF_INET6, !.port = to_be_bytes(p), !.hi = ip]
set(m, ip, p) ==
    CASE Len(ip) = 4  -> [Nil EXCEPT !.family = AF_INET, !.port = to_be_bytes(p), !.lo = ip]
      [] Len(ip) = 16 -> [Nil EXCEPT !.family = AF_INET6, !.port = to_be_bytes(p), !.hi = ip]
      [] OTHER        -> Nil

\* Memory that is not initialised is passed to set: here, what addr was.
from_ip_port(m, ip, p) == set(m, ip, p)
from_IpAddr(m, ip) == from_ip_port(m, ip, 0)
from_SocketAddr(m, sa) == from_ip_port(m, sa.ip, sa.port)

set_port(m, p) == IF is_ip(m) THEN [m EXCEPT !.port = to_be_bytes(p)] ELSE m

ipv4_loopback(p) ==
    [Nil EXCEPT !.family = AF_INET, !.port = to_be_bytes(p), !.lo = <<127, 0, 0, 1>>]
ipv4_any == [Nil EXCEPT !.family = AF_INET]
ipv6_loopback(p) ==
    [Nil EXCEPT !.family = AF_INET6, !.port = to_be_bytes(p), !.hi = Zeroes(15) \o <<1>>]
ipv6_any == [Nil EXCEPT !.family = AF_INET6]

\* Bytes on the wire: 4 or 6, the IP, the port; or 0.
write_bytes_HostPort(m) ==
    CASE m.family = AF_INET  -> <<4>> \o m.lo \o Native(m.port)
      [] m.family = AF_INET6 -> <<6>> \o m.hi \o Native(m.port)
      [] OTHER               -> <<0>>
write_bytes(m) ==
    CASE m.family = AF_INET  -> <<4>> \o m.lo \o m.port
      [] m.family = AF_INET6 -> <<6>> \o m.hi \o m.port
      [] OTHER               -> <<0>>

\* The address at the front and the number of bytes it took; none if the
\* bytes end before it does.  Any first byte but 4 and 6 stands for nil.
read_bytes(b) ==
    LET n == IF b = <<>> THEN 1 ELSE CASE b[1] = 4 -> 7 [] b[1] = 6 -> 19 [] OTHER -> 1
    IN  IF Len(b) < n THEN <<>>
        ELSE IF n = 1 THEN <<[a |-> Nil, n |-> 1]>>
        ELSE <<[a |-> from_ip_port(Nil, SubSeq(b, 2, n - 2), b[n - 1] * 256 + b[n]), n |-> n]>>

\* Text is the octets of the IP that std reads in it (none if it is no IP),
\* whether there is anything at all, and the port behind the slash: a number,
\* or -1 for none or one that is no u16.
NoIp == <<>>
to_ip_string(m) == IF is_ip(m) THEN ip_bytes(m) ELSE NoIp
to_string(m) == [empty |-> FALSE, ip |-> to_ip_string(m), port |-> IF is_ip(m) THEN port(m) ELSE -1]

\* Err is the empty sequence.  A port that is missing or wrong is 0.
ParsedPort(p) == to_be_bytes(IF p = -1 THEN 0 ELSE p)
from_str_HostPort(s) ==
    IF s.empty THEN <<Nil>>
    ELSE IF s.ip = NoIp THEN <<>>
    ELSE <<[set(Nil, s.ip, 0) EXCEPT !.port = Native(ParsedPort(s.port))]>>
from_str(s) ==
    IF s.empty THEN <<Nil>>
    ELSE IF s.ip = NoIp THEN <<>>
    ELSE <<IF Len(s.ip) = 4
           THEN [Nil EXCEPT !.family = AF_INET, !.port = ParsedPort(s.port), !.lo = s.ip]
           ELSE [Nil EXCEPT !.family = AF_INET6, !.port = ParsedPort(s.port), !.hi = s.ip]>>

-----------------------------------------------------------------------------
eq(m, n) ==
    /\ m.family = n.family
    /\ m.family = AF_INET => m.port = n.port /\ get_s_addr(m) = get_s_addr(n)
    /\ m.family = AF_INET6 => m.port = n.port /\ m.hi = n.hi

\* What hash feeds to the Hasher.
hash(m) ==
    CASE m.family = AF_INET  -> <<m.family, Native(m.port), get_s_addr(m)>>
      [] m.family = AF_INET6 -> <<m.family, Native(m.port), m.hi>>
      [] OTHER               -> <<m.family>>

\* Ordering of octet sequences of one length, as -1, 0 and 1.
Compare(x, y) ==
    IF x = y THEN 0
    ELSE LET i == CHOOSE i \in DOMAIN x : x[i] # y[i] /\ \A j \in 1 .. (i - 1) : x[j] = y[j]
         IN  IF x[i] < y[i] THEN -1 ELSE 1
Then(first, second) == IF first = 0 THEN second ELSE first

\* Families other than these two and nil do not arise.
cmp_Native(m, n) ==
    IF m.family # n.family THEN IF m.family < n.family THEN -1 ELSE 1
    ELSE CASE m.family = AF_INET  -> Then(Compare(get_s_addr(m), get_s_addr(n)),
                                          Compare(m.port, n.port))
           [] m.family = AF_INET6 -> Then(Compare(m.hi, n.hi), Compare(m.port, n.port))
           [] OTHER               -> 0
cmp(m, n) ==
    IF m.family # n.family THEN IF m.family < n.family THEN -1 ELSE 1
    ELSE CASE m.family = AF_INET ->
                Then(Compare(from_be(get_s_addr(m)), from_be(get_s_addr(n))),
                     Compare(m.port, n.port))
           [] m.family = AF_INET6 -> Then(Compare(m.hi, n.hi), Compare(m.port, n.port))
           [] OTHER               -> 0

\* Bit i of an octet sequence, from the left, and what is left of it when the
\* last d are shifted out.
Bit(x, i) == (x[(i + 7) \div 8] \div 2 ^ ((8 * Len(x) - i) % 8)) % 2
wrapping_shr(x, d) ==
    LET width == 8 * Len(x) IN [i \in 1 .. (width - (d % width)) |-> Bit(x, i)]

\* The outcomes of is_within on two addresses of one family.
Within4_Native(m, c) ==
    LET d == 32 - port(c)
    IN  d >= 0 /\ wrapping_shr(get_s_addr(m), d) = wrapping_shr(get_s_addr(c), d)
Within4(m, c) ==
    LET d == 32 - port(c)
    IN  /\ d >= 0
        /\ wrapping_shr(from_be(get_s_addr(m)), d) = wrapping_shr(from_be(get_s_addr(c)), d)

Within6(a, b, bits) ==
    LET p == bits \div 8
        d == 8 - (bits % 8)
    IN  IF bits > 128 \/ \E i \in 1 .. p : a[i] # b[i] THEN "false"
        ELSE IF p = 16 THEN "panic"
        ELSE IF wrapping_shr(<<a[p + 1]>>, d) = wrapping_shr(<<b[p + 1]>>, d) THEN "true"
        ELSE "false"

is_within(m, c) ==
    IF m.family # c.family THEN {"false"}
    ELSE CASE m.family = AF_INET  -> {IF Within4(m, c) THEN "true" ELSE "false"}
           [] m.family = AF_INET6 ->
                {Within6(a, b, port(c)) : a \in get_s6_addr(m), b \in get_s6_addr(c)}
           [] OTHER               -> {"false"}

-----------------------------------------------------------------------------
PseudoPrivateNets == {6, 21, 22, 25, 26, 28, 29, 30, 51, 55, 56}

\* The nested matches and masks of scope, on an IPv4 address as a u32.
Scope4_WideShared(w) ==
    CASE w[1] \in {0, 255} -> "None"
      [] w[1] = 100 -> IF w[2] \div 128 = 0 THEN "Private" ELSE "Global"
      [] OTHER -> "Global"
Scope4(w) ==
    CASE w[1] \in {0, 255} -> "None"
      [] w[1] = 10  -> "Private"
      [] w[1] = 127 -> "Loopback"
      [] w[1] = 100 -> IF w[2] \div 64 = 1 THEN "Private" ELSE "Global"
      [] w[1] = 169 -> IF w[2] = 254 THEN "LinkLocal" ELSE "Global"
      [] w[1] = 172 -> IF w[2] \div 16 = 1 THEN "Private" ELSE "Global"
      [] w[1] = 192 -> IF w[2] = 168 \/ (w[2] = 0 /\ w[3] = 2) THEN "Private" ELSE "Global"
      [] w[1] = 198 -> IF w[2] \div 2 = 9 \/ (w[2] = 51 /\ w[3] = 100) THEN "Private"
                                                                   ELSE "Global"
      [] w[1] = 203 -> IF w[2] = 0 /\ w[3] = 113 THEN "Private" ELSE "Global"
      [] w[1] \in PseudoPrivateNets -> "PseudoPrivate"
      [] w[1] \div 16 = 14 -> "Multicast"
      [] w[1] \div 16 = 15 /\ w[1] # 255 -> "Private"
      [] OTHER -> "Global"

\* The loops look for the first octet from k on that is not 0, up to the last.
ZeroUpToLast(ip, k) == \A i \in k .. 15 : ip[i] = 0
Scope6(ip) ==
    CASE ip[1] = 255 -> "Multicast"
      [] ip[1] = 254 /\ ip[2] \div 64 = 2 ->
           IF ZeroUpToLast(ip, 3) /\ ip[16] = 1 THEN "Loopback" ELSE "LinkLocal"
      [] ip[1] \div 2 = 126 -> "Private"
      [] ZeroUpToLast(ip, 1) /\ ip[16] = 1 -> "Loopback"
      [] ZeroUpToLast(ip, 1) /\ ip[16] = 0 -> "None"
      [] OTHER -> "Global"

\* scope takes the IPv4 address as the native word.
scope(m) ==
    CASE m.family = AF_INET  -> Scope4(get_s_addr(m))
      [] m.family = AF_INET6 -> Scope6(m.hi)
      [] OTHER               -> "None"

-----------------------------------------------------------------------------
\* One InetAddress and a stream to another program.
Init == addr = Nil /\ stream = <<>> /\ unread = <<>>

Become(m) == addr' = m /\ UNCHANGED <<stream, unread>>

Set == \E ip \in Ips, p \in Ports : Become(set(addr, ip, p))
From ==
    \E ip \in {i \in Ips : Len(i) \in {4, 16}} :
        \/ Become(from_IpAddr(addr, ip))
        \/ \E p \in Ports : Become(from_SocketAddr(addr, [ip |-> ip, port |-> p]))
SetPort == \E p \in Ports : Become(set_port(addr, p))
Zero == Become(Nil)
Construct == \E p \in Ports :
    \E m \in {ipv4_loopback(p), ipv4_any, ipv6_loopback(p), ipv6_any} : Become(m)
Parse == \E s \in Texts : Become(IF from_str(s) = <<>> THEN addr ELSE from_str(s)[1])

Write ==
    /\ Len(unread) < MaxUnread
    /\ stream' = stream \o write_bytes(addr)
    /\ unread' = Append(unread, addr)
    /\ UNCHANGED addr

Read ==
    LET r == read_bytes(stream)
    IN  /\ r # <<>>
        /\ addr' = r[1].a
        /\ stream' = SubSeq(stream, r[1].n + 1, Len(stream))
        /\ unread' = IF unread = <<>> THEN <<>> ELSE Tail(unread)

Next == Set \/ From \/ SetPort \/ Zero \/ Construct \/ Parse \/ Write \/ Read

Spec == Init /\ [][Next]_vars

-----------------------------------------------------------------------------
\* Families, octets and bytes.
TypeOK == addr \in Memory /\ stream \in Seq(Octet) /\ unread \in Seq(Memory)

\* An address never carries bytes of what the memory held before, nor is it
\* ever half nil, whichever way it was built: all of the memory follows from
\* the IP and the port.
Canonical == addr = set(Nil, ip_bytes(addr), port(addr))

\* The order is that of family, IP and port as numbers, on any machine, and
\* eq, cmp and hash agree on which addresses are the same; key does so for
\* addresses of one family.
IdentityConsistent ==
    \A i \in DOMAIN unread :
        LET m == unread[i]
            Rank(a) == <<a.family>> \o ip_bytes(a) \o to_be_bytes(port(a))
            same == addr = m
        IN  /\ cmp(addr, m) = IF addr.family # m.family
                              THEN Compare(<<addr.family>>, <<m.family>>)
                              ELSE Compare(Rank(addr), Rank(m))
            /\ eq(addr, m) = same /\ (hash(addr) = hash(m)) = same
            /\ addr.family = m.family => (key(addr) = key(m)) = same

\* The stream gives back the addresses in the order they were written; cut
\* short inside one it gives none.
ReadsWhatWasWritten ==
    unread # <<>> =>
        LET first == write_bytes(unread[1])
        IN  /\ read_bytes(stream) = <<[a |-> unread[1], n |-> Len(first)]>>
            /\ \A n \in 0 .. (Len(first) - 1) : read_bytes(SubSeq(stream, 1, n)) = <<>>

\* The address that a caller of get_s6_addr deals with: m, or m with other
\* octets in place of its IPv6 address.
AsRead(m) ==
    IF m.family = AF_INET6 THEN {[m EXCEPT !.hi = a] : a \in get_s6_addr(m)} ELSE {m}

\* Text gives an IP address back as it was, down to its memory, and so do
\* std::net types (without the port from those that have none), except that
\* the octets of an IPv6 address come back as whatever get_s6_addr's reference
\* led to: nothing promises that these are the octets of the address.  Nil has
\* no std::net type, and its text is refused.
ConversionsInvert ==
    LET text == from_str(to_string(addr))
    IN  IF is_nil(addr)
        THEN text = <<>> /\ to_socketaddr(addr) = {<<>>} /\ c_sockaddr(addr) = 0
        ELSE /\ text = <<addr>>
             /\ {from_SocketAddr(Nil, sa[1]) : sa \in to_socketaddr(addr)} = AsRead(addr)
             /\ {from_IpAddr(Nil, ip[1]) : ip \in try_into_IpAddr(addr, {addr.family})} =
                  {set_port(m, 0) : m \in AsRead(addr)}

\* The first n bits are the same.
SamePrefix(x, y, n) == \A i \in 1 .. n : Bit(x, i) = Bit(y, i)

\* What is_within's documentation says of a range with this many bits.
Documented(m, c, bits) ==
    IF /\ is_ip(m) /\ m.family = c.family
       /\ bits <= 8 * Len(ip_bytes(m))
       /\ SamePrefix(ip_bytes(m), ip_bytes(c), bits)
    THEN "true" ELSE "false"

\* is_within gives that for the addresses as it read them.
WithinDocumented(m, c, bits) ==
    is_within(m, set_port(c, bits)) =
        {Documented(x, y, bits) : x \in AsRead(m), y \in AsRead(c)}

\* is_within compares exactly the prefix that the range's port says, except
\* for the empty IPv4 prefix and for IPv6 prefixes of whole octets: of the
\* addresses if they are IPv4, of what get_s6_addr's references led to if they
\* are IPv6, which need not be the octets of the addresses.
WithinCountsBits ==
    \A i \in DOMAIN unread, bits \in PrefixBits :
        \/ addr.family = AF_INET /\ bits = 0
        \/ addr.family = AF_INET6 /\ bits % 8 = 0 /\ bits <= 128
        \/ WithinDocumented(addr, unread[i], bits)

\* "Any bits beyond the bit count are ignored", for every bit count.
WithinAsDocumented ==
    \A i \in DOMAIN unread, bits \in PrefixBits : WithinDocumented(addr, unread[i], bits)

\* The ranges that the comments in scope name, the narrower ones first.
Ranges4 == <<
    <<<<0, 0, 0, 0>>, 8, "None">>,           <<<<255, 0, 0, 0>>, 8, "None">>,
    <<<<10, 0, 0, 0>>, 8, "Private">>,       <<<<127, 0, 0, 0>>, 8, "Loopback">>,
    <<<<100, 64, 0, 0>>, 10, "Private">>,    <<<<169, 254, 0, 0>>, 16, "LinkLocal">>,
    <<<<172, 16, 0, 0>>, 12, "Private">>,    <<<<192, 168, 0, 0>>, 16, "Private">>,
    <<<<192, 0, 2, 0>>, 24, "Private">>,     <<<<198, 18, 0, 0>>, 15, "Private">>,
    <<<<198, 51, 100, 0>>, 24, "Private">>,  <<<<203, 0, 113, 0>>, 24, "Private">>,
    <<<<224, 0, 0, 0>>, 4, "Multicast">>,    <<<<240, 0, 0, 0>>, 4, "Private">> >>
    \o LET nets == <<6, 21, 22, 25, 26, 28, 29, 30, 51, 55, 56>>
       IN  [i \in DOMAIN nets |-> <<<<nets[i], 0, 0, 0>>, 8, "PseudoPrivate">>]
V6(front, back) == front \o Zeroes(16 - Len(front) - Len(back)) \o back
Ranges6 == <<
    <<V6(<<255>>, <<>>), 8, "Multicast">>,   <<V6(<<254, 128>>, <<1>>), 128, "Loopback">>,
    <<V6(<<254, 128>>, <<>>), 10, "LinkLocal">>, <<V6(<<252>>, <<>>), 7, "Private">>,
    <<V6(<<>>, <<1>>), 128, "Loopback">>,    <<V6(<<>>, <<>>), 128, "None">> >>
ScopeByRange(ip) ==
    LET ranges == IF Len(ip) = 4 THEN Ranges4 ELSE Ranges6
        i == SelectInSeq(ranges, LAMBDA r : SamePrefix(ip, r[1], r[2]))
    IN  IF i = 0 THEN "Global" ELSE ranges[i][3]

\* What scope sees of an IPv6 address: in fe80::/10, the loop that looks for
\* fe80::1 skips the rest of the second octet.
Seen(ip) == IF SamePrefix(ip, V6(<<254, 128>>, <<>>), 10) THEN [ip EXCEPT ![2] = 128] ELSE ip

\* The masks and the loops of scope classify as the ranges in its comments
\* do, given the octets of an IPv4 address in the order of the address, and
\* but for the six bits that the test for fe80::1 does not look at.
ScopeTable ==
    /\ addr.family = AF_INET => Scope4(addr.lo) = ScopeByRange(addr.lo)
    /\ addr.family = AF_INET6 => scope(addr) = ScopeByRange(Seen(addr.hi))

\* scope classifies every address as its comments say.
ScopeAsCommented == is_ip(addr) => scope(addr) = ScopeByRange(ip_bytes(addr))
=============================================================================
