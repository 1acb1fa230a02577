--------------------------- MODULE MCInetAddress ---------------------------
(***************************************************************************)
(* Addresses for TLC: inside and just outside each range that scope knows, *)
(* pairs that differ in one octet or bit, and octets of a wrong length.    *)
(***************************************************************************)
EXTENDS InetAddress

MCIps ==
    {<<1, 2, 3>>, <<10, 1, 2, 3>>, <<11, 1, 2, 3>>, <<3, 2, 1, 10>>, <<0, 0, 0, 9>>,
     <<255, 1, 1, 1>>, <<100, 64, 1, 1>>, <<100, 128, 1, 1>>, <<169, 254, 1, 1>>,
     <<172, 31, 1, 1>>, <<172, 32, 1, 1>>, <<192, 0, 2, 1>>, <<198, 19, 1, 1>>,
     <<198, 20, 1, 1>>, <<203, 0, 113, 1>>, <<56, 1, 1, 1>>, <<239, 1, 1, 1>>,
     <<254, 1, 1, 1>>,
     V6(<<254, 128>>, <<1>>), V6(<<254, 128>>, <<1, 0>>), V6(<<254, 129>>, <<1>>),
     V6(<<254, 192>>, <<1>>), V6(<<253, 2>>, <<1>>), V6(<<255, 2>>, <<1>>),
     V6(<<32, 1, 13, 184, 128>>, <<>>), V6(<<32, 1, 13, 184, 129>>, <<>>)}

\* What lies where get_s6_addr's copy was: another address of MCIps.
MCDangling == {V6(<<32, 1, 13, 184, 129>>, <<>>)}

\* "", "(null)", "192.168.1.1" and "::2" with no, a wrong and a good port.
Text(ip, p) == [empty |-> FALSE, ip |-> ip, port |-> p]
MCTexts ==
    {[empty |-> TRUE, ip |-> NoIp, port |-> -1], Text(NoIp, 258)}
    \cup {Text(ip, p) : ip \in {<<192, 168, 1, 1>>, V6(<<>>, <<2>>)}, p \in {-1, 258}}
=============================================================================
