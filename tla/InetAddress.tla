----------------------------- MODULE InetAddress -----------------------------
(***************************************************************************)
(* myMuduo/lib/InetAddress.cpp with Endian.hpp and the address functions   *)
(* of SocketOps.cpp: an address is made from a port, a text or a name, a   *)
(* socket is connected to it, and isSlefConnect looks whether the kernel   *)
(* has connected the socket to itself, as it may for a port nobody listens *)
(* on.                                                                     *)
(*                                                                         *)
(* An address is the union of sockaddr_in and sockaddr_in6 as it lies in   *)
(* memory: family, port, the four bytes that are sin_addr or sin6_flowinfo,*)
(* sin6_addr and the scope.  Numbers are their bytes, the low one first;   *)
(* an IPv6 address is its eight groups.                                    *)
(***************************************************************************)
EXTENDS Integers, Sequences, SequencesExt

CONSTANTS Ports,     \* ports, in host order
          Ips,       \* IPv4 addresses, as bytes in network order
          LocalIps,  \* those of this machine
          Ips6       \* IPv6 addresses

in6addr_any == <<0, 0, 0, 0, 0, 0, 0, 0>>
in6addr_loopback == <<0, 0, 0, 0, 0, 0, 0, 1>>
kInaddrAny == <<0, 0, 0, 0>>
kInaddrLoopback == <<1, 0, 0, 127>>

UINT16_MAX == 65535

ConstantsOK ==
    /\ Ports \subseteq 1 .. UINT16_MAX
    /\ Ips \subseteq [1 .. 4 -> 0 .. 255] /\ kInaddrAny \notin Ips
    /\ LocalIps \subseteq Ips /\ <<127, 0, 0, 1>> \in LocalIps
    /\ Ips6 \subseteq [1 .. 8 -> 0 .. UINT16_MAX] /\ in6addr_any \notin Ips6

VARIABLES addr,         \* an InetAddress
          asked,        \* history: what it was asked to stand for
          local, peer,  \* the two ends of a connected socket, or Zeroed
          selfConnected \* what isSlefConnect returned: "yes", "no" or "unknown"

(* What memZero leaves.                                                     *)
Zeroed == [family |-> "AF_UNSPEC", port |-> <<0, 0>>, word |-> <<0, 0, 0, 0>>,
           ip6 |-> in6addr_any, scope |-> 0]

Bytes16(n) == <<n % 256, n \div 256>>
Number16(bytes) == bytes[1] + (256 * bytes[2])

hostToNetwork16(bytes) == Reverse(bytes)
hostToNetwork32(bytes) == Reverse(bytes)
networkToHost16(bytes) == Reverse(bytes)

sockaddr4(ip, port) ==
    [Zeroed EXCEPT !.family = "AF_INET", !.word = ip,
                   !.port = hostToNetwork16(Bytes16(port))]
sockaddr6(ip, port) ==
    [Zeroed EXCEPT !.family = "AF_INET6", !.ip6 = ip,
                   !.port = hostToNetwork16(Bytes16(port))]

(* InetAddress::InetAddress(port,loopbackOnly,ipv6).                        *)
OfPort(port, loopbackOnly, ipv6) ==
    IF ipv6 THEN sockaddr6(IF loopbackOnly THEN in6addr_loopback ELSE in6addr_any, port)
    ELSE sockaddr4(hostToNetwork32(IF loopbackOnly THEN kInaddrLoopback
                                                   ELSE kInaddrAny), port)

(* A text reads as an address of one family or of none, with or without a   *)
(* colon.                                                                   *)
Texts == [form : {"AF_INET"}, ip : Ips, colon : {FALSE}]
            \cup [form : {"AF_INET6"}, ip : Ips6, colon : {TRUE}]
            \cup [form : {"none"}, ip : {<<>>}, colon : BOOLEAN]

(* fromIpPort: where inet_pton refuses the text a line is logged and the    *)
(* address stays zero, which is the any-address.                            *)
fromIpPort(text, port, family) ==
    IF family = "AF_INET"
    THEN sockaddr4(IF text.form = family THEN text.ip ELSE kInaddrAny, port)
    ELSE sockaddr6(IF text.form = family THEN text.ip ELSE in6addr_any, port)

OfText(text, port, ipv6) ==
    fromIpPort(text, port, IF ipv6 \/ text.colon THEN "AF_INET6" ELSE "AF_INET")

Port(a) == Number16(networkToHost16(a.port))

toPortIp(a) ==
    [port |-> Port(a), ip |-> IF a.family = "AF_INET6" THEN a.ip6 ELSE a.word]

Init ==
    /\ addr = OfPort(0, FALSE, FALSE)
    /\ asked = [port |-> 0, ip |-> kInaddrAny, refused |-> FALSE]
    /\ local = Zeroed /\ peer = Zeroed
    /\ selfConnected = "unknown"

socket == <<local, peer, selfConnected>>

-----------------------------------------------------------------------------
MakeOfPort(port, loopbackOnly, ipv6) ==
    /\ addr' = OfPort(port, loopbackOnly, ipv6)
    /\ asked' = [port |-> port,
                 ip |-> CASE ipv6 /\ loopbackOnly -> in6addr_loopback
                          [] ipv6 /\ ~loopbackOnly -> in6addr_any
                          [] ~ipv6 /\ loopbackOnly -> <<127, 0, 0, 1>>
                          [] OTHER -> kInaddrAny,
                 refused |-> FALSE]
    /\ UNCHANGED socket

MakeOfText(text, port, ipv6) ==
    /\ addr' = OfText(text, port, ipv6)
    /\ asked' = [port |-> port, ip |-> text.ip,
                 refused |-> text.form = "none" \/ (ipv6 /\ text.form = "AF_INET")]
    /\ UNCHANGED socket

(* What gethostbyname_r answers when it has no address for the name.        *)
NoHost == <<>>

(* resolve writes sin_addr into whatever *out is, or returns false and      *)
(* leaves *out standing for what it stood for.                              *)
resolve(he) ==
    /\ \/ /\ he # NoHost
          /\ addr' = [addr EXCEPT !.word = he]
          /\ asked' = [asked EXCEPT !.ip = he, !.refused = FALSE]
       \/ /\ he = NoHost
          /\ UNCHANGED <<addr, asked>>
    /\ UNCHANGED socket

setScopeId(id) ==
    /\ addr' = IF addr.family = "AF_INET6" THEN [addr EXCEPT !.scope = id] ELSE addr
    /\ UNCHANGED <<asked, socket>>

(* What Socket::accept got from the kernel becomes the peer's address.      *)
setSockAddrInet6(ip, port) ==
    /\ addr' = sockaddr4(ip, port)
    /\ asked' = [port |-> port, ip |-> ip, refused |-> FALSE]
    /\ UNCHANGED socket

(* connect passes the size of a sockaddr: EINVAL for AF_INET6.  Otherwise   *)
(* the kernel picks this end, and takes the any-address for this machine.   *)
connect ==
    /\ addr.family = "AF_INET" /\ Port(addr) # 0
    /\ \E ip \in LocalIps, port \in Ports : local' = sockaddr4(ip, port)
    /\ peer' = sockaddr4(IF addr.word = kInaddrAny THEN <<127, 0, 0, 1>> ELSE addr.word,
                         Port(addr))
    /\ selfConnected' = "unknown"
    /\ UNCHANGED <<addr, asked>>

(* Mutant: two ends with the same port are taken for one.                   *)
SameEndPortOnly(a, b) == a.family = "AF_INET" /\ a.port = b.port

SameEnd(a, b) ==
    \/ a.family = "AF_INET" /\ a.port = b.port /\ a.word = b.word
    \/ a.family = "AF_INET6" /\ a.port = b.port /\ a.ip6 = b.ip6

(* getpeername fails for a connection that was reset, and getPeerAddr then  *)
(* returns zeros.  A socket that is its own peer has nobody to reset it.    *)
getPeerAddr == {peer} \cup (IF local = peer THEN {} ELSE {Zeroed})

isSlefConnect ==
    /\ local # Zeroed
    /\ \E there \in getPeerAddr : selfConnected' = IF SameEnd(local, there) THEN "yes" ELSE "no"
    /\ UNCHANGED <<addr, asked, local, peer>>

closeSocket ==
    /\ local' = Zeroed /\ peer' = Zeroed /\ selfConnected' = "unknown"
    /\ UNCHANGED <<addr, asked>>

Next ==
    \/ \E port \in Ports, loopbackOnly, ipv6 \in BOOLEAN :
          MakeOfPort(port, loopbackOnly, ipv6)
    \/ \E text \in Texts, port \in Ports, ipv6 \in BOOLEAN : MakeOfText(text, port, ipv6)
    \/ \E he \in Ips \cup {NoHost} : resolve(he)
    \/ setScopeId(1)
    \/ \E ip \in Ips, port \in Ports : setSockAddrInet6(ip, port)
    \/ local = Zeroed /\ connect
    \/ isSlefConnect
    \/ closeSocket

vars == <<addr, asked, local, peer, selfConnected>>
Spec == Init /\ [][Next]_vars

-----------------------------------------------------------------------------
(* An address goes where it was asked to, whatever the byte orders on the   *)
(* way: the port always, the IP but for a text that inet_pton refused,      *)
(* which means any address (SocketOps.cpp:193-206), and for a name resolved *)
(* into an AF_INET6 address, whose flow label it changes                    *)
(* (InetAddress.cpp:88).  And isSlefConnect says yes exactly for a socket   *)
(* that is its own peer, also when the peer is gone by then.                *)
AddressesAgree ==
    /\ toPortIp(addr).port = asked.port
    /\ \/ ~asked.refused /\ toPortIp(addr).ip = asked.ip
       \/ asked.refused /\ toPortIp(addr).ip \in {kInaddrAny, in6addr_any}
       \/ addr.family = "AF_INET6" /\ addr.word = asked.ip
    /\ selfConnected = "yes" => local = peer
    /\ selfConnected = "no" => local # peer
=============================================================================
