---------------------------- MODULE Prefix ----------------------------
(* The addresses and prefixes of prefix.c: masks, containment, comparison, *)
(* and the conversions from and to text.  An address is a sequence of      *)
(* bytes.  The arithmetic is the same for every width of a byte and every  *)
(* length of an address, which are constants here so that all prefixes of  *)
(* a narrow machine can be compared with the bits they stand for; the text *)
(* conversions use the lengths of the code.                                *)
EXTENDS Integers, Sequences, FiniteSets

CONSTANTS PNBBY,   \* bits in a byte: 8 in the code
          Blen,    \* bytes in an address, for each family
          Pairs,   \* the pairs of prefixes that are compared
          Sockets, \* the socket addresses that are compared
          Numbers  \* the numbers that stand after a slash

Families == {"INET", "INET6", "ETHERNET"}
MaxLen(f) == Blen[f] * PNBBY

\* Families without a text: the address of EVPN is a struct evpn_addr, that of
\* AF_UNSPEC a pair of numbers.  FLOWSPEC has no address: see below.
OtherFamilies == {"EVPN", "UNSPEC"}

ASSUME PrefixAssumption ==
  PNBBY \in Nat \ {0} /\ Blen \in [Families \union OtherFamilies -> Nat \ {0}] /\ Blen["INET"] = 4

Bytes == 0..2^PNBBY - 1

-----------------------------------------------------------------------------
(* What the bits are: bit k of a sequence of bytes, counted from 0 at the   *)
(* highest bit of the first byte.                                           *)

prefix_bit(val, k) == (val[k \div PNBBY + 1] \div 2^(PNBBY - 1 - (k % PNBBY))) % 2
SameBits(a, b, n) == \A k \in 0..n - 1 : prefix_bit(a, k) = prefix_bit(b, k)

-----------------------------------------------------------------------------
(* Masks.                                                                    *)

\* A byte and its part under maskbit[n], the n highest bits.
Masked(b, n) == b - (b % 2^(PNBBY - n))
maskbit(n) == Masked(2^PNBBY - 1, n)

maskbytes6(n) == [i \in 1..Blen["INET6"] |->
  maskbit(IF n >= i * PNBBY THEN PNBBY ELSE IF n > (i - 1) * PNBBY THEN n % PNBBY ELSE 0)]
masklen2ip6(masklen) == maskbytes6(masklen)

\* IPv4 addresses are also numbers, in network byte order; and back.
Width4 == MaxLen("INET")
ntohl(a) == ((a[1] * 2^PNBBY + a[2]) * 2^PNBBY + a[3]) * 2^PNBBY + a[4]
htonl(x) == [i \in 1..4 |-> (x \div 2^(PNBBY * (4 - i))) % 2^PNBBY]

\* All ones, shifted left in a wider type, and cut to the width of an address.
masklen2ip(masklen) == htonl(((2^Width4 - 1) * 2^(Width4 - masklen)) % 2^Width4)

\* ip_masklen: leading zeros of the complement.
ip_masklen(netmask) ==
  LET tmp == 2^Width4 - 1 - ntohl(netmask)
  IN CHOOSE n \in 0..Width4 : 2^(Width4 - n) > tmp /\ (n = Width4 \/ 2^(Width4 - n - 1) <= tmp)

\* ip6_masklen: whole bytes of ones, then the bits of one more byte until what
\* is left of it is zero.
ip6_masklen(netmask) ==
  LET full == Cardinality({k \in 1..Blen["INET6"] : \A j \in 1..k : netmask[j] = 2^PNBBY - 1})
      shifts[v \in Bytes] == IF v = 0 THEN 0 ELSE 1 + shifts[(2 * v) % 2^PNBBY]
  IN IF full = Blen["INET6"] THEN full * PNBBY ELSE full * PNBBY + shifts[netmask[full + 1]]

\* Bitwise operations on IPv4 addresses, with a mask and with its complement.
AndMask(a, n) == ntohl(a) - (ntohl(a) % 2^(Width4 - n))
OrRest(a, n) == AndMask(a, n) + 2^(Width4 - n) - 1

apply_mask_ipv6(p) ==
  LET index == p.prefixlen \div PNBBY
  IN [p EXCEPT !.val = [i \in DOMAIN @ |-> IF i <= index THEN @[i]
                                           ELSE IF i = index + 1 THEN Masked(@[i], p.prefixlen % PNBBY)
                                           ELSE 0]]
apply_mask_ipv4(p) == [p EXCEPT !.val = htonl(AndMask(@, p.prefixlen))]
apply_mask(p) == CASE p.family = "INET" -> apply_mask_ipv4(p)
                   [] p.family = "INET6" -> apply_mask_ipv6(p)
                   [] OTHER -> p

\* The classes, by their highest bits.
Top(a, bits) == ntohl(a) \div 2^(Width4 - bits)
IN_CLASSA(a) == Top(a, 1) = 0
IN_CLASSB(a) == Top(a, 2) = 2
IN_CLASSC(a) == Top(a, 3) = 6

apply_classful_mask_ipv4(p) ==
  IF p.prefixlen = Width4 THEN p
  ELSE apply_mask_ipv4([p EXCEPT !.prefixlen = PNBBY * (IF IN_CLASSC(p.val) THEN 3 ELSE IF IN_CLASSB(p.val) THEN 2 ELSE 1)])

ipv4_network_addr(a, masklen) == htonl(AndMask(a, masklen))

\* Two addresses: the other one; with the complement of the mask exclusive-or
\* changes the last bit.
ipv4_broadcast_addr(a, masklen) ==
  IF masklen # Width4 - 1 THEN htonl(OrRest(a, masklen))
  ELSE htonl(IF ntohl(a) % 2 = 0 THEN ntohl(a) + 1 ELSE ntohl(a) - 1)

-----------------------------------------------------------------------------
(* Containment and comparison.                                              *)

\* Variant: the byte that the length divides is compared as a whole.
AgreeWhole(np, pp, len) ==
  LET offset == (len + PNBBY - 1) \div PNBBY IN \A i \in 1..offset : np[i] = pp[i]

\* The bytes up to a length, the last one under its mask.
Agree(np, pp, len) ==
  LET offset == len \div PNBBY
      shift == len % PNBBY
  IN /\ shift # 0 => Masked(np[offset + 1], shift) = Masked(pp[offset + 1], shift)
     /\ \A i \in 1..offset : np[i] = pp[i]

\* A flowspec prefix has a length of its own, in bytes, and a pointer to its
\* rules.  rules is what the pointer points at, ptr the bytes of the pointer itself
\* and of the memory behind it.
SameBytes(a, b, n) == \A i \in 1..n : a[i] = b[i]

\* Neither of the two compares the families.
prefix_match(n, p) ==
  /\ n.prefixlen <= p.prefixlen
  /\ IF n.family = "FLOWSPEC" THEN n.fslen <= p.fslen /\ SameBytes(n.ptr, p.ptr, n.fslen)
     ELSE Agree(n.val, p.val, n.prefixlen)
prefix_match_network_statement(n, p) == Agree(n.val, p.val, n.prefixlen)

\* The whole address; two prefixes of AF_UNSPEC are never the same.
prefix_same(p1, p2) ==
  /\ p1.family = p2.family /\ p1.prefixlen = p2.prefixlen
  /\ IF p1.family = "FLOWSPEC" THEN p1.fslen = p2.fslen /\ SameBytes(p1.ptr, p2.ptr, p2.fslen)
     ELSE p1.family # "UNSPEC" /\ SameBytes(p1.val, p2.val, Blen[p1.family])

prefix_cmp(p1, p2) ==
  LET same == IF p1.family = "FLOWSPEC" THEN p1.fslen = p2.fslen /\ SameBytes(p1.rules, p2.rules, p1.fslen)
              ELSE p1.prefixlen = p2.prefixlen /\ Agree(p1.val, p2.val, p1.prefixlen)
  IN IF p1.family = p2.family /\ same THEN 0 ELSE 1

\* For EVPN eight times the size of the address is compared: the val of an EVPN
\* prefix goes on with the memory behind it.
prefix_common_bits(p1, p2) ==
  LET length == IF p1.family = "EVPN" THEN 8 * Blen["EVPN"] ELSE Blen[p1.family]
      pos == Cardinality({i \in 1..length : \A j \in 1..i : p1.val[j] = p2.val[j]})
      bit == CHOOSE b \in 0..PNBBY - 1 :
               /\ Masked(p1.val[pos + 1], b) = Masked(p2.val[pos + 1], b)
               /\ Masked(p1.val[pos + 1], b + 1) # Masked(p2.val[pos + 1], b + 1)
  IN IF p1.family # p2.family \/ p1.family \in {"UNSPEC", "FLOWSPEC"} THEN -1
     ELSE IF pos = length THEN pos * PNBBY ELSE pos * PNBBY + bit

\* prefix_hash_key: what is hashed, family, length and the bytes that the length
\* reaches into (PSIZE); of a flowspec prefix the rules.
HashedPart(p) ==
  IF p.family = "FLOWSPEC" THEN p.rules
  ELSE [family |-> p.family, prefixlen |-> p.prefixlen,
        val |-> SubSeq(p.val, 1, (p.prefixlen + PNBBY - 1) \div PNBBY)]

\* netmask_str2prefix_str: the length for a network and its mask, or for the
\* network alone by its class; -1 when there is none.
netmask_prefixlen(network, mask) ==
  IF mask # <<>> THEN ip_masklen(mask)
  ELSE IF ntohl(network) = 0 THEN 0
  ELSE IF IN_CLASSC(network) THEN 3 * PNBBY
  ELSE IF IN_CLASSB(network) THEN 2 * PNBBY
  ELSE IF IN_CLASSA(network) THEN PNBBY ELSE -1

-----------------------------------------------------------------------------
(* Socket addresses (sockunion.c): an address with a scope and a port.     *)

\* The IPv6 addresses that stand for an IPv4 one: here the ones that begin with
\* all ones; link-local are the ones that begin with the highest bit alone.
V4Mapped(su) == su.family = "INET6" /\ su.addr[1] = 2^PNBBY - 1
LinkLocal(su) == su.family = "INET6" /\ su.addr[1] = 2^(PNBBY - 1)
Embedded(addr) == SubSeq(addr, Len(addr) - 3, Len(addr))

sockunion_normalise_mapped(su) ==
  IF V4Mapped(su) THEN [family |-> "INET", addr |-> Embedded(su.addr), scope |-> 0, port |-> su.port] ELSE su

sockunion_same(su1, su2) ==
  /\ su1.family = su2.family /\ su1.addr = su2.addr
  /\ LinkLocal(su1) /\ su1.scope # 0 /\ su2.scope # 0 => su1.scope = su2.scope

sockunion_hash(su) == <<su.family, su.addr>>   \* what is hashed

FamilyNumber(su) == IF su.family = "INET" THEN 2 ELSE 10
sockunion_cmp(su1, su2) ==
  LET differ == {i \in 1..Len(su1.addr) : su1.addr[i] # su2.addr[i]}
      i == CHOOSE k \in differ : \A j \in differ : k <= j
  IN IF FamilyNumber(su1) # FamilyNumber(su2) THEN (IF FamilyNumber(su1) > FamilyNumber(su2) THEN 1 ELSE -1)
     ELSE IF differ = {} THEN 0 ELSE IF su1.addr[i] > su2.addr[i] THEN 1 ELSE -1

-----------------------------------------------------------------------------
(* Text.  A string is the form of what stands before a slash, whether there *)
(* is one, and the number after it.  "short" is what inet_aton takes and    *)
(* inet_pton does not, like 10 or 10.1.                                     *)

Forms == {"quad", "short", "six", "mac", "zeromac", "any", "bad"}
MaxBits == [INET |-> 32, INET6 |-> 128, ETHERNET |-> 48]

\* (uint8_t)atoi
Length(str) == str.num % 256
Read(ret, family, len) == [ret |-> ret, p |-> [family |-> family, prefixlen |-> len]]
Unread(p) == [ret |-> 0, p |-> p]

\* With a slash the prefix is written even when the address was refused.
str2prefix_ipv4(str, p) ==
  IF ~str.slash THEN IF str.form = "quad" THEN Read(1, "INET", 32) ELSE Unread(p)
  ELSE IF Length(str) > 32 THEN Unread(p)
  ELSE Read(IF str.form \in {"quad", "short"} THEN 1 ELSE 0, "INET", Length(str))

str2prefix_ipv6(str, p) ==
  IF str.form # "six" THEN Unread(p)
  ELSE IF ~str.slash THEN Read(1, "INET6", 128)
  ELSE IF Length(str) > 128 THEN Unread(p) ELSE Read(1, "INET6", Length(str))

str2prefix_eth(str, p) ==
  IF str.form = "any" /\ ~str.slash THEN Read(1, "ETHERNET", 0)
  ELSE IF (str.slash /\ Length(str) > 48) \/ str.form \notin {"mac", "zeromac"} THEN Unread(p)
  ELSE Read(1, "ETHERNET", IF str.slash THEN Length(str) ELSE IF str.form = "zeromac" THEN 0 ELSE 48)

str2prefix(str, p) ==
  LET four == str2prefix_ipv4(str, p)
      six == str2prefix_ipv6(str, four.p)
      eth == str2prefix_eth(str, six.p)
  IN IF four.ret # 0 THEN four ELSE IF six.ret # 0 THEN six ELSE eth

\* prefix2str writes the length digit by digit.
LengthDigits(prefixlen) ==
  LET z == prefixlen - 100 >= 0
      byte == IF z THEN prefixlen - 100 ELSE prefixlen
      a == byte \div 10
  IN (IF z THEN <<1>> ELSE <<>>) \o (IF a # 0 \/ z THEN <<a>> ELSE <<>>) \o <<byte % 10>>
FromDigits(ds) == LET upto[k \in 0..Len(ds)] == IF k = 0 THEN 0 ELSE 10 * upto[k - 1] + ds[k] IN upto[Len(ds)]
prefix2str(p, form) ==
  [form |-> form, slash |-> TRUE,
   num |-> IF p.family = "ETHERNET" THEN p.prefixlen ELSE FromDigits(LengthDigits(p.prefixlen))]

-----------------------------------------------------------------------------
(* The questions: a pair of prefixes, a pair of socket addresses, a string. *)

VARIABLES topic, x, y
prefixVars == <<topic, x, y>>

PrefixInit ==
  \/ topic = "pair" /\ \E q \in Pairs : x = q[1] /\ y = q[2]
  \/ topic = "sockets" /\ x \in Sockets /\ y \in Sockets
  \/ topic = "text" /\ x \in [form : Forms, slash : BOOLEAN, num : Numbers]
                    /\ y \in [family : Families, prefixlen : {0, 7}]

\* Containment, comparison and the count of common bits agree with the bits: n
\* contains p when it is not longer and p continues it; two prefixes compare
\* equal when each contains the other; and a prefix of another family is
\* contained by the same rule, as nothing looks at the families. What compares
\* the same has the same hash, but equal networks need not: the hash takes whole
\* bytes.
PrefixesAreBits ==
  topic = "pair" /\ x.family # "FLOWSPEC" =>
    LET n == x.prefixlen IN
    /\ prefix_match(x, y) <=> n <= y.prefixlen /\ SameBits(x.val, y.val, n)
    /\ x.family = y.family =>
         /\ prefix_match_network_statement(x, y) <=> SameBits(x.val, y.val, n)
         /\ (prefix_cmp(x, y) = 0) <=> prefix_match(x, y) /\ prefix_match(y, x)
         /\ LET c == prefix_common_bits(x, y) IN
              IF x.family = "UNSPEC" THEN c = -1
              ELSE SameBits(x.val, y.val, c) /\ (c < MaxLen(x.family) => ~SameBits(x.val, y.val, c + 1))
         /\ prefix_same(x, y) => prefix_cmp(x, y) = 0 /\ HashedPart(x) = HashedPart(y)
         /\ HashedPart(apply_mask(x)) = HashedPart(apply_mask(y)) /\ x.family \in {"INET", "INET6"} =>
              prefix_cmp(x, y) = 0

\* Two flowspec prefixes compare equal exactly when they have the same rules, and
\* then have one hash (prefix_cmp and prefix_hash_key, which follow the pointer).
FlowspecCompares ==
  topic = "pair" /\ x.family = "FLOWSPEC" => ((prefix_cmp(x, y) = 0) <=> HashedPart(x) = HashedPart(y))

\* A mask made from a length gives the length back; applying it leaves the
\* network bits and clears the others, so that what is left contains exactly what
\* the prefix contained; the network and the broadcast address enclose the
\* prefix, but for a pair of addresses, where each is the other's broadcast.
MasksCut ==
  topic = "pair" =>
    LET m == apply_mask(x) IN
    /\ x.family = "INET" => ip_masklen(masklen2ip(x.prefixlen)) = x.prefixlen
    /\ x.family = "INET6" => ip6_masklen(masklen2ip6(x.prefixlen)) = x.prefixlen
    /\ x.family \in {"INET", "INET6"} =>
         /\ prefix_cmp(m, x) = 0
         /\ \A k \in x.prefixlen..MaxLen(x.family) - 1 : prefix_bit(m.val, k) = 0
    /\ x.family = "INET" =>
         LET low == ipv4_network_addr(x.val, x.prefixlen)
             high == ipv4_broadcast_addr(x.val, x.prefixlen)
             all == {a \in {x.val, y.val} : SameBits(a, x.val, x.prefixlen)}
             class == apply_classful_mask_ipv4(x)
         IN /\ low = m.val /\ SameBits(high, x.val, x.prefixlen)
            /\ IF x.prefixlen = Width4 - 1 THEN high # x.val /\ ipv4_broadcast_addr(high, x.prefixlen) = x.val
               ELSE \A a \in all : ntohl(low) <= ntohl(a) /\ ntohl(a) <= ntohl(high)
            /\ netmask_prefixlen(x.val, masklen2ip(x.prefixlen)) = x.prefixlen
            /\ ntohl(x.val) # 0 /\ x.prefixlen # Width4 /\ netmask_prefixlen(x.val, <<>>) # -1 =>
                 class.prefixlen = netmask_prefixlen(x.val, <<>>)

\* Socket addresses that count as the same have one hash and compare equal, and
\* comparing is antisymmetric; but of addresses that compare equal, link-local
\* ones on two interfaces are not the same, and one without an interface is the
\* same as either. A mapped address counts as the IPv4 address inside it.
SocketsAgree ==
  topic = "sockets" =>
    /\ sockunion_same(x, y) => sockunion_hash(x) = sockunion_hash(y) /\ sockunion_cmp(x, y) = 0
    /\ sockunion_cmp(x, y) = -sockunion_cmp(y, x)
    /\ sockunion_cmp(x, y) = 0 /\ ~sockunion_same(x, y) => LinkLocal(x) /\ 0 \notin {x.scope, y.scope}
    /\ sockunion_same([x EXCEPT !.scope = 0], x)
    /\ V4Mapped(x) /\ V4Mapped(y) =>
         (sockunion_same(sockunion_normalise_mapped(x), sockunion_normalise_mapped(y)) <=> Embedded(x.addr) = Embedded(y.addr))

\* A string that is read gives a length its family can have, and it is the number
\* after the slash as long as that fits a byte; every prefix can be read back from
\* what prefix2str prints; and a string that is refused leaves the prefix alone, or
\* an IPv4 length that was read before another part was refused.
TextReads ==
  topic = "text" =>
    LET r == str2prefix(x, y) IN
    /\ r.ret # 0 => /\ r.p.prefixlen <= MaxBits[r.p.family]
                    /\ x.slash /\ x.num < 256 => r.p.prefixlen = x.num
                    /\ str2prefix(prefix2str(r.p, x.form), y) = IF x.form = "any" THEN Unread([family |-> "INET", prefixlen |-> 0]) ELSE r
    /\ r.ret = 0 => r.p = y \/ (x.slash /\ r.p.family = "INET" /\ r.p.prefixlen <= 32)
    /\ \A n \in 0..128 : FromDigits(LengthDigits(n)) = n

\* Prefixes and socket addresses compare, mask, read and print as the bits they are
\* (prefix.c, sockunion.c).
PrefixesRight == PrefixesAreBits /\ FlowspecCompares /\ MasksCut /\ SocketsAgree /\ TextReads

\* "When string format is invalid return 0" (str2prefix_ipv4, str2prefix_eth and
\* their kin): no length that the family cannot have is read.  It fails: the number
\* is cut to a byte before it is looked at, so that 256 is read as 0.
LengthsRefused == topic = "text" /\ x.slash /\ str2prefix(x, y).ret # 0 => x.num = str2prefix(x, y).p.prefixlen

\* "the return value is in range 0 ... maximum prefix length for the address
\* family" (prefix_common_bits).  It fails for EVPN, whose size in bits is taken
\* for one in bytes.
CommonBitsInRange ==
  topic = "pair" /\ x.family = y.family /\ x.family \in Families \union {"EVPN"} =>
    prefix_common_bits(x, y) \in 0..MaxLen(x.family)

\* "Return 1 if the address/netmask contained in the prefix structure is the same"
\* (prefix_same).  It fails for flowspec, whose pointers are compared instead of
\* the rules: copies of one prefix are not the same.
FlowspecSame ==
  topic = "pair" /\ x.family = "FLOWSPEC" /\ x.rules = y.rules => prefix_same(x, y)
=============================================================================
