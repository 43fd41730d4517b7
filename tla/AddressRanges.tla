---------------------------- MODULE AddressRanges ----------------------------
(***************************************************************************)
(* The classification of IP addresses (packages/security/src/ip.ts).       *)
(*                                                                         *)
(* An IPv4 text is its four numbers, each written with or without a        *)
(* leading zero.  An IPv6 text is the groups before and after "::", if it  *)
(* has one, the last two groups possibly written as an IPv4 address.       *)
(***************************************************************************)
EXTENDS Integers, Sequences

CONSTANTS
  FirstOctets, SecondOctets, ThirdOctets, FourthOctets,   \* IPv4 addresses tried
  GroupLists                                              \* IPv6 addresses tried

VARIABLES
  literal,     \* the text asked about
  verdict      \* classifyIp() of it

addressVars == <<literal, verdict>>

-----------------------------------------------------------------------------
(* IPv4                                                                      *)

unparseable == [safe |-> FALSE, reason |-> "unparseable", version |-> 0]

parseIpv4(text) ==
  IF \/ Len(text.octets) # 4 \/ text.leadingZero
     \/ \E i \in 1..Len(text.octets) : text.octets[i] > 255
  THEN <<>> ELSE text.octets

(* range4(): the network and how many leading bits it fixes.                 *)
range4(base, prefix, reason) == [base |-> base, prefix |-> prefix, reason |-> reason]

BLOCKED_IPV4 == <<
  range4(<<169, 254, 169, 254>>, 32, "cloud-metadata"),
  range4(<<100, 100, 100, 200>>, 32, "cloud-metadata"),
  range4(<<255, 255, 255, 255>>, 32, "broadcast"),
  range4(<<0, 0, 0, 0>>, 8, "unspecified"),      range4(<<10, 0, 0, 0>>, 8, "private"),
  range4(<<100, 64, 0, 0>>, 10, "carrier-nat"),  range4(<<127, 0, 0, 0>>, 8, "loopback"),
  range4(<<169, 254, 0, 0>>, 16, "link-local"),  range4(<<172, 16, 0, 0>>, 12, "private"),
  range4(<<192, 0, 0, 0>>, 24, "reserved"),      range4(<<192, 0, 2, 0>>, 24, "documentation"),
  range4(<<192, 88, 99, 0>>, 24, "reserved"),    range4(<<192, 168, 0, 0>>, 16, "private"),
  range4(<<198, 18, 0, 0>>, 15, "reserved"),     range4(<<198, 51, 100, 0>>, 24, "documentation"),
  range4(<<203, 0, 113, 0>>, 24, "documentation"),
  range4(<<224, 0, 0, 0>>, 4, "multicast"),      range4(<<240, 0, 0, 0>>, 4, "reserved") >>

(* (value & mask) === base, octet by octet.                                  *)
masked(octet, bits) == octet - (octet % (2 ^ (8 - bits)))
bitsOf(prefix, i) == LET left == prefix - 8 * (i - 1) IN
  IF left > 8 THEN 8 ELSE IF left < 0 THEN 0 ELSE left
within(octets, range) ==
  \A i \in 1..4 : masked(octets[i], bitsOf(range.prefix, i)) = range.base[i]

(* Mutant: the last range that contains the address gives the reason.        *)
firstMatchLast(octets) ==
  LET hits == {i \in DOMAIN BLOCKED_IPV4 : within(octets, BLOCKED_IPV4[i])}
  IN IF hits = {} THEN 0 ELSE CHOOSE i \in hits : \A j \in hits : j <= i

(* The loop of classifyIpv4(): the first range that contains the address.    *)
firstMatch(octets) ==
  LET hits == {i \in DOMAIN BLOCKED_IPV4 : within(octets, BLOCKED_IPV4[i])}
  IN IF hits = {} THEN 0 ELSE CHOOSE i \in hits : \A j \in hits : i <= j

classifyIpv4(text) ==
  LET value == parseIpv4(text) IN
  IF value = <<>> THEN unparseable
  ELSE IF firstMatch(value) = 0 THEN [safe |-> TRUE, reason |-> "none", version |-> 4]
  ELSE [safe |-> FALSE, reason |-> BLOCKED_IPV4[firstMatch(value)].reason, version |-> 4]

-----------------------------------------------------------------------------
(* IPv6                                                                      *)

zeros(n) == [i \in 1..n |-> 0]

(* Groups a dotted tail stands for.                                          *)
tailGroups(octets) == <<octets[1] * 256 + octets[2], octets[3] * 256 + octets[4]>>

(* parseIpv6(): the tail first, then "::" is filled up to eight groups.      *)
parseIpv6(text) ==
  LET dotted == IF text.tail = <<>> THEN <<>>
                ELSE tailGroups(parseIpv4([octets |-> text.tail, leadingZero |-> FALSE]))
      head == IF text.gap THEN text.head ELSE text.head \o dotted
      rear == IF text.gap THEN text.rear \o dotted ELSE <<>>
  IN IF text.gap
     THEN IF Len(head) + Len(rear) > 7 THEN <<>>
          ELSE head \o zeros(8 - Len(head) - Len(rear)) \o rear
     ELSE IF Len(head) # 8 THEN <<>> ELSE head

classifyIpv6(text) ==
  LET g == parseIpv6(text)
      zeroTo(n) == \A i \in 1..n : g[i] = 0
      nested == classifyIpv4([octets |-> <<g[7] \div 256, g[7] % 256, g[8] \div 256, g[8] % 256>>,
                              leadingZero |-> FALSE])
      under(n) == g[1] - (g[1] % n)
      rules == << [when |-> zeroTo(8),                                 reason |-> "unspecified"],
                  [when |-> zeroTo(7) /\ g[8] = 1,                     reason |-> "loopback"],
                  [when |-> zeroTo(6) \/ (zeroTo(5) /\ g[6] = 65535),  reason |-> "embedded"],
                  [when |-> under(64) = 65152,                         reason |-> "link-local"],
                  [when |-> under(512) = 64512,                        reason |-> "unique-local"],
                  [when |-> under(256) = 65280,                        reason |-> "multicast"],
                  [when |-> g[1] = 8193 /\ g[2] = 3512,                reason |-> "documentation"],
                  [when |-> g[1] = 256 /\ g[2] = 0 /\ g[3] = 0 /\ g[4] = 0,
                                                                       reason |-> "reserved"],
                  [when |-> TRUE,                                      reason |-> "none"] >>
      rule == rules[CHOOSE i \in DOMAIN rules : rules[i].when /\ \A j \in 1..(i - 1) : ~rules[j].when]
  IN IF g = <<>> THEN unparseable
     ELSE IF rule.reason = "embedded" THEN [nested EXCEPT !.version = 6]
     ELSE [safe |-> rule.reason = "none", reason |-> rule.reason, version |-> 6]

classifyIp(text) == IF text.version = 6 THEN classifyIpv6(text) ELSE classifyIpv4(text)

-----------------------------------------------------------------------------
(* Texts                                                                     *)

spelling4(octets, leadingZero) ==
  [version |-> 4, octets |-> octets, leadingZero |-> leadingZero]

(* The ways to write eight groups: in full, or with one run of zeros left    *)
(* out, and with or without a dotted tail.                                   *)
spellings6(groups) ==
  LET octetsOf(n) == <<n \div 256, n % 256>>
      last(dotted) == IF dotted THEN 6 ELSE 8
      tail(dotted) == IF dotted THEN octetsOf(groups[7]) \o octetsOf(groups[8]) ELSE <<>>
      full == {[version |-> 6, gap |-> FALSE, head |-> SubSeq(groups, 1, last(d)), rear |-> <<>>,
                tail |-> tail(d)] : d \in BOOLEAN}
      gaps == {z \in [from : 1..8, to : 1..8, dotted : BOOLEAN] :
                 z.from <= z.to /\ z.to <= last(z.dotted) /\ \A i \in z.from..z.to : groups[i] = 0}
      elided == {[version |-> 6, gap |-> TRUE, head |-> SubSeq(groups, 1, z.from - 1),
                  rear |-> SubSeq(groups, z.to + 1, last(z.dotted)), tail |-> tail(z.dotted)] : z \in gaps}
  IN full \cup elided

addressInit == literal = <<>> /\ verdict = unparseable

askIpv4(a, b, c, d, zero) ==
  /\ literal' = spelling4(<<a, b, c, d>>, zero)
  /\ verdict' = classifyIp(literal')

askIpv6(groups) == \E text \in spellings6(groups) :
  literal' = text /\ verdict' = classifyIp(text)

(* One question is asked at a time; the next does not depend on the last.    *)
addressNext ==
  /\ literal = <<>>
  /\ \/ \E a \in FirstOctets, b \in SecondOctets, c \in ThirdOctets, d \in FourthOctets,
           zero \in BOOLEAN : askIpv4(a, b, c, d, zero)
     \/ \E groups \in GroupLists : askIpv6(groups)

-----------------------------------------------------------------------------
(* Properties                                                                *)

(* The blocklist against the networks themselves: an IPv4 address is refused *)
(* for the reason of the smallest network it is in, whatever the order of    *)
(* the list makes of the ones that overlap (ip.ts: "most-specific first so   *)
(* the reported reason is the most useful one").                             *)
smallest(octets) ==
  LET hits == {i \in DOMAIN BLOCKED_IPV4 : within(octets, BLOCKED_IPV4[i])}
  IN IF hits = {} THEN "none"
     ELSE BLOCKED_IPV4[CHOOSE i \in hits :
            \A j \in hits : BLOCKED_IPV4[j].prefix <= BLOCKED_IPV4[i].prefix].reason

(* One address has one verdict: however an IPv6 address is written it parses *)
(* to the same groups, and an IPv4 address mapped into IPv6 is classified as *)
(* it is by itself.                                                          *)
AddressesClassed ==
  literal # <<>> =>
    IF literal.version = 4
    THEN verdict.version = 4 => verdict.reason = smallest(literal.octets)
    ELSE \E groups \in GroupLists :
           /\ literal \in spellings6(groups) /\ parseIpv6(literal) = groups
           /\ (\A i \in 1..5 : groups[i] = 0) /\ groups[6] = 65535 =>
                verdict.reason = smallest(<<groups[7] \div 256, groups[7] % 256,
                                            groups[8] \div 256, groups[8] % 256>>)
=============================================================================
