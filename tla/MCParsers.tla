----------------------------- MODULE MCParsers -----------------------------
(* Parsers on every short datagram over the octets their branches tell      *)
(* apart: 1 and 2 are lengths that fit, 46 is a dot or a length that does   *)
(* not, 192 starts a compression pointer.                                   *)
EXTENDS Parsers

CONSTANT MaxName    \* bound on the octets that vary; up to four more are 0

Body(n) == [minDNSMessageSize .. n - 1 -> {0, 1, 2, Dot, 192}]

Padded(n) ==
    LET end == minDNSMessageSize + MaxName
    IN  { [i \in minDNSMessageSize .. n - 1 |-> IF i < end THEN f[i] ELSE 0] : f \in Body(end) }

MCDNSMessage ==
    UNION { [proto : {"dns"}, len : {n}, qdCount : {0, 1},
             octet : IF n <= 12 + MaxName THEN Body(n) ELSE Padded(n)] :
              n \in {0, 11} \cup (12 .. 12 + MaxName + 4) }

MCNTPPacket ==
    [proto : {"ntp"}, len : {0, 1, 7, 8, 11, 12, 47, 48}, mode : 0 .. 7]

Lines == {[key |-> "end", val |-> ""], [key |-> "other", val |-> ""]}
            \cup [key : {"MAN", "ST"}, val : {"ssdp:discover", "other"}]

MCSSDPRequest ==
    [proto : {"ssdp"}, msearch : BOOLEAN, lines : BoundedSeq(Lines, 4)]
=============================================================================
