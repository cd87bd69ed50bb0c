----------------------------- MODULE MCPipeline -----------------------------
(* Small instances of Pipeline: a few queries and an amplified variant,    *)
(* with budgets that run out within a reply.                               *)
EXTENDS Pipeline

DNSQuery == [proto |-> "dns", kind |-> "query", port |-> 1, qname |-> 13]
DNSJunk == [proto |-> "dns", kind |-> "malformed", port |-> 1]
NTPMonlist == [proto |-> "ntp", kind |-> "query", port |-> 1, mode |-> 7]
SSDPSearch == [proto |-> "ssdp", kind |-> "query", port |-> 1, st |-> 0]
ChargenProbe(port) == [proto |-> "chargen", kind |-> "query", port |-> port]

\* monlist packets of 4, 4 and 1 tokens, an SSDP packet of 3, a DNS reply of 3
Amplified ==
    [dns |-> [mode |-> "", size |-> 300], ntp |-> [mode |-> "amplified", peers |-> 13],
     ssdp |-> [mode |-> "minimal", services |-> 0]]

MCVariant == {Amplified}

MCQuery == {DNSQuery, DNSJunk, NTPMonlist, SSDPSearch, ChargenProbe(1)}

OnlyChargen == {ChargenProbe(1), ChargenProbe(2)}
=============================================================================
