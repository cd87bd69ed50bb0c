------------------------------- MODULE Parsers -------------------------------
(***************************************************************************)
(* The parsers of the DNS, NTP and SSDP use cases, an iteration of their   *)
(* loops a step, and encodeDNSName, which turns a parsed name into octets  *)
(* again for the question of the reply.                                    *)
(*                                                                         *)
(* An index past the end of the datagram would panic in Go and end the     *)
(* process; extent counts the leading octets a parser has touched.         *)
(***************************************************************************)
EXTENDS Integers, SequencesExt

CONSTANTS
    DNSMessage,   \* [proto, len, qdCount, octet], octet from offset 12 on
    NTPPacket,    \* [proto, len, mode]
    SSDPRequest   \* [proto, msearch, lines], the lines after the first one

minDNSMessageSize == 12
Dot == 46
NoDatagram == [proto |-> "none"]
Field == {"HOST", "MAN", "MX", "ST"}

ASSUME HeaderAssumption ==
    /\ \A d \in DNSMessage : d.proto = "dns" /\ d.len \in Nat /\ d.qdCount \in Nat
    /\ \A d \in NTPPacket : d.proto = "ntp" /\ d.len \in Nat /\ d.mode \in 0 .. 7
    /\ \A d \in SSDPRequest : d.proto = "ssdp"

ASSUME OctetAssumption ==
    \A d \in DNSMessage : \A i \in minDNSMessageSize .. d.len - 1 : d.octet[i] \in 0 .. 255

ASSUME LineAssumption ==
    \A d \in SSDPRequest : d.lines \in Seq([key : STRING, val : STRING])

VARIABLES
    pc,         \* "idle", the loop that runs, "accepted" or "rejected"
    data,       \* the datagram
    offset,     \* DNS: offset;  SSDP: lines scanned
    labels,     \* DNS: the labels so far, as slices of the message
    fields,     \* SSDP: Host, MAN, MX and ST
    extent      \* history: octets of the datagram touched so far

vars == <<pc, data, offset, labels, fields, extent>>

\* a use case is handed a datagram
Execute ==
    /\ pc = "idle"
    /\ pc' = "start"
    /\ data' \in DNSMessage \cup NTPPacket \cup SSDPRequest
    /\ UNCHANGED <<offset, labels, fields, extent>>

Is(proto) == pc = "start" /\ data.proto = proto

\* the parser returns; it has read up to the n-th octet
Return(verdict, n) ==
    /\ pc' = verdict
    /\ extent' = n
    /\ UNCHANGED <<data, offset, labels, fields>>

-----------------------------------------------------------------------------
(* ParseQuery and parseQName                                               *)

\* the transaction id and QDCOUNT are read from the header
ParseQuery ==
    /\ Is("dns")
    /\ data.len >= minDNSMessageSize /\ data.qdCount > 0
    /\ pc' = "qname"
    /\ offset' = minDNSMessageSize
    /\ extent' = 6
    /\ UNCHANGED <<data, labels, fields>>

ParseQueryFails ==
    /\ Is("dns")
    /\ \/ data.len < minDNSMessageSize /\ Return("rejected", 0)
       \/ data.len >= minDNSMessageSize /\ data.qdCount = 0 /\ Return("rejected", 6)

length == data.octet[offset]

\* Mutant: only the first octet of a label is known to be there.
FitsUnchecked == offset + 1 <= data.len

Fits == offset + 1 + length <= data.len

parseLabel ==
    /\ pc = "qname"
    /\ offset < data.len
    /\ length \in 1 .. 63
    /\ Fits
    /\ labels' = Append(labels, [first |-> offset + 1, len |-> length])
    /\ offset' = offset + 1 + length
    /\ extent' = offset + 1 + length
    /\ UNCHANGED <<pc, data, fields>>

\* the name runs off the message, or has a label of another type than 00
parseLabelFails ==
    /\ pc = "qname"
    /\ \/ offset >= data.len /\ Return("rejected", extent)
       \/ /\ offset < data.len
          /\ length \div 64 # 0 \/ (length # 0 /\ ~Fits)
          /\ Return("rejected", offset + 1)

\* Mutant: a message that ends with QCLASS is taken for truncated.
TruncatedEarly(end) == end + 4 >= data.len

Truncated(end) == end + 4 > data.len

\* the octet 0 ends the name; QTYPE and QCLASS follow
endOfName ==
    /\ pc = "qname"
    /\ offset < data.len
    /\ length = 0
    /\ offset' = offset + 1
    /\ IF Truncated(offset + 1)
       THEN pc' = "rejected" /\ extent' = offset + 1
       ELSE pc' = "accepted" /\ extent' = offset + 3
    /\ UNCHANGED <<data, labels, fields>>

Octets(first, len) == [i \in 1 .. len |-> data.octet[first + i - 1]]
Text(label) == Octets(label.first, label.len)

\* strings.Join(labels, ".")
Name == IF labels = <<>> THEN <<>>
        ELSE Tail(FlattenSeq([i \in DOMAIN labels |-> <<Dot>> \o Text(labels[i])]))

\* where the string of strings.Split(name, ".") that starts at i ends
EndOfPiece(name, i) ==
    CHOOSE j \in i .. Len(name) + 1 :
        /\ j = Len(name) + 1 \/ name[j] = Dot
        /\ \A k \in i .. j - 1 : name[k] # Dot

\* Mutant: empty pieces between dots are encoded too.
NeverSkipped(piece) == FALSE

Skipped(piece) == piece = <<>>

\* encode[i] is what the loop appends for the pieces from position i on
encodeDNSName(name) ==
    LET encode[i \in 1 .. Len(name) + 1] ==
            LET end == EndOfPiece(name, i)
                label == SubSeq(name, i, end - 1)
                rest == IF end > Len(name) THEN <<0>> ELSE encode[end + 1]
            IN  IF Skipped(label) THEN rest ELSE <<Len(label) % 256>> \o label \o rest
    IN  encode[1]

-----------------------------------------------------------------------------
(* ParseNTPRequest                                                         *)

MinSize(mode) == CASE mode = 7 -> 8 [] mode = 6 -> 12 [] OTHER -> 48

ParseNTPRequest ==
    /\ Is("ntp")
    /\ data.len >= MinSize(data.mode)
    /\ Return("accepted", IF data.mode \in {6, 7} THEN 4 ELSE 48)

ParseNTPRequestFails ==
    /\ Is("ntp")
    /\ data.len < MinSize(data.mode)
    /\ Return("rejected", IF data.len = 0 THEN 0 ELSE 1)

-----------------------------------------------------------------------------
(* ParseSSDPRequest                                                        *)

ParseSSDPRequest ==
    /\ Is("ssdp")
    /\ IF data.msearch THEN Return("headers", 0) ELSE Return("rejected", 0)

line == data.lines[offset + 1]

\* Mutant: the first header of a name wins.
scanLineFirst ==
    /\ pc = "headers"
    /\ offset < Len(data.lines) /\ line.key # "end"
    /\ offset' = offset + 1
    /\ fields' = IF line.key \in Field /\ fields[line.key] = ""
                 THEN [fields EXCEPT ![line.key] = line.val] ELSE fields
    /\ UNCHANGED <<pc, data, labels, extent>>

\* a header of interest is kept, any other line skipped
scanLine ==
    /\ pc = "headers"
    /\ offset < Len(data.lines) /\ line.key # "end"
    /\ offset' = offset + 1
    /\ fields' = IF line.key \in Field
                 THEN [fields EXCEPT ![line.key] = line.val] ELSE fields
    /\ UNCHANGED <<pc, data, labels, extent>>

\* an empty line or the end of the datagram
endOfHeaders ==
    /\ pc = "headers"
    /\ offset < Len(data.lines) => line.key = "end"
    /\ Return("accepted", 0)

IsAmplificationProbe == fields["MAN"] = "ssdp:discover"

-----------------------------------------------------------------------------

\* the use case goes on with the answer of the parser
Done ==
    /\ pc \in {"accepted", "rejected"}
    /\ pc' = "idle"
    /\ data' = NoDatagram
    /\ offset' = 0
    /\ labels' = <<>>
    /\ fields' = [f \in Field |-> ""]
    /\ extent' = 0

Init ==
    /\ pc = "idle"
    /\ data = NoDatagram
    /\ offset = 0
    /\ labels = <<>>
    /\ fields = [f \in Field |-> ""]
    /\ extent = 0

Next ==
    \/ Execute
    \/ ParseQuery \/ ParseQueryFails
    \/ parseLabel \/ parseLabelFails \/ endOfName
    \/ ParseNTPRequest \/ ParseNTPRequestFails
    \/ ParseSSDPRequest \/ scanLine \/ endOfHeaders
    \/ Done

Spec == Init /\ [][Next]_vars

-----------------------------------------------------------------------------
(* Properties                                                              *)

Ended(proto) == pc \in {"accepted", "rejected"} /\ data.proto = proto

\* the datagram at hand, if any
Datagram == DNSMessage \cup NTPPacket \cup SSDPRequest \cup {NoDatagram}

\* What the parsers keep between two steps, inductive: a parser has touched no
\* more than the datagram, the offset in a name points behind the header, and
\* what runs is the parser of the datagram's protocol.
ParserInv ==
    /\ pc \in {"idle", "start", "qname", "headers", "accepted", "rejected"}
    /\ data \in Datagram
    /\ offset \in Nat
    /\ extent \in Nat
    /\ pc \in {"idle", "start"} => extent = 0
    /\ pc = "qname" => /\ data \in DNSMessage
                       /\ data.len >= minDNSMessageSize
                       /\ offset >= minDNSMessageSize
    /\ pc = "headers" => data \in SSDPRequest
    /\ data \in DNSMessage \cup NTPPacket => extent <= data.len

\* No parser of a binary protocol reads an octet the datagram does not have,
\* which would end the process.
ReadsWithinDatagram ==
    pc # "idle" /\ data.proto \in {"dns", "ntp"} => extent <= data.len

\* The name of a DNS message by its definition: a set of places that starts
\* after the header, leads from every label to the one behind it, and has a
\* single end, the octet 0, with room for QTYPE and QCLASS behind it.
WellFormed(d) ==
    /\ d.qdCount > 0
    /\ \E S \in SUBSET (minDNSMessageSize .. d.len - 5) :
          /\ minDNSMessageSize \in S
          /\ \A i \in S : \/ d.octet[i] = 0
                          \/ d.octet[i] \in 1 .. 63 /\ i + 1 + d.octet[i] \in S
          /\ \A i, j \in S : d.octet[i] = 0 /\ d.octet[j] = 0 => i = j

\* ParseQuery accepts exactly the messages with a question and a well-formed
\* name that leaves room for QTYPE and QCLASS.
AcceptsWellFormedQueries ==
    Ended("dns") => (pc = "accepted" <=> WellFormed(data))

\* The name that BuildResponse encodes for the question of the reply is the name
\* of the query, octet by octet, unless a label has a dot in it; then it is
\* another one, but never longer than what was asked.
QuestionIsEchoed ==
    Ended("dns") /\ pc = "accepted" =>
        LET asked == Octets(minDNSMessageSize, offset - minDNSMessageSize)
            echo == encodeDNSName(Name)
        IN  /\ Len(echo) <= Len(asked)
            /\ (\A i \in DOMAIN labels : ~Contains(Text(labels[i]), Dot)) => echo = asked

\* An SSDP request counts as a discovery probe exactly if the last MAN header
\* before the first empty line says so.
ProbeIfLastMANSaysSo ==
    Ended("ssdp") /\ pc = "accepted" =>
        LET InHeader(i) == \A j \in 1 .. i : data.lines[j].key # "end"
            MAN == { i \in DOMAIN data.lines : data.lines[i].key = "MAN" /\ InHeader(i) }
        IN  IsAmplificationProbe <=>
                \E i \in MAN : /\ \A j \in MAN : j <= i
                               /\ data.lines[i].val = "ssdp:discover"
=============================================================================
