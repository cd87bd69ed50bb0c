------------------------------ MODULE Replies ------------------------------
(***************************************************************************)
(* The two loops that fill replies, an iteration a step: the character     *)
(* strings of buildTXTRecordOfSize (a DNS reply of a configured size, with *)
(* the sizes buildSizedResponse settles before that loop) and the packets  *)
(* of buildAmplifiedMonlistResponse (an NTP monlist).                      *)
(***************************************************************************)
EXTENDS ReplySizes, FiniteSets

CONSTANTS
    QName,      \* lengths of encoded names
    Target,     \* values of response_size_bytes
    Peers       \* values of num_peers

ASSUME ConstantsAssumption ==
    /\ QName \subseteq Nat \ {0}
    /\ Target \subseteq Nat \ {0}
    /\ Peers \subseteq Nat \ {0}

VARIABLES
    pc,         \* "idle", the loop that runs, or "done"
    qname,      \* DNS: length of the name that was asked for
    target,     \* DNS: targetSize;  NTP: numPeers
    remaining,  \* DNS: bytes of rdata wanted;  NTP: peersRemaining
    rdata,      \* DNS: bytes of rdata so far
    strings,    \* DNS: the length bytes written so far
    peerIdx,    \* NTP: index of the next fake peer
    packets     \* NTP: the packets so far

vars == <<pc, qname, target, remaining, rdata, strings, peerIdx, packets>>

-----------------------------------------------------------------------------
(* buildSizedResponse and buildTXTRecordOfSize                             *)

BeginSized(q, t) ==
    /\ pc = "idle"
    /\ qname' = q
    /\ target' = t
    /\ peerIdx' = 0
    /\ packets' = <<>>

\* the reply with its A record alone is large enough: there is no TXT record
SizedBaseline(q, t) ==
    /\ BeginSized(q, t)
    /\ t <= Baseline(q)
    /\ pc' = "done"
    /\ remaining' = 0
    /\ rdata' = 0
    /\ strings' = <<>>

\* too few bytes for a TXT record: one with the text "A" is added all the same
SizedMinimalTXT(q, t) ==
    /\ BeginSized(q, t)
    /\ t > Baseline(q)
    /\ t - Baseline(q) - RROverhead <= 1
    /\ pc' = "done"
    /\ remaining' = 0
    /\ rdata' = 2
    /\ strings' = <<1>>

StartTXT(q, t) ==
    /\ BeginSized(q, t)
    /\ t > Baseline(q)
    /\ t - Baseline(q) - RROverhead > 1
    /\ pc' = "txt"
    /\ remaining' = t - Baseline(q) - RROverhead
    /\ rdata' = 0
    /\ strings' = <<>>

\* Mutant: the length byte is not counted.
AppendStringNoLength ==
    /\ pc = "txt"
    /\ remaining > 1
    /\ LET strLen == IF remaining < 255 THEN remaining ELSE 255
       IN  /\ strings' = Append(strings, strLen)
           /\ rdata' = rdata + 1 + strLen
           /\ remaining' = remaining - strLen
    /\ UNCHANGED <<pc, qname, target, peerIdx, packets>>

\* one character string: its length byte and at most 255 bytes
AppendString ==
    /\ pc = "txt"
    /\ remaining > 1
    /\ LET strLen == IF remaining - 1 < 255 THEN remaining - 1 ELSE 255
       IN  /\ strings' = Append(strings, strLen)
           /\ rdata' = rdata + 1 + strLen
           /\ remaining' = remaining - (1 + strLen)
    /\ UNCHANGED <<pc, qname, target, peerIdx, packets>>

FinishTXT ==
    /\ pc = "txt"
    /\ remaining <= 1
    /\ pc' = "done"
    /\ UNCHANGED <<qname, target, remaining, rdata, strings, peerIdx, packets>>

\* the message buildSizedResponse assembles
SizedReply ==
    assembleResponse(qname, ARecord + (IF strings = <<>> THEN 0 ELSE RROverhead + rdata))

\* buildRR writes the length of the rdata as 16 bits
RDLength == rdata % 65536

-----------------------------------------------------------------------------
(* buildAmplifiedMonlistResponse                                           *)

StartMonlist(n) ==
    /\ pc = "idle"
    /\ pc' = "monlist"
    /\ target' = n
    /\ remaining' = n
    /\ rdata' = 0
    /\ strings' = <<>>
    /\ peerIdx' = 0
    /\ packets' = <<>>
    /\ UNCHANGED qname

\* Mutant: a packet is the last one when the peers that remain would fit it.
AppendPacketEarlyLast ==
    /\ pc = "monlist"
    /\ Len(packets) < numPackets(target)
    /\ LET items == IF remaining < itemsPerMonlistPkt
                    THEN remaining ELSE itemsPerMonlistPkt
       IN  /\ packets' = Append(packets,
                 [items |-> items, more |-> IF remaining - items > itemsPerMonlistPkt THEN 1 ELSE 0,
                  seq |-> Len(packets) % 128, first |-> peerIdx])
           /\ remaining' = remaining - items
           /\ peerIdx' = peerIdx + items
    /\ UNCHANGED <<pc, qname, target, rdata, strings>>

\* buildMonlistPacket: header with the More flag and a 7-bit sequence number,
\* then the items
AppendPacket ==
    /\ pc = "monlist"
    /\ Len(packets) < numPackets(target)
    /\ LET items == IF remaining < itemsPerMonlistPkt
                    THEN remaining ELSE itemsPerMonlistPkt
       IN  /\ packets' = Append(packets,
                 [items |-> items, more |-> IF Len(packets) = numPackets(target) - 1 THEN 0 ELSE 1,
                  seq |-> Len(packets) % 128, first |-> peerIdx])
           /\ remaining' = remaining - items
           /\ peerIdx' = peerIdx + items
    /\ UNCHANGED <<pc, qname, target, rdata, strings>>

FinishMonlist ==
    /\ pc = "monlist"
    /\ Len(packets) = numPackets(target)
    /\ pc' = "done"
    /\ UNCHANGED <<qname, target, remaining, rdata, strings, peerIdx, packets>>

-----------------------------------------------------------------------------

\* the reply leaves; the next request is served
Return ==
    /\ pc = "done"
    /\ pc' = "idle"
    /\ UNCHANGED <<qname, target, remaining, rdata, strings, peerIdx, packets>>

Init ==
    /\ pc = "idle"
    /\ qname = 1
    /\ target = 0
    /\ remaining = 0
    /\ rdata = 0
    /\ strings = <<>>
    /\ peerIdx = 0
    /\ packets = <<>>

Next ==
    \/ \E q \in QName, t \in Target :
            SizedBaseline(q, t) \/ SizedMinimalTXT(q, t) \/ StartTXT(q, t)
    \/ AppendString
    \/ FinishTXT
    \/ \E n \in Peers : StartMonlist(n)
    \/ AppendPacket
    \/ FinishMonlist
    \/ Return

Spec == Init /\ [][Next]_vars

-----------------------------------------------------------------------------
(* Properties                                                              *)

NeededData == target - Baseline(qname) - RROverhead

\* A resolver that follows the length bytes of the strings arrives at the end of
\* the rdata: all strings but the last are full.
StringsFillRData ==
    /\ \A i \in 1 .. Len(strings) : strings[i] \in 1 .. 255
    /\ \A i \in 1 .. Len(strings) : i < Len(strings) => strings[i] = 255
    /\ rdata = IF strings = <<>> THEN 0
               ELSE 256 * (Len(strings) - 1) + 1 + strings[Len(strings)]

\* The loop of buildTXTRecordOfSize never loses or invents a byte: what is
\* built and what remains add up to the rdata that was asked for, and a string
\* follows only full ones.
TXTLoopInv ==
    pc = "txt" \/ strings # <<>> =>
        /\ StringsFillRData
        /\ target > Baseline(qname)
        /\ IF NeededData <= 1 THEN pc # "txt" /\ rdata = 2
           ELSE /\ remaining >= 0
                /\ rdata + remaining = NeededData
                /\ remaining > 0 => rdata = 256 * Len(strings)

\* The loop of buildAmplifiedMonlistResponse keeps peerIdx and peersRemaining
\* in step with the number of packets it has built.
MonlistLoopInv ==
    pc = "monlist" \/ packets # <<>> =>
        /\ Len(packets) <= numPackets(target)
        /\ peerIdx + remaining = target
        /\ remaining >= 0
        /\ peerIdx = IF Len(packets) = numPackets(target) THEN target
                     ELSE itemsPerMonlistPkt * Len(packets)
        /\ \A i \in 1 .. Len(packets) :
              /\ packets[i].items = ItemsInPacket(target, i)
              /\ packets[i].first = itemsPerMonlistPkt * (i - 1)
              /\ packets[i].more = IF i = numPackets(target) THEN 0 ELSE 1
              /\ packets[i].seq = (i - 1) % 128

PacketType ==
    [items : Int, more : {0, 1}, seq : 0 .. 127, first : Int]

TypeOK ==
    /\ pc \in {"idle", "txt", "monlist", "done"}
    /\ qname \in Nat
    /\ target \in Nat
    /\ remaining \in Int
    /\ rdata \in Nat
    /\ strings \in Seq(Nat)
    /\ peerIdx \in Int
    /\ packets \in Seq(PacketType)
    /\ packets # <<>> => strings = <<>> /\ target > 0

\* The inductive invariant of both loops; a finished loop has left its loop
\* condition false.
LoopInv ==
    /\ TypeOK
    /\ TXTLoopInv
    /\ MonlistLoopInv
    /\ pc = "txt" => packets = <<>>
    /\ pc = "monlist" => strings = <<>> /\ target > 0
    /\ pc = "done" /\ strings # <<>> /\ NeededData > 1 => remaining <= 1
    /\ pc = "done" /\ packets # <<>> => Len(packets) = numPackets(target)
    /\ pc = "done" /\ packets = <<>> /\ strings = <<>> =>
          target <= Baseline(qname) /\ rdata = 0

IsSized == pc = "done" /\ packets = <<>>
IsMonlist == pc = "done" /\ packets # <<>>

\* the smallest reply with a TXT record: one string of one character
SmallestPadded == Baseline(qname) + RROverhead + 2

\* the largest datagram
MaxDatagram == 65507

\* buildSizedResponse builds the length it is charged and logged for, that of the
\* closed form.  It is the configured size, or one byte less exactly where the
\* strings leave a single byte, into which none fits (the test of the size
\* override asks for "at least as large as the target" but tries no such size).
\* Below the smallest padded reply it is that one or, if the reply without
\* padding is large enough, the reply without padding.  The rdata ends where its
\* strings end, and RDLENGTH, a 16-bit field for a size without a bound, is
\* right whenever the size is one a datagram can have.
SizedReplyExact ==
    IsSized =>
        /\ SizedReply = buildSizedResponse(qname, target)
        /\ target >= SmallestPadded =>
              SizedReply = IF NeededData % 256 = 1 THEN target - 1 ELSE target
        /\ target < SmallestPadded =>
              SizedReply = IF target <= Baseline(qname) THEN Baseline(qname)
                           ELSE SmallestPadded
        /\ StringsFillRData
        /\ target <= MaxDatagram => RDLength = rdata

\* A monlist carries every fake peer exactly once, in order, in packets of at
\* most six, of which the last and only the last has the More flag clear; the
\* 7-bit sequence numbers of packets less than 128 apart differ.
MonlistCarriesEveryPeer ==
    IsMonlist =>
        /\ packets[1].first = 0
        /\ \A i \in 1 .. Len(packets) :
              LET p == packets[i]
              IN  /\ p.items = ItemsInPacket(target, i)
                  /\ p.items \in 1 .. itemsPerMonlistPkt
                  /\ p.more = IF i < Len(packets) THEN 1 ELSE 0
                  /\ p.first + p.items =
                        IF i < Len(packets) THEN packets[i + 1].first ELSE target
        /\ \A i, j \in 1 .. Len(packets) :
              i < j /\ packets[i].seq = packets[j].seq => j - i >= 128
=============================================================================
