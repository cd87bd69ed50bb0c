--------------------------- MODULE RepliesProofs ---------------------------
(***************************************************************************)
(* Proofs about Replies, for every name, target size and number of peers:  *)
(* LoopInv is inductive, and it gives the exact size of a padded DNS reply *)
(* and the completeness of a monlist.                                      *)
(***************************************************************************)
EXTENDS Replies, SequenceTheorems, TLAPS

USE DEF dnsHeaderSize, ARecord, RROverhead, itemsPerMonlistPkt

\* The last packet of a monlist holds the peers the full packets left over.
LEMMA PacketCount ==
    ASSUME NEW n \in Nat, n > 0
    PROVE  /\ numPackets(n) \in Nat
           /\ numPackets(n) > 0
           /\ 6 * (numPackets(n) - 1) < n
           /\ n <= 6 * numPackets(n)
    BY DEF numPackets

\* A string of 1 + b bytes after full ones never leaves a byte over.
LEMMA NoByteOver ==
    ASSUME NEW k \in Nat, NEW b \in 1 .. 255
    PROVE  (256 * k + 1 + b) % 256 # 1
<1>1. CASE b = 255
    <2>1. 256 * k + 1 + b = 256 * (k + 1)
        BY <1>1
    <2> QED  BY <2>1
<1>2. CASE b # 255
    <2>1. (256 * k + (1 + b)) % 256 = 1 + b
        BY <1>2
    <2> QED  BY <2>1
<1> QED  BY <1>1, <1>2

\* One byte more than full strings.
LEMMA OneByteOver == \A k \in Nat : (256 * k + 1) % 256 = 1
    OBVIOUS

\* Equal sequence numbers are 128 packets apart.
LEMMA SequenceDistance ==
    ASSUME NEW a \in Nat, NEW b \in Nat, a < b, a % 128 = b % 128
    PROVE  b - a >= 128
    OBVIOUS

\* A 7-bit sequence number.
LEMMA Mod128 == \A n \in Nat : n % 128 \in 0 .. 127
    OBVIOUS

\* Init establishes the inductive invariant.
LEMMA InitLoopInv == Init => LoopInv
    BY DEF Init, LoopInv, TypeOK, TXTLoopInv, MonlistLoopInv

\* A sized reply without the loop, and one with nothing built and everything
\* remaining.
LEMMA BeginSizedStep ==
    ASSUME LoopInv, NEW q \in QName, NEW t \in Target,
           SizedBaseline(q, t) \/ SizedMinimalTXT(q, t) \/ StartTXT(q, t)
    PROVE  LoopInv'
<1>1. /\ q \in Nat /\ t \in Nat /\ Baseline(q) = q + 32
      /\ qname' = q /\ target' = t /\ peerIdx' = 0 /\ packets' = <<>>
    BY ConstantsAssumption
    DEF SizedBaseline, SizedMinimalTXT, StartTXT, BeginSized, Baseline, assembleResponse
<1>2. Baseline(qname)' = q + 32 /\ NeededData' = t - (q + 32) - 12
    BY <1>1 DEF NeededData, Baseline, assembleResponse
<1>3. CASE SizedBaseline(q, t)
    BY <1>1, <1>2, <1>3
    DEF SizedBaseline, LoopInv, TypeOK, TXTLoopInv, MonlistLoopInv
<1>4. CASE SizedMinimalTXT(q, t)
    <2>1. /\ t > q + 32 /\ NeededData' <= 1 /\ pc' = "done" /\ remaining' = 0
          /\ rdata' = 2 /\ strings' = <<1>>
        BY <1>1, <1>2, <1>4 DEF SizedMinimalTXT
    <2>2. strings' \in Seq(Nat) /\ Len(strings') = 1 /\ strings'[1] = 1 /\ strings' # <<>>
        BY <2>1
    <2>3. StringsFillRData'
        BY <2>1, <2>2 DEF StringsFillRData
    <2>4. TXTLoopInv'
        BY <1>1, <1>2, <2>1, <2>3 DEF TXTLoopInv
    <2>5. TypeOK' /\ MonlistLoopInv'
        BY <1>1, <2>1, <2>2 DEF TypeOK, MonlistLoopInv
    <2> QED  BY <1>1, <1>2, <2>1, <2>4, <2>5 DEF LoopInv
<1>5. CASE StartTXT(q, t)
    <2>1. /\ t > q + 32 /\ NeededData' > 1 /\ pc' = "txt" /\ remaining' = NeededData'
          /\ rdata' = 0 /\ strings' = <<>>
        BY <1>1, <1>2, <1>5 DEF StartTXT
    <2>2. StringsFillRData'
        BY <2>1 DEF StringsFillRData
    <2>3. TXTLoopInv'
        BY <1>1, <1>2, <2>1, <2>2 DEF TXTLoopInv
    <2>4. TypeOK' /\ MonlistLoopInv'
        BY <1>1, <1>2, <2>1 DEF TypeOK, MonlistLoopInv
    <2> QED  BY <1>1, <2>1, <2>3, <2>4 DEF LoopInv
<1> QED  BY <1>3, <1>4, <1>5

\* A character string moves its bytes and its length byte from remaining to
\* rdata, and only the last string is not full.
LEMMA AppendStringStep ==
    ASSUME LoopInv, AppendString
    PROVE  LoopInv'
<1> DEFINE strLen == IF remaining - 1 < 255 THEN remaining - 1 ELSE 255
<1>1. /\ pc = "txt" /\ remaining > 1 /\ remaining \in Int /\ rdata \in Nat
      /\ strings \in Seq(Nat) /\ NeededData > 1 /\ rdata + remaining = NeededData
      /\ rdata = 256 * Len(strings) /\ packets = <<>> /\ StringsFillRData
      /\ target > Baseline(qname) /\ qname \in Nat /\ target \in Nat
    <2>1. qname \in Nat /\ target \in Nat /\ NeededData \in Int
        BY DEF LoopInv, TypeOK, NeededData, Baseline, assembleResponse
    <2> QED  BY <2>1 DEF LoopInv, TypeOK, TXTLoopInv, AppendString
<1>2. /\ strings' = Append(strings, strLen)
      /\ rdata' = rdata + 1 + strLen
      /\ remaining' = remaining - (1 + strLen)
      /\ UNCHANGED <<pc, qname, target, peerIdx, packets>>
    BY DEF AppendString
<1>3. strLen \in 1 .. 255
    BY <1>1
<1>4. PICK n \in Nat : n = Len(strings)
    BY <1>1
<1>5. /\ strings' \in Seq(Nat) /\ Len(strings') = n + 1
      /\ \A i \in 1 .. n : strings'[i] = strings[i]
      /\ strings'[n + 1] = strLen /\ strings' # <<>>
    <2> HIDE DEF strLen
    <2> QED  BY <1>1, <1>2, <1>3, <1>4
<1>6. \A i \in 1 .. n : strings[i] = 255
    <2>1. CASE n = 0
        BY <2>1
    <2>2. CASE n # 0
        <3>1. strings # <<>> /\ strings[n] \in 1 .. 255
            <4>1. n \in 1 .. Len(strings) /\ strings # <<>>
                BY <1>1, <1>4, <2>2
            <4>2. \A i \in 1 .. Len(strings) : strings[i] \in 1 .. 255
                BY <1>1 DEF StringsFillRData
            <4> QED  BY <4>1, <4>2
        <3>2. rdata = 256 * (n - 1) + 1 + strings[n]
            BY <1>1, <1>4, <3>1 DEF StringsFillRData
        <3>3. strings[n] = 255
            BY <1>1, <1>4, <3>1, <3>2
        <3>4. \A i \in 1 .. n : i < n => strings[i] = 255
            BY <1>1, <1>4 DEF StringsFillRData
        <3> QED  BY <3>3, <3>4
    <2> QED  BY <2>1, <2>2
<1>7. StringsFillRData'
    <2> HIDE DEF strLen
    <2>1. \A i \in 1 .. (n + 1) : i \in 1 .. n \/ i = n + 1
        BY <1>4
    <2>2. \A i \in 1 .. (n + 1) : strings'[i] \in 1 .. 255 /\ (i < n + 1 => strings'[i] = 255)
        <3> SUFFICES ASSUME NEW i \in 1 .. (n + 1)
                     PROVE  strings'[i] \in 1 .. 255 /\ (i < n + 1 => strings'[i] = 255)
            OBVIOUS
        <3>1. CASE i \in 1 .. n
            <4>1. strings'[i] = 255
                BY <1>5, <1>6, <3>1
            <4> QED  BY <4>1
        <3>2. CASE i = n + 1
            <4>1. strings'[i] = strLen /\ ~(i < n + 1)
                BY <1>4, <1>5, <3>2
            <4> QED  BY <1>3, <4>1
        <3> QED  BY <2>1, <3>1, <3>2
    <2>3. rdata' = 256 * ((n + 1) - 1) + 1 + strings'[n + 1]
        BY <1>1, <1>2, <1>3, <1>4, <1>5
    <2> QED  BY <1>5, <2>2, <2>3 DEF StringsFillRData
<1>8. NeededData' = NeededData /\ Baseline(qname)' = Baseline(qname)
    BY <1>2 DEF NeededData, Baseline
<1>9. TXTLoopInv'
    <2>1. remaining' >= 0 /\ rdata' + remaining' = NeededData'
        BY <1>1, <1>2, <1>8
    <2>2. remaining' > 0 => rdata' = 256 * (n + 1)
        <3>1. CASE remaining - 1 < 255
            BY <1>1, <1>2, <3>1
        <3>2. CASE ~(remaining - 1 < 255)
            <4>1. rdata' = rdata + 256
                BY <1>1, <1>2, <3>2
            <4> QED  BY <1>1, <1>4, <4>1
        <3> QED  BY <3>1, <3>2
    <2> QED  BY <1>1, <1>2, <1>5, <1>7, <1>8, <2>1, <2>2 DEF TXTLoopInv
<1>10. TypeOK' /\ MonlistLoopInv'
    BY <1>1, <1>2, <1>3, <1>5 DEF LoopInv, TypeOK, MonlistLoopInv
<1> QED  BY <1>1, <1>2, <1>9, <1>10 DEF LoopInv

\* A new monlist starts with no packet.
LEMMA StartMonlistStep ==
    ASSUME LoopInv, NEW n \in Peers, StartMonlist(n)
    PROVE  LoopInv'
<1>1. n \in Nat /\ n > 0
    BY ConstantsAssumption
<1>2. numPackets(n) \in Nat /\ numPackets(n) > 0
    BY <1>1, PacketCount
<1> QED
    BY <1>1, <1>2
    DEF StartMonlist, LoopInv, TypeOK, TXTLoopInv, MonlistLoopInv, numPackets

\* A packet takes six peers, the last one what is left.
LEMMA AppendPacketStep ==
    ASSUME LoopInv, AppendPacket
    PROVE  LoopInv'
<1> DEFINE k == Len(packets)
           items == IF remaining < itemsPerMonlistPkt
                    THEN remaining ELSE itemsPerMonlistPkt
           p == [items |-> items,
                 more |-> IF k = numPackets(target) - 1 THEN 0 ELSE 1,
                 seq |-> k % 128, first |-> peerIdx]
<1>1. /\ pc = "monlist" /\ target \in Nat /\ target > 0 /\ remaining \in Int
      /\ peerIdx \in Int /\ packets \in Seq(PacketType) /\ strings = <<>>
      /\ k \in Nat /\ k < numPackets(target)
      /\ peerIdx + remaining = target /\ peerIdx = 6 * k
    BY DEF LoopInv, TypeOK, MonlistLoopInv, AppendPacket
<1>2. /\ packets' = Append(packets, p)
      /\ remaining' = remaining - items
      /\ peerIdx' = peerIdx + items
      /\ UNCHANGED <<pc, qname, target, rdata, strings>>
    BY DEF AppendPacket
<1>3. /\ numPackets(target) \in Nat /\ numPackets(target) > 0
      /\ 6 * (numPackets(target) - 1) < target /\ target <= 6 * numPackets(target)
    BY <1>1, PacketCount
<1>4. p \in PacketType
    <2>1. items \in Int /\ peerIdx \in Int /\ k \in Nat
        BY <1>1
    <2>3. k % 128 \in 0 .. 127
        BY <2>1, Mod128
    <2>2. (IF k = numPackets(target) - 1 THEN 0 ELSE 1) \in {0, 1}
        OBVIOUS
    <2> HIDE DEF items, k
    <2> QED  BY <2>1, <2>2, <2>3 DEF PacketType
<1>5. packets' \in Seq(PacketType) /\ Len(packets') = k + 1
    <2> HIDE DEF p
    <2> QED  BY <1>1, <1>2, <1>4
<1>6. /\ \A i \in 1 .. k : packets'[i] = packets[i]
      /\ packets'[k + 1] = p
    <2> HIDE DEF p
    <2> QED  BY <1>1, <1>2, <1>4
<1>7. /\ p.items = ItemsInPacket(target, k + 1)
      /\ p.first = 6 * ((k + 1) - 1)
      /\ p.more = IF k + 1 = numPackets(target) THEN 0 ELSE 1
      /\ p.seq = ((k + 1) - 1) % 128
    BY <1>1, <1>3 DEF ItemsInPacket
<1>8. remaining' >= 0 /\ peerIdx' + remaining' = target
    <2> HIDE DEF k, p
    <2>1. remaining > 0
        BY <1>1, <1>3
    <2> QED  BY <1>1, <1>2, <2>1
<1>9. peerIdx' = IF k + 1 = numPackets(target) THEN target ELSE 6 * (k + 1)
    <2> HIDE DEF k, p
    <2>1. CASE k + 1 = numPackets(target)
        <3>1. remaining <= 6
            BY <2>1, <1>1, <1>3
        <3> QED  BY <2>1, <3>1, <1>1, <1>2
    <2>2. CASE k + 1 # numPackets(target)
        <3> DEFINE n == numPackets(target)
        <3>3. n \in Nat /\ k \in Nat /\ k < n /\ k + 1 # n
            BY <2>2, <1>1, <1>3
        <3>1. 6 * (k + 1) <= 6 * (numPackets(target) - 1)
            <4> HIDE DEF n
            <4>1. k + 1 <= n - 1
                BY <3>3
            <4>2. 6 * (k + 1) <= 6 * (n - 1)
                BY <3>3, <4>1
            <4> QED  BY <4>2 DEF n
        <3>2. ~(remaining < 6)
            BY <3>1, <1>1, <1>3
        <3> QED  BY <2>2, <3>2, <1>1, <1>2
    <2> QED  BY <2>1, <2>2
<1>10. \A i \in 1 .. Len(packets') :
          /\ packets'[i].items = ItemsInPacket(target, i)
          /\ packets'[i].first = 6 * (i - 1)
          /\ packets'[i].more = IF i = numPackets(target) THEN 0 ELSE 1
          /\ packets'[i].seq = (i - 1) % 128
    <2>1. \A i \in 1 .. k :
             /\ packets[i].items = ItemsInPacket(target, i)
             /\ packets[i].first = 6 * (i - 1)
             /\ packets[i].more = IF i = numPackets(target) THEN 0 ELSE 1
             /\ packets[i].seq = (i - 1) % 128
        BY <1>1 DEF LoopInv, MonlistLoopInv
    <2> HIDE DEF p, k
    <2>2. \A i \in 1 .. (k + 1) : i \in 1 .. k \/ i = k + 1
        BY <1>1
    <2> SUFFICES ASSUME NEW i \in 1 .. (k + 1)
                 PROVE  /\ packets'[i].items = ItemsInPacket(target, i)
                        /\ packets'[i].first = 6 * (i - 1)
                        /\ packets'[i].more = IF i = numPackets(target) THEN 0 ELSE 1
                        /\ packets'[i].seq = (i - 1) % 128
        BY <1>5
    <2>3. CASE i \in 1 .. k
        BY <1>6, <2>1, <2>3
    <2>4. CASE i = k + 1
        BY <1>6, <1>7, <2>4
    <2> QED  BY <2>2, <2>3, <2>4
<1>11. MonlistLoopInv'
    <2> HIDE DEF p, items
    <2>1. target' = target /\ Len(packets') <= numPackets(target')
        BY <1>1, <1>2, <1>3, <1>5
    <2>2. peerIdx' = IF Len(packets') = numPackets(target') THEN target'
                     ELSE 6 * Len(packets')
        BY <1>5, <1>9, <2>1
    <2> QED  BY <1>8, <1>10, <2>1, <2>2 DEF MonlistLoopInv
<1>12. TypeOK'
    BY <1>1, <1>2, <1>5, <1>8 DEF LoopInv, TypeOK
<1>13. TXTLoopInv'
    BY <1>1, <1>2 DEF TXTLoopInv
<1> QED  BY <1>1, <1>2, <1>11, <1>12, <1>13 DEF LoopInv

\* The steps that only move the program counter.
LEMMA ControlSteps ==
    ASSUME LoopInv, FinishTXT \/ FinishMonlist \/ Return \/ UNCHANGED vars
    PROVE  LoopInv'
<1>1. UNCHANGED <<qname, target, remaining, rdata, strings, peerIdx, packets>>
    BY DEF FinishTXT, FinishMonlist, Return, vars
<1>2. pc' \in {"idle", "done"} \/ pc' = pc
    BY DEF FinishTXT, FinishMonlist, Return, vars
<1>3. TypeOK'
    BY <1>1, <1>2 DEF LoopInv, TypeOK
<1>4. /\ NeededData' = NeededData /\ Baseline(qname)' = Baseline(qname)
      /\ StringsFillRData' = StringsFillRData
    BY <1>1 DEF NeededData, Baseline, StringsFillRData
<1>5. TXTLoopInv'
    BY <1>1, <1>2, <1>4 DEF LoopInv, TXTLoopInv
<1>6. MonlistLoopInv'
    BY <1>1, <1>2 DEF LoopInv, MonlistLoopInv
<1>7. CASE FinishTXT
    <2>1. /\ pc = "txt" /\ remaining <= 1 /\ pc' = "done" /\ packets = <<>>
        BY <1>7 DEF FinishTXT, LoopInv
    <2>2. strings # <<>>
        <3>1. /\ NeededData \in Int /\ remaining \in Int /\ rdata \in Nat
            BY DEF LoopInv, TypeOK, NeededData, Baseline, assembleResponse
        <3>2. strings = <<>> => rdata = 0
            BY <2>1 DEF LoopInv, TXTLoopInv, StringsFillRData
        <3>3. NeededData > 1 /\ rdata + remaining = NeededData
            BY <2>1, <3>1 DEF LoopInv, TXTLoopInv
        <3> QED  BY <2>1, <3>1, <3>2, <3>3
    <2> QED  BY <1>1, <1>3, <1>4, <1>5, <1>6, <2>1, <2>2 DEF LoopInv
<1>8. CASE FinishMonlist
    <2>1. /\ pc = "monlist" /\ pc' = "done" /\ strings = <<>>
          /\ Len(packets) = numPackets(target) /\ target \in Nat /\ target > 0
        BY <1>8 DEF FinishMonlist, LoopInv, TypeOK
    <2>2. packets # <<>>
        <3>1. numPackets(target) > 0 /\ numPackets(target) \in Nat
            BY <2>1, PacketCount
        <3> QED  BY <2>1, <3>1
    <2> QED  BY <1>1, <1>3, <1>4, <1>5, <1>6, <2>1, <2>2 DEF LoopInv
<1>9. CASE Return
    BY <1>1, <1>3, <1>5, <1>6, <1>9 DEF LoopInv, Return
<1>10. CASE UNCHANGED vars
    BY <1>1, <1>3, <1>4, <1>5, <1>6, <1>10 DEF LoopInv, vars
<1> QED  BY <1>7, <1>8, <1>9, <1>10

\* LoopInv holds throughout both reply-building loops.
THEOREM LoopsKeepCount == Spec => []LoopInv
<1>1. LoopInv /\ [Next]_vars => LoopInv'
    BY BeginSizedStep, AppendStringStep, StartMonlistStep, AppendPacketStep, ControlSteps
    DEF Next
<1> QED  BY InitLoopInv, <1>1, PTL DEF Spec

\* Whatever size is configured, small, large or beyond a datagram, the DNS reply
\* has the length of the closed form, its strings fill its rdata, and RDLENGTH is
\* right for every size a datagram can have.
THEOREM PaddingIsExact == Spec => []SizedReplyExact
<1>1. LoopInv => SizedReplyExact
    <2> SUFFICES ASSUME LoopInv, IsSized
                 PROVE  SizedReplyExact
        BY DEF SizedReplyExact
    <2>1. /\ qname \in Nat /\ target \in Nat /\ rdata \in Nat /\ remaining \in Int
          /\ strings \in Seq(Nat) /\ packets = <<>> /\ pc = "done"
        BY DEF LoopInv, TypeOK, IsSized
    <2>2. /\ Baseline(qname) = qname + 32 /\ NeededData = target - (qname + 32) - 12
          /\ SmallestPadded = qname + 46
        BY <2>1 DEF NeededData, Baseline, assembleResponse, SmallestPadded
    <2>3. CASE strings = <<>>
        <3>1. target <= qname + 32
            BY <2>1, <2>2, <2>3 DEF LoopInv
        <3>2. SizedReply = qname + 32
            BY <2>1, <2>3 DEF SizedReply, assembleResponse
        <3>3. buildSizedResponse(qname, target) = qname + 32
            BY <2>2, <3>1 DEF buildSizedResponse
        <3>4. rdata = 0 /\ StringsFillRData
            <4>1. rdata = 0
                BY <2>1, <2>3 DEF LoopInv
            <4> QED  BY <2>3, <4>1 DEF StringsFillRData
        <3>5. RDLength = rdata
            BY <3>4 DEF RDLength
        <3> QED  BY <2>1, <2>2, <3>1, <3>2, <3>3, <3>4, <3>5 DEF SizedReplyExact
    <2>4. CASE strings # <<>>
        <3>1. StringsFillRData /\ target > qname + 32
            BY <2>2, <2>4 DEF LoopInv, TXTLoopInv
        <3>2. SizedReply = qname + 44 + rdata
            BY <2>1, <2>4 DEF SizedReply, assembleResponse
        <3>3. buildSizedResponse(qname, target)
                = qname + 32 + buildTXTRecordOfSize(target - (qname + 32))
            <4>1. buildSizedResponse(qname, target)
                    = 12 + (qname + 4) + (16 + buildTXTRecordOfSize(target - (qname + 32)))
                BY <2>1, <2>2, <3>1 DEF buildSizedResponse, assembleResponse
            <4>2. buildTXTRecordOfSize(target - (qname + 32)) \in Int
                BY <2>1, <3>1 DEF buildTXTRecordOfSize, buildTXTRecord, RData
            <4> QED  BY <2>1, <4>1, <4>2
        <3>4. CASE NeededData <= 1
            <4>1. rdata = 2
                BY <2>4, <3>4 DEF LoopInv, TXTLoopInv
            <4>2. buildTXTRecordOfSize(target - (qname + 32)) = 14
                BY <2>1, <2>2, <3>4 DEF buildTXTRecordOfSize, buildTXTRecord
            <4>3. RDLength = rdata
                BY <4>1 DEF RDLength
            <4> QED  BY <2>1, <2>2, <3>1, <3>2, <3>3, <3>4, <4>1, <4>2, <4>3 DEF SizedReplyExact
        <3>5. CASE ~(NeededData <= 1)
            <4>1. /\ remaining \in {0, 1} /\ rdata + remaining = NeededData
                  /\ remaining > 0 => rdata = 256 * Len(strings)
                BY <2>1, <2>2, <2>4, <3>5 DEF LoopInv, TXTLoopInv
            <4>2. buildTXTRecordOfSize(target - (qname + 32)) = 12 + RData(NeededData)
                BY <2>1, <2>2, <3>5 DEF buildTXTRecordOfSize
            <4>3. rdata = RData(NeededData)
                <5>1. PICK n \in Nat : n = Len(strings) /\ n > 0
                    BY <2>1, <2>4
                <5>2. CASE remaining = 0
                    <6>1. PICK b \in 1 .. 255 : b = strings[n]
                        <7>1. n \in 1 .. Len(strings)
                            BY <5>1
                        <7>2. \A i \in 1 .. Len(strings) : strings[i] \in 1 .. 255
                            BY <3>1 DEF StringsFillRData
                        <7> QED  BY <7>1, <7>2
                    <6>2. rdata = 256 * (n - 1) + 1 + b /\ n - 1 \in Nat
                        BY <2>4, <3>1, <5>1, <6>1 DEF StringsFillRData
                    <6>3. rdata % 256 # 1
                        BY <6>2, NoByteOver
                    <6> QED  BY <2>1, <4>1, <5>2, <6>3 DEF RData
                <5>3. CASE remaining = 1
                    <6>1. NeededData = 256 * n + 1
                        BY <2>1, <4>1, <5>1, <5>3
                    <6>2. NeededData % 256 = 1
                        BY <5>1, <6>1, OneByteOver
                    <6>3. NeededData - 1 = rdata
                        BY <2>1, <2>2, <4>1, <5>3
                    <6> QED  BY <6>2, <6>3 DEF RData
                <5> QED  BY <4>1, <5>2, <5>3
            <4>4. target <= 65507 => RDLength = rdata
                <5>1. rdata <= target
                    BY <2>1, <2>2, <4>1
                <5> QED  BY <2>1, <5>1 DEF RDLength
            <4>5. /\ SizedReply = buildSizedResponse(qname, target)
                  /\ target >= SmallestPadded
                  /\ SizedReply = IF NeededData % 256 = 1 THEN target - 1 ELSE target
                <5>1. SizedReply = buildSizedResponse(qname, target)
                    BY <2>1, <3>2, <3>3, <4>2, <4>3
                <5>2. target >= SmallestPadded
                    BY <2>1, <2>2, <3>5
                <5>3. SizedReply = target - NeededData + RData(NeededData)
                    BY <2>1, <2>2, <3>2, <4>3
                <5>4. SizedReply = IF NeededData % 256 = 1 THEN target - 1 ELSE target
                    BY <2>1, <2>2, <5>3 DEF RData
                <5> QED  BY <5>1, <5>2, <5>4
            <4> QED  BY <2>1, <2>2, <3>1, <4>4, <4>5 DEF SizedReplyExact, MaxDatagram
        <3> QED  BY <3>4, <3>5
    <2> QED  BY <2>3, <2>4
<1> QED  BY LoopsKeepCount, <1>1, PTL

\* Whatever number of peers is configured, the monlist carries each exactly
\* once and ends with its only packet whose More flag is clear.
THEOREM MonlistIsComplete == Spec => []MonlistCarriesEveryPeer
<1>1. LoopInv => MonlistCarriesEveryPeer
    <2> SUFFICES ASSUME LoopInv, IsMonlist
                 PROVE  MonlistCarriesEveryPeer
        BY DEF MonlistCarriesEveryPeer
    <2> DEFINE n == numPackets(target)
    <2>1. /\ target \in Nat /\ target > 0 /\ packets \in Seq(PacketType)
          /\ Len(packets) = n
        BY DEF LoopInv, TypeOK, IsMonlist
    <2>2. /\ n \in Nat /\ n > 0 /\ 6 * (n - 1) < target /\ target <= 6 * n
        BY <2>1, PacketCount
    <2>3. \A i \in 1 .. n :
             /\ packets[i].items = ItemsInPacket(target, i)
             /\ packets[i].first = 6 * (i - 1)
             /\ packets[i].more = IF i = n THEN 0 ELSE 1
             /\ packets[i].seq = (i - 1) % 128
        BY <2>1 DEF LoopInv, MonlistLoopInv, IsMonlist
    <2> HIDE DEF n
    <2>4. \A i \in 1 .. n : /\ i < n => ItemsInPacket(target, i) = 6
                            /\ ItemsInPacket(target, n) = target - 6 * (n - 1)
        BY <2>1, <2>2 DEF ItemsInPacket
    <2>5. \A i \in 1 .. n :
             /\ packets[i].items \in 1 .. 6
             /\ packets[i].more = IF i < n THEN 1 ELSE 0
             /\ packets[i].first + packets[i].items =
                   IF i < n THEN packets[i + 1].first ELSE target
        <3> SUFFICES ASSUME NEW i \in 1 .. n
                     PROVE  /\ packets[i].items \in 1 .. 6
                            /\ packets[i].more = IF i < n THEN 1 ELSE 0
                            /\ packets[i].first + packets[i].items =
                                  IF i < n THEN packets[i + 1].first ELSE target
            OBVIOUS
        <3>1. CASE i < n
            <4>1. i + 1 \in 1 .. n
                BY <3>1, <2>2
            <4> QED  BY <3>1, <4>1, <2>2, <2>3, <2>4
        <3>2. CASE i = n
            BY <3>2, <2>1, <2>2, <2>3, <2>4
        <3> QED  BY <3>1, <3>2, <2>2
    <2>6. packets[1].first = 0
        BY <2>2, <2>3
    <2>7. \A i, j \in 1 .. n : i < j /\ packets[i].seq = packets[j].seq => j - i >= 128
        <3> SUFFICES ASSUME NEW i \in 1 .. n, NEW j \in 1 .. n,
                            i < j, packets[i].seq = packets[j].seq
                     PROVE  j - i >= 128
            OBVIOUS
        <3>1. /\ i - 1 \in Nat /\ j - 1 \in Nat /\ i - 1 < j - 1
              /\ (i - 1) % 128 = (j - 1) % 128
            BY <2>2, <2>3
        <3>2. (j - 1) - (i - 1) >= 128
            BY <3>1, SequenceDistance
        <3> QED  BY <2>2, <3>2
    <2> QED  BY <2>1, <2>2, <2>3, <2>5, <2>6, <2>7 DEF MonlistCarriesEveryPeer
<1> QED  BY LoopsKeepCount, <1>1, PTL
=============================================================================
