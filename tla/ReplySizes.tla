----------------------------- MODULE ReplySizes -----------------------------
(***************************************************************************)
(* The datagrams the four protocol services build, by their lengths in     *)
(* bytes: what the rate limiter is charged for and the event log records.  *)
(*                                                                         *)
(* A query is [proto, src, ...] with the fields its parser keeps: qname,   *)
(* the length of the encoded name (DNS); mode (NTP); st, the length of a   *)
(* specific search target, 0 when the reply names its own service (SSDP).  *)
(* A variant is [dns, ntp, ssdp], one configuration per protocol.          *)
(***************************************************************************)
EXTENDS Integers, Sequences

-----------------------------------------------------------------------------
(* DNSService                                                              *)

dnsHeaderSize == 12
ARecord == 16
RROverhead == 12
amplifiedTXTCount == 10
amplifiedTXTPayload == 200

assembleResponse(qname, answers) == dnsHeaderSize + (qname + 4) + answers

buildTXTRecord(text) == RROverhead + 1 + (IF text > 255 THEN 255 ELSE text)

\* The loop of buildTXTRecordOfSize in closed form (module Replies runs it):
\* character strings of 1 + 255 bytes and a shorter last one.  A single byte
\* that is left over cannot hold a string and is dropped.
RData(needed) == IF needed % 256 = 1 THEN needed - 1 ELSE needed

buildTXTRecordOfSize(bytes) ==
    IF bytes - RROverhead <= 1 THEN buildTXTRecord(1)
    ELSE RROverhead + RData(bytes - RROverhead)

Baseline(qname) == assembleResponse(qname, ARecord)

buildSizedResponse(qname, size) ==
    IF size <= Baseline(qname) THEN Baseline(qname)
    ELSE assembleResponse(qname,
            ARecord + buildTXTRecordOfSize(size - Baseline(qname)))

\* An unknown mode is an error: nothing is sent.
DNSPackets(qname, cfg) ==
    IF cfg.size > 0 THEN << buildSizedResponse(qname, cfg.size) >>
    ELSE CASE cfg.mode = "minimal"   -> << Baseline(qname) >>
           [] cfg.mode = "amplified" ->
                << assembleResponse(qname, ARecord +
                     (amplifiedTXTCount - 1) * buildTXTRecord(amplifiedTXTPayload)) >>
           [] OTHER -> << >>

-----------------------------------------------------------------------------
(* NTPService                                                              *)

ntpPacketSize == 48
ntpPrivateHeaderSize == 8
monGetlist1ItemSize == 72
itemsPerMonlistPkt == 6

numPackets(peers) == (peers + itemsPerMonlistPkt - 1) \div itemsPerMonlistPkt

\* items carried by the i-th packet (i from 1) of a monlist of that many peers
ItemsInPacket(peers, i) ==
    LET left == peers - (i - 1) * itemsPerMonlistPkt
    IN  IF left < itemsPerMonlistPkt THEN left ELSE itemsPerMonlistPkt

MonlistPacket(items) == ntpPrivateHeaderSize + items * monGetlist1ItemSize

NumPeers(cfg) == IF cfg.peers <= 0 THEN 36 ELSE cfg.peers

NTPPackets(mode, cfg) ==
    CASE mode = 3 -> << ntpPacketSize >>
      [] mode = 7 ->
            IF cfg.mode # "amplified" THEN << ntpPrivateHeaderSize >>
            ELSE [i \in 1 .. numPackets(NumPeers(cfg)) |->
                     MonlistPacket(ItemsInPacket(NumPeers(cfg), i))]
      [] OTHER -> << >>

-----------------------------------------------------------------------------
(* SSDPService and ChargenService                                          *)

\* lengths of fakeServiceTypes
fakeServiceTypes == << 15, 51, 39, 49, 46, 55, 47, 35, 41, 47 >>

\* 225 bytes of fixed text, date and uuid; an address of nine characters
buildResponsePacket(st, service) ==
    225 + 9 + (IF st > 0 THEN st ELSE service) + service

NumServices(cfg) ==
    IF cfg.services <= 0 \/ cfg.services > Len(fakeServiceTypes)
    THEN Len(fakeServiceTypes) ELSE cfg.services

SSDPPackets(st, cfg) ==
    IF cfg.mode # "amplified" THEN << buildResponsePacket(st, fakeServiceTypes[1]) >>
    ELSE [i \in 1 .. NumServices(cfg) |-> buildResponsePacket(st, fakeServiceTypes[i])]

\* the length of "amplified-response"
ChargenPackets == << 18 >>

=============================================================================
