CONSTANTS
    MaxName = 6
    DNSMessage <- MCDNSMessage
    NTPPacket <- MCNTPPacket
    SSDPRequest <- MCSSDPRequest
SPECIFICATION Spec
INVARIANTS ReadsWithinDatagram AcceptsWellFormedQueries QuestionIsEchoed ProbeIfLastMANSaysSo
