CONSTANTS
    QName <- MCQName
    Target <- MCTarget
    Peers <- MCPeers
SPECIFICATION Spec
INVARIANTS SizedReplyExact MonlistCarriesEveryPeer
