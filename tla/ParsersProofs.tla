--------------------------- MODULE ParsersProofs ---------------------------
(* Proofs that the parsers of the binary protocols stay inside the          *)
(* datagram, that ParseQuery accepts exactly the well-formed queries and    *)
(* encodeDNSName gives their names back, and that the last MAN header       *)
(* decides, for every set of datagrams.                                     *)
EXTENDS Parsers, SequenceTheorems, WellFoundedInduction, TLAPS

\* An idle parser has no datagram of any protocol.
LEMMA NoProtocol == NoDatagram.proto = "none"
    BY DEF NoDatagram

\* A datagram belongs to the set its protocol names.
LEMMA DatagramCases ==
    ASSUME NEW d \in Datagram
    PROVE  /\ d.proto = "dns" => d \in DNSMessage
           /\ d.proto = "ntp" => d \in NTPPacket
           /\ d.proto = "ssdp" => d \in SSDPRequest
    BY HeaderAssumption, NoProtocol DEF Datagram

\* Every step of every parser keeps the invariant: a label is only sliced after
\* the check that it fits, and the fixed fields of a header lie within its
\* minimum size.
LEMMA ParserStep == ParserInv /\ [Next]_vars => ParserInv'
<1> SUFFICES ASSUME ParserInv, [Next]_vars
             PROVE  ParserInv'
    OBVIOUS
<1> USE DEF ParserInv
<1>1. CASE Execute
    BY <1>1, HeaderAssumption DEF Execute, Datagram
<1>2. CASE ParseQuery
    BY <1>2, HeaderAssumption, DatagramCases
    DEF ParseQuery, Is, minDNSMessageSize
<1>3. CASE ParseQueryFails
    BY <1>3, HeaderAssumption, DatagramCases
    DEF ParseQueryFails, Is, Return, minDNSMessageSize
<1>4. CASE parseLabel
    <2>1. length \in Nat
        BY <1>4 DEF parseLabel
    <2>2. data.len \in Nat
        BY <1>4, HeaderAssumption DEF parseLabel
    <2>3. QED
        BY <1>4, <2>1, <2>2 DEF parseLabel, Fits, minDNSMessageSize
<1>5. CASE parseLabelFails
    BY <1>5, HeaderAssumption
    DEF parseLabelFails, Fits, length, Return, minDNSMessageSize
<1>6. CASE endOfName
    BY <1>6, HeaderAssumption DEF endOfName, Truncated, length, minDNSMessageSize
<1>7. CASE ParseNTPRequest
    BY <1>7, HeaderAssumption, DatagramCases DEF ParseNTPRequest, Is, Return, MinSize
<1>8. CASE ParseNTPRequestFails
    BY <1>8, HeaderAssumption, DatagramCases DEF ParseNTPRequestFails, Is, Return, MinSize
<1>9. CASE ParseSSDPRequest
    BY <1>9, HeaderAssumption, DatagramCases DEF ParseSSDPRequest, Is, Return
<1>10. CASE scanLine
    BY <1>10 DEF scanLine
<1>11. CASE endOfHeaders
    BY <1>11, HeaderAssumption DEF endOfHeaders, Return
<1>12. CASE Done
    BY <1>12, HeaderAssumption, NoProtocol DEF Done, Datagram
<1>13. CASE UNCHANGED vars
    BY <1>13 DEF vars
<1>14. QED
    BY <1>1, <1>2, <1>3, <1>4, <1>5, <1>6, <1>7, <1>8, <1>9, <1>10, <1>11, <1>12,
       <1>13 DEF Next

\* The parser starts idle, without a datagram.
LEMMA ParserStarts == Init => ParserInv
<1> SUFFICES ASSUME Init PROVE ParserInv
    OBVIOUS
<1>1. NoDatagram \notin DNSMessage \cup NTPPacket
    BY HeaderAssumption, NoProtocol
<1>2. data = NoDatagram /\ pc = "idle" /\ offset = 0 /\ extent = 0
    BY DEF Init
<1>3. QED
    BY <1>1, <1>2 DEF ParserInv, Datagram

\* No octet past the end of the datagram is ever read by ParseQuery, parseQName
\* or ParseNTPRequest, whatever datagram arrives.
THEOREM ParsersStayInside == Spec => []ReadsWithinDatagram
<1>1. ParserInv => ReadsWithinDatagram
    BY DatagramCases DEF ParserInv, ReadsWithinDatagram
<1>2. QED
    BY <1>1, ParserStarts, ParserStep, PTL DEF Spec

-----------------------------------------------------------------------------
(* ParseQuery and parseQName                                               *)

\* S has the first place of the name and leads from each of its labels on to the
\* place behind it, as a witness of WellFormed must.
Chain(d, S) ==
    /\ minDNSMessageSize \in S
    /\ \A i \in S : \/ d.octet[i] = 0
                    \/ d.octet[i] \in 1 .. 63 /\ i + 1 + d.octet[i] \in S

\* The places before the offset that parseQName has been at lead to the offset,
\* and whatever chain makes the name well-formed has to pass it.
NameInv ==
    pc = "qname" =>
        /\ data.qdCount > 0
        /\ \E V \in SUBSET (minDNSMessageSize .. offset - 1) :
              /\ minDNSMessageSize \in V \cup {offset}
              /\ \A i \in V : /\ data.octet[i] \in 1 .. 63
                              /\ i + 1 + data.octet[i] \in V \cup {offset}
        /\ \A S \in SUBSET (minDNSMessageSize .. data.len - 5) :
              Chain(data, S) => offset \in S

\* parseQName moves from one label to the next along every chain.
LEMMA LabelFollowsChain ==
    ASSUME ParserInv, NameInv, parseLabel
    PROVE  NameInv'
<1>1. /\ pc = "qname" /\ pc' = "qname" /\ data' = data
      /\ data.octet[offset] \in 1 .. 63
      /\ offset' = offset + 1 + data.octet[offset]
    BY DEF parseLabel, length
<1>2. offset \in Nat /\ offset >= 12
    BY <1>1 DEF ParserInv, minDNSMessageSize
<1>3. data.qdCount > 0
    BY <1>1 DEF NameInv
<1>4. \E V \in SUBSET (minDNSMessageSize .. offset' - 1) :
         /\ minDNSMessageSize \in V \cup {offset'}
         /\ \A i \in V : /\ data.octet[i] \in 1 .. 63
                         /\ i + 1 + data.octet[i] \in V \cup {offset'}
    <2>1. PICK V \in SUBSET (minDNSMessageSize .. offset - 1) :
             /\ minDNSMessageSize \in V \cup {offset}
             /\ \A i \in V : /\ data.octet[i] \in 1 .. 63
                             /\ i + 1 + data.octet[i] \in V \cup {offset}
        BY <1>1 DEF NameInv
    <2>2. V \cup {offset} \in SUBSET (minDNSMessageSize .. offset' - 1)
        BY <1>1, <1>2 DEF minDNSMessageSize
    <2>3. \A i \in V \cup {offset} :
             /\ data.octet[i] \in 1 .. 63
             /\ i + 1 + data.octet[i] \in (V \cup {offset}) \cup {offset'}
        BY <1>1, <2>1
    <2>4. QED
        BY <2>1, <2>2, <2>3
<1>5. \A S \in SUBSET (minDNSMessageSize .. data.len - 5) :
         Chain(data, S) => offset' \in S
    <2> SUFFICES ASSUME NEW S \in SUBSET (minDNSMessageSize .. data.len - 5), Chain(data, S)
                 PROVE  offset' \in S
        OBVIOUS
    <2>1. offset \in S
        BY <1>1 DEF NameInv
    <2>2. data.octet[offset] # 0
        BY <1>1
    <2>3. QED
        BY <1>1, <2>1, <2>2 DEF Chain
<1>6. QED
    BY <1>1, <1>3, <1>4, <1>5 DEF NameInv, Chain

\* A well-formed name has a chain in the places that leave room for QTYPE and
\* QCLASS.
LEMMA WellFormedHasChain ==
    ASSUME NEW d, WellFormed(d)
    PROVE  /\ d.qdCount > 0
           /\ \E S \in SUBSET (minDNSMessageSize .. d.len - 5) : Chain(d, S)
    BY DEF WellFormed, Chain

\* A name parseQName gives up on is not well-formed: every chain would have to
\* pass the offset, where it cannot go on.
LEMMA FailureIsIllFormed ==
    ASSUME ParserInv, NameInv, parseLabelFails
    PROVE  ~WellFormed(data)
<1> SUFFICES ASSUME WellFormed(data) PROVE FALSE
    OBVIOUS
<1>1. pc = "qname" /\ data \in DNSMessage
    BY DEF parseLabelFails, ParserInv
<1>2. data.len \in Nat /\ offset \in Nat /\ offset >= 12
    BY <1>1, HeaderAssumption DEF ParserInv, minDNSMessageSize
<1>3. PICK S \in SUBSET (minDNSMessageSize .. data.len - 5) : Chain(data, S)
    BY WellFormedHasChain
<1>4. offset \in S
    BY <1>1, <1>3 DEF NameInv
<1>5. offset <= data.len - 5
    BY <1>2, <1>4 DEF minDNSMessageSize
<1>6. length \div 64 # 0 \/ (length # 0 /\ ~Fits)
    BY <1>2, <1>5 DEF parseLabelFails
<1>7. \/ length = 0
      \/ length \in 1 .. 63 /\ offset + 1 + length \in S
    BY <1>3, <1>4 DEF Chain, length
<1>8. length \in 1 .. 63 /\ offset + 1 + length \in S /\ ~Fits
    BY <1>6, <1>7
<1>9. QED
    BY <1>2, <1>8 DEF Fits, minDNSMessageSize

\* At the octet 0 the name is well-formed exactly if QTYPE and QCLASS fit behind
\* it: the places parseQName has been at are the chain.
LEMMA EndDecides ==
    ASSUME ParserInv, NameInv, endOfName
    PROVE  WellFormed(data) <=> ~Truncated(offset + 1)
<1>1. pc = "qname" /\ data \in DNSMessage /\ data.octet[offset] = 0
    BY DEF endOfName, ParserInv, length
<1>2. data.len \in Nat /\ offset \in Nat /\ offset >= 12 /\ data.qdCount > 0
    BY <1>1, HeaderAssumption DEF ParserInv, NameInv, minDNSMessageSize
<1>3. ASSUME WellFormed(data) PROVE ~Truncated(offset + 1)
    <2>1. PICK S \in SUBSET (minDNSMessageSize .. data.len - 5) : Chain(data, S)
        BY <1>3, WellFormedHasChain
    <2>2. offset \in S
        BY <1>1, <2>1 DEF NameInv
    <2>3. QED
        BY <1>2, <2>1, <2>2 DEF Truncated, minDNSMessageSize
<1>4. ASSUME ~Truncated(offset + 1) PROVE WellFormed(data)
    <2>1. PICK V \in SUBSET (minDNSMessageSize .. offset - 1) :
             /\ minDNSMessageSize \in V \cup {offset}
             /\ \A i \in V : /\ data.octet[i] \in 1 .. 63
                             /\ i + 1 + data.octet[i] \in V \cup {offset}
        BY <1>1 DEF NameInv
    <2>2. offset <= data.len - 5
        BY <1>2, <1>4 DEF Truncated
    <2> DEFINE S == V \cup {offset}
    <2>3. S \in SUBSET (minDNSMessageSize .. data.len - 5)
        BY <1>2, <2>2 DEF minDNSMessageSize
    <2>4. \A i \in S : \/ data.octet[i] = 0
                       \/ data.octet[i] \in 1 .. 63 /\ i + 1 + data.octet[i] \in S
        BY <1>1, <2>1
    <2>5. \A i \in S : data.octet[i] = 0 => i = offset
        BY <2>1
    <2>6. minDNSMessageSize \in S
        BY <2>1
    <2> HIDE DEF S
    <2>7. QED
        BY <1>2, <2>3, <2>4, <2>5, <2>6 DEF WellFormed
<1>5. QED
    BY <1>3, <1>4

\* What a verdict says of a query stays as it is as long as the parser is not
\* left, and is right when it is given.
LEMMA QueryStep ==
    ParserInv /\ NameInv /\ AcceptsWellFormedQueries /\ [Next]_vars
        => NameInv' /\ AcceptsWellFormedQueries'
<1> SUFFICES ASSUME ParserInv, NameInv, AcceptsWellFormedQueries, [Next]_vars
             PROVE  NameInv' /\ AcceptsWellFormedQueries'
    OBVIOUS
<1>0. ParserInv'
    BY ParserStep
<1>1. CASE Execute
    BY <1>1 DEF Execute, NameInv, AcceptsWellFormedQueries, Ended
<1>2. CASE ParseQuery
    <2>1. /\ pc' = "qname" /\ data' = data /\ offset' = minDNSMessageSize
          /\ data.qdCount > 0
        BY <1>2 DEF ParseQuery
    <2>2. AcceptsWellFormedQueries'
        BY <2>1 DEF AcceptsWellFormedQueries, Ended
    <2>3. \A S : Chain(data, S) => minDNSMessageSize \in S
        BY DEF Chain
    <2>4. {} \in SUBSET (minDNSMessageSize .. minDNSMessageSize - 1)
        OBVIOUS
    <2>5. (\A S \in SUBSET (minDNSMessageSize .. data.len - 5) :
              Chain(data, S) => offset \in S)'
        BY <2>1, <2>3 DEF Chain
    <2>6. (\E V \in SUBSET (minDNSMessageSize .. offset - 1) :
              /\ minDNSMessageSize \in V \cup {offset}
              /\ \A i \in V : /\ data.octet[i] \in 1 .. 63
                              /\ i + 1 + data.octet[i] \in V \cup {offset})'
        BY <2>1, <2>4 DEF minDNSMessageSize
    <2>7. QED
        BY <2>1, <2>2, <2>5, <2>6 DEF NameInv
<1>3. CASE ParseQueryFails
    <2>1. pc = "start" /\ pc' = "rejected" /\ data' = data /\ data.proto = "dns"
        BY <1>3 DEF ParseQueryFails, Is, Return
    <2>2. data \in DNSMessage
        BY <2>1, DatagramCases DEF ParserInv
    <2>3. data.len < minDNSMessageSize \/ data.qdCount = 0
        BY <1>3 DEF ParseQueryFails
    <2>4. data.len \in Nat
        BY <2>2, HeaderAssumption
    <2>5. ~WellFormed(data)
        <3> SUFFICES ASSUME WellFormed(data) PROVE FALSE
            OBVIOUS
        <3>1. PICK S \in SUBSET (minDNSMessageSize .. data.len - 5) : Chain(data, S)
            BY WellFormedHasChain
        <3>2. minDNSMessageSize \in S
            BY <3>1 DEF Chain
        <3>3. data.qdCount > 0
            BY WellFormedHasChain
        <3>4. minDNSMessageSize <= data.len - 5
            BY <2>4, <3>2 DEF minDNSMessageSize
        <3>5. QED
            BY <2>3, <2>4, <3>3, <3>4 DEF minDNSMessageSize
    <2>6. QED
        BY <2>1, <2>5 DEF NameInv, AcceptsWellFormedQueries, WellFormed
<1>4. CASE parseLabel
    <2>1. pc' = "qname"
        BY <1>4 DEF parseLabel
    <2>2. QED
        BY <1>4, <2>1, LabelFollowsChain DEF AcceptsWellFormedQueries, Ended
<1>5. CASE parseLabelFails
    <2>1. pc' = "rejected" /\ data' = data
        BY <1>5 DEF parseLabelFails, Return
    <2>2. ~WellFormed(data)
        BY <1>5, FailureIsIllFormed
    <2>3. QED
        BY <2>1, <2>2 DEF NameInv, AcceptsWellFormedQueries, WellFormed
<1>6. CASE endOfName
    <2>1. data' = data
        BY <1>6 DEF endOfName
    <2>2. IF Truncated(offset + 1) THEN pc' = "rejected" ELSE pc' = "accepted"
        BY <1>6 DEF endOfName
    <2>3. WellFormed(data) <=> ~Truncated(offset + 1)
        BY <1>6, EndDecides
    <2>4. pc' = "accepted" <=> WellFormed(data)
        BY <2>2, <2>3
    <2>5. pc' # "qname"
        BY <2>2
    <2>6. QED
        BY <2>1, <2>4, <2>5 DEF NameInv, AcceptsWellFormedQueries, WellFormed
<1>7. CASE ParseNTPRequest \/ ParseNTPRequestFails \/ ParseSSDPRequest
    <2>1. pc' # "qname" /\ data' = data /\ data.proto # "dns"
        BY <1>7
        DEF ParseNTPRequest, ParseNTPRequestFails, ParseSSDPRequest, Is, Return
    <2>2. QED
        BY <2>1 DEF NameInv, AcceptsWellFormedQueries, Ended
<1>8. CASE scanLine \/ endOfHeaders
    <2>1. pc = "headers" /\ pc' # "qname" /\ data' = data
        BY <1>8 DEF scanLine, endOfHeaders, Return
    <2>2. data.proto # "dns"
        BY <2>1, HeaderAssumption DEF ParserInv
    <2>3. QED
        BY <2>1, <2>2 DEF NameInv, AcceptsWellFormedQueries, Ended
<1>9. CASE Done
    BY <1>9 DEF Done, NameInv, AcceptsWellFormedQueries, Ended
<1>10. CASE UNCHANGED vars
    BY <1>10 DEF vars, NameInv, AcceptsWellFormedQueries, Ended, WellFormed, Chain
<1>11. QED
    BY <1>1, <1>2, <1>3, <1>4, <1>5, <1>6, <1>7, <1>8, <1>9, <1>10 DEF Next

\* ParseQuery accepts a message if and only if it has a question whose name is a
\* chain of labels up to an octet 0 with QTYPE and QCLASS behind it, for messages
\* of every length and content.
THEOREM QueriesAreJudgedRightly == Spec => []AcceptsWellFormedQueries
<1>1. Init => NameInv /\ AcceptsWellFormedQueries
    BY DEF Init, NameInv, AcceptsWellFormedQueries, Ended
<1>2. QED
    BY <1>1, ParserStarts, ParserStep, QueryStep, PTL DEF Spec

-----------------------------------------------------------------------------
(* encodeDNSName: the name of a query, encoded again                       *)

\* A set of naturals that is not empty has a least element.
LEMMA LeastNat ==
    ASSUME NEW T, T \subseteq Nat, T # {}
    PROVE  \E x \in T : \A y \in T : x <= y
<1> DEFINE R == {ss \in Nat \X Nat : ss[1] < ss[2]}
<1>1. IsWellFoundedOn(R, Nat)
    BY NatLessThanWellFounded DEF OpToRel
<1>2. \A x, y \in Nat : ~ (<<y, x>> \in R) => x <= y
    OBVIOUS
<1> HIDE DEF R
<1>3. \E x \in T : \A y \in T : ~ (<<y, x>> \in R)
    BY WFMin, <1>1, Zenon
<1>4. QED
    BY <1>2, <1>3, Zenon

\* Induction over the naturals.
LEMMA NatInduct ==
    ASSUME NEW T, 0 \in T, \A n \in Nat : n \in T => n + 1 \in T
    PROVE  Nat \subseteq T
<1>1. SUFFICES ASSUME Nat \ T # {} PROVE FALSE
    OBVIOUS
<1>2. PICK m \in Nat \ T : \A k \in Nat \ T : m <= k
    BY <1>1, LeastNat
<1>3. m # 0 /\ m \in Nat
    BY <1>2
<1>4. m - 1 \in Nat /\ m - 1 \in T
    BY <1>2, <1>3
<1>5. QED
    BY <1>2, <1>4

\* j is where the piece that starts at i ends
EndsPiece(name, i, j) ==
    /\ j \in i .. Len(name) + 1
    /\ j = Len(name) + 1 \/ name[j] = Dot
    /\ \A k \in i .. j - 1 : name[k] # Dot

\* The piece that starts at a position ends in one place.
LEMMA PieceEnds ==
    ASSUME NEW S, NEW name \in Seq(S), NEW i \in 1 .. Len(name) + 1
    PROVE  /\ EndsPiece(name, i, EndOfPiece(name, i))
           /\ \A j : EndsPiece(name, i, j) => j = EndOfPiece(name, i)
<1> DEFINE T == { j \in i .. Len(name) + 1 : j = Len(name) + 1 \/ name[j] = Dot }
<1>1. Len(name) \in Nat
    OBVIOUS
<1>2. T \subseteq Nat /\ Len(name) + 1 \in T
    BY <1>1
<1>3. PICK j \in T : \A k \in T : j <= k
    <2> HIDE DEF T
    <2>1. QED
        BY <1>2, LeastNat
<1>4. \A k \in i .. j - 1 : name[k] # Dot
    BY <1>1, <1>3
<1>5. EndsPiece(name, i, j)
    BY <1>3, <1>4 DEF EndsPiece
<1>6. EndsPiece(name, i, EndOfPiece(name, i))
    BY <1>5 DEF EndsPiece, EndOfPiece
<1>7. ASSUME NEW a, NEW b, EndsPiece(name, i, a), EndsPiece(name, i, b), a < b
      PROVE  FALSE
    <2>1. a \in i .. b - 1 /\ a # Len(name) + 1
        BY <1>1, <1>7 DEF EndsPiece
    <2>2. QED
        BY <1>7, <2>1 DEF EndsPiece
<1>8. ASSUME NEW a, EndsPiece(name, i, a) PROVE a = EndOfPiece(name, i)
    <2>1. PICK b : b = EndOfPiece(name, i)
        OBVIOUS
    <2>2. a \in Int /\ b \in Int /\ EndsPiece(name, i, b)
        BY <1>1, <1>6, <1>8, <2>1 DEF EndsPiece
    <2>3. ~(a < b) /\ ~(b < a)
        BY <1>7, <1>8, <2>2
    <2>4. QED
        BY <2>1, <2>2, <2>3
<1>9. QED
    BY <1>6, <1>8

\* one pass of the loop of encodeDNSName, given what the later passes append
Piece(name, i) == SubSeq(name, i, EndOfPiece(name, i) - 1)
Rest(name, f, i) ==
    IF EndOfPiece(name, i) > Len(name) THEN <<0>> ELSE f[EndOfPiece(name, i) + 1]
Pass(name, f, i) ==
    IF Piece(name, i) = <<>> THEN Rest(name, f, i)
    ELSE <<Len(Piece(name, i)) % 256>> \o Piece(name, i) \o Rest(name, f, i)

\* f is what the loop appends from each position of D on
Encodes(f, name, S, D) ==
    /\ f \in [D -> Seq(S)]
    /\ \A i \in D : f[i] = Pass(name, f, i)

\* What a piece is.
LEMMA PieceIs ==
    ASSUME NEW S, NEW name \in Seq(S), NEW i \in 1 .. Len(name) + 1,
           NEW e, e = EndOfPiece(name, i)
    PROVE  /\ e \in i .. Len(name) + 1
           /\ Piece(name, i) \in Seq(S)
           /\ Len(Piece(name, i)) = e - i
           /\ \A k \in 1 .. e - i : Piece(name, i)[k] = name[i + k - 1]
<1>1. Len(name) \in Nat /\ e \in i .. Len(name) + 1
    BY PieceEnds DEF EndsPiece
<1>2. i \in Int /\ e \in Int /\ e - 1 \in Int /\ i <= e
    BY <1>1
<1>3. \A k \in i .. e - 1 : name[k] \in S
    BY <1>1
<1>4. /\ SubSeq(name, i, e - 1) \in Seq(S)
      /\ Len(SubSeq(name, i, e - 1)) = IF i <= e - 1 THEN (e - 1) - i + 1 ELSE 0
      /\ \A k \in 1 .. (e - 1) - i + 1 : SubSeq(name, i, e - 1)[k] = name[i + k - 1]
    BY <1>2, <1>3, SubSeqProperties
<1>5. (e - 1) - i + 1 = e - i /\ (i > e - 1 => e - i = 0)
    BY <1>2
<1>6. QED
    BY <1>1, <1>4, <1>5 DEF Piece

\* A pass yields a sequence if the later passes do, and depends on no others.
LEMMA PassIsSeq ==
    ASSUME NEW S, Nat \subseteq S, NEW name \in Seq(S), NEW i \in 1 .. Len(name) + 1, NEW f,
           \A k \in i + 1 .. Len(name) + 1 : f[k] \in Seq(S)
    PROVE  /\ Rest(name, f, i) \in Seq(S)
           /\ Pass(name, f, i) \in Seq(S)
           /\ \A g : (\A k \in i + 1 .. Len(name) + 1 : g[k] = f[k])
                        => Pass(name, g, i) = Pass(name, f, i)
<1>1. PICK e : e = EndOfPiece(name, i)
    OBVIOUS
<1>2. /\ e \in i .. Len(name) + 1 /\ Piece(name, i) \in Seq(S)
      /\ Len(name) \in Nat
    BY <1>1, PieceIs
<1>3. e <= Len(name) => e + 1 \in i + 1 .. Len(name) + 1
    BY <1>2
<1>4. <<0>> \in Seq(S)
    OBVIOUS
<1>5. Rest(name, f, i) \in Seq(S)
    BY <1>1, <1>2, <1>3, <1>4 DEF Rest
<1>6. <<Len(Piece(name, i)) % 256>> \in Seq(S)
    <2>1. Len(Piece(name, i)) \in Nat
        BY <1>2
    <2>2. Len(Piece(name, i)) % 256 \in Nat
        BY <2>1
    <2>3. QED
        BY <2>2
<1>7. Pass(name, f, i) \in Seq(S)
    BY <1>2, <1>5, <1>6, ConcatProperties DEF Pass
<1>8. ASSUME NEW g, \A k \in i + 1 .. Len(name) + 1 : g[k] = f[k]
      PROVE  Pass(name, g, i) = Pass(name, f, i)
    <2>1. Rest(name, g, i) = Rest(name, f, i)
        BY <1>1, <1>2, <1>3, <1>8 DEF Rest
    <2>2. QED
        BY <2>1 DEF Pass
<1>9. QED
    BY <1>5, <1>7, <1>8

\* The passes have a solution from each position on.
LEMMA EncodingExists ==
    ASSUME NEW S, Nat \subseteq S, NEW name \in Seq(S)
    PROVE  \E f : Encodes(f, name, S, 1 .. Len(name) + 1)
<1> DEFINE L == Len(name)
           T == { n \in Nat : n <= L + 1 =>
                     \E f : Encodes(f, name, S, L + 2 - n .. L + 1) }
<1>1. L \in Nat
    OBVIOUS
<1>2. 0 \in T
    <2>1. L + 2 - 0 .. L + 1 = {}
        BY <1>1
    <2>2. PICK f : f = [i \in {} |-> <<>>]
        OBVIOUS
    <2>3. Encodes(f, name, S, {})
        BY <2>2 DEF Encodes
    <2>4. QED
        BY <2>1, <2>3
<1>3. ASSUME NEW n \in Nat, n \in T PROVE n + 1 \in T
    <2>1. SUFFICES ASSUME n + 1 <= L + 1
                   PROVE  \E f : Encodes(f, name, S, L + 2 - (n + 1) .. L + 1)
        OBVIOUS
    <2>2. PICK f : Encodes(f, name, S, L + 2 - n .. L + 1)
        BY <1>1, <1>3, <2>1
    <2>3. PICK a : a = L + 1 - n
        OBVIOUS
    <2>4. /\ a \in 1 .. L + 1 /\ L + 2 - (n + 1) = a /\ L + 2 - n = a + 1
          /\ a .. L + 1 = {a} \cup (a + 1 .. L + 1) /\ a \notin a + 1 .. L + 1
        BY <1>1, <2>1, <2>3
    <2>5. f \in [a + 1 .. L + 1 -> Seq(S)] /\ \A i \in a + 1 .. L + 1 : f[i] = Pass(name, f, i)
        BY <2>2, <2>4 DEF Encodes
    <2> DEFINE g == [i \in a .. L + 1 |-> IF i = a THEN Pass(name, f, a) ELSE f[i]]
    <2>6. Pass(name, f, a) \in Seq(S)
        BY <2>4, <2>5, PassIsSeq
    <2>7. g \in [a .. L + 1 -> Seq(S)]
        BY <2>4, <2>5, <2>6
    <2>8. \A i \in a + 1 .. L + 1 : g[i] = f[i]
        BY <2>4
    <2>9. g[a] = Pass(name, f, a)
        BY <2>4
    <2> HIDE DEF g, L
    <2>10. ASSUME NEW i \in a .. L + 1 PROVE g[i] = Pass(name, g, i)
        <3>1. /\ i \in 1 .. L + 1
              /\ \A k \in i + 1 .. L + 1 : k \in a + 1 .. L + 1
            BY <1>1, <2>4
        <3>2. (\A k \in i + 1 .. L + 1 : f[k] \in Seq(S)) /\ \A k \in i + 1 .. L + 1 : g[k] = f[k]
            BY <2>5, <2>8, <3>1
        <3>3. Pass(name, g, i) = Pass(name, f, i)
            BY <3>1, <3>2, PassIsSeq DEF L
        <3>4. g[i] = Pass(name, f, i)
            BY <2>4, <2>5, <2>8, <2>9
        <3>5. QED
            BY <3>3, <3>4
    <2>11. QED
        BY <2>4, <2>7, <2>10 DEF Encodes
<1> HIDE DEF T
<1>4. L + 1 \in T
    BY <1>1, <1>2, <1>3, NatInduct
<1>5. L + 2 - (L + 1) = 1
    BY <1>1
<1>6. QED
    BY <1>1, <1>4, <1>5 DEF T

\* encodeDNSName is what its passes append from the first position on.
LEMMA EncodingIs ==
    ASSUME NEW S, Nat \subseteq S, NEW name \in Seq(S)
    PROVE  \E f : /\ Encodes(f, name, S, 1 .. Len(name) + 1)
                  /\ encodeDNSName(name) = f[1]
<1> DEFINE D == 1 .. Len(name) + 1
           Solves(f) == f = [i \in D |-> Pass(name, f, i)]
           c == CHOOSE f : Solves(f)
<1>1. PICK f : Encodes(f, name, S, D)
    BY EncodingExists
<1>2. Solves(f)
    BY <1>1 DEF Encodes
<1>3. Solves(c)
    BY <1>2
<1>4. encodeDNSName(name) = c[1]
    BY DEF encodeDNSName, Pass, Piece, Rest, Skipped
<1>5. \A i \in D : f[i] \in Seq(S) /\ f[i] = Pass(name, f, i)
    BY <1>1 DEF Encodes
<1>6. \A i \in D : c[i] = Pass(name, c, i)
    BY <1>3
<1> HIDE DEF c
<1>7. \A i \in D : c[i] = f[i]
    <2> DEFINE T == { n \in 0 .. Len(name) : c[Len(name) + 1 - n] # f[Len(name) + 1 - n] }
    <2>1. Len(name) \in Nat /\ T \subseteq Nat
        OBVIOUS
    <2>2. ASSUME T # {} PROVE FALSE
        <3>1. PICK n \in T : \A m \in T : n <= m
            <4> HIDE DEF T
            <4>1. QED
                BY <2>1, <2>2, LeastNat
        <3>2. PICK i \in D : i = Len(name) + 1 - n /\ c[i] # f[i]
            BY <2>1, <3>1
        <3>3. \A k \in i + 1 .. Len(name) + 1 : c[k] = f[k] /\ k \in D
            <4> SUFFICES ASSUME NEW k \in i + 1 .. Len(name) + 1 PROVE c[k] = f[k] /\ k \in D
                OBVIOUS
            <4>1. PICK m : m = Len(name) + 1 - k
                OBVIOUS
            <4>2. m \in 0 .. Len(name) /\ m < n /\ Len(name) + 1 - m = k /\ k \in D
                BY <2>1, <3>1, <3>2, <4>1
            <4>3. m \notin T
                BY <2>1, <3>1, <4>2
            <4>4. QED
                BY <4>2, <4>3
        <3>4. Pass(name, c, i) = Pass(name, f, i)
            <4>1. \A k \in i + 1 .. Len(name) + 1 : f[k] \in Seq(S)
                BY <1>5, <3>3
            <4>2. \A g : (\A k \in i + 1 .. Len(name) + 1 : g[k] = f[k])
                            => Pass(name, g, i) = Pass(name, f, i)
                BY <4>1, PassIsSeq
            <4>3. QED
                BY <3>3, <4>2, Zenon
        <3>5. QED
            BY <1>5, <1>6, <3>2, <3>4
    <2>3. \A i \in D : Len(name) + 1 - i \in 0 .. Len(name)
                         /\ Len(name) + 1 - (Len(name) + 1 - i) = i
        BY <2>1
    <2>4. QED
        BY <2>2, <2>3
<1>8. 1 \in D
    <2>1. Len(name) \in Nat
        OBVIOUS
    <2>2. QED
        BY <2>1
<1>9. QED
    BY <1>1, <1>4, <1>7, <1>8

\* However the name is split, each position costs an octet, and the first piece
\* and the end of the name one more.
LEMMA EncodingIsShort ==
    ASSUME NEW S, Nat \subseteq S, NEW name \in Seq(S)
    PROVE  /\ encodeDNSName(name) \in Seq(S)
           /\ Len(encodeDNSName(name)) <= Len(name) + 2
           /\ name = <<>> => encodeDNSName(name) = <<0>>
<1>1. PICK f : Encodes(f, name, S, 1 .. Len(name) + 1) /\ encodeDNSName(name) = f[1]
    BY EncodingIs
<1>2. PICK L \in Nat : L = Len(name)
    OBVIOUS
<1>3. \A i \in 1 .. L + 1 : f[i] \in Seq(S) /\ Len(f[i]) \in Nat /\ f[i] = Pass(name, f, i)
    BY <1>1, <1>2 DEF Encodes
<1>4. <<0>> \in Seq(S) /\ Len(<<0>>) = 1
    OBVIOUS
<1>5. ASSUME NEW i \in 1 .. L + 1, \A k \in i + 1 .. L + 1 : Len(f[k]) <= L + 3 - k
      PROVE  Len(f[i]) <= L + 3 - i
    <2>1. PICK e : e = EndOfPiece(name, i)
        OBVIOUS
    <2>2. PICK p \in Seq(S) : p = Piece(name, i)
        BY <1>2, <2>1, PieceIs
    <2>3. e \in i .. L + 1 /\ Len(p) = e - i
        BY <1>2, <2>1, <2>2, PieceIs
    <2>4. PICK r : r = Rest(name, f, i)
        OBVIOUS
    <2>5. /\ r \in Seq(S) /\ Len(r) \in Nat
          /\ e = L + 1 => Len(r) = 1
          /\ e # L + 1 => Len(r) <= L + 2 - e
        <3>1. CASE e = L + 1
            <4>1. r = <<0>>
                BY <1>2, <2>1, <2>3, <2>4, <3>1 DEF Rest
            <4>2. QED
                BY <1>4, <3>1, <4>1
        <3>2. CASE e # L + 1
            <4>1. ~(e > L) /\ e + 1 \in i + 1 .. L + 1 /\ e + 1 \in 1 .. L + 1
                BY <2>3, <3>2
            <4>2. r = f[e + 1]
                BY <1>2, <2>1, <2>4, <4>1 DEF Rest
            <4>3. L + 3 - (e + 1) = L + 2 - e
                BY <2>3
            <4>4. QED
                BY <1>3, <1>5, <3>2, <4>1, <4>2, <4>3
        <3>3. QED
            BY <3>1, <3>2
    <2>6. f[i] = IF p = <<>> THEN r ELSE <<Len(p) % 256>> \o p \o r
        BY <1>3, <2>2, <2>4 DEF Pass
    <2>7. CASE p = <<>>
        <3>1. f[i] = r /\ Len(p) = 0
            BY <2>6, <2>7
        <3>2. PICK n \in Nat : n = Len(r)
            BY <2>5
        <3>3. e = i /\ (e = L + 1 => n = 1) /\ (e # L + 1 => n <= L + 2 - e)
            BY <2>3, <2>5, <3>1, <3>2
        <3>4. n <= L + 3 - i
            BY <3>3
        <3>5. QED
            BY <3>1, <3>2, <3>4
    <2>8. CASE p # <<>>
        <3>1. PICK l \in Nat : l = Len(p) % 256
            BY <2>2
        <3>2. <<l>> \in Seq(S) /\ Len(<<l>>) = 1
            BY <3>1
        <3>3. <<l>> \o p \in Seq(S) /\ Len(<<l>> \o p) = 1 + Len(p)
            BY <3>2, ConcatProperties
        <3>4. Len((<<l>> \o p) \o r) = 1 + Len(p) + Len(r)
            BY <2>5, <3>3, ConcatProperties
        <3>5. Len(f[i]) = 1 + Len(p) + Len(r)
            BY <2>6, <2>8, <3>1, <3>4
        <3>6. PICK n \in Nat : n = Len(r)
            BY <2>5
        <3>7. (e = L + 1 => n = 1) /\ (e # L + 1 => n <= L + 2 - e)
            BY <2>5, <3>6
        <3>8. 1 + (e - i) + n <= L + 3 - i
            BY <2>3, <3>7
        <3>9. QED
            BY <2>3, <3>5, <3>6, <3>8
    <2>9. QED
        BY <2>7, <2>8
<1>6. \A i \in 1 .. L + 1 : Len(f[i]) <= L + 3 - i
    <2> DEFINE T == { n \in 0 .. L : ~(Len(f[L + 1 - n]) <= L + 3 - (L + 1 - n)) }
    <2>1. T \subseteq Nat
        OBVIOUS
    <2>2. ASSUME T # {} PROVE FALSE
        <3>1. PICK n \in T : \A m \in T : n <= m
            <4> HIDE DEF T
            <4>1. QED
                BY <2>1, <2>2, LeastNat
        <3>2. PICK i \in 1 .. L + 1 : i = L + 1 - n /\ ~(Len(f[i]) <= L + 3 - i)
            BY <3>1
        <3>3. ASSUME NEW k \in i + 1 .. L + 1 PROVE Len(f[k]) <= L + 3 - k
            <4>1. PICK m : m = L + 1 - k
                OBVIOUS
            <4>2. m \in 0 .. L /\ m < n /\ L + 1 - m = k
                BY <3>1, <3>2, <4>1
            <4>3. m \notin T
                BY <3>1, <4>2
            <4>4. QED
                BY <4>2, <4>3
        <3>4. QED
            BY <1>5, <3>2, <3>3
    <2>3. \A i \in 1 .. L + 1 : L + 1 - i \in 0 .. L /\ L + 1 - (L + 1 - i) = i
        OBVIOUS
    <2>4. QED
        BY <2>2, <2>3
<1>7. 1 \in 1 .. L + 1 /\ L + 3 - 1 = L + 2
    OBVIOUS
<1>8. ASSUME name = <<>> PROVE encodeDNSName(name) = <<0>>
    <2>1. L = 0 /\ 1 \in 1 .. Len(name) + 1
        BY <1>2, <1>8
    <2>2. PICK e : e = EndOfPiece(name, 1)
        OBVIOUS
    <2>3. e \in 1 .. Len(name) + 1 /\ Piece(name, 1) \in Seq(S) /\ Len(Piece(name, 1)) = e - 1
        BY <2>1, <2>2, PieceIs
    <2>4. e = 1 /\ e > Len(name)
        BY <1>2, <2>1, <2>3
    <2>5. Piece(name, 1) = <<>>
        BY <2>3, <2>4
    <2>6. Rest(name, f, 1) = <<0>>
        BY <2>2, <2>4 DEF Rest
    <2>7. QED
        BY <1>1, <1>3, <1>7, <2>5, <2>6 DEF Pass
<1>9. QED
    BY <1>1, <1>2, <1>3, <1>6, <1>7, <1>8

(* The labels of a name and strings.Join                                   *)

\* the place behind a label
After(label) == label.first + label.len

\* The labels lie one behind the other from the header to the place end, each
\* behind the octet that has its length.
LabelsReach(end) ==
    /\ labels \in Seq([first : Nat, len : 1 .. 63])
    /\ \A i \in 1 .. Len(labels) :
          /\ labels[i].first = (IF i = 1 THEN minDNSMessageSize ELSE After(labels[i - 1])) + 1
          /\ labels[i].len = data.octet[labels[i].first - 1]
    /\ end = IF labels = <<>> THEN minDNSMessageSize ELSE After(labels[Len(labels)])

\* where the lengths of the labels are
Places == { labels[i].first - 1 : i \in 1 .. Len(labels) }

\* what octets and dots are
Octet == { data.octet[i] : i \in Int } \cup Nat

\* the octets from behind the header on, with dots for the lengths
Dotted(i) ==
    [k \in 1 .. After(labels[i]) - minDNSMessageSize |->
        IF k + minDNSMessageSize - 1 \in Places THEN Dot
        ELSE data.octet[k + minDNSMessageSize - 1]]

\* The numbers of a label.
LEMMA LabelIs ==
    ASSUME NEW end, LabelsReach(end), NEW i \in 1 .. Len(labels)
    PROVE  \E a \in Nat, l \in 1 .. 63 :
              /\ labels[i].first = a /\ labels[i].len = l /\ After(labels[i]) = a + l
              /\ a + l \in Nat /\ a < a + l
<1>1. labels[i] \in [first : Nat, len : 1 .. 63]
    BY ElementOfSeq DEF LabelsReach
<1>2. PICK a \in Nat, l \in 1 .. 63 : labels[i].first = a /\ labels[i].len = l
    BY <1>1
<1>3. After(labels[i]) = a + l
    BY <1>2 DEF After
<1>4. a + l \in Nat /\ a < a + l
    OBVIOUS
<1>5. QED
    BY <1>2, <1>3, <1>4

\* A label has no other's length inside.
LEMMA LabelsInOrder ==
    ASSUME NEW end, LabelsReach(end)
    PROVE  /\ \A i \in 1 .. Len(labels) :
                 /\ labels[i].first \in Nat /\ labels[i].len \in 1 .. 63
                 /\ labels[i].first > 12
           /\ \A i, j \in 1 .. Len(labels) :
                 i < j => After(labels[i]) < labels[j].first
<1> DEFINE N == Len(labels)
<1>1. N \in Nat
    BY DEF LabelsReach
<1>2. \A i \in 1 .. N : labels[i].first \in Nat /\ labels[i].len \in 1 .. 63
    BY LabelIs
<1>3. \A i \in 1 .. N : After(labels[i]) \in Nat /\ labels[i].first < After(labels[i])
    BY LabelIs
<1>4. \A i \in 1 .. N : i # 1 => i - 1 \in 1 .. N /\ labels[i].first = After(labels[i - 1]) + 1
    BY <1>1 DEF LabelsReach
<1> HIDE DEF N
<1>5. \A j \in 1 .. N : labels[j].first > 12
                        /\ \A i \in 1 .. N : i < j => After(labels[i]) < labels[j].first
    <2> DEFINE T == { j \in 1 .. N : ~(/\ labels[j].first > 12
                                       /\ \A i \in 1 .. N : i < j => After(labels[i]) < labels[j].first) }
    <2>1. SUFFICES ASSUME T # {} PROVE FALSE
        OBVIOUS
    <2>2. T \subseteq Nat
        BY <1>1
    <2>3. PICK j \in T : \A k \in T : j <= k
        <3> HIDE DEF T
        <3>1. QED
            BY <2>1, <2>2, LeastNat
    <2>4. j \in 1 .. N
        BY <2>3
    <2>5. CASE j = 1
        <3>1. labels[1].first = 12 + 1
            BY <1>1, <2>4, <2>5 DEF LabelsReach, minDNSMessageSize, N
        <3>2. \A i \in 1 .. N : ~(i < 1)
            BY <1>1
        <3>3. QED
            BY <2>3, <2>5, <3>1, <3>2
    <2>6. CASE j # 1
        <3>1. PICK h \in 1 .. N : h = j - 1
            BY <1>4, <2>4, <2>6
        <3>2. h \notin T
            BY <1>1, <2>3, <2>4, <3>1
        <3>3. /\ labels[h].first > 12
              /\ \A i \in 1 .. N : i < h => After(labels[i]) < labels[h].first
            BY <3>2
        <3>4. labels[j].first = After(labels[h]) + 1
            BY <1>4, <2>4, <2>6, <3>1
        <3>5. labels[h].first < After(labels[h])
            BY <1>3
        <3>6. \A i \in 1 .. N : i < j => i < h \/ i = h
            BY <1>1, <2>4, <3>1
        <3>7. ASSUME NEW i \in 1 .. N, i < j PROVE After(labels[i]) < labels[j].first
            BY <1>2, <1>3, <2>4, <3>3, <3>4, <3>5, <3>6, <3>7
        <3>8. labels[j].first > 12
            BY <1>2, <1>3, <2>4, <3>3, <3>4, <3>5
        <3>9. QED
            BY <2>3, <3>7, <3>8
    <2>7. QED
        BY <2>5, <2>6
<1>6. QED
    BY <1>2, <1>5 DEF N

\* Between the length of a label and the place behind it there are its octets.
LEMMA InsideLabel ==
    ASSUME NEW end, LabelsReach(end), NEW i \in 1 .. Len(labels),
           NEW p \in labels[i].first .. After(labels[i]) - 1
    PROVE  p \notin Places
<1> SUFFICES ASSUME NEW j \in 1 .. Len(labels), p = labels[j].first - 1 PROVE FALSE
    BY DEF Places
<1>1. /\ labels[i].first \in Nat /\ labels[i].len \in 1 .. 63
      /\ labels[j].first \in Nat /\ labels[j].len \in 1 .. 63
      /\ i < j => After(labels[i]) < labels[j].first
      /\ j < i => After(labels[j]) < labels[i].first
    BY LabelsInOrder
<1>2. i \in Int /\ j \in Int
    BY DEF LabelsReach
<1>3. PICK a \in Nat, l \in 1 .. 63 : labels[i].first = a /\ After(labels[i]) = a + l
    BY LabelIs
<1>4. PICK b \in Nat, m \in 1 .. 63 : labels[j].first = b /\ After(labels[j]) = b + m
    BY LabelIs
<1>5. p \in a .. a + l - 1 /\ p = b - 1
    BY <1>3, <1>4
<1>6. CASE i < j
    BY <1>1, <1>3, <1>4, <1>5, <1>6
<1>7. CASE j < i
    BY <1>1, <1>3, <1>4, <1>5, <1>7
<1>8. CASE i = j
    BY <1>3, <1>4, <1>5, <1>8
<1>9. QED
    BY <1>2, <1>6, <1>7, <1>8

\* The octets between two places.
LEMMA OctetsAre ==
    ASSUME NEW first \in Int, NEW len \in Nat
    PROVE  /\ Octets(first, len) \in Seq(Octet)
           /\ Len(Octets(first, len)) = len
           /\ \A k \in 1 .. len : Octets(first, len)[k] = data.octet[first + k - 1]
<1>1. \A k \in 1 .. len : data.octet[first + k - 1] \in Octet
    BY DEF Octet
<1>2. Octets(first, len) \in [1 .. len -> Octet]
    BY <1>1 DEF Octets
<1>3. QED
    BY <1>2 DEF Octets

\* The labels joined so far: one more label adds a dot and its octets.
LEMMA DottedGrows ==
    ASSUME NEW end, LabelsReach(end), NEW i \in 1 .. Len(labels)
    PROVE  /\ Dotted(i) \in Seq(Octet)
           /\ Len(Dotted(i)) = After(labels[i]) - 12
           /\ After(labels[i]) - 12 \in Nat
           /\ \A k \in 1 .. After(labels[i]) - 12 :
                 Dotted(i)[k] = IF k + 11 \in Places THEN Dot ELSE data.octet[k + 11]
           /\ i = 1 => Dotted(i) = <<Dot>> \o Text(labels[i])
           /\ i # 1 => i - 1 \in 1 .. Len(labels)
                       /\ Dotted(i) = Dotted(i - 1) \o (<<Dot>> \o Text(labels[i]))
<1>1. \A j \in 1 .. Len(labels) :
         /\ Dotted(j) \in Seq(Octet)
         /\ Len(Dotted(j)) = After(labels[j]) - 12
         /\ After(labels[j]) - 12 \in Nat
         /\ \A k \in 1 .. After(labels[j]) - 12 :
               Dotted(j)[k] = IF k + 11 \in Places THEN Dot ELSE data.octet[k + 11]
    <2> SUFFICES ASSUME NEW j \in 1 .. Len(labels)
                 PROVE  /\ Dotted(j) \in Seq(Octet)
                        /\ Len(Dotted(j)) = After(labels[j]) - 12
                        /\ After(labels[j]) - 12 \in Nat
                        /\ \A k \in 1 .. After(labels[j]) - 12 :
                              Dotted(j)[k] = IF k + 11 \in Places THEN Dot
                                             ELSE data.octet[k + 11]
        OBVIOUS
    <2>1. labels[j].first \in Nat /\ labels[j].first > 12 /\ labels[j].len \in 1 .. 63
        BY LabelsInOrder
    <2>2. PICK n \in Nat : n = After(labels[j]) - 12
        <3>1. PICK a \in Nat, l \in 1 .. 63 : labels[j].first = a /\ After(labels[j]) = a + l
            BY LabelIs
        <3>2. a + l - 12 \in Nat
            BY <2>1, <3>1
        <3>3. QED
            BY <3>1, <3>2
    <2>3. \A k \in 1 .. n : k + 12 - 1 = k + 11
        OBVIOUS
    <2>4. Dotted(j) = [k \in 1 .. n |-> IF k + 11 \in Places THEN Dot ELSE data.octet[k + 11]]
        BY <2>2, <2>3 DEF Dotted, minDNSMessageSize
    <2>5. \A k \in 1 .. n : data.octet[k + 11] \in Octet
        BY DEF Octet
    <2>6. Dot \in Octet
        BY DEF Octet, Dot
    <2>7. Dotted(j) \in [1 .. n -> Octet]
        BY <2>4, <2>5, <2>6
    <2>8. Dotted(j) \in Seq(Octet) /\ Len(Dotted(j)) = n
        BY <2>7
    <2>9. \A k \in 1 .. n :
             Dotted(j)[k] = IF k + 11 \in Places THEN Dot ELSE data.octet[k + 11]
        BY <2>4
    <2>10. QED
        BY <2>2, <2>8, <2>9
<1>2. PICK a \in Nat, l \in 1 .. 63 : a = labels[i].first /\ l = labels[i].len
    BY LabelsInOrder
<1>3. a > 12 /\ After(labels[i]) = a + l
    BY <1>2, LabelsInOrder DEF After
<1>4. PICK t : t = Text(labels[i])
    OBVIOUS
<1>5. t \in Seq(Octet) /\ Len(t) = l /\ \A k \in 1 .. l : t[k] = data.octet[a + k - 1]
    <2>1. t = Octets(a, l)
        BY <1>2, <1>4 DEF Text
    <2>2. a \in Int /\ l \in Nat
        OBVIOUS
    <2>3. QED
        BY <2>1, <2>2, OctetsAre
<1>6. <<Dot>> \in Seq(Octet) /\ Len(<<Dot>>) = 1 /\ <<Dot>>[1] = Dot
    BY DEF Octet, Dot
<1>7. PICK u : u = <<Dot>> \o t
    OBVIOUS
<1>8. /\ u \in Seq(Octet) /\ Len(u) = 1 + l
      /\ \A k \in 1 .. 1 + l : u[k] = IF k = 1 THEN Dot ELSE data.octet[a + k - 2]
    <2>1. /\ u \in Seq(Octet) /\ Len(u) = 1 + l
          /\ \A k \in 1 .. 1 + l : u[k] = IF k <= 1 THEN <<Dot>>[k] ELSE t[k - 1]
        BY <1>5, <1>6, <1>7, ConcatProperties
    <2>2. \A k \in 1 .. 1 + l : k # 1 => k - 1 \in 1 .. l /\ a + (k - 1) - 1 = a + k - 2
        OBVIOUS
    <2>3. QED
        BY <1>5, <1>6, <2>1, <2>2
<1>9. a - 1 \in Places
    BY <1>2 DEF Places
<1>10. \A p \in a .. a + l - 1 : p \notin Places
    BY <1>2, <1>3, InsideLabel
\* the last octets of the joined labels
<1>11. \A k \in 1 .. 1 + l : u[k] = IF (k - 1) + (a - 1) \in Places THEN Dot
                                    ELSE data.octet[(k - 1) + (a - 1)]
    <2> SUFFICES ASSUME NEW k \in 1 .. 1 + l
                 PROVE  u[k] = IF (k - 1) + (a - 1) \in Places THEN Dot
                               ELSE data.octet[(k - 1) + (a - 1)]
        OBVIOUS
    <2>1. (k - 1) + (a - 1) = a + k - 2
        OBVIOUS
    <2>2. CASE k = 1
        BY <1>8, <1>9, <2>1, <2>2
    <2>3. CASE k # 1
        <3>1. a + k - 2 \in a .. a + l - 1
            BY <2>3
        <3>2. QED
            BY <1>8, <1>10, <2>1, <2>3, <3>1
    <2>4. QED
        BY <2>2, <2>3
<1>12. ASSUME i = 1 PROVE Dotted(i) = <<Dot>> \o Text(labels[i])
    <2>1. a = 13
        BY <1>2, <1>12 DEF LabelsReach, minDNSMessageSize
    <2>2. Dotted(i) \in Seq(Octet) /\ Len(Dotted(i)) = 1 + l
          /\ \A k \in 1 .. 1 + l :
                Dotted(i)[k] = IF k + 11 \in Places THEN Dot ELSE data.octet[k + 11]
        <3>1. After(labels[i]) - 12 = 1 + l
            BY <1>3, <2>1
        <3>2. QED
            BY <1>1, <3>1
    <2>3. \A k \in 1 .. 1 + l : (k - 1) + (a - 1) = k + 11
        BY <2>1
    <2>4. \A k \in 1 .. 1 + l : Dotted(i)[k] = u[k]
        BY <1>11, <2>2, <2>3
    <2>5. Dotted(i) = u
        BY <1>8, <2>2, <2>4, SeqEqual
    <2>6. QED
        BY <1>4, <1>7, <2>5
<1>13. ASSUME i # 1
       PROVE  i - 1 \in 1 .. Len(labels)
              /\ Dotted(i) = Dotted(i - 1) \o (<<Dot>> \o Text(labels[i]))
    <2>1. PICK h \in 1 .. Len(labels) : h = i - 1
        BY <1>13 DEF LabelsReach
    <2>2. After(labels[h]) = a - 1
        <3>1. a = After(labels[h]) + 1
            BY <1>2, <1>13, <2>1 DEF LabelsReach
        <3>2. After(labels[h]) \in Nat
            <4>1. PICK b \in Nat, m \in 1 .. 63 : After(labels[h]) = b + m /\ b + m \in Nat
                BY LabelIs
            <4>2. QED
                BY <4>1
        <3>3. QED
            BY <3>1, <3>2
    <2>3. PICK m \in Nat : m = a - 1 - 12
        BY <1>3
    <2>4. PICK d : d = Dotted(h)
        OBVIOUS
    <2>5. /\ d \in Seq(Octet) /\ Len(d) = m
          /\ \A k \in 1 .. m : d[k] = IF k + 11 \in Places THEN Dot ELSE data.octet[k + 11]
        BY <1>1, <2>2, <2>3, <2>4
    <2>6. /\ d \o u \in Seq(Octet) /\ Len(d \o u) = m + (1 + l)
          /\ \A k \in 1 .. m + (1 + l) : (d \o u)[k] = IF k <= m THEN d[k] ELSE u[k - m]
        BY <1>8, <2>5, ConcatProperties
    <2>7. After(labels[i]) - 12 = m + (1 + l)
        BY <1>3, <2>3
    <2>8. /\ Dotted(i) \in Seq(Octet) /\ Len(Dotted(i)) = m + (1 + l)
          /\ \A k \in 1 .. m + (1 + l) :
                Dotted(i)[k] = IF k + 11 \in Places THEN Dot ELSE data.octet[k + 11]
        BY <1>1, <2>7
    <2>9. ASSUME NEW k \in 1 .. m + (1 + l) PROVE Dotted(i)[k] = (d \o u)[k]
        <3>1. CASE k <= m
            <4>1. k \in 1 .. m
                BY <3>1
            <4>2. QED
                BY <2>5, <2>6, <2>8, <3>1, <4>1
        <3>2. CASE ~(k <= m)
            <4>1. k - m \in 1 .. 1 + l /\ ((k - m) - 1) + (a - 1) = k + 11
                BY <2>3, <3>2
            <4>2. u[k - m] = IF ((k - m) - 1) + (a - 1) \in Places THEN Dot
                             ELSE data.octet[((k - m) - 1) + (a - 1)]
                BY <1>11, <4>1
            <4>3. QED
                BY <2>6, <2>8, <3>2, <4>1, <4>2
        <3>3. QED
            BY <3>1, <3>2
    <2>10. Dotted(i) = d \o u
        BY <2>6, <2>8, <2>9, SeqEqual
    <2>11. QED
        BY <1>4, <1>7, <2>1, <2>4, <2>10
<1>14. QED
    BY <1>1, <1>12, <1>13

\* The joined labels are the octets of the name behind its first length, with a
\* dot for each other length.
LEMMA NameIs ==
    ASSUME NEW end, LabelsReach(end), labels # <<>>
    PROVE  /\ Name \in Seq(Octet)
           /\ end - 13 \in Nat
           /\ Len(Name) = end - 13
           /\ \A k \in 1 .. end - 13 :
                 Name[k] = IF k + 12 \in Places THEN Dot ELSE data.octet[k + 12]
<1>1. PICK n \in Nat : n = Len(labels)
    BY DEF LabelsReach
<1>2. labels \in Seq([first : Nat, len : 1 .. 63]) /\ DOMAIN labels = 1 .. n /\ n # 0
    BY <1>1 DEF LabelsReach
<1> DEFINE s == [i \in DOMAIN labels |-> <<Dot>> \o Text(labels[i])]
           Solves(f) == f = [i \in 1 .. Len(s) |-> IF i = 1 THEN s[i] ELSE f[i - 1] \o s[i]]
           c == CHOOSE f : Solves(f)
           h == [i \in 1 .. n |-> Dotted(i)]
<1>3. Len(s) = n /\ \A i \in 1 .. n : s[i] = <<Dot>> \o Text(labels[i])
    <2>1. s = [i \in 1 .. n |-> <<Dot>> \o Text(labels[i])]
        BY <1>2
    <2>2. QED
        BY <2>1
<1>4. FlattenSeq(s) = c[n]
    <2> HIDE DEF s
    <2>1. QED
        BY <1>2, <1>3 DEF FlattenSeq
<1>5. \A i \in 1 .. n : /\ i = 1 => Dotted(i) = s[i]
                        /\ i # 1 => i - 1 \in 1 .. n /\ Dotted(i) = Dotted(i - 1) \o s[i]
    <2> HIDE DEF s
    <2>1. QED
        BY <1>1, <1>3, DottedGrows
<1>6. Solves(h)
    <2> HIDE DEF s
    <2>1. \A i \in 1 .. n : h[i] = Dotted(i)
        OBVIOUS
    <2>2. \A i \in 1 .. n : Dotted(i) = IF i = 1 THEN s[i] ELSE h[i - 1] \o s[i]
        BY <1>5, <2>1
    <2>3. h = [i \in 1 .. n |-> IF i = 1 THEN s[i] ELSE h[i - 1] \o s[i]]
        BY <2>2
    <2> HIDE DEF h
    <2>4. QED
        BY <1>3, <2>3
<1>7. Solves(c)
    BY <1>6
<1>8. \A i \in 1 .. n : c[i] = Dotted(i)
    <2> HIDE DEF s, h
    <2>1. \A i \in 1 .. n : c[i] = IF i = 1 THEN s[i] ELSE c[i - 1] \o s[i]
        BY <1>3, <1>7
    <2> HIDE DEF c
    <2> DEFINE T == { i \in 1 .. n : c[i] # Dotted(i) }
    <2>2. T \subseteq Nat
        OBVIOUS
    <2>3. ASSUME T # {} PROVE FALSE
        <3>1. PICK i \in T : \A k \in T : i <= k
            <4> HIDE DEF T
            <4>1. QED
                BY <2>2, <2>3, LeastNat
        <3>2. i \in 1 .. n /\ c[i] # Dotted(i)
            BY <3>1
        <3>3. CASE i = 1
            BY <1>5, <2>1, <3>2, <3>3
        <3>4. CASE i # 1
            <4>1. i - 1 \in 1 .. n /\ i - 1 < i
                BY <1>5, <3>2, <3>4
            <4>2. i - 1 \notin T
                BY <3>1, <3>2, <4>1
            <4>3. c[i - 1] = Dotted(i - 1)
                BY <4>1, <4>2
            <4>4. QED
                BY <1>5, <2>1, <3>2, <3>4, <4>3
        <3>5. QED
            BY <3>3, <3>4
    <2>4. QED
        BY <2>3
<1>9. n \in 1 .. n
    BY <1>2
<1>10. end = After(labels[n])
    BY <1>1 DEF LabelsReach
<1>11. PICK d : d = FlattenSeq(s)
    OBVIOUS
<1>12. d = Dotted(n)
    BY <1>4, <1>8, <1>9, <1>11
<1>13. Name = Tail(d)
    BY <1>11 DEF Name
<1> HIDE DEF s, h, c
<1>14. /\ d \in Seq(Octet) /\ Len(d) = end - 12
       /\ \A k \in 1 .. end - 12 :
             d[k] = IF k + 11 \in Places THEN Dot ELSE data.octet[k + 11]
    BY <1>1, <1>9, <1>10, <1>12, DottedGrows
<1>15. end - 13 \in Nat /\ end \in Nat
    <2>1. PICK a \in Nat, l \in 1 .. 63 : labels[n].first = a /\ After(labels[n]) = a + l
        BY <1>1, <1>9, LabelIs
    <2>2. a > 12
        BY <1>1, <1>9, <2>1, LabelsInOrder
    <2>3. QED
        BY <1>10, <2>1, <2>2
<1>16. d # <<>> /\ (end - 12) - 1 = end - 13
    BY <1>14, <1>15
<1>17. /\ Tail(d) \in Seq(Octet) /\ Len(Tail(d)) = end - 13
       /\ \A k \in 1 .. end - 13 : Tail(d)[k] = d[k + 1]
    BY <1>14, <1>16, HeadTailProperties
<1>18. \A k \in 1 .. end - 13 : k + 1 \in 1 .. end - 12 /\ (k + 1) + 11 = k + 12
    BY <1>15
<1>19. QED
    BY <1>13, <1>14, <1>15, <1>17, <1>18

\* Without a dot in a label, each label becomes a piece again.
LEMMA LabelIsPiece ==
    ASSUME NEW end, LabelsReach(end), NEW i \in 1 .. Len(labels),
           ~Contains(Text(labels[i]), Dot)
    PROVE  /\ labels[i].first - 12 \in 1 .. Len(Name) + 1
           /\ EndOfPiece(Name, labels[i].first - 12) = After(labels[i]) - 12
           /\ Piece(Name, labels[i].first - 12) = Text(labels[i])
<1>1. PICK a \in Nat, l \in 1 .. 63 :
         /\ labels[i].first = a /\ labels[i].len = l /\ After(labels[i]) = a + l
    BY LabelIs
<1>2. a > 12
    BY <1>1, LabelsInOrder
<1>3. Len(labels) \in Nat /\ labels # <<>>
    BY DEF LabelsReach
<1>4. PICK L \in Nat : L = Len(Name) /\ L = end - 13
    BY <1>3, NameIs
<1>5. /\ Name \in Seq(Octet)
      /\ \A k \in 1 .. L : Name[k] = IF k + 12 \in Places THEN Dot ELSE data.octet[k + 12]
    BY <1>3, <1>4, NameIs
<1>6. end \in Int /\ end = L + 13
    <2>1. PICK q \in 1 .. Len(labels) : q = Len(labels)
        BY <1>3
    <2>2. PICK b \in Nat, m \in 1 .. 63 : After(labels[q]) = b + m
        BY LabelIs
    <2>3. end = b + m
        BY <1>3, <2>1, <2>2 DEF LabelsReach
    <2>4. QED
        BY <1>4, <2>3
\* the place behind the label is the end, or has the next length
<1>7. \/ a + l = L + 13
      \/ a + l < L + 13 /\ a + l \in Places
    <2>1. CASE i = Len(labels)
        BY <1>1, <1>3, <1>6, <2>1 DEF LabelsReach
    <2>2. CASE i # Len(labels)
        <3>1. PICK j \in 1 .. Len(labels) : j = i + 1
            BY <1>3, <2>2
        <3>2. j - 1 = i /\ j # 1
            BY <3>1
        <3>3. labels[j].first = (a + l) + 1
            BY <1>1, <3>2 DEF LabelsReach
        <3>4. labels[j].first - 1 \in Places /\ labels[j].first - 1 = a + l
            BY <3>3 DEF Places
        <3>5. PICK q \in 1 .. Len(labels) : q = Len(labels)
            BY <1>3
        <3>6. PICK b \in Nat, m \in 1 .. 63 : labels[q].first = b /\ After(labels[q]) = b + m
            BY LabelIs
        <3>7. i < q
            BY <1>3, <2>2, <3>5
        <3>8. a + l < b
            BY <1>1, <3>6, <3>7, LabelsInOrder
        <3>9. end = b + m
            BY <1>3, <3>5, <3>6 DEF LabelsReach
        <3>10. a + l < L + 13
            BY <1>6, <3>8, <3>9
        <3>11. QED
            BY <3>4, <3>10
    <2>3. QED
        BY <2>1, <2>2
<1>8. PICK t : t = Text(labels[i])
    OBVIOUS
<1>9. t \in Seq(Octet) /\ Len(t) = l /\ \A k \in 1 .. l : t[k] = data.octet[a + k - 1]
    <2>1. t = Octets(a, l)
        BY <1>1, <1>8 DEF Text
    <2>2. a \in Int /\ l \in Nat
        OBVIOUS
    <2>3. QED
        BY <2>1, <2>2, OctetsAre
<1>10. \A k \in 1 .. l : t[k] # Dot
    BY <1>8, <1>9 DEF Contains
<1>11. \A p \in a .. a + l - 1 : p \notin Places
    BY <1>1, InsideLabel
<1>12. \A k \in a - 12 .. (a + l - 12) - 1 :
          /\ k \in 1 .. L /\ k + 12 \in a .. a + l - 1
          /\ k - (a - 12) + 1 \in 1 .. l /\ a + (k - (a - 12) + 1) - 1 = k + 12
    BY <1>2, <1>7
<1>13. \A k \in a - 12 .. (a + l - 12) - 1 :
          Name[k] = data.octet[k + 12] /\ Name[k] = t[k - (a - 12) + 1]
    BY <1>5, <1>9, <1>11, <1>12
<1>14. \A k \in a - 12 .. (a + l - 12) - 1 : Name[k] # Dot
    BY <1>10, <1>12, <1>13
<1>15. a - 12 \in 1 .. L + 1 /\ a + l - 12 \in a - 12 .. L + 1
    BY <1>2, <1>7
<1>16. a + l - 12 = L + 1 \/ Name[a + l - 12] = Dot
    <2>1. CASE a + l = L + 13
        BY <2>1
    <2>2. CASE a + l < L + 13 /\ a + l \in Places
        <3>1. a + l - 12 \in 1 .. L /\ (a + l - 12) + 12 = a + l
            BY <1>2, <2>2
        <3>2. QED
            BY <1>5, <2>2, <3>1
    <2>3. QED
        BY <1>7, <2>1, <2>2
<1>17. EndsPiece(Name, a - 12, a + l - 12)
    BY <1>4, <1>14, <1>15, <1>16 DEF EndsPiece
<1>18. EndOfPiece(Name, a - 12) = a + l - 12
    BY <1>4, <1>5, <1>15, <1>17, PieceEnds
<1>19. PICK p : p = Piece(Name, a - 12)
    OBVIOUS
<1>20. /\ p \in Seq(Octet) /\ Len(p) = (a + l - 12) - (a - 12)
       /\ \A k \in 1 .. (a + l - 12) - (a - 12) : p[k] = Name[(a - 12) + k - 1]
    <2>1. PICK e, b : e = a + l - 12 /\ b = a - 12
        OBVIOUS
    <2>2. b \in 1 .. Len(Name) + 1 /\ e = EndOfPiece(Name, b)
        BY <1>4, <1>15, <1>18, <2>1
    <2>3. /\ Piece(Name, b) \in Seq(Octet) /\ Len(Piece(Name, b)) = e - b
          /\ \A k \in 1 .. e - b : Piece(Name, b)[k] = Name[b + k - 1]
        BY <1>5, <2>2, PieceIs
    <2>4. QED
        BY <1>19, <2>1, <2>3
<1>21. (a + l - 12) - (a - 12) = l
    OBVIOUS
<1>22. \A k \in 1 .. l : /\ (a - 12) + k - 1 \in a - 12 .. (a + l - 12) - 1
                         /\ ((a - 12) + k - 1) - (a - 12) + 1 = k
    OBVIOUS
<1>23. \A k \in 1 .. l : p[k] = t[k]
    BY <1>13, <1>20, <1>21, <1>22
<1>24. p = t
    BY <1>9, <1>20, <1>21, <1>23, SeqEqual
<1>25. QED
    BY <1>1, <1>4, <1>8, <1>15, <1>18, <1>19, <1>24

\* A label's length is kept in an octet as it is.
LEMMA LengthFitsOctet ==
    ASSUME NEW x \in 1 .. 63
    PROVE  x % 256 = x /\ x # 0
<1>1. x % 256 = x
    OBVIOUS
<1>2. x # 0
    OBVIOUS
<1>3. QED
    BY <1>1, <1>2

\* If no label has a dot in it, the encoding of the name is the name as it was
\* asked for.
LEMMA EncodingIsName ==
    ASSUME NEW end, LabelsReach(end), data.octet[end] = 0, end \in Nat,
           \A i \in 1 .. Len(labels) : ~Contains(Text(labels[i]), Dot)
    PROVE  encodeDNSName(Name) = Octets(12, end + 1 - 12)
<1>1. CASE labels = <<>>
    <2>1. Name = <<>> /\ end = 12
        BY <1>1 DEF Name, LabelsReach, minDNSMessageSize
    <2>2. <<>> \in Seq(Nat)
        OBVIOUS
    <2>3. encodeDNSName(<<>>) = <<0>>
        BY <2>2, EncodingIsShort
    <2>4. end + 1 - 12 = 1
        BY <2>1
    <2>5. Octets(12, 1) = <<0>>
        <3>1. 12 + 1 - 1 = end
            BY <2>1
        <3>2. Octets(12, 1) \in Seq(Octet) /\ Len(Octets(12, 1)) = 1 /\ Octets(12, 1)[1] = 0
            <4>1. 12 \in Int /\ 1 \in Nat /\ 1 \in 1 .. 1
                OBVIOUS
            <4>2. /\ Octets(12, 1) \in Seq(Octet) /\ Len(Octets(12, 1)) = 1
                  /\ Octets(12, 1)[1] = data.octet[12 + 1 - 1]
                BY ONLY <4>1, OctetsAre
            <4>3. QED
                BY ONLY <3>1, <4>2, data.octet[end] = 0
        <3>3. <<0>> \in Seq(Octet) /\ Len(<<0>>) = 1 /\ <<0>>[1] = 0
            BY DEF Octet
        <3>4. QED
            BY <3>2, <3>3, SeqEqual
    <2>6. QED
        BY <2>1, <2>3, <2>4, <2>5
<1>2. CASE labels # <<>>
    <2>1. PICK n \in Nat : n = Len(labels) /\ n # 0
        BY <1>2 DEF LabelsReach
    <2>2. PICK L \in Nat : L = Len(Name) /\ L = end - 13 /\ end = L + 13
        BY <1>2, NameIs
    <2>3. Name \in Seq(Octet) /\ Nat \subseteq Octet
        BY <1>2, NameIs DEF Octet
    <2>4. PICK f : Encodes(f, Name, Octet, 1 .. L + 1) /\ encodeDNSName(Name) = f[1]
        BY <2>2, <2>3, EncodingIs
    <2>5. \A k \in 1 .. L + 1 : f[k] = Pass(Name, f, k)
        BY <2>4 DEF Encodes
    <2> DEFINE From(p) == Octets(p, end + 1 - p)
    \* one label and what follows it
    <2>6. ASSUME NEW i \in 1 .. n,
                 i # n => f[labels[i + 1].first - 12] = From(labels[i + 1].first - 1)
          PROVE  f[labels[i].first - 12] = From(labels[i].first - 1)
        <3>1. PICK a \in Nat, l \in 1 .. 63 :
                 /\ labels[i].first = a /\ labels[i].len = l /\ After(labels[i]) = a + l
            BY <2>1, LabelIs
        <3>2. a > 12 /\ data.octet[a - 1] = l
            BY <2>1, <3>1, LabelsInOrder DEF LabelsReach
        <3>3. PICK t : t = Text(labels[i])
            OBVIOUS
        <3>4. /\ a - 12 \in 1 .. L + 1
              /\ EndOfPiece(Name, a - 12) = a + l - 12
              /\ Piece(Name, a - 12) = t
            BY <2>1, <2>2, <3>1, <3>3, LabelIsPiece
        <3>5. t \in Seq(Octet) /\ Len(t) = l /\ \A k \in 1 .. l : t[k] = data.octet[a + k - 1]
            <4>1. t = Octets(a, l)
                BY <3>1, <3>3 DEF Text
            <4>2. a \in Int /\ l \in Nat
                OBVIOUS
            <4>3. QED
                BY <4>1, <4>2, OctetsAre
        <3>6. t # <<>> /\ l % 256 = l
            <4>1. l # 0 /\ l % 256 = l
                BY LengthFitsOctet
            <4>2. t # <<>>
                BY <3>5, <4>1
            <4>3. QED
                BY <4>1, <4>2
        <3>7. PICK r : r = Rest(Name, f, a - 12)
            OBVIOUS
        <3>8. a + l <= end /\ r = From(a + l)
            <4>1. CASE i = n
                <5>1. end = a + l
                    BY <1>2, <2>1, <3>1, <4>1 DEF LabelsReach
                <5>2. a + l - 12 > Len(Name)
                    BY <2>2, <5>1
                <5>3. r = <<0>>
                    BY <3>4, <3>7, <5>2 DEF Rest
                <5>4. end + 1 - end = 1 /\ end + 1 - 1 = end
                    OBVIOUS
                <5>5. /\ Octets(end, 1) \in Seq(Octet) /\ Len(Octets(end, 1)) = 1
                      /\ Octets(end, 1)[1] = 0
                    <6>1. end \in Int /\ 1 \in Nat /\ 1 \in 1 .. 1
                        OBVIOUS
                    <6>2. QED
                        BY ONLY <5>4, <6>1, OctetsAre, data.octet[end] = 0
                <5>6. <<0>> \in Seq(Octet) /\ Len(<<0>>) = 1 /\ <<0>>[1] = 0
                    BY DEF Octet
                <5>7. Octets(end, 1) = <<0>>
                    BY <5>5, <5>6, SeqEqual
                <5>8. QED
                    BY <5>1, <5>3, <5>4, <5>7
            <4>2. CASE i # n
                <5>1. PICK j \in 1 .. n : j = i + 1
                    BY <4>2
                <5>2. j - 1 = i /\ j # 1
                    BY <5>1
                <5>3. labels[j].first = (a + l) + 1
                    BY <2>1, <3>1, <5>2 DEF LabelsReach
                <5>4. labels[j].first - 12 \in 1 .. L + 1
                    BY <2>1, <2>2, LabelIsPiece
                <5>5. (a + l) + 1 - 12 = (a + l - 12) + 1 /\ ~(a + l - 12 > L) /\ a + l <= end
                    <6>1. (a + l) + 1 - 12 \in 1 .. L + 1
                        BY <5>3, <5>4
                    <6>2. QED
                        BY <2>2, <6>1
                <5>6. r = f[(a + l - 12) + 1]
                    BY <2>2, <3>4, <3>7, <5>5 DEF Rest
                <5>7. f[(a + l) + 1 - 12] = From(((a + l) + 1) - 1)
                    BY <2>6, <4>2, <5>1, <5>3
                <5>8. ((a + l) + 1) - 1 = a + l
                    OBVIOUS
                <5>9. QED
                    BY <5>5, <5>6, <5>7, <5>8
            <4>3. QED
                BY <4>1, <4>2
        <3>9. f[a - 12] = <<l>> \o t \o r
            <4>1. f[a - 12] = Pass(Name, f, a - 12)
                BY <2>5, <3>4
            <4>2. Pass(Name, f, a - 12) = IF t = <<>> THEN r ELSE <<Len(t) % 256>> \o t \o r
                BY <3>4, <3>7 DEF Pass
            <4>3. Len(t) % 256 = l
                BY <3>5, <3>6
            <4>4. QED
                BY <3>6, <4>1, <4>2, <4>3
        <3>10. PICK m \in Nat : m = end + 1 - (a + l)
            BY <3>8
        <3>11. /\ r \in Seq(Octet) /\ Len(r) = m
               /\ \A k \in 1 .. m : r[k] = data.octet[(a + l) + k - 1]
            <4>1. r = Octets(a + l, m) /\ a + l \in Int
                BY <3>8, <3>10
            <4>2. QED
                BY <4>1, OctetsAre
        <3>12. <<l>> \in Seq(Octet) /\ Len(<<l>>) = 1 /\ <<l>>[1] = l
            BY <2>3
        <3>13. PICK u : u = <<l>> \o t
            OBVIOUS
        <3>14. /\ u \in Seq(Octet) /\ Len(u) = 1 + l
               /\ \A k \in 1 .. 1 + l : u[k] = IF k <= 1 THEN <<l>>[k] ELSE t[k - 1]
            BY <3>5, <3>12, <3>13, ConcatProperties
        <3>15. \A k \in 1 .. 1 + l : u[k] = data.octet[(a - 1) + k - 1]
            <4> SUFFICES ASSUME NEW k \in 1 .. 1 + l PROVE u[k] = data.octet[(a - 1) + k - 1]
                OBVIOUS
            <4>1. CASE k = 1
                <5>1. (a - 1) + k - 1 = a - 1
                    BY <4>1
                <5>2. QED
                    BY <3>2, <3>12, <3>14, <4>1, <5>1
            <4>2. CASE k # 1
                <5>1. ~(k <= 1) /\ k - 1 \in 1 .. l /\ a + (k - 1) - 1 = (a - 1) + k - 1
                    BY <4>2
                <5>2. QED
                    BY <3>5, <3>14, <5>1
            <4>3. QED
                BY <4>1, <4>2
        <3>16. PICK v : v = u \o r
            OBVIOUS
        <3>17. /\ v \in Seq(Octet) /\ Len(v) = (1 + l) + m
               /\ \A k \in 1 .. (1 + l) + m : v[k] = IF k <= 1 + l THEN u[k] ELSE r[k - (1 + l)]
            <4>1. /\ v \in Seq(Octet) /\ Len(v) = Len(u) + Len(r)
                  /\ \A k \in 1 .. Len(u) + Len(r) :
                        v[k] = IF k <= Len(u) THEN u[k] ELSE r[k - Len(u)]
                BY <3>11, <3>14, <3>16, ConcatProperties
            <4>2. Len(u) = 1 + l /\ Len(r) = m
                BY <3>11, <3>14
            <4>3. QED
                BY ONLY <4>1, <4>2
        <3>18. \A k \in 1 .. (1 + l) + m : v[k] = data.octet[(a - 1) + k - 1]
            <4> SUFFICES ASSUME NEW k \in 1 .. (1 + l) + m PROVE v[k] = data.octet[(a - 1) + k - 1]
                OBVIOUS
            <4>1. CASE k <= 1 + l
                <5>1. k \in 1 .. 1 + l
                    BY <4>1
                <5>2. QED
                    BY <3>15, <3>17, <4>1, <5>1
            <4>2. CASE ~(k <= 1 + l)
                <5>1. k - (1 + l) \in 1 .. m /\ (a + l) + (k - (1 + l)) - 1 = (a - 1) + k - 1
                    BY <4>2
                <5>2. QED
                    BY <3>11, <3>17, <4>2, <5>1
            <4>3. QED
                BY <4>1, <4>2
        <3>19. a - 1 \in Int /\ end + 1 - (a - 1) = (1 + l) + m /\ (1 + l) + m \in Nat
            BY <3>10
        <3>20. PICK w : w = Octets(a - 1, (1 + l) + m)
            OBVIOUS
        <3>21. /\ w \in Seq(Octet) /\ Len(w) = (1 + l) + m
               /\ \A k \in 1 .. (1 + l) + m : w[k] = data.octet[(a - 1) + k - 1]
            BY <3>19, <3>20, OctetsAre
        <3>22. v = w
            BY <3>17, <3>18, <3>21, SeqEqual
        <3>23. QED
            BY <3>1, <3>9, <3>13, <3>16, <3>19, <3>20, <3>22
    <2>7. \A i \in 1 .. n : f[labels[i].first - 12] = From(labels[i].first - 1)
        <3> HIDE DEF From
        <3> DEFINE T == { m \in 0 .. n - 1 :
                             f[labels[n - m].first - 12] # From(labels[n - m].first - 1) }
        <3>1. T \subseteq Nat
            OBVIOUS
        <3>2. ASSUME T # {} PROVE FALSE
            <4>1. PICK m \in T : \A k \in T : m <= k
                <5> HIDE DEF T
                <5>1. QED
                    BY <3>1, <3>2, LeastNat
            <4>2. m \in 0 .. n - 1
                BY <4>1
            <4>3. PICK i \in 1 .. n : i = n - m
                BY <4>2
            <4>4. f[labels[i].first - 12] # From(labels[i].first - 1)
                BY <4>1, <4>3
            <4>5. ASSUME i # n
                  PROVE  f[labels[i + 1].first - 12] = From(labels[i + 1].first - 1)
                <5>1. m - 1 \in 0 .. n - 1 /\ m - 1 < m /\ n - (m - 1) = i + 1
                    BY <4>2, <4>3, <4>5
                <5>2. m - 1 \notin T
                    <6> HIDE DEF T
                    <6>1. ~(m <= m - 1)
                        BY <4>2
                    <6>2. QED
                        BY <4>1, <6>1
                <5>3. QED
                    BY <5>1, <5>2
            <4>6. QED
                BY <2>6, <4>4, <4>5
        <3>3. \A i \in 1 .. n : n - i \in 0 .. n - 1 /\ n - (n - i) = i
            OBVIOUS
        <3>4. QED
            BY <3>2, <3>3
    <2>8. labels[1].first = 13 /\ 1 \in 1 .. n
        BY <2>1 DEF LabelsReach, minDNSMessageSize
    <2>9. f[1] = From(12)
        <3> HIDE DEF From
        <3>1. 13 - 12 = 1 /\ 13 - 1 = 12
            OBVIOUS
        <3>2. QED
            BY <2>7, <2>8, <3>1
    <2>10. QED
        BY <2>4, <2>9
<1>3. QED
    BY <1>1, <1>2

\* The labels that parseQName has cut lead from the header to the offset; once
\* the name has been accepted, to the octet 0 before it.
QuestionInv ==
    /\ pc \in {"idle", "start"} => labels = <<>>
    /\ pc = "qname" => LabelsReach(offset)
    /\ pc = "accepted" /\ data.proto = "dns" =>
          /\ LabelsReach(offset - 1)
          /\ data.octet[offset - 1] = 0

\* One more label lies behind the others.
LEMMA LabelReachesOn ==
    ASSUME ParserInv, LabelsReach(offset), parseLabel
    PROVE  LabelsReach(offset)'
<1>1. PICK o \in Nat : o = offset
    BY DEF ParserInv
<1>2. PICK l \in 1 .. 63 : l = length
    BY DEF parseLabel
<1>3. PICK e : e = [first |-> o + 1, len |-> l]
    OBVIOUS
<1>4. /\ labels' = Append(labels, e) /\ offset' = o + 1 + l /\ data' = data
      /\ data.octet[o] = l
    BY <1>1, <1>2, <1>3 DEF parseLabel, length
<1>5. e \in [first : Nat, len : 1 .. 63] /\ e.first = o + 1 /\ e.len = l
    BY <1>3
<1>6. labels \in Seq([first : Nat, len : 1 .. 63])
    BY DEF LabelsReach
<1>7. PICK n \in Nat : n = Len(labels)
    BY <1>6
<1>8. /\ labels' \in Seq([first : Nat, len : 1 .. 63])
      /\ Len(labels') = n + 1
      /\ \A i \in 1 .. n : labels'[i] = labels[i]
      /\ labels'[n + 1] = e
    BY <1>4, <1>5, <1>6, <1>7, AppendProperties
<1>9. labels' # <<>> /\ offset' = After(labels'[Len(labels')])
    <2>1. (o + 1) + l = o + 1 + l
        OBVIOUS
    <2>2. After(e) = o + 1 + l
        BY <1>5, <2>1 DEF After
    <2>3. n + 1 # 0
        OBVIOUS
    <2>4. labels' # <<>>
        BY <1>8, <2>3
    <2>5. QED
        BY <1>4, <1>8, <2>2, <2>4
<1>10. ASSUME NEW i \in 1 .. n + 1
       PROVE  /\ labels'[i].first = (IF i = 1 THEN minDNSMessageSize ELSE After(labels'[i - 1])) + 1
              /\ labels'[i].len = data.octet[labels'[i].first - 1]
    <2>1. CASE i = n + 1
        <3>1. labels'[i] = e /\ o + 1 - 1 = o
            BY <1>8, <2>1
        <3>2. labels'[i].len = data.octet[labels'[i].first - 1]
            BY <1>4, <1>5, <3>1
        <3>3. CASE n = 0
            <4>1. labels = <<>> /\ i = 1
                <5>1. Len(labels) = 0
                    BY <1>7, <3>3
                <5>2. labels = <<>>
                    BY <1>6, <5>1
                <5>3. i = 1
                    BY <2>1, <3>3
                <5>4. QED
                    BY <5>2, <5>3
            <4>2. o = minDNSMessageSize
                BY <1>1, <4>1 DEF LabelsReach
            <4>3. QED
                BY <1>5, <3>1, <3>2, <4>1, <4>2
        <3>4. CASE n # 0
            <4>1. labels # <<>> /\ i # 1 /\ i - 1 = n /\ n \in 1 .. n
                BY <1>7, <2>1, <3>4
            <4>2. o = After(labels[n])
                BY <1>1, <1>7, <4>1 DEF LabelsReach
            <4>3. labels'[i - 1] = labels[n]
                BY <1>8, <4>1
            <4>4. QED
                BY <1>5, <3>1, <3>2, <4>1, <4>2, <4>3
        <3>5. QED
            BY <3>3, <3>4
    <2>2. CASE i # n + 1
        <3>1. i \in 1 .. n
            BY <2>2
        <3>2. labels'[i] = labels[i]
            BY <1>8, <3>1
        <3>3. /\ labels[i].first = (IF i = 1 THEN minDNSMessageSize ELSE After(labels[i - 1])) + 1
              /\ labels[i].len = data.octet[labels[i].first - 1]
            BY <1>7, <3>1 DEF LabelsReach
        <3>4. i # 1 => i - 1 \in 1 .. n
            BY <3>1
        <3>5. i # 1 => labels'[i - 1] = labels[i - 1]
            BY <1>8, <3>4
        <3>6. QED
            BY <3>2, <3>3, <3>5
    <2>3. QED
        BY <2>1, <2>2
<1>11. QED
    BY <1>4, <1>8, <1>9, <1>10 DEF LabelsReach, After

\* Every step keeps the labels in line with the offset, or has nothing to do
\* with them.
LEMMA QuestionStep == ParserInv /\ QuestionInv /\ [Next]_vars => QuestionInv'
<1> SUFFICES ASSUME ParserInv, QuestionInv, [Next]_vars
             PROVE  QuestionInv'
    OBVIOUS
<1>1. CASE Execute
    BY <1>1 DEF Execute, QuestionInv
<1>2. CASE ParseQuery
    <2>1. /\ pc = "start" /\ pc' = "qname" /\ labels' = labels
          /\ offset' = minDNSMessageSize
        BY <1>2 DEF ParseQuery, Is
    <2>2. labels' = <<>>
        BY <2>1 DEF QuestionInv
    <2>3. labels' \in Seq([first : Nat, len : 1 .. 63]) /\ Len(labels') = 0
        BY <2>2
    <2>4. 1 .. 0 = {}
        OBVIOUS
    <2>5. LabelsReach(offset)'
        BY <2>1, <2>2, <2>3, <2>4 DEF LabelsReach
    <2>6. QED
        BY <2>1, <2>5 DEF QuestionInv
<1>3. CASE ParseQueryFails \/ parseLabelFails \/ ParseNTPRequestFails
    <2>1. pc' = "rejected"
        BY <1>3 DEF ParseQueryFails, parseLabelFails, ParseNTPRequestFails, Return
    <2>2. QED
        BY <2>1 DEF QuestionInv
<1>4. CASE parseLabel
    <2>1. pc = "qname" /\ pc' = "qname"
        BY <1>4 DEF parseLabel
    <2>2. LabelsReach(offset)'
        BY <1>4, <2>1, LabelReachesOn DEF QuestionInv
    <2>3. QED
        BY <2>1, <2>2 DEF QuestionInv
<1>5. CASE endOfName
    <2>1. /\ pc = "qname" /\ pc' \in {"accepted", "rejected"} /\ data' = data
          /\ labels' = labels /\ offset' = offset + 1 /\ data.octet[offset] = 0
        BY <1>5 DEF endOfName, length
    <2>2. offset' - 1 = offset
        BY <2>1 DEF ParserInv
    <2>3. LabelsReach(offset)
        BY <2>1 DEF QuestionInv
    <2>4. LabelsReach(offset - 1)'
        BY <2>1, <2>2, <2>3 DEF LabelsReach, After
    <2>5. QED
        BY <2>1, <2>2, <2>4 DEF QuestionInv
<1>6. CASE ParseNTPRequest \/ ParseSSDPRequest
    <2>1. pc' \notin {"idle", "start", "qname"} /\ data' = data /\ data.proto # "dns"
        BY <1>6 DEF ParseNTPRequest, ParseSSDPRequest, Is, Return
    <2>2. QED
        BY <2>1 DEF QuestionInv
<1>7. CASE scanLine \/ endOfHeaders
    <2>1. pc = "headers" /\ pc' \in {"headers", "accepted"} /\ data' = data
        BY <1>7 DEF scanLine, endOfHeaders, Return
    <2>2. data.proto # "dns"
        BY <2>1, HeaderAssumption DEF ParserInv
    <2>3. QED
        BY <2>1, <2>2 DEF QuestionInv
<1>8. CASE Done
    BY <1>8 DEF Done, QuestionInv
<1>9. CASE UNCHANGED vars
    <2>1. LabelsReach(offset) => LabelsReach(offset)'
        BY <1>9 DEF vars, LabelsReach, After
    <2>2. LabelsReach(offset - 1) => LabelsReach(offset - 1)'
        BY <1>9 DEF vars, LabelsReach, After
    <2>3. QED
        BY <1>9, <2>1, <2>2 DEF vars, QuestionInv
<1>10. QED
    BY <1>1, <1>2, <1>3, <1>4, <1>5, <1>6, <1>7, <1>8, <1>9 DEF Next

\* Of an accepted query the name is echoed, or else something no longer.
LEMMA EchoIsAsked == ParserInv /\ QuestionInv => QuestionIsEchoed
<1> SUFFICES ASSUME ParserInv, QuestionInv, Ended("dns"), pc = "accepted"
             PROVE  LET asked == Octets(minDNSMessageSize, offset - minDNSMessageSize)
                        echo == encodeDNSName(Name)
                    IN  /\ Len(echo) <= Len(asked)
                        /\ (\A i \in DOMAIN labels : ~Contains(Text(labels[i]), Dot))
                              => echo = asked
    BY DEF QuestionIsEchoed
<1>1. LabelsReach(offset - 1) /\ data.octet[offset - 1] = 0 /\ offset \in Nat
    BY DEF QuestionInv, ParserInv, Ended
<1>2. PICK end : end = offset - 1
    OBVIOUS
<1>3. LabelsReach(end) /\ data.octet[end] = 0 /\ end \in Int
    BY <1>1, <1>2
<1>4. Nat \subseteq Octet
    BY DEF Octet
<1>5. /\ end \in Nat /\ end >= 12
      /\ Len(encodeDNSName(Name)) <= end + 1 - 12
    <2>1. CASE labels = <<>>
        <3>1. end = 12 /\ Name = <<>>
            BY <1>3, <2>1 DEF LabelsReach, Name, minDNSMessageSize
        <3>2. <<>> \in Seq(Nat)
            OBVIOUS
        <3>3. encodeDNSName(Name) = <<0>>
            BY <3>1, <3>2, EncodingIsShort
        <3>4. Len(<<0>>) = 1 /\ 12 \in Nat /\ 12 >= 12 /\ 1 <= 12 + 1 - 12
            OBVIOUS
        <3>5. QED
            BY <3>1, <3>3, <3>4
    <2>2. CASE labels # <<>>
        <3>1. Name \in Seq(Octet) /\ end - 13 \in Nat /\ Len(Name) = end - 13
            BY <1>3, <2>2, NameIs
        <3>2. /\ encodeDNSName(Name) \in Seq(Octet)
              /\ Len(encodeDNSName(Name)) <= Len(Name) + 2
            BY <1>4, <3>1, EncodingIsShort
        <3>3. PICK m \in Nat : m = Len(encodeDNSName(Name))
            BY <3>2
        <3>4. m <= (end - 13) + 2
            BY <3>1, <3>2, <3>3
        <3>5. end \in Nat /\ end >= 12 /\ m <= end + 1 - 12
            BY <1>3, <3>1, <3>4
        <3>6. QED
            BY <3>3, <3>5
    <2>3. QED
        BY <2>1, <2>2
<1>6. PICK k \in Nat : k = end + 1 - 12 /\ offset - minDNSMessageSize = k
    BY <1>1, <1>2, <1>5 DEF minDNSMessageSize
<1>7. Len(Octets(12, k)) = k
    BY OctetsAre
<1>8. ASSUME \A i \in DOMAIN labels : ~Contains(Text(labels[i]), Dot)
      PROVE  encodeDNSName(Name) = Octets(12, k)
    <2>1. DOMAIN labels = 1 .. Len(labels)
        BY <1>3 DEF LabelsReach
    <2>2. QED
        BY <1>3, <1>5, <1>6, <1>8, <2>1, EncodingIsName
<1>9. QED
    BY <1>5, <1>6, <1>7, <1>8 DEF minDNSMessageSize

\* The question of the reply is the question asked, octet by octet, if no label
\* has a dot in it, and never longer than it, for queries with names of every
\* length and content.
THEOREM QuestionsAreEchoed == Spec => []QuestionIsEchoed
<1>1. Init => QuestionInv
    BY DEF Init, QuestionInv
<1>2. QED
    BY <1>1, ParserStarts, ParserStep, QuestionStep, EchoIsAsked, PTL DEF Spec

-----------------------------------------------------------------------------
(* ParseSSDPRequest                                                        *)

\* The last MAN header among the lines scanned is what MAN holds; while there is
\* none, MAN is empty.  None of the lines scanned ends the headers, and an
\* accepted request was scanned up to the line that does or to its end.
HeadersInv ==
    /\ fields = [f \in Field |-> fields[f]]
    /\ pc \in {"idle", "start"} => offset = 0 /\ fields["MAN"] = ""
    /\ pc \in {"headers", "accepted"} /\ data.proto = "ssdp" =>
          /\ offset <= Len(data.lines)
          /\ \A j \in 1 .. offset : data.lines[j].key # "end"
          /\ \/ /\ fields["MAN"] = ""
                /\ \A j \in 1 .. offset : data.lines[j].key # "MAN"
             \/ \E i \in 1 .. offset :
                   /\ data.lines[i].key = "MAN"
                   /\ fields["MAN"] = data.lines[i].val
                   /\ \A j \in i + 1 .. offset : data.lines[j].key # "MAN"
    /\ pc = "accepted" /\ data.proto = "ssdp" /\ offset < Len(data.lines) =>
          line.key = "end"

\* Scanning one more line keeps MAN at the last MAN header.
LEMMA ScanKeepsLastMAN ==
    ASSUME ParserInv, HeadersInv, scanLine
    PROVE  HeadersInv'
<1>1. /\ pc = "headers" /\ pc' = "headers" /\ data' = data
      /\ offset < Len(data.lines) /\ line.key # "end"
      /\ offset' = offset + 1
      /\ fields' = IF line.key \in Field
                   THEN [fields EXCEPT ![line.key] = line.val] ELSE fields
    BY DEF scanLine
<1>2. data \in SSDPRequest /\ offset \in Nat /\ data.proto = "ssdp"
    BY <1>1, HeaderAssumption DEF ParserInv
<1>3. Len(data.lines) \in Nat
    BY <1>2, LineAssumption
<1>4. fields' = [f \in Field |-> fields'[f]]
    BY <1>1 DEF HeadersInv
<1>5. \A j \in 1 .. offset + 1 : j \in 1 .. offset \/ j = offset + 1
    BY <1>2
<1>6. offset + 1 <= Len(data.lines)
    BY <1>1, <1>2, <1>3
<1>7. \A j \in 1 .. offset + 1 : data.lines[j].key # "end"
    BY <1>1, <1>2, <1>5 DEF HeadersInv, line
<1>8. \/ /\ fields'["MAN"] = ""
         /\ \A j \in 1 .. offset + 1 : data.lines[j].key # "MAN"
      \/ \E i \in 1 .. offset + 1 :
            /\ data.lines[i].key = "MAN"
            /\ fields'["MAN"] = data.lines[i].val
            /\ \A j \in i + 1 .. offset + 1 : data.lines[j].key # "MAN"
    <2>1. CASE line.key = "MAN"
        <3>1. "MAN" \in Field /\ fields'["MAN"] = line.val
            BY <1>1, <2>1 DEF HeadersInv, Field
        <3>2. offset + 1 \in 1 .. offset + 1 /\ (offset + 1) + 1 .. offset + 1 = {}
            BY <1>2
        <3>3. QED
            BY <2>1, <3>1, <3>2 DEF line
    <2>2. CASE line.key # "MAN"
        <3>1. fields'["MAN"] = fields["MAN"]
            BY <1>1, <2>2 DEF HeadersInv, Field
        <3>2. CASE /\ fields["MAN"] = ""
                   /\ \A j \in 1 .. offset : data.lines[j].key # "MAN"
            BY <1>5, <2>2, <3>1, <3>2 DEF line
        <3>3. CASE \E i \in 1 .. offset :
                      /\ data.lines[i].key = "MAN"
                      /\ fields["MAN"] = data.lines[i].val
                      /\ \A j \in i + 1 .. offset : data.lines[j].key # "MAN"
            <4>1. PICK i \in 1 .. offset :
                      /\ data.lines[i].key = "MAN"
                      /\ fields["MAN"] = data.lines[i].val
                      /\ \A j \in i + 1 .. offset : data.lines[j].key # "MAN"
                BY <3>3
            <4>2. i \in 1 .. offset + 1
                BY <1>2
            <4>3. \A j \in i + 1 .. offset + 1 : j \in i + 1 .. offset \/ j = offset + 1
                BY <1>2
            <4>4. QED
                BY <2>2, <3>1, <4>1, <4>2, <4>3 DEF line
        <3>4. QED
            BY <1>1, <1>2, <3>2, <3>3 DEF HeadersInv
    <2>3. QED
        BY <2>1, <2>2
<1>9. QED
    BY <1>1, <1>2, <1>4, <1>6, <1>7, <1>8 DEF HeadersInv

\* Every other step leaves the headers alone, or starts them over.
LEMMA HeadersStep == ParserInv /\ HeadersInv /\ [Next]_vars => HeadersInv'
<1> SUFFICES ASSUME ParserInv, HeadersInv, [Next]_vars
             PROVE  HeadersInv'
    OBVIOUS
<1>1. CASE Execute
    BY <1>1 DEF Execute, HeadersInv
<1>2. CASE ParseQuery \/ ParseQueryFails
    <2>1. /\ pc' \notin {"idle", "start"} /\ data' = data /\ fields' = fields
          /\ data.proto = "dns"
        BY <1>2 DEF ParseQuery, ParseQueryFails, Is, Return
    <2>2. QED
        BY <2>1 DEF HeadersInv
<1>3. CASE parseLabel \/ parseLabelFails \/ endOfName
    <2>1. /\ pc = "qname" /\ pc' \notin {"idle", "start"} /\ data' = data
          /\ fields' = fields
        BY <1>3 DEF parseLabel, parseLabelFails, endOfName, Return
    <2>2. data.proto = "dns"
        BY <2>1, HeaderAssumption DEF ParserInv
    <2>3. QED
        BY <2>1, <2>2 DEF HeadersInv
<1>4. CASE ParseNTPRequest \/ ParseNTPRequestFails
    <2>1. /\ pc' \notin {"idle", "start"} /\ data' = data /\ fields' = fields
          /\ data.proto = "ntp"
        BY <1>4 DEF ParseNTPRequest, ParseNTPRequestFails, Is, Return
    <2>2. QED
        BY <2>1 DEF HeadersInv
<1>5. CASE ParseSSDPRequest
    <2>1. /\ pc = "start" /\ pc' \in {"headers", "rejected"} /\ data' = data
          /\ fields' = fields /\ offset' = offset /\ data.proto = "ssdp"
        BY <1>5 DEF ParseSSDPRequest, Is, Return
    <2>2. offset = 0 /\ fields["MAN"] = ""
        BY <2>1 DEF HeadersInv
    <2>3. data \in SSDPRequest
        BY <2>1, DatagramCases DEF ParserInv
    <2>4. Len(data.lines) \in Nat
        BY <2>3, LineAssumption
    <2>5. offset <= Len(data.lines) /\ 1 .. offset = {}
        <3>1. \A n \in Nat : 0 <= n /\ 1 .. 0 = {}
            OBVIOUS
        <3>2. QED
            BY <2>2, <2>4, <3>1
    <2>6. fields = [f \in Field |-> fields[f]]
        BY DEF HeadersInv
    <2>7. QED
        BY <2>1, <2>2, <2>5, <2>6 DEF HeadersInv
<1>6. CASE scanLine
    BY <1>6, ScanKeepsLastMAN
<1>7. CASE endOfHeaders
    <2>1. /\ pc = "headers" /\ pc' = "accepted" /\ data' = data
          /\ fields' = fields /\ offset' = offset
          /\ offset < Len(data.lines) => line.key = "end"
        BY <1>7 DEF endOfHeaders, Return
    <2>2. QED
        BY <2>1 DEF HeadersInv, line
<1>8. CASE Done
    <2>1. pc' = "idle" /\ offset' = 0 /\ fields' = [f \in Field |-> ""]
        BY <1>8 DEF Done
    <2>2. QED
        BY <2>1 DEF HeadersInv, Field
<1>9. CASE UNCHANGED vars
    BY <1>9 DEF vars, HeadersInv, line
<1>10. QED
    BY <1>1, <1>2, <1>3, <1>4, <1>5, <1>6, <1>7, <1>8, <1>9 DEF Next

\* Once the headers are scanned, the last MAN header of the request decides.
LEMMA LastMANDecides == ParserInv /\ HeadersInv => ProbeIfLastMANSaysSo
<1> SUFFICES ASSUME ParserInv, HeadersInv, Ended("ssdp"), pc = "accepted"
             PROVE  LET InHeader(i) == \A j \in 1 .. i : data.lines[j].key # "end"
                        MAN == { i \in DOMAIN data.lines :
                                    data.lines[i].key = "MAN" /\ InHeader(i) }
                    IN  IsAmplificationProbe <=>
                           \E i \in MAN : /\ \A j \in MAN : j <= i
                                          /\ data.lines[i].val = "ssdp:discover"
    BY DEF ProbeIfLastMANSaysSo
<1> DEFINE InHeader(i) == \A j \in 1 .. i : data.lines[j].key # "end"
           MAN == { i \in DOMAIN data.lines :
                       data.lines[i].key = "MAN" /\ InHeader(i) }
<1>1. data.proto = "ssdp" /\ data \in SSDPRequest /\ offset \in Nat
    BY DatagramCases DEF Ended, ParserInv
<1>2. Len(data.lines) \in Nat /\ DOMAIN data.lines = 1 .. Len(data.lines)
    BY <1>1, LineAssumption
<1>3. offset <= Len(data.lines) /\ \A j \in 1 .. offset : data.lines[j].key # "end"
    BY <1>1 DEF HeadersInv
<1>4. offset < Len(data.lines) => data.lines[offset + 1].key = "end"
    BY <1>1 DEF HeadersInv, line
<1>5. MAN = { i \in 1 .. offset : data.lines[i].key = "MAN" }
    <2>1. ASSUME NEW i \in MAN PROVE i \in 1 .. offset
        <3>1. i \in 1 .. Len(data.lines) /\ InHeader(i)
            BY <1>2, <2>1
        <3>2. ASSUME i > offset PROVE FALSE
            <4>1. offset + 1 \in 1 .. i /\ offset < Len(data.lines)
                BY <1>1, <1>2, <3>1, <3>2
            <4>2. QED
                BY <1>4, <3>1, <4>1
        <3>3. QED
            BY <1>1, <1>2, <3>1, <3>2
    <2>2. ASSUME NEW i \in 1 .. offset PROVE i \in DOMAIN data.lines /\ InHeader(i)
        <3>1. \A j \in 1 .. i : j \in 1 .. offset
            BY <1>1
        <3>2. QED
            BY <1>1, <1>2, <1>3, <3>1
    <2>3. QED
        BY <2>1, <2>2
<1> HIDE DEF MAN, InHeader
<1>6. CASE /\ fields["MAN"] = ""
           /\ \A j \in 1 .. offset : data.lines[j].key # "MAN"
    <2>1. MAN = {} /\ ~IsAmplificationProbe
        BY <1>5, <1>6 DEF IsAmplificationProbe
    <2>2. QED
        BY <2>1 DEF MAN, InHeader
<1>7. CASE \E i \in 1 .. offset :
              /\ data.lines[i].key = "MAN"
              /\ fields["MAN"] = data.lines[i].val
              /\ \A j \in i + 1 .. offset : data.lines[j].key # "MAN"
    <2>1. PICK i \in 1 .. offset :
              /\ data.lines[i].key = "MAN"
              /\ fields["MAN"] = data.lines[i].val
              /\ \A j \in i + 1 .. offset : data.lines[j].key # "MAN"
        BY <1>7
    <2>2. i \in MAN
        BY <1>5, <2>1
    <2>3. \A j \in MAN : j <= i
        <3> SUFFICES ASSUME NEW j \in MAN, j > i PROVE FALSE
            BY <1>1, <1>5
        <3>1. j \in i + 1 .. offset
            BY <1>1, <1>5
        <3>2. QED
            BY <1>5, <2>1, <3>1
    <2>4. \A k \in MAN : (\A j \in MAN : j <= k) => k = i
        BY <1>1, <1>5, <2>2, <2>3
    <2>5. IsAmplificationProbe <=> data.lines[i].val = "ssdp:discover"
        BY <2>1 DEF IsAmplificationProbe
    <2>6. IsAmplificationProbe <=>
             \E k \in MAN : /\ \A j \in MAN : j <= k
                            /\ data.lines[k].val = "ssdp:discover"
        BY <2>2, <2>3, <2>4, <2>5
    <2>7. QED
        BY <2>6 DEF MAN, InHeader
<1>8. QED
    BY <1>1, <1>6, <1>7 DEF HeadersInv

\* An accepted SSDP request counts as a discovery probe exactly if the last MAN
\* header before the first empty line says so, for requests of any number of
\* lines in any order.
THEOREM LastMANWins == Spec => []ProbeIfLastMANSaysSo
<1>1. Init => HeadersInv
    BY DEF Init, HeadersInv, Field
<1>2. QED
    BY <1>1, ParserStarts, ParserStep, HeadersStep, LastMANDecides, PTL DEF Spec
=============================================================================
