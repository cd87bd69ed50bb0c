----------------------------- MODULE MCReplies -----------------------------
(* Replies for names and for sizes around the unpadded reply, the smallest  *)
(* padded one, the edges of character strings, the largest datagram and the *)
(* range of RDLENGTH; monlists up to one whose sequence numbers wrap.       *)
EXTENDS Replies

MCQName == {1, 13, 255}
MCTarget == (30 .. 62) \cup (284 .. 330) \cup (555 .. 575)
                \cup {1, 512, 1232, 4096, 65506, 65507, 65536, 65600, 66000}
MCPeers == (1 .. 25) \cup {36, 60, 600, 774, 780}
=============================================================================
