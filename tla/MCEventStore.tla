---------------------------- MODULE MCEventStore ----------------------------
(* Small instances of EventStore.                                          *)
EXTENDS EventStore, TLC

\* two addresses with two events each, one of them with a tie of labels
MCSeen ==
    << [ip |-> "a", type |-> "A", label |-> "noise"],
       [ip |-> "b", type |-> "ANY", label |-> "noise"],
       [ip |-> "b", type |-> "ANY", label |-> "attacker"],
       [ip |-> "a", type |-> "A", label |-> "noise"] >>

OneSeen == SubSeq(MCSeen, 1, 1)

Symmetry == Permutations(Writer) \cup Permutations(Reader)
=============================================================================
