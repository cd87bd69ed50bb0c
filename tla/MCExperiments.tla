--------------------------- MODULE MCExperiments ---------------------------
(* Small instances of Experiments for TLC: inputs and a hash function.      *)
EXTENDS Experiments, TLC

CONSTANTS e1, e2, s1, s2, d1, d2

Arm(w, ips) == [weight |-> w, ips |-> ips, ntp |-> "", peers |-> 0]

BySource == [name |-> "a", mode |-> "source",
             variants |-> <<Arm(500, {}), Arm(499, {})>>]

ByDestination == [name |-> "b", mode |-> "destination",
                  variants |-> <<Arm(0, {d1}), Arm(0, {d1, d2})>>]

NoArms == [name |-> "c", mode |-> "", variants |-> <<>>]

MCInputs == {BySource, ByDestination, NoArms}

SourceInputs == {BySource, NoArms}

MCPacket == {<<s1, d1>>, <<s2, d1>>, <<s2, d2>>}

OnePacket == {<<s1, d1>>}

\* s1 falls into the first half; s2 above the sum of the weights
MCHash == [x \in ExpId \X Source |-> IF x[2] = s1 THEN 499 ELSE 999]

Symmetry == Permutations(Creator) \cup Permutations(Updater)
              \cup Permutations(Probe) \cup Permutations(ExpId)
=============================================================================
