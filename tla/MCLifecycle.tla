---------------------------- MODULE MCLifecycle -----------------------------
(* Small configurations of Lifecycle.                                      *)
EXTENDS Lifecycle

Started == [name |-> "one", valid |-> TRUE, autoStart |-> TRUE]
Stopped == [name |-> "two", valid |-> TRUE, autoStart |-> FALSE]
Refused == [name |-> "three", valid |-> FALSE, autoStart |-> TRUE]

\* no address, an empty entry, the same address twice; a file that is loaded,
\* one with a spec that is refused, none; with an events file and without; every
\* fault
MCConfigs ==
    { [ips |-> <<"">>, given |-> {"events", "experiments"}, file |-> <<Started, Stopped>>,
       faults |-> {"open", "accept"}],
      [ips |-> <<"a", "">>, given |-> {"experiments"}, file |-> <<Started, Refused, Stopped>>,
       faults |-> {"read", "yaml"}],
      [ips |-> <<"a", "a">>, given |-> {"events"}, file |-> <<>>,
       faults |-> {}] }
=============================================================================
