------------------------------ MODULE MCPlayer ------------------------------
(***************************************************************************)
(* Player for TLC: the requests clients make.                              *)
(***************************************************************************)
EXTENDS Player, TLC

Announcing(key, fmtp) == [Request("Announce") EXCEPT !.key = key, !.fmtp = fmtp]
Session == { Request(op) : op \in {"Setup", "Record", "Teardown"} }

\* A client as the protocol has it: encrypted, with a usable decoder.
PoliteRequests ==
    Session \cup { Request("Flush"), Request("GetParameter") }
            \cup { Announcing(key, TRUE) : key \in Keys }

\* Anything a connection may ask for, in any order.
AnyRequests ==
    Session \cup { Announcing(key, TRUE) : key \in Keys \cup {NoKey} }
            \cup { Announcing(key, FALSE) : key \in Keys \ BadKeys }
            \cup { [Request("SetParameter") EXCEPT !.volume = 1], Request("GetParameter") }

\* Connections are alike, and so are the usable keys.
Symmetry == Permutations(Conns) \cup Permutations(Keys \ BadKeys)
=============================================================================
