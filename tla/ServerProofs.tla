----------------------------- MODULE ServerProofs -----------------------------
(***************************************************************************)
(* The safety properties of Server for any number of connections.          *)
(***************************************************************************)
EXTENDS Server, TLAPS

\* The running parts own the clones of shutdown_complete_tx, and recv() has
\* returned only when there was none left (server.rs:98-102).
SendersHeld ==
    /\ SendersExact
    /\ server = "exited" => senders = {}

\* The failures of the accept() under way, the back off they have led to, and
\* the seconds slept (listener.rs:105-127).
Doubled == {<<0, 1>>, <<1, 2>>, <<2, 4>>, <<3, 8>>, <<4, 16>>, <<5, 32>>}

BackoffCounted ==
    \/ /\ reason # "accept"
       /\ listener = "accepting"
       /\ <<failures, backoff>> \in Doubled
       /\ slept = backoff - 1
    \/ /\ reason # "accept"
       /\ listener = "sleeping"
       /\ <<failures - 1, backoff>> \in Doubled
       /\ backoff <= 16
       /\ slept = backoff - 1
    \/ /\ reason = "accept"
       /\ server # "select"
       /\ failures = 6
       /\ slept = 31

ServerInv == TypeOK /\ SendersHeld /\ BackoffCounted

-----------------------------------------------------------------------------
\* What a connection's task does keeps the types: it moves one handler.
LEMMA StepKeepsInv ==
    ASSUME ServerInv, NEW c \in Conns, NEW from,
           NEW to \in {"reading", "executing", "writing", "returned"},
           from \in {"reading", "executing", "writing"},
           Step(c, from, to)
    PROVE  ServerInv'
<1>1. TypeOK'
  BY DEF Step, ServerInv, TypeOK, listenerVars
<1>2. SendersHeld'
  <2>1. Running' = IF to = "returned" THEN Running \ {c} ELSE Running
    BY DEF Step, ServerInv, TypeOK, Running
  <2>2. senders' = IF to = "returned" THEN senders \ {c} ELSE senders
    BY DEF Step
  <2>3. server' = server /\ server \in {"select", "waiting"} /\ c \notin Owners
    BY ServerAssumption DEF Step, Alive, Owners
  <2> QED BY <2>1, <2>2, <2>3 DEF ServerInv, SendersHeld, SendersExact
<1>3. BackoffCounted'
  BY DEF Step, ServerInv, BackoffCounted, listenerVars
<1> QED BY <1>1, <1>2, <1>3 DEF ServerInv

\* Whatever ends the select: only the owners' clones go.
LEMMA EndSelectKeepsHeld ==
    ASSUME ServerInv, NEW why, EndSelect(why), UNCHANGED handler
    PROVE  /\ SendersHeld'
           /\ server' = "waiting" /\ senders' \subseteq Owners \cup Conns
BY ServerAssumption DEF EndSelect, ServerInv, TypeOK, SendersHeld, SendersExact, Running, Owners

\* The invariant holds throughout.
THEOREM ServerInvariant == Spec => []ServerInv
<1>1. Init => ServerInv
  BY DEF Init, ServerInv, TypeOK, SendersHeld, SendersExact, Running, BackoffCounted, Doubled, Owners
<1>2. ServerInv /\ [Next]_vars => ServerInv'
  <2> SUFFICES ASSUME ServerInv, [Next]_vars PROVE ServerInv'
    OBVIOUS
  <2>1. ASSUME NEW why \in {"ctrl_c", "player"}, Stops(why) PROVE ServerInv'
    <3>1. SendersHeld' /\ senders' \subseteq Owners \cup Conns
      BY <2>1, EndSelectKeepsHeld DEF Stops
    <3>2. TypeOK' /\ BackoffCounted'
      BY <2>1, <3>1 DEF Stops, EndSelect, ServerInv, TypeOK, BackoffCounted, listenerVars
    <3> QED BY <3>1, <3>2 DEF ServerInv
  <2>2. CASE MdnsFails
    <3>1. SendersHeld' /\ senders' \subseteq Owners \cup Conns
      BY <2>2, EndSelectKeepsHeld DEF MdnsFails
    <3>2. TypeOK' /\ BackoffCounted'
      BY <2>2, <3>1 DEF MdnsFails, EndSelect, ServerInv, TypeOK, BackoffCounted, listenerVars
    <3> QED BY <3>1, <3>2 DEF ServerInv
  <2>3. CASE MdnsRegisters
    BY <2>3 DEF MdnsRegisters, ServerInv, TypeOK, SendersHeld, SendersExact, Running, BackoffCounted, listenerVars
  <2>4. CASE PlayerPanics
    BY <2>4 DEF PlayerPanics, ServerInv, TypeOK, SendersHeld, SendersExact, Running, BackoffCounted, listenerVars
  <2>5. CASE Exit
    BY <2>5 DEF Exit, ServerInv, TypeOK, SendersHeld, SendersExact, Running, BackoffCounted, listenerVars
  <2>6. CASE AcceptFails
    <3>1. TypeOK' /\ BackoffCounted'
      BY <2>6 DEF AcceptFails, Accepting, ServerInv, TypeOK, BackoffCounted, Doubled
    <3>2. SendersHeld'
      BY <2>6 DEF AcceptFails, ServerInv, SendersHeld, SendersExact, Running
    <3> QED BY <3>1, <3>2 DEF ServerInv
  <2>7. CASE GiveUp
    <3>1. SendersHeld' /\ server' = "waiting" /\ senders' \subseteq Owners \cup Conns
      BY <2>7, EndSelectKeepsHeld DEF GiveUp
    <3>2. failures = 5 /\ slept = 31
      BY <2>7 DEF GiveUp, Accepting, EndSelect, ServerInv, TypeOK, BackoffCounted, Doubled
    <3>3. TypeOK' /\ BackoffCounted'
      BY <2>7, <3>1, <3>2 DEF GiveUp, EndSelect, ServerInv, TypeOK, BackoffCounted
    <3> QED BY <3>1, <3>3 DEF ServerInv
  <2>8. CASE Wake
    <3>1. TypeOK' /\ BackoffCounted'
      BY <2>8 DEF Wake, ServerInv, TypeOK, BackoffCounted, Doubled
    <3>2. SendersHeld'
      BY <2>8 DEF Wake, ServerInv, SendersHeld, SendersExact, Running
    <3> QED BY <3>1, <3>2 DEF ServerInv
  <2>9. ASSUME NEW c \in Conns, Accept(c) PROVE ServerInv'
    <3>1. TypeOK'
      BY <2>9 DEF Accept, ServerInv, TypeOK
    <3>2. SendersHeld'
      BY <2>9 DEF Accept, Accepting, ServerInv, TypeOK, SendersHeld, SendersExact, Running
    <3>3. BackoffCounted'
      BY <2>9 DEF Accept, Accepting, ServerInv, BackoffCounted, Doubled
    <3> QED BY <3>1, <3>2, <3>3 DEF ServerInv
  <2>10. ASSUME NEW c \in Conns, AcceptReset(c) PROVE ServerInv'
    <3>1. SendersHeld' /\ senders' \subseteq Owners \cup Conns
      BY <2>10, EndSelectKeepsHeld DEF AcceptReset
    <3>2. TypeOK' /\ BackoffCounted'
      BY <2>10, <3>1 DEF AcceptReset, EndSelect, ServerInv, TypeOK, BackoffCounted, listenerVars
    <3> QED BY <3>1, <3>2 DEF ServerInv
  <2>11. ASSUME NEW c \in Conns,
                \/ Read(c) \/ Executed(c) \/ Fails(c) \/ Written(c)
                \/ WriteFails(c) \/ ReadEnds(c) \/ Signalled(c)
         PROVE  ServerInv'
    BY <2>11, StepKeepsInv
       DEF Read, Executed, Fails, Written, WriteFails, ReadEnds, Signalled
  <2>12. ASSUME NEW c \in Conns, Connect(c) PROVE ServerInv'
    BY <2>12 DEF Connect, ServerInv, TypeOK, SendersHeld, SendersExact, Running, BackoffCounted, listenerVars
  <2>13. ASSUME NEW c \in Conns, NEW how \in {"closed", "reset"}, Leave(c, how)
         PROVE  ServerInv'
    BY <2>13 DEF Leave, ServerInv, TypeOK, SendersHeld, SendersExact, Running, BackoffCounted, listenerVars
  <2>14. CASE UNCHANGED vars
    BY <2>14 DEF vars, listenerVars, ServerInv, TypeOK, SendersHeld, SendersExact, Running, BackoffCounted
  <2> QED BY <2>1, <2>2, <2>3, <2>4, <2>5, <2>6, <2>7, <2>8, <2>9, <2>10, <2>11, <2>12,
             <2>13, <2>14 DEF Next
<1> QED BY <1>1, <1>2, PTL DEF Spec

\* The back off and its counters stay within what Server says of them.
THEOREM ServerTypeCorrect == Spec => []TypeOK
<1>1. ServerInv => TypeOK
  BY DEF ServerInv
<1> QED BY <1>1, ServerInvariant, PTL

\* Exactly the running parts hold a sender, whatever has ended and in which order.
THEOREM SendersAreExact == Spec => []SendersExact
<1>1. ServerInv => SendersExact
  BY DEF ServerInv, SendersHeld
<1> QED BY <1>1, ServerInvariant, PTL

\* However many connections there are, the process exits only when every
\* handler has returned.
THEOREM ExitIsClean == Spec => []ExitsClean
<1>1. ServerInv => ExitsClean
  BY DEF ServerInv, TypeOK, SendersHeld, SendersExact, Running, ExitsClean
<1> QED BY <1>1, ServerInvariant, PTL

\* The listener gives up after six failures in a row and 31 seconds, whatever
\* was accepted before.
THEOREM ListenerPatient == Spec => []GivesUpAfterSix
<1>1. ServerInv => GivesUpAfterSix
  BY DEF ServerInv, BackoffCounted, GivesUpAfterSix
<1> QED BY <1>1, ServerInvariant, PTL
=============================================================================
