------------------------------- MODULE MCParts -------------------------------
(***************************************************************************)
(* The parts that share nothing with the others, for TLC, one at a time:   *)
(* the loop of a flush, the decryption of a packet or the timing tasks of  *)
(* a session, while the other two have finished, and a connection once all *)
(* three have.                                                             *)
(***************************************************************************)
EXTENDS FlushLoop, Decrypt, Timing, Connection

\* Messages of one to three bytes.
FiveMessages == <<2, 3, 6, 7, 9>>

FlushDone ==
    /\ self = new(0)
    /\ before = self
    /\ seq = 0

DecryptDone ==
    /\ packet = <<>>
    /\ decrypted = <<>>
    /\ result = <<>>
    /\ pc = "done"

TimingDone ==
    /\ notify = FALSE
    /\ timing_sender = "done"
    /\ timing_receiver = "done"
    /\ socket = <<>>

Init ==
    /\ ConnectionInit
    /\ \/ FlushInit /\ DecryptDone /\ TimingDone
       \/ DecryptInit /\ FlushDone /\ TimingDone
       \/ TimingInit /\ FlushDone /\ DecryptDone

ConnectionTurn == FlushDone /\ DecryptDone /\ TimingDone

Next ==
    \/ FlushBody /\ UNCHANGED <<decryptVars, timingVars, connectionVars>>
    \/ DecryptNext /\ UNCHANGED <<flushVars, timingVars, connectionVars>>
    \/ TimingNext /\ UNCHANGED <<flushVars, decryptVars, connectionVars>>
    \/ ConnectionTurn /\ ConnectionNext /\ UNCHANGED <<flushVars, decryptVars, timingVars>>

vars == <<flushVars, decryptVars, timingVars, connectionVars>>

\* The player runs the loop of a flush to its end; the connection as in
\* ConnectionSpec.
Spec ==
    /\ Init /\ [][Next]_vars
    /\ WF_flushVars(FlushBody)
    /\ TimingFairness
    /\ WF_connectionVars(ConnectionTurn /\ Task)
=============================================================================
