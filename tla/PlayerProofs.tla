----------------------------- MODULE PlayerProofs -----------------------------
(***************************************************************************)
(* Theorems about Player, for any number of connections, sessions, keys    *)
(* and packets and any capacity of the channels.                           *)
(***************************************************************************)
EXTENDS Player, FiniteSetTheorems, TLAPS

Statuses == {"running", "shutdown", "failed", "todo", "undecodable", "bad key"}
AnyKey   == Keys \cup {NoKey}

\* TypeOK in three parts, as most actions leave one or two alone.
PlayerTypes ==
    /\ status \in Statuses
    /\ awaiting \in BOOLEAN
    /\ encryption \in AnyKey
    /\ cipher \in AnyKey
    /\ alac \in BOOLEAN
    /\ airplay_volume \in Nat
    /\ notify_shutdown \in 0 .. setups
    /\ control_tx \in 0 .. setups
    /\ setups \in 0 .. MaxSetups
    /\ teardowns \in Nat
    /\ frame_buffer \in Nat
    /\ sink \in Seq(Nat)

QueueTypes ==
    /\ queue \in Seq(Command \cup PutPacketCommand)
    /\ Len(queue) <= PlayerCap

HandlerTypes ==
    /\ handler \in [Conns -> {"idle", "sending", "waiting", "closed"}]
    /\ command \in [Conns -> Payloads]
    /\ resp \in [Conns -> Seq(Nat)]
    /\ made \in [Conns -> Nat]
    /\ phase \in [Conns -> {"new", "announced", "ready", "recording"}]
    /\ announced \in [Conns -> AnyKey]

TaskTypes ==
    /\ receiver \in [Tasks -> {"unborn", "recv", "sending", "done"}]
    /\ held \in [Tasks -> AnyKey]
    /\ control_sender \in [Gens -> {"unborn", "recv", "sending", "done"}]
    /\ missing \in [Gens -> Seq(AnyKey)]
    /\ \A g \in Gens : Len(missing[g]) <= ControlCap
    /\ asking \in [Gens -> AnyKey]
    /\ socket \in [Tasks -> Seq(AnyKey)]
    /\ sent \in Nat

LEMMA TypeParts == TypeOK <=> PlayerTypes /\ QueueTypes /\ HandlerTypes /\ TaskTypes
BY DEF TypeOK, PlayerTypes, QueueTypes, HandlerTypes, TaskTypes, Statuses, AnyKey

(***************************************************************************)
(* The commands in the channel and the handlers that wait.                 *)
(***************************************************************************)

\* A one-shot channel holds one answer, and only while its handler waits.
AnswersAwaited ==
    \A c \in Conns : resp[c] # <<>> => Len(resp[c]) = 1 /\ handler[c] = "waiting"

\* The handler of a command in the channel waits and has no answer yet.
CommandsAwaited ==
    \A i \in 1 .. Len(queue) :
        ~queue[i].put => /\ handler[queue[i].from] = "waiting"
                         /\ resp[queue[i].from] = <<>>

\* No handler has two commands in the channel.
CommandsDistinct ==
    \A i, j \in 1 .. Len(queue) :
        ~queue[i].put /\ ~queue[j].put /\ queue[i].from = queue[j].from => i = j

\* A handler that waits has its command in the channel or its answer.
WaitersServed ==
    status = "running" =>
        \A c \in Conns : handler[c] = "waiting" /\ resp[c] = <<>> => Queued(c) # {}

\* The channel goes with the player, unless a panic ends the process with it.
ChannelDropped == status \in {"shutdown", "failed"} => queue = <<>>

\* SETUPs that are not answered yet have room among the generations.
Asking == { c \in Conns : /\ command[c].op = "Setup"
                          /\ handler[c] \in {"sending", "waiting"}
                          /\ resp[c] = <<>> }
SetupsBounded == setups + Cardinality(Asking) <= MaxSetups

ChannelInv == /\ AnswersAwaited /\ CommandsAwaited /\ CommandsDistinct
              /\ WaitersServed /\ ChannelDropped

PlayerInv == TypeOK /\ ChannelInv /\ SetupsBounded

-----------------------------------------------------------------------------
(***************************************************************************)
(* The channel.                                                            *)
(***************************************************************************)

\* What the channel holds: commands of connections and packets.
LEMMA QueueElement ==
    ASSUME QueueTypes, NEW i \in 1 .. Len(queue)
    PROVE  /\ queue[i].put \in BOOLEAN
           /\ queue[i] \in Command \cup PutPacketCommand
           /\ ~queue[i].put => queue[i].from \in Conns
<1>1. queue[i] \in Command \cup PutPacketCommand
  BY DEF QueueTypes
<1> QED BY <1>1 DEF Command, PutPacketCommand

\* recv() takes the first message and moves the others up.
LEMMA QueueTail ==
    ASSUME QueueTypes, queue # <<>>
    PROVE  /\ Len(queue) \in Nat \ {0} /\ 1 \in 1 .. Len(queue)
           /\ Head(queue) = queue[1]
           /\ Tail(queue) \in Seq(Command \cup PutPacketCommand)
           /\ Len(Tail(queue)) = Len(queue) - 1
           /\ \A i \in 1 .. Len(queue) - 1 : i + 1 \in 1 .. Len(queue)
                                               /\ Tail(queue)[i] = queue[i + 1]
<1>1. queue \in Seq(Command \cup PutPacketCommand)
  BY DEF QueueTypes
<1>2. Len(queue) \in Nat \ {0}
  BY <1>1
<1> QED BY <1>1, <1>2

\* send() adds a message at the end.
LEMMA QueueAppend ==
    ASSUME QueueTypes, NEW m \in Command \cup PutPacketCommand, Len(queue) < PlayerCap,
           queue' = Append(queue, m)
    PROVE  /\ QueueTypes'
           /\ Len(queue) \in Nat
           /\ Len(queue') = Len(queue) + 1
           /\ \A i \in 1 .. Len(queue) : queue'[i] = queue[i]
           /\ queue'[Len(queue) + 1] = m
<1>1. queue \in Seq(Command \cup PutPacketCommand) /\ PlayerCap \in Nat
  BY PlayerAssumption DEF QueueTypes
<1>2. Append(queue, m) \in Seq(Command \cup PutPacketCommand)
  BY <1>1
<1>3. Len(queue) \in Nat /\ Len(Append(queue, m)) = Len(queue) + 1
  BY <1>1
<1>4. QueueTypes'
  BY <1>1, <1>2, <1>3 DEF QueueTypes
<1> QED BY <1>1, <1>3, <1>4

\* A message taken leaves the types of the channel alone.
LEMMA TailTypes ==
    ASSUME QueueTypes, queue # <<>>, queue' = Tail(queue)
    PROVE  QueueTypes'
<1>1. Len(queue) <= PlayerCap /\ PlayerCap \in Nat
  BY PlayerAssumption DEF QueueTypes
<1> QED BY <1>1, QueueTail DEF QueueTypes

\* The first message, if it is a command: its handler waits, has no answer,
\* and has no other command in the channel.
LEMMA HeadCommand ==
    ASSUME PlayerInv, Recv, ~Head(queue).put
    PROVE  /\ Head(queue).from \in Conns
           /\ handler[Head(queue).from] = "waiting"
           /\ resp[Head(queue).from] = <<>>
           /\ \A i \in 1 .. Len(queue) - 1 :
                 ~Tail(queue)[i].put => Tail(queue)[i].from # Head(queue).from
<1>1. QueueTypes /\ queue # <<>>
  BY TypeParts DEF PlayerInv, Recv
<1>2. 1 \in 1 .. Len(queue) /\ Head(queue) = queue[1] /\ Len(queue) \in Nat
  BY <1>1, QueueTail
<1>3. ASSUME NEW i \in 1 .. Len(queue) - 1, ~Tail(queue)[i].put
      PROVE  Tail(queue)[i].from # Head(queue).from
  <2>1. i + 1 \in 1 .. Len(queue) /\ Tail(queue)[i] = queue[i + 1] /\ i + 1 # 1
    BY <1>1, <1>2, QueueTail
  <2> QED BY <1>2, <1>3, <2>1 DEF PlayerInv, ChannelInv, CommandsDistinct
<1> QED BY <1>1, <1>2, <1>3, QueueElement DEF PlayerInv, ChannelInv, CommandsAwaited

\* A command is answered: the message goes and its handler has the answer.
LEMMA ServedChannel ==
    ASSUME PlayerInv, Recv, ~Head(queue).put, queue' = Tail(queue), NEW v \in Nat, Answer(v),
           UNCHANGED <<status, handler>>
    PROVE  ChannelInv'
<1> DEFINE c == Head(queue).from
<1>1. QueueTypes /\ HandlerTypes /\ queue # <<>> /\ ChannelInv /\ status = "running"
  BY TypeParts DEF PlayerInv, Recv
<1>2. /\ c \in Conns /\ handler[c] = "waiting" /\ resp[c] = <<>>
      /\ \A i \in 1 .. Len(queue) - 1 : ~Tail(queue)[i].put => Tail(queue)[i].from # c
  BY HeadCommand
<1>3. /\ Len(queue) \in Nat \ {0} /\ Len(queue') = Len(queue) - 1
      /\ \A i \in 1 .. Len(queue') : i + 1 \in 1 .. Len(queue) /\ queue'[i] = queue[i + 1]
      /\ Head(queue) = queue[1] /\ 1 \in 1 .. Len(queue)
  BY <1>1, QueueTail
<1> HIDE DEF c
<1>4. resp' = [resp EXCEPT ![c] = <<v>>]
  BY DEF Answer, c
<1>5. \A d \in Conns : d # c => resp'[d] = resp[d]
  BY <1>1, <1>2, <1>4 DEF HandlerTypes
<1>6. resp'[c] = <<v>> /\ Len(<<v>>) = 1 /\ <<v>> # <<>>
  BY <1>1, <1>2, <1>4 DEF HandlerTypes
<1>7. AnswersAwaited'
  BY <1>1, <1>2, <1>5, <1>6 DEF ChannelInv, AnswersAwaited
<1>8. CommandsAwaited'
  <2> SUFFICES ASSUME NEW i \in 1 .. Len(queue'), ~queue'[i].put
               PROVE  handler[queue'[i].from] = "waiting" /\ resp'[queue'[i].from] = <<>>
    BY DEF CommandsAwaited
  <2>1. i + 1 \in 1 .. Len(queue) /\ queue'[i] = queue[i + 1] /\ queue'[i].from # c
    BY <1>2, <1>3
  <2>2. queue'[i].from \in Conns
    BY <1>1, <2>1, QueueElement
  <2> QED BY <1>1, <1>5, <2>1, <2>2 DEF ChannelInv, CommandsAwaited
<1>9. CommandsDistinct'
  BY <1>1, <1>3 DEF ChannelInv, CommandsDistinct
<1>10. WaitersServed'
  <2> SUFFICES ASSUME NEW d \in Conns, handler[d] = "waiting", resp'[d] = <<>>
               PROVE  Queued(d)' # {}
    BY DEF WaitersServed
  <2>1. d # c
    BY <1>6
  <2>2. PICK i \in 1 .. Len(queue) : ~queue[i].put /\ queue[i].from = d
    BY <1>1, <1>5, <2>1 DEF ChannelInv, WaitersServed, Queued
  <2>3. i # 1
    BY <1>3, <2>1, <2>2 DEF c
  <2>4. i - 1 \in 1 .. Len(queue') /\ queue'[i - 1] = queue[(i - 1) + 1] /\ (i - 1) + 1 = i
    BY <1>3, <2>3
  <2> QED BY <2>2, <2>4 DEF Queued
<1>11. ChannelDropped'
  BY <1>1 DEF ChannelDropped
<1> QED BY <1>7, <1>8, <1>9, <1>10, <1>11 DEF ChannelInv

\* A message goes and nobody is answered: a packet, or a panic.
LEMMA TakenChannel ==
    ASSUME PlayerInv, Recv, queue' = Tail(queue), UNCHANGED <<handler, resp>>,
           \/ status' \notin {"running", "shutdown", "failed"}
           \/ status' = status /\ Head(queue).put
    PROVE  ChannelInv'
<1>1. QueueTypes /\ queue # <<>> /\ ChannelInv /\ status = "running"
  BY TypeParts DEF PlayerInv, Recv
<1>2. /\ Len(queue) \in Nat \ {0} /\ Len(queue') = Len(queue) - 1
      /\ \A i \in 1 .. Len(queue') : i + 1 \in 1 .. Len(queue) /\ queue'[i] = queue[i + 1]
      /\ Head(queue) = queue[1]
  BY <1>1, QueueTail
<1>3. AnswersAwaited' /\ CommandsAwaited' /\ CommandsDistinct'
  BY <1>1, <1>2 DEF ChannelInv, AnswersAwaited, CommandsAwaited, CommandsDistinct
<1>4. WaitersServed'
  <2> SUFFICES ASSUME status' = "running", NEW d \in Conns, handler[d] = "waiting", resp[d] = <<>>
               PROVE  Queued(d)' # {}
    BY DEF WaitersServed
  <2>1. PICK i \in 1 .. Len(queue) : ~queue[i].put /\ queue[i].from = d
    BY <1>1 DEF ChannelInv, WaitersServed, Queued
  <2>2. i # 1
    BY <1>2, <2>1
  <2>3. i - 1 \in 1 .. Len(queue') /\ queue'[i - 1] = queue[(i - 1) + 1] /\ (i - 1) + 1 = i
    BY <1>2, <2>2
  <2> QED BY <2>1, <2>3 DEF Queued
<1>5. ChannelDropped'
  BY <1>1 DEF ChannelDropped
<1> QED BY <1>3, <1>4, <1>5 DEF ChannelInv

\* A command enters the channel, and its handler waits from then on.
LEMMA SendChannel ==
    ASSUME PlayerInv, NEW c \in Conns, Send(c)
    PROVE  ChannelInv'
<1> DEFINE m == [from |-> c, put |-> FALSE, key |-> NoKey]
<1>1. QueueTypes /\ HandlerTypes /\ ChannelInv /\ status = "running" /\ handler[c] = "sending"
  BY TypeParts DEF PlayerInv, Send
<1>2. m \in Command \cup PutPacketCommand /\ m.put = FALSE /\ m.from = c
  BY DEF Command
<1> HIDE DEF m
<1>3. /\ Len(queue) \in Nat /\ Len(queue') = Len(queue) + 1
      /\ \A i \in 1 .. Len(queue) : queue'[i] = queue[i]
      /\ queue'[Len(queue) + 1] = m
  BY <1>1, <1>2, QueueAppend DEF Send, m
<1>4. /\ handler'[c] = "waiting" /\ \A d \in Conns : d # c => handler'[d] = handler[d]
      /\ resp' = resp /\ status' = "running"
  BY <1>1 DEF Send, HandlerTypes
<1>5. resp[c] = <<>>
  BY <1>1 DEF ChannelInv, AnswersAwaited
<1>6. \A i \in 1 .. Len(queue) : ~queue[i].put => queue[i].from \in Conns /\ queue[i].from # c
  BY <1>1, QueueElement DEF ChannelInv, CommandsAwaited
<1>7. \A i \in 1 .. Len(queue') : i \in 1 .. Len(queue) \/ i = Len(queue) + 1
  BY <1>3
<1>8. AnswersAwaited'
  BY <1>1, <1>4, <1>5 DEF ChannelInv, AnswersAwaited
<1>9. CommandsAwaited'
  BY <1>1, <1>2, <1>3, <1>4, <1>5, <1>6, <1>7 DEF ChannelInv, CommandsAwaited
<1>10. CommandsDistinct'
  BY <1>1, <1>2, <1>3, <1>6, <1>7 DEF ChannelInv, CommandsDistinct
<1>11. WaitersServed'
  <2> SUFFICES ASSUME NEW d \in Conns, handler'[d] = "waiting", resp[d] = <<>>
               PROVE  \E i \in 1 .. Len(queue') : ~queue'[i].put /\ queue'[i].from = d
    BY <1>4 DEF WaitersServed, Queued
  <2>1. CASE d = c
    <3>1. Len(queue) + 1 \in 1 .. Len(queue')
      BY <1>3
    <3> QED BY <1>2, <1>3, <2>1, <3>1
  <2>2. CASE d # c
    <3>1. PICK i \in 1 .. Len(queue) : ~queue[i].put /\ queue[i].from = d
      BY <1>1, <1>4, <2>2 DEF ChannelInv, WaitersServed, Queued
    <3>2. i \in 1 .. Len(queue') /\ queue'[i] = queue[i]
      BY <1>3
    <3> QED BY <3>1, <3>2
  <2> QED BY <2>1, <2>2
<1>12. ChannelDropped'
  BY <1>4 DEF ChannelDropped
<1> QED BY <1>8, <1>9, <1>10, <1>11, <1>12 DEF ChannelInv

\* A packet enters the channel behind the commands.
LEMMA PassOnChannel ==
    ASSUME PlayerInv, NEW t \in Tasks, PassOn(t)
    PROVE  QueueTypes' /\ ChannelInv'
<1> DEFINE m == [from |-> t, put |-> TRUE, key |-> held[t]]
<1>1. QueueTypes /\ TaskTypes /\ ChannelInv /\ status = "running"
  BY TypeParts DEF PlayerInv, PassOn
<1>2. m \in Command \cup PutPacketCommand /\ m.put = TRUE
  BY <1>1 DEF PutPacketCommand, TaskTypes, AnyKey
<1> HIDE DEF m
<1>3. /\ QueueTypes'
      /\ Len(queue) \in Nat /\ Len(queue') = Len(queue) + 1
      /\ \A i \in 1 .. Len(queue) : queue'[i] = queue[i]
      /\ queue'[Len(queue) + 1] = m
  BY <1>1, <1>2, QueueAppend DEF PassOn, m
<1>4. UNCHANGED <<handler, resp, status>>
  BY DEF PassOn, handlerVars
<1>5. \A i \in 1 .. Len(queue') : i \in 1 .. Len(queue) \/ i = Len(queue) + 1
  BY <1>3
<1>6. AnswersAwaited' /\ CommandsAwaited' /\ CommandsDistinct'
  BY <1>1, <1>2, <1>3, <1>4, <1>5
  DEF ChannelInv, AnswersAwaited, CommandsAwaited, CommandsDistinct
<1>7. WaitersServed'
  <2> SUFFICES ASSUME NEW d \in Conns, handler[d] = "waiting", resp[d] = <<>>
               PROVE  \E i \in 1 .. Len(queue') : ~queue'[i].put /\ queue'[i].from = d
    BY <1>4 DEF WaitersServed, Queued
  <2>1. PICK i \in 1 .. Len(queue) : ~queue[i].put /\ queue[i].from = d
    BY <1>1 DEF ChannelInv, WaitersServed, Queued
  <2>2. i \in 1 .. Len(queue') /\ queue'[i] = queue[i]
    BY <1>3
  <2> QED BY <2>1, <2>2
<1>8. ChannelDropped'
  BY <1>1, <1>4 DEF ChannelDropped
<1> QED BY <1>3, <1>6, <1>7, <1>8 DEF ChannelInv

\* The player goes, and the channel with it.
LEMMA StopChannel ==
    ASSUME PlayerInv, NEW how \in {"shutdown", "failed"}, Stop(how), UNCHANGED <<handler, resp>>
    PROVE  QueueTypes' /\ ChannelInv'
<1>1. queue' = <<>> /\ Len(queue') = 0 /\ status' = how
  BY DEF Stop
<1>2. queue' \in Seq(Command \cup PutPacketCommand) /\ PlayerCap \in Nat
  BY <1>1, PlayerAssumption
<1>3. QueueTypes'
  BY <1>1, <1>2 DEF QueueTypes
<1>4. AnswersAwaited'
  BY DEF PlayerInv, ChannelInv, AnswersAwaited
<1> QED BY <1>1, <1>3, <1>4
        DEF ChannelInv, CommandsAwaited, CommandsDistinct, WaitersServed, ChannelDropped

\* A handler step that does not send: it never moves a handler whose command is
\* in the channel, as the player has not gone or the channel is empty.
LEMMA HandlerChannel ==
    ASSUME PlayerInv, NEW c \in Conns,
           \/ \E p \in Requests : Ask(c, p)
           \/ Answered(c) \/ HandlerFails(c) \/ Close(c)
    PROVE  ChannelInv'
<1>1. QueueTypes /\ HandlerTypes /\ PlayerTypes /\ ChannelInv
  BY TypeParts DEF PlayerInv
<1>2. /\ UNCHANGED <<queue, status>>
      /\ \A d \in Conns : d # c => handler'[d] = handler[d] /\ resp'[d] = resp[d]
      /\ handler'[c] # "waiting"
      /\ resp'[c] = <<>>
  BY <1>1 DEF Ask, Answered, HandlerFails, Close, HandlerTypes, playerVars, ChannelInv,
              AnswersAwaited
<1>3. \A i \in 1 .. Len(queue) : ~queue[i].put => queue[i].from \in Conns /\ queue[i].from # c
  <2>1. CASE handler[c] # "waiting" \/ resp[c] # <<>>
    BY <1>1, <2>1, QueueElement DEF ChannelInv, CommandsAwaited
  <2>2. CASE handler[c] = "waiting" /\ resp[c] = <<>>
    <3>1. status \notin {"running", "todo", "undecodable", "bad key"}
      BY <2>2 DEF Ask, Answered, HandlerFails, Close, Panicked
    <3>2. queue = <<>>
      BY <1>1, <3>1 DEF PlayerTypes, Statuses, ChannelInv, ChannelDropped
    <3> QED BY <3>2
  <2> QED BY <2>1, <2>2
<1>4. AnswersAwaited' /\ CommandsDistinct' /\ ChannelDropped'
  BY <1>1, <1>2 DEF ChannelInv, AnswersAwaited, CommandsDistinct, ChannelDropped
<1>5. CommandsAwaited'
  BY <1>1, <1>2, <1>3 DEF ChannelInv, CommandsAwaited
<1>6. WaitersServed'
  <2> SUFFICES ASSUME status = "running", NEW d \in Conns, handler'[d] = "waiting", resp'[d] = <<>>
               PROVE  Queued(d) # {}
    BY <1>2 DEF WaitersServed, Queued
  <2> QED BY <1>1, <1>2 DEF ChannelInv, WaitersServed
<1> QED BY <1>4, <1>5, <1>6 DEF ChannelInv

\* Nothing of this changes in the other steps.
LEMMA SameChannel ==
    ASSUME ChannelInv, UNCHANGED <<status, queue, handler, resp>>
    PROVE  ChannelInv'
BY DEF ChannelInv, AnswersAwaited, CommandsAwaited, CommandsDistinct, WaitersServed,
       ChannelDropped, Queued

-----------------------------------------------------------------------------
(***************************************************************************)
(* The bound on SETUPs counts those under way.                             *)
(***************************************************************************)
LEMMA AskingFinite == IsFiniteSet(Asking) /\ Cardinality(Asking) \in Nat
<1>1. Asking \in SUBSET Conns /\ IsFiniteSet(Conns)
  BY PlayerAssumption DEF Asking
<1>2. IsFiniteSet(Asking)
  BY <1>1, FS_Subset
<1> QED BY <1>2, FS_CardinalityType

LEMMA SetupsCounted == ASSUME PlayerInv PROVE setups \in Nat /\ MaxSetups \in Nat
<1>1. setups \in 0 .. MaxSetups
  BY DEF PlayerInv, TypeOK
<1>2. MaxSetups \in Nat
  BY PlayerAssumption
<1> QED BY <1>1, <1>2

LEMMA FewerAsking ==
    ASSUME PlayerInv, setups' = setups, Asking' \subseteq Asking
    PROVE  SetupsBounded'
<1>1. Cardinality(Asking') <= Cardinality(Asking) /\ IsFiniteSet(Asking')
  BY AskingFinite, FS_Subset
<1>2. Cardinality(Asking') \in Nat
  BY <1>1, FS_CardinalityType
<1>3. setups \in Nat /\ MaxSetups \in Nat
  BY SetupsCounted
<1> QED BY <1>1, <1>2, <1>3, AskingFinite DEF PlayerInv, SetupsBounded

LEMMA AskBounded ==
    ASSUME PlayerInv, NEW c \in Conns, NEW p \in Requests, Ask(c, p)
    PROVE  SetupsBounded'
<1>1. HandlerTypes
  BY TypeParts DEF PlayerInv
<1>2. /\ setups' = setups /\ setups \in Nat /\ MaxSetups \in Nat
      /\ c \notin Asking
  BY SetupsCounted DEF Ask, playerVars, sessionVars, Asking
<1>3. CASE p.op = "Setup"
  <2>1. Asking' \subseteq Asking \cup {c}
    BY <1>1 DEF Ask, Asking, HandlerTypes
  <2>2. /\ IsFiniteSet(Asking \cup {c})
        /\ Cardinality(Asking \cup {c}) = Cardinality(Asking) + 1
    BY <1>2, AskingFinite, FS_AddElement
  <2>3. Cardinality(Asking') <= Cardinality(Asking) + 1 /\ Cardinality(Asking') \in Nat
    BY <2>1, <2>2, FS_Subset, FS_CardinalityType
  <2>4. setups + Cardinality(Asking) < MaxSetups
    BY <1>3 DEF Ask, SetupsAsked, Asking
  <2> QED BY <1>2, <2>3, <2>4, AskingFinite DEF SetupsBounded
<1>4. CASE p.op # "Setup"
  <2>1. Asking' \subseteq Asking
    BY <1>1, <1>4 DEF Ask, Asking, HandlerTypes
  <2> QED BY <1>2, <2>1, FewerAsking
<1> QED BY <1>3, <1>4

\* A SETUP that is served was asked for: there is room for its generation.
LEMMA SetupBounded ==
    ASSUME PlayerInv, Setup
    PROVE  SetupsBounded' /\ setups + 1 \in Gens
<1> DEFINE c == Head(queue).from
<1>1. HandlerTypes /\ setups \in Nat /\ MaxSetups \in Nat
  BY SetupsCounted, TypeParts DEF PlayerInv
<1>2. c \in Conns /\ handler[c] = "waiting" /\ resp[c] = <<>> /\ command[c].op = "Setup"
  BY HeadCommand DEF Setup, Taken
<1>3. c \in Asking
  BY <1>2 DEF Asking
<1>4. resp' = [resp EXCEPT ![c] = <<0>>] /\ UNCHANGED <<handler, command>>
  BY DEF Setup, Answer, othersOfAnswer
<1> HIDE DEF c
<1>5. Asking' \subseteq Asking \ {c}
  <2>1. resp'[c] # <<>> /\ \A d \in Conns : d # c => resp'[d] = resp[d]
    BY <1>1, <1>2, <1>4 DEF HandlerTypes
  <2> QED BY <1>4, <2>1 DEF Asking
<1>6. IsFiniteSet(Asking \ {c}) /\ Cardinality(Asking \ {c}) = Cardinality(Asking) - 1
  BY <1>3, AskingFinite, FS_RemoveElement
<1>7. Cardinality(Asking') <= Cardinality(Asking) - 1 /\ Cardinality(Asking') \in Nat
  BY <1>5, <1>6, FS_Subset, FS_CardinalityType
<1>8. setups' = setups + 1
  BY DEF Setup
<1> QED BY <1>1, <1>7, <1>8, AskingFinite DEF PlayerInv, SetupsBounded, Gens

-----------------------------------------------------------------------------
(***************************************************************************)
(* The actions, by what they do to the channel.                            *)
(***************************************************************************)

\* The commands that are answered.
Served == \/ Announce \/ Setup \/ Record \/ Teardown
          \/ SetParameter \/ GetParameter \/ FlushBuffer
LEMMA ServedStep ==
    ASSUME PlayerInv, Served
    PROVE  /\ Recv /\ ~Head(queue).put /\ queue' = Tail(queue)
           /\ UNCHANGED <<status, awaiting, handler, command, made, phase, announced>>
           /\ \E v \in Nat : Answer(v)
<1>1. airplay_volume \in Nat
  BY DEF PlayerInv, TypeOK
<1> QED BY <1>1 DEF Served, Announce, Setup, Record, Teardown, SetParameter, GetParameter,
                    FlushBuffer, Taken, othersOfAnswer

LEMMA ServedInv == ASSUME PlayerInv, Served PROVE PlayerInv'
<1>1. PICK v \in Nat : Answer(v)
  BY ServedStep
<1>2. /\ Recv /\ ~Head(queue).put /\ queue' = Tail(queue) /\ queue # <<>>
      /\ UNCHANGED <<status, awaiting, handler, command, made, phase, announced>>
  BY ServedStep DEF Recv
<1>3. PlayerTypes /\ QueueTypes /\ HandlerTypes /\ TaskTypes
  BY TypeParts DEF PlayerInv
<1>4. ChannelInv'
  BY <1>1, <1>2, ServedChannel
<1>5. QueueTypes'
  BY <1>2, <1>3, TailTypes
<1>6. HandlerTypes'
  <2>1. <<v>> \in Seq(Nat)
    OBVIOUS
  <2> QED BY <1>1, <1>2, <1>3, <2>1 DEF Answer, HandlerTypes
<1>7. PlayerTypes' /\ TaskTypes' /\ SetupsBounded'
  <2>1. Asking' \subseteq Asking
    <3> DEFINE c == Head(queue).from
    <3>1. c \in Conns /\ resp' = [resp EXCEPT ![c] = <<v>>]
      BY <1>1, <1>2, HeadCommand DEF Answer
    <3>2. resp'[c] # <<>> /\ \A d \in Conns : d # c => resp'[d] = resp[d]
      BY <1>3, <3>1 DEF HandlerTypes
    <3> HIDE DEF c
    <3> QED BY <1>2, <3>2 DEF Asking
  <2>2. command[Head(queue).from] \in Payloads
    BY <1>2, <1>3, HeadCommand DEF HandlerTypes
  <2>3. CASE Announce
    BY <1>3, <2>1, <2>2, <2>3, FewerAsking
    DEF Announce, PlayerTypes, TaskTypes, othersOfAnswer, taskVars, Payloads, AnyKey
  <2>4. CASE Setup
    <3>1. SetupsBounded' /\ setups + 1 \in Gens /\ setups' = setups + 1
      BY <2>4, SetupBounded DEF Setup
    <3>2. setups + 1 \in 0 .. MaxSetups /\ setups \in Nat
      BY <1>3, <3>1, PlayerAssumption DEF Gens, PlayerTypes
    <3>3. PlayerTypes'
      BY <1>2, <1>3, <2>4, <3>2 DEF Setup, PlayerTypes
    <3>4. TaskTypes'
      BY <1>3, <2>4, <3>1 DEF Setup, TaskTypes
    <3> QED BY <3>1, <3>3, <3>4
  <2>5. CASE Record
    <3>1. Len(sink) + 1 \in Nat /\ Append(sink, Len(sink) + 1) \in Seq(Nat)
      BY <1>3 DEF PlayerTypes
    <3> QED BY <1>3, <2>1, <2>5, <3>1, FewerAsking
    DEF Record, PlayerTypes, TaskTypes, othersOfAnswer, taskVars
  <2>6. CASE Teardown
    <3>1. SetupsBounded' /\ TaskTypes'
      BY <1>3, <2>1, <2>6, FewerAsking DEF Teardown, TaskTypes, taskVars
    <3>2. notify_shutdown' \in 0 .. setups /\ setups' = setups /\ teardowns' \in Nat
      BY <1>3, <2>6, SetupsCounted DEF Teardown, PlayerTypes
    <3>3. encryption' \in AnyKey /\ cipher' \in AnyKey /\ alac' \in BOOLEAN
      BY <2>6 DEF Teardown, AnyKey
    <3>4. UNCHANGED <<airplay_volume, frame_buffer, sink, control_tx>>
      BY <2>6 DEF Teardown
    <3> QED BY <1>2, <1>3, <3>1, <3>2, <3>3, <3>4 DEF PlayerTypes
  <2>7. CASE SetParameter
    BY <1>3, <2>1, <2>2, <2>7, FewerAsking
    DEF SetParameter, PlayerTypes, TaskTypes, othersOfAnswer, taskVars, Payloads
  <2>8. CASE GetParameter \/ FlushBuffer
    BY <1>3, <2>1, <2>8, FewerAsking
    DEF GetParameter, FlushBuffer, PlayerTypes, TaskTypes, othersOfAnswer, taskVars, sessionVars
  <2> QED BY <2>3, <2>4, <2>5, <2>6, <2>7, <2>8 DEF Served
<1> QED BY <1>4, <1>5, <1>6, <1>7, TypeParts DEF PlayerInv, TypeOK, PlayerTypes, QueueTypes,
           HandlerTypes, TaskTypes, Statuses, AnyKey

\* The panics, and packets that go to the buffer.
Consumed == AnnouncePanics \/ PutPacketTodo \/ PutPacketUndecodable \/ PutPacket
LEMMA ConsumedStep ==
    ASSUME Consumed
    PROVE  /\ Recv /\ queue' = Tail(queue)
           /\ UNCHANGED <<notify_shutdown, control_tx, sessionVars, handlerVars, taskVars>>
           /\ \/ status' \in {"todo", "undecodable", "bad key"} /\ awaiting' = awaiting
              \/ status' = status /\ Head(queue).put
           /\ awaiting' \in {awaiting, FALSE, frame_buffer # 0 /\ control_tx # 0}
BY DEF Consumed, AnnouncePanics, PutPacketTodo, PutPacketUndecodable, PutPacket, Panic

LEMMA ConsumedInv == ASSUME PlayerInv, Consumed PROVE PlayerInv'
<1>1. PlayerTypes /\ QueueTypes /\ HandlerTypes /\ TaskTypes
  BY TypeParts DEF PlayerInv
<1>2. /\ Recv /\ queue' = Tail(queue) /\ queue # <<>>
      /\ UNCHANGED <<notify_shutdown, control_tx, sessionVars, handlerVars, taskVars>>
      /\ \/ status' \in {"todo", "undecodable", "bad key"}
         \/ status' = status /\ Head(queue).put
  BY ConsumedStep DEF Recv
<1>3. ChannelInv'
  BY <1>2, TakenChannel DEF handlerVars
<1>4. QueueTypes' /\ HandlerTypes' /\ TaskTypes'
  BY <1>1, <1>2, TailTypes DEF HandlerTypes, TaskTypes, handlerVars, taskVars
<1>5. awaiting' \in BOOLEAN
  BY <1>1, ConsumedStep DEF PlayerTypes
<1>6. PlayerTypes'
  BY <1>1, <1>2, <1>5 DEF PlayerTypes, Statuses, sessionVars
<1>7. SetupsBounded'
  BY <1>2, FewerAsking DEF Asking, sessionVars, handlerVars
<1> QED BY <1>3, <1>4, <1>6, <1>7 DEF PlayerInv, TypeOK, PlayerTypes, QueueTypes,
           HandlerTypes, TaskTypes, Statuses, AnyKey

\* The ways run ends without a panic.
Stopped == SetupFails \/ MissingFails \/ ServerStops
LEMMA StoppedStep ==
    ASSUME Stopped
    PROVE  /\ status = "running"
           /\ \E how \in {"shutdown", "failed"} : Stop(how)
           /\ UNCHANGED <<sessionVars, handlerVars, taskVars>>
BY DEF Stopped, SetupFails, MissingFails, ServerStops, Recv

LEMMA StoppedInv == ASSUME PlayerInv, Stopped PROVE PlayerInv'
<1>1. PICK how \in {"shutdown", "failed"} : Stop(how)
  BY StoppedStep
<1>2. UNCHANGED <<sessionVars, handlerVars, taskVars>>
  BY StoppedStep
<1>3. PlayerTypes /\ QueueTypes /\ HandlerTypes /\ TaskTypes
  BY TypeParts DEF PlayerInv
<1>4. QueueTypes' /\ ChannelInv'
  BY <1>1, <1>2, StopChannel DEF handlerVars
<1>5. HandlerTypes' /\ TaskTypes'
  BY <1>2, <1>3 DEF HandlerTypes, TaskTypes, handlerVars, taskVars
<1>6. PlayerTypes'
  <2>1. awaiting' \in BOOLEAN /\ status' \in Statuses
    BY <1>1 DEF Stop, Statuses
  <2>2. notify_shutdown' = 0 /\ control_tx' = 0 /\ setups \in Nat
    BY <1>1, SetupsCounted DEF Stop
  <2> QED BY <1>2, <1>3, <2>1, <2>2 DEF PlayerTypes, sessionVars
<1>7. SetupsBounded'
  BY <1>2, FewerAsking DEF Asking, sessionVars, handlerVars
<1> QED BY <1>4, <1>5, <1>6, <1>7 DEF PlayerInv, TypeOK, PlayerTypes, QueueTypes,
           HandlerTypes, TaskTypes, Statuses, AnyKey

\* What handlers do.
LEMMA HandlerInv == ASSUME PlayerInv, NEW c \in Conns, Handler(c) PROVE PlayerInv'
<1>1. PlayerTypes /\ QueueTypes /\ HandlerTypes /\ TaskTypes
  BY TypeParts DEF PlayerInv
<1>2. ChannelInv'
  BY HandlerChannel, SendChannel DEF Handler
<1>3. PlayerTypes' /\ TaskTypes'
  BY <1>1 DEF Handler, Ask, Send, Answered, HandlerFails, Close, PlayerTypes, TaskTypes,
              playerVars, sessionVars, taskVars
<1>4. QueueTypes'
  <2>1. CASE Send(c)
    <3>1. [from |-> c, put |-> FALSE, key |-> NoKey] \in Command \cup PutPacketCommand
      BY DEF Command
    <3> QED BY <1>1, <2>1, <3>1, QueueAppend DEF Send
  <2>2. CASE ~Send(c)
    BY <1>1, <2>2 DEF Handler, Ask, Answered, HandlerFails, Close, playerVars, QueueTypes
  <2> QED BY <2>1, <2>2
<1>5. HandlerTypes' /\ SetupsBounded'
  <2>1. ASSUME NEW p \in Requests, Ask(c, p) PROVE HandlerTypes' /\ SetupsBounded'
    <3>1. p \in Payloads /\ p.key \in AnyKey
      BY PlayerAssumption DEF Payloads, AnyKey
    <3>2. HandlerTypes'
      BY <1>1, <2>1, <3>1 DEF Ask, HandlerTypes
    <3> QED BY <2>1, <3>2, AskBounded
  <2>2. CASE Send(c)
    <3>1. Asking' \subseteq Asking
      BY <1>1, <2>2 DEF Send, Asking, HandlerTypes
    <3> QED BY <1>1, <2>2, <3>1, FewerAsking DEF Send, HandlerTypes, sessionVars
  <2>3. CASE Answered(c)
    <3>1. Asking' \subseteq Asking
      BY <1>1, <2>3 DEF Answered, Asking, HandlerTypes
    <3>2. <<>> \in Seq(Nat) /\ PhaseAfter(c) \in {"new", "announced", "ready", "recording"}
      BY <1>1 DEF PhaseAfter, HandlerTypes
    <3> QED BY <1>1, <2>3, <3>1, <3>2, FewerAsking
            DEF Answered, HandlerTypes, playerVars, sessionVars
  <2>4. CASE HandlerFails(c) \/ Close(c)
    <3>1. Asking' \subseteq Asking
      BY <1>1, <2>4 DEF HandlerFails, Close, Asking, HandlerTypes
    <3> QED BY <1>1, <2>4, <3>1, FewerAsking
            DEF HandlerFails, Close, HandlerTypes, playerVars, sessionVars
  <2> QED BY <2>1, <2>2, <2>3, <2>4 DEF Handler
<1> QED BY <1>2, <1>3, <1>4, <1>5 DEF PlayerInv, TypeOK, PlayerTypes, QueueTypes,
           HandlerTypes, TaskTypes, Statuses, AnyKey

\* What the tasks, their sockets and a waiting control_tx.send do.
TaskStep == Task \/ MissingSent \/ \E c \in Conns, g \in Gens : SendAudio(c, g)

LEMMA TaskStepFrame ==
    ASSUME TaskStep
    PROVE  /\ UNCHANGED <<status, notify_shutdown, control_tx, sessionVars, handlerVars>>
           /\ awaiting' \in {awaiting, FALSE}
           /\ queue' = queue \/ \E t \in Tasks : PassOn(t)
BY DEF TaskStep, Task, MissingSent, SendAudio, Receive, PassOn, ReceiverEnds, ReceiverFails,
       TakeMissing, SendMissing, ControlSenderEnds, playerVars

LEMMA TaskStepTypes == ASSUME PlayerInv, TaskStep PROVE TaskTypes'
<1>1. PlayerTypes /\ HandlerTypes /\ TaskTypes
  BY TypeParts DEF PlayerInv
<1>2. NoKey \in AnyKey /\ <<>> \in Seq(AnyKey) /\ ControlCap \in Nat \ {0}
  BY PlayerAssumption DEF AnyKey
<1>3. CASE MissingSent
  <2>1. cipher \in AnyKey
    BY <1>1 DEF PlayerTypes
  <2>2. ASSUME NEW g \in Gens, g = control_tx
        PROVE  /\ Append(missing[g], cipher) \in Seq(AnyKey)
               /\ Len(Append(missing[g], cipher)) <= ControlCap
    BY <1>1, <1>2, <1>3, <2>1, <2>2 DEF MissingSent, TaskTypes
  <2>3. /\ missing' = [missing EXCEPT ![control_tx] = Append(missing[control_tx], cipher)]
        /\ UNCHANGED <<receiver, held, control_sender, asking, socket, sent>>
    BY <1>3 DEF MissingSent
  <2>4. \A g \in Gens : g # control_tx => missing'[g] = missing[g]
    BY <1>1, <2>3 DEF TaskTypes
  <2>5. missing' \in [Gens -> Seq(AnyKey)] /\ \A g \in Gens : Len(missing'[g]) <= ControlCap
    BY <1>1, <2>2, <2>3, <2>4 DEF TaskTypes
  <2> QED BY <1>1, <2>3, <2>5 DEF TaskTypes
<1>4. ASSUME NEW c \in Conns, NEW g \in Gens, SendAudio(c, g) PROVE TaskTypes'
  <2>1. announced[c] \in AnyKey /\ <<g, "server">> \in Tasks
    BY <1>1 DEF HandlerTypes, Tasks
  <2>2. Append(socket[<<g, "server">>], announced[c]) \in Seq(AnyKey)
    BY <1>1, <2>1 DEF TaskTypes
  <2>3. socket' \in [Tasks -> Seq(AnyKey)]
    BY <1>1, <1>4, <2>2 DEF SendAudio, TaskTypes
  <2>4. sent' \in Nat
    BY <1>1, <1>4 DEF SendAudio, TaskTypes
  <2>5. UNCHANGED <<receiver, held, control_sender, missing, asking>>
    BY <1>4 DEF SendAudio
  <2> QED BY <1>1, <2>3, <2>4, <2>5 DEF TaskTypes
<1>5. ASSUME NEW t \in Tasks, Receive(t) PROVE TaskTypes'
  <2>1. Head(socket[t]) \in AnyKey /\ Tail(socket[t]) \in Seq(AnyKey)
    BY <1>1, <1>5 DEF Receive, TaskTypes
  <2> QED BY <1>1, <1>5, <2>1 DEF Receive, TaskTypes
<1>6. ASSUME NEW t \in Tasks, PassOn(t) \/ ReceiverEnds(t) \/ ReceiverFails(t) PROVE TaskTypes'
  BY <1>1, <1>2, <1>6 DEF PassOn, ReceiverEnds, ReceiverFails, TaskTypes
<1>7. ASSUME NEW g \in Gens, TakeMissing(g) PROVE TaskTypes'
  <2>1. /\ Head(missing[g]) \in AnyKey /\ Tail(missing[g]) \in Seq(AnyKey)
        /\ Len(Tail(missing[g])) <= ControlCap
    BY <1>1, <1>2, <1>7 DEF TakeMissing, TaskTypes
  <2> QED BY <1>1, <1>7, <2>1 DEF TakeMissing, TaskTypes
<1>8. ASSUME NEW g \in Gens, SendMissing(g) PROVE TaskTypes'
  <2>1. asking[g] \in AnyKey /\ <<g, "control">> \in Tasks
    BY <1>1 DEF TaskTypes, Tasks
  <2>2. Append(socket[<<g, "control">>], asking[g]) \in Seq(AnyKey)
    BY <1>1, <2>1 DEF TaskTypes
  <2>3. socket' \in [Tasks -> Seq(AnyKey)]
    BY <1>1, <1>8, <2>2 DEF SendMissing, TaskTypes
  <2> QED BY <1>1, <1>2, <1>8, <2>3 DEF SendMissing, TaskTypes
<1>9. ASSUME NEW g \in Gens, ControlSenderEnds(g) PROVE TaskTypes'
  <2>1. Len(<<>>) <= ControlCap
    BY <1>2
  <2> QED BY <1>1, <1>2, <1>9, <2>1 DEF ControlSenderEnds, TaskTypes
<1> QED BY <1>3, <1>4, <1>5, <1>6, <1>7, <1>8, <1>9 DEF TaskStep, Task

LEMMA TaskStepInv == ASSUME PlayerInv, TaskStep PROVE PlayerInv'
<1>1. PlayerTypes /\ QueueTypes /\ HandlerTypes /\ TaskTypes /\ ChannelInv
  BY TypeParts DEF PlayerInv
<1>2. /\ UNCHANGED <<status, notify_shutdown, control_tx, sessionVars, handlerVars>>
      /\ awaiting' \in {awaiting, FALSE}
  BY TaskStepFrame
<1>3. QueueTypes' /\ ChannelInv'
  <2>1. CASE queue' = queue
    BY <1>1, <1>2, <2>1, SameChannel DEF QueueTypes, handlerVars
  <2>2. CASE \E t \in Tasks : PassOn(t)
    BY <2>2, PassOnChannel
  <2> QED BY <2>1, <2>2, TaskStepFrame
<1>4. awaiting' \in BOOLEAN
  BY <1>1, <1>2 DEF PlayerTypes
<1>5. PlayerTypes' /\ HandlerTypes'
  BY <1>1, <1>2, <1>4 DEF PlayerTypes, HandlerTypes, sessionVars, handlerVars
<1>6. TaskTypes'
  BY TaskStepTypes
<1>7. SetupsBounded'
  BY <1>2, FewerAsking DEF Asking, sessionVars, handlerVars
<1> QED BY <1>3, <1>5, <1>6, <1>7 DEF PlayerInv, TypeOK, PlayerTypes, QueueTypes,
           HandlerTypes, TaskTypes, Statuses, AnyKey

\* Every step is of one of these kinds.
LEMMA StepKinds ==
    Next <=> \/ \E c \in Conns : Handler(c)
             \/ Served \/ Consumed \/ Stopped \/ TaskStep
BY DEF Next, PlayerStep, Served, Consumed, Stopped, TaskStep

LEMMA InitPlayerInv == Init => PlayerInv
<1> SUFFICES ASSUME Init PROVE PlayerInv
  OBVIOUS
<1>1. /\ PlayerCap \in Nat \ {0} /\ ControlCap \in Nat \ {0} /\ MaxSetups \in Nat
      /\ Len(<<>>) = 0 /\ \A S : <<>> \in Seq(S)
  BY PlayerAssumption
<1>2. PlayerTypes /\ QueueTypes
  <2>1. awaiting \in BOOLEAN /\ alac \in BOOLEAN /\ status \in Statuses
    BY DEF Init, Statuses
  <2>2. encryption \in AnyKey /\ cipher \in AnyKey
    BY DEF Init, AnyKey
  <2>3. sink \in Seq(Nat) /\ queue \in Seq(Command \cup PutPacketCommand) /\ Len(queue) = 0
    BY <1>1 DEF Init
  <2>4. /\ setups = 0 /\ notify_shutdown = 0 /\ control_tx = 0 /\ frame_buffer = 0
        /\ airplay_volume = 0 /\ teardowns = 0
    BY DEF Init
  <2> QED BY <1>1, <2>1, <2>2, <2>3, <2>4 DEF PlayerTypes, QueueTypes
<1>3. HandlerTypes
  <2>1. Request("GetParameter") \in Payloads
    BY DEF Request, Payloads, Ops
  <2> QED BY <1>1, <2>1 DEF Init, HandlerTypes, AnyKey
<1>4. TaskTypes
  BY <1>1 DEF Init, TaskTypes, AnyKey
<1>5. ChannelInv
  BY <1>1 DEF Init, ChannelInv, AnswersAwaited, CommandsAwaited, CommandsDistinct,
              WaitersServed, ChannelDropped
<1>6. SetupsBounded
  <2>1. Asking = {}
    BY DEF Init, Asking
  <2>2. Cardinality(Asking) = 0
    BY <2>1, FS_EmptySet
  <2> QED BY <1>1, <2>2 DEF Init, SetupsBounded
<1> QED BY <1>2, <1>3, <1>4, <1>5, <1>6, TypeParts DEF PlayerInv

LEMMA NextPlayerInv == PlayerInv /\ [Next]_vars => PlayerInv'
<1> SUFFICES ASSUME PlayerInv, [Next]_vars PROVE PlayerInv'
  OBVIOUS
<1>1. CASE UNCHANGED vars
  <2>1. UNCHANGED <<playerVars, handlerVars, taskVars>>
    BY <1>1 DEF vars
  <2>2. ChannelInv'
    BY <2>1, SameChannel DEF PlayerInv, playerVars, handlerVars
  <2>3. SetupsBounded'
    BY <2>1, FewerAsking DEF Asking, playerVars, sessionVars, handlerVars
  <2>4. TypeOK'
    BY <2>1 DEF PlayerInv, TypeOK, playerVars, sessionVars, handlerVars, taskVars
  <2> QED BY <2>2, <2>3, <2>4 DEF PlayerInv
<1>2. CASE Next
  BY <1>2, StepKinds, HandlerInv, ServedInv, ConsumedInv, StoppedInv, TaskStepInv
<1> QED BY <1>1, <1>2

\* The invariant of the channel holds throughout.
THEOREM PlayerInvariant == Spec => []PlayerInv
BY InitPlayerInv, NextPlayerInv, PTL DEF Spec

\* Types, and the capacity of both channels.
THEOREM PlayerTypeCorrect == Spec => []TypeOK
<1>1. PlayerInv => TypeOK
  BY DEF PlayerInv
<1> QED BY <1>1, PlayerInvariant, PTL

\* However commands, packets and the end of the player interleave, a handler
\* that waits has its command in the channel once or its answer, and no other
\* handler has either (mod.rs:167-306).
THEOREM EachAnsweredOnce == Spec => []OneAnswerEach
<1>1. PlayerInv => OneAnswerEach
  <2> SUFFICES ASSUME PlayerInv, status = "running", NEW c \in Conns
               PROVE  Cardinality(Queued(c)) + Len(resp[c])
                         = IF handler[c] = "waiting" THEN 1 ELSE 0
    BY DEF OneAnswerEach
  <2>1. ChannelInv /\ QueueTypes
    BY TypeParts DEF PlayerInv
  <2>2. Len(<<>>) = 0
    OBVIOUS
  <2>3. Queued(c) # {} => handler[c] = "waiting" /\ resp[c] = <<>> /\ Cardinality(Queued(c)) = 1
    <3> SUFFICES ASSUME Queued(c) # {}
                 PROVE  handler[c] = "waiting" /\ resp[c] = <<>> /\ Cardinality(Queued(c)) = 1
      OBVIOUS
    <3>1. PICK i \in 1 .. Len(queue) : ~queue[i].put /\ queue[i].from = c
      BY DEF Queued
    <3>2. Queued(c) = {i}
      BY <2>1, <3>1 DEF Queued, ChannelInv, CommandsDistinct
    <3>3. Cardinality(Queued(c)) = 1
      BY <3>2, FS_Singleton
    <3> QED BY <2>1, <3>1, <3>3 DEF ChannelInv, CommandsAwaited
  <2>4. Queued(c) = {} => Cardinality(Queued(c)) = 0
    BY FS_EmptySet
  <2>5. resp[c] # <<>> => Len(resp[c]) = 1 /\ handler[c] = "waiting"
    BY <2>1 DEF ChannelInv, AnswersAwaited
  <2>6. handler[c] = "waiting" /\ resp[c] = <<>> => Queued(c) # {}
    BY <2>1 DEF ChannelInv, WaitersServed
  <2>7. CASE Queued(c) # {}
    <3>1. handler[c] = "waiting" /\ Len(resp[c]) = 0 /\ Cardinality(Queued(c)) = 1
      BY <2>2, <2>3, <2>7
    <3> QED BY <3>1
  <2>8. CASE Queued(c) = {} /\ resp[c] # <<>>
    <3>1. handler[c] = "waiting" /\ Len(resp[c]) = 1 /\ Cardinality(Queued(c)) = 0
      BY <2>4, <2>5, <2>8
    <3> QED BY <3>1
  <2>9. CASE Queued(c) = {} /\ resp[c] = <<>>
    <3>1. handler[c] # "waiting" /\ Len(resp[c]) = 0 /\ Cardinality(Queued(c)) = 0
      BY <2>2, <2>4, <2>6, <2>9
    <3> QED BY <3>1
  <2> QED BY <2>7, <2>8, <2>9
<1> QED BY <1>1, PlayerInvariant, PTL

\* Whatever the order of ANNOUNCE, TEARDOWN and packets from any number of
\* connections, the cipher in use belongs to the keys in use (mod.rs:170-174,
\* 285-286, 355-356).
THEOREM CipherStaysMatched == Spec => []CipherMatches
<1>1. Init => CipherMatches
  BY DEF Init, CipherMatches
<1>2. CipherMatches /\ [Next]_vars => CipherMatches'
  <2> SUFFICES ASSUME CipherMatches, [Next]_vars PROVE CipherMatches'
    OBVIOUS
  <2>1. CASE Announce
    BY <2>1 DEF Announce, CipherMatches
  <2>2. CASE Teardown
    BY <2>2 DEF Teardown, CipherMatches
  <2>3. CASE UNCHANGED <<encryption, cipher>>
    BY <2>3 DEF CipherMatches
  <2>4. ASSUME NEW c \in Conns, Handler(c) PROVE UNCHANGED <<encryption, cipher>>
    BY <2>4 DEF Handler, Ask, Send, Answered, HandlerFails, Close, playerVars, sessionVars
  <2>5. ASSUME Served PROVE Announce \/ Teardown \/ UNCHANGED <<encryption, cipher>>
    BY <2>5 DEF Served, Setup, Record, SetParameter, GetParameter, FlushBuffer, sessionVars
  <2>6. ASSUME Consumed \/ Stopped \/ TaskStep PROVE UNCHANGED <<encryption, cipher>>
    BY <2>6, ConsumedStep, StoppedStep, TaskStepFrame DEF sessionVars
  <2>7. CASE UNCHANGED vars
    BY <2>3, <2>7 DEF vars, playerVars, sessionVars
  <2> QED BY <2>1, <2>2, <2>3, <2>4, <2>5, <2>6, <2>7, StepKinds
<1> QED BY <1>1, <1>2, PTL DEF Spec

-----------------------------------------------------------------------------
(***************************************************************************)
(* Player implements Service.  A command in flight is the request of its   *)
(* handler from send to the answer, so sending is a stutter; the step that *)
(* answers it is Serve, whatever else the arm does.                        *)
(***************************************************************************)
AbstractOpen    == [c \in Conns |-> handler[c] # "closed"]
AbstractRequest == [c \in Conns |-> IF handler[c] \in {"sending", "waiting"}
                                    THEN <<command[c]>> ELSE <<>>]

\* A step that moves no handler between the classes the service sees, and
\* leaves the player running or stopped, is a stutter.
LEMMA UnseenStep ==
    ASSUME UNCHANGED <<AbstractOpen, AbstractRequest, resp, airplay_volume>>,
           (status' = "running") = (status = "running")
    PROVE  UNCHANGED Abstract!vars
BY DEF Abstract!vars, AbstractOpen, AbstractRequest

LEMMA SameHandlersUnseen ==
    ASSUME UNCHANGED <<status, handler, command, resp, airplay_volume>>
    PROVE  UNCHANGED Abstract!vars
<1>1. UNCHANGED <<AbstractOpen, AbstractRequest>>
  BY DEF AbstractOpen, AbstractRequest
<1> QED BY <1>1, UnseenStep

\* The player ends, in any way: nothing else that the handlers see changes.
LEMMA StopsSeen ==
    ASSUME status = "running", status' # "running",
           UNCHANGED <<handler, command, resp, airplay_volume>>
    PROVE  Abstract!Stop
<1>1. UNCHANGED <<AbstractOpen, AbstractRequest>>
  BY DEF AbstractOpen, AbstractRequest
<1> QED BY <1>1 DEF Abstract!Stop, AbstractOpen, AbstractRequest

\* The handlers' own steps.
LEMMA HandlerSeen ==
    ASSUME PlayerInv, NEW c \in Conns, Handler(c)
    PROVE  [Abstract!Next]_Abstract!vars
<1>1. HandlerTypes /\ PlayerTypes /\ ChannelInv
  BY TypeParts DEF PlayerInv
<1>2. ASSUME NEW p \in Requests, Ask(c, p) PROVE Abstract!Next
  <2>1. handler[c] = "idle" /\ UNCHANGED <<status, resp, airplay_volume>>
    BY <1>2 DEF Ask, playerVars, sessionVars
  <2>2. UNCHANGED AbstractOpen
    BY <1>1, <1>2 DEF Ask, AbstractOpen, HandlerTypes
  <2>3. AbstractRequest' = [AbstractRequest EXCEPT ![c] = <<p>>]
    BY <1>1, <1>2 DEF Ask, AbstractRequest, HandlerTypes
  <2>4. Abstract!Idle(c)
    BY <2>1 DEF Abstract!Idle
  <2>5. Abstract!Invoke(c, p)
    BY <2>1, <2>2, <2>3, <2>4 DEF Abstract!Invoke, AbstractOpen, AbstractRequest
  <2> QED BY <2>4, <2>5 DEF Abstract!Next
<1>3. CASE Send(c)
  <2>1. UNCHANGED <<status, resp, airplay_volume>>
    BY <1>3 DEF Send, sessionVars
  <2>2. UNCHANGED <<AbstractOpen, AbstractRequest>>
    BY <1>1, <1>3 DEF Send, AbstractOpen, AbstractRequest, HandlerTypes
  <2> QED BY <2>1, <2>2, UnseenStep
<1>4. CASE Answered(c)
  <2>1. resp[c] # <<>> /\ resp' = [resp EXCEPT ![c] = <<>>] /\ UNCHANGED <<status, airplay_volume>>
    BY <1>4 DEF Answered, playerVars, sessionVars
  <2>2. UNCHANGED AbstractOpen
    BY <1>1, <1>4 DEF Answered, AbstractOpen, HandlerTypes
  <2>3. AbstractRequest' = [AbstractRequest EXCEPT ![c] = <<>>]
    BY <1>1, <1>4 DEF Answered, AbstractRequest, HandlerTypes
  <2>4. Abstract!Return(c)
    BY <2>1, <2>2, <2>3 DEF Abstract!Return, AbstractOpen, AbstractRequest
  <2> QED BY <2>4 DEF Abstract!Next
<1>5. CASE HandlerFails(c)
  <2>1. /\ status # "running" /\ UNCHANGED <<status, resp, airplay_volume>>
        /\ handler[c] \in {"sending", "waiting"}
    BY <1>5 DEF HandlerFails, playerVars, sessionVars
  <2>2. resp[c] = <<>>
    BY <1>1, <1>5 DEF HandlerFails, ChannelInv, AnswersAwaited
  <2>3. AbstractOpen' = [AbstractOpen EXCEPT ![c] = FALSE]
    BY <1>1, <1>5 DEF HandlerFails, AbstractOpen, HandlerTypes
  <2>4. AbstractRequest' = [AbstractRequest EXCEPT ![c] = <<>>]
    BY <1>1, <1>5 DEF HandlerFails, AbstractRequest, HandlerTypes
  <2>5. Abstract!Pending(c)
    BY <2>1, <2>2 DEF Abstract!Pending
  <2>6. Abstract!Fail(c)
    BY <2>1, <2>3, <2>4, <2>5 DEF Abstract!Fail, AbstractOpen, AbstractRequest
  <2> QED BY <2>6 DEF Abstract!Next
<1>6. CASE Close(c)
  <2>1. handler[c] = "idle" /\ UNCHANGED <<status, resp, airplay_volume>>
    BY <1>6 DEF Close, playerVars, sessionVars
  <2>2. AbstractOpen' = [AbstractOpen EXCEPT ![c] = FALSE]
    BY <1>1, <1>6 DEF Close, AbstractOpen, HandlerTypes
  <2>3. UNCHANGED AbstractRequest
    BY <1>1, <1>6 DEF Close, AbstractRequest, HandlerTypes
  <2>4. Abstract!Idle(c)
    BY <2>1 DEF Abstract!Idle
  <2>5. Abstract!Close(c)
    BY <2>1, <2>2, <2>3, <2>4 DEF Abstract!Close, AbstractOpen, AbstractRequest
  <2> QED BY <2>5 DEF Abstract!Next
<1> QED BY <1>2, <1>3, <1>4, <1>5, <1>6 DEF Handler

\* An arm of the match serves the command of the handler it answers.
LEMMA ServedSeen ==
    ASSUME PlayerInv, Served
    PROVE  Abstract!Next
<1> DEFINE c == Head(queue).from
<1>1. Recv /\ ~Head(queue).put /\ UNCHANGED <<status, handler, command>>
  BY ServedStep
<1>2. c \in Conns /\ handler[c] = "waiting" /\ resp[c] = <<>>
  BY <1>1, HeadCommand
<1>3. UNCHANGED <<AbstractOpen, AbstractRequest>>
  BY <1>1 DEF AbstractOpen, AbstractRequest
<1>4. AbstractRequest[c] = <<command[c]>>
  BY <1>2 DEF AbstractRequest
<1>5. /\ airplay_volume' = IF command[c].op = "SetParameter" THEN command[c].volume
                                                           ELSE airplay_volume
      /\ resp' = [resp EXCEPT ![c] = <<IF command[c].op = "GetParameter" THEN airplay_volume
                                                                         ELSE 0>>]
  BY DEF Served, Announce, Setup, Record, Teardown, SetParameter, GetParameter, FlushBuffer,
         Taken, Answer, sessionVars
<1> HIDE DEF c
<1>6. Abstract!Pending(c)
  BY <1>2, <1>4 DEF Abstract!Pending, AbstractRequest
<1>7. Abstract!Serve(c)
  <2>1. AbstractRequest[c][1] = command[c]
    BY <1>4
  <2> QED BY <1>1, <1>3, <1>5, <1>6, <2>1
          DEF Abstract!Serve, AbstractOpen, AbstractRequest, Recv
<1> QED BY <1>2, <1>7 DEF Abstract!Next

\* To its handlers the player is the service: each command takes effect once,
\* in one step between send and rx.await, GET_PARAMETER answers the volume set
\* last, and no command is lost while the player runs (mod.rs:167-306), for any
\* number of connections and sessions and any capacity of the channels.
THEOREM PlayerImplementsService == Spec => ServesAtomically
<1>1. Init => Abstract!Init
  BY DEF Init, Abstract!Init
<1>2. PlayerInv /\ [Next]_vars => [Abstract!Next]_Abstract!vars
  <2> SUFFICES ASSUME PlayerInv, [Next]_vars PROVE [Abstract!Next]_Abstract!vars
    OBVIOUS
  <2>1. ASSUME NEW c \in Conns, Handler(c) PROVE [Abstract!Next]_Abstract!vars
    BY <2>1, HandlerSeen
  <2>2. CASE Served
    BY <2>2, ServedSeen
  <2>3. CASE Consumed
    <3>1. status = "running" /\ UNCHANGED <<handler, command, resp, airplay_volume>>
      BY <2>3, ConsumedStep DEF Recv, handlerVars, sessionVars
    <3>2. CASE status' = status
      BY <3>1, <3>2, SameHandlersUnseen
    <3>3. CASE status' # "running"
      BY <3>1, <3>3, StopsSeen DEF Abstract!Next
    <3> QED BY <3>1, <3>2, <3>3
  <2>4. CASE Stopped
    <3>1. status = "running" /\ status' # "running"
      BY <2>4, StoppedStep DEF Stop
    <3>2. UNCHANGED <<handler, command, resp, airplay_volume>>
      BY <2>4, StoppedStep DEF handlerVars, sessionVars
    <3> QED BY <3>1, <3>2, StopsSeen DEF Abstract!Next
  <2>5. CASE TaskStep
    <3>1. UNCHANGED <<status, handler, command, resp, airplay_volume>>
      BY <2>5, TaskStepFrame DEF handlerVars, sessionVars
    <3> QED BY <3>1, SameHandlersUnseen
  <2>6. CASE UNCHANGED vars
    <3>1. UNCHANGED <<status, handler, command, resp, airplay_volume>>
      BY <2>6 DEF vars, playerVars, handlerVars, sessionVars
    <3> QED BY <3>1, SameHandlersUnseen
  <2> QED BY <2>1, <2>2, <2>3, <2>4, <2>5, <2>6, StepKinds
<1> QED BY <1>1, <1>2, PlayerInvariant, PTL DEF Spec, ServesAtomically, Abstract!Spec

-----------------------------------------------------------------------------
(***************************************************************************)
(* Who waits for whom.                                                     *)
(***************************************************************************)

\* The ControlSender the player waits for has been spawned.
WaitInv ==
    /\ awaiting => control_tx # 0
    /\ \A g \in Gens : g <= setups => control_sender[g] # "unborn"

LEMMA WaitInvStep == ASSUME PlayerInv, WaitInv, [Next]_vars PROVE WaitInv'
<1>1. TaskTypes /\ setups \in Nat
  BY SetupsCounted, TypeParts DEF PlayerInv
<1>2. ASSUME UNCHANGED <<control_tx, setups, control_sender>>, awaiting' => awaiting
      PROVE  WaitInv'
  BY <1>2 DEF WaitInv
<1>3. ASSUME NEW c \in Conns, Handler(c) PROVE WaitInv'
  <2>1. UNCHANGED <<control_tx, setups, control_sender, awaiting>>
    BY <1>3 DEF Handler, Ask, Send, Answered, HandlerFails, Close, playerVars, sessionVars, taskVars
  <2> QED BY <1>2, <2>1
<1>4. CASE Served
  <2>1. ~awaiting /\ UNCHANGED awaiting
    BY <1>4, ServedStep DEF Recv
  <2>2. CASE Setup
    <3>1. setups + 1 \in Gens /\ setups' = setups + 1
      BY <2>2, SetupBounded DEF Setup
    <3>2. control_sender' = [control_sender EXCEPT ![setups + 1] = "recv"]
      BY <2>2 DEF Setup
    <3>3. ASSUME NEW g \in Gens, g <= setups + 1 PROVE control_sender'[g] # "unborn"
      <4>1. g = setups + 1 \/ g <= setups
        BY <1>1, <3>3 DEF Gens
      <4> QED BY <1>1, <3>1, <3>2, <4>1 DEF WaitInv, TaskTypes
    <3> QED BY <2>1, <3>1, <3>3 DEF WaitInv
  <2>3. CASE ~Setup
    <3>1. UNCHANGED <<control_tx, setups, control_sender>>
      BY <1>4, <2>3 DEF Served, Announce, Record, Teardown, SetParameter, GetParameter,
                        FlushBuffer, sessionVars, taskVars
    <3> QED BY <1>2, <2>1, <3>1
  <2> QED BY <2>2, <2>3
<1>5. CASE Consumed
  <2>1. /\ UNCHANGED <<control_tx, setups, control_sender>>
        /\ awaiting' => awaiting \/ control_tx # 0
    BY <1>5, ConsumedStep DEF sessionVars, taskVars
  <2> QED BY <2>1 DEF WaitInv
<1>6. CASE Stopped
  <2>1. ~awaiting' /\ UNCHANGED <<setups, control_sender>>
    BY <1>6, StoppedStep DEF Stop, sessionVars, taskVars
  <2> QED BY <2>1 DEF WaitInv
<1>7. CASE TaskStep
  <2>1. UNCHANGED <<control_tx, setups>>
    BY <1>7, TaskStepFrame DEF sessionVars
  <2>2. awaiting' => awaiting
    BY <1>7, TaskStepFrame
  <2>3. ASSUME NEW g \in Gens, control_sender[g] # "unborn" PROVE control_sender'[g] # "unborn"
    <3>1. ASSUME NEW h \in Gens, TakeMissing(h) \/ SendMissing(h) \/ ControlSenderEnds(h)
          PROVE  control_sender'[g] # "unborn"
      BY <1>1, <2>3, <3>1 DEF TakeMissing, SendMissing, ControlSenderEnds, TaskTypes
    <3>2. ASSUME NEW t \in Tasks, Receive(t) \/ PassOn(t) \/ ReceiverEnds(t) \/ ReceiverFails(t)
          PROVE  UNCHANGED control_sender
      BY <3>2 DEF Receive, PassOn, ReceiverEnds, ReceiverFails
    <3>3. ASSUME NEW c \in Conns, NEW h \in Gens, SendAudio(c, h) PROVE UNCHANGED control_sender
      BY <3>3 DEF SendAudio
    <3>4. ASSUME MissingSent PROVE UNCHANGED control_sender
      BY <3>4 DEF MissingSent
    <3> QED BY <1>7, <2>3, <3>1, <3>2, <3>3, <3>4 DEF TaskStep, Task
  <2> QED BY <2>1, <2>2, <2>3 DEF WaitInv
<1>8. CASE UNCHANGED vars
  BY <1>2, <1>8 DEF vars, playerVars, sessionVars, taskVars
<1> QED BY <1>3, <1>4, <1>5, <1>6, <1>7, <1>8, StepKinds

LEMMA WaitInvariant == Spec => []WaitInv
<1>1. Init => WaitInv
  <2> SUFFICES ASSUME Init PROVE WaitInv
    OBVIOUS
  <2>1. ~awaiting /\ setups = 0
    BY DEF Init
  <2>2. \A g \in Gens : ~(g <= 0)
    BY DEF Gens
  <2> QED BY <2>1, <2>2 DEF WaitInv
<1>2. PlayerInv /\ WaitInv /\ [Next]_vars => WaitInv'
  BY WaitInvStep
<1> QED BY <1>1, <1>2, PlayerInvariant, PTL DEF Spec

\* Handlers, the player and its ControlSenders never all wait for each other,
\* for any number of connections and sessions, with channels of any capacity
\* and full (mod.rs:337-347, control_sender.rs:23-54).
THEOREM NobodyWaitsInCircle == Spec => []NoCircularWait
<1>1. PlayerInv /\ WaitInv => NoCircularWait
  <2> SUFFICES ASSUME PlayerInv, WaitInv, status = "running"
               PROVE  NoCircularWait
    BY DEF NoCircularWait
  <2>1. TypeOK /\ ChannelInv /\ PlayerCap \in Nat \ {0} /\ ControlCap \in Nat \ {0}
    BY PlayerAssumption DEF PlayerInv
  <2>2. ASSUME NEW c \in Conns, handler[c] = "sending", ~(Len(queue) < PlayerCap)
        PROVE  queue # <<>>
    BY <2>1, <2>2
  <2>3. ASSUME NEW c \in Conns, handler[c] = "waiting", resp[c] = <<>>
        PROVE  queue # <<>>
    <3>1. Queued(c) # {}
      BY <2>1, <2>3 DEF ChannelInv, WaitersServed
    <3>2. queue = <<>> => Len(queue) = 0
      OBVIOUS
    <3> QED BY <3>1, <3>2 DEF Queued
  <2>4. ASSUME awaiting PROVE control_tx \in Gens /\ ControlMoves(control_tx)
    <3>1. control_tx \in 0 .. setups /\ setups \in 0 .. MaxSetups /\ MaxSetups \in Nat
      BY <2>1, PlayerAssumption DEF TypeOK
    <3>2. control_tx \in Gens /\ control_tx <= setups
      BY <2>4, <3>1 DEF WaitInv, Gens
    <3>3. control_sender[control_tx] \in {"recv", "sending", "done"}
      BY <2>1, <3>2 DEF WaitInv, TypeOK
    <3>4. ~(Len(missing[control_tx]) < ControlCap) => missing[control_tx] # <<>>
      BY <2>1
    <3> QED BY <3>2, <3>3, <3>4 DEF ControlMoves
  <2> QED BY <2>1, <2>2, <2>3, <2>4 DEF NoCircularWait
<1> QED BY <1>1, WaitInvariant, PlayerInvariant, PTL

-----------------------------------------------------------------------------
(***************************************************************************)
(* The first session of a client that is alone and follows the protocol.   *)
(***************************************************************************)
OneClient == Polite /\ \A c, d \in Conns : c = d

\* Its ANNOUNCE carries keys and configures a decoder.
Announces == \A p \in Requests : p.op = "Announce" => p.key # NoKey /\ p.fmtp

\* How far the session is for the player: ahead of the client's view while an
\* answer is on its way.
Stage(c) == IF resp[c] = <<>> THEN phase[c] ELSE PhaseAfter(c)

\* A command under way is one the protocol allows.
InOrder ==
    \A c \in Conns : handler[c] \in {"sending", "waiting"} =>
                        command[c] \in Requests /\ command[c].op \in Follows[phase[c]]

\* One SETUP and then one RECORD: a session has one generation and one buffer.
OneSession ==
    teardowns = 0 =>
        \A c \in Conns : /\ Stage(c) \in {"new", "announced"} => setups = 0
                         /\ Stage(c) # "recording" => frame_buffer = 0

\* There is no packet anywhere before the client has sent one.
Quiet ==
    /\ ~awaiting
    /\ \A i \in 1 .. Len(queue) : ~queue[i].put
    /\ \A t \in Tasks : receiver[t] # "sending" /\ socket[t] = <<>>
    /\ \A g \in Gens : control_sender[g] # "sending" /\ missing[g] = <<>>

\* It sends one only once its session records.
AudioInOrder ==
    /\ sent = 0 => Quiet
    /\ teardowns = 0 /\ sent # 0 => \E c \in Conns : Stage(c) = "recording"

\* Until the TEARDOWN the tasks of the session are not told to end.
ChannelOpen ==
    teardowns = 0 /\ status = "running" =>
        /\ notify_shutdown = setups /\ control_tx = setups
        /\ setups # 0 => control_sender[setups] \in {"recv", "sending"}

SessionInv == InOrder /\ OneSession /\ AudioInOrder /\ ChannelOpen

\* From ANNOUNCE to TEARDOWN the player has keys and a decoder.
Keyed == teardowns = 0 => \A c \in Conns : Stage(c) # "new" =>
                              encryption # NoKey /\ cipher # NoKey /\ alac

\* The stage is the player's: no step of a handler moves it.
LEMMA StageOfHandlers ==
    ASSUME PlayerInv, NEW c \in Conns, Handler(c), NEW d \in Conns
    PROVE  Stage(d)' = Stage(d)
<1>1. HandlerTypes /\ ChannelInv
  BY TypeParts DEF PlayerInv
<1>2. ASSUME NEW p \in Requests, Ask(c, p) PROVE Stage(d)' = Stage(d)
  <2>1. resp[c] = <<>> /\ UNCHANGED <<resp, phase>> /\ (d # c => command'[d] = command[d])
    BY <1>1, <1>2 DEF Ask, ChannelInv, AnswersAwaited, HandlerTypes
  <2> QED BY <2>1 DEF Stage, PhaseAfter
<1>3. CASE Answered(c)
  <2>1. /\ resp[c] # <<>> /\ resp'[c] = <<>> /\ phase'[c] = PhaseAfter(c)
        /\ command' = command
        /\ d # c => resp'[d] = resp[d] /\ phase'[d] = phase[d]
    BY <1>1, <1>3 DEF Answered, HandlerTypes
  <2> QED BY <2>1 DEF Stage, PhaseAfter
<1>4. CASE Send(c) \/ HandlerFails(c) \/ Close(c)
  BY <1>4 DEF Send, HandlerFails, Close, Stage, PhaseAfter
<1> QED BY <1>2, <1>3, <1>4 DEF Handler

\* A command that is served moves the stage along the protocol.
LEMMA StageServed ==
    ASSUME OneClient, PlayerInv, InOrder, Served, NEW d \in Conns
    PROVE  /\ d = Head(queue).from
           /\ Stage(d) = phase[d]
           /\ command[d] \in Requests /\ command[d].op \in Follows[phase[d]]
           /\ Stage(d)' = PhaseAfter(d)
<1>1. /\ Recv /\ ~Head(queue).put
      /\ UNCHANGED <<handler, command, phase>> /\ \E v \in Nat : Answer(v)
  BY ServedStep
<1>2. PICK v \in Nat : resp' = [resp EXCEPT ![Head(queue).from] = <<v>>]
  BY <1>1 DEF Answer
<1>3. /\ d = Head(queue).from /\ handler[d] = "waiting" /\ resp[d] = <<>>
  BY <1>1, HeadCommand DEF OneClient
<1>4. resp'[d] # <<>>
  BY <1>2, <1>3, TypeParts DEF PlayerInv, HandlerTypes
<1> QED BY <1>1, <1>3, <1>4 DEF Stage, PhaseAfter, InOrder

\* The command, by the arm that serves it.
LEMMA ServedOp ==
    ASSUME Served
    PROVE  LET op == command[Head(queue).from].op
           IN  /\ op = "Announce" => Announce
               /\ op = "Setup" => Setup
               /\ op = "Record" => Record
               /\ op = "Teardown" => Teardown
               /\ op \notin {"Announce", "Setup", "Record", "Teardown"} =>
                     UNCHANGED <<encryption, cipher, alac, frame_buffer, sink, setups, teardowns,
                                 notify_shutdown, control_tx, taskVars>>
BY DEF Served, Announce, Setup, Record, Teardown, SetParameter, GetParameter, FlushBuffer,
       Taken, sessionVars

\* Where each stage leads.
LEMMA Stages ==
    ASSUME PlayerInv, NEW d \in Conns, command[d].op \in Follows[phase[d]]
    PROVE  \/ phase[d] = "new" /\ command[d].op = "Announce" /\ PhaseAfter(d) = "announced"
           \/ phase[d] = "announced" /\ command[d].op = "Setup" /\ PhaseAfter(d) = "ready"
           \/ phase[d] = "ready" /\ command[d].op = "Record" /\ PhaseAfter(d) = "recording"
           \/ phase[d] = "recording" /\ command[d].op = "Teardown"
           \/ /\ phase[d] = "recording" /\ PhaseAfter(d) = "recording"
              /\ command[d].op \notin {"Announce", "Setup", "Record", "Teardown"}
<1>1. phase[d] \in {"new", "announced", "ready", "recording"}
  BY TypeParts DEF PlayerInv, HandlerTypes
<1> QED BY <1>1 DEF Follows, PhaseAfter

\* Steps of the session: they leave it alone, or serve the command the
\* protocol has next.
LEMMA SessionStep ==
    ASSUME OneClient, PlayerInv, InOrder, Next
    PROVE  \/ /\ UNCHANGED <<encryption, cipher, alac, frame_buffer, sink, setups, teardowns>>
              /\ \A d \in Conns : Stage(d)' = Stage(d)
           \/ /\ Served
              /\ \E d \in Conns :
                    /\ Conns = {d} /\ d = Head(queue).from /\ command[d] \in Requests
                    /\ \/ Stage(d) = "new" /\ Announce /\ Stage(d)' = "announced"
                       \/ Stage(d) = "announced" /\ Setup /\ Stage(d)' = "ready"
                       \/ Stage(d) = "ready" /\ Record /\ Stage(d)' = "recording"
                       \/ Stage(d) = "recording" /\ Teardown
<1>1. ASSUME UNCHANGED <<handlerVars, sessionVars>>
      PROVE  /\ UNCHANGED <<encryption, cipher, alac, frame_buffer, sink, setups, teardowns>>
             /\ \A d \in Conns : Stage(d)' = Stage(d)
  BY <1>1 DEF handlerVars, sessionVars, Stage, PhaseAfter
<1>2. CASE Consumed \/ Stopped \/ TaskStep
  <2>1. UNCHANGED <<handlerVars, sessionVars>>
    BY <1>2, ConsumedStep, StoppedStep, TaskStepFrame
  <2> QED BY <1>1, <2>1
<1>3. ASSUME NEW c \in Conns, Handler(c)
      PROVE  /\ UNCHANGED <<encryption, cipher, alac, frame_buffer, sink, setups, teardowns>>
             /\ \A d \in Conns : Stage(d)' = Stage(d)
  BY <1>3, StageOfHandlers
  DEF Handler, Ask, Send, Answered, HandlerFails, Close, playerVars, sessionVars
<1>4. CASE Served
  <2>1. PICK d \in Conns : d = Head(queue).from
    BY <1>4, ServedStep, HeadCommand
  <2>2. Conns = {d}
    BY <2>1 DEF OneClient
  <2>3. /\ Stage(d) = phase[d] /\ command[d] \in Requests
        /\ command[d].op \in Follows[phase[d]] /\ Stage(d)' = PhaseAfter(d)
    BY <1>4, <2>1, StageServed
  <2>4. /\ command[d].op = "Announce" => Announce
        /\ command[d].op = "Setup" => Setup
        /\ command[d].op = "Record" => Record
        /\ command[d].op = "Teardown" => Teardown
        /\ command[d].op \notin {"Announce", "Setup", "Record", "Teardown"} =>
              UNCHANGED <<encryption, cipher, alac, frame_buffer, sink, setups, teardowns>>
    BY <1>4, <2>1, ServedOp
  <2>5. CASE phase[d] = "recording" /\ PhaseAfter(d) = "recording"
               /\ command[d].op \notin {"Announce", "Setup", "Record", "Teardown"}
    BY <2>2, <2>3, <2>4, <2>5
  <2>6. CASE ~(phase[d] = "recording" /\ PhaseAfter(d) = "recording"
                 /\ command[d].op \notin {"Announce", "Setup", "Record", "Teardown"})
    <3>1. \/ Stage(d) = "new" /\ Announce /\ Stage(d)' = "announced"
          \/ Stage(d) = "announced" /\ Setup /\ Stage(d)' = "ready"
          \/ Stage(d) = "ready" /\ Record /\ Stage(d)' = "recording"
          \/ Stage(d) = "recording" /\ Teardown
      BY <2>1, <2>3, <2>4, <2>6, Stages
    <3> QED BY <1>4, <2>1, <2>2, <2>3, <3>1
  <2> QED BY <2>5, <2>6
<1> QED BY <1>2, <1>3, <1>4, StepKinds

LEMMA InOrderStep == ASSUME OneClient, PlayerInv, InOrder, Next PROVE InOrder'
<1>1. HandlerTypes
  BY TypeParts DEF PlayerInv
<1>2. ASSUME UNCHANGED <<handler, command, phase>> PROVE InOrder'
  BY <1>2 DEF InOrder
<1>3. CASE Served \/ Consumed \/ Stopped \/ TaskStep
  <2>1. UNCHANGED <<handler, command, phase>>
    BY <1>3, ServedStep, ConsumedStep, StoppedStep, TaskStepFrame DEF handlerVars
  <2> QED BY <1>2, <2>1
<1>4. ASSUME NEW c \in Conns, Handler(c) PROVE InOrder'
  <2>1. ASSUME NEW p \in Requests, Ask(c, p) PROVE InOrder'
    BY <1>1, <2>1 DEF Ask, InOrder, OneClient, HandlerTypes
  <2>2. CASE Send(c) \/ Answered(c) \/ HandlerFails(c) \/ Close(c)
    BY <1>1, <2>2 DEF Send, Answered, HandlerFails, Close, InOrder, HandlerTypes
  <2> QED BY <1>4, <2>1, <2>2 DEF Handler
<1> QED BY <1>3, <1>4, StepKinds

LEMMA OneSessionStep ==
    ASSUME OneClient, PlayerInv, InOrder, OneSession, Next
    PROVE  OneSession'
<1>1. teardowns \in Nat
  BY DEF PlayerInv, TypeOK
<1>2. CASE /\ UNCHANGED <<frame_buffer, setups, teardowns>>
           /\ \A d \in Conns : Stage(d)' = Stage(d)
  BY <1>2 DEF OneSession
<1>3. ASSUME NEW d \in Conns, Conns = {d},
             Stage(d) = "new", Announce, Stage(d)' = "announced"
      PROVE  OneSession'
  BY <1>3 DEF Announce, OneSession
<1>4. ASSUME NEW d \in Conns, Conns = {d},
             Stage(d) = "announced", Setup, Stage(d)' = "ready"
      PROVE  OneSession'
  BY <1>4 DEF Setup, OneSession
<1>5. ASSUME NEW d \in Conns, Conns = {d},
             Stage(d) = "ready", Record, Stage(d)' = "recording", teardowns = 0
      PROVE  OneSession'
  BY <1>5 DEF Record, OneSession
<1>6. CASE Teardown
  BY <1>1, <1>6 DEF Teardown, OneSession
<1>7. CASE Record /\ teardowns # 0
  BY <1>7 DEF Record, OneSession
<1> QED BY <1>2, <1>3, <1>4, <1>5, <1>6, <1>7, SessionStep

LEMMA KeyedStep ==
    ASSUME OneClient, Announces, PlayerInv, InOrder, Keyed, Next
    PROVE  Keyed'
<1>1. teardowns \in Nat
  BY DEF PlayerInv, TypeOK
<1>2. CASE /\ UNCHANGED <<encryption, cipher, alac, teardowns>>
           /\ \A d \in Conns : Stage(d)' = Stage(d)
  BY <1>2 DEF Keyed
<1>3. ASSUME NEW d \in Conns, d = Head(queue).from, command[d] \in Requests, Announce
      PROVE  Keyed'
  <2>1. command[d].op = "Announce"
    BY <1>3 DEF Announce, Taken
  <2>2. command[d].key # NoKey /\ command[d].fmtp
    BY <1>3, <2>1 DEF Announces
  <2>3. encryption' # NoKey /\ cipher' # NoKey /\ alac'
    BY <1>3, <2>2 DEF Announce
  <2> QED BY <2>3 DEF Keyed
<1>4. ASSUME NEW d \in Conns, Conns = {d}, Stage(d) # "new", Setup \/ Record
      PROVE  Keyed'
  BY <1>4 DEF Setup, Record, Keyed
<1>5. CASE Teardown
  BY <1>1, <1>5 DEF Teardown, Keyed
<1> QED BY <1>2, <1>3, <1>4, <1>5, SessionStep

\* A message taken or a command sent brings no packet.
LEMMA QuietStep ==
    ASSUME PlayerInv, Quiet, Next, sent' = 0
    PROVE  Quiet'
<1>1. QueueTypes /\ HandlerTypes /\ TaskTypes
  BY TypeParts DEF PlayerInv
<1>2. ASSUME queue # <<>>, queue' = Tail(queue)
      PROVE  \A i \in 1 .. Len(queue') : ~queue'[i].put
  BY <1>1, <1>2, QueueTail DEF Quiet
<1>3. ASSUME queue # <<>> PROVE ~Head(queue).put
  BY <1>1, <1>3, QueueTail DEF Quiet
<1>4. ASSUME NEW c \in Conns, Handler(c) PROVE Quiet'
  <2>1. UNCHANGED <<awaiting, taskVars>>
    BY <1>4 DEF Handler, Ask, Send, Answered, HandlerFails, Close, playerVars
  <2>2. \A i \in 1 .. Len(queue') : ~queue'[i].put
    <3>1. CASE queue' = queue
      BY <3>1 DEF Quiet
    <3>2. CASE Send(c)
      <4> DEFINE m == [from |-> c, put |-> FALSE, key |-> NoKey]
      <4>1. m \in Command \cup PutPacketCommand /\ ~m.put
        BY DEF Command
      <4> HIDE DEF m
      <4>2. /\ Len(queue) \in Nat /\ Len(queue') = Len(queue) + 1
            /\ \A i \in 1 .. Len(queue) : queue'[i] = queue[i]
            /\ queue'[Len(queue) + 1] = m
        BY <1>1, <3>2, <4>1, QueueAppend DEF Send, m
      <4>3. \A i \in 1 .. Len(queue') : i \in 1 .. Len(queue) \/ i = Len(queue) + 1
        BY <4>2
      <4> QED BY <4>1, <4>2, <4>3 DEF Quiet
    <3> QED BY <1>4, <3>1, <3>2 DEF Handler, Ask, Answered, HandlerFails, Close, playerVars
  <2> QED BY <2>1, <2>2 DEF Quiet, taskVars
<1>5. CASE Served
  <2>1. queue # <<>> /\ queue' = Tail(queue) /\ awaiting' = awaiting
    BY <1>5, ServedStep DEF Recv
  <2>2. CASE Setup
    <3>1. setups + 1 \in Gens
      BY <2>2, SetupBounded
    <3>2. \A t \in Tasks : receiver'[t] # "sending"
      BY <2>2 DEF Setup, Quiet
    <3>3. \A g \in Gens : control_sender'[g] # "sending"
      BY <1>1, <2>2, <3>1 DEF Setup, Quiet, TaskTypes
    <3> QED BY <1>2, <2>1, <2>2, <3>2, <3>3 DEF Setup, Quiet
  <2>3. CASE ~Setup
    <3>1. UNCHANGED taskVars
      BY <1>5, <2>3 DEF Served, Announce, Record, Teardown, SetParameter, GetParameter, FlushBuffer
    <3> QED BY <1>2, <2>1, <3>1 DEF Quiet, taskVars
  <2> QED BY <2>2, <2>3
<1>6. CASE Consumed
  <2>1. queue # <<>> /\ queue' = Tail(queue) /\ UNCHANGED taskVars /\ awaiting' = awaiting
    BY <1>3, <1>6, ConsumedStep DEF Recv
  <2> QED BY <1>2, <2>1 DEF Quiet, taskVars
<1>7. CASE Stopped
  <2>1. ~awaiting' /\ queue' = <<>> /\ UNCHANGED taskVars
    BY <1>7, StoppedStep DEF Stop
  <2> QED BY <2>1 DEF Quiet, taskVars
<1>8. CASE TaskStep
  <2>1. ~MissingSent
    BY DEF MissingSent, Quiet
  <2>2. ASSUME NEW c \in Conns, NEW g \in Gens, SendAudio(c, g) PROVE FALSE
    BY <1>1, <2>2 DEF SendAudio, TaskTypes
  <2>3. ASSUME NEW t \in Tasks, Receive(t) \/ PassOn(t) PROVE FALSE
    BY <2>3 DEF Receive, PassOn, Quiet
  <2>4. ASSUME NEW g \in Gens, TakeMissing(g) \/ SendMissing(g) PROVE FALSE
    BY <2>4 DEF TakeMissing, SendMissing, Quiet
  <2>5. ASSUME NEW t \in Tasks, ReceiverEnds(t) \/ ReceiverFails(t) PROVE Quiet'
    BY <1>1, <2>5 DEF ReceiverEnds, ReceiverFails, Quiet, TaskTypes, playerVars
  <2>6. ASSUME NEW g \in Gens, ControlSenderEnds(g) PROVE Quiet'
    BY <1>1, <2>6 DEF ControlSenderEnds, Quiet, TaskTypes, playerVars
  <2> QED BY <1>8, <2>1, <2>2, <2>3, <2>4, <2>5, <2>6 DEF TaskStep, Task
<1> QED BY <1>4, <1>5, <1>6, <1>7, <1>8, StepKinds

LEMMA SentStep ==
    ASSUME Next
    PROVE  sent' = sent \/ \E c \in Conns, g \in Gens : SendAudio(c, g)
<1>1. ASSUME NEW c \in Conns, Handler(c) PROVE sent' = sent
  BY <1>1 DEF Handler, Ask, Send, Answered, HandlerFails, Close, taskVars
<1>2. ASSUME Served PROVE sent' = sent
  BY <1>2 DEF Served, Announce, Setup, Record, Teardown, SetParameter, GetParameter,
              FlushBuffer, taskVars
<1>3. ASSUME Consumed \/ Stopped PROVE sent' = sent
  BY <1>3, ConsumedStep, StoppedStep DEF taskVars
<1>4. ASSUME Task \/ MissingSent PROVE sent' = sent
  BY <1>4 DEF Task, MissingSent, Receive, PassOn, ReceiverEnds, ReceiverFails, TakeMissing,
              SendMissing, ControlSenderEnds
<1> QED BY <1>1, <1>2, <1>3, <1>4, StepKinds DEF TaskStep

LEMMA AudioInOrderStep ==
    ASSUME OneClient, PlayerInv, InOrder, AudioInOrder, Next
    PROVE  AudioInOrder'
<1>1. sent \in Nat /\ teardowns \in Nat /\ HandlerTypes /\ ChannelInv
  BY TypeParts DEF PlayerInv, TypeOK
<1>2. sent' = 0 => Quiet'
  <2>1. ASSUME NEW c \in Conns, NEW g \in Gens, SendAudio(c, g) PROVE sent' # 0
    <3>1. sent' = sent + 1
      BY <2>1 DEF SendAudio
    <3> QED BY <1>1, <3>1
  <2>2. sent' = 0 => sent = 0
    BY <2>1, SentStep
  <2> QED BY <2>2, QuietStep DEF AudioInOrder
<1>3. ASSUME teardowns' = 0, sent' # 0
      PROVE  \E c \in Conns : Stage(c)' = "recording"
  <2>1. ASSUME NEW c \in Conns, NEW g \in Gens, SendAudio(c, g)
        PROVE  Stage(c)' = "recording"
    <3>1. phase[c] = "recording" /\ handler[c] = "idle" /\ UNCHANGED handlerVars
      BY <2>1 DEF SendAudio, OneClient
    <3>2. resp[c] = <<>>
      BY <1>1, <3>1 DEF ChannelInv, AnswersAwaited
    <3> QED BY <3>1, <3>2 DEF Stage, handlerVars
  <2>2. CASE sent' = sent
    <3>1. teardowns = 0
      <4>1. CASE Teardown
        BY <1>1, <1>3, <4>1 DEF Teardown
      <4>2. CASE UNCHANGED teardowns
        BY <1>3, <4>2
      <4>3. Announce \/ Setup \/ Record => UNCHANGED teardowns
        BY DEF Announce, Setup, Record
      <4> QED BY <4>1, <4>2, <4>3, SessionStep
    <3>2. PICK c \in Conns : Stage(c) = "recording"
      BY <1>3, <2>2, <3>1 DEF AudioInOrder
    <3>3. ~Teardown
      BY <1>1, <1>3 DEF Teardown
    <3>4. Stage(c)' = Stage(c)
      BY <3>2, <3>3, SessionStep
    <3> QED BY <3>2, <3>4
  <2> QED BY <2>1, <2>2, SentStep
<1> QED BY <1>2, <1>3 DEF AudioInOrder

LEMMA ChannelOpenStep ==
    ASSUME OneClient, PlayerInv, InOrder, ChannelOpen, Next
    PROVE  ChannelOpen'
<1>1. teardowns \in Nat /\ setups \in Nat /\ TaskTypes /\ (setups # 0 => setups \in Gens)
  <2>1. TaskTypes /\ teardowns \in Nat /\ setups \in 0 .. MaxSetups
    BY TypeParts DEF PlayerInv, TypeOK
  <2> QED BY <2>1, PlayerAssumption DEF Gens
<1>2. ASSUME UNCHANGED <<control_tx, status, notify_shutdown, setups, teardowns, control_sender>>
      PROVE  ChannelOpen'
  BY <1>2 DEF ChannelOpen
<1>3. ASSUME NEW c \in Conns, Handler(c) PROVE ChannelOpen'
  <2>1. UNCHANGED <<control_tx, status, notify_shutdown, setups, teardowns, control_sender>>
    BY <1>3 DEF Handler, Ask, Send, Answered, HandlerFails, Close, playerVars, sessionVars, taskVars
  <2> QED BY <1>2, <2>1
<1>4. CASE Served
  <2>1. UNCHANGED status
    BY <1>4, ServedStep
  <2>2. CASE Setup
    <3>1. setups + 1 \in Gens
      BY <2>2, SetupBounded
    <3>2. /\ setups' = setups + 1 /\ notify_shutdown' = setups + 1 /\ control_tx' = setups + 1
          /\ control_sender' = [control_sender EXCEPT ![setups + 1] = "recv"]
      BY <2>2 DEF Setup
    <3>3. control_sender'[setups + 1] = "recv"
      BY <1>1, <3>1, <3>2 DEF TaskTypes
    <3> QED BY <2>1, <3>2, <3>3 DEF ChannelOpen
  <2>3. CASE Teardown
    <3>1. teardowns' # 0
      BY <1>1, <2>3 DEF Teardown
    <3> QED BY <2>1, <3>1 DEF ChannelOpen
  <2>4. CASE ~Setup /\ ~Teardown
    <3>1. UNCHANGED <<control_tx, notify_shutdown, setups, teardowns, control_sender>>
      BY <1>4, <2>4 DEF Served, Announce, Record, SetParameter, GetParameter, FlushBuffer,
                        sessionVars, taskVars
    <3> QED BY <1>2, <2>1, <3>1
  <2> QED BY <2>2, <2>3, <2>4
<1>5. CASE Consumed
  <2>1. /\ UNCHANGED <<control_tx, notify_shutdown, setups, teardowns, control_sender>>
        /\ status = "running"
    BY <1>5, ConsumedStep DEF Recv, sessionVars, taskVars
  <2> QED BY <2>1 DEF ChannelOpen
<1>6. CASE Stopped
  <2>1. status' # "running"
    BY <1>6, StoppedStep DEF Stop
  <2> QED BY <2>1 DEF ChannelOpen
<1>7. CASE TaskStep
  <2>1. UNCHANGED <<status, notify_shutdown, control_tx, setups, teardowns>>
    BY <1>7, TaskStepFrame DEF sessionVars
  <2>2. ASSUME teardowns = 0, status = "running", setups # 0
        PROVE  control_sender'[setups] \in {"recv", "sending"}
    <3>1. control_sender[setups] \in {"recv", "sending"} /\ setups \in Gens /\ notify_shutdown = setups
      BY <1>1, <2>2 DEF ChannelOpen
    <3>2. ASSUME NEW g \in Gens, TakeMissing(g) \/ SendMissing(g)
          PROVE  control_sender'[setups] \in {"recv", "sending"}
      BY <1>1, <3>1, <3>2 DEF TakeMissing, SendMissing, TaskTypes
    <3>3. ASSUME NEW g \in Gens, ControlSenderEnds(g)
          PROVE  control_sender'[setups] \in {"recv", "sending"}
      BY <1>1, <3>1, <3>3 DEF ControlSenderEnds, SignalledTo, TaskTypes
    <3>4. ASSUME NEW t \in Tasks, Receive(t) \/ PassOn(t) \/ ReceiverEnds(t) \/ ReceiverFails(t)
          PROVE  UNCHANGED control_sender
      BY <3>4 DEF Receive, PassOn, ReceiverEnds, ReceiverFails
    <3>5. ASSUME NEW c \in Conns, NEW g \in Gens, SendAudio(c, g) PROVE UNCHANGED control_sender
      BY <3>5 DEF SendAudio
    <3>6. ASSUME MissingSent PROVE UNCHANGED control_sender
      BY <3>6 DEF MissingSent
    <3> QED BY <1>7, <3>1, <3>2, <3>3, <3>4, <3>5, <3>6 DEF TaskStep, Task
  <2> QED BY <2>1, <2>2 DEF ChannelOpen
<1> QED BY <1>3, <1>4, <1>5, <1>6, <1>7, StepKinds

LEMMA SessionInvStep ==
    ASSUME OneClient, PlayerInv, SessionInv, [Next]_vars
    PROVE  SessionInv'
<1>1. CASE Next
  BY <1>1, InOrderStep, OneSessionStep, AudioInOrderStep, ChannelOpenStep DEF SessionInv
<1>2. CASE UNCHANGED vars
  <2>1. UNCHANGED <<playerVars, handlerVars, taskVars>>
    BY <1>2 DEF vars
  <2>2. \A c \in Conns : Stage(c)' = Stage(c)
    BY <2>1 DEF handlerVars, Stage, PhaseAfter
  <2>3. InOrder' /\ OneSession'
    BY <2>1, <2>2 DEF SessionInv, InOrder, OneSession, playerVars, handlerVars, sessionVars
  <2>4. AudioInOrder'
    BY <2>1, <2>2 DEF SessionInv, AudioInOrder, Quiet, playerVars, sessionVars, taskVars
  <2>5. ChannelOpen'
    BY <2>1 DEF SessionInv, ChannelOpen, playerVars, sessionVars, taskVars
  <2> QED BY <2>3, <2>4, <2>5 DEF SessionInv
<1> QED BY <1>1, <1>2

LEMMA InitSessionInv == Init => SessionInv
<1> SUFFICES ASSUME Init PROVE SessionInv
  OBVIOUS
<1>1. InOrder /\ OneSession /\ ChannelOpen
  BY DEF Init, InOrder, OneSession, ChannelOpen, Stage
<1>2. ~awaiting /\ queue = <<>> /\ Len(queue) = 0
  BY DEF Init
<1>3. Quiet
  BY <1>2 DEF Init, Quiet
<1> QED BY <1>1, <1>3 DEF Init, AudioInOrder, SessionInv

\* The session's order holds throughout for a client that is alone and follows
\* the protocol: one SETUP, one RECORD and only then audio, until its TEARDOWN.
THEOREM SessionInvariant ==
    ASSUME OneClient
    PROVE  Spec => [](PlayerInv /\ SessionInv)
<1>1. Init => SessionInv
  BY InitSessionInv
<1>2. PlayerInv /\ SessionInv /\ [Next]_vars => SessionInv'
  BY SessionInvStep
<1> QED BY <1>1, <1>2, PlayerInvariant, PTL DEF Spec

\* The player's own part of it: keys and a decoder from ANNOUNCE to TEARDOWN,
\* and neither of the ways to end that FirstSessionSound excludes.
LEMMA SoundStep ==
    ASSUME OneClient, PlayerInv, WaitInv, SessionInv, Keyed, FirstSessionSound, Next
    PROVE  FirstSessionSound'
<1>1. teardowns \in Nat /\ PlayerTypes /\ QueueTypes
  BY TypeParts DEF PlayerInv, TypeOK
<1>2. ASSUME UNCHANGED <<status, setups, teardowns>> PROVE FirstSessionSound'
  BY <1>2 DEF FirstSessionSound
<1>3. ASSUME NEW c \in Conns, Handler(c) PROVE FirstSessionSound'
  <2>1. UNCHANGED <<status, setups, teardowns>>
    BY <1>3 DEF Handler, Ask, Send, Answered, HandlerFails, Close, playerVars, sessionVars
  <2> QED BY <1>2, <2>1
<1>4. CASE Served
  <2>1. status' = "running"
    BY <1>4, ServedStep DEF Recv
  <2> QED BY <2>1 DEF FirstSessionSound
<1>5. CASE Consumed
  <2>1. UNCHANGED <<setups, teardowns>> /\ status = "running"
    BY <1>5, ConsumedStep DEF sessionVars, Recv
  <2>2. ASSUME PutPacketTodo, teardowns = 0 PROVE FALSE
    <3>1. queue # <<>> /\ Head(queue).put /\ (encryption = NoKey \/ cipher = NoKey \/ ~alac)
      BY <2>2 DEF PutPacketTodo, Recv
    <3>2. ~Quiet
      BY <1>1, <3>1, QueueTail DEF Quiet
    <3>3. PICK c \in Conns : Stage(c) = "recording"
      BY <2>2, <3>2 DEF SessionInv, AudioInOrder
    <3> QED BY <2>2, <3>1, <3>3 DEF Keyed
  <2>3. AnnouncePanics \/ PutPacketUndecodable \/ PutPacket => status' \notin {"todo", "failed"}
    BY <2>1 DEF AnnouncePanics, PutPacketUndecodable, PutPacket, Panic
  <2>4. PutPacketTodo => status' = "todo"
    BY DEF PutPacketTodo, Panic
  <2> QED BY <1>5, <2>1, <2>2, <2>3, <2>4 DEF Consumed, FirstSessionSound
<1>6. CASE Stopped
  <2>1. UNCHANGED <<setups, teardowns>> /\ status' # "todo"
    BY <1>6, StoppedStep DEF sessionVars, Stop
  <2>2. ASSUME SetupFails, teardowns = 0 PROVE setups = 0
    <3> DEFINE c == Head(queue).from
    <3>1. Recv /\ ~Head(queue).put /\ command[c].op = "Setup"
      BY <2>2 DEF SetupFails
    <3>2. c \in Conns /\ handler[c] = "waiting" /\ resp[c] = <<>>
      BY <3>1, HeadCommand
    <3> HIDE DEF c
    <3>3. command[c].op \in Follows[phase[c]]
      BY <3>2 DEF SessionInv, InOrder
    <3>4. phase[c] = "announced"
      BY <3>1, <3>2, <3>3, Stages
    <3> QED BY <2>2, <3>2, <3>4 DEF SessionInv, OneSession, Stage
  <2>3. ASSUME MissingFails, teardowns = 0 PROVE FALSE
    BY <2>3 DEF MissingFails, WaitInv, SessionInv, ChannelOpen
  <2>4. ServerStops => status' = "shutdown"
    BY DEF ServerStops, Stop
  <2> QED BY <1>6, <2>1, <2>2, <2>3, <2>4 DEF Stopped, FirstSessionSound
<1>7. CASE TaskStep
  <2>1. UNCHANGED <<status, setups, teardowns>>
    BY <1>7, TaskStepFrame DEF sessionVars
  <2> QED BY <1>2, <2>1
<1> QED BY <1>3, <1>4, <1>5, <1>6, <1>7, StepKinds

\* A client that is alone, follows the protocol and announces keys and a
\* decoder is served until its TEARDOWN: no packet meets todo!() and no closed
\* channel ends the player, whatever its packets overtake and its tasks do
\* (mod.rs:347, 352, 358).
THEOREM FirstSessionServed ==
    ASSUME OneClient, Announces
    PROVE  Spec => []FirstSessionSound
<1>1. Init => Keyed /\ FirstSessionSound
  BY DEF Init, Keyed, Stage, FirstSessionSound
<1>2. PlayerInv /\ WaitInv /\ SessionInv /\ Keyed /\ FirstSessionSound /\ [Next]_vars
        => Keyed' /\ FirstSessionSound'
  <2> SUFFICES ASSUME PlayerInv, WaitInv, SessionInv, Keyed, FirstSessionSound, [Next]_vars
               PROVE  Keyed' /\ FirstSessionSound'
    OBVIOUS
  <2>1. CASE Next
    BY <2>1, KeyedStep, SoundStep DEF SessionInv
  <2>2. CASE UNCHANGED vars
    <3>1. UNCHANGED <<playerVars, handlerVars>>
      BY <2>2 DEF vars
    <3> QED BY <3>1 DEF Keyed, Stage, PhaseAfter, FirstSessionSound,
                        playerVars, sessionVars, handlerVars
  <2> QED BY <2>1, <2>2
<1> QED BY <1>1, <1>2, WaitInvariant, SessionInvariant, PTL DEF Spec

=============================================================================
