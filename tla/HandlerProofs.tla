---------------------------- MODULE HandlerProofs ----------------------------
(***************************************************************************)
(* Theorems about Handler, for any number of connections, requests and     *)
(* volume lines.                                                           *)
(***************************************************************************)
EXTENDS Handler, SequenceTheorems, WellFoundedInduction, TLAPS

AllRequests == [method : Methods, valid : BOOLEAN, challenge : BOOLEAN, lines : Lines]
Statuses    == {"none", "Ok", "ParameterNotUnderstood", "MethodNotAllowed"}

\* The types, those of the player included.
Types ==
    /\ request \in [Conns -> Seq(Commands)]
    /\ answer \in [Conns -> Seq(Nat)]
    /\ volume \in Nat
    /\ state \in [Conns -> {"reading", "executing", "failed", "broken", "gone", "panicked"}]
    /\ current \in [Conns -> Seq(AllRequests)]
    /\ todo \in [Conns -> Seq(Commands)]
    /\ effects \in [Conns -> Nat]
    /\ read \in [Conns -> 0 .. MaxRead]
    /\ response \in [Conns -> [to : 0 .. MaxRead, status : Statuses]]
    /\ setter = <<>> \/ \E c \in Conns : setter = <<c>>

\* What a connection has read is a request of its peer.
CurrentRead(c) == current[c] = <<>> \/ \E r \in Requests[c] : current[c] = <<r>>

calls(c) == execute(current[c][1]).calls

\* A handler waits for the first of the commands it has still to see answered,
\* and has an answer only to that.
Waits(c) ==
    /\ answer[c] # <<>> => request[c] # <<>>
    /\ request[c] # <<>> => /\ state[c] = "executing" /\ todo[c] # <<>>
                            /\ request[c] = <<Head(todo[c])>>

\* While execute runs, todo is the end of the request's commands, and those
\* before it have been served, and the first of it once it is answered.
Executes(c) ==
    state[c] = "executing" =>
        /\ current[c] # <<>>
        /\ Len(todo[c]) <= Len(calls(c))
        /\ \A i \in 1 .. Len(todo[c]) :
              todo[c][i] = calls(c)[Len(calls(c)) - Len(todo[c]) + i]
        /\ effects[c] = (Len(calls(c)) - Len(todo[c])) + (IF answer[c] = <<>> THEN 0 ELSE 1)

EffectsWithin(c) == effects[c] <= IF current[c] = <<>> THEN 0 ELSE Len(calls(c))

\* The connection was dropped after an effect only by an arm that fails late.
DroppedLate(c) ==
    state[c] = "failed" /\ effects[c] > 0 =>
        current[c][1].method \in {"SETUP", "ANNOUNCE", "SET_PARAMETER", "GET_PARAMETER"}

ConnInv(c) == CurrentRead(c) /\ Waits(c) /\ Executes(c) /\ EffectsWithin(c) /\ DroppedLate(c)

HandlerInv == Types /\ \A c \in Conns : ConnInv(c)

-----------------------------------------------------------------------------
(***************************************************************************)
(* The arms of execute.                                                    *)
(***************************************************************************)

\* A set of numbers that is not empty has a least one.
LEMMA LeastNumber ==
    ASSUME NEW T \in SUBSET Nat, T # {}
    PROVE  \E x \in T : \A y \in T : x <= y
<1> DEFINE R == OpToRel(<, Nat)
<1>1. IsWellFoundedOn(R, Nat)
  BY NatLessThanWellFounded, Zenon
<1>2. \A y, x \in Nat : y < x => <<y, x>> \in R
  BY Zenon DEF OpToRel
<1> HIDE DEF R
<1>3. PICK x \in T : \A y \in T : ~ (<<y, x>> \in R)
  BY <1>1, WFMin, Zenon
<1>4. \A y \in T : ~(y < x)
  BY <1>2, <1>3
<1> QED BY <1>4

\* UpToBad keeps lines from the first on, all of them numbers.
LEMMA UpToBadKeeps ==
    ASSUME NEW lines \in Lines
    PROVE  /\ UpToBad(lines) \in Seq(Nat)
           /\ Len(UpToBad(lines)) <= Len(lines)
           /\ \A i \in 1 .. Len(UpToBad(lines)) : UpToBad(lines)[i] = lines[i]
<1> DEFINE Cut(n) == /\ \A i \in 1 .. n : lines[i] # BadLine
                     /\ n < Len(lines) => lines[n + 1] = BadLine
           T == { k \in 0 .. Len(lines) : k < Len(lines) => lines[k + 1] = BadLine }
<1>1. Len(lines) \in Nat /\ \A i \in 1 .. Len(lines) : lines[i] \in Nat \cup {BadLine}
  BY LenProperties DEF Lines
<1>2. T \in SUBSET Nat /\ Len(lines) \in T
  BY <1>1
<1>3. PICK k \in T : \A j \in T : k <= j
  BY <1>2, LeastNumber
<1>4. k \in Nat /\ k <= Len(lines)
  BY <1>1, <1>3
<1>5. ASSUME NEW i \in 1 .. k PROVE lines[i] # BadLine
  <2>1. i - 1 \in 0 .. Len(lines) /\ ~(k <= i - 1) /\ (i - 1) + 1 = i
    BY <1>1, <1>4
  <2> QED BY <1>3, <2>1
<1>6. k \in 0 .. Len(lines) /\ Cut(k)
  BY <1>3, <1>5
<1> DEFINE m == CHOOSE n \in 0 .. Len(lines) : Cut(n)
<1>7. m \in 0 .. Len(lines) /\ Cut(m)
  BY <1>6
<1>8. UpToBad(lines) = SubSeq(lines, 1, m)
  BY DEF UpToBad
<1> HIDE DEF m
<1>9. m \in Int /\ \A i \in 1 .. m : lines[i] \in Nat
  BY <1>1, <1>7
<1>10. /\ SubSeq(lines, 1, m) \in Seq(Nat)
       /\ Len(SubSeq(lines, 1, m)) = IF 1 <= m THEN m - 1 + 1 ELSE 0
       /\ \A i \in 1 .. m - 1 + 1 : SubSeq(lines, 1, m)[i] = lines[1 + i - 1]
  BY <1>9, SubSeqProperties
<1>11. Len(SubSeq(lines, 1, m)) = m
  BY <1>7, <1>10
<1>12. \A i \in 1 .. m : SubSeq(lines, 1, m)[i] = lines[i]
  BY <1>7, <1>10
<1> QED BY <1>7, <1>8, <1>10, <1>11, <1>12

\* The commands of a SET_PARAMETER set the lines in turn.
LEMMA SetParameterCalls ==
    ASSUME NEW r \in AllRequests
    PROVE  LET s == SetParameter(r).calls
           IN  s \in Seq(Commands) /\ \A i \in 1 .. Len(s) : s[i] = Set(r.lines[i])
<1> DEFINE good == UpToBad(r.lines)
           s    == SetParameter(r).calls
<1>1. /\ good \in Seq(Nat) /\ DOMAIN good = 1 .. Len(good) /\ Len(good) \in Nat
      /\ \A i \in 1 .. Len(good) : good[i] \in Nat /\ good[i] = r.lines[i]
  <2>1. r.lines \in Lines
    BY DEF AllRequests
  <2>2. good \in Seq(Nat) /\ \A i \in 1 .. Len(good) : good[i] = r.lines[i]
    BY <2>1, UpToBadKeeps
  <2> HIDE DEF good
  <2> QED BY <2>2, LenProperties
<1> HIDE DEF good
<1>2. CASE r.valid
  <2>1. s = [i \in 1 .. Len(good) |-> Set(good[i])]
    BY <1>1, <1>2 DEF SetParameter, Arm, good
  <2>2. \A i \in 1 .. Len(good) : Set(good[i]) \in Commands
    BY <1>1 DEF Set, Commands
  <2> HIDE DEF s
  <2>3. s \in Seq(Commands) /\ Len(s) = Len(good)
    BY <1>1, <2>1, <2>2
  <2> QED BY <1>1, <2>1, <2>3 DEF s
<1>3. CASE ~r.valid
  <2>1. s = <<>>
    BY <1>3 DEF SetParameter, Arm
  <2> HIDE DEF s
  <2> QED BY <2>1 DEF s
<1> QED BY <1>2, <1>3

\* Every arm: its commands and its status, and the methods whose arms have a
\* `?` after a command.
LEMMA ExecuteArms ==
    ASSUME NEW r \in AllRequests
    PROVE  /\ execute(r).calls \in Seq(Commands)
           /\ execute(r).status \in Statuses
           /\ ~execute(r).last =>
                 r.method \in {"SETUP", "ANNOUNCE", "SET_PARAMETER", "GET_PARAMETER"}
           /\ r.method = "SET_PARAMETER" =>
                 \A i \in 1 .. Len(execute(r).calls) : execute(r).calls[i] = Set(r.lines[i])
<1>1. CASE r.method = "SET_PARAMETER"
  <2>1. execute(r) = SetParameter(r)
    BY <1>1 DEF execute
  <2>2. SetParameter(r).status \in Statuses
    BY DEF SetParameter, Arm, Statuses
  <2> QED BY <1>1, <2>1, <2>2, SetParameterCalls
<1>2. CASE r.method # "SET_PARAMETER"
  <2>1. \A op \in {"Setup", "GetParameter", "Announce", "Record", "Teardown", "Flush"} :
           Command(op) \in Commands
    BY DEF Command, Commands
  <2>2. \A op \in {"Setup", "GetParameter", "Announce", "Record", "Teardown", "Flush"} :
           <<Command(op)>> \in Seq(Commands)
    BY <2>1
  <2>3. <<>> \in Seq(Commands)
    OBVIOUS
  <2>4. /\ Options(r).calls = <<>> /\ Options(r).last /\ Options(r).status = "Ok"
        /\ NotAllowed(r).calls = <<>> /\ NotAllowed(r).last
        /\ NotAllowed(r).status = "MethodNotAllowed"
    BY DEF Options, NotAllowed, Arm
  <2>5. /\ Setup(r).calls \in {<<>>, <<Command("Setup")>>} /\ Setup(r).status \in {"Ok", "none"}
        /\ Announce(r).calls = <<Command("Announce")>> /\ Announce(r).status = "Ok"
        /\ GetParameter(r).calls = <<Command("GetParameter")>> /\ GetParameter(r).status = "Ok"
    BY DEF Setup, Announce, GetParameter, IfUsable, Arm
  <2>6. /\ Record(r).calls \in {<<>>, <<Command("Record")>>}
        /\ Record(r).last /\ Record(r).status = "Ok"
        /\ Flush(r).calls \in {<<>>, <<Command("Flush")>>}
        /\ Flush(r).last /\ Flush(r).status = "Ok"
        /\ Teardown(r).calls = <<Command("Teardown")>>
        /\ Teardown(r).last /\ Teardown(r).status = "Ok"
    BY DEF Record, Flush, Teardown, IfUsable, Arm
  <2>7. \/ execute(r) \in {Options(r), NotAllowed(r), Record(r), Flush(r), Teardown(r)}
        \/ execute(r) = Setup(r) /\ r.method = "SETUP"
        \/ execute(r) = GetParameter(r) /\ r.method = "GET_PARAMETER"
        \/ execute(r) = Announce(r) /\ r.method = "ANNOUNCE"
    BY <1>2 DEF execute
  <2>8. execute(r).calls \in Seq(Commands)
    BY <2>2, <2>3, <2>4, <2>5, <2>6, <2>7
  <2>9. execute(r).status \in Statuses
    BY <2>4, <2>5, <2>6, <2>7 DEF Statuses
  <2>10. ~execute(r).last => r.method \in {"SETUP", "ANNOUNCE", "SET_PARAMETER", "GET_PARAMETER"}
    BY <2>4, <2>6, <2>7
  <2> QED BY <1>2, <2>8, <2>9, <2>10
<1> QED BY <1>1, <1>2

-----------------------------------------------------------------------------
(***************************************************************************)
(* The steps.                                                              *)
(***************************************************************************)

\* What the invariant reads of a connection.
View(c) == <<request[c], answer[c], state[c], current[c], todo[c], effects[c]>>

LEMMA SameView ==
    ASSUME NEW d \in Conns, ConnInv(d), View(d)' = View(d)
    PROVE  ConnInv(d)'
BY DEF View, ConnInv, CurrentRead, Waits, Executes, EffectsWithin, DroppedLate, calls

\* What the current request is.
LEMMA CurrentRequest ==
    ASSUME HandlerInv, NEW c \in Conns, current[c] # <<>>
    PROVE  /\ current[c][1] \in Requests[c] /\ current[c] = <<current[c][1]>>
           /\ current[c][1] \in AllRequests
           /\ calls(c) \in Seq(Commands)
<1>1. PICK r \in Requests[c] : current[c] = <<r>>
  BY DEF HandlerInv, ConnInv, CurrentRead
<1>2. r \in AllRequests
  BY HandlerAssumption DEF AllRequests
<1> QED BY <1>1, <1>2, ExecuteArms DEF calls

\* A message is read, and execute begins.
LEMMA ReadInv ==
    ASSUME HandlerInv, NEW c \in Conns, NEW r \in Requests[c], Read(c, r)
    PROVE  HandlerInv'
<1>1. Types /\ \A d \in Conns : ConnInv(d)
  BY DEF HandlerInv
<1>2. r \in AllRequests /\ execute(r).calls \in Seq(Commands)
  BY HandlerAssumption, ExecuteArms DEF AllRequests
<1>3. /\ state[c] = "reading" /\ read[c] < MaxRead
      /\ read' = [read EXCEPT ![c] = read[c] + 1]
      /\ state' = [state EXCEPT ![c] = "executing"]
      /\ current' = [current EXCEPT ![c] = <<r>>]
      /\ todo' = [todo EXCEPT ![c] = execute(r).calls]
      /\ effects' = [effects EXCEPT ![c] = 0]
      /\ UNCHANGED <<request, answer, volume, response, setter>>
  BY DEF Read, Message, Becomes, serviceVars
<1>4. read' \in [Conns -> 0 .. MaxRead]
  BY <1>1, <1>3, HandlerAssumption DEF Types
<1>5. <<r>> \in Seq(AllRequests)
  BY <1>2
<1>6. Types'
  BY <1>1, <1>2, <1>3, <1>4, <1>5 DEF Types
<1>7. ASSUME NEW d \in Conns, d # c PROVE ConnInv(d)'
  <2>1. View(d)' = View(d)
    BY <1>1, <1>3, <1>7 DEF View, Types
  <2> QED BY <1>1, <2>1, SameView
<1>8. /\ current'[c] = <<r>> /\ <<r>>[1] = r /\ todo'[c] = execute(r).calls /\ effects'[c] = 0
      /\ state'[c] = "executing" /\ request'[c] = <<>> /\ answer'[c] = <<>>
      /\ Len(execute(r).calls) \in Nat
  BY <1>1, <1>2, <1>3 DEF Types, ConnInv, Waits
<1>9. Executes(c)'
  <2>1. Executes(c)' =
          /\ current'[c] # <<>>
          /\ Len(todo'[c]) <= Len(execute(r).calls)
          /\ \A i \in 1 .. Len(todo'[c]) :
                todo'[c][i] = execute(r).calls[Len(execute(r).calls) - Len(todo'[c]) + i]
          /\ effects'[c] = (Len(execute(r).calls) - Len(todo'[c]))
                              + (IF answer'[c] = <<>> THEN 0 ELSE 1)
    BY <1>8 DEF Executes, calls
  <2> QED BY <1>8, <2>1
<1>10. CurrentRead(c)' /\ Waits(c)' /\ EffectsWithin(c)' /\ DroppedLate(c)'
  BY <1>8 DEF CurrentRead, Waits, EffectsWithin, DroppedLate, calls
<1> QED BY <1>6, <1>7, <1>9, <1>10 DEF HandlerInv, ConnInv

\* A handler returns: nothing of its request is under way.
LEMMA EndsInv ==
    ASSUME HandlerInv, NEW c \in Conns, NEW s \in {"reading", "failed", "broken", "gone", "panicked"},
           state' = [state EXCEPT ![c] = s],
           request' = [request EXCEPT ![c] = <<>>],
           answer[c] = <<>>,
           s = "failed" /\ effects'[c] > 0 =>
              /\ current[c] # <<>> /\ current' = current
              /\ ~execute(current[c][1]).last,
           \/ UNCHANGED <<current, effects>>
           \/ \E r \in Requests[c] : /\ current' = [current EXCEPT ![c] = <<r>>]
                                     /\ effects' = [effects EXCEPT ![c] = 0],
           read' \in [Conns -> 0 .. MaxRead],
           response' \in [Conns -> [to : 0 .. MaxRead, status : Statuses]],
           UNCHANGED <<answer, volume, todo, setter>>
    PROVE  HandlerInv'
<1>1. Types /\ \A d \in Conns : ConnInv(d)
  BY DEF HandlerInv
<1>2. request'[c] = <<>> /\ answer'[c] = <<>> /\ state'[c] = s
  BY <1>1 DEF Types
<1>3. request' \in [Conns -> Seq(Commands)] /\ state' \in
         [Conns -> {"reading", "executing", "failed", "broken", "gone", "panicked"}]
  <2>1. <<>> \in Seq(Commands)
    OBVIOUS
  <2> QED BY <1>1, <2>1 DEF Types
<1>4. current' \in [Conns -> Seq(AllRequests)] /\ effects' \in [Conns -> Nat]
  <2>1. ASSUME NEW r \in Requests[c] PROVE <<r>> \in Seq(AllRequests)
    <3>1. r \in AllRequests
      BY HandlerAssumption DEF AllRequests
    <3> QED BY <3>1
  <2>2. ASSUME NEW r \in Requests[c], current' = [current EXCEPT ![c] = <<r>>],
               effects' = [effects EXCEPT ![c] = 0]
        PROVE  current' \in [Conns -> Seq(AllRequests)] /\ effects' \in [Conns -> Nat]
    BY <1>1, <2>1, <2>2 DEF Types
  <2>3. CASE UNCHANGED <<current, effects>>
    BY <1>1, <2>3 DEF Types
  <2> QED BY <2>2, <2>3
<1>5. Types'
  BY <1>1, <1>3, <1>4 DEF Types
<1>6. ASSUME NEW d \in Conns, d # c PROVE ConnInv(d)'
  <2>1. View(d)' = View(d)
    BY <1>1, <1>6 DEF View, Types
  <2> QED BY <1>1, <2>1, SameView
<1>7. Waits(c)' /\ Executes(c)'
  BY <1>2 DEF Waits, Executes
<1>8. CurrentRead(c)' /\ EffectsWithin(c)'
  <2>1. CASE UNCHANGED <<current, effects>>
    BY <1>1, <2>1 DEF ConnInv, CurrentRead, EffectsWithin, calls
  <2>2. ASSUME NEW r \in Requests[c], current' = [current EXCEPT ![c] = <<r>>],
               effects' = [effects EXCEPT ![c] = 0]
        PROVE  CurrentRead(c)' /\ EffectsWithin(c)'
    <3>1. current'[c] = <<r>> /\ <<r>>[1] = r /\ effects'[c] = 0
      BY <1>1, <2>2 DEF Types
    <3>2. Len(execute(r).calls) \in Nat
      BY HandlerAssumption, ExecuteArms DEF AllRequests
    <3> QED BY <3>1, <3>2 DEF CurrentRead, EffectsWithin, calls
  <2> QED BY <2>1, <2>2
<1>9. DroppedLate(c)'
  <2> SUFFICES ASSUME s = "failed", effects'[c] > 0
               PROVE  current'[c][1].method \in
                         {"SETUP", "ANNOUNCE", "SET_PARAMETER", "GET_PARAMETER"}
    BY <1>2 DEF DroppedLate
  <2> QED BY CurrentRequest, ExecuteArms
<1> QED BY <1>5, <1>6, <1>7, <1>8, <1>9 DEF HandlerInv, ConnInv

\* The commands: sent, served, answered.
LEMMA CallInv ==
    ASSUME HandlerInv, NEW c \in Conns, Call(c)
    PROVE  HandlerInv'
<1>1. Types /\ \A d \in Conns : ConnInv(d)
  BY DEF HandlerInv
<1>2. /\ state[c] = "executing" /\ todo[c] # <<>> /\ request[c] = <<>>
      /\ request' = [request EXCEPT ![c] = <<Head(todo[c])>>]
      /\ UNCHANGED <<answer, volume, handlerVars>>
  BY DEF Call, Player!Invoke, Player!Idle
<1>3. <<Head(todo[c])>> \in Seq(Commands)
  <2>1. Head(todo[c]) \in Commands
    BY <1>1, <1>2, HeadTailProperties DEF Types
  <2> QED BY <2>1
<1>4. Types'
  BY <1>1, <1>2, <1>3 DEF Types, handlerVars
<1>5. ASSUME NEW d \in Conns, d # c PROVE ConnInv(d)'
  <2>1. View(d)' = View(d)
    BY <1>1, <1>2, <1>5 DEF View, Types, handlerVars
  <2> QED BY <1>1, <2>1, SameView
<1>6. request'[c] = <<Head(todo[c])>> /\ <<Head(todo[c])>> # <<>>
  BY <1>1, <1>2 DEF Types
<1>7. Waits(c)'
  BY <1>2, <1>6 DEF Waits, handlerVars
<1>8. CurrentRead(c)' /\ Executes(c)' /\ EffectsWithin(c)' /\ DroppedLate(c)'
  BY <1>1, <1>2 DEF ConnInv, CurrentRead, Executes, EffectsWithin, DroppedLate, calls, handlerVars
<1> QED BY <1>4, <1>5, <1>7, <1>8 DEF HandlerInv, ConnInv

\* A command that is served is the next one of its request.
LEMMA ServedCommand ==
    ASSUME HandlerInv, NEW c \in Conns, Serve(c)
    PROVE  /\ state[c] = "executing" /\ current[c] # <<>>
           /\ effects[c] \in Nat /\ Len(calls(c)) \in Nat
           /\ effects[c] + 1 \in 1 .. Len(calls(c))
           /\ effects[c] = Len(calls(c)) - Len(todo[c])
           /\ request[c][1] = calls(c)[effects[c] + 1]
           /\ request[c][1] \in Commands
<1>1. Types /\ ConnInv(c)
  BY DEF HandlerInv
<1>2. request[c] # <<>> /\ answer[c] = <<>>
  BY DEF Serve, Player!Serve, Player!Pending
<1>3. /\ state[c] = "executing" /\ todo[c] # <<>> /\ request[c] = <<Head(todo[c])>>
      /\ current[c] # <<>>
  BY <1>1, <1>2 DEF ConnInv, Waits, Executes
<1>4. Len(calls(c)) \in Nat
  BY <1>3, CurrentRequest
<1>5. /\ Len(todo[c]) \in Nat \ {0} /\ todo[c][1] = Head(todo[c]) /\ todo[c][1] \in Commands
  <2>1. todo[c] \in Seq(Commands)
    BY <1>1 DEF Types
  <2> QED BY <1>3, <2>1, EmptySeq, ElementOfSeq
<1>6. request[c][1] = todo[c][1]
  BY <1>3, <1>5
<1> DEFINE n == Len(calls(c))
           m == Len(todo[c])
<1>7. n \in Nat /\ m \in Nat \ {0} /\ 1 \in 1 .. m
  BY <1>4, <1>5
<1>8. effects[c] = (n - m) + 0 /\ m <= n
  BY <1>1, <1>2, <1>3 DEF ConnInv, Executes
<1>9. todo[c][1] = calls(c)[n - m + 1]
  BY <1>1, <1>3, <1>7 DEF ConnInv, Executes
<1> HIDE DEF n, m
<1>10. /\ effects[c] = n - m /\ effects[c] \in Nat /\ effects[c] + 1 \in 1 .. n
       /\ n - m + 1 = effects[c] + 1
  BY <1>7, <1>8
<1>11. request[c][1] = calls(c)[effects[c] + 1]
  BY <1>6, <1>9, <1>10
<1> QED BY <1>3, <1>5, <1>6, <1>7, <1>10, <1>11 DEF n, m

LEMMA ServeInv ==
    ASSUME HandlerInv, NEW c \in Conns, Serve(c)
    PROVE  HandlerInv'
<1>1. Types /\ \A d \in Conns : ConnInv(d)
  BY DEF HandlerInv
<1>2. /\ state[c] = "executing" /\ current[c] # <<>>
      /\ effects[c] \in Nat /\ Len(calls(c)) \in Nat
      /\ effects[c] + 1 \in 1 .. Len(calls(c))
      /\ effects[c] = Len(calls(c)) - Len(todo[c])
      /\ request[c][1] \in Commands
  BY ServedCommand
<1>3. PICK v \in Nat : answer' = [answer EXCEPT ![c] = <<v>>]
  BY <1>1 DEF Serve, Player!Serve, Types
<1>4. /\ effects' = [effects EXCEPT ![c] = effects[c] + 1]
      /\ UNCHANGED <<request, state, current, todo, read, response>>
      /\ request[c] # <<>>
  BY DEF Serve, Player!Serve, Player!Pending
<1>5. volume' \in Nat
  <2>1. request[c][1].volume \in Nat /\ volume \in Nat
    BY <1>1, <1>2 DEF Types, Commands
  <2> QED BY <2>1 DEF Serve, Player!Serve
<1>6. setter' = <<>> \/ \E d \in Conns : setter' = <<d>>
  BY <1>1 DEF Serve, Types
<1>7. answer' \in [Conns -> Seq(Nat)] /\ effects' \in [Conns -> Nat]
  <2>1. <<v>> \in Seq(Nat)
    OBVIOUS
  <2> QED BY <1>1, <1>2, <1>3, <1>4, <2>1 DEF Types
<1>8. Types'
  BY <1>1, <1>4, <1>5, <1>6, <1>7 DEF Types
<1>9. ASSUME NEW d \in Conns, d # c PROVE ConnInv(d)'
  <2>1. View(d)' = View(d)
    BY <1>1, <1>3, <1>4, <1>9 DEF View, Types
  <2> QED BY <1>1, <2>1, SameView
<1>10. answer'[c] # <<>> /\ effects'[c] = effects[c] + 1
  BY <1>1, <1>3, <1>4 DEF Types
<1>11. CurrentRead(c)' /\ Waits(c)' /\ DroppedLate(c)'
  BY <1>1, <1>2, <1>4, <1>10 DEF ConnInv, CurrentRead, Waits, DroppedLate
<1>12. EffectsWithin(c)'
  <2> DEFINE n == Len(calls(c))
  <2>1. effects'[c] <= n => EffectsWithin(c)'
    BY <1>2, <1>4 DEF EffectsWithin, calls
  <2>2. n \in Nat /\ effects[c] + 1 \in 1 .. n
    BY <1>2
  <2> HIDE DEF n
  <2>3. effects'[c] <= n
    BY <1>2, <1>10, <2>2
  <2> QED BY <2>1, <2>3
<1>13. Executes(c)'
  <2>1. calls(c)' = calls(c) /\ todo' = todo /\ current' = current
    BY <1>4 DEF calls
  <2>2. effects'[c] = (Len(calls(c)) - Len(todo[c])) + 1
    BY <1>2, <1>10
  <2> QED BY <1>1, <1>2, <1>10, <2>1, <2>2 DEF ConnInv, Executes
<1> QED BY <1>8, <1>9, <1>11, <1>12, <1>13 DEF HandlerInv, ConnInv

LEMMA ReturnedInv ==
    ASSUME HandlerInv, NEW c \in Conns, Returned(c)
    PROVE  HandlerInv'
<1>1. Types /\ \A d \in Conns : ConnInv(d)
  BY DEF HandlerInv
<1>2. /\ answer[c] # <<>>
      /\ request' = [request EXCEPT ![c] = <<>>] /\ answer' = [answer EXCEPT ![c] = <<>>]
      /\ todo' = [todo EXCEPT ![c] = Tail(todo[c])]
      /\ UNCHANGED <<volume, state, current, effects, read, response, setter>>
  BY DEF Returned, Player!Return
<1>3. state[c] = "executing" /\ todo[c] # <<>> /\ current[c] # <<>>
  BY <1>1, <1>2 DEF ConnInv, Waits, Executes
<1>4. /\ Tail(todo[c]) \in Seq(Commands) /\ Len(Tail(todo[c])) = Len(todo[c]) - 1
      /\ Len(todo[c]) \in Nat \ {0}
      /\ \A i \in 1 .. Len(Tail(todo[c])) : Tail(todo[c])[i] = todo[c][i + 1]
  <2>1. todo[c] \in Seq(Commands)
    BY <1>1 DEF Types
  <2> QED BY <1>3, <2>1, HeadTailProperties, EmptySeq
<1>5. Types'
  <2>1. <<>> \in Seq(Commands) /\ <<>> \in Seq(Nat)
    OBVIOUS
  <2> QED BY <1>1, <1>2, <1>4, <2>1 DEF Types
<1>6. ASSUME NEW d \in Conns, d # c PROVE ConnInv(d)'
  <2>1. View(d)' = View(d)
    BY <1>1, <1>2, <1>6 DEF View, Types
  <2> QED BY <1>1, <2>1, SameView
<1>7. answer'[c] = <<>> /\ request'[c] = <<>> /\ todo'[c] = Tail(todo[c])
  BY <1>1, <1>2 DEF Types
<1>8. CurrentRead(c)' /\ Waits(c)' /\ EffectsWithin(c)' /\ DroppedLate(c)'
  BY <1>1, <1>2, <1>7 DEF ConnInv, CurrentRead, Waits, EffectsWithin, DroppedLate, calls
<1>9. Executes(c)'
  <2> DEFINE n == Len(calls(c))
             m == Len(todo[c])
  <2>1. calls(c)' = calls(c) /\ n \in Nat /\ m \in Nat \ {0}
    BY <1>2, <1>3, <1>4, CurrentRequest DEF calls
  <2>2. /\ m <= n
        /\ \A i \in 1 .. m : todo[c][i] = calls(c)[n - m + i]
        /\ effects[c] = (n - m) + 1
    BY <1>1, <1>2, <1>3 DEF ConnInv, Executes
  <2>3. Len(todo'[c]) = m - 1
    BY <1>4, <1>7
  <2>4. \A i \in 1 .. m - 1 : todo'[c][i] = todo[c][i + 1]
    BY <1>4, <1>7
  <2>5. Len(calls(c)') = n
    BY <2>1
  <2> HIDE DEF n, m
  <2>6. m - 1 <= n /\ effects[c] = (n - (m - 1)) + 0
    BY <2>1, <2>2
  <2>7. ASSUME NEW i \in 1 .. m - 1 PROVE todo'[c][i] = calls(c)[n - (m - 1) + i]
    <3>1. i + 1 \in 1 .. m /\ n - m + (i + 1) = n - (m - 1) + i
      BY <2>1
    <3>2. todo[c][i + 1] = calls(c)[n - m + (i + 1)]
      BY <2>2, <3>1
    <3> QED BY <2>4, <3>1, <3>2
  <2> QED BY <1>2, <1>3, <1>7, <2>1, <2>3, <2>5, <2>6, <2>7 DEF Executes
<1> QED BY <1>5, <1>6, <1>8, <1>9 DEF HandlerInv, ConnInv

\* The rest of what a handler does: each time nothing is under way with the
\* player, or the player is gone.
LEMMA OverInv ==
    ASSUME HandlerInv, NEW c \in Conns,
           \/ \E r \in Requests[c] : ReadRefused(c, r)
           \/ ReadPanics(c) \/ BrokenOff(c) \/ FailLate(c) \/ WriteFails(c) \/ Ends(c)
    PROVE  HandlerInv'
<1>1. Types /\ ConnInv(c)
  BY DEF HandlerInv
<1>2. <<>> \in Seq(Commands)
  OBVIOUS
<1>3. ASSUME Player!Close(c)
      PROVE  /\ request' = [request EXCEPT ![c] = <<>>] /\ answer[c] = <<>>
             /\ UNCHANGED <<answer, volume>>
  <2>1. request[c] = <<>> /\ UNCHANGED <<request, answer, volume>>
    BY <1>3 DEF Player!Close, Player!Idle
  <2>2. request = [request EXCEPT ![c] = <<>>]
    BY <1>1, <2>1 DEF Types
  <2> QED BY <1>1, <2>1, <2>2 DEF ConnInv, Waits
<1>4. ASSUME Message(c) PROVE read' \in [Conns -> 0 .. MaxRead]
  BY <1>1, <1>4, HandlerAssumption DEF Message, Types
<1>5. read \in [Conns -> 0 .. MaxRead] /\ response \in [Conns -> [to : 0 .. MaxRead, status : Statuses]]
  BY <1>1 DEF Types
<1>6. ASSUME NEW r \in Requests[c], ReadRefused(c, r) PROVE HandlerInv'
  <2>1. /\ Message(c) /\ Player!Close(c) /\ UNCHANGED <<todo, response, setter>>
        /\ state' = [state EXCEPT ![c] = "failed"]
        /\ current' = [current EXCEPT ![c] = <<r>>] /\ effects' = [effects EXCEPT ![c] = 0]
    BY <1>6 DEF ReadRefused, Becomes
  <2>2. ~(effects'[c] > 0)
    BY <1>1, <2>1 DEF Types
  <2> QED BY <1>3, <1>4, <1>5, <2>1, <2>2, EndsInv
<1>7. CASE ReadPanics(c)
  <2>1. /\ Message(c) /\ Player!Close(c) /\ UNCHANGED <<current, todo, effects, response, setter>>
        /\ state' = [state EXCEPT ![c] = "panicked"]
    BY <1>7 DEF ReadPanics, Becomes
  <2> QED BY <1>3, <1>4, <1>5, <2>1, EndsInv
<1>8. CASE BrokenOff(c)
  <2>1. /\ request' = [request EXCEPT ![c] = <<>>] /\ answer[c] = <<>>
        /\ UNCHANGED <<answer, volume, current, todo, effects, read, response, setter>>
        /\ state' = [state EXCEPT ![c] = "broken"]
    BY <1>8 DEF BrokenOff, Becomes, Player!Fail, Player!Pending
  <2> QED BY <1>5, <2>1, EndsInv
<1>9. CASE FailLate(c)
  <2>1. /\ Player!Close(c) /\ UNCHANGED <<current, todo, effects, read, response, setter>>
        /\ state' = [state EXCEPT ![c] = "failed"] /\ state[c] = "executing"
        /\ ~execute(current[c][1]).last
    BY <1>9 DEF FailLate, Done, Becomes
  <2>2. current[c] # <<>>
    BY <1>1, <2>1 DEF ConnInv, Executes
  <2> QED BY <1>3, <1>5, <2>1, <2>2, EndsInv
<1>10. CASE WriteFails(c) \/ Ends(c)
  <2>1. /\ Player!Close(c) /\ UNCHANGED <<current, todo, effects, read, response, setter>>
        /\ state' = [state EXCEPT ![c] = "gone"]
    BY <1>10 DEF WriteFails, Ends, Becomes
  <2> QED BY <1>3, <1>5, <2>1, EndsInv
<1> QED BY <1>6, <1>7, <1>8, <1>9, <1>10

\* execute is done and run reads again.
LEMMA RespondInv ==
    ASSUME HandlerInv, NEW c \in Conns, Respond(c) \/ NoResponse(c)
    PROVE  HandlerInv'
<1>1. Types /\ ConnInv(c)
  BY DEF HandlerInv
<1>2. /\ state[c] = "executing" /\ todo[c] = <<>>
      /\ state' = [state EXCEPT ![c] = "reading"]
      /\ UNCHANGED <<request, answer, volume, current, todo, effects, read, setter>>
  BY DEF Respond, NoResponse, Done, Becomes, serviceVars
<1>3. request[c] = <<>> /\ answer[c] = <<>> /\ current[c] # <<>>
  BY <1>1, <1>2 DEF ConnInv, Waits, Executes
<1>4. request' = [request EXCEPT ![c] = <<>>]
  BY <1>1, <1>2, <1>3 DEF Types
<1>5. response' \in [Conns -> [to : 0 .. MaxRead, status : Statuses]]
  <2>1. [to |-> read[c], status |-> execute(current[c][1]).status]
           \in [to : 0 .. MaxRead, status : Statuses]
    <3>1. execute(current[c][1]).status \in Statuses
      BY <1>3, CurrentRequest, ExecuteArms
    <3> QED BY <1>1, <3>1 DEF Types
  <2> QED BY <1>1, <2>1 DEF Respond, NoResponse, Types
<1>6. read' \in [Conns -> 0 .. MaxRead]
  BY <1>1, <1>2 DEF Types
<1> QED BY <1>2, <1>3, <1>4, <1>5, <1>6, EndsInv

LEMMA NextHandlerInv == HandlerInv /\ [Next]_vars => HandlerInv'
<1> SUFFICES ASSUME HandlerInv, [Next]_vars PROVE HandlerInv'
  OBVIOUS
<1>1. ASSUME NEW c \in Conns, NEW r \in Requests[c], Read(c, r) PROVE HandlerInv'
  BY <1>1, ReadInv
<1>2. ASSUME NEW c \in Conns,
             \/ \E r \in Requests[c] : ReadRefused(c, r)
             \/ ReadPanics(c) \/ WriteFails(c) \/ Ends(c)
      PROVE  HandlerInv'
  BY <1>2, OverInv
<1>3. ASSUME NEW c \in Conns, Step(c) PROVE HandlerInv'
  BY <1>3, CallInv, ServeInv, ReturnedInv, RespondInv, OverInv DEF Step
<1>4. CASE Stop \/ UNCHANGED vars
  <2>1. UNCHANGED <<request, answer, volume, handlerVars>>
    BY <1>4 DEF Stop, Player!Stop, vars, serviceVars
  <2>2. Types'
    BY <2>1 DEF HandlerInv, Types, handlerVars
  <2>3. \A d \in Conns : View(d)' = View(d)
    BY <2>1 DEF View, handlerVars
  <2> QED BY <2>2, <2>3, SameView DEF HandlerInv
<1> QED BY <1>1, <1>2, <1>3, <1>4 DEF Next

LEMMA InitHandlerInv == Init => HandlerInv
<1> SUFFICES ASSUME Init PROVE HandlerInv
  OBVIOUS
<1>1. /\ request = [c \in Conns |-> <<>>] /\ answer = [c \in Conns |-> <<>>] /\ volume = 0
      /\ state = [c \in Conns |-> "reading"] /\ current = [c \in Conns |-> <<>>]
      /\ todo = [c \in Conns |-> <<>>] /\ effects = [c \in Conns |-> 0]
      /\ read = [c \in Conns |-> 0] /\ setter = <<>>
      /\ response = [c \in Conns |-> [to |-> 0, status |-> "none"]]
  BY DEF Init, Player!Init
<1>2. \A S : <<>> \in Seq(S)
  OBVIOUS
<1>3. 0 \in 0 .. MaxRead
  BY HandlerAssumption
<1>4. Types
  BY <1>1, <1>2, <1>3 DEF Types, Statuses
<1>5. \A c \in Conns : ConnInv(c)
  <2> SUFFICES ASSUME NEW c \in Conns PROVE ConnInv(c)
    OBVIOUS
  <2>1. /\ request[c] = <<>> /\ answer[c] = <<>> /\ state[c] = "reading"
        /\ current[c] = <<>> /\ effects[c] = 0
    BY <1>1
  <2>2. EffectsWithin(c)
    BY <2>1 DEF EffectsWithin
  <2> QED BY <2>1, <2>2 DEF ConnInv, CurrentRead, Waits, Executes, DroppedLate
<1> QED BY <1>4, <1>5 DEF HandlerInv

\* The progress of every request is what the invariant says: the commands that
\* are left, the one under way and the effects had so far fit together.
THEOREM HandlerInvariant == Spec => []HandlerInv
BY InitHandlerInv, NextHandlerInv, PTL DEF Spec

\* Types; a request has no more effects than its arm has commands.
THEOREM HandlerTypeCorrect == Spec => []TypeOK
<1>1. HandlerInv => TypeOK
  <2> SUFFICES ASSUME HandlerInv PROVE TypeOK
    OBVIOUS
  <2>1. Types /\ \A c \in Conns : EffectsWithin(c)
    BY DEF HandlerInv, ConnInv
  <2>2. \A c \in Conns : current[c] = <<>> \/ current[c][1] \in Requests[c]
    BY CurrentRequest
  <2>3. setter = <<>> \/ setter[1] \in Conns
    BY <2>1 DEF Types
  <2> QED BY <2>1, <2>2, <2>3 DEF TypeOK, Types, EffectsWithin, calls, Statuses
<1> QED BY <1>1, HandlerInvariant, PTL

\* Whatever its peer sends and the other connections do, a connection that is
\* dropped without an answer has had no effect on the player, unless its arm
\* adds the default headers after the command (handler.rs:199, 260, 354).
THEOREM RefusalsHaveNoEffect == Spec => []RefusedWithoutEffect
<1>1. HandlerInv => RefusedWithoutEffect
  BY DEF HandlerInv, ConnInv, DroppedLate, RefusedWithoutEffect
<1> QED BY <1>1, HandlerInvariant, PTL

\* After k volume lines of a request the volume is that of line k, if nobody
\* else has set it since, however many connections set volumes at the same time
\* and whichever line does not parse (handler.rs:243-258).
THEOREM LastLineIsSet == Spec => []VolumeIsLastLine
<1>1. Init => VolumeIsLastLine
  BY DEF Init, VolumeIsLastLine
<1>2. HandlerInv /\ VolumeIsLastLine /\ [Next]_vars => VolumeIsLastLine'
  <2> SUFFICES ASSUME HandlerInv, VolumeIsLastLine, [Next]_vars,
                      NEW c \in Conns, current'[c] # <<>>,
                      current'[c][1].method = "SET_PARAMETER", effects'[c] > 0, setter' = <<c>>
               PROVE  volume' = current'[c][1].lines[effects'[c]]
    BY DEF VolumeIsLastLine
  <2>1. Types
    BY DEF HandlerInv
  <2>2. CASE UNCHANGED <<volume, setter>> /\ current'[c] = current[c] /\ effects'[c] = effects[c]
    BY <2>2 DEF VolumeIsLastLine
  <2>3. ASSUME NEW d \in Conns, Serve(d)
        PROVE  volume' = current'[c][1].lines[effects'[c]]
    <3>1. /\ current' = current /\ effects' = [effects EXCEPT ![d] = effects[d] + 1]
          /\ setter' = IF request[d][1].op = "SetParameter" THEN <<d>> ELSE setter
          /\ volume' = IF request[d][1].op = "SetParameter" THEN request[d][1].volume ELSE volume
      BY <2>3 DEF Serve, Player!Serve
    <3>2. CASE d = c
      <4> DEFINE r == current[c][1]
                 k == effects[c] + 1
      <4>1. effects'[c] = k
        BY <2>1, <3>1, <3>2 DEF Types
      <4>2. /\ current[c] # <<>> /\ k \in 1 .. Len(calls(c)) /\ request[c][1] = calls(c)[k]
        BY <2>3, <3>2, ServedCommand
      <4>3. r \in AllRequests /\ r.method = "SET_PARAMETER"
        BY <3>1, <4>2, CurrentRequest
      <4>4. calls(c)[k] = Set(r.lines[k])
        BY <4>2, <4>3, ExecuteArms DEF calls
      <4>5. request[c][1].op = "SetParameter" /\ request[c][1].volume = r.lines[k]
        BY <4>2, <4>4 DEF Set
      <4> QED BY <3>1, <3>2, <4>1, <4>5
    <3>3. CASE d # c
      <4>1. effects'[c] = effects[c]
        BY <2>1, <3>1, <3>3 DEF Types
      <4>2. request[d][1].op # "SetParameter"
        <5>1. <<d>> # <<c>>
          BY <3>3
        <5> QED BY <3>1, <5>1
      <4> QED BY <2>2, <3>1, <4>1, <4>2
    <3> QED BY <3>2, <3>3
  <2>4. ASSUME NEW d \in Conns, NEW r \in Requests[d], Read(d, r) \/ ReadRefused(d, r)
        PROVE  volume' = current'[c][1].lines[effects'[c]]
    <3>1. /\ UNCHANGED <<volume, setter>>
          /\ current' = [current EXCEPT ![d] = <<r>>] /\ effects' = [effects EXCEPT ![d] = 0]
      BY <2>4 DEF Read, ReadRefused, Player!Close, serviceVars
    <3>2. CASE d = c
      BY <2>1, <3>1, <3>2 DEF Types
    <3>3. CASE d # c
      BY <2>1, <2>2, <3>1, <3>3 DEF Types
    <3> QED BY <3>2, <3>3
  <2>5. ASSUME NEW d \in Conns,
               \/ ReadPanics(d) \/ Call(d) \/ Returned(d) \/ BrokenOff(d) \/ Respond(d)
               \/ NoResponse(d) \/ FailLate(d) \/ WriteFails(d) \/ Ends(d)
        PROVE  UNCHANGED <<volume, setter, current, effects>>
    BY <2>5 DEF ReadPanics, Call, Returned, BrokenOff, Respond, NoResponse, FailLate, WriteFails,
                Ends, Player!Close, Player!Invoke, Player!Return, Player!Fail, serviceVars, handlerVars
  <2>6. CASE Stop \/ UNCHANGED vars
    <3>1. UNCHANGED <<volume, setter, current, effects>>
      BY <2>6 DEF Stop, Player!Stop, vars, serviceVars, handlerVars
    <3> QED BY <2>2, <3>1
  <2> QED BY <2>2, <2>3, <2>4, <2>5, <2>6 DEF Next, Step
<1> QED BY <1>1, <1>2, HandlerInvariant, PTL DEF Spec
=============================================================================
