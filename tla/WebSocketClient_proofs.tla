------------------------ MODULE WebSocketClient_proofs ------------------------
(***************************************************************************)
(* Theorems about the market-data client, for any streams, any events and  *)
(* any size of the window of events already seen.                          *)
(*                                                                         *)
(* WindowInv gives every event its place in the deque, from which its age  *)
(* is known.  RestoredInv says, for each step of run, what is restored by  *)
(* then; what is missing later comes with a closed connection.  StopInv    *)
(* follows the run after it opened a connection that stop had closed.      *)
(***************************************************************************)
EXTENDS WebSocketClient, FiniteSetTheorems, TLAPS

-----------------------------------------------------------------------------
(* Types.                                                                  *)

RunStates ==
  [pc : RunLabels, event : Events \cup {NotAnEvent}, fresh : BOOLEAN, again : BOOLEAN,
   size : 0..Cardinality(Streams), left : 0..Cardinality(Streams), visited : SUBSET Streams]

LEMMA SubscriptionCount ==
  ASSUME NEW S \in SUBSET Streams
  PROVE  Cardinality(S) \in 0..Cardinality(Streams)
<1>1. IsFiniteSet(S) /\ Cardinality(S) <= Cardinality(Streams)
  BY StreamsAssumption, FS_Subset
<1>2. Cardinality(S) \in Nat /\ Cardinality(Streams) \in Nat
  BY <1>1, StreamsAssumption, FS_CardinalityType
<1> QED
  BY <1>1, <1>2

LEMMA SubscriptionPredecessor ==
  ASSUME NEW S \in SUBSET Streams, NEW s \in S
  PROVE  Cardinality(S) \in 0..Cardinality(Streams) /\ Cardinality(S) - 1 \in 0..Cardinality(Streams)
<1>1. Cardinality(S) \in 0..Cardinality(Streams) /\ Cardinality(Streams) \in Nat
  BY SubscriptionCount, StreamsAssumption, FS_CardinalityType
<1>2. IsFiniteSet(S)
  BY StreamsAssumption, FS_Subset
<1>3. Cardinality(S) # 0
  BY <1>2, FS_EmptySet
<1> QED
  BY <1>1, <1>3

\* A move of run alone.
LEMMA RunMoves ==
  ASSUME run \in RunStates, NEW label \in RunLabels
  PROVE  LET moved == [run EXCEPT !.pc = label]
             again == [run EXCEPT !.pc = "close", !.event = NotAnEvent, !.again = TRUE]
         IN  /\ moved \in RunStates /\ moved.pc = label /\ moved.again = run.again
             /\ moved.visited = run.visited /\ moved.event = run.event
             /\ again \in RunStates /\ again.pc = "close" /\ again.again
BY DEF RunStates, RunLabels

LEMMA TypesInit == StreamInit => StreamTypeOK
<1> SUFFICES ASSUME StreamInit
             PROVE  StreamTypeOK
  OBVIOUS
<1>1. 0 \in 0..Cardinality(Streams)
  BY StreamsAssumption, FS_CardinalityType
<1>2. run \in RunStates
  BY <1>1 DEF StreamInit, RunStates, RunLabels
<1>3. age \in [Events -> 0..MaxSeen]
  <2>1. MaxSeen \in 0..MaxSeen
    BY MaxSeenAssumption
  <2> QED
    BY <2>1 DEF StreamInit
<1>4. state \in States /\ conn \in {"none", "open", "closed"} /\ reopened \in Nat
  BY DEF StreamInit, States
<1>5. stopped \in BOOLEAN /\ stopping \in BOOLEAN /\ heartbeat \in BOOLEAN /\ gap \in BOOLEAN
  BY DEF StreamInit
<1>6. server = {} /\ subs = {} /\ overtaken = {} /\ seen = {} /\ begun = {} /\ order \in Seq(Events)
  BY DEF StreamInit
<1> QED
  BY <1>2, <1>3, <1>4, <1>5, <1>6 DEF StreamTypeOK, RunStates

\* The window after an event is remembered.
LEMMA RememberTypes ==
  ASSUME seen \subseteq Events, order \in Seq(Events), NEW e \in Events, Remember(e)
  PROVE  seen' \subseteq Events /\ order' \in Seq(Events)
<1>1. CASE Len(order) = MaxSeen
  <2>1. order # <<>>
    BY <1>1, MaxSeenAssumption
  <2>2. Tail(order) \in Seq(Events)
    BY <2>1
  <2> QED
    BY <1>1, <2>2 DEF Remember
<1>2. CASE Len(order) # MaxSeen
  BY <1>2 DEF Remember
<1> QED
  BY <1>1, <1>2

LEMMA ReceiveTypes ==
  ASSUME StreamTypeOK, NEW e \in Events, Receive(e)
  PROVE  StreamTypeOK'
<1>1. run \in RunStates /\ age \in [Events -> 0..MaxSeen]
  BY DEF StreamTypeOK, RunStates
<1>2. UNCHANGED <<state, conn, subscriptions, stopped, heartbeat, stopping, gap, overtaken, reopened>>
  BY DEF Receive
<1>3. run' \in RunStates
  <2>1. [run EXCEPT !.pc = "loop"] \in RunStates
        /\ [run EXCEPT !.pc = "handle", !.event = e] \in RunStates
    BY <1>1 DEF RunStates, RunLabels
  <2> QED
    BY <2>1 DEF Receive, RunGoto
<1>4. seen' \subseteq Events /\ order' \in Seq(Events)
  <2>1. Remember(e) \/ UNCHANGED dedup
    BY DEF Receive
  <2> QED
    BY <2>1, RememberTypes DEF StreamTypeOK, dedup
<1>5. age' \in [Events -> 0..MaxSeen]
  <2>1. age' = age \/ age' = [x \in Events |-> IF x = e THEN 0
                                ELSE IF age[x] = MaxSeen THEN MaxSeen ELSE age[x] + 1]
    BY DEF Receive
  <2>2. \A x \in Events : age[x] \in 0..MaxSeen /\ (age[x] # MaxSeen => age[x] + 1 \in 0..MaxSeen)
    BY <1>1, MaxSeenAssumption
  <2>3. 0 \in 0..MaxSeen /\ MaxSeen \in 0..MaxSeen
    BY MaxSeenAssumption
  <2> QED
    BY <1>1, <2>1, <2>2, <2>3
<1>6. begun' \subseteq Events
  BY DEF Receive, StreamTypeOK
<1> QED
  BY <1>2, <1>3, <1>4, <1>5, <1>6 DEF StreamTypeOK, RunStates, subscriptions

\* What the steps other than Receive leave alone.
OtherRunSteps ==
  \/ RunStart \/ Connect \/ Resubscribe \/ Recover \/ Loop \/ Handle
  \/ ReceiveInvalid \/ ReceiveTimeout \/ ReceiveClosed \/ Heartbeat \/ Close \/ Sleep

LEMMA RunTypes ==
  ASSUME StreamTypeOK, OtherRunSteps
  PROVE  run' \in RunStates
<1>1. run \in RunStates
  BY DEF StreamTypeOK, RunStates
<1>2. ASSUME NEW label \in RunLabels, RunGoto(label)
      PROVE  run' \in RunStates
  BY <1>1, <1>2, RunMoves DEF RunGoto
<1>3. ASSUME Reconnect
      PROVE  run' \in RunStates
  BY <1>1, <1>3, RunMoves DEF Reconnect, RunLabels
<1>4. {"off", "connecting", "resubscribe", "recover", "loop", "receive", "handle",
       "heartbeat", "close", "sleep", "ended", "failed"} = RunLabels
  BY DEF RunLabels
<1>5. CASE RunStart \/ Recover \/ Close \/ Sleep
  BY <1>2, <1>4, <1>5 DEF RunStart, Recover, Close, Sleep
<1>6. CASE Loop
  <2>1. \E label \in {"ended", "receive"} : RunGoto(label)
    BY <1>6 DEF Loop
  <2> QED
    BY <1>2, <1>4, <2>1
<1>7. CASE ReceiveInvalid \/ ReceiveClosed \/ Heartbeat
  BY <1>2, <1>3, <1>4, <1>7 DEF ReceiveInvalid, ReceiveClosed, Heartbeat
<1>8. CASE ReceiveTimeout
  <2>1. [run EXCEPT !.pc = "heartbeat", !.fresh = FALSE] \in RunStates
    BY <1>1, <1>4 DEF RunStates
  <2> QED
    BY <1>8, <2>1 DEF ReceiveTimeout
<1>9. CASE Handle
  <2>1. [run EXCEPT !.pc = "loop", !.event = NotAnEvent] \in RunStates
        /\ [run EXCEPT !.pc = "heartbeat", !.event = NotAnEvent, !.fresh = TRUE] \in RunStates
    BY <1>1, <1>4 DEF RunStates
  <2> QED
    BY <1>2, <1>3, <1>4, <1>9, <2>1 DEF Handle
<1>10. ASSUME Resubscribed
       PROVE  run' \in RunStates
  <2> DEFINE label == IF run.again THEN "recover" ELSE "loop"
  <2>1. 0 \in 0..Cardinality(Streams) /\ label \in RunLabels
    BY StreamsAssumption, FS_CardinalityType, <1>4
  <2>2. run' = [run EXCEPT !.pc = label, !.size = 0, !.left = 0, !.visited = {}]
    BY <1>10 DEF Resubscribed
  <2> HIDE DEF label
  <2> QED
    BY <1>1, <2>1, <2>2 DEF RunStates
<1>11. CASE Connect
  <2>1. ASSUME NEW s \in subs,
               run' = [run EXCEPT !.pc = "resubscribe", !.size = Cardinality(subs),
                                  !.left = Cardinality(subs) - 1, !.visited = {s}]
        PROVE  run' \in RunStates
    <3> DEFINE n == Cardinality(subs)
               m == n - 1
    <3>1. n \in 0..Cardinality(Streams) /\ m \in 0..Cardinality(Streams)
      BY SubscriptionPredecessor DEF StreamTypeOK
    <3>2. {s} \in SUBSET Streams
      BY DEF StreamTypeOK
    <3>3. run' = [run EXCEPT !.pc = "resubscribe", !.size = n, !.left = m, !.visited = {s}]
      BY <2>1
    <3> HIDE DEF n, m
    <3> QED
      BY <1>1, <1>4, <3>1, <3>2, <3>3 DEF RunStates
  <2> QED
    BY <1>2, <1>4, <1>10, <1>11, <2>1 DEF Connect, Opened
<1>12. CASE Resubscribe
  <2>1. ASSUME NEW s \in subs, Resend(s)
        PROVE  run' \in RunStates
    <3>1. s \in Streams /\ run.visited \cup {s} \in SUBSET Streams
      BY <1>1 DEF StreamTypeOK, RunStates
    <3> DEFINE left == run.left - 1
               visited == run.visited \cup {s}
    <3>2. run.left > 0 => left \in 0..Cardinality(Streams)
      BY <1>1, StreamsAssumption, FS_CardinalityType DEF RunStates
    <3>3. RunGoto("failed") \/ (run.left > 0 /\ run' = [run EXCEPT !.left = left, !.visited = visited])
      BY <2>1 DEF Resend
    <3> HIDE DEF left, visited
    <3>4. left \in 0..Cardinality(Streams) => [run EXCEPT !.left = left, !.visited = visited] \in RunStates
      BY <1>1, <3>1 DEF RunStates, visited
    <3> QED
      BY <1>2, <1>4, <3>2, <3>3, <3>4
  <2>2. RunGoto("failed") \/ Resubscribed \/ \E s \in subs : Resend(s)
    BY <1>12 DEF Resubscribe, Unvisited
  <2> QED
    BY <1>2, <1>4, <1>10, <2>1, <2>2
<1> QED
  BY <1>5, <1>6, <1>7, <1>8, <1>9, <1>11, <1>12 DEF OtherRunSteps

LEMMA OtherTypes ==
  ASSUME StreamTypeOK,
         OtherRunSteps \/ StopEnd \/ Stop \/ Drop \/ \E s \in Streams : Subscribe(s) \/ Unsubscribe(s)
  PROVE  StreamTypeOK'
<1>1. run' \in RunStates
  <2>1. run \in RunStates
    BY DEF StreamTypeOK, RunStates
  <2>2. \A s : [run EXCEPT !.visited = @ \ {s}] \in RunStates
    BY <2>1 DEF RunStates
  <2>3. \A S \in SUBSET Streams : [run EXCEPT !.visited = @ \cup S] \in RunStates
    BY <2>1 DEF RunStates
  <2>4. \A s \in Streams : (SUBSET Unvisited) \cup {Unvisited \cup {s}} \subseteq SUBSET Streams
    BY DEF Unvisited, StreamTypeOK
  <2> QED
    BY <2>1, <2>2, <2>3, <2>4, RunTypes DEF StopEnd, Stop, Drop, Subscribe, Unsubscribe, InsertUnderIteration
<1>2. /\ UNCHANGED <<seen, order, age, heartbeat>>
      /\ begun' \subseteq begun
  BY DEF OtherRunSteps, RunStart, Connect, Resubscribe, Recover, Loop, Handle, ReceiveInvalid,
         ReceiveTimeout, ReceiveClosed, Heartbeat, Close, Sleep, StopEnd, Stop, Drop, Subscribe,
         Unsubscribe, dedup, streamGhosts
<1>3. state' \in States
  BY DEF OtherRunSteps, RunStart, Connect, Opened, Resubscribe, Recover, Loop, Handle, Reconnect,
         ReceiveInvalid, ReceiveTimeout, ReceiveClosed, Heartbeat, Close, Sleep, StopEnd, Stop, Drop,
         Subscribe, Unsubscribe, StreamTypeOK, States
<1>4. /\ conn' \in {"none", "open", "closed"}
      /\ stopped' \in BOOLEAN /\ stopping' \in BOOLEAN /\ gap' \in BOOLEAN
  BY DEF OtherRunSteps, RunStart, Connect, Opened, Resubscribe, Recover, Loop, Handle, Reconnect,
         ReceiveInvalid, ReceiveTimeout, ReceiveClosed, Heartbeat, Close, Sleep, StopEnd, Stop, Drop,
         Disconnected, Subscribe, Unsubscribe, StreamTypeOK, streamGhosts
<1>5. server' \subseteq Streams /\ subs' \subseteq Streams
  <2>1. subs' \subseteq Streams
    BY DEF OtherRunSteps, RunStart, Connect, Opened, Resubscribe, Recover, Loop, Handle,
           ReceiveInvalid, ReceiveTimeout, ReceiveClosed, Heartbeat, Close, Sleep, StopEnd, Stop,
           Drop, Subscribe, Unsubscribe, StreamTypeOK, subscriptions
  <2>2. CASE Resubscribe
    <3>1. \/ server' = server
          \/ \E s \in subs : server' = server \cup {s}
      BY <2>2, Zenon DEF Resubscribe, Resend, Unvisited
    <3> QED
      BY <2>1, <3>1 DEF StreamTypeOK
  <2>3. CASE ~Resubscribe
    BY <2>3 DEF OtherRunSteps, RunStart, Connect, Opened, Recover, Loop, Handle, ReceiveInvalid,
           ReceiveTimeout, ReceiveClosed, Heartbeat, Close, Sleep, StopEnd, Stop, Drop, Disconnected,
           Subscribe, Unsubscribe, StreamTypeOK, subscriptions
  <2> QED
    BY <2>1, <2>2, <2>3
<1>6. reopened' \in Nat
  <2>1. reopened' \in {reopened, reopened + 1, 0}
    <3>1. CASE Connect
      BY <3>1, Zenon DEF Connect, Opened
    <3>2. CASE ~Connect
      BY <3>2, Zenon DEF OtherRunSteps, RunStart, Resubscribe, Recover, Loop, Handle, ReceiveInvalid,
         ReceiveTimeout, ReceiveClosed, Heartbeat, Close, Sleep, StopEnd, Stop, Drop, Subscribe,
         Unsubscribe, streamGhosts
    <3> QED
      BY <3>1, <3>2
  <2> QED
    BY <2>1 DEF StreamTypeOK
<1>7. overtaken' \subseteq Streams
  BY DEF OtherRunSteps, RunStart, Connect, Opened, Resubscribe, Recover, Loop, Handle,
         ReceiveInvalid, ReceiveTimeout, ReceiveClosed, Heartbeat, Close, Sleep, StopEnd, Stop, Drop,
         Subscribe, Unsubscribe, Unvisited, StreamTypeOK, streamGhosts
<1> QED
  BY <1>1, <1>2, <1>3, <1>4, <1>5, <1>6, <1>7 DEF StreamTypeOK, RunStates

\* The ways a behaviour goes on.
LEMMA Steps ==
  StreamNext => \/ OtherRunSteps \/ StopEnd \/ Stop \/ Drop
                \/ \E s \in Streams : Subscribe(s) \/ Unsubscribe(s)
                \/ \E e \in Events : Receive(e)
BY DEF StreamNext, RunStep, OtherRunSteps

LEMMA TypesStep == StreamTypeOK /\ [StreamNext]_streamVars => StreamTypeOK'
<1> SUFFICES ASSUME StreamTypeOK, [StreamNext]_streamVars
             PROVE  StreamTypeOK'
  OBVIOUS
<1>1. CASE StreamNext
  BY <1>1, Steps, OtherTypes, ReceiveTypes
<1>2. CASE UNCHANGED streamVars
  BY <1>2 DEF streamVars, subscriptions, dedup, streamGhosts, StreamTypeOK
<1> QED
  BY <1>1, <1>2

\* The client's state keeps its types (BingXWebSocketClient).
THEOREM ClientTypes == StreamSpec => []StreamTypeOK
  BY TypesInit, TypesStep, PTL DEF StreamSpec

-----------------------------------------------------------------------------
(* The window of events already seen.                                      *)

\* The deque holds the events seen, each once, in the order they were remembered.
WindowInv ==
  /\ Len(order) <= MaxSeen
  /\ \A i \in 1..Len(order) : order[i] \in seen /\ age[order[i]] = Len(order) - i
  /\ \A e \in seen : \E i \in 1..Len(order) : order[i] = e
  /\ \A e \in Events \ seen : age[e] = MaxSeen

\* The age of each event when e is remembered.
LEMMA Ages ==
  ASSUME StreamTypeOK, NEW e \in Events,
         age' = [x \in Events |-> IF x = e THEN 0 ELSE IF age[x] = MaxSeen THEN MaxSeen ELSE age[x] + 1]
  PROVE  /\ age'[e] = 0
         /\ \A x \in Events : x # e => age'[x] = IF age[x] = MaxSeen THEN MaxSeen ELSE age[x] + 1
OBVIOUS

LEMMA RememberKeepsWindow ==
  ASSUME StreamTypeOK, WindowInv, NEW e \in Events, e \notin seen, Remember(e),
         age' = [x \in Events |-> IF x = e THEN 0 ELSE IF age[x] = MaxSeen THEN MaxSeen ELSE age[x] + 1]
  PROVE  WindowInv'
<1> DEFINE n == Len(order)
<1>1. order \in Seq(Events) /\ n \in Nat /\ MaxSeen \in Nat \ {0} /\ n <= MaxSeen
  BY MaxSeenAssumption DEF StreamTypeOK, WindowInv
<1>2. \A i \in 1..n : order[i] \in Events /\ order[i] # e
  BY <1>1 DEF WindowInv
<1>3. /\ age'[e] = 0
      /\ \A x \in Events : x # e => age'[x] = IF age[x] = MaxSeen THEN MaxSeen ELSE age[x] + 1
  BY Ages
<1>4. CASE n # MaxSeen
  <2>1. order' = Append(order, e) /\ seen' = seen \cup {e}
    BY <1>4 DEF Remember
  <2>2. /\ Len(order') = n + 1 /\ order'[n + 1] = e
        /\ \A i \in 1..n : order'[i] = order[i]
    BY <1>1, <2>1
  <2>3. \A i \in 1..n : age'[order[i]] = (n + 1) - i
    BY <1>1, <1>2, <1>3, <1>4 DEF WindowInv
  <2>4. \A i \in 1..(n + 1) : i \in 1..n \/ i = n + 1
    BY <1>1
  <2>5. \A i \in 1..(n + 1) : order'[i] \in seen' /\ age'[order'[i]] = (n + 1) - i
    <3>1. \A i \in 1..n : order'[i] \in seen' /\ age'[order'[i]] = (n + 1) - i
      BY <2>1, <2>2, <2>3 DEF WindowInv
    <3>2. order'[n + 1] \in seen' /\ age'[order'[n + 1]] = (n + 1) - (n + 1)
      BY <1>1, <1>3, <2>1, <2>2
    <3> QED
      BY <2>4, <3>1, <3>2
  <2>6. \A x \in seen' : \E i \in 1..(n + 1) : order'[i] = x
    <3>1. n + 1 \in 1..(n + 1) /\ 1..n \subseteq 1..(n + 1)
      BY <1>1
    <3> QED
      BY <2>1, <2>2, <3>1 DEF WindowInv
  <2>7. \A x \in Events \ seen' : age'[x] = MaxSeen
    BY <1>3, <2>1 DEF WindowInv
  <2> QED
    BY <1>1, <1>4, <2>2, <2>5, <2>6, <2>7 DEF WindowInv
<1>5. CASE n = MaxSeen
  <2>1. order' = Append(Tail(order), e) /\ seen' = (seen \ {Head(order)}) \cup {e}
    BY <1>5 DEF Remember
  <2>2. order # <<>> /\ Head(order) = order[1] /\ 1 \in 1..n
    BY <1>1, <1>5
  <2>3. Tail(order) \in Seq(Events) /\ Len(Tail(order)) = n - 1
        /\ \A i \in 1..(n - 1) : Tail(order)[i] = order[i + 1]
    BY <1>1, <2>2
  <2>4. /\ Len(order') = n /\ order'[n] = e
        /\ \A i \in 1..(n - 1) : order'[i] = order[i + 1]
    BY <1>1, <2>1, <2>3
  <2>5. \A i, j \in 1..n : order[i] = order[j] => i = j
    BY <1>1 DEF WindowInv
  <2>6. \A i \in 1..(n - 1) : i + 1 \in 1..n /\ i + 1 # 1
    BY <1>1
  <2>7. \A i \in 1..(n - 1) : order'[i] \in seen' /\ age'[order'[i]] = n - i
    <3> SUFFICES ASSUME NEW i \in 1..(n - 1)
                 PROVE  order'[i] \in seen' /\ age'[order'[i]] = n - i
      OBVIOUS
    <3>1. order'[i] = order[i + 1] /\ i + 1 \in 1..n /\ order[i + 1] # Head(order)
      BY <2>2, <2>4, <2>5, <2>6
    <3>2. order[i + 1] \in seen /\ age[order[i + 1]] = n - (i + 1)
      BY <3>1 DEF WindowInv
    <3>3. age[order[i + 1]] # MaxSeen
      BY <1>1, <1>5, <3>2
    <3> QED
      BY <1>1, <1>2, <1>3, <2>1, <3>1, <3>2, <3>3
  <2>8. \A i \in 1..n : i \in 1..(n - 1) \/ i = n
    BY <1>1
  <2>9. \A i \in 1..n : order'[i] \in seen' /\ age'[order'[i]] = n - i
    <3>1. order'[n] \in seen' /\ age'[order'[n]] = n - n
      BY <1>1, <1>3, <2>1, <2>4
    <3> QED
      BY <2>7, <2>8, <3>1
  <2>10. \A x \in seen' : \E i \in 1..n : order'[i] = x
    <3> SUFFICES ASSUME NEW x \in seen', x # e
                 PROVE  \E i \in 1..n : order'[i] = x
      BY <1>1, <1>5, <2>4
    <3>1. x \in seen /\ x # order[1]
      BY <2>1, <2>2
    <3>2. PICK i \in 1..n : order[i] = x
      BY <3>1 DEF WindowInv
    <3>3. i - 1 \in 1..(n - 1) /\ i - 1 \in 1..n /\ (i - 1) + 1 = i
      BY <1>1, <3>1, <3>2
    <3> QED
      BY <2>4, <3>2, <3>3
  <2>11. \A x \in Events \ seen' : age'[x] = MaxSeen
    <3> SUFFICES ASSUME NEW x \in Events \ seen'
                 PROVE  age'[x] = MaxSeen
      OBVIOUS
    <3>1. x # e /\ (x \notin seen \/ x = order[1])
      BY <2>1, <2>2
    <3>2. age[x] = MaxSeen \/ age[x] = n - 1
      BY <2>2, <3>1 DEF WindowInv
    <3> QED
      BY <1>1, <1>3, <1>5, <3>1, <3>2
  <2> QED
    BY <1>1, <2>4, <2>9, <2>10, <2>11 DEF WindowInv
<1> QED
  BY <1>4, <1>5

LEMMA WindowInit == StreamInit => WindowInv
BY MaxSeenAssumption DEF StreamInit, WindowInv

LEMMA WindowStep == StreamTypeOK /\ WindowInv /\ [StreamNext]_streamVars => WindowInv'
<1> SUFFICES ASSUME StreamTypeOK, WindowInv, [StreamNext]_streamVars
             PROVE  WindowInv'
  OBVIOUS
<1>1. ASSUME UNCHANGED <<seen, order, age>>
      PROVE  WindowInv'
  BY <1>1 DEF WindowInv
<1>2. ASSUME NEW e \in Events, Receive(e)
      PROVE  WindowInv'
  <2>1. \/ UNCHANGED <<seen, order, age>>
        \/ /\ e \notin seen /\ Remember(e)
           /\ age' = [x \in Events |-> IF x = e THEN 0 ELSE IF age[x] = MaxSeen THEN MaxSeen ELSE age[x] + 1]
    BY <1>2 DEF Receive, dedup
  <2> QED
    BY <1>1, <2>1, RememberKeepsWindow
<1>3. ASSUME OtherRunSteps \/ StopEnd \/ Stop \/ Drop
             \/ \E s \in Streams : Subscribe(s) \/ Unsubscribe(s)
      PROVE  UNCHANGED <<seen, order, age>>
  BY <1>3 DEF OtherRunSteps, RunStart, Connect, Resubscribe, Recover, Loop, Handle, ReceiveInvalid,
         ReceiveTimeout, ReceiveClosed, Heartbeat, Close, Sleep, StopEnd, Stop, Drop, Subscribe,
         Unsubscribe, dedup, streamGhosts
<1>4. CASE UNCHANGED streamVars
  BY <1>1, <1>4 DEF streamVars, dedup, streamGhosts
<1> QED
  BY <1>1, <1>2, <1>3, <1>4, Steps

\* An event is refused as a duplicate exactly while fewer than MaxSeen others have been
\* remembered since: the set and the deque evict together (_is_duplicate).
THEOREM WindowIsExact == StreamSpec => []DuplicatesAreRecent
<1>1. StreamTypeOK /\ WindowInv => DuplicatesAreRecent
  <2> SUFFICES ASSUME StreamTypeOK, WindowInv, NEW e \in Events
               PROVE  e \in seen <=> age[e] < MaxSeen
    BY DEF DuplicatesAreRecent
  <2>1. Len(order) \in Nat /\ MaxSeen \in Nat \ {0}
    BY MaxSeenAssumption DEF StreamTypeOK
  <2>2. ASSUME e \in seen
        PROVE  age[e] < MaxSeen
    <3>1. PICK i \in 1..Len(order) : order[i] = e
      BY <2>2 DEF WindowInv
    <3> QED
      BY <2>1, <3>1 DEF WindowInv
  <2>3. ASSUME e \notin seen
        PROVE  ~(age[e] < MaxSeen)
    BY <2>1, <2>3 DEF WindowInv
  <2> QED
    BY <2>2, <2>3
<1> QED
  BY TypesInit, TypesStep, WindowInit, WindowStep, <1>1, PTL DEF StreamSpec

-----------------------------------------------------------------------------
(* What is restored when run listens again.                                *)

Serving == {"loop", "receive", "handle", "heartbeat"}

\* On the way to a connection, and on a connection that works.
Restored(r) ==
  /\ r.pc \in {"off", "connecting"} => conn # "open" /\ (~r.again => conn = "none" /\ ~gap)
  /\ r.pc = "sleep" => conn # "open"
  /\ r.pc \in {"close", "sleep"} => r.again
  /\ r.pc = "resubscribe" /\ conn = "open" => r.visited \cap subs \subseteq server \cup overtaken
  /\ r.pc \in Serving \cup {"recover"} /\ conn = "open" => subs \subseteq server \cup overtaken
  /\ r.pc \in Serving /\ conn = "open" => ~gap
  /\ r.pc \in Serving => begun \subseteq {r.event}
  /\ r.pc \in Serving \ {"handle"} => begun = {}
  /\ r.pc \in {"off", "connecting", "resubscribe"} /\ ~r.again =>
       begun = {} /\ (conn = "open" => ~gap)

RestoredInv == Restored(run)

LEMMA RestoredInit == StreamInit => RestoredInv
BY DEF StreamInit, RestoredInv, Restored, Serving

\* A step of the others leaves what is restored, or the connection is closed.
LEMMA OthersRestored ==
  ASSUME StreamTypeOK, RestoredInv,
         StopEnd \/ Stop \/ Drop \/ \E s \in Streams : Subscribe(s) \/ Unsubscribe(s)
  PROVE  RestoredInv'
<1>1. CASE StopEnd
  BY <1>1 DEF StopEnd, RestoredInv, Restored, subscriptions, streamGhosts
<1>2. CASE Stop \/ Drop
  BY <1>2 DEF Stop, Drop, Disconnected, RestoredInv, Restored, Serving
<1>3. ASSUME NEW s \in Streams, Subscribe(s)
      PROVE  RestoredInv'
  <2>1. /\ subs' = subs \cup {s} /\ UNCHANGED <<conn, gap, begun>>
        /\ server' = IF conn = "open" THEN server \cup {s} ELSE server
    BY <1>3 DEF Subscribe
  <2>2. CASE RunAt("resubscribe") /\ s \notin subs
    <3>1. InsertUnderIteration(s) /\ overtaken' = overtaken \cup Unvisited
      BY <1>3, <2>2 DEF Subscribe
    <3>2. PICK passed \in (SUBSET Unvisited) \cup {Unvisited \cup {s}} :
            run' = [run EXCEPT !.visited = @ \cup passed]
      BY <3>1 DEF InsertUnderIteration
    <3>3. /\ run'.pc = "resubscribe" /\ run.pc = "resubscribe" /\ run'.again = run.again
          /\ run'.visited = run.visited \cup passed
      BY <2>2, <3>2 DEF RunAt, StreamTypeOK
    <3>4. passed \subseteq Unvisited \cup {s}
      BY <3>2
    <3> QED
      BY <2>1, <3>1, <3>3, <3>4 DEF RestoredInv, Restored, Serving
  <2>3. CASE ~(RunAt("resubscribe") /\ s \notin subs)
    <3>1. run' = run /\ overtaken' = overtaken \ {s}
      BY <1>3, <2>3 DEF Subscribe
    <3> QED
      BY <2>1, <3>1 DEF RestoredInv, Restored, Serving
  <2> QED
    BY <2>2, <2>3
<1>4. ASSUME NEW s \in Streams, Unsubscribe(s)
      PROVE  RestoredInv'
  <2>1. /\ run'.pc = run.pc /\ run'.again = run.again /\ run'.event = run.event
        /\ run'.visited = run.visited \ {s}
    BY <1>4 DEF Unsubscribe, StreamTypeOK
  <2>2. /\ subs' = subs \ {s} /\ (server' = server \/ server' = server \ {s})
        /\ overtaken' = overtaken \ {s} /\ UNCHANGED <<conn, gap, begun>>
    BY <1>4 DEF Unsubscribe
  <2> QED
    BY <2>1, <2>2 DEF RestoredInv, Restored, Serving
<1> QED
  BY <1>1, <1>2, <1>3, <1>4

LEMMA ReceiveRestored ==
  ASSUME StreamTypeOK, RestoredInv, NEW e \in Events, Receive(e)
  PROVE  RestoredInv'
<1>1. run.pc = "receive" /\ conn = "open" /\ UNCHANGED <<conn, server, subs, gap, overtaken>>
  BY DEF Receive, RunAt, subscriptions
<1>2. \/ run'.pc = "loop" /\ begun' = begun
      \/ run'.pc = "loop" /\ run'.event = run.event /\ begun' = begun
      \/ run'.pc = "handle" /\ run'.event = e /\ begun' = begun \cup {e}
  BY DEF Receive, RunGoto, StreamTypeOK
<1>3. begun = {} /\ subs \subseteq server \cup overtaken /\ ~gap
  BY <1>1 DEF RestoredInv, Restored, Serving
<1> QED
  BY <1>1, <1>2, <1>3 DEF RestoredInv, Restored, Serving

LEMMA RunRestored ==
  ASSUME StreamTypeOK, RestoredInv, OtherRunSteps
  PROVE  RestoredInv'
<1>1. run \in RunStates
  BY DEF StreamTypeOK, RunStates
<1>2. ASSUME NEW label \in RunLabels, RunGoto(label)
      PROVE  /\ run'.pc = label /\ run'.again = run.again /\ run'.visited = run.visited
             /\ run'.event = run.event
  BY <1>1, <1>2, RunMoves DEF RunGoto
<1>3. ASSUME Reconnect
      PROVE  run'.pc = "close" /\ run'.again
  BY <1>1, <1>3, RunMoves DEF Reconnect
<1>4. {"off", "connecting", "resubscribe", "recover", "loop", "receive", "handle",
       "heartbeat", "close", "sleep", "ended", "failed"} = RunLabels
  BY DEF RunLabels
<1>5. ASSUME run'.pc \in {"ended", "failed"} \/ (run'.pc = "close" /\ run'.again)
      PROVE  RestoredInv'
  BY <1>5 DEF RestoredInv, Restored, Serving
<1>6. CASE RunStart \/ Recover \/ Loop
  <2>1. UNCHANGED <<conn, server, subs, overtaken>> /\ \E label \in RunLabels : RunGoto(label)
    BY <1>4, <1>6 DEF RunStart, Recover, Loop, subscriptions, streamGhosts
  <2>2. CASE RunStart
    BY <1>2, <1>4, <2>1, <2>2 DEF RunStart, RunAt, RestoredInv, Restored, Serving, streamGhosts
  <2>3. CASE Recover
    BY <1>2, <1>4, <2>1, <2>3 DEF Recover, RunAt, RestoredInv, Restored, Serving
  <2>4. CASE Loop
    BY <1>2, <1>4, <2>1, <2>4 DEF Loop, RunAt, RestoredInv, Restored, Serving, streamGhosts
  <2> QED
    BY <1>6, <2>2, <2>3, <2>4
<1>r. ASSUME Resubscribed
      PROVE  /\ run'.pc = (IF run.again THEN "recover" ELSE "loop")
             /\ run'.again = run.again /\ run'.event = run.event
  BY <1>1, <1>r DEF Resubscribed, RunStates
<1>7. CASE Connect
  <2>1. CASE Opened
    <3>1. UNCHANGED <<subs, gap, begun>> /\ run.pc = "connecting"
      BY <1>7, <2>1 DEF Connect, Opened, RunAt
    <3>2. CASE subs = {} /\ Resubscribed
      BY <1>1, <1>r, <3>1, <3>2 DEF RestoredInv, Restored, Serving
    <3>3. ASSUME NEW s \in subs, server' = {s},
                 run' = [run EXCEPT !.pc = "resubscribe", !.size = Cardinality(subs),
                                    !.left = Cardinality(subs) - 1, !.visited = {s}]
          PROVE  RestoredInv'
      <4>1. run'.pc = "resubscribe" /\ run'.visited = {s} /\ run'.again = run.again
        BY <1>1, <3>3 DEF RunStates
      <4> QED
        BY <3>1, <3>3, <4>1 DEF RestoredInv, Restored, Serving
    <3> QED
      BY <2>1, <3>2, <3>3 DEF Opened
  <2>2. CASE RunGoto("failed")
    BY <1>2, <1>4, <1>5, <2>2
  <2> QED
    BY <1>7, <2>1, <2>2 DEF Connect
<1>8. CASE Resubscribe
  <2>1. run.pc = "resubscribe" /\ UNCHANGED <<conn, subs, gap, overtaken, begun>>
    BY <1>8 DEF Resubscribe, RunAt, streamGhosts
  <2>2. CASE RunGoto("failed")
    BY <1>2, <1>4, <1>5, <2>2
  <2>3. CASE Unvisited = {} /\ Resubscribed /\ UNCHANGED server
    <3>1. subs \subseteq run.visited
      BY <2>3 DEF Unvisited
    <3> QED
      BY <1>1, <1>r, <2>1, <2>3, <3>1 DEF RestoredInv, Restored, Serving
  <2>4. ASSUME NEW s \in subs, server' = server \cup {s},
               run' = [run EXCEPT !.left = @ - 1, !.visited = @ \cup {s}]
        PROVE  RestoredInv'
    <3>1. run'.pc = run.pc /\ run'.again = run.again /\ run'.visited = run.visited \cup {s}
      BY <1>1, <2>4 DEF RunStates
    <3> QED
      BY <2>1, <2>4, <3>1 DEF RestoredInv, Restored, Serving
  <2>5. \A s \in Unvisited : s \in subs
    BY DEF Unvisited
  <2> QED
    BY <1>8, <2>2, <2>3, <2>4, <2>5 DEF Resubscribe, Resend
<1>9. CASE Handle
  <2>1. run.pc = "handle" /\ UNCHANGED <<conn, server, subs, gap, overtaken>>
    BY <1>9 DEF Handle, RunAt, subscriptions
  <2>2. CASE Reconnect \/ RunGoto("failed")
    BY <1>2, <1>3, <1>4, <1>5, <2>2
  <2>3. CASE begun' = begun \ {run.event} /\ run'.pc \in {"loop", "heartbeat"}
    BY <2>1, <2>3 DEF RestoredInv, Restored, Serving
  <2>4. \/ Reconnect \/ RunGoto("failed")
        \/ begun' = begun \ {run.event} /\ run'.pc \in {"loop", "heartbeat"}
    BY <1>1, <1>9 DEF Handle, RunStates
  <2> QED
    BY <2>2, <2>3, <2>4
<1>10. CASE ReceiveInvalid \/ ReceiveClosed
  <2>1. Reconnect \/ RunGoto("failed")
    BY <1>10 DEF ReceiveInvalid, ReceiveClosed
  <2> QED
    BY <1>2, <1>3, <1>4, <1>5, <2>1
<1>11. CASE ReceiveTimeout
  <2>1. run.pc = "receive" /\ run'.pc = "heartbeat" /\ UNCHANGED <<conn, server, subs, gap, overtaken, begun>>
    BY <1>1, <1>11 DEF ReceiveTimeout, RunAt, RunStates, subscriptions, streamGhosts
  <2> QED
    BY <2>1 DEF RestoredInv, Restored, Serving
<1>12. CASE Heartbeat
  <2>1. run.pc = "heartbeat" /\ UNCHANGED <<conn, server, subs, gap, overtaken, begun>>
    BY <1>12 DEF Heartbeat, RunAt, subscriptions, streamGhosts
  <2>2. CASE RunGoto("loop")
    BY <1>2, <1>4, <2>1, <2>2 DEF RestoredInv, Restored, Serving
  <2>3. RunGoto("loop") \/ RunGoto("failed") \/ Reconnect
    BY <1>12 DEF Heartbeat
  <2> QED
    BY <1>2, <1>3, <1>4, <1>5, <2>2, <2>3
<1>13. CASE Close \/ Sleep
  <2>1. CASE Close
    <3>1. run.pc = "close" /\ run'.pc = "sleep" /\ run'.again = run.again /\ conn' = "closed"
      BY <1>2, <1>4, <2>1 DEF Close, RunAt, Disconnected
    <3> QED
      BY <3>1 DEF RestoredInv, Restored, Serving
  <2>2. CASE Sleep
    <3>1. run.pc = "sleep" /\ run'.pc = "connecting" /\ run'.again = run.again /\ conn' = conn
      BY <1>2, <1>4, <2>2 DEF Sleep, RunAt
    <3> QED
      BY <3>1 DEF RestoredInv, Restored, Serving
  <2> QED
    BY <1>13, <2>1, <2>2
<1> QED
  BY <1>6, <1>7, <1>8, <1>9, <1>10, <1>11, <1>12, <1>13 DEF OtherRunSteps

LEMMA RestoredStep == StreamTypeOK /\ RestoredInv /\ [StreamNext]_streamVars => RestoredInv'
<1> SUFFICES ASSUME StreamTypeOK, RestoredInv, [StreamNext]_streamVars
             PROVE  RestoredInv'
  OBVIOUS
<1>1. CASE UNCHANGED streamVars
  BY <1>1 DEF streamVars, subscriptions, streamGhosts, RestoredInv, Restored
<1> QED
  BY <1>1, Steps, OthersRestored, ReceiveRestored, RunRestored

\* Whenever run waits on a working connection, every subscription was sent, but for those that
\* were still to be sent when another one was made, for any number of streams (_resubscribe).
THEOREM StreamsAreResent == StreamSpec => []StreamsResent
<1>1. RestoredInv => StreamsResent
  BY DEF RestoredInv, Restored, Serving, StreamsResent, RunAt
<1> QED
  BY TypesInit, TypesStep, RestoredInit, RestoredStep, <1>1, PTL DEF StreamSpec

\* Then a REST recovery has made up for every gap and for every handler that raised an error,
\* for any number of events (reconnect, receive_once).
THEOREM LossesAreRecovered == StreamSpec => []LossesRecovered
<1>1. RestoredInv => LossesRecovered
  BY DEF RestoredInv, Restored, Serving, LossesRecovered, RunAt
<1> QED
  BY TypesInit, TypesStep, RestoredInit, RestoredStep, <1>1, PTL DEF StreamSpec

-----------------------------------------------------------------------------
(* stop.                                                                   *)

StopInv ==
  /\ reopened <= 1
  /\ ~stopped => reopened = 0
  /\ reopened = 1 => run.pc \in {"resubscribe", "recover", "loop", "ended", "failed"}

LEMMA StopStep == StreamTypeOK /\ StopInv /\ [StreamNext]_streamVars => StopInv'
<1> SUFFICES ASSUME StreamTypeOK, StopInv, [StreamNext]_streamVars
             PROVE  StopInv'
  OBVIOUS
<1>1. run \in RunStates
  BY DEF StreamTypeOK, RunStates
<1>2. ASSUME NEW label \in RunLabels, RunGoto(label)
      PROVE  run'.pc = label
  BY <1>1, <1>2, RunMoves DEF RunGoto
<1>3. {"off", "connecting", "resubscribe", "recover", "loop", "receive", "handle",
       "heartbeat", "close", "sleep", "ended", "failed"} = RunLabels
  BY DEF RunLabels
<1>4. ASSUME UNCHANGED <<reopened, stopped>>,
             \/ run.pc \notin {"resubscribe", "recover", "loop", "ended", "failed"}
             \/ run'.pc \in {"resubscribe", "recover", "loop", "ended", "failed"}
      PROVE  StopInv'
  BY <1>4 DEF StopInv
<1>5. CASE Connect
  <2>1. run.pc = "connecting" /\ reopened \in Nat
    BY <1>5 DEF Connect, RunAt, StreamTypeOK
  <2>2. CASE Opened
    <3>1. run'.pc \in {"resubscribe", "recover", "loop"}
      BY <1>1, <2>2 DEF Opened, Resubscribed, RunStates
    <3>2. reopened' = (IF stopped THEN reopened + 1 ELSE 0) /\ stopped' = stopped
      BY <1>5, <2>2 DEF Opened, Connect
    <3>3. reopened = 0
      BY <2>1 DEF StopInv
    <3> QED
      BY <3>1, <3>2, <3>3 DEF StopInv
  <2>3. CASE ~Opened
    <3>1. UNCHANGED <<reopened, stopped>>
      BY <1>5, <2>3 DEF Connect
    <3> QED
      BY <1>4, <2>1, <3>1
  <2> QED
    BY <2>2, <2>3
<1>6. CASE Resubscribe
  <2>1. UNCHANGED <<reopened, stopped>> /\ run.pc = "resubscribe"
    BY <1>6 DEF Resubscribe, RunAt, streamGhosts
  <2>2. \/ \E label \in {"failed", "recover", "loop"} : run'.pc = label
        \/ \E s : run' = [run EXCEPT !.left = @ - 1, !.visited = @ \cup {s}]
    BY <1>1, <1>2, <1>3, <1>6 DEF Resubscribe, Resubscribed, Resend, RunStates
  <2>3. \A s : [run EXCEPT !.left = @ - 1, !.visited = @ \cup {s}].pc = run.pc
    BY <1>1 DEF RunStates
  <2> QED
    BY <1>2, <1>3, <1>4, <2>1, <2>2, <2>3
<1>7. CASE Recover
  BY <1>2, <1>3, <1>4, <1>7 DEF Recover
<1>8. CASE Loop
  <2>1. RunGoto(IF stopped THEN "ended" ELSE "receive") /\ UNCHANGED <<reopened, stopped>>
    BY <1>8 DEF Loop, streamGhosts
  <2>2. CASE stopped
    BY <1>2, <1>3, <1>4, <2>1, <2>2
  <2>3. CASE ~stopped
    BY <2>1, <2>3 DEF StopInv
  <2> QED
    BY <2>2, <2>3
<1>9. CASE \/ RunStart \/ Handle \/ ReceiveInvalid \/ ReceiveTimeout \/ ReceiveClosed
           \/ Heartbeat \/ Close \/ Sleep \/ \E e \in Events : Receive(e)
  <2>1. UNCHANGED <<reopened, stopped>>
    BY <1>9 DEF RunStart, Handle, ReceiveInvalid, ReceiveTimeout, ReceiveClosed, Heartbeat, Close,
           Sleep, Receive, streamGhosts
  <2>2. run.pc \in {"off", "handle", "receive", "heartbeat", "close", "sleep"}
    BY <1>9 DEF RunStart, Handle, ReceiveInvalid, ReceiveTimeout, ReceiveClosed, Heartbeat, Close,
           Sleep, Receive, RunAt
  <2> QED
    BY <1>4, <2>1, <2>2
<1>10. CASE StopEnd \/ Drop \/ \E s \in Streams : Subscribe(s) \/ Unsubscribe(s)
  <2>1. UNCHANGED <<reopened, stopped>> /\ run'.pc = run.pc
    BY <1>1, <1>10 DEF StopEnd, Drop, Subscribe, InsertUnderIteration, Unsubscribe, RunStates, streamGhosts
  <2> QED
    BY <2>1 DEF StopInv
<1>11. CASE Stop
  BY <1>11 DEF Stop, StopInv
<1>12. CASE UNCHANGED streamVars
  BY <1>12 DEF streamVars, streamGhosts, StopInv
<1> QED
  BY <1>5, <1>6, <1>7, <1>8, <1>9, <1>10, <1>11, <1>12, Steps DEF OtherRunSteps

\* After stop the connection is opened at most once more (stop, run).
THEOREM StopIsNearlyFinal == StreamSpec => []StopReopensOnce
<1>1. StreamInit => StopInv
  BY DEF StreamInit, StopInv
<1>2. StopInv => StopReopensOnce
  BY DEF StopInv, StopReopensOnce
<1> QED
  BY TypesInit, TypesStep, StopStep, <1>1, <1>2, PTL DEF StreamSpec

-----------------------------------------------------------------------------
(* How long run goes on after stop.                                        *)

Subscribable == Cardinality(Streams)

\* The steps of run from label to its next look at _stop, without the rest of a resubscription.
Ahead(label) ==
  CASE label \in {"ended", "failed"} -> 0      [] label = "loop" -> 1
    [] label = "recover" -> 2                  [] label = "resubscribe" -> 3
    [] label = "connecting" -> Subscribable + 4 [] label = "sleep" -> Subscribable + 5
    [] label = "close" -> Subscribable + 6     [] label = "heartbeat" -> Subscribable + 7
    [] label = "handle" -> Subscribable + 8    [] label = "receive" -> Subscribable + 9
    [] label = "off" -> Subscribable + 10

RunStepsLeft == Ahead(run.pc) + (IF RunAt("resubscribe") THEN run.left ELSE 0)
LongestEnd == Subscribable + 10

LEMMA AheadIs ==
  /\ Subscribable \in Nat
  /\ Ahead("ended") = 0 /\ Ahead("failed") = 0 /\ Ahead("loop") = 1 /\ Ahead("recover") = 2
  /\ Ahead("resubscribe") = 3 /\ Ahead("connecting") = Subscribable + 4
  /\ Ahead("sleep") = Subscribable + 5 /\ Ahead("close") = Subscribable + 6
  /\ Ahead("heartbeat") = Subscribable + 7 /\ Ahead("handle") = Subscribable + 8
  /\ Ahead("receive") = Subscribable + 9 /\ Ahead("off") = Subscribable + 10
<1>1. Subscribable \in Nat
  BY StreamsAssumption, FS_CardinalityType DEF Subscribable
<1> QED
  BY <1>1 DEF Ahead

LEMMA RunStepsLeftIs ==
  ASSUME StreamTypeOK
  PROVE  RunStepsLeft \in 0..LongestEnd
<1> DEFINE n == Subscribable
           left == run.left
<1>1. run.pc \in RunLabels /\ left \in 0..n
  BY DEF StreamTypeOK, Subscribable
<1>2. n \in Nat
  BY AheadIs
<1>3. CASE run.pc = "resubscribe"
  <2>1. RunStepsLeft = 3 + left /\ LongestEnd = n + 10
    BY <1>3, AheadIs DEF RunStepsLeft, RunAt, LongestEnd
  <2> HIDE DEF n, left
  <2> QED
    BY <1>1, <1>2, <2>1
<1>4. CASE run.pc # "resubscribe"
  <2>1. LongestEnd = n + 10
    BY DEF LongestEnd
  <2>2. RunStepsLeft = Ahead(run.pc) + 0
    BY <1>4 DEF RunStepsLeft, RunAt
  <2>3. Ahead(run.pc) \in {0, 1, 2, n + 4, n + 5, n + 6, n + 7, n + 8, n + 9, n + 10}
    BY <1>1, <1>4, AheadIs DEF RunLabels
  <2> HIDE DEF n
  <2> QED
    BY <1>2, <2>1, <2>2, <2>3
<1> QED
  BY <1>3, <1>4

\* A step of run that goes to a later place.
LEMMA Sooner ==
  ASSUME StreamTypeOK, NEW label \in RunLabels \ {"resubscribe"}, run'.pc = label,
         Ahead(label) < Ahead(run.pc)
  PROVE  RunStepsLeft' < RunStepsLeft
<1> DEFINE n == Subscribable
           left == IF RunAt("resubscribe") THEN run.left ELSE 0
           a == Ahead(label)
           b == Ahead(run.pc)
<1>1. run.pc \in RunLabels /\ left \in 0..n /\ n \in Nat
  BY AheadIs DEF StreamTypeOK, Subscribable
<1>2. a \in Int /\ b \in Int
  BY <1>1, AheadIs DEF RunLabels
<1>3. RunStepsLeft' = a + 0 /\ RunStepsLeft = b + left
  BY DEF RunStepsLeft, RunAt, Ahead, Subscribable
<1> HIDE DEF n, left, a, b
<1>4. a < b
  BY DEF a, b
<1> QED
  BY <1>1, <1>2, <1>3, <1>4

LEMMA StopShortens ==
  ASSUME StreamTypeOK, stopped, RunStart \/ RunStep
  PROVE  RunStepsLeft' < RunStepsLeft
<1>1. run \in RunStates
  BY DEF StreamTypeOK, RunStates
<1>2. Subscribable \in Nat
  BY AheadIs
<1>l. {"ended", "failed", "loop", "recover", "connecting", "sleep", "close", "heartbeat", "handle"}
        \subseteq RunLabels \ {"resubscribe"}
  BY DEF RunLabels
<1>g. ASSUME NEW label, RunGoto(label) PROVE run'.pc = label
  BY <1>1, <1>g DEF RunGoto, RunStates
<1>r. Reconnect => run'.pc = "close"
  BY <1>1 DEF Reconnect, RunStates
<1>o. ASSUME NEW from, run.pc = from, NEW to \in RunLabels \ {"resubscribe"}, run'.pc = to,
             Ahead(to) < Ahead(from)
      PROVE  RunStepsLeft' < RunStepsLeft
  BY <1>o, Sooner
<1>3. CASE RunStart
  <2>1. run.pc = "off" /\ run'.pc = "connecting"
    BY <1>3, <1>g DEF RunStart, RunAt
  <2>2. Ahead("connecting") < Ahead("off")
    BY AheadIs
  <2> QED
    BY <1>l, <1>o, <2>1, <2>2
<1>4. CASE Connect
  <2>1. run.pc = "connecting"
    BY <1>4 DEF Connect, RunAt
  <2>2. CASE Opened
    <3>1. CASE Resubscribed
      <4>1. PICK label \in {"recover", "loop"} : run'.pc = label
        BY <1>1, <3>1 DEF Resubscribed, RunStates
      <4>2. Ahead(label) < Ahead("connecting")
        BY AheadIs
      <4> QED
        BY <1>l, <1>o, <2>1, <4>1, <4>2
    <3>2. ASSUME NEW s \in subs,
                 run' = [run EXCEPT !.pc = "resubscribe", !.size = Cardinality(subs),
                                    !.left = Cardinality(subs) - 1, !.visited = {s}]
          PROVE  RunStepsLeft' < RunStepsLeft
      <4> DEFINE k == Cardinality(subs) - 1
                 n == Subscribable
      <4>1. run'.pc = "resubscribe" /\ run'.left = k
        BY <1>1, <3>2 DEF RunStates
      <4>2. k \in 0..n
        BY SubscriptionPredecessor DEF StreamTypeOK, Subscribable
      <4>3. RunStepsLeft' = 3 + k
        BY <4>1, AheadIs DEF RunStepsLeft, RunAt, Ahead
      <4>4. RunStepsLeft = n + 4 + 0
        BY <2>1, AheadIs DEF RunStepsLeft, RunAt
      <4> HIDE DEF k, n
      <4> QED
        BY <1>2, <4>2, <4>3, <4>4 DEF n
    <3> QED
      BY <2>2, <3>1, <3>2 DEF Opened
  <2>3. CASE run'.pc = "failed"
    <3>1. Ahead("failed") < Ahead("connecting")
      BY AheadIs
    <3> QED
      BY <1>l, <1>o, <2>1, <2>3, <3>1
  <2> QED
    BY <1>4, <1>g, <2>2, <2>3 DEF Connect
<1>5. CASE Resubscribe
  <2>1. run.pc = "resubscribe"
    BY <1>5 DEF Resubscribe, RunAt
  <2>2. CASE RunGoto("failed") \/ Resubscribed
    <3>1. PICK label \in {"failed", "recover", "loop"} : run'.pc = label
      BY <1>1, <1>g, <2>2 DEF Resubscribed, RunStates
    <3>2. Ahead(label) < Ahead("resubscribe")
      BY AheadIs
    <3> QED
      BY <1>l, <1>o, <2>1, <3>1, <3>2
  <2>3. CASE \E s : run' = [run EXCEPT !.left = @ - 1, !.visited = @ \cup {s}]
    <3> DEFINE k == run.left
    <3>1. run'.pc = "resubscribe" /\ run'.left = k - 1 /\ k \in Int
      BY <1>1, <2>1, <2>3 DEF RunStates
    <3>2. RunStepsLeft' = 3 + (k - 1) /\ RunStepsLeft = 3 + k
      BY <2>1, <3>1, AheadIs DEF RunStepsLeft, RunAt, Ahead
    <3> HIDE DEF k
    <3> QED
      BY <3>1, <3>2
  <2> QED
    BY <1>5, <2>2, <2>3 DEF Resubscribe, Resend
<1>6. CASE Recover
  <2>1. run.pc = "recover" /\ run'.pc \in {"loop", "failed"}
    BY <1>6, <1>g DEF Recover, RunAt
  <2>2. Ahead("loop") < Ahead("recover") /\ Ahead("failed") < Ahead("recover")
    BY AheadIs
  <2> QED
    BY <1>l, <1>o, <2>1, <2>2
<1>7. CASE Loop
  <2>1. run.pc = "loop" /\ run'.pc = "ended"
    BY <1>7, <1>g DEF Loop, RunAt
  <2>2. Ahead("ended") < Ahead("loop")
    BY AheadIs
  <2> QED
    BY <1>l, <1>o, <2>1, <2>2
<1>8. CASE ReceiveInvalid \/ ReceiveTimeout \/ ReceiveClosed \/ \E e \in Events : Receive(e)
  <2>1. run.pc = "receive"
    BY <1>8 DEF ReceiveInvalid, ReceiveTimeout, ReceiveClosed, Receive, RunAt
  <2>2. \A e : [run EXCEPT !.pc = "handle", !.event = e].pc = "handle"
        /\ [run EXCEPT !.pc = "heartbeat", !.fresh = FALSE].pc = "heartbeat"
    BY <1>1 DEF RunStates
  <2>3. run'.pc \in {"loop", "failed", "close", "heartbeat", "handle"}
    BY <1>8, <1>g, <1>r, <2>2 DEF ReceiveInvalid, ReceiveTimeout, ReceiveClosed, Receive
  <2>4. \A label \in {"loop", "failed", "close", "heartbeat", "handle"} : Ahead(label) < Ahead("receive")
    BY AheadIs
  <2> QED
    BY <1>l, <1>o, <2>1, <2>3, <2>4
<1>9. CASE Handle
  <2>1. [run EXCEPT !.pc = "loop", !.event = NotAnEvent].pc = "loop"
        /\ [run EXCEPT !.pc = "heartbeat", !.event = NotAnEvent, !.fresh = TRUE].pc = "heartbeat"
    BY <1>1 DEF RunStates
  <2>2. run.pc = "handle" /\ run'.pc \in {"loop", "failed", "close", "heartbeat"}
    BY <1>9, <1>g, <1>r, <2>1 DEF Handle, RunAt
  <2>3. \A label \in {"loop", "failed", "close", "heartbeat"} : Ahead(label) < Ahead("handle")
    BY AheadIs
  <2> QED
    BY <1>l, <1>o, <2>2, <2>3
<1>10. CASE Heartbeat
  <2>1. run.pc = "heartbeat" /\ run'.pc \in {"loop", "failed", "close"}
    BY <1>10, <1>g, <1>r DEF Heartbeat, RunAt
  <2>2. \A label \in {"loop", "failed", "close"} : Ahead(label) < Ahead("heartbeat")
    BY AheadIs
  <2> QED
    BY <1>l, <1>o, <2>1, <2>2
<1>11. CASE Close
  <2>1. run.pc = "close" /\ run'.pc = "sleep"
    BY <1>11, <1>g DEF Close, RunAt
  <2>2. Ahead("sleep") < Ahead("close")
    BY AheadIs
  <2> QED
    BY <1>l, <1>o, <2>1, <2>2
<1>12. CASE Sleep
  <2>1. run.pc = "sleep" /\ run'.pc = "connecting"
    BY <1>12, <1>g DEF Sleep, RunAt
  <2>2. Ahead("connecting") < Ahead("sleep")
    BY AheadIs
  <2> QED
    BY <1>l, <1>o, <2>1, <2>2
<1> QED
  BY <1>3, <1>4, <1>5, <1>6, <1>7, <1>8, <1>9, <1>10, <1>11, <1>12 DEF RunStep

\* Once stop was called, run takes at most ten steps and one for each stream before it is over,
\* wherever stop met it and whatever is subscribed, pushed or dropped meanwhile: each of its
\* steps lowers what is left, and nothing that others do changes it (stop, run).
THEOREM StopIsShort ==
  StreamSpec =>
    /\ [](RunStepsLeft \in 0..LongestEnd)
    /\ [][stopped => IF RunStart \/ RunStep THEN RunStepsLeft' < RunStepsLeft
                                            ELSE RunStepsLeft' = RunStepsLeft]_streamVars
<1>1. StreamTypeOK => RunStepsLeft \in 0..LongestEnd
  BY RunStepsLeftIs
<1>2. StreamTypeOK /\ [StreamNext]_streamVars =>
        [stopped => IF RunStart \/ RunStep THEN RunStepsLeft' < RunStepsLeft
                                           ELSE RunStepsLeft' = RunStepsLeft]_streamVars
  <2> SUFFICES ASSUME StreamTypeOK, StreamNext, stopped
               PROVE  IF RunStart \/ RunStep THEN RunStepsLeft' < RunStepsLeft
                                             ELSE RunStepsLeft' = RunStepsLeft
    OBVIOUS
  <2>1. CASE RunStart \/ RunStep
    BY <2>1, StopShortens
  <2>2. CASE ~(RunStart \/ RunStep)
    <3>1. run'.pc = run.pc /\ run'.left = run.left
      BY <2>2 DEF StreamNext, Subscribe, InsertUnderIteration, Unsubscribe, Stop, StopEnd, Drop, StreamTypeOK
    <3> QED
      BY <2>2, <3>1 DEF RunStepsLeft, RunAt, Ahead, Subscribable
  <2> QED
    BY <2>1, <2>2
<1> QED
  BY <1>1, <1>2, TypesInit, TypesStep, PTL DEF StreamSpec

=============================================================================
