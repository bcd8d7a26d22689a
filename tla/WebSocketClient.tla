--------------------------- MODULE WebSocketClient ---------------------------
(***************************************************************************)
(* BingXWebSocketClient (exchanges/bingx_websocket.py): its run loop,      *)
(* reconnection with resubscription and REST recovery, the window of       *)
(* events already seen, and the calls other coroutines make meanwhile:     *)
(* subscribe, unsubscribe and stop.                                        *)
(*                                                                         *)
(* Everything runs on one event loop, so a step goes from one await to the *)
(* next.  The exchange's end of the connection, which drops it, pushes     *)
(* events and keeps the subscriptions it was sent, is external.            *)
(*                                                                         *)
(* Payloads, digests and the back-off delay are dropped: a stream stands   *)
(* for its payload, an event for its digest, a sleep ends.  Of the dict of *)
(* subscriptions its keys and what an iteration has passed are kept, not   *)
(* the order of its entries and its free slots.  Subscriptions are enabled *)
(* and a REST recovery is configured.  Nothing in the repository calls run *)
(* a second time, and neither does this module.                            *)
(***************************************************************************)
EXTENDS Naturals, Sequences, FiniteSets

CONSTANTS
  Streams,       \* the logical streams
  Events,        \* the events the exchange may push
  MaxSeen,       \* maxlen of _seen_order
  NotAnEvent     \* no event is being handled

ASSUME StreamsAssumption == IsFiniteSet(Streams)
ASSUME MaxSeenAssumption == MaxSeen \in Nat \ {0}
ASSUME NotAnEventAssumption == NotAnEvent \notin Events

VARIABLES
  state,      \* self.state
  conn,       \* self._connection: "none", "open", or "closed" at either end
  server,     \* the streams the exchange sends on the open connection
  subs,       \* keys of self._subscriptions, and of self._handlers
  seen,       \* self._seen
  order,      \* self._seen_order
  stopped,    \* self._stop
  heartbeat,  \* whether a heartbeat payload is configured
  run,        \* the coroutine of run: its next step and its local state
  stopping,   \* whether a call of stop waits for the connection to close
  gap,        \* whether events were missed that no REST recovery made up for
  overtaken,  \* the streams still to be sent again when another was subscribed, since the opening
  begun,      \* the events whose handler was called and did not end, since the last recovery
  age,        \* how many other events were remembered since each event, at most MaxSeen
  reopened    \* how often the connection was opened after stop was called

subscriptions == <<server, subs>>
dedup == <<seen, order>>
streamGhosts == <<gap, overtaken, begun, age, reopened>>
streamVars == <<state, conn, subscriptions, dedup, stopped, heartbeat, run, stopping, streamGhosts>>

-----------------------------------------------------------------------------

RunLabels == {"off", "connecting", "resubscribe", "recover", "loop", "receive", "handle",
              "heartbeat", "close", "sleep", "ended", "failed"}

RunAt(label) == run.pc = label
RunGoto(label) == run' = [run EXCEPT !.pc = label]
Over == run.pc \in {"ended", "failed"}

\* run calls reconnect, which begins by setting the state.
Reconnect ==
  /\ state' = "RECONNECTING"
  /\ run' = [run EXCEPT !.pc = "close", !.event = NotAnEvent, !.again = TRUE]

StreamInit ==
  /\ state = "DISCONNECTED" /\ conn = "none"
  /\ server = {} /\ subs = {}
  /\ seen = {} /\ order = <<>>
  /\ stopped = FALSE /\ stopping = FALSE
  /\ heartbeat \in BOOLEAN
  /\ run = [pc |-> "off", event |-> NotAnEvent, fresh |-> FALSE, again |-> FALSE,
            size |-> 0, left |-> 0, visited |-> {}]
  /\ gap = FALSE /\ reopened = 0 /\ overtaken = {}
  /\ begun = {} /\ age = [e \in Events |-> MaxSeen]

-----------------------------------------------------------------------------
(* connect, _resubscribe and the REST recovery.                            *)

\* The run begins: there is no connection yet.
RunStart ==
  /\ RunAt("off")
  /\ state' = "CONNECTING"
  /\ RunGoto("connecting")
  /\ UNCHANGED <<conn, subscriptions, dedup, stopped, heartbeat, stopping, streamGhosts>>

\* The iteration is over; connect returns to run, or to reconnect.
Resubscribed ==
  run' = [run EXCEPT !.pc = IF run.again THEN "recover" ELSE "loop",
                     !.size = 0, !.left = 0, !.visited = {}]

\* The connector answers.  _resubscribe begins to iterate the dict of subscriptions and sends
\* the first one.
Opened ==
  /\ state' = "CONNECTED" /\ conn' = "open" /\ overtaken' = {}
  /\ reopened' = IF stopped THEN reopened + 1 ELSE 0
  /\ \/ subs = {} /\ Resubscribed /\ server' = {}
     \/ \E s \in subs :
          /\ server' = {s}
          /\ run' = [run EXCEPT !.pc = "resubscribe", !.size = Cardinality(subs),
                                !.left = Cardinality(subs) - 1, !.visited = {s}]
  /\ UNCHANGED subs

\* connect fails: the exception leaves run, state remains CONNECTING.
Connect ==
  /\ RunAt("connecting")
  /\ \/ Opened
     \/ RunGoto("failed") /\ UNCHANGED <<state, conn, subscriptions, overtaken, reopened>>
  /\ UNCHANGED <<dedup, stopped, heartbeat, stopping, gap, begun, age>>

\* The subscriptions that the iteration has not passed.
Unvisited == subs \ run.visited

\* The number of entries is not checked.
FaultyResend(s) ==
  IF conn = "open"
  THEN /\ server' = server \cup {s}
       /\ run' = [run EXCEPT !.left = @ - 1, !.visited = @ \cup {s}]
  ELSE RunGoto("failed") /\ UNCHANGED server

\* One turn of the iteration.  It raises RuntimeError when the dict has more entries than it
\* had; send raises when the connection is closed.
Resend(s) ==
  IF run.left > 0 /\ conn = "open"
  THEN /\ server' = server \cup {s}
       /\ run' = [run EXCEPT !.left = @ - 1, !.visited = @ \cup {s}]
  ELSE RunGoto("failed") /\ UNCHANGED server

\* The send under way ends, or raises as the connection is closed.  The next turn raises
\* RuntimeError when the dict has changed its size.
Resubscribe ==
  /\ RunAt("resubscribe")
  /\ \/ conn = "closed" /\ RunGoto("failed") /\ UNCHANGED server
     \/ Cardinality(subs) # run.size /\ RunGoto("failed") /\ UNCHANGED server
     \/ /\ Cardinality(subs) = run.size
        /\ IF Unvisited = {}
           THEN Resubscribed /\ UNCHANGED server
           ELSE \E s \in Unvisited : Resend(s)
  /\ UNCHANGED <<state, conn, subs, dedup, stopped, heartbeat, stopping, streamGhosts>>

\* reconnect ends with the REST recovery, which may raise.
Recover ==
  /\ RunAt("recover")
  /\ \/ RunGoto("loop") /\ gap' = FALSE /\ begun' = {}
     \/ RunGoto("failed") /\ UNCHANGED <<gap, begun>>
  /\ UNCHANGED <<state, conn, subscriptions, dedup, stopped, heartbeat, stopping, overtaken, age,
                 reopened>>

-----------------------------------------------------------------------------
(* The loop of run.                                                        *)

\* while True
FaultyLoop ==
  /\ RunAt("loop")
  /\ RunGoto("receive")
  /\ UNCHANGED <<state, conn, subscriptions, dedup, stopped, heartbeat, stopping, streamGhosts>>

Loop ==
  /\ RunAt("loop")
  /\ RunGoto(IF stopped THEN "ended" ELSE "receive")
  /\ UNCHANGED <<state, conn, subscriptions, dedup, stopped, heartbeat, stopping, streamGhosts>>

\* The oldest digest is not discarded.
FaultyRemember(e) ==
  /\ seen' = seen \cup {e}
  /\ order' = Append(IF Len(order) = MaxSeen THEN Tail(order) ELSE order, e)

\* _is_duplicate, of an event not seen: the deque drops its oldest entry when full.
Remember(e) ==
  IF Len(order) = MaxSeen
  THEN seen' = (seen \ {Head(order)}) \cup {e} /\ order' = Append(Tail(order), e)
  ELSE seen' = seen \cup {e} /\ order' = Append(order, e)

\* receive_once, with an event of a stream the exchange sends: a duplicate, one with a
\* handler, or one without.
Receive(e) ==
  /\ RunAt("receive")
  /\ conn = "open" /\ server # {}
  /\ \/ e \in seen /\ RunGoto("loop") /\ UNCHANGED <<dedup, begun, age>>
     \/ /\ e \notin seen
        /\ Remember(e)
        /\ age' = [x \in Events |-> IF x = e THEN 0 ELSE IF age[x] = MaxSeen THEN MaxSeen ELSE age[x] + 1]
        /\ \/ /\ subs # {}
              /\ run' = [run EXCEPT !.pc = "handle", !.event = e]
              /\ begun' = begun \cup {e}
           \/ RunGoto("loop") /\ UNCHANGED begun
  /\ UNCHANGED <<state, conn, subscriptions, stopped, heartbeat, stopping, gap, overtaken, reopened>>

\* A message that decode or the sequence validator rejects; corrupt compressed data raises
\* an error that run does not catch.
ReceiveInvalid ==
  /\ RunAt("receive")
  /\ conn = "open"
  /\ Reconnect \/ (RunGoto("failed") /\ UNCHANGED state)
  /\ UNCHANGED <<conn, subscriptions, dedup, stopped, heartbeat, stopping, streamGhosts>>

\* An error of the handler is swallowed.
FaultyHandle ==
  /\ RunAt("handle")
  /\ run' = [run EXCEPT !.pc = "loop", !.event = NotAnEvent]
  /\ UNCHANGED <<state, conn, subscriptions, dedup, stopped, heartbeat, stopping, streamGhosts>>

\* The handler ends, raises an error that run takes for a broken connection, raises
\* another, or is cancelled by the timeout around receive_once: then the event is lost.
Handle ==
  /\ RunAt("handle")
  /\ \/ /\ run' = [run EXCEPT !.pc = "loop", !.event = NotAnEvent]
        /\ begun' = begun \ {run.event}
        /\ UNCHANGED state
     \/ Reconnect /\ UNCHANGED begun
     \/ RunGoto("failed") /\ UNCHANGED <<state, begun>>
     \/ /\ run' = [run EXCEPT !.pc = "heartbeat", !.event = NotAnEvent, !.fresh = TRUE]
        /\ begun' = begun \ {run.event}
        /\ UNCHANGED state
  /\ UNCHANGED <<conn, subscriptions, dedup, stopped, heartbeat, stopping, gap, overtaken, age, reopened>>

\* Nothing came for stale_seconds.
ReceiveTimeout ==
  /\ RunAt("receive")
  /\ conn = "open"
  /\ run' = [run EXCEPT !.pc = "heartbeat", !.fresh = FALSE]
  /\ UNCHANGED <<state, conn, subscriptions, dedup, stopped, heartbeat, stopping, streamGhosts>>

\* recv raises ConnectionClosed.
ReceiveClosed ==
  /\ RunAt("receive")
  /\ conn = "closed"
  /\ Reconnect
  /\ UNCHANGED <<conn, subscriptions, dedup, stopped, heartbeat, stopping, streamGhosts>>

\* After a timeout: the heartbeat, whose failure leaves run, and reconnect unless a message
\* came during the wait.  That message may have grown stale itself.
Heartbeat ==
  /\ RunAt("heartbeat")
  /\ IF heartbeat /\ conn = "closed"
     THEN RunGoto("failed") /\ UNCHANGED state
     ELSE \/ run.fresh /\ RunGoto("loop") /\ UNCHANGED state
          \/ Reconnect
  /\ UNCHANGED <<conn, subscriptions, dedup, stopped, heartbeat, stopping, streamGhosts>>

-----------------------------------------------------------------------------
(* reconnect.                                                              *)

Disconnected == conn' = "closed" /\ server' = {} /\ gap' = TRUE

Close ==
  /\ RunAt("close")
  /\ Disconnected
  /\ RunGoto("sleep")
  /\ UNCHANGED <<state, subs, dedup, stopped, heartbeat, stopping, overtaken, begun, age, reopened>>

Sleep ==
  /\ RunAt("sleep")
  /\ state' = "CONNECTING"
  /\ RunGoto("connecting")
  /\ UNCHANGED <<conn, subscriptions, dedup, stopped, heartbeat, stopping, streamGhosts>>

-----------------------------------------------------------------------------
(* Calls of other coroutines, and the exchange.                            *)

\* A key is inserted into the dict while it is iterated.  Where no slot is free the entries
\* move up into the slots of removed ones and the iteration keeps its position: it passes over
\* other subscriptions, and the new one too if it passes over all.
InsertUnderIteration(s) ==
  \E passed \in (SUBSET Unvisited) \cup {Unvisited \cup {s}} :
    run' = [run EXCEPT !.visited = @ \cup passed]

\* The resubscription under way is left to send the new stream.
FaultySubscribe(s) ==
  /\ subs' = subs \cup {s}
  /\ IF RunAt("resubscribe") /\ s \notin subs
     THEN InsertUnderIteration(s) /\ overtaken' = overtaken \cup Unvisited /\ UNCHANGED server
     ELSE /\ server' = IF conn = "open" THEN server \cup {s} ELSE server
          /\ overtaken' = overtaken \ {s}
          /\ UNCHANGED run
  /\ UNCHANGED <<state, conn, dedup, stopped, heartbeat, stopping, gap, begun, age, reopened>>

\* The payload is sent when there is a connection; over a closed one send raises, the
\* subscription stays.
Subscribe(s) ==
  /\ subs' = subs \cup {s}
  /\ server' = IF conn = "open" THEN server \cup {s} ELSE server
  /\ IF RunAt("resubscribe") /\ s \notin subs
     THEN InsertUnderIteration(s) /\ overtaken' = overtaken \cup Unvisited
     ELSE UNCHANGED run /\ overtaken' = overtaken \ {s}
  /\ UNCHANGED <<state, conn, dedup, stopped, heartbeat, stopping, gap, begun, age, reopened>>

\* With a payload the exchange is told, without one it goes on sending.
Unsubscribe(s) ==
  /\ s \in subs
  /\ subs' = subs \ {s}
  /\ server' \in {server, server \ {s}}
  /\ run' = [run EXCEPT !.visited = @ \ {s}]
  /\ overtaken' = overtaken \ {s}
  /\ UNCHANGED <<state, conn, dedup, stopped, heartbeat, stopping, gap, begun, age, reopened>>

\* stop, up to the end of close; without a connection it is over at once.
Stop ==
  /\ ~stopped
  /\ stopped' = TRUE
  /\ IF conn = "none"
     THEN state' = "STOPPED" /\ UNCHANGED <<conn, server, stopping, gap>>
     ELSE Disconnected /\ stopping' = TRUE /\ UNCHANGED state
  /\ UNCHANGED <<subs, dedup, heartbeat, run, overtaken, begun, age, reopened>>

StopEnd ==
  /\ stopping
  /\ stopping' = FALSE
  /\ state' = "STOPPED"
  /\ UNCHANGED <<conn, subscriptions, dedup, stopped, heartbeat, run, streamGhosts>>

\* The connection breaks, or the exchange closes it.
Drop ==
  /\ conn = "open"
  /\ Disconnected
  /\ UNCHANGED <<state, subs, dedup, stopped, heartbeat, run, stopping, overtaken, begun, age, reopened>>

-----------------------------------------------------------------------------

RunStep ==
  \/ Connect \/ Resubscribe \/ Recover \/ Loop \/ Handle
  \/ ReceiveInvalid \/ ReceiveTimeout \/ ReceiveClosed \/ Heartbeat \/ Close \/ Sleep
  \/ \E e \in Events : Receive(e)

StreamNext ==
  \/ RunStart \/ RunStep
  \/ \E s \in Streams : Subscribe(s) \/ Unsubscribe(s)
  \/ Stop \/ StopEnd
  \/ Drop

StreamSpec == StreamInit /\ [][StreamNext]_streamVars

-----------------------------------------------------------------------------
(* Properties.                                                             *)

States == {"DISCONNECTED", "CONNECTING", "CONNECTED", "RECONNECTING", "STOPPED"}

StreamTypeOK ==
  /\ state \in States
  /\ conn \in {"none", "open", "closed"}
  /\ server \subseteq Streams /\ subs \subseteq Streams
  /\ seen \subseteq Events
  /\ order \in Seq(Events)
  /\ run \in [pc : RunLabels, event : Events \cup {NotAnEvent}, fresh : BOOLEAN,
              again : BOOLEAN, size : 0..Cardinality(Streams), left : 0..Cardinality(Streams),
              visited : SUBSET Streams]
  /\ {stopped, stopping, heartbeat, gap} \subseteq BOOLEAN
  /\ overtaken \subseteq Streams /\ begun \subseteq Events
  /\ age \in [Events -> 0..MaxSeen]
  /\ reopened \in Nat

\* An event counts as a duplicate exactly while fewer than MaxSeen other events have been
\* remembered since it was: it is not handled again too early, and neither is it refused for
\* ever while the set grows (_is_duplicate, whose set and deque must evict together).
DuplicatesAreRecent == \A e \in Events : e \in seen <=> age[e] < MaxSeen

\* Whenever run waits for an event on a working connection, the exchange has been sent every
\* current subscription, made before the connection, while it was opened or later; only one
\* that was still to be sent again when another stream was subscribed may be missing: the
\* iteration may have passed over it without an error (_resubscribe, subscribe).
StreamsResent == RunAt("receive") /\ conn = "open" => subs \ server \subseteq overtaken

\* Then a REST recovery has also made up for the events missed while there was no connection,
\* and for each event whose handler raised an error, which would now count as a duplicate
\* (reconnect, receive_once; docs/runbook.md asks for the recovery).
LossesRecovered == RunAt("receive") /\ conn = "open" => ~gap /\ begun = {}

\* After stop the connection is opened at most once more: by the run that was under way,
\* which takes the close for a broken connection.
StopReopensOnce == reopened <= 1

\* Once stop was called, run comes to an end (while not self._stop.is_set()).
StopEndsRun == stopped /\ ~RunAt("off") ~> Over

=============================================================================
