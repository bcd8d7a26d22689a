--------------------------- MODULE OrderSubmission ---------------------------
(***************************************************************************)
(* Idempotent order submission, OrderService.submit_idempotent             *)
(* (services/orders.py), and cancel_order, over the two exchange clients   *)
(* of the repository, FakeExchangeClient (exchanges/fake.py) and           *)
(* BingXClient (exchanges/bingx.py).                                       *)
(*                                                                         *)
(* A caller submits an intent, which determines the client order id, and   *)
(* may submit it again or cancel it after any answer.  Callers are         *)
(* coroutines of one event loop: they interleave at the network calls of   *)
(* BingXClient, and not at all over FakeExchangeClient, which never waits. *)
(*                                                                         *)
(* The exchange and the network are external.  The exchange places one     *)
(* order for each POST that reaches it, whatever its client order id, and  *)
(* cancels by a DELETE the open orders it holds under the client order id; *)
(* a request or a response may be lost, and a request may reach the        *)
(* exchange after the client stopped waiting for it.                       *)
(*                                                                         *)
(* Symbols, prices and quantities are dropped: a validator accepts the     *)
(* request or refuses it.  The order in the answer is not looked into.     *)
(***************************************************************************)
EXTENDS Naturals, FiniteSets

CONSTANTS
  Callers,           \* the coroutines that submit orders
  Intents,           \* the trading intents; deterministic_client_order_id names each
  MaxRetries,        \* BingXClient.max_retries
  MaxCalls           \* bound of the model: submissions of one caller

ASSUME CallersAssumption == IsFiniteSet(Callers) /\ Callers # {}
ASSUME BoundsAssumption == MaxRetries \in 0..5 /\ MaxCalls \in Nat

\* The fields of SymbolMetadata, and those that OrderValidationService reads of it.
SymbolMetadata == {"symbol", "min_quantity", "quantity_step", "tick_size", "min_notional"}
FieldsRead == SymbolMetadata \cup {"active", "max_quantity"}

Gates == {"environment", "credential", "strategy", "risk", "confirmation"}

VARIABLES
  client,    \* the exchange client in use: "FAKE" or "BINGX"
  gates,     \* BingXLiveGates: the gates of BingXClient that are enabled
  validator, \* its order_validator: the "default" one, or one that was "supplied"
  unknown,   \* FakeExchangeClient.fail_next_as_unknown
  placed,    \* for each intent, the orders the exchange holds under its client id
  cancelled, \* how many of these are cancelled
  late,      \* for each intent, the POSTs whose caller has stopped waiting
  lateDeletes, \* the intents with a DELETE whose caller has stopped waiting
  orphaned,  \* for each intent, how many POSTs have outlived their caller's timeout
  exposed,   \* for each intent, the POSTs that could still come when it was last cancelled
  call       \* the current or last request of each caller

config == <<client, gates, validator>>
exchange == <<placed, cancelled, late, lateDeletes>>
ghosts == <<orphaned, exposed>>
submissionVars == <<config, unknown, exchange, ghosts, call>>

-----------------------------------------------------------------------------
(* pc       the next step of the submission                                *)
(* attempt  the retries of the current GET already made                    *)
(* posts    the POSTs sent by the submission                               *)
(* settled  whether the fate of its POST is known to the caller            *)
(* result   what the last request returned; "error" if it raised an error  *)
(*          of the exchange or of a check, or the name of another error    *)

Labels == {"idle", "lookup", "gates", "rules", "price", "validate", "post",
           "await", "reply", "delete", "confirm"}
Results == {"none", "order", "rejected", "UNKNOWN", "cancelled", "error", "AttributeError"}

Fresh(i, n) == [pc |-> "lookup", intent |-> i, attempt |-> 0, posts |-> 0,
                settled |-> TRUE, result |-> "none", calls |-> n]

At(c, label) == call[c].pc = label
Intent(c) == call[c].intent
Become(c, local) == call' = [call EXCEPT ![c] = local]
Goto(c, label) == Become(c, [call[c] EXCEPT !.pc = label, !.attempt = 0])
Return(c, result, settled) ==
  Become(c, [call[c] EXCEPT !.pc = "idle", !.attempt = 0, !.result = result,
                            !.settled = settled])

\* self.orders, of a new client
NoOrders == [i \in Intents |-> 0]

SubmissionInit ==
  /\ \/ client = "BINGX" /\ gates \in SUBSET Gates /\ validator \in {"default", "supplied"}
     \/ client = "FAKE" /\ gates = {} /\ validator = "supplied"
  /\ unknown = FALSE
  /\ placed = NoOrders /\ cancelled = NoOrders
  /\ late = NoOrders /\ lateDeletes = {}
  /\ orphaned = NoOrders /\ exposed = NoOrders
  /\ call \in [Callers -> {[Fresh(i, 0) EXCEPT !.pc = "idle"] : i \in Intents}]

\* A caller submits an intent: a new one, or the same again.
Submit(c, i) ==
  /\ client = "BINGX"
  /\ At(c, "idle")
  /\ call[c].calls < MaxCalls
  /\ Become(c, Fresh(i, call[c].calls + 1))
  /\ UNCHANGED <<config, unknown, exchange, ghosts>>

-----------------------------------------------------------------------------
(* FakeExchangeClient.  A whole request is one step.                       *)

FakeAnswer(c, i, result, posts) ==
  Become(c, [Fresh(i, call[c].calls + 1) EXCEPT !.pc = "idle", !.result = result, !.posts = posts])

\* submit_order.  A symbol in reject_symbols is refused.  Otherwise the order is stored;
\* with fail_next_as_unknown set, TimeoutError is raised after that, and the second lookup
\* of submit_idempotent finds the order, so that the answer is the same.
FakeSubmitOrder(c, i) ==
  \/ /\ FakeAnswer(c, i, "rejected", 1)
     /\ UNCHANGED <<unknown, placed>>
  \/ /\ FakeAnswer(c, i, "order", 1)
     /\ placed' = [placed EXCEPT ![i] = 1]
     /\ unknown' = FALSE

FakeSubmit(c, i) ==
  /\ client = "FAKE"
  /\ At(c, "idle")
  /\ call[c].calls < MaxCalls
  /\ IF placed[i] > 0
     THEN FakeAnswer(c, i, "order", 0) /\ UNCHANGED <<unknown, placed>>
     ELSE FakeSubmitOrder(c, i)
  /\ UNCHANGED <<config, cancelled, late, lateDeletes, ghosts>>

\* The demo endpoint for an unknown order sets fail_next_as_unknown before it submits; the
\* flag survives a submission whose order exists already.
FakeSubmitUnknown(c, i) ==
  /\ client = "FAKE"
  /\ At(c, "idle")
  /\ call[c].calls < MaxCalls
  /\ \/ placed[i] > 0 /\ FakeAnswer(c, i, "order", 0) /\ unknown' = TRUE /\ UNCHANGED placed
     \/ /\ placed[i] = 0
        /\ FakeAnswer(c, i, "order", 1)
        /\ placed' = [placed EXCEPT ![i] = 1]
        /\ unknown' = FALSE
  /\ UNCHANGED <<config, cancelled, late, lateDeletes, ghosts>>

\* cancel_order answers with a cancelled copy of the order, which it does not store, or
\* raises KeyError.
FakeCancel(c, i) ==
  /\ client = "FAKE"
  /\ At(c, "idle")
  /\ call[c].calls < MaxCalls
  /\ FakeAnswer(c, i, IF placed[i] > 0 THEN "cancelled" ELSE "error", 0)
  /\ UNCHANGED <<config, unknown, exchange, ghosts>>

-----------------------------------------------------------------------------
(* BingXClient._request with retry_safe: the GETs.                         *)

\* The attempts are counted afresh instead of given up.
FaultyRetryGet(c) ==
  Become(c, [call[c] EXCEPT !.attempt = IF @ < MaxRetries THEN @ + 1 ELSE 0])

\* Timeouts, network errors, HTTP 429 and 5xx are tried again until the attempts run out.
RetryGet(c) ==
  IF call[c].attempt < MaxRetries
  THEN Become(c, [call[c] EXCEPT !.attempt = @ + 1])
  ELSE Return(c, "error", TRUE)

\* The GET fails: for now, or for good (any other HTTP or exchange error).
GetFails(c) ==
  /\ RetryGet(c) \/ Return(c, "error", TRUE)
  /\ UNCHANGED <<config, unknown, exchange, ghosts>>

\* The lookup never finds anything.
FaultyLookup(c) ==
  /\ At(c, "lookup")
  /\ \/ Goto(c, "gates") /\ UNCHANGED <<config, unknown, exchange, ghosts>>
     \/ GetFails(c)

\* An order that was cancelled is not found.
FaultyLookupOpen(c) ==
  /\ At(c, "lookup")
  /\ \/ /\ IF placed[Intent(c)] > cancelled[Intent(c)] THEN Return(c, "order", TRUE) ELSE Goto(c, "gates")
        /\ UNCHANGED <<config, unknown, exchange, ghosts>>
     \/ GetFails(c)

\* get_order_by_client_id: the order, whatever became of it, or None when the exchange says it has none.
Lookup(c) ==
  /\ At(c, "lookup")
  /\ \/ /\ IF placed[Intent(c)] > 0 THEN Return(c, "order", TRUE) ELSE Goto(c, "gates")
        /\ UNCHANGED <<config, unknown, exchange, ghosts>>
     \/ GetFails(c)

\* One gate is not looked at.
FaultyRequireGates(c) ==
  /\ At(c, "gates")
  /\ IF gates \cup {"confirmation"} = Gates THEN Goto(c, "rules") ELSE Return(c, "error", TRUE)
  /\ UNCHANGED <<config, unknown, exchange, ghosts>>

\* BingXLiveGates.require_all
RequireGates(c) ==
  /\ At(c, "gates")
  /\ IF gates = Gates THEN Goto(c, "rules") ELSE Return(c, "error", TRUE)
  /\ UNCHANGED <<config, unknown, exchange, ghosts>>

\* symbol_metadata, which raises SYMBOL_NOT_FOUND, and price, which is asked for only
\* when the request has none.
LoadRules(c) ==
  /\ At(c, "rules")
  /\ \/ /\ \E next \in {"price", "validate"} : Goto(c, next)
        /\ UNCHANGED <<config, unknown, exchange, ghosts>>
     \/ GetFails(c)

ReadPrice(c) ==
  /\ At(c, "price")
  /\ \/ Goto(c, "validate") /\ UNCHANGED <<config, unknown, exchange, ghosts>>
     \/ GetFails(c)

\* The default validator raises AttributeError for a field that SymbolMetadata does not have.
\* Another accepts the request or refuses it, here or by the checks of its type, price and
\* trigger that follow.
Validate(c) ==
  /\ At(c, "validate")
  /\ IF validator = "default" /\ ~(FieldsRead \subseteq SymbolMetadata)
     THEN Return(c, "AttributeError", TRUE)
     ELSE Goto(c, "post") \/ Return(c, "error", TRUE)
  /\ UNCHANGED <<config, unknown, exchange, ghosts>>

-----------------------------------------------------------------------------
(* The POST: a single attempt (retry_safe=False).                          *)

SendPost(c) ==
  /\ At(c, "post")
  /\ Become(c, [call[c] EXCEPT !.pc = "await", !.posts = @ + 1])
  /\ UNCHANGED <<config, unknown, exchange, ghosts>>

\* The exchange places the order; its answer is on the way.
Accept(c) ==
  /\ At(c, "await")
  /\ placed' = [placed EXCEPT ![Intent(c)] = @ + 1]
  /\ Goto(c, "reply")
  /\ UNCHANGED <<config, unknown, cancelled, late, lateDeletes, ghosts>>

\* The exchange refuses the order and says so, with an error code or an HTTP error.
Refuse(c) ==
  /\ At(c, "await")
  /\ Return(c, "error", TRUE)
  /\ UNCHANGED <<config, unknown, exchange, ghosts>>

LostOrLate(i) ==
  \/ UNCHANGED <<late, orphaned>>
  \/ /\ late' = [late EXCEPT ![i] = @ + 1]
     /\ orphaned' = [orphaned EXCEPT ![i] = @ + 1]

\* The client stops waiting: the request is lost, or still on its way.  _request turns
\* the timeout into BingXError("NETWORK"), which submit_idempotent does not catch.
FaultyGiveUp(c) ==
  /\ At(c, "await")
  /\ Goto(c, "post")
  /\ LostOrLate(Intent(c))
  /\ UNCHANGED <<config, unknown, placed, cancelled, lateDeletes, exposed>>

GiveUp(c) ==
  /\ At(c, "await")
  /\ Return(c, "error", FALSE)
  /\ LostOrLate(Intent(c))
  /\ UNCHANGED <<config, unknown, placed, cancelled, lateDeletes, exposed>>

\* The POST of a caller that stopped waiting reaches the exchange.
ArriveLate(i) ==
  /\ late[i] > 0
  /\ late' = [late EXCEPT ![i] = @ - 1]
  /\ placed' = [placed EXCEPT ![i] = @ + 1]
  /\ UNCHANGED <<config, unknown, cancelled, lateDeletes, ghosts, call>>

\* The answer arrives and is parsed, or it is lost or malformed.
ReadReply(c) ==
  /\ At(c, "reply")
  /\ Return(c, "order", TRUE) \/ Return(c, "error", FALSE)
  /\ UNCHANGED <<config, unknown, exchange, ghosts>>

-----------------------------------------------------------------------------
(* BingXClient.cancel_order: the gates, then a single DELETE.              *)

CancelOrder(c, i) ==
  /\ client = "BINGX"
  /\ At(c, "idle")
  /\ call[c].calls < MaxCalls
  /\ Become(c, [Fresh(i, call[c].calls + 1) EXCEPT
                  !.pc = IF gates = Gates THEN "delete" ELSE "idle",
                  !.result = IF gates = Gates THEN "none" ELSE "error"])
  /\ UNCHANGED <<config, unknown, exchange, ghosts>>

\* The callers that have looked an intent up in vain and may still send its POST.
Unplaced(i) == {c \in Callers : Intent(c) = i
                  /\ call[c].pc \in {"gates", "rules", "price", "validate", "post", "await"}}

\* The exchange cancels the open orders it holds under the client id of the intent.
CancelOpenOrders(i) ==
  /\ placed[i] > cancelled[i]
  /\ cancelled' = [cancelled EXCEPT ![i] = placed[i]]
  /\ exposed' = [exposed EXCEPT ![i] = Cardinality(Unplaced(i)) + late[i]]

Cancel(c) ==
  /\ At(c, "delete")
  /\ CancelOpenOrders(Intent(c))
  /\ Goto(c, "confirm")
  /\ UNCHANGED <<config, unknown, placed, late, lateDeletes, orphaned>>

\* The exchange refuses, as when there is no open order; or the DELETE is lost or late.
CancelFails(c) ==
  /\ At(c, "delete")
  /\ Return(c, "error", TRUE)
  /\ lateDeletes' \in {lateDeletes, lateDeletes \cup {Intent(c)}}
  /\ UNCHANGED <<config, unknown, placed, cancelled, late, ghosts>>

CancelLate(i) ==
  /\ i \in lateDeletes
  /\ lateDeletes' = lateDeletes \ {i}
  /\ CancelOpenOrders(i) \/ UNCHANGED <<cancelled, exposed>>
  /\ UNCHANGED <<config, unknown, placed, late, orphaned, call>>

\* The answer arrives and is parsed, or it is lost or malformed.
ReadConfirmation(c) ==
  /\ At(c, "confirm")
  /\ Return(c, "cancelled", TRUE) \/ Return(c, "error", TRUE)
  /\ UNCHANGED <<config, unknown, exchange, ghosts>>

-----------------------------------------------------------------------------

Step(c) ==
  \/ Lookup(c) \/ RequireGates(c) \/ LoadRules(c) \/ ReadPrice(c) \/ Validate(c)
  \/ SendPost(c) \/ Accept(c) \/ Refuse(c) \/ GiveUp(c) \/ ReadReply(c)
  \/ Cancel(c) \/ CancelFails(c) \/ ReadConfirmation(c)

SubmissionNext ==
  \/ \E c \in Callers, i \in Intents :
       Submit(c, i) \/ CancelOrder(c, i)
       \/ FakeSubmit(c, i) \/ FakeSubmitUnknown(c, i) \/ FakeCancel(c, i)
  \/ \E c \in Callers : Step(c)
  \/ \E i \in Intents : ArriveLate(i) \/ CancelLate(i)

SubmissionSpec == SubmissionInit /\ [][SubmissionNext]_submissionVars

-----------------------------------------------------------------------------
(* Properties.                                                             *)

Submission ==
  [pc : Labels, intent : Intents, attempt : 0..MaxRetries, posts : 0..1,
   settled : BOOLEAN, result : Results, calls : Nat]

\* Types; in particular a GET is tried at most max_retries + 1 times and a
\* submission sends at most one POST, since a POST is never retried (_request).
SubmissionTypeOK ==
  /\ client \in {"FAKE", "BINGX"}
  /\ gates \subseteq Gates /\ validator \in {"default", "supplied"}
  /\ unknown \in BOOLEAN
  /\ lateDeletes \subseteq Intents
  /\ \A count \in {placed, cancelled, late, orphaned, exposed} : count \in [Intents -> Nat]
  /\ call \in [Callers -> Submission]

\* However often callers submit an intent again, BingX holds at most one order for
\* it per caller, plus one for each POST that outlived its caller's timeout: looking
\* the client id up first suffices for one caller whose requests arrive or are lost,
\* and for no more than that.  FakeExchangeClient holds at most one (submit_idempotent).
DuplicatesAccountedFor ==
  \A i \in Intents :
    placed[i] <= IF client = "FAKE" THEN 1 ELSE Cardinality(Callers) + orphaned[i]

\* A cancelled intent trades no more, however often it is submitted again: the orders open
\* under it after the exchange cancelled it come from submissions that had looked it up
\* before, and from POSTs on their way (get_order_by_client_id, cancel_order).
CancelHolds ==
  \A i \in Intents : cancelled[i] > 0 => placed[i] - cancelled[i] <= exposed[i]

\* With any live gate missing an intent has no order at BingX and none on its way, whatever
\* its callers do (require_all).
ClosedGatesPlaceNothing ==
  client = "BINGX" /\ gates # Gates => \A i \in Intents : placed[i] = 0 /\ late[i] = 0

\* A request that passed the gates is sent, or refused by the exchange or with a reason of the
\* validator: a client with open gates and the validator it has by default places orders
\* (tests/test_bingx_adapter.py, tests/test_bingx_complete.py).
DefaultValidatorDecides == \A c \in Callers : call[c].result # "AttributeError"

\* A submission whose POST was sent and not answered is reported as UNKNOWN, or as
\* the order that a lookup finds, and not as an error.
UnsettledIsUnknown ==
  \A c \in Callers : ~call[c].settled => call[c].result \in {"order", "UNKNOWN"}

\* Every submission ends, whatever the network does.
SubmissionsEnd == \A c \in Callers : ~At(c, "idle") ~> At(c, "idle")

=============================================================================
