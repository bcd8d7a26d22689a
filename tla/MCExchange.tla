------------------------------ MODULE MCExchange ------------------------------
(***************************************************************************)
(* What talks to BingX: the submission of orders and the stream of market  *)
(* data.  They share nothing, so a behaviour of this module is one of      *)
(* either, while the other is not used.                                    *)
(***************************************************************************)
EXTENDS OrderSubmission, WebSocketClient

VARIABLE focus   \* the client in use

Init ==
  /\ SubmissionInit /\ StreamInit
  /\ \/ focus = "submission" /\ ~heartbeat
     \/ focus = "stream" /\ client = "FAKE"

Next ==
  /\ UNCHANGED focus
  /\ \/ focus = "submission" /\ SubmissionNext /\ UNCHANGED streamVars
     \/ focus = "stream" /\ StreamNext /\ UNCHANGED submissionVars

vars == <<submissionVars, streamVars, focus>>

\* The event loop goes on with every coroutine, and each of its awaits ends: a network call with
\* an answer, an error or the client's timeout, recv and the handlers under wait_for, and the
\* connector, close, sleep and the REST recovery by themselves.
Fairness ==
  /\ \A c \in Callers : WF_submissionVars(Step(c))
  /\ WF_streamVars(RunStep)

Spec == Init /\ [][Next]_vars /\ Fairness

TypeOK == SubmissionTypeOK /\ StreamTypeOK

===============================================================================
