-------------------------------- MODULE Sqs ---------------------------------
(***************************************************************************)
(* One SQS operation (crates/camber/src/mq/sqs: client, submission,        *)
(* failure; mq/limits): admission, the mark the interceptor sets before    *)
(* the request is transmitted, the answer or its loss, the deadline, the   *)
(* close that cuts it, and what the caller is told of retrying.  The SDK   *)
(* and the service are external.                                           *)
(***************************************************************************)
EXTENDS Naturals, FiniteSets

CONSTANTS
  Calls,        \* concurrent operations
  Operations,   \* "ready", "send", "receive", "delete"
  MaxBatch,     \* the most messages one receive may ask for
  MaxSize,      \* max_message_bytes
  MaxCount      \* MAX_COUNT, the most permits a semaphore has

VARIABLES
  sqsEntry,     \* the integration entry: "none", "connected", "refused", "closing"
  sqsOp,        \* per call: its operation
  sqsAsked,     \* per call: messages asked for, or the bytes to send
  sqsPc,        \* per call: "idle", "signing", "sent", "done"
  sqsMark,      \* per call: SubmissionMark
  sqsApplied,   \* per call: the service performed it
  sqsAnswer,    \* per call: the answer on the wire
  sqsResult,    \* per call: what the caller is told
  sqsBatch      \* per call: the messages handed to the caller

sqsVars == <<sqsEntry, sqsOp, sqsAsked, sqsPc, sqsMark, sqsApplied, sqsAnswer, sqsResult, sqsBatch>>
PerCall(v) == [c \in Calls |-> v]
NoAnswer == [kind |-> "none", sizes |-> {}]

SqsInit ==
  /\ sqsEntry = "none" /\ sqsOp \in [Calls -> Operations]
  /\ sqsAsked \in [Calls -> 0 .. MaxBatch + MaxSize]
  /\ \A c \in Calls : sqsOp[c] \notin {"receive", "send"} => sqsAsked[c] = 1
  /\ sqsPc = PerCall("idle") /\ sqsMark = PerCall(FALSE) /\ sqsApplied = PerCall(FALSE)
  /\ sqsAnswer = PerCall(NoAnswer) /\ sqsResult = PerCall("none") /\ sqsBatch = PerCall({})

\* QueueLimits::validate and SqsBuilder::validate: the settings are judged
\* before the runtime is asked for an entry.
Settings == [count : {0, 1, MaxCount, MaxCount + 1}, duration : {"zero", "positive"},
             region : {"none", "malformed", "given"}, endpoint : {"none", "malformed", "given"},
             credentials : {"chain", "empty", "given"}]
validate_count(n) == n \in 1 .. MaxCount
valid_settings(s) ==
  /\ validate_count(s.count) /\ s.duration # "zero"
  /\ s.region # "malformed" /\ s.endpoint # "malformed" /\ s.credentials # "empty"

\* configure: what the settings leave open comes from the environment; a
\* region and credentials that can be had are needed.
configure(s, ambient) ==
  /\ s.region = "given" \/ "region" \in ambient
  /\ s.credentials = "given" \/ "credentials" \in ambient

\* connect and establish: within the connect bound, or not at all.
connect ==
  /\ sqsEntry = "none"
  /\ \E s \in Settings, ambient \in SUBSET {"region", "credentials"} :
       sqsEntry' \in IF valid_settings(s) /\ configure(s, ambient)
                     THEN {"connected", "refused"} ELSE {"refused"}
  /\ UNCHANGED <<sqsOp, sqsAsked, sqsPc, sqsMark, sqsApplied, sqsAnswer, sqsResult, sqsBatch>>

SideEffect(c) == sqsOp[c] # "ready"
\* interrupted(effect, submitted).
AfterInterruption(c, submitted_) == IF SideEffect(c) /\ submitted_ THEN "unknown" ELSE "safe"

SqsFinish(c, what) ==
  sqsPc' = [sqsPc EXCEPT ![c] = "done"] /\ sqsResult' = [sqsResult EXCEPT ![c] = what]

\* admit_message and receive_parameters.
Admissible(c) ==
  CASE sqsOp[c] = "receive" -> sqsAsked[c] \in 1 .. MaxBatch
    [] sqsOp[c] = "send" -> sqsAsked[c] <= MaxSize
    [] OTHER -> TRUE

\* The bounds are checked, then the entry admits; nothing is sent otherwise.
admit_call(c) ==
  /\ sqsPc[c] = "idle" /\ sqsEntry \notin {"none", "refused"}
  /\ \/ /\ sqsEntry = "connected" /\ Admissible(c)
        /\ sqsPc' = [sqsPc EXCEPT ![c] = "signing"] /\ UNCHANGED sqsResult
     \/ (sqsEntry # "connected" \/ ~Admissible(c)) /\ SqsFinish(c, "never")
  /\ UNCHANGED <<sqsEntry, sqsOp, sqsAsked, sqsMark, sqsApplied, sqsAnswer, sqsBatch>>

\* read_before_transmit marks the submission before a byte leaves.
read_before_transmit(c) ==
  /\ sqsPc[c] = "signing"
  /\ sqsMark' = [sqsMark EXCEPT ![c] = TRUE] /\ sqsPc' = [sqsPc EXCEPT ![c] = "sent"]
  /\ UNCHANGED <<sqsEntry, sqsOp, sqsAsked, sqsApplied, sqsAnswer, sqsResult, sqsBatch>>

\* External: the service performs the request or not, and an answer, or the
\* news that no connection was made, comes back.  A batch is its sizes.
ServiceAnswers(c) ==
  /\ sqsPc[c] = "sent" /\ sqsAnswer[c] = NoAnswer
  /\ \/ /\ sqsApplied' = [sqsApplied EXCEPT ![c] = TRUE]
        /\ \E kind \in {"output", "noId", "failed5xx", "cut"}, sizes \in SUBSET (1 .. MaxSize + 1) :
             /\ sqsOp[c] # "receive" => sizes = {}
             /\ sqsOp[c] # "send" => kind # "noId"
             /\ sqsAnswer' = [sqsAnswer EXCEPT ![c] = [kind |-> kind, sizes |-> sizes]]
     \/ /\ \E kind \in {"throttled", "denied", "rejected4xx", "failed5xx", "cut", "noConnection"} :
             sqsAnswer' = [sqsAnswer EXCEPT ![c] = [kind |-> kind, sizes |-> {}]]
        /\ UNCHANGED sqsApplied
  /\ UNCHANGED <<sqsEntry, sqsOp, sqsAsked, sqsPc, sqsMark, sqsResult, sqsBatch>>

\* retained: more messages than asked for, or one over the size bound.
OverLimit(c) == Cardinality(sqsAnswer[c].sizes) > sqsAsked[c] \/ MaxSize + 1 \in sqsAnswer[c].sizes

\* sdk_failed, refused, lost, acknowledged, retained.
Classified(c) ==
  LET kind == sqsAnswer[c].kind
  IN CASE kind = "noConnection" -> "safe"
       [] kind = "throttled" -> "safe"
       [] kind \in {"denied", "rejected4xx"} -> "never"
       [] kind = "failed5xx" -> AfterInterruption(c, TRUE)
       [] kind = "cut" -> AfterInterruption(c, sqsMark[c])
       [] kind = "noId" -> "unknown"
       [] kind = "output" -> IF sqsOp[c] = "receive" /\ OverLimit(c) THEN "never" ELSE "ok"

\* Attempt::run: the outcome within the deadline.
run(c) ==
  /\ sqsPc[c] = "sent" /\ sqsAnswer[c] # NoAnswer
  /\ SqsFinish(c, Classified(c))
  /\ sqsBatch' = [sqsBatch EXCEPT ![c] = IF Classified(c) = "ok" THEN sqsAnswer[c].sizes ELSE {}]
  /\ UNCHANGED <<sqsEntry, sqsOp, sqsAsked, sqsMark, sqsApplied, sqsAnswer>>

\* The deadline, or the close and its grace.
CutShort(c) ==
  /\ sqsPc[c] \in {"signing", "sent"}
  /\ SqsFinish(c, AfterInterruption(c, sqsMark[c]))
  /\ UNCHANGED <<sqsEntry, sqsOp, sqsAsked, sqsMark, sqsApplied, sqsAnswer, sqsBatch>>

SqsCloses ==
  /\ sqsEntry = "connected" /\ sqsEntry' = "closing"
  /\ UNCHANGED <<sqsOp, sqsAsked, sqsPc, sqsMark, sqsApplied, sqsAnswer, sqsResult, sqsBatch>>

SqsStep == \E c \in Calls : read_before_transmit(c) \/ run(c) \/ CutShort(c)
SqsNext == connect \/ SqsStep \/ SqsCloses \/ \E c \in Calls : admit_call(c) \/ ServiceAnswers(c)

-----------------------------------------------------------------------------
(* Properties. *)

\* A side effect reported safe to retry did not happen, one reported done did,
\* nothing beyond a bound leaves the client, and no caller is handed a batch
\* beyond what it asked for.
SqsHonest ==
  \A c \in Calls :
    /\ sqsResult[c] = "safe" /\ SideEffect(c) => ~sqsApplied[c]
    /\ sqsResult[c] = "ok" => sqsApplied[c]
    /\ sqsApplied[c] => sqsMark[c]
    /\ sqsMark[c] => Admissible(c)
    /\ Cardinality(sqsBatch[c]) <= sqsAsked[c] /\ MaxSize + 1 \notin sqsBatch[c]

\* Every admitted operation returns.
SqsCallsBack == \A c \in Calls : sqsPc[c] \in {"idle", "done"}
SqsReturns == []<>SqsCallsBack
=============================================================================
