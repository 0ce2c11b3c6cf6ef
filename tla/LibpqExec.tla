----------------------------- MODULE LibpqExec -----------------------------
(***************************************************************************)
(* The client's side of a query cycle: PQexec and its siblings, the COPY   *)
(* calls and PQgetResult of libpq's fe-exec.c, with the parser of          *)
(* fe-protocol3.c and the reads and writes of fe-misc.c, over a blocking   *)
(* connection of protocol 3.                                               *)
(*                                                                         *)
(* A call is a loop of parsing what is buffered and waiting for more, so   *)
(* it is spread over several steps: call says which function has not       *)
(* returned yet, and between two steps the server runs.  The parser takes  *)
(* one message a step.  A message is read whole or not at all.  An error   *)
(* message is the number of the command whose server error it is, Lost for *)
(* a failure of the connection, Refused for a call libpq turned down.      *)
(***************************************************************************)
EXTENDS Backend, Integers

CONSTANTS
    Commands,     \* what may be sent: records of a class and its statements
    MaxCommands,  \* commands sent
    MaxCopyData   \* CopyData messages sent

ASSUME CommandsAssumption == \A c \in Commands : IsCommand(c)
ASSUME MaxCommandsAssumption == MaxCommands \in Nat

VARIABLES
    status,        \* CONNECTION_OK or CONNECTION_BAD; when BAD the socket is closed
    asyncStatus,
    queryclass,
    result,        \* the result under construction
    errorMessage,
    inBuffer,      \* read and not yet parsed
    notifies,      \* the notifications parsed so far
    call,          \* the function that has not returned, and PQexecFinish's lastResult
    copied,        \* CopyData messages sent so far
    returned,      \* history: the last value libpq returned
    answer         \* history: what PQexec made of each command

parserVars == <<asyncStatus, result, errorMessage, inBuffer, notifies>>
historyVars == <<returned, answer>>
clientVars == <<status, queryclass, call, copied, parserVars, historyVars>>

Lost == -1
Refused == -2
Garbled == -3

Result(s, from) == [status |-> s, err |-> <<>>, from |-> from]
NoResult == Result("none", {})
FatalError(err) == [Result("FATAL_ERROR", {}) EXCEPT !.err = err]
CopyStatuses == {"COPY_IN", "COPY_OUT"}

NoCall == [fn |-> "none", last |-> NoResult]
InCall(fn) == [fn |-> fn, last |-> NoResult]
NoReturn == [cmd |-> Nobody, res |-> NoResult, null |-> FALSE]

\* What a result tells of its command: it failed, it may have failed, ...
Kind(res) ==
    CASE res.status \in CopyStatuses -> "copy"
      [] res.status = "FATAL_ERROR" ->
             IF \A i \in DOMAIN res.err : res.err[i] > Nobody THEN "failed" ELSE "lost"
      [] OTHER -> "ok"

Current == Len(asked)
Idle == call.fn = "none"

\* The application calls libpq.  What the call before returned is forgotten.
Calls ==
    /\ Idle
    /\ returned' = NoReturn
    /\ UNCHANGED answer

ClientInit ==
    /\ status = "OK"
    /\ asyncStatus = "IDLE"
    /\ queryclass = "SIMPLE"
    /\ result = NoResult
    /\ errorMessage = <<>>
    /\ inBuffer = <<>>
    /\ notifies = <<>>
    /\ call = NoCall
    /\ copied = 0
    /\ returned = NoReturn
    /\ answer = [k \in 1..MaxCommands |-> "none"]

-----------------------------------------------------------------------------
(* Parsing: pqParseInput3. *)

CanParse ==
    /\ inBuffer # <<>>
    /\ Head(inBuffer).type = "A" \/ asyncStatus \in {"BUSY", "IDLE"}

Consume == inBuffer' = Tail(inBuffer)

\* The result under construction, or a new one, now holds this message.
Build(s, m) ==
    result' = IF result = NoResult THEN Result(s, {m.cmd})
              ELSE [result EXCEPT !.from = @ \cup {m.cmd}]

\* Slip: the message is kept with whatever was under construction.
saveErrorKeepsStatus(msg) == [result EXCEPT !.err = @ \o msg]

pqSaveErrorResult(msg) ==
    IF result.status = "FATAL_ERROR" THEN [result EXCEPT !.err = @ \o msg]
    ELSE FatalError(msg)

\* Slip: it goes to the head of the list of notifications.
getNotifyFirst(m) ==
    /\ m.type = "A"
    /\ notifies' = <<m.cmd>> \o notifies
    /\ Consume
    /\ UNCHANGED <<asyncStatus, result, errorMessage>>

getNotify(m) ==
    /\ m.type = "A"
    /\ notifies' = Append(notifies, m.cmd)
    /\ Consume
    /\ UNCHANGED <<asyncStatus, result, errorMessage>>

\* An error is a notice there, and the rest is dropped.
ParseIdle(m) ==
    /\ m.type # "A" /\ asyncStatus = "IDLE"
    /\ Consume
    /\ UNCHANGED <<asyncStatus, result, errorMessage, notifies>>

\* The messages that end a result: the application may take it.
ParseEnd(m) ==
    /\ \/ m.type = "C" /\ Build("COMMAND_OK", m) /\ UNCHANGED errorMessage
       \/ m.type = "I" /\ Build("EMPTY_QUERY", m) /\ UNCHANGED errorMessage
       \/ /\ m.type = "1" /\ queryclass = "PREPARE"
          /\ Build("COMMAND_OK", m) /\ UNCHANGED errorMessage
       \/ /\ m.type \in {"T", "n"} /\ queryclass = "DESCRIBE"
          /\ Build("COMMAND_OK", m) /\ UNCHANGED errorMessage
       \/ /\ m.type = "E"
          /\ result' = [FatalError(<<m.cmd>>) EXCEPT !.from = {m.cmd}]
          /\ errorMessage' = Append(errorMessage, m.cmd)
    /\ asyncStatus' = "READY"
    /\ Consume

\* Slip: a command's CommandComplete is taken for the end of its query.
ParseReadyEarly(m) ==
    /\ m.type \in {"Z", "C"}
    /\ asyncStatus' = "IDLE"
    /\ IF m.type = "C" THEN Build("COMMAND_OK", m) ELSE UNCHANGED result
    /\ Consume
    /\ UNCHANGED errorMessage

ParseReadyForQuery(m) ==
    /\ m.type = "Z"
    /\ asyncStatus' = "IDLE"
    /\ Consume
    /\ UNCHANGED <<result, errorMessage>>

ParseRowDescription(m) ==
    /\ m.type = "T" /\ queryclass # "DESCRIBE"
    /\ IF result = NoResult
       THEN Build("TUPLES_OK", m) /\ Consume /\ UNCHANGED asyncStatus
       ELSE asyncStatus' = "READY" /\ UNCHANGED <<result, inBuffer>>
    /\ UNCHANGED errorMessage

ParseDataRow(m) ==
    /\ m.type = "D"
    /\ Consume
    /\ UNCHANGED asyncStatus
    /\ CASE result.status = "TUPLES_OK" -> Build("TUPLES_OK", m) /\ UNCHANGED errorMessage
         [] result.status = "FATAL_ERROR" -> UNCHANGED <<result, errorMessage>>
         [] OTHER -> /\ errorMessage' = <<Garbled>>
                     /\ result' = pqSaveErrorResult(<<Garbled>>)

getCopyStart(m) ==
    LET copytype == IF m.type = "G" THEN "COPY_IN" ELSE "COPY_OUT"
    IN /\ m.type \in {"G", "H"}
       /\ result' = Result(copytype, {m.cmd})
       /\ asyncStatus' = copytype
       /\ Consume
       /\ UNCHANGED errorMessage

ParseParameterDescription(m) ==
    /\ m.type = "t"
    /\ result' = Result("COMMAND_OK", {m.cmd})
    /\ Consume
    /\ UNCHANGED <<asyncStatus, errorMessage>>

\* Bind complete, what another query class ignores, leftovers of a COPY OUT.
ParseNothing(m) ==
    /\ \/ m.type \in {"2", "d", "c"}
       \/ m.type = "1" /\ queryclass # "PREPARE"
       \/ m.type = "n" /\ queryclass # "DESCRIBE"
    /\ Consume
    /\ UNCHANGED <<asyncStatus, result, errorMessage>>

ParseBusy(m) ==
    /\ m.type # "A" /\ asyncStatus = "BUSY"
    /\ \/ ParseEnd(m) \/ ParseReadyForQuery(m) \/ ParseRowDescription(m)
       \/ ParseDataRow(m) \/ getCopyStart(m) \/ ParseParameterDescription(m)
       \/ ParseNothing(m)
    /\ UNCHANGED notifies

ParseMessage ==
    /\ call.fn \in {"PQexecStart", "PQexecFinish", "PQgetResult", "parseInput"}
    /\ CanParse
    /\ LET m == Head(inBuffer) IN getNotify(m) \/ ParseIdle(m) \/ ParseBusy(m)
    /\ UNCHANGED <<serverVars, wireVars, asked, status, queryclass, call, copied,
                   historyVars>>

-----------------------------------------------------------------------------
(* Reading and writing: pqReadData and pqFlush. *)

\* A read takes the next message that has arrived; the rest of what one read
\* may take is read when it is wanted, and a failure spares any part of it.
Arrives ==
    /\ toClient # <<>>
    /\ inBuffer' = Append(inBuffer, Head(toClient))
    /\ toClient' = Tail(toClient)

\* A read fails when nothing can come any more.  The end of the stream, or a
\* reset, closes the socket; after any other error, a time-out of the network
\* say, libpq keeps it.
ReadFails ==
    /\ status = "BAD" \/ (Dead /\ toClient = <<>>)
    /\ status' = "BAD" \/ (link = "cut" /\ UNCHANGED status)

\* What is written to a dead server vanishes, until a write fails.
Flush(ms) ==
    /\ status = "OK"
    /\ toServer' = IF Dead THEN toServer ELSE toServer \o ms

FlushFails ==
    /\ Dead \/ status = "BAD"
    /\ UNCHANGED toServer

-----------------------------------------------------------------------------
(* The loops over PQgetResult.  Handle is what each of them does with a    *)
(* result.                                                                 *)

InGetResult == call.fn \in {"PQexecStart", "PQexecFinish", "PQgetResult"} /\ ~CanParse

\* PQexec returns, with a result or NULL.
ExecReturns(res, null) ==
    /\ call' = NoCall
    /\ returned' = [cmd |-> Current, res |-> res, null |-> null]
    /\ answer' = [answer EXCEPT ![Current] = IF null THEN "null" ELSE Kind(res)]

\* PQexecFinish keeps the last result, and merges errors.
Merged(last, res) ==
    IF last.status = "FATAL_ERROR" /\ res.status = "FATAL_ERROR"
    THEN [last EXCEPT !.err = @ \o res.err, !.from = @ \cup res.from]
    ELSE res

\* Slip: errors are merged, but not in PQerrorMessage.
FinishForgetsMessage(res) ==
    LET last == Merged(call.last, res)
    IN /\ errorMessage' = res.err
       /\ IF res.status \in CopyStatuses \/ status' = "BAD"
          THEN ExecReturns(last, FALSE)
          ELSE call' = [call EXCEPT !.last = last] /\ UNCHANGED historyVars

\* Slip: it waits for the end of a COPY.
FinishWaitsForCopy(res) ==
    LET last == Merged(call.last, res)
    IN /\ errorMessage' = last.err
       /\ IF status' = "BAD" THEN ExecReturns(last, FALSE)
          ELSE call' = [call EXCEPT !.last = last] /\ UNCHANGED historyVars

\* It stops at a COPY and when the connection is lost.
FinishHandles(res) ==
    LET last == Merged(call.last, res)
    IN /\ errorMessage' = last.err
       /\ IF res.status \in CopyStatuses \/ status' = "BAD"
          THEN ExecReturns(last, FALSE)
          ELSE call' = [call EXCEPT !.last = last] /\ UNCHANGED historyVars

\* The read of a waiting PQgetResult fails: an error result, and no query.
GetResultFails ==
    /\ InGetResult /\ asyncStatus = "BUSY"
    /\ ReadFails
    /\ asyncStatus' = "IDLE"
    /\ result' = NoResult
    /\ LET res == pqSaveErrorResult(<<Lost>>)
       IN CASE call.fn = "PQexecFinish" -> FinishHandles(res)
            [] call.fn = "PQgetResult" -> /\ call' = NoCall
                                          /\ errorMessage' = res.err
                                          /\ UNCHANGED historyVars
            [] call.fn = "PQexecStart" -> /\ errorMessage' = res.err
                                          /\ IF status' = "BAD"
                                             THEN ExecReturns(NoResult, TRUE)
                                             ELSE UNCHANGED <<call, historyVars>>
    /\ UNCHANGED <<serverVars, wireVars, asked, queryclass, inBuffer, notifies, copied>>

GetResultReads ==
    /\ InGetResult /\ asyncStatus = "BUSY"
    /\ status = "OK"
    /\ Arrives
    /\ UNCHANGED <<serverVars, toServer, link, asked, status, asyncStatus, queryclass,
                   result, errorMessage, notifies, call, copied, historyVars>>

\* A result is ready: pqPrepareAsyncResult, and the state the caller is left in.
Prepared ==
    IF asyncStatus = "READY"
    THEN IF result = NoResult THEN FatalError(errorMessage) ELSE result
    ELSE IF result.status = asyncStatus THEN result ELSE Result(asyncStatus, {})

\* PQerrorMessage then: that of the result, but a COPY already known of leaves
\* it alone.
PreparedMessage ==
    IF asyncStatus \in {"READY", result.status} THEN Prepared.err ELSE errorMessage

ResultReady == InGetResult /\ asyncStatus \in {"READY"} \cup CopyStatuses

GetResultReturns ==
    /\ ResultReady
    /\ call.fn \in {"PQexecFinish", "PQgetResult"}
    /\ result' = NoResult
    /\ asyncStatus' = IF asyncStatus = "READY" THEN "BUSY" ELSE asyncStatus
    /\ UNCHANGED status
    /\ IF call.fn = "PQexecFinish" THEN FinishHandles(Prepared)
       ELSE /\ call' = NoCall
            /\ errorMessage' = PreparedMessage
            /\ UNCHANGED historyVars
    /\ UNCHANGED <<serverVars, wireVars, asked, queryclass, inBuffer, notifies, copied>>

\* PQgetResult has nothing more to return.
GetResultNull ==
    /\ InGetResult /\ asyncStatus = "IDLE"
    /\ \/ /\ call.fn = "PQexecFinish"
          /\ ExecReturns(call.last, call.last = NoResult)
       \/ /\ call.fn = "PQgetResult"
          /\ call' = NoCall
          /\ UNCHANGED historyVars
    /\ UNCHANGED <<serverVars, wireVars, asked, status, queryclass, copied, parserVars>>

-----------------------------------------------------------------------------
(* Sending a command. *)

Request(c, k) ==
    CASE c.class = "SIMPLE" -> Messages(<<"Q">>, k)
      [] c.class = "EXTENDED" -> Messages(<<"P", "B", "D", "E", "S">>, k)
      [] c.class = "PREPARE" -> Messages(<<"P", "S">>, k)
      [] c.class = "DESCRIBE" -> Messages(<<"D", "S">>, k)

\* What ends a COPY FROM STDIN.  After a query of the extended protocol, one
\* more Sync.
CopyEnd(type) ==
    Messages(IF queryclass = "SIMPLE" THEN <<type>> ELSE <<type, "S">>, Nobody)

\* PQsendQuery and its siblings.  A command that may be sent goes out and the
\* connection is busy; else the caller is told and nothing is sent.
Sends(c) ==
    /\ status = "OK" /\ asyncStatus = "IDLE"
    /\ queryclass' = c.class
    /\ result' = NoResult
    /\ errorMessage' = <<>>
    /\ Flush(Request(c, Len(asked')))
    /\ asyncStatus' = "BUSY"
    /\ UNCHANGED <<toClient, status, inBuffer>>

\* The command could not be written.  pqHandleSendFailure reads to the end
\* what the server may have said before it died; the parser, which is idle,
\* then makes notices of the errors in it.
SendFails(c) ==
    /\ status = "OK" /\ asyncStatus = "IDLE"
    /\ queryclass' = c.class
    /\ result' = NoResult
    /\ errorMessage' = <<Lost>>
    /\ FlushFails
    /\ inBuffer' = inBuffer \o toClient
    /\ toClient' = <<>>
    /\ status' = "BAD" \/ (link = "cut" /\ UNCHANGED status)
    /\ UNCHANGED asyncStatus

Refuses ==
    /\ status # "OK" \/ asyncStatus # "IDLE"
    /\ errorMessage' = <<Refused>>
    /\ UNCHANGED <<toServer, toClient, status, asyncStatus, queryclass, result, inBuffer>>

SendUnchanged == UNCHANGED <<serverVars, link, notifies, copied>>

\* PQsendQuery.
PQsendQuery(c) ==
    /\ Calls
    /\ Len(asked) < MaxCommands
    /\ \/ asked' = Append(asked, c) /\ Sends(c) /\ UNCHANGED call
       \/ asked' = Append(asked, c) /\ SendFails(c) /\ call' = InCall("parseInput")
       \/ UNCHANGED <<asked, call>> /\ Refuses
    /\ SendUnchanged

\* PQexec, PQexecParams, PQprepare, PQexecPrepared, PQdescribe...: first
\* PQexecStart discards what is left of the queries before.
PQexec(c) ==
    /\ Calls
    /\ Len(asked) < MaxCommands
    /\ asked' = Append(asked, c)
    /\ call' = InCall("PQexecStart")
    /\ UNCHANGED <<serverVars, wireVars, status, queryclass, copied, parserVars>>

\* A COPY IN is failed and a COPY OUT is drained.
ExecStartDiscards ==
    /\ ResultReady /\ call.fn = "PQexecStart"
    /\ result' = NoResult
    /\ asyncStatus' = "BUSY"
    /\ \/ /\ asyncStatus = "COPY_IN"
          /\ errorMessage' = <<>>
          /\ Flush(CopyEnd("f"))
          /\ UNCHANGED <<call, historyVars>>
       \/ /\ asyncStatus = "COPY_IN"
          /\ errorMessage' = <<Lost>>
          /\ FlushFails
          /\ ExecReturns(NoResult, TRUE)
       \/ /\ asyncStatus # "COPY_IN"
          /\ errorMessage' = PreparedMessage
          /\ IF status = "BAD" THEN ExecReturns(NoResult, TRUE)
             ELSE UNCHANGED <<call, historyVars>>
          /\ UNCHANGED toServer
    /\ UNCHANGED <<serverVars, toClient, link, asked, status, queryclass, inBuffer,
                   notifies, copied>>

ExecSends ==
    /\ InGetResult /\ call.fn = "PQexecStart" /\ asyncStatus = "IDLE"
    /\ UNCHANGED asked
    /\ \/ /\ Sends(asked[Current])
          /\ call' = InCall("PQexecFinish")
          /\ UNCHANGED historyVars
       \/ (SendFails(asked[Current]) \/ Refuses) /\ ExecReturns(NoResult, TRUE)
    /\ SendUnchanged

-----------------------------------------------------------------------------
(* The other calls of the application. *)

PQgetResult ==
    /\ Calls
    /\ asyncStatus # "IDLE" \/ inBuffer # <<>>
    /\ call' = InCall("PQgetResult")
    /\ UNCHANGED <<serverVars, wireVars, asked, status, queryclass, copied, parserVars>>

PQputCopyData ==
    /\ Calls
    /\ asyncStatus = "COPY_IN"
    /\ copied < MaxCopyData
    /\ copied' = copied + 1
    /\ Flush(Messages(<<"d">>, Nobody))
    /\ call' = InCall("parseInput")
    /\ UNCHANGED <<serverVars, toClient, link, asked, status, queryclass,
                   parserVars>>

\* With CopyDone, or with CopyFail.
PQputCopyEnd ==
    /\ Calls
    /\ asyncStatus = "COPY_IN"
    /\ \/ \E type \in {"c", "f"} : Flush(CopyEnd(type)) /\ errorMessage' = <<>>
       \/ FlushFails /\ errorMessage' = <<Lost>>
    /\ asyncStatus' = "BUSY"
    /\ UNCHANGED <<serverVars, toClient, link, asked, status, queryclass, result, inBuffer,
                   notifies, call, copied>>

PQgetCopyData ==
    /\ Calls
    /\ asyncStatus = "COPY_OUT"
    /\ call' = InCall("PQgetCopyData")
    /\ UNCHANGED <<serverVars, wireVars, asked, status, queryclass, copied,
                   parserVars>>

\* pqGetCopyData3: wait for a row; anything else than a row ends the COPY.
GetCopyDataStep ==
    /\ call.fn = "PQgetCopyData"
    /\ \/ /\ inBuffer = <<>> /\ status = "OK"
          /\ Arrives
          /\ UNCHANGED <<asyncStatus, notifies, call, status, errorMessage>>
       \/ /\ inBuffer = <<>>
          /\ ReadFails
          /\ errorMessage' = <<Lost>>
          /\ call' = NoCall
          /\ UNCHANGED <<toClient, asyncStatus, inBuffer, notifies>>
       \/ /\ inBuffer # <<>>
          /\ CASE Head(inBuffer).type = "A" ->
                      /\ Consume
                      /\ notifies' = Append(notifies, Head(inBuffer).cmd)
                      /\ UNCHANGED <<asyncStatus, call>>
               [] Head(inBuffer).type = "d" ->
                      /\ Consume
                      /\ call' = NoCall
                      /\ UNCHANGED <<asyncStatus, notifies>>
               [] OTHER ->
                      /\ asyncStatus' = "BUSY"
                      /\ call' = NoCall
                      /\ UNCHANGED <<inBuffer, notifies>>
          /\ UNCHANGED <<toClient, status, errorMessage>>
    /\ UNCHANGED <<serverVars, toServer, link, asked, queryclass, result, copied, historyVars>>

\* PQconsumeInput, then PQisBusy or PQnotifies: reads what there is, without
\* waiting, and parses it.
PQconsumeInput ==
    /\ Calls
    /\ \/ Arrives /\ status = "OK" /\ UNCHANGED <<status, errorMessage>>
       \/ ReadFails /\ errorMessage' = <<Lost>> /\ UNCHANGED <<inBuffer, toClient>>
    /\ call' = InCall("parseInput")
    /\ UNCHANGED <<serverVars, toServer, link, asked, queryclass, copied,
                   asyncStatus, result, notifies>>

\* A call that only parses is over when nothing more can be parsed.
ParseInputReturns ==
    /\ call.fn = "parseInput" /\ ~CanParse
    /\ call' = NoCall
    /\ UNCHANGED <<serverVars, wireVars, asked, status, queryclass, copied, historyVars,
                   parserVars>>

LibpqStep ==
    \/ ParseMessage \/ GetResultFails \/ GetResultReads \/ GetResultReturns
    \/ GetResultNull \/ ExecStartDiscards \/ ExecSends \/ GetCopyDataStep
    \/ ParseInputReturns

Application ==
    \/ \E c \in Commands : PQexec(c) \/ PQsendQuery(c)
    \/ PQgetResult \/ PQputCopyData \/ PQputCopyEnd \/ PQgetCopyData \/ PQconsumeInput
=============================================================================
