----------------------------- MODULE ClientHandler -----------------------------
(***************************************************************************)
(* One client connection: ClientHandler.handle (proxy/client_handler.py),  *)
(* which serves one request, and the loop of ReverseProxy.handle_connection*)
(* (proxy/proxy_server.py) that calls it once per request.                 *)
(*                                                                         *)
(* "at" says where the task is suspended:                                  *)
(*                                                                         *)
(*   "loop"     top of the loop, between two requests                      *)
(*   "head"     reads the head of a request                                *)
(*   "connect"  awaits pool.acquire_connection                             *)
(*   "send"     writes the request and streams its body                    *)
(*   "answer"   reads the head of the response                             *)
(*   "pause"    sleeps before a retry                                      *)
(*   "relay"    streams the response to the client                         *)
(*   "closed"   the connection is over                                     *)
(*                                                                         *)
(* The client and the upstream do what they like: any awaited operation may*)
(* end well, fail, or last until a timeout.  A message is reduced to what  *)
(* decides the control: a request is safe or not, keeps the connection or  *)
(* not, has a body or not; a response is 5xx or not, and its body has a    *)
(* known end ("sized", chunked ones included) or ends with the connection  *)
(* of the upstream ("open").  Bytes written after close() go nowhere.      *)
(***************************************************************************)
EXTENDS Naturals, Sequences

CONSTANTS
  MaxRetries,   \* retry.max_retries
  MaxRequests   \* keep_alive.max_requests

ASSUME HandlerAssumption == MaxRetries \in Nat /\ MaxRequests \in Nat \ {0}

VARIABLES
  at,
  served,       \* requests_handled of handle_connection
  (* the handler of the current request *)
  req,          \* the request
  keepAlive,    \* keep_alive
  attempt,      \* attempt
  committed,    \* response_committed
  successful,   \* _successful_request
  ahead,        \* its reader holds bytes that follow the request
  (* the client's socket *)
  shut,         \* client_writer is closed
  sent,         \* what the client got for the current request, in order
  (* history of the current request *)
  sends,        \* how often it was sent to an upstream
  bodyReads,    \* how often a body was read from the client
  report,       \* what record_metrics told the breaker
  fault,        \* whose fault ended it
  (* history of the connection *)
  lost          \* bytes the client sent were thrown away

handler == <<req, keepAlive, attempt, committed, successful, ahead>>
socket  == <<shut, sent>>
history == <<sends, bodyReads, report, fault>>
vars    == <<at, served, handler, socket, history, lost>>

Request == [safe : BOOLEAN, keep : BOOLEAN, body : BOOLEAN]

\* What reaches a client: the head of a response and its body, with an end that can
\* be told or not; an error of handle(); a 503 or 504 of handle_connection.
Parts == {"head", "sized", "open", "error", "reject"}

\* Nobody looks at the request before it is read.
NoRequest == [safe |-> TRUE, keep |-> TRUE, body |-> FALSE]

Init ==
  /\ at = "loop"
  /\ served = 0
  /\ req = NoRequest
  /\ keepAlive = TRUE
  /\ attempt = 0
  /\ committed = FALSE
  /\ successful = TRUE
  /\ ahead = FALSE
  /\ shut = FALSE
  /\ sent = <<>>
  /\ sends = 0
  /\ bodyReads = 0
  /\ report = "none"
  /\ fault = "none"
  /\ lost = FALSE

--------------------------------------------------------------------------------
(* The socket, the breaker, and the two ways out of handle() *)

\* client_writer.write: nothing arrives once the writer is closed.
Write(what) == sent' = IF shut THEN sent ELSE Append(sent, what)

\* record_metrics
Report(ok) == report' = IF ok THEN "success" ELSE "failure"

\* Mutant: _fail_request without "if self.response_committed".
FailTwice(who) ==
  /\ at' = "closed"
  /\ keepAlive' = FALSE
  /\ shut' = TRUE
  /\ fault' = who
  /\ Write("error") /\ committed' = TRUE /\ successful' = FALSE
  /\ Report(FALSE)
  /\ UNCHANGED <<served, req, attempt, ahead, sends, bodyReads, lost>>

\* An "except" clause of handle(), or a break after _fail_request: the client is
\* told unless the response has begun, its socket is closed, and the outcome is
\* reported.  The upstream connection has been released before.
Fail(who) ==
  /\ at' = "closed"
  /\ keepAlive' = FALSE
  /\ shut' = TRUE
  /\ fault' = who
  /\ IF committed
     THEN UNCHANGED <<sent, committed, successful>>
     ELSE Write("error") /\ committed' = TRUE /\ successful' = FALSE
  /\ Report(committed /\ successful)
  /\ UNCHANGED <<served, req, attempt, ahead, sends, bodyReads, lost>>

\* A ValueError (an undecodable head, a chunk line beyond the limit of the
\* StreamReader) is not caught by handle(): its "finally" closes the socket unless
\* the connection is kept, handle_connection answers 503, nothing is reported.
Escape(who) ==
  /\ at' = "closed"
  /\ IF keepAlive THEN Write("reject") ELSE UNCHANGED sent
  /\ shut' = TRUE
  /\ fault' = who
  /\ UNCHANGED <<served, handler, sends, bodyReads, report, lost>>

--------------------------------------------------------------------------------
(* handle_connection *)

\* The loop goes on: get_next_alive has an upstream, a new handler reads a request.
NextRequest ==
  /\ at = "loop"
  /\ at' = "head"
  /\ req' = NoRequest
  /\ keepAlive' = TRUE
  /\ attempt' = 0
  /\ committed' = FALSE
  /\ successful' = TRUE
  /\ ahead' = FALSE
  /\ sent' = <<>>
  /\ sends' = 0 /\ bodyReads' = 0 /\ report' = "none" /\ fault' = "none"
  /\ lost' = (lost \/ ahead)
  /\ UNCHANGED <<served, shut>>

\* No upstream is alive: 503, whatever the client was about to ask.
NoUpstream ==
  /\ at = "loop"
  /\ at' = "closed"
  /\ Write("reject")
  /\ shut' = TRUE
  /\ fault' = "upstream"
  /\ UNCHANGED <<served, handler, sends, bodyReads, report, lost>>

\* The proxy is stopping: the loop ends, or the task is cancelled where it is.
Stop ==
  /\ at # "closed"
  /\ at' = "closed"
  /\ shut' = TRUE
  /\ fault' = "stop"
  /\ UNCHANGED <<served, handler, sent, sends, bodyReads, report, lost>>

\* timeouts.total_ms for handle(), or timeouts.read_ms for the head of the request:
\* both end as TimeoutError in handle_connection, which answers 504; when the
\* connection is not kept, handle() has closed the socket before.
TimedOut ==
  /\ at \notin {"loop", "closed"}
  /\ at' = "closed"
  /\ IF keepAlive /\ ~committed THEN Write("reject") ELSE UNCHANGED sent
  /\ Report(successful)
  /\ shut' = TRUE
  /\ UNCHANGED <<served, handler, sends, bodyReads, fault, lost>>

--------------------------------------------------------------------------------
(* handle(): the request *)

ReadHead ==
  /\ at = "head"
  /\ req' \in Request
  /\ keepAlive' = req'.keep
  /\ ahead' \in BOOLEAN
  /\ at' = "connect"
  /\ UNCHANGED <<served, attempt, committed, successful, socket, history, lost>>

\* End of file, or a broken connection: handle_connection only closes.
ClientGone ==
  /\ at = "head"
  /\ at' = "closed"
  /\ shut' = TRUE
  /\ fault' = "client"
  /\ UNCHANGED <<served, handler, sent, sends, bodyReads, report, lost>>

HeadUndecodable == at = "head" /\ Escape("client")

\* The request is written to the upstream's connection at once.
Acquired ==
  /\ at = "connect"
  /\ at' = "send"
  /\ sends' = sends + 1
  /\ UNCHANGED <<served, handler, socket, bodyReads, report, fault, lost>>

\* The pool is closing or full, or the upstream cannot be reached.
AcquireFails == at = "connect" /\ \E who \in {"proxy", "upstream"} : Fail(who)

\* stream_request has copied the body, if there is one.
RequestSent ==
  /\ at = "send"
  /\ at' = "answer"
  /\ bodyReads' = IF req.body THEN bodyReads + 1 ELSE bodyReads
  /\ UNCHANGED <<served, handler, socket, sends, report, fault, lost>>

\* The upstream does not take the request, or the client does not deliver its body.
SendFails ==
  /\ at = "send"
  /\ Fail("upstream") \/ (req.body /\ Fail("client"))

BodyLineTooLong == at = "send" /\ req.body /\ Escape("client")

--------------------------------------------------------------------------------
(* handle(): the response *)

\* Timeout, reset, or the connection is closed without a response.
NoAnswer == at = "answer" /\ Fail("upstream")

AnswerUndecodable == at = "answer" /\ Escape("upstream")

\* Mutant: any method is retried.
RetriesAny == attempt < MaxRetries

\* Mutant: one attempt too many.
RetriesOneMore == req.safe /\ attempt <= MaxRetries

\* _should_retry, for a 5xx
Retries == req.safe /\ attempt < MaxRetries

Retry ==
  /\ at = "answer"
  /\ Retries
  /\ at' = "pause"
  /\ UNCHANGED <<served, handler, socket, history, lost>>

\* Mutant: the "finally" clause closes the socket of every attempt.
NextAttemptClosing ==
  /\ at = "pause"
  /\ at' = "connect"
  /\ attempt' = attempt + 1
  /\ shut' = TRUE
  /\ UNCHANGED <<served, req, keepAlive, committed, successful, ahead, sent, history, lost>>

\* "continue": the "finally" clause runs, and closes the client's socket unless
\* the connection is kept.
NextAttempt ==
  /\ at = "pause"
  /\ at' = "connect"
  /\ attempt' = attempt + 1
  /\ shut' = (shut \/ ~keepAlive)
  /\ UNCHANGED <<served, req, keepAlive, committed, successful, ahead, sent, history, lost>>

\* A 5xx that is not retried becomes a 502.
FinalError == at = "answer" /\ ~Retries /\ Fail("upstream")

Answer ==
  /\ at = "answer"
  /\ ~shut
  /\ at' = "relay"
  /\ Write("head")
  /\ committed' = TRUE
  /\ UNCHANGED <<served, req, keepAlive, attempt, successful, ahead, shut, history, lost>>

\* The client's socket is closed already: drain() raises ConnectionResetError, and
\* response_committed is set.
AnswerToNobody ==
  /\ at = "answer"
  /\ shut
  /\ at' = "closed"
  /\ committed' = TRUE
  /\ Report(successful)
  /\ UNCHANGED <<served, req, keepAlive, attempt, successful, ahead, socket, sends,
                 bodyReads, fault, lost>>

\* Mutant: handle() returns True whatever the request wanted.
RelayedKeeping ==
  /\ at = "relay"
  /\ \E body \in {"sized", "open"} : Write(body)
  /\ Report(successful)
  /\ shut' = ~keepAlive
  /\ served' = served + 1
  /\ at' = IF served + 1 < MaxRequests THEN "loop" ELSE "closed"
  /\ UNCHANGED <<handler, sends, bodyReads, fault, lost>>

\* The whole response is with the client; the loop goes on if the connection is
\* kept and has requests left.
Relayed ==
  /\ at = "relay"
  /\ \E body \in {"sized", "open"} : Write(body)
  /\ Report(successful)
  /\ shut' = (~keepAlive \/ served + 1 >= MaxRequests)
  /\ served' = IF keepAlive THEN served + 1 ELSE served
  /\ at' = IF shut' THEN "closed" ELSE "loop"
  /\ UNCHANGED <<handler, sends, bodyReads, fault, lost>>

\* The response breaks off; it is too late to say so.
RelayFails == at = "relay" /\ \E who \in {"client", "upstream"} : Fail(who)

RelayLineTooLong == at = "relay" /\ Escape("upstream")

--------------------------------------------------------------------------------
Next ==
  \/ NextRequest \/ NoUpstream \/ Stop \/ TimedOut
  \/ ReadHead \/ ClientGone \/ HeadUndecodable
  \/ Acquired \/ AcquireFails
  \/ RequestSent \/ SendFails \/ BodyLineTooLong
  \/ NoAnswer \/ AnswerUndecodable \/ Retry \/ NextAttempt \/ FinalError
  \/ Answer \/ AnswerToNobody \/ Relayed \/ RelayFails \/ RelayLineTooLong

Spec == Init /\ [][Next]_vars

--------------------------------------------------------------------------------
(* Properties *)

\* Every variable has its type.
TypeOK ==
  /\ at \in {"loop", "head", "connect", "send", "answer", "pause", "relay", "closed"}
  /\ served \in 0..MaxRequests
  /\ req \in Request
  /\ keepAlive \in BOOLEAN
  /\ attempt \in 0..MaxRetries
  /\ committed \in BOOLEAN
  /\ successful \in BOOLEAN
  /\ ahead \in BOOLEAN
  /\ shut \in BOOLEAN
  /\ sent \in Seq(Parts)
  /\ sends \in 0..(MaxRetries + 1)
  /\ bodyReads \in 0..(MaxRetries + 1)
  /\ report \in {"none", "success", "failure"}
  /\ fault \in {"none", "client", "upstream", "proxy", "stop"}
  /\ lost \in BOOLEAN

\* handle_connection takes the next request from a connection only when the one
\* before was answered completely by an upstream, its body was read, the outcome
\* was reported and the socket is open: no failed, cut off or refused exchange is
\* ever followed by another on the same connection.
ReadyForNext ==
  at = "loop" /\ served > 0 =>
    /\ Len(sent) = 2 /\ sent[1] = "head" /\ sent[2] \in {"sized", "open"}
    /\ req.body => bodyReads > 0
    /\ req.keep /\ ~shut
    /\ report = "success"

\* handle() begins one answer per request, through all attempts, exceptions and
\* timeouts: an upstream's response or an error, and nothing before it.
HandlerAnswersOnce ==
  \A i \in 1..Len(sent) : sent[i] \in {"head", "error"} => i = 1

\* Part of the current answer.
Got(part) == \E i \in 1..Len(sent) : sent[i] = part

\* A request is sent again only if it is safe to repeat, and to nobody once the
\* client has been answered.
ResendsJustified ==
  [][sends' > sends => ~committed /\ (sends = 0 \/ req.safe)]_vars

\* The reports are those that the breakers expect (RequestLife): one per request at
\* most, about an upstream that was chosen and moved at most MaxRetries times, and
\* never a failure once its response has begun, however the client behaves then.
Life == INSTANCE RequestLife
          WITH stage   <- CASE at \in {"loop", "closed"} -> "none"
                            [] at = "relay" -> "answered"
                            [] OTHER -> "chosen",
               tries   <- CASE at \in {"loop", "closed"} -> 0
                            [] at = "pause" -> attempt + 1
                            [] OTHER -> attempt,
               verdict <- report
ImplementsLife == Life!Spec

\* An answer that handle() believes to have given has reached an open socket, unless
\* a request without keep-alive was retried: no other path closes it too early.
CommittedIsSeen == committed /\ (req.keep \/ attempt = 0) => sent # <<>>

--------------------------------------------------------------------------------
(* Promised by documentation or messages, and not kept: see README.md, section 3 *)

\* README, Retry: a failed attempt is repeated, on another upstream.  When a later
\* attempt gets a response, the client gets it.
RetriedIsAnswered ==
  at = "closed" /\ attempt > 0 /\ committed /\ fault = "none" => sent # <<>>

\* README, total_ms is the limit of the whole cycle of a request, and
\* handle_connection answers 504 when it is over.
TimeoutIsAnswered ==
  at = "closed" /\ report # "none" /\ attempt = 0 /\ fault = "none" => sent # <<>>

\* "HALF_OPEN -> CLOSED (the upstream has recovered)": a success is only reported
\* of an upstream that answered completely, as far as the client listened.
SuccessIsEarned ==
  report = "success" => fault = "client" \/ Got("sized") \/ Got("open")

\* README, Circuit Breaker: FAILING UPSTREAMS are cut off.  What the client did
\* wrong is not held against the upstream.
BlamesUpstreamOnly == report = "failure" => fault # "client"

\* BodyStreamer: "after streaming, reader is ready to read the next request".
NothingLost == ~lost

\* The same sentence, for a request with a body that is retried: the second
\* reading takes what follows the request.
BodyReadOnce == bodyReads <= 1

\* handle_connection: several requests on one connection.  The client must be able
\* to tell where the response ends before it can send the next one.
ResponseEnds == at = "loop" => ~Got("open")
================================================================================
