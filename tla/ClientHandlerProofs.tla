-------------------------- MODULE ClientHandlerProofs --------------------------
(***************************************************************************)
(* Theorems about ClientHandler.  Their invariant says, for each place     *)
(* where the task may be suspended, what has been done for the current     *)
(* request: what the client has got, how often the request was sent and    *)
(* its body read, whether the socket is open.  Every answer is the first   *)
(* because nothing is sent before "relay"; the reports are those of        *)
(* RequestLife because the response has not begun before it either.        *)
(***************************************************************************)
EXTENDS ClientHandler, TLAPS

\* A request is being handled.
Busy == at \in {"head", "connect", "send", "answer", "pause", "relay"}

\* handle() has told the client nothing yet, and nothing has gone wrong.
Unanswered == sent = <<>> /\ ~committed /\ successful

\* What the client has, by place.
Told ==
  /\ at \in {"head", "connect", "send", "answer", "pause"} => Unanswered
  /\ at = "relay" => sent = <<"head">> /\ committed /\ successful /\ ~shut
  /\ at = "loop" /\ served = 0 => Unanswered

\* How often the request was sent, and why again.
Counted ==
  /\ at \in {"head", "connect"} => sends = attempt /\ bodyReads <= attempt
  /\ at = "send" => sends = attempt + 1 /\ bodyReads <= attempt
  /\ at \in {"answer", "pause", "relay"} => sends = attempt + 1 /\ bodyReads <= attempt + 1
  /\ at = "head" => attempt = 0
  /\ at \in {"answer", "pause", "relay"} /\ req.body => bodyReads > 0
  /\ at = "pause" => req.safe /\ attempt < MaxRetries
  /\ Busy /\ attempt > 0 => req.safe

\* The socket is closed early only by a retry that does not keep the connection.
Open ==
  /\ Busy => keepAlive = req.keep /\ served < MaxRequests
  /\ at = "loop" => ~shut /\ served < MaxRequests
  /\ Busy /\ shut => ~req.keep /\ attempt > 0

IInv == TypeOK /\ Told /\ Counted /\ Open /\ ReadyForNext /\ HandlerAnswersOnce /\ CommittedIsSeen

--------------------------------------------------------------------------------
(* What is written *)

\* Nothing but the first part of an answer begins one.
Once(s) == \A i \in 1..Len(s) : s[i] \in {"head", "error"} => i = 1

LEMMA WriteType ==
  ASSUME sent \in Seq(Parts), NEW what \in Parts, Write(what)
  PROVE  sent' \in Seq(Parts)
<1>1. Append(sent, what) \in Seq(Parts)
  OBVIOUS
<1> QED
  BY <1>1 DEF Write

\* A part that begins nothing may follow anything.
LEMMA WriteMore ==
  ASSUME sent \in Seq(Parts), Once(sent), NEW what \in {"sized", "open", "reject"}, Write(what)
  PROVE  Once(sent')
<1>1. CASE shut
  BY <1>1 DEF Write
<1>2. CASE ~shut
  <2>1. sent' = Append(sent, what)
    BY <1>2 DEF Write
  <2>2. Len(sent') = Len(sent) + 1
    BY <2>1
  <2>3. ASSUME NEW i \in 1..Len(sent'), sent'[i] \in {"head", "error"}
        PROVE  i = 1
    <3>1. CASE i = Len(sent) + 1
      BY <2>1, <2>3, <3>1
    <3>2. CASE i # Len(sent) + 1
      <4>1. i \in 1..Len(sent) /\ sent'[i] = sent[i]
        BY <2>1, <2>2, <3>2
      <4> QED
        BY <2>3, <4>1 DEF Once
    <3> QED
      BY <3>1, <3>2
  <2> QED
    BY <2>3 DEF Once
<1> QED
  BY <1>1, <1>2

LEMMA WriteFirst ==
  ASSUME sent = <<>>, NEW what, Write(what)
  PROVE  sent' = (IF shut THEN <<>> ELSE <<what>>) /\ Once(sent')
<1>1. sent' = IF shut THEN <<>> ELSE <<what>>
  BY DEF Write
<1>2. Once(<<>>) /\ Once(<<what>>)
  BY DEF Once
<1> QED
  BY <1>1, <1>2

--------------------------------------------------------------------------------
(* The steps that end the connection: Fail, Escape, and their like *)

Bookkeeping == <<served, req, attempt, ahead, sends, bodyReads, lost>>

LEMMA Closing ==
  ASSUME IInv, at' = "closed", UNCHANGED Bookkeeping,
         keepAlive' \in BOOLEAN, committed' \in BOOLEAN, successful' \in BOOLEAN,
         shut' \in BOOLEAN, report' \in {"none", "success", "failure"},
         fault' \in {"none", "client", "upstream", "proxy", "stop"},
         sent' \in Seq(Parts), Once(sent'),
         committed' /\ (req.keep \/ attempt = 0) => sent' # <<>>
  PROVE  IInv'
<1>1. TypeOK'
  BY DEF IInv, TypeOK, Bookkeeping, Parts
<1>2. Told' /\ Counted' /\ Open' /\ ReadyForNext'
  BY DEF Told, Counted, Open, ReadyForNext, Busy
<1>3. HandlerAnswersOnce'
  BY DEF HandlerAnswersOnce, Once
<1>4. CommittedIsSeen'
  BY DEF CommittedIsSeen, Bookkeeping
<1> QED
  BY <1>1, <1>2, <1>3, <1>4 DEF IInv

LEMMA Typed ==
  ASSUME IInv
  PROVE  sent \in Seq(Parts) /\ Once(sent)
BY DEF IInv, TypeOK, HandlerAnswersOnce, Once, Parts

LEMMA FailStep ==
  ASSUME IInv, Busy, at # "head", NEW who \in {"client", "upstream", "proxy"}, Fail(who)
  PROVE  IInv'
<1>1. CASE committed
  <2>1. UNCHANGED <<sent, committed, successful>>
    BY <1>1 DEF Fail
  <2> QED
    BY <1>1, <2>1, Closing, Typed
       DEF Fail, Report, Bookkeeping, IInv, TypeOK, CommittedIsSeen
<1>2. CASE ~committed
  <2>1. Write("error") /\ committed' = TRUE /\ successful' = FALSE
    BY <1>2 DEF Fail
  <2>2. sent = <<>>
    BY <1>2 DEF IInv, Told, Unanswered, Busy
  <2>3. sent' = (IF shut THEN <<>> ELSE <<"error">>) /\ Once(sent')
    BY <2>1, <2>2, WriteFirst
  <2>4. sent' \in Seq(Parts)
    BY <2>1, Typed, WriteType DEF Parts
  <2>5. req.keep \/ attempt = 0 => ~shut
    BY DEF IInv, Open
  <2> QED
    BY <1>2, <2>1, <2>3, <2>4, <2>5, Closing DEF Fail, Report, Bookkeeping, IInv, TypeOK
<1> QED
  BY <1>1, <1>2 DEF IInv, TypeOK

LEMMA EscapeStep ==
  ASSUME IInv, Busy, NEW who \in {"client", "upstream"}, Escape(who)
  PROVE  IInv'
<1>1. sent' \in Seq(Parts) /\ Once(sent') /\ (sent # <<>> => sent' # <<>>)
  <2>1. CASE keepAlive
    <3>1. Write("reject")
      BY <2>1 DEF Escape
    <3>2. sent # <<>> => sent' # <<>>
      BY <3>1, Typed DEF Write
    <3> QED
      BY <3>1, <3>2, Typed, WriteType, WriteMore DEF Parts
  <2>2. CASE ~keepAlive
    BY <2>2, Typed DEF Escape
  <2> QED
    BY <2>1, <2>2
<1> QED
  BY <1>1, Closing DEF Escape, handler, Bookkeeping, IInv, TypeOK, CommittedIsSeen

LEMMA TimedOutStep ==
  ASSUME IInv, TimedOut
  PROVE  IInv'
<1>1. sent' \in Seq(Parts) /\ Once(sent') /\ (sent # <<>> => sent' # <<>>)
  <2>1. CASE keepAlive /\ ~committed
    <3>1. Write("reject")
      BY <2>1 DEF TimedOut
    <3>2. sent # <<>> => sent' # <<>>
      BY <3>1, Typed DEF Write
    <3> QED
      BY <3>1, <3>2, Typed, WriteType, WriteMore DEF Parts
  <2>2. CASE ~(keepAlive /\ ~committed)
    BY <2>2, Typed DEF TimedOut
  <2> QED
    BY <2>1, <2>2
<1> QED
  BY <1>1, Closing DEF TimedOut, Report, handler, Bookkeeping, IInv, TypeOK, CommittedIsSeen

LEMMA NoUpstreamStep ==
  ASSUME IInv, NoUpstream
  PROVE  IInv'
<1>1. Write("reject") /\ (sent # <<>> => sent' # <<>>)
  BY Typed DEF NoUpstream, Write
<1>2. sent' \in Seq(Parts) /\ Once(sent')
  BY <1>1, Typed, WriteType, WriteMore DEF Parts
<1> QED
  BY <1>1, <1>2, Closing DEF NoUpstream, handler, Bookkeeping, IInv, TypeOK, CommittedIsSeen

LEMMA QuietStep ==
  ASSUME IInv, Stop \/ ClientGone
  PROVE  IInv'
<1>1. sent' \in Seq(Parts) /\ Once(sent') /\ sent' = sent /\ committed' = committed
  BY Typed DEF Stop, ClientGone, handler
<1>2. committed' /\ (req.keep \/ attempt = 0) => sent' # <<>>
  BY <1>1 DEF IInv, CommittedIsSeen
<1>3. committed' \in BOOLEAN /\ keepAlive' \in BOOLEAN /\ successful' \in BOOLEAN
      /\ report' \in {"none", "success", "failure"}
  BY DEF Stop, ClientGone, handler, IInv, TypeOK
<1> QED
  BY <1>1, <1>2, <1>3, Closing DEF Stop, ClientGone, handler, Bookkeeping

LEMMA AnswerToNobodyStep ==
  ASSUME IInv, AnswerToNobody
  PROVE  IInv'
<1>1. ~(req.keep \/ attempt = 0)
  BY DEF AnswerToNobody, IInv, Open, Busy
<1> QED
  BY <1>1, Closing, Typed
     DEF AnswerToNobody, Report, socket, Bookkeeping, IInv, TypeOK

--------------------------------------------------------------------------------
(* The steps of a request *)

LEMMA NoAttempts == 0 \in 0..MaxRetries /\ 0 \in 0..(MaxRetries + 1) /\ 0 \in 0..MaxRequests
  BY HandlerAssumption

LEMMA NextRequestStep ==
  ASSUME IInv, NextRequest
  PROVE  IInv'
<1>1. TypeOK'
  <2>1. NoRequest \in Request /\ <<>> \in Seq(Parts)
    BY DEF NoRequest, Request
  <2> QED
    <3>1. lost' \in BOOLEAN /\ req' \in Request /\ sent' \in Seq(Parts)
      BY <2>1 DEF NextRequest
    <3>2. served' \in 0..MaxRequests /\ shut' \in BOOLEAN
      BY DEF NextRequest, IInv, TypeOK
    <3>3. /\ at' = "head" /\ keepAlive' = TRUE /\ attempt' = 0 /\ committed' = FALSE
          /\ successful' = TRUE /\ ahead' = FALSE /\ sends' = 0 /\ bodyReads' = 0
          /\ report' = "none" /\ fault' = "none"
      BY DEF NextRequest
    <3> QED
      BY <3>1, <3>2, <3>3, NoAttempts DEF TypeOK
<1>2. Told' /\ Counted'
  BY DEF NextRequest, Told, Unanswered, Counted, Busy, NoRequest
<1>3. Open'
  BY DEF NextRequest, IInv, Open, Busy, NoRequest
<1>4. ReadyForNext' /\ HandlerAnswersOnce' /\ CommittedIsSeen'
  BY DEF NextRequest, ReadyForNext, HandlerAnswersOnce, CommittedIsSeen
<1> QED
  BY <1>1, <1>2, <1>3, <1>4 DEF IInv

\* From the head to the sleep before a retry: the client gets nothing.
LEMMA ExchangeStep ==
  ASSUME IInv, ReadHead \/ Acquired \/ RequestSent \/ Retry \/ NextAttempt
  PROVE  IInv'
<1>1. TypeOK'
  <2>1. CASE ReadHead
    BY <2>1 DEF IInv, TypeOK, ReadHead, socket, history, Request
  <2>2. CASE Acquired
    BY <2>2, HandlerAssumption DEF IInv, TypeOK, Acquired, Counted, handler, socket
  <2>3. CASE RequestSent
    BY <2>3, HandlerAssumption DEF IInv, TypeOK, RequestSent, Counted, handler, socket
  <2>4. CASE Retry
    BY <2>4 DEF IInv, TypeOK, Retry, handler, socket, history
  <2>5. CASE NextAttempt
    BY <2>5, HandlerAssumption DEF IInv, TypeOK, NextAttempt, Counted, history
  <2> QED
    BY <2>1, <2>2, <2>3, <2>4, <2>5
<1>2. at \in {"head", "connect", "send", "answer", "pause"} /\ Unanswered
  BY DEF IInv, Told, ReadHead, Acquired, RequestSent, Retry, NextAttempt
<1>3. at' \in {"connect", "send", "answer", "pause"} /\ Unanswered'
  <2>1. at' \in {"connect", "send", "answer", "pause"}
    BY DEF ReadHead, Acquired, RequestSent, Retry, NextAttempt
  <2>2. sent' = sent /\ committed' = committed /\ successful' = successful
    BY DEF ReadHead, Acquired, RequestSent, Retry, NextAttempt, handler, socket
  <2> QED
    BY <1>2, <2>1, <2>2, Zenon DEF Unanswered
<1>4. Told' /\ ReadyForNext' /\ HandlerAnswersOnce' /\ CommittedIsSeen'
  BY <1>3 DEF Told, Unanswered, ReadyForNext, HandlerAnswersOnce, CommittedIsSeen
<1>5. Counted'
  <2>1. CASE ReadHead
    BY <2>1 DEF IInv, TypeOK, Counted, ReadHead, Busy, history
  <2>2. CASE Acquired
    BY <2>2 DEF IInv, TypeOK, Counted, Acquired, Busy, handler
  <2>3. CASE RequestSent
    BY <2>3 DEF IInv, TypeOK, Counted, RequestSent, Busy, handler
  <2>4. CASE Retry
    BY <2>4 DEF IInv, TypeOK, Counted, Retry, Retries, Busy, handler, history
  <2>5. CASE NextAttempt
    BY <2>5 DEF IInv, TypeOK, Counted, NextAttempt, Busy, history
  <2> QED
    BY <2>1, <2>2, <2>3, <2>4, <2>5
<1>6. Open'
  <2>1. CASE ReadHead
    BY <2>1 DEF IInv, TypeOK, Open, Counted, ReadHead, Busy, NoRequest, socket
  <2>2. CASE NextAttempt
    BY <2>2 DEF IInv, TypeOK, Open, NextAttempt, Busy
  <2>3. CASE Acquired \/ RequestSent \/ Retry
    BY <2>3 DEF IInv, Open, Acquired, RequestSent, Retry, Busy, handler, socket
  <2> QED
    BY <2>1, <2>2, <2>3
<1> QED
  BY <1>1, <1>4, <1>5, <1>6 DEF IInv

LEMMA AnswerStep ==
  ASSUME IInv, Answer
  PROVE  IInv'
<1>1. Write("head") /\ ~shut /\ sent = <<>>
  BY DEF Answer, IInv, Told, Unanswered
<1>2. sent' = <<"head">> /\ Once(sent') /\ sent' \in Seq(Parts)
  BY <1>1, WriteFirst, WriteType, Typed DEF Parts
<1>3. TypeOK'
  BY <1>2 DEF IInv, TypeOK, Answer, Parts, history
<1>4. Told' /\ ReadyForNext' /\ CommittedIsSeen'
  BY <1>2 DEF Answer, IInv, Told, Unanswered, ReadyForNext, CommittedIsSeen
<1>5. HandlerAnswersOnce'
  BY <1>2 DEF HandlerAnswersOnce, Once
<1>6. Counted' /\ Open'
  BY DEF Answer, IInv, Counted, Open, Busy, history
<1> QED
  BY <1>3, <1>4, <1>5, <1>6 DEF IInv

LEMMA RelayedStep ==
  ASSUME IInv, Relayed
  PROVE  IInv'
<1>1. PICK body \in {"sized", "open"} : Write(body)
  BY DEF Relayed
<1>2. Len(sent') = 2 /\ sent'[1] = "head" /\ sent'[2] = body
  <2>1. sent = <<"head">> /\ sent' = Append(sent, body)
    BY <1>1 DEF Relayed, Write, IInv, Told
  <2> QED
    BY <2>1
<1>3. sent' \in Seq(Parts) /\ Once(sent')
  BY <1>1, Typed, WriteType, WriteMore DEF Parts
<1>4. at' \in {"loop", "closed"} /\ UNCHANGED handler /\ report' = "success"
  BY DEF Relayed, Report, IInv, Told
<1>5. served' \in 0..MaxRequests /\ shut' \in BOOLEAN
      /\ (at' = "loop" => served' < MaxRequests /\ ~shut' /\ keepAlive)
  <2>1. served \in 0..MaxRequests /\ served < MaxRequests /\ keepAlive \in BOOLEAN
    BY DEF Relayed, IInv, TypeOK, Open, Busy
  <2>2. shut' = (~keepAlive \/ served + 1 >= MaxRequests)
    BY DEF Relayed
  <2>3. shut' \in BOOLEAN
    BY <2>2, Zenon
  <2>4. at' = "loop" => ~shut'
    BY Zenon DEF Relayed
  <2>5. ~shut' => keepAlive /\ ~(served + 1 >= MaxRequests)
    BY <2>2, Zenon
  <2>6. served' \in {served, served + 1} /\ (keepAlive => served' = served + 1)
    BY DEF Relayed
  <2> QED
    BY <2>1, <2>3, <2>4, <2>5, <2>6, HandlerAssumption
<1>6. TypeOK'
  BY <1>3, <1>4, <1>5 DEF Relayed, IInv, TypeOK, handler, Parts
<1>7. at' = "loop" => served' > 0
  BY <1>5 DEF Relayed, IInv, TypeOK
<1>8. Told' /\ Counted' /\ Open'
  BY <1>4, <1>5, <1>7 DEF Told, Counted, Open, Busy
<1>9. ReadyForNext'
  BY <1>2, <1>4, <1>5 DEF Relayed, ReadyForNext, IInv, Open, Counted, Busy, handler
<1>10. HandlerAnswersOnce' /\ CommittedIsSeen'
  BY <1>2, <1>3 DEF HandlerAnswersOnce, Once, CommittedIsSeen
<1> QED
  BY <1>6, <1>8, <1>9, <1>10 DEF IInv

--------------------------------------------------------------------------------
(* The invariant *)

LEMMA InvInit == Init => IInv
<1> SUFFICES ASSUME Init PROVE IInv
  OBVIOUS
<1>1. TypeOK
  <2>1. NoRequest \in Request /\ <<>> \in Seq(Parts)
    BY DEF NoRequest, Request
  <2>2. req \in Request /\ sent \in Seq(Parts)
    BY <2>1 DEF Init
  <2> QED
    BY <2>2, NoAttempts DEF Init, TypeOK
<1>2. Told /\ Counted /\ Open
  BY HandlerAssumption DEF Init, Told, Unanswered, Counted, Open, Busy
<1>3. ReadyForNext /\ HandlerAnswersOnce /\ CommittedIsSeen
  BY DEF Init, ReadyForNext, HandlerAnswersOnce, CommittedIsSeen
<1> QED
  BY <1>1, <1>2, <1>3 DEF IInv

LEMMA InvStep == IInv /\ [Next]_vars => IInv'
<1> SUFFICES ASSUME IInv, [Next]_vars PROVE IInv'
  OBVIOUS
<1>1. CASE NextRequest
  BY <1>1, NextRequestStep
<1>2. CASE NoUpstream
  BY <1>2, NoUpstreamStep
<1>3. CASE Stop \/ ClientGone
  BY <1>3, QuietStep
<1>4. CASE TimedOut
  BY <1>4, TimedOutStep
<1>5. CASE ReadHead \/ Acquired \/ RequestSent \/ Retry \/ NextAttempt
  BY <1>5, ExchangeStep
<1>6. CASE AcquireFails \/ SendFails \/ NoAnswer \/ FinalError \/ RelayFails
  <2>1. PICK who \in {"client", "upstream", "proxy"} : Fail(who)
    BY <1>6 DEF AcquireFails, SendFails, NoAnswer, FinalError, RelayFails
  <2>2. Busy /\ at # "head"
    BY <1>6 DEF AcquireFails, SendFails, NoAnswer, FinalError, RelayFails, Busy
  <2> QED
    BY <2>1, <2>2, FailStep
<1>7. CASE HeadUndecodable \/ BodyLineTooLong \/ AnswerUndecodable \/ RelayLineTooLong
  <2>1. PICK who \in {"client", "upstream"} : Escape(who)
    BY <1>7 DEF HeadUndecodable, BodyLineTooLong, AnswerUndecodable, RelayLineTooLong
  <2>2. Busy
    BY <1>7 DEF HeadUndecodable, BodyLineTooLong, AnswerUndecodable, RelayLineTooLong, Busy
  <2> QED
    BY <2>1, <2>2, EscapeStep
<1>8. CASE Answer
  BY <1>8, AnswerStep
<1>9. CASE AnswerToNobody
  BY <1>9, AnswerToNobodyStep
<1>10. CASE Relayed
  BY <1>10, RelayedStep
<1>11. CASE UNCHANGED vars
  BY <1>11 DEF vars, handler, socket, history, IInv, TypeOK, Told, Unanswered, Counted, Open,
               Busy, ReadyForNext, HandlerAnswersOnce, CommittedIsSeen
<1> QED
  BY <1>1, <1>2, <1>3, <1>4, <1>5, <1>6, <1>7, <1>8, <1>9, <1>10, <1>11 DEF Next

LEMMA Invariance == Spec => []IInv
  BY InvInit, InvStep, PTL DEF Spec

--------------------------------------------------------------------------------
(* The theorems *)

\* Every variable of the connection keeps its type, and no request is sent more than
\* 1 + retry.max_retries times.
THEOREM TypeCorrect == Spec => []TypeOK
<1>1. IInv => TypeOK
  BY DEF IInv
<1> QED
  BY <1>1, Invariance, PTL

\* A connection is reused only after a complete exchange: the loop of
\* handle_connection comes round with the response relayed and reported.
THEOREM ReusedWhenReady == Spec => []ReadyForNext
<1>1. IInv => ReadyForNext
  BY DEF IInv
<1> QED
  BY <1>1, Invariance, PTL

\* Through all attempts, exceptions and timeouts handle() begins one answer.
THEOREM AnsweredOnce == Spec => []HandlerAnswersOnce
<1>1. IInv => HandlerAnswersOnce
  BY DEF IInv
<1> QED
  BY <1>1, Invariance, PTL

\* What handle() believes to have answered the client has got, but for the retries
\* without keep-alive.
THEOREM CommitmentsSeen == Spec => []CommittedIsSeen
<1>1. IInv => CommittedIsSeen
  BY DEF IInv
<1> QED
  BY <1>1, Invariance, PTL

LEMMA SendsOften ==
  ASSUME IInv, [Next]_vars, sends' > sends
  PROVE  Acquired
<1>1. CASE NextRequest
  BY <1>1 DEF NextRequest, IInv, TypeOK
<1>2. CASE NoUpstream \/ Stop \/ TimedOut \/ ReadHead \/ ClientGone
  BY <1>2 DEF NoUpstream, Stop, TimedOut, ReadHead, ClientGone, history, IInv, TypeOK
<1>3. ASSUME NEW who, Fail(who) PROVE sends' = sends
  BY <1>3 DEF Fail
<1>4. ASSUME NEW who, Escape(who) PROVE sends' = sends
  BY <1>4 DEF Escape
<1>5. CASE AcquireFails \/ SendFails \/ NoAnswer \/ FinalError \/ RelayFails
  BY <1>3, <1>5 DEF AcquireFails, SendFails, NoAnswer, FinalError, RelayFails, IInv, TypeOK
<1>6. CASE HeadUndecodable \/ BodyLineTooLong \/ AnswerUndecodable \/ RelayLineTooLong
  BY <1>4, <1>6
     DEF HeadUndecodable, BodyLineTooLong, AnswerUndecodable, RelayLineTooLong, IInv, TypeOK
<1>7. CASE RequestSent \/ Retry \/ NextAttempt \/ Answer \/ AnswerToNobody \/ Relayed
  BY <1>7 DEF RequestSent, Retry, NextAttempt, Answer, AnswerToNobody, Relayed, history,
              IInv, TypeOK
<1>8. CASE UNCHANGED vars
  BY <1>8 DEF vars, history, IInv, TypeOK
<1> QED
  BY <1>1, <1>2, <1>5, <1>6, <1>7, <1>8 DEF Next

\* A request is sent again only if it is safe to repeat, and never after the client
\* has been answered.
THEOREM ResentWithReason == Spec => ResendsJustified
<1>1. IInv /\ [Next]_vars => [sends' > sends => ~committed /\ (sends = 0 \/ req.safe)]_vars
  <2> SUFFICES ASSUME IInv, [Next]_vars, sends' > sends
               PROVE  ~committed /\ (sends = 0 \/ req.safe)
    OBVIOUS
  <2>1. Acquired
    BY SendsOften
  <2>2. at = "connect"
    BY <2>1 DEF Acquired
  <2>3. ~committed
    BY <2>2, Zenon DEF IInv, Told, Unanswered
  <2>4. sends = attempt /\ (attempt > 0 => req.safe) /\ attempt \in Nat
    BY <2>2 DEF IInv, Counted, Busy, TypeOK
  <2> QED
    BY <2>3, <2>4
<1> QED
  BY <1>1, Invariance, PTL DEF Spec, ResendsJustified

--------------------------------------------------------------------------------
(* The handler reports as RequestLife says *)

LEMMA LifeInit == Init => Life!Init
  BY DEF Init, Life!Init

LEMMA LifeEnds ==
  ASSUME Busy, at' = "closed", report' = report
  PROVE  Life!Abandon
BY DEF Busy, Life!Abandon, Life!End

LEMMA LifeSucceeds ==
  ASSUME Busy, at' \in {"loop", "closed"}, report' = "success"
  PROVE  Life!Succeed
BY DEF Busy, Life!Succeed, Life!End

LEMMA LifeFails ==
  ASSUME IInv, Busy, at # "head", NEW who, Fail(who)
  PROVE  Life!Succeed \/ Life!Fail
<1>1. CASE at = "relay"
  <2>1. committed /\ successful
    BY <1>1 DEF IInv, Told
  <2>2. report' = "success" /\ at' = "closed"
    BY <2>1 DEF Fail, Report
  <2> QED
    BY <2>2, LifeSucceeds
<1>2. CASE at # "relay"
  <2>1. ~committed
    BY <1>2, Zenon DEF IInv, Told, Unanswered, Busy
  <2>2. report' = "failure" /\ at' = "closed"
    BY <2>1 DEF Fail, Report
  <2> QED
    BY <1>2, <2>2 DEF Busy, Life!Fail, Life!End
<1> QED
  BY <1>1, <1>2

LEMMA LifeStep ==
  ASSUME IInv, [Next]_vars
  PROVE  [Life!Next]_(Life!vars)
<1>1. CASE NextRequest
  <2>1. Life!Choose
    BY <1>1 DEF NextRequest, Life!Choose
  <2> QED
    BY <2>1 DEF Life!Next
<1>2. CASE NoUpstream \/ (Stop /\ at = "loop")
  <2>1. at = "loop" /\ at' = "closed" /\ report' = report
    BY <1>2 DEF NoUpstream, Stop
  <2> QED
    BY <2>1 DEF Life!vars
<1>3. CASE (Stop /\ at # "loop") \/ ClientGone
  <2>1. Busy /\ at' = "closed" /\ report' = report
    BY <1>3 DEF Stop, ClientGone, Busy, IInv, TypeOK
  <2> QED
    BY <2>1, LifeEnds DEF Life!Next
<1>4. CASE TimedOut
  <2>1. Busy /\ at' = "closed"
    BY <1>4 DEF TimedOut, Busy, IInv, TypeOK
  <2>2. successful
    BY <2>1 DEF IInv, Told, Unanswered, Busy
  <2>3. report' = "success"
    BY <1>4, <2>2 DEF TimedOut, Report
  <2> QED
    BY <2>1, <2>3, LifeSucceeds DEF Life!Next
<1>5. CASE ReadHead \/ Acquired \/ RequestSent
  BY <1>5 DEF ReadHead, Acquired, RequestSent, handler, history, Life!vars
<1>6. CASE Retry
  <2>1. attempt \in Nat /\ attempt < MaxRetries
    BY <1>6 DEF Retry, Retries, IInv, TypeOK
  <2>2. Life!MoveOn
    BY <1>6, <2>1 DEF Retry, Life!MoveOn, handler, history
  <2> QED
    BY <2>2 DEF Life!Next
<1>7. CASE NextAttempt
  BY <1>7 DEF NextAttempt, history, Life!vars
<1>8. CASE AcquireFails \/ SendFails \/ NoAnswer \/ FinalError \/ RelayFails
  <2>1. PICK who \in {"client", "upstream", "proxy"} : Fail(who)
    BY <1>8 DEF AcquireFails, SendFails, NoAnswer, FinalError, RelayFails
  <2>2. Busy /\ at # "head"
    BY <1>8 DEF AcquireFails, SendFails, NoAnswer, FinalError, RelayFails, Busy
  <2> QED
    BY <2>1, <2>2, LifeFails DEF Life!Next
<1>9. CASE HeadUndecodable \/ BodyLineTooLong \/ AnswerUndecodable \/ RelayLineTooLong
  <2>1. PICK who \in {"client", "upstream"} : Escape(who)
    BY <1>9 DEF HeadUndecodable, BodyLineTooLong, AnswerUndecodable, RelayLineTooLong
  <2>2. Busy
    BY <1>9 DEF HeadUndecodable, BodyLineTooLong, AnswerUndecodable, RelayLineTooLong, Busy
  <2> QED
    BY <2>1, <2>2, LifeEnds DEF Escape, Life!Next
<1>10. CASE Answer
  <2>1. Life!Answer
    BY <1>10 DEF Answer, Life!Answer, history
  <2> QED
    BY <2>1 DEF Life!Next
<1>11. CASE AnswerToNobody \/ Relayed
  <2>1. Busy /\ successful
    BY <1>11 DEF AnswerToNobody, Relayed, Busy, IInv, Told, Unanswered
  <2>2. at' \in {"loop", "closed"} /\ report' = "success"
    BY <1>11, <2>1 DEF AnswerToNobody, Relayed, Report
  <2> QED
    BY <2>1, <2>2, LifeSucceeds DEF Life!Next
<1>12. CASE UNCHANGED vars
  BY <1>12 DEF vars, handler, history, Life!vars
<1> QED
  BY <1>1, <1>2, <1>3, <1>4, <1>5, <1>6, <1>7, <1>8, <1>9, <1>10, <1>11, <1>12 DEF Next

\* handle() takes no other steps than those that UpstreamsPool allows its requests:
\* every request moves at most max_retries times, is reported at most once, and is
\* not reported as failed once its answer has begun.
THEOREM HandlerImplementsLife == Spec => ImplementsLife
  BY LifeInit, LifeStep, Invariance, PTL DEF Spec, ImplementsLife, Life!Spec
================================================================================
