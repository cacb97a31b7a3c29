------------------------------ MODULE BodyStreamer ------------------------------
(***************************************************************************)
(* One HTTP message on its way through the proxy, in one direction: its    *)
(* head is read (_read_request_headers, _read_response_headers and         *)
(* HttpMessageParser.feed), what was read beyond the head is pushed back   *)
(* into the UnreadableStreamReader, and BodyStreamer copies the body to    *)
(* the writer of the other side.                                           *)
(*                                                                         *)
(* A message is a sequence of tokens: "h" the text of a head, "cr" and     *)
(* "lf", a digit a chunk size, "x" another byte, "t" a trailer field.  A   *)
(* line that is too long, an undecodable head and the header fields        *)
(* themselves are left out here; chunk extensions are part of a digit, so  *)
(* that the last size line goes out as it came in.                         *)
(* "phase" is the read the task is suspended in, or how it ended:          *)
(*                                                                         *)
(*   "head" "identity" "size" "chunk" "trailer" "rest"                     *)
(*   "done"    the message is copied                                       *)
(*   "gone"    end of file in the head, which gives None                   *)
(*   "error"   BodyStreamerError                                           *)
(*   "broken"  a timeout, a failed write, the end of the proxy             *)
(*   "spin"    in the loop over the trailers, after the end of file        *)
(***************************************************************************)
EXTENDS Naturals, SequencesExt

CONSTANTS
  ChunkSize,   \* chunk_size, in tokens
  Messages     \* the messages: see StreamerAssumption

Tokens == {"h", "cr", "lf", "0", "1", "2", "6", "x", "t"}

\* A response or a request; what its head says about its end (not both, that is
\* settled by the order of the two questions); whether its body is what it says;
\* its body as it is sent; what the peer sends after it.
Message == [reply : BOOLEAN, framing : {"none", "length", "chunked"}, valid : BOOLEAN,
            body : Seq(Tokens), follow : Seq(Tokens)]

Digit == [d \in {"0", "1", "2", "6"} |->
            CASE d = "0" -> 0 [] d = "1" -> 1 [] d = "2" -> 2 [] d = "6" -> 6]

\* After position p, which is the end of a line, the first empty line ends b.
Trailers(b, p) ==
  /\ p < Len(b) /\ b[p] = "lf"
  /\ \A q \in (p + 1)..Len(b) :
       b[q] = "lf" /\ b[q - 1] = "cr" /\ b[q - 2] = "lf" <=> q = Len(b)

\* sizes: the positions in b after which the line with the size of a chunk begins.
\* What is in the chunks, and the CRLF at their end, can be anything.
Layout(b, sizes) ==
  /\ 0 \in sizes
  /\ \A p \in sizes :
       /\ p + 3 <= Len(b)
       /\ b[p + 1] \in DOMAIN Digit /\ b[p + 2] = "cr" /\ b[p + 3] = "lf"
       /\ IF b[p + 1] = "0" THEN Trailers(b, p + 3)
                            ELSE p + 3 + Digit[b[p + 1]] + 2 \in sizes

\* Where such a line may begin.
Starts(b) == {p \in 0..(Len(b) - 1) : b[p + 1] \in DOMAIN Digit}

\* The body of m is what its head says, and what follows can be told from it.
WellFormed(m) ==
  /\ m.framing = "none" => IF m.reply THEN m.follow = <<>> ELSE m.body = <<>>
  /\ m.framing = "chunked" =>
       \E sizes \in SUBSET Starts(m.body) : Layout(m.body, sizes)

ASSUME StreamerAssumption ==
  /\ ChunkSize \in Nat \ {0}
  /\ Messages \subseteq Message
  /\ \A m \in Messages : m.valid => WellFormed(m)

VARIABLES
  msg,      \* the message
  coming,   \* what the peer has not sent yet
  eof,      \* the peer has closed
  socket,   \* the buffer of the StreamReader
  back,     \* _unread_buffer
  buffer,   \* _buffer of the parser
  phase,
  left,     \* bytes that are left of the body, or of the chunk and its CRLF
  out       \* what was written to the other side, after the head

input == <<coming, eof>>
vars  == <<msg, input, socket, back, buffer, phase, left, out>>

Delimiter == <<"cr", "lf", "cr", "lf">>
HeadText  == <<"h">> \o Delimiter
Wire(m)   == HeadText \o m.body \o m.follow

\* A response that says nothing of its length lasts until the end of file.
ToEof == msg.reply /\ msg.framing = "none"

Active == phase \in {"head", "identity", "size", "chunk", "trailer", "rest"}
Ended  == phase \in {"done", "gone", "error", "broken"}

Init ==
  /\ msg \in Messages
  /\ coming = Wire(msg)
  /\ eof = FALSE
  /\ socket = <<>>
  /\ back = <<>>
  /\ buffer = <<>>
  /\ phase = "head"
  /\ left = 0
  /\ out = <<>>

--------------------------------------------------------------------------------
(* UnreadableStreamReader *)

Drop(s, k)  == SubSeq(s, k + 1, Len(s))
First(s, k) == SubSeq(s, 1, k)
Least(a, b) == IF a < b THEN a ELSE b

Available == back \o socket

\* read(n) waits for the socket unless the pushed-back bytes are enough.
CanRead(n) == Len(back) >= n \/ socket # <<>> \/ eof

Piece(n) == First(Available, Least(n, Len(Available)))

\* readline() waits for the end of a line.
CanReadLine == eof \/ Contains(Available, "lf")
Line == IF Contains(Available, "lf")
        THEN First(Available, CHOOSE i \in 1..Len(Available) :
                     Available[i] = "lf" /\ \A j \in 1..(i - 1) : Available[j] # "lf")
        ELSE Available

\* Mutant: read() clears _unread_buffer and does not put the rest back.
TakeAll(k, again) ==
  /\ back' = again
  /\ socket' = Drop(socket, IF k > Len(back) THEN k - Len(back) ELSE 0)

\* What was read leaves the buffers, and "again" is pushed back.
Take(k, again) ==
  /\ back' = again \o Drop(back, k)
  /\ socket' = Drop(socket, IF k > Len(back) THEN k - Len(back) ELSE 0)

--------------------------------------------------------------------------------
(* The peer and the network *)

Arrive ==
  /\ ~eof
  /\ coming # <<>>
  /\ socket' = Append(socket, Head(coming))
  /\ coming' = Tail(coming)
  /\ UNCHANGED <<msg, eof, back, buffer, phase, left, out>>

PeerCloses ==
  /\ ~eof
  /\ eof' = TRUE
  /\ UNCHANGED <<msg, coming, socket, back, buffer, phase, left, out>>

--------------------------------------------------------------------------------
(* The head *)

\* Where the delimiter begins in s; it may have arrived in several reads.
Ends(s) == {i \in 1..(Len(s) - 3) : SubSeq(s, i, i + 3) = Delimiter}

\* stream_request, stream_response: Content-Length first, then chunked; without
\* both, a request has no body and a response lasts until the end of file.
Streaming ==
  CASE msg.framing = "length"  -> IF msg.body = <<>> THEN "done" ELSE "identity"
    [] msg.framing = "chunked" -> "size"
    [] ToEof                   -> "rest"
    [] OTHER                   -> "done"

ReadHead ==
  LET got == buffer \o Piece(ChunkSize) IN
  /\ phase = "head"
  /\ CanRead(ChunkSize)
  /\ \/ /\ Piece(ChunkSize) = <<>>
        /\ phase' = "gone"
        /\ UNCHANGED <<buffer, back, socket, left>>
     \/ /\ Piece(ChunkSize) # <<>> /\ Ends(got) = {}
        /\ buffer' = got
        /\ Take(Len(Piece(ChunkSize)), <<>>)
        /\ UNCHANGED <<phase, left>>
     \/ /\ Piece(ChunkSize) # <<>>
        /\ \E i \in Ends(got) :
             /\ \A j \in Ends(got) : i <= j
             /\ Take(Len(Piece(ChunkSize)), Drop(got, i + 3))
        /\ buffer' = <<>>
        /\ phase' = Streaming
        /\ left' = IF msg.framing = "length" THEN Len(msg.body) ELSE 0
  /\ UNCHANGED <<msg, input, out>>

--------------------------------------------------------------------------------
(* The body *)

\* Mutant: a full chunk_size is asked for, whatever is left.
WantAlways(n) == ChunkSize

Want(n) == Least(ChunkSize, n)

\* One turn of the loop of stream_identity, and of the inner loop of
\* stream_chunked: what follows when it is over.
Copy(after) ==
  LET piece == Piece(Want(left)) IN
  /\ CanRead(Want(left))
  /\ Take(Len(piece), <<>>)
  /\ out' = out \o piece
  /\ left' = left - Len(piece)
  /\ phase' = CASE piece = <<>> -> "error"
                [] piece # <<>> /\ Len(piece) = left -> after
                [] OTHER -> phase
  /\ UNCHANGED <<msg, input, buffer>>

CopyIdentity == phase = "identity" /\ Copy("done")
CopyChunk    == phase = "chunk" /\ Copy("size")

IsSize(line) ==
  Len(line) = 3 /\ line[1] \in DOMAIN Digit /\ line[2] = "cr" /\ line[3] = "lf"

\* Mutant: the CRLF after the chunk is forgotten.
ChunkWithoutEnd(line) == Digit[line[1]]

\* A chunk is copied with the CRLF that ends it.
ChunkLength(line) == Digit[line[1]] + 2

ReadSize ==
  /\ phase = "size"
  /\ CanReadLine
  /\ Take(Len(Line), <<>>)
  /\ IF ~IsSize(Line)
     THEN phase' = "error" /\ UNCHANGED <<left, out>>
     ELSE /\ out' = out \o Line
          /\ IF Digit[Line[1]] = 0
             THEN phase' = "trailer" /\ UNCHANGED left
             ELSE phase' = "chunk" /\ left' = ChunkLength(Line)
  /\ UNCHANGED <<msg, input, buffer>>

\* The trailers end with an empty line.  readline() gives nothing at the end of
\* file, at once, and the loop goes on.
AfterTrailer ==
  CASE Line = <<"cr", "lf">> -> "done"
    [] Line = <<>>           -> "spin"
    [] OTHER                 -> "trailer"

CopyTrailer ==
  /\ phase = "trailer"
  /\ CanReadLine
  /\ Take(Len(Line), <<>>)
  /\ out' = out \o Line
  /\ phase' = AfterTrailer
  /\ UNCHANGED <<msg, input, buffer, left>>

\* Mutant: stream_to_eof without its break.
CopyRestForever ==
  /\ phase = "rest"
  /\ CanRead(ChunkSize)
  /\ Take(Len(Piece(ChunkSize)), <<>>)
  /\ out' = out \o Piece(ChunkSize)
  /\ UNCHANGED <<msg, input, buffer, phase, left>>

\* stream_to_eof
CopyRest ==
  LET piece == Piece(ChunkSize) IN
  /\ phase = "rest"
  /\ CanRead(ChunkSize)
  /\ Take(Len(piece), <<>>)
  /\ out' = out \o piece
  /\ phase' = IF piece = <<>> THEN "done" ELSE "rest"
  /\ UNCHANGED <<msg, input, buffer, left>>

--------------------------------------------------------------------------------
(* Timeouts, failures of the other side, cancellation: at any await *)

\* What was pushed back is not enough for the read that is due.  read() and
\* readline() take it out of _unread_buffer before they wait for the socket.
Short ==
  \/ phase \in {"head", "rest"} /\ Len(back) < ChunkSize
  \/ phase \in {"identity", "chunk"} /\ Len(back) < Want(left)
  \/ phase \in {"size", "trailer"} /\ ~Contains(back, "lf")

\* The await of a write, before that read, or of the socket in it: then what was
\* pushed back is lost.  In "spin" there may be no await that suspends.
Break ==
  /\ Active \/ phase = "spin"
  /\ phase' = "broken"
  /\ back' = back \/ (Short /\ back' = <<>>)
  /\ UNCHANGED <<msg, input, socket, buffer, left, out>>

Step == ReadHead \/ CopyIdentity \/ ReadSize \/ CopyChunk \/ CopyTrailer \/ CopyRest

Next == Arrive \/ PeerCloses \/ Step \/ Break

Spec == Init /\ [][Next]_vars

\* The read that the task is suspended in has to wait for the peer.
Waiting ==
  \/ phase \in {"head", "rest"} /\ ~CanRead(ChunkSize)
  \/ phase \in {"identity", "chunk"} /\ ~CanRead(Want(left))
  \/ phase \in {"size", "trailer"} /\ ~CanReadLine

\* What can go on does.  A read that waits for the peer ends after read_ms.
FairSpec ==
  /\ Spec
  /\ WF_vars(Step)
  /\ WF_vars(Waiting /\ Break)

\* The loop over the trailers suspends at every turn, so that total_ms ends it.  So
\* it is up to Python 3.11, whose wait_for makes a task of the read; later versions
\* await the read itself, which at the end of file returns without suspending.
LoopSuspends == WF_vars(phase = "spin" /\ Break)

--------------------------------------------------------------------------------
(* Properties *)

\* Every variable has its type.
TypeOK ==
  /\ msg \in Messages
  /\ eof \in BOOLEAN
  /\ \A s \in {coming, socket, back, buffer, out} : s \in Seq(Tokens)
  /\ phase \in {"head", "identity", "size", "chunk", "trailer", "rest",
                "done", "gone", "error", "broken", "spin"}
  /\ left \in Nat

\* Through reads of any size, lines and push-backs, no byte is lost, doubled or
\* moved: what went out, what the buffers hold and what is still to come is the
\* message and what follows it, with the head in front once it is parsed.  When the
\* copying is broken off, by whatever and wherever, what went out is the beginning
\* of the body all the same; bytes that were pushed back may be lost then.
Conserved ==
  LET after == out \o back \o socket \o coming
  IN  IF phase \in {"error", "broken"}
      THEN IsPrefix(out, msg.body \o msg.follow)
      ELSE Wire(msg) \in {buffer \o after, HeadText \o after}

\* BodyStreamer: "after streaming, reader is ready to read the next request".  When
\* a message is done its whole body is out, and nothing of what follows it; and it
\* is only called wrong when it is, or when the peer closed too early.
VerdictIsRight ==
  /\ phase = "done" /\ msg.valid =>
       IF ToEof THEN eof /\ out \o coming = msg.body ELSE out = msg.body
  /\ phase = "error" => eof \/ ~msg.valid

\* The proxy never waits for bytes that it does not need: when all of a message
\* that says how long it is has arrived, it is copied without another byte.
NoNeedlessWait ==
  Waiting /\ msg.valid /\ ~ToEof => Len(coming) > Len(msg.follow)

\* The copying ends, whatever the peer sends or does not send, but for one loop: the
\* one over the trailers after the end of file, which ends if it suspends.
StreamEnds ==
  /\ Active ~> (Ended \/ phase = "spin")
  /\ LoopSuspends => (Active ~> Ended)

--------------------------------------------------------------------------------
(* Promised by documentation or messages, and not kept: see README.md, section 3 *)

\* README: total_ms is the timeout of the whole request-response cycle, so every
\* message comes to an end, under every version of Python.
EveryStreamEnds == Active ~> Ended
================================================================================
