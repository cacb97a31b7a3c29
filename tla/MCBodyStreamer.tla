---------------------------- MODULE MCBodyStreamer ----------------------------
(* The messages for the instances of BodyStreamer.                           *)
EXTENDS BodyStreamer

CrLf == <<"cr", "lf">>

Plain == {<<>>, <<"x">>, <<"x", "lf", "x">>, <<"x">> \o Delimiter \o <<"0">> \o CrLf}

\* Chunks with CRLF, half of it and digits in the data, and one longer than
\* chunk_size, with what could be a last chunk inside.
Chunks == {<<"1">> \o CrLf \o <<"x">> \o CrLf, <<"2">> \o CrLf \o <<"0", "cr">> \o CrLf,
           <<"2">> \o CrLf \o CrLf \o CrLf}

LongChunk == <<"6">> \o CrLf \o <<"x", "0">> \o Delimiter \o CrLf

ChunkedBodies ==
  {FlattenSeq(chunks) \o <<"0">> \o CrLf \o trailers \o CrLf :
     chunks \in UNION {[1..n -> Chunks] : n \in 0..2} \cup {<<LongChunk>>},
     trailers \in {<<>>, <<"t">> \o CrLf, <<"t">> \o CrLf \o <<"t">> \o CrLf}}

\* A chunked body that has no size where one is due
Garbage == {<<"x">> \o CrLf \o <<"x">>, CrLf, <<"1">> \o CrLf \o <<"x", "x">> \o CrLf}

Of(reply, framing, valid, bodies) ==
  [reply : {reply}, framing : {framing}, valid : {valid}, body : bodies,
   follow : IF reply /\ framing = "none" THEN {<<>>} ELSE {<<>>, HeadText}]

AllMessages ==
  Of(FALSE, "none", TRUE, {<<>>}) \cup Of(TRUE, "none", TRUE, Plain)
    \cup Of(FALSE, "length", TRUE, Plain) \cup Of(FALSE, "chunked", TRUE, ChunkedBodies)
    \cup Of(FALSE, "chunked", FALSE, Garbage)
================================================================================
