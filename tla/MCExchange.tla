---------------------------- MODULE MCExchange ----------------------------
(* Instances of RequestExchange for TLC: replies of a few bytes.             *)
EXTENDS RequestExchange

Reply(framing, body, stream) ==
  [framing |-> framing, body |-> body, stream |-> stream]

Tcp == Reply("tcp", <<"a", "b", "c">>, <<"a", "b", "c", "d">>)
TcpSilent == Reply("tcp", <<>>, <<>>)
Length == Reply("length", <<"a", "b", "c">>, <<"a", "b", "c">>)
LengthShort == Reply("length", <<"a", "b", "c">>, <<"a">>)
LengthZero == Reply("length", <<>>, <<>>)

\* Two chunks, of two bytes and of one; the size of the first has two digits.
Chunked ==
  Reply("chunked", <<"a", "b", "c">>,
        <<"1", "0", "\r", "\n", "a", "b", "\r", "\n",
          "1", "\r", "\n", "c", "\r", "\n", "0", "\r", "\n", "\r", "\n">>)

\* The same of a peer that stops in the middle of the second chunk's size.
ChunkedShort ==
  [Chunked EXCEPT !.stream = SubSeq(@, 1, 9)]

\* Where the chunks of both begin.
MCChunkings ==
  {[stream |-> Left(r.stream, at[1]), body |-> Left(r.body, at[2])] :
     r \in {Chunked, ChunkedShort}, at \in {<<0, 0>>, <<8, 2>>, <<14, 3>>}}

Bodiless == {Reply(f, <<>>, <<>>) : f \in {"refused", "unchunked", "unframed", "bad"}}

Replies == {Tcp, TcpSilent, Length, LengthShort, LengthZero, Chunked,
            ChunkedShort}
  \cup Bodiless

Client(output, careful, punctual, reply) ==
  [output |-> output, careful |-> careful, punctual |-> punctual, reply |-> reply,
   valid |-> TRUE]

AllSettings ==
  {Client("memory", TRUE, TRUE, r) : r \in Replies}
    \cup {Client("memory", TRUE, FALSE, Chunked)}
    \cup {Client("file", TRUE, TRUE, r) : r \in Replies}
    \cup {Client("file", FALSE, TRUE, r) : r \in {Length, Chunked}}
    \cup {Client("nowhere", TRUE, TRUE, Tcp)}
    \cup {[Client("memory", TRUE, TRUE, r) EXCEPT !.valid = FALSE] :
             r \in {Length, LengthZero}}
ChunkSettings == {Client("memory", TRUE, FALSE, Chunked)}
FileSettings == {Client("file", FALSE, TRUE, Tcp)}
MemorySettings == {Client("memory", TRUE, TRUE, Tcp)}
=============================================================================
