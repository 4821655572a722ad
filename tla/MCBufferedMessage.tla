-------------------------- MODULE MCBufferedMessage --------------------------
(***************************************************************************)
(* Instances of a message: a buffer of four tokens, which a header may     *)
(* fill, and bodies that are read in several parts.                        *)
(***************************************************************************)
EXTENDS BufferedMessage

Message(header, body, extra, framing) ==
  [header |-> header, body |-> body, extra |-> extra, framing |-> framing,
   length |-> CASE framing = "length" -> Len(body) [] framing = "negative" -> 1 [] OTHER -> 0]

Short == <<"p", "n", "n">>
Full  == <<"p", "x", "n", "n">>
Long  == <<"p", "x", "x", "n", "n">>

Next1 == <<"x", "n", "n">>

\* Messages of known length, the header up to the length of the buffer, alone or
\* with the next one behind, and such a message without a body.
Lengths == {Message(h, b, e, "length") : h \in {Short, Full},
                                         b \in {<<>>, <<"x", "0", "n", "n", "x">>},
                                         e \in {<<>>, Next1}}

\* A chunked message: a chunk, and the last one.
Chunked == {Message(Short, <<"x", "n", "x", "n">> \o Chunk0, <<>>, "chunked")}

\* A body that ends where the connection does.
ToTheEnd == {Message(Short, <<"x", "x">>, <<>>, "none")}

\* A Content-Length of -1.
Negative == {Message(Short, <<"x", "0", "n", "n", "x">>, <<>>, "negative")}

TooLong == {Message(Long, <<>>, <<>>, "length")}
NoInt   == {Message(Short, <<"x">>, <<>>, "huge")}

Sources == Lengths \cup Chunked \cup ToTheEnd \cup Negative \cup TooLong \cup NoInt
==============================================================================
