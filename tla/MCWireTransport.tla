-------------------------- MODULE MCWireTransport --------------------------
(* A bounded instance of WireTransport. *)
EXTENDS WireTransport, TLC

CONSTANTS s, t

MCSenders == {s, t}

Text(kind, pieces) == [kind |-> kind, pieces |-> pieces]
Field(present, privacy, value) ==
    [present |-> present, privacy |-> privacy, name |-> 1, value |-> value]

\* A text that is cut inside a character, a secret and a field left out.
Short == [links |-> 0, located |-> FALSE, schema |-> <<1>>, test |-> <<>>, message |-> <<>>,
          fields |-> <<Field(TRUE, "LocalOnly", Text("str", <<<<2, 2, 1>>>>)),
                       Field(TRUE, "Secret", Text("str", <<<<1>>>>)),
                       Field(FALSE, "SupportSafe", Text("fixed", <<>>))>>]

\* A text formatted in pieces, of which a later one would fit.
Pieces == [links |-> 1, located |-> TRUE, schema |-> <<1, 2>>,
           test |-> <<Text("str", <<<<1>>>>)>>, message |-> <<Text("fmt", <<<<1>>, <<4>>, <<1>>>>)>>,
           fields |-> <<Field(TRUE, "SupportSafe", Text("fixed", <<<<8>>>>))>>]

\* A schema string too long for its length.
TooLong == [Short EXCEPT !.schema = <<U16Max + 1>>]

MCEvents == {Short, Pieces, TooLong}

\* Senders are interchangeable.
Symmetry == Permutations({s, t})
==============================================================================
