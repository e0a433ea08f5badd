---------------------------- MODULE WireTransport ----------------------------
(***************************************************************************)
(* The wasm transport: Transport::encode and emit of one Transport shared   *)
(* by several threads, the envelope they encode and the host that may       *)
(* refuse it.                                                               *)
(*                                                                          *)
(* A text is the sequence of the widths of its characters in bytes.  Each   *)
(* call is the sequence of its accesses to the three atomic counters; a     *)
(* Debug or Display that logs while it is formatted is one more sender that *)
(* runs in between.  The transport calls a host or, for encode, hands the   *)
(* envelope to its caller, who is the reader then.                          *)
(***************************************************************************)
EXTENDS Integers, FiniteSets, SequencesExt

CONSTANTS Senders,
          Events,            \* what is logged
          Buffers, Scratches,   \* the sizes of the slices callers bring
          MaxValue,          \* max_value_bytes
          U16Max,            \* 65535
          MaxCalls           \* bound: calls of encode

ASSUME LimitsAssumption == Buffers \cup Scratches \cup {MaxValue, U16Max, MaxCalls} \subseteq Nat

\* An identity and a message are one value or none; a field that is not present
\* was declared and not given.
Texts == Seq(Nat)
LoggedValues == [kind : {"fixed", "str", "fmt"}, pieces : Seq(Texts)]
Fields == [present : BOOLEAN, privacy : STRING, name : Nat, value : LoggedValues]

ASSUME EventsAssumption ==
    Events \subseteq [links : Nat, located : BOOLEAN, schema : Seq(Nat),
                     test : Seq(LoggedValues), message : Seq(LoggedValues), fields : Seq(Fields)]

VARIABLES sequence, dropped, truncated,   \* the counters
          sending,    \* the call a sender is in
          calls       \* history: what became of the n-th call

transportVars == <<sequence, dropped, truncated, sending, calls>>

-----------------------------------------------------------------------------
(* encode_envelope                                                          *)

Bytes(text) == FoldSeq(LAMBDA width, n : width + n, 0, text)

\* Variant: the first character that does not fit is taken as well.
CutOffByOne(text, limit) ==
    SubSeq(text, 1, Cardinality({k \in DOMAIN text : Bytes(SubSeq(text, 1, k - 1)) < limit}))
\* The limit is stepped back to a character's boundary.
Cut(text, limit) ==
    SubSeq(text, 1, Cardinality({k \in DOMAIN text : Bytes(SubSeq(text, 1, k)) =< limit}))

\* ScratchWriter: what does not fit makes write_str an error.
WriteStr(writer, piece, scratch) ==
    LET part == Cut(piece, scratch - Bytes(writer.text))
    IN  [text |-> writer.text \o part, truncated |-> writer.truncated \/ part # piece]

\* fmt::write, and the Debug and Display implementations it calls, hand an error
\* of write_str on and originate none: the first piece that does not fit is the last.
WritePiece(writer, piece, scratch) ==
    IF writer.truncated THEN writer ELSE WriteStr(writer, piece, scratch)

Formatted(pieces, scratch) ==
    LET upTo[n \in 0..Len(pieces)] ==
          IF n = 0 THEN [text |-> <<>>, truncated |-> FALSE]
          ELSE WritePiece(upTo[n - 1], pieces[n], scratch)
    IN  upTo[Len(pieces)]

Limited(writer) ==
    LET part == Cut(writer.text, Min({MaxValue, U16Max}))
    IN  [text |-> part, truncated |-> writer.truncated \/ part # writer.text]

\* Numbers are written whole, strings are cut, the rest is formatted first.
Value(value, scratch) ==
    LET whole == [text |-> FlattenSeq(value.pieces), truncated |-> FALSE]
    IN  CASE value.kind = "fixed" -> whole
          [] value.kind = "str" -> Limited(whole)
          [] value.kind = "fmt" -> Limited(Formatted(value.pieces, scratch))

\* The fields that are written, in their order.
Open(field) == field.present /\ field.privacy # "Secret"
Retained(event) ==
    LET upTo[n \in 0..Len(event.fields)] ==
          IF n = 0 THEN <<>>
          ELSE IF Open(event.fields[n]) THEN Append(upTo[n - 1], event.fields[n])
          ELSE upTo[n - 1]
    IN  upTo[Len(event.fields)]

\* The values of the test identity, the fields and the message, in order.
Values(event, scratch) ==
    LET logged == event.test
                  \o [i \in DOMAIN Retained(event) |-> Retained(event)[i].value]
                  \o event.message
    IN  [i \in DOMAIN logged |-> Value(logged[i], scratch)]

Prefix(value) == IF value.kind = "fixed" THEN 0 ELSE 2
Sum(s) == FoldSeq(LAMBDA x, n : x + n, 0, s)

\* Magic to link count, discriminants, four presence tags, omissions and field
\* count; then what varies, a line and a column among it.
Length(event, scratch) ==
    LET texts == Values(event, scratch)
        optional == event.test \o event.message
    IN  62 + 3 + 4 + 6 + 16 * event.links + (IF event.located THEN 8 ELSE 0)
        + Sum([i \in DOMAIN event.schema |-> 2 + event.schema[i]])
        + Sum([i \in DOMAIN texts |-> Bytes(texts[i].text)])
        + Sum([i \in DOMAIN Retained(event) |->
                 5 + Retained(event)[i].name + Prefix(Retained(event)[i].value)])
        + Sum([i \in DOMAIN optional |-> Prefix(optional[i])])

TooMany(event) ==
    \/ event.links > U16Max \/ Len(Retained(event)) > U16Max
    \/ \E i \in DOMAIN event.schema : event.schema[i] > U16Max
    \/ \E i \in DOMAIN Retained(event) : Retained(event)[i].name > U16Max

Encodes(event, buffer, scratch) == ~TooMany(event) /\ Length(event, scratch) =< buffer

CutValues(event, scratch) ==
    Cardinality({i \in DOMAIN Values(event, scratch) : Values(event, scratch)[i].truncated})

\* What an independent parser reads from the bytes.
Envelope(call) ==
    LET event == call.event
    IN  [sequence |-> call.number, dropped |-> call.dropped, truncated |-> call.truncated,
         flag |-> CutValues(event, call.scratch) # 0,
         omitted |-> Len(event.fields) - Len(Retained(event)),
         fields |-> [i \in DOMAIN Retained(event) |-> Retained(event)[i].privacy],
         texts |-> [i \in DOMAIN Values(event, call.scratch) |->
                      Values(event, call.scratch)[i].text],
         length |-> Length(event, call.scratch)]

-----------------------------------------------------------------------------
(* Transport                                                                *)

Idle == [phase |-> "idle"]
InCall == {s \in Senders : sending[s].phase # "idle"}

TransportInit ==
    /\ sequence = 0 /\ dropped = 0 /\ truncated = 0
    /\ sending = [s \in Senders |-> Idle]
    /\ calls = <<>>

\* A call begins with its number; beside counts the calls that overlap it.
Begin(s, event, buffer, scratch, emits) ==
    /\ sending[s].phase = "idle" /\ sequence < MaxCalls
    /\ sequence' = sequence + 1
    /\ sending' = [sending EXCEPT ![s] =
                     [phase |-> "dropped", number |-> sequence + 1, event |-> event,
                      buffer |-> buffer, scratch |-> scratch, emits |-> emits,
                      dropped |-> 0, truncated |-> 0]]
    /\ calls' = Append([n \in DOMAIN calls |->
                          IF \E u \in InCall : sending[u].number = n
                          THEN [calls[n] EXCEPT !.beside = @ \cup {sequence + 1}] ELSE calls[n]],
                       [fate |-> "pending", beside |-> {sending[u].number : u \in InCall},
                        cut |-> 0, logged |-> event, scratch |-> scratch, envelope |-> <<>>])
    /\ UNCHANGED <<dropped, truncated>>

LoadDropped(s) ==
    /\ sending[s].phase = "dropped"
    /\ sending' = [sending EXCEPT ![s].phase = "truncated", ![s].dropped = dropped]
    /\ UNCHANGED <<sequence, dropped, truncated, calls>>

LoadTruncated(s) ==
    /\ sending[s].phase = "truncated"
    /\ sending' = [sending EXCEPT ![s].phase = "encode", ![s].truncated = truncated]
    /\ UNCHANGED <<sequence, dropped, truncated, calls>>

Read(record, call) == [record EXCEPT !.fate = "read", !.envelope = <<Envelope(call)>>]

\* A frame is encoded whole or the call is dropped.
EncodeOk(s) ==
    LET call == sending[s]
        cut == CutValues(call.event, call.scratch)
    IN  /\ call.phase = "encode" /\ Encodes(call.event, call.buffer, call.scratch)
        /\ truncated' = truncated + cut
        /\ sending' = [sending EXCEPT ![s] = IF call.emits THEN [@ EXCEPT !.phase = "host"]
                                                          ELSE Idle]
        /\ calls' = [calls EXCEPT ![call.number] =
                        IF call.emits THEN [@ EXCEPT !.cut = cut]
                                      ELSE Read([@ EXCEPT !.cut = cut], call)]
        /\ UNCHANGED <<sequence, dropped>>

EncodeFails(s) ==
    /\ sending[s].phase = "encode"
    /\ ~Encodes(sending[s].event, sending[s].buffer, sending[s].scratch)
    /\ dropped' = dropped + 1
    /\ sending' = [sending EXCEPT ![s] = Idle]
    /\ calls' = [calls EXCEPT ![sending[s].number].fate = "lost"]
    /\ UNCHANGED <<sequence, truncated>>

HostAccepts(s) ==
    /\ sending[s].phase = "host"
    /\ calls' = [calls EXCEPT ![sending[s].number] = Read(@, sending[s])]
    /\ sending' = [sending EXCEPT ![s] = Idle]
    /\ UNCHANGED <<sequence, dropped, truncated>>

\* Unavailable, also without the import, a version mismatch, a drop, an error.
HostRefuses(s) ==
    /\ sending[s].phase = "host"
    /\ sending' = [sending EXCEPT ![s].phase = "refused"]
    /\ UNCHANGED <<sequence, dropped, truncated, calls>>

\* Variant: only failures of the encoder are counted.
CountLossNot == dropped
CountLoss == dropped + 1

CountRefused(s) ==
    /\ sending[s].phase = "refused"
    /\ dropped' = CountLoss
    /\ sending' = [sending EXCEPT ![s] = Idle]
    /\ calls' = [calls EXCEPT ![sending[s].number].fate = "lost"]
    /\ UNCHANGED <<sequence, truncated>>

Send(s) ==
    \/ \E event \in Events, buffer \in Buffers, scratch \in Scratches, emits \in BOOLEAN :
         Begin(s, event, buffer, scratch, emits)
    \/ LoadDropped(s) \/ LoadTruncated(s)
    \/ EncodeOk(s) \/ EncodeFails(s)
    \/ HostAccepts(s) \/ HostRefuses(s) \/ CountRefused(s)

TransportNext == \E s \in Senders : Send(s)

TransportSpec == TransportInit /\ [][TransportNext]_transportVars

-----------------------------------------------------------------------------
(* Properties *)

Lost(S) == {n \in S : calls[n].fate = "lost"}
CutIn(S) == MapThenSumSet(LAMBDA n : calls[n].cut, S)

\* A reader knows what it did not receive: an envelope's counters cover every
\* earlier loss and every value cut short, and exceed them by no more than what
\* calls that overlapped this one lost or cut.  Alone, they are exact.
ReaderReconstructs ==
    \A n \in DOMAIN calls : calls[n].fate = "read" =>
        LET envelope == calls[n].envelope[1]
            before == 1..(n - 1) \ calls[n].beside
            beside == calls[n].beside
        IN  /\ envelope.dropped - Cardinality(Lost(before)) \in 0..Cardinality(Lost(beside))
            /\ envelope.truncated - CutIn(before) \in 0..CutIn(beside)

\* Reference: the longest beginning of a text that fits.
IsLongest(part, text, limit) ==
    /\ IsPrefix(part, text) /\ Bytes(part) =< limit
    /\ part # text => Bytes(part) + text[Len(part) + 1] > limit

\* Reference: the values of the present fields that are not secret, each at its
\* rank among them.
Public(fields) ==
    LET public == {i \in DOMAIN fields : fields[i].present /\ fields[i].privacy # "Secret"}
        Nth(k) == CHOOSE i \in public : Cardinality({j \in public : j =< i}) = k
    IN  [k \in 1..Cardinality(public) |-> fields[Nth(k)].value]

\* An envelope never holds a secret, says how many declared fields it leaves
\* out, and shows of every value the longest beginning its limits admit, in
\* whatever pieces it was formatted; its flag says whether that is all.
EnvelopeIsFaithful ==
    \A n \in DOMAIN calls : calls[n].fate = "read" =>
        LET logged == calls[n].logged
            envelope == calls[n].envelope[1]
            values == logged.test \o Public(logged.fields) \o logged.message
            Full(i) == FlattenSeq(values[i].pieces)
            Limit(i) == IF values[i].kind = "str" THEN Min({MaxValue, U16Max})
                                                  ELSE Min({MaxValue, U16Max, calls[n].scratch})
        IN  /\ "Secret" \notin {envelope.fields[i] : i \in DOMAIN envelope.fields}
            /\ Len(envelope.fields) + envelope.omitted = Len(logged.fields)
            /\ Len(envelope.texts) = Len(values)
            /\ \A i \in DOMAIN values :
                  IF values[i].kind = "fixed" THEN envelope.texts[i] = Full(i)
                                              ELSE IsLongest(envelope.texts[i], Full(i), Limit(i))
            /\ envelope.flag <=> \E i \in DOMAIN values : envelope.texts[i] # Full(i)
==============================================================================
