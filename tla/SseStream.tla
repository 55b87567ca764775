------------------------------ MODULE SseStream ------------------------------
(***************************************************************************)
(* The parser of the live event stream, tbo-operator-client's sse.rs, and  *)
(* the adapter that makes event records of its events (client.rs). The     *)
(* bytes of the stream arrive in chunks that are cut anywhere.             *)
(*                                                                         *)
(* Of a line the parser looks at its first bytes, the field, and keeps the *)
(* rest, the value: here a field is one byte and so is every byte of a     *)
(* value.                                                                  *)
(***************************************************************************)
EXTENDS Naturals, FiniteSets, SequencesExt

CONSTANTS
    Octets,         \* the bytes there are, "nl", "cr" and the fields among them
    Streams         \* what a server may send, as sequences of them

ASSUME StreamAssumption == Streams \subseteq Seq(Octets)

VARIABLES
    wire,           \* all the bytes the server sends
    taken,          \* how many of them have been pushed; no more may come
    buf,            \* SseParser: bytes without a newline yet
    current, sawField,
    handed          \* the payloads handed to the live tail

sseVars == <<wire, taken, buf, current, sawField, handed>>

NoEvent == [event |-> <<>>, data |-> <<>>]
BoothEvent == <<"booth">>

SseTypeOK ==
    /\ taken \in 0..Len(wire)
    /\ {"nl"} \cap Range(buf) = {}
    /\ DOMAIN current = {"event", "data"}
    /\ sawField \in BOOLEAN

SseInit ==
    /\ wire \in Streams
    /\ taken = 0
    /\ buf = <<>>
    /\ current = NoEvent
    /\ sawField = FALSE
    /\ handed = <<>>

----------------------------------------------------------------------------
(* The parser's state, while it works on a chunk, and what was handed on.   *)
Parser == [buf |-> buf, current |-> current, sawField |-> sawField, out |-> handed]

(* decode_event_records: other events than booth events are skipped.       *)
HandedOn(out, e) == IF e.event = BoothEvent THEN Append(out, e.data) ELSE out

(* dispatch: an event that carries nothing is not one.                     *)
Dispatched(p) ==
    [p EXCEPT !.current = NoEvent, !.sawField = FALSE,
              !.out = IF p.sawField /\ p.current # NoEvent
                      THEN HandedOn(@, p.current) ELSE @]

(* process_line: several data lines are joined by newlines, but an empty   *)
(* one at the start leaves no trace.                                       *)
Processed(p, line) ==
    CASE line = <<>> -> Dispatched(p)
      [] line # <<>> /\ line[1] = "event" ->
            [p EXCEPT !.current.event = Tail(line), !.sawField = TRUE]
      [] line # <<>> /\ line[1] = "data" ->
            [p EXCEPT !.current.data =
                 (IF @ = <<>> THEN <<>> ELSE Append(@, "nl")) \o Tail(line),
                      !.sawField = TRUE]
      [] OTHER -> p

Unended(line) ==
    IF line # <<>> /\ Last(line) = "cr" THEN Front(line) ELSE line

Step(p, byte) ==
    IF byte = "nl" THEN [Processed(p, Unended(p.buf)) EXCEPT !.buf = <<>>]
    ELSE [p EXCEPT !.buf = Append(@, byte)]

PushAfresh(chunk) ==        \* a slip: what is left of a chunk is not kept
    FoldLeft(Step, [Parser EXCEPT !.buf = <<>>], chunk)

(* push.                                                                   *)
Push(chunk) == FoldLeft(Step, Parser, chunk)

Chunk(n) ==
    /\ taken' = taken + n
    /\ LET p == Push(SubSeq(wire, taken + 1, taken + n)) IN
         /\ buf' = p.buf
         /\ current' = p.current
         /\ sawField' = p.sawField
         /\ handed' = p.out
    /\ UNCHANGED wire

(* Nothing is left to read; the connection may also end before that.       *)
AllTaken == taken = Len(wire) /\ UNCHANGED sseVars

SseNext == AllTaken \/ \E n \in 1..(Len(wire) - taken) : Chunk(n)

SseSpec == SseInit /\ [][SseNext]_sseVars

----------------------------------------------------------------------------
(* What the first n bytes of a stream w say, by the blank lines in them: a *)
(* block of lines is a record if its last event field names a booth event, *)
(* and its payload is its data from the first that is not empty on.        *)
Newlines(w) == {i \in DOMAIN w : w[i] = "nl"}

IsOpen(w, n, o) ==      \* the line that is not over after n bytes begins at o
    /\ o \in 1..(n + 1)
    /\ o = 1 \/ w[o - 1] = "nl"
    /\ \A i \in o..n : w[i] # "nl"
Opens(w, n) == CHOOSE o \in 1..(n + 1) : IsOpen(w, n, o)

Text(w, i) ==           \* the line that ends at i, without a CR at its end
    LET o == Opens(w, i - 1) IN
    SubSeq(w, o, IF o < i /\ w[i - 1] = "cr" THEN i - 2 ELSE i - 1)

Blanks(w) == {i \in Newlines(w) : Text(w, i) = <<>>}

Block(w, n) ==          \* the ends of the lines after the last blank one
    {j \in Newlines(w) : j <= n /\ ~\E b \in Blanks(w) : j <= b /\ b <= n}
Named(w, n, field) == {j \in Block(w, n) : Text(w, j)[1] = field}

IsRecord(w, n) ==
    \E j \in Named(w, n, "event") :
        Tail(Text(w, j)) = BoothEvent /\ \A k \in Named(w, n, "event") : k <= j

DataLines(w, n) ==
    {j \in Named(w, n, "data") :
       \E k \in Named(w, n, "data") : k <= j /\ Len(Text(w, k)) > 1}
DataJoined(w, values) ==    \* by newlines, up to each place of the stream
    LET joined[i \in 0..Len(w)] ==
          IF i \notin values THEN IF i = 0 THEN <<>> ELSE joined[i - 1]
          ELSE (IF \E k \in values : k < i THEN Append(joined[i - 1], "nl") ELSE <<>>)
               \o Tail(Text(w, i))
    IN  joined
Payload(w, n) == DataJoined(w, DataLines(w, n))[n]

Records(w, n) == {i \in Blanks(w) : i <= n /\ IsRecord(w, i - 1)}

(* sse.rs: chunks "may split lines or UTF-8 sequences arbitrarily". The    *)
(* records handed on are those of the bytes that have come, however they   *)
(* were cut into chunks: none is lost, torn or doubled at a cut.           *)
CutsDoNotShow ==
    LET records == Records(wire, taken) IN
    /\ Len(handed) = Cardinality(records)
    /\ \A i \in records :
         handed[Cardinality({j \in records : j <= i})] = Payload(wire, i - 1)
=============================================================================
