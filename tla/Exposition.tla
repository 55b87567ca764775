------------------------------ MODULE Exposition ------------------------------
(***************************************************************************)
(* The booth's metrics page and what tbo-metrics reads in it: the booth    *)
(* writes samples in the text format, one character after the other, and   *)
(* parse.rs reads them line by line; snapshot.rs then collects the series  *)
(* of the mount points.                                                    *)
(*                                                                         *)
(* A name, a key and a figure are one character each. The characters of a  *)
(* mount point are told apart as far as the format tells them apart. What  *)
(* goes for mount points goes for the network interfaces.                  *)
(***************************************************************************)
EXTENDS Integers, SequencesExt

CONSTANTS
    Mounts,         \* the mount points, sequences of characters
    MaxPage         \* bound: lines of a page

VARIABLES
    ahead,          \* the booth: what it is about to write of the line
    intends,        \* the sample the line is to be
    whole,          \* history: nothing of the line was lost or added
    scan,           \* parse_sample: where it is, and what it has
    meant,          \* history: the figures of the whole lines, by mount point
    samples,        \* MetricSet's `samples`
    lines,          \* how many lines of the page are over
    odd             \* a line that was not whole passed for a sample

pageVars == <<ahead, intends, whole, scan, meant, samples, lines, odd>>

Back == "\\"
Quote == "\""
LineFeed == "lf"        \* never on the wire inside a line
Letter == "n"
Value == "1"
NoText == ""
OneSpace == " "
Comma == ","
EqualSign == "="
OpenBrace == "{"
CloseBrace == "}"
UsedKey == "used"       \* DISK_USED
TotalKey == "total"     \* DISK_TOTAL
GaugeKey == "gauge"     \* a series that is only looked at by its name
Comment == "#"
MountKey == "mountpoint"
IdKey == "booth_id"
Names == {UsedKey, TotalKey, GaugeKey, MountKey, IdKey, Letter, Value}

ASSUME PageAssumption ==
    /\ Mounts \subseteq Seq({Back, Quote, LineFeed, Letter, Comma, CloseBrace})
    /\ MaxPage \in Nat \ {0}

NoMount == <<>>
SampleOf(name, labels) == [name |-> name, labels |-> labels]
Label(key, value) == <<key, value>>
-----------------------------------------------------------------------------
(* The booth (external): the exporter escapes what would end the value.    *)
Escaped(c) ==
    CASE c = Back -> <<Back, Back>> [] c = Quote -> <<Back, Quote>>
      [] c = LineFeed -> <<Back, Letter>> [] OTHER -> <<c>>

Written(mount) == FoldLeft(LAMBDA wire, c : wire \o Escaped(c), <<>>, mount)

LineOf(name, mount) ==
    IF name = Comment THEN <<Comment>>
    ELSE IF name = GaugeKey THEN <<name, OneSpace, Value>>
    ELSE <<name, OpenBrace, IdKey, EqualSign, Quote, Letter, Quote, Comma, MountKey, EqualSign, Quote>>
             \o Written(mount) \o <<Quote, CloseBrace, OneSpace, Value>>

Figure(name, mount) == <<name, mount>>
-----------------------------------------------------------------------------
(* The reader, character by character. `at` is where in the line it is.    *)
Fresh == [at |-> "start", name |-> NoText, key |-> NoText, value |-> <<>>, labels |-> <<>>]
Malformed == [Fresh EXCEPT !.at = "malformed"]

UnescapedAsItIs(c) == c     \* a slip: an escaped n is an n
(* scan_quoted. *)
Unescaped(c) == IF c = Letter THEN LineFeed ELSE c

Quoted(s, c) ==
    IF s.at = "escaped" THEN [s EXCEPT !.at = "quoted", !.value = Append(@, Unescaped(c))]
    ELSE IF c = Back THEN [s EXCEPT !.at = "escaped"]
    ELSE IF c = Quote
         THEN [s EXCEPT !.at = "label_over", !.value = <<>>,
                        !.labels = Append(@, Label(s.key, s.value))]
    ELSE [s EXCEPT !.value = Append(@, c)]

(* scan_labels: a key is whatever stands before the sign of equality, and  *)
(* blanks around keys, values and commas do not count. *)
Labelled(s, c) ==
    IF c = OneSpace THEN s
    ELSE CASE s.at \in {"labels", "next_label", "key"} /\ c = EqualSign ->
                IF s.key = NoText THEN Malformed ELSE [s EXCEPT !.at = "equals"]
           [] s.at \in {"labels", "next_label"} /\ c \notin {EqualSign, CloseBrace} ->
                [s EXCEPT !.at = "key", !.key = c]
           [] s.at = "key" /\ c # EqualSign -> [s EXCEPT !.key = Letter]
           [] s.at = "equals" -> IF c = Quote THEN [s EXCEPT !.at = "quoted"] ELSE Malformed
           [] s.at = "label_over" /\ c = Comma -> [s EXCEPT !.at = "next_label", !.key = NoText]
           [] s.at \in {"labels", "next_label", "label_over"} /\ c = CloseBrace ->
                [s EXCEPT !.at = "labelled"]
           [] OTHER -> Malformed

(* parse_sample: the name, the labels if there are any, the value; what    *)
(* stands behind the value is not looked at.                               *)
Scanned(s, c) ==
    CASE s.at \in {"malformed", "stamped"} -> s
      [] s.at = "valued" ->
            IF c = OneSpace THEN [s EXCEPT !.at = "stamped"]
            ELSE IF c = Value THEN s ELSE Malformed
      [] s.at = "start" ->
            IF c = OneSpace THEN s
            ELSE IF c \in Names THEN [s EXCEPT !.at = "named", !.name = c] ELSE Malformed
      [] s.at = "named" ->
            IF c \in Names THEN [s EXCEPT !.name = Letter]
            ELSE IF c = OpenBrace THEN [s EXCEPT !.at = "labels"]
            ELSE IF c = OneSpace THEN [s EXCEPT !.at = "labelled"] ELSE Malformed
      [] s.at \in {"quoted", "escaped"} -> Quoted(s, c)
      [] s.at = "labelled" ->
            IF c = OneSpace THEN s
            ELSE IF c = Value THEN [s EXCEPT !.at = "valued"] ELSE Malformed
      [] OTHER -> Labelled(s, c)

\* A sample is what has its value.
Parsed(s) == s.at \in {"valued", "stamped"}
-----------------------------------------------------------------------------
PageTypeOK ==
    /\ intends \in {Figure(n, m) : n \in Names \cup {Comment}, m \in Mounts \cup {NoMount}}
    /\ scan.at \in {"start", "named", "labels", "next_label", "key", "equals", "quoted",
                     "escaped", "label_over", "labelled", "valued", "stamped", "malformed"}
    /\ Len(samples) <= lines /\ lines \in 0..MaxPage
    /\ {whole, odd} \subseteq BOOLEAN

PageInit ==
    /\ ahead = <<>> /\ intends = Figure(Comment, NoMount) /\ whole = TRUE
    /\ scan = Fresh
    /\ meant = {} /\ samples = <<>> /\ lines = 0 /\ odd = FALSE

BeginsLine(name, mount) ==
    /\ ahead = <<>> /\ scan = Fresh /\ lines < MaxPage /\ ~odd
    /\ ahead' = LineOf(name, mount)
    /\ intends' = Figure(name, mount)
    /\ whole' = TRUE
    /\ UNCHANGED <<scan, meant, samples, lines, odd>>

WritesChar ==
    /\ ahead # <<>>
    /\ scan' = Scanned(scan, Head(ahead))
    /\ ahead' = Tail(ahead)
    /\ UNCHANGED <<intends, whole, meant, samples, lines, odd>>

\* Another booth, another exporter, or a page that was tampered with.
CharAdded(c) ==
    /\ ahead # <<>> /\ whole
    /\ scan' = Scanned(scan, c)
    /\ whole' = FALSE
    /\ UNCHANGED <<ahead, intends, meant, samples, lines, odd>>

CharLost ==
    /\ ahead # <<>> /\ whole
    /\ ahead' = Tail(ahead)
    /\ whole' = FALSE
    /\ UNCHANGED <<intends, scan, meant, samples, lines, odd>>

LineCut ==
    /\ ahead # <<>>
    /\ ahead' = <<>>
    /\ whole' = FALSE
    /\ UNCHANGED <<intends, scan, meant, samples, lines, odd>>

(* A line is over: it is a sample or it is skipped. *)
LineOver ==
    /\ ahead = <<>> /\ scan # Fresh
    /\ lines' = lines + 1
    /\ samples' = samples \o (IF Parsed(scan) THEN <<SampleOf(scan.name, scan.labels)>>
                              ELSE <<>>)
    /\ meant' = meant \cup {f \in {intends} : whole /\ f[1] # Comment}
    /\ odd' = (Parsed(scan) /\ ~whole)
    /\ scan' = Fresh
    /\ UNCHANGED <<ahead, intends, whole>>

\* The page was read, and the next scrape begins.
PageOver ==
    /\ ahead = <<>> /\ scan = Fresh /\ lines > 0
    /\ meant' = {} /\ samples' = <<>> /\ lines' = 0 /\ odd' = FALSE
    /\ UNCHANGED <<ahead, intends, whole, scan>>

PageNext ==
    \/ \E name \in {GaugeKey, Comment} : BeginsLine(name, NoMount)
    \/ \E name \in {UsedKey, TotalKey}, mount \in Mounts : BeginsLine(name, mount)
    \/ WritesChar \/ CharLost \/ LineCut \/ LineOver \/ PageOver
    \/ \E c \in {CloseBrace, Comma, OneSpace, Quote, Back, Value, Letter} : CharAdded(c)

PageSpec == PageInit /\ [][PageNext]_pageVars
-----------------------------------------------------------------------------
(* Sample::label, value and extract_disks: a gauge is the first sample of  *)
(* its name, a mount point is listed with the figures read for it.         *)
LabelOf(sample, key) ==
    LET of == {i \in DOMAIN sample.labels : sample.labels[i][1] = key}
    IN  {sample.labels[i][2] : i \in {j \in of : \A k \in of : j <= k}}

Disks(set) ==
    UNION {{Figure(set[i].name, m) : m \in LabelOf(set[i], MountKey)} :
             i \in {j \in DOMAIN set : set[j].name \in {UsedKey, TotalKey}}}

Gauges(set) ==
    {Figure(set[i].name, NoMount) : i \in {j \in DOMAIN set : set[j].name = GaugeKey}}

(* What the booth writes is what is read, whatever its mount points are    *)
(* called: each is listed with its own figures and with no other's, none   *)
(* is missing, and a line that is skipped takes none of its neighbours     *)
(* with it. The reader unescapes what the exporter escaped, with a scanner *)
(* written by hand.                                                        *)
PageReadsBack ==
    scan = Fresh /\ ~odd => Disks(samples) \cup Gauges(samples) = meant
=============================================================================
