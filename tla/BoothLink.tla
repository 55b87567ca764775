------------------------------- MODULE BoothLink -------------------------------
(***************************************************************************)
(* The way to a booth's debug server (tbo-booth-client): the client and    *)
(* the telemetry socket that are made of one configured booth, which       *)
(* certificate each of them takes for the booth's, what they send, and     *)
(* what the replies become.                                                *)
(*                                                                         *)
(* Of the base URL there is its scheme, whether it is in capitals and      *)
(* whether blanks surround it; certificates are known by their digest.     *)
(***************************************************************************)
EXTENDS FiniteSets

CONSTANT Made           \* the calls of the client that are made

VARIABLES
    booth,          \* the configured booth: scheme, caps, blank, pin, token
    client,         \* how the REST client was built
    peer,           \* who answers at the booth's address
    request,        \* the request under way, or the last one
    heard           \* those who were sent the booth's token over TLS

linkVars == <<booth, client, peer, request, heard>>

Schemes == {"http", "https", "ws", "wss", "other"}

(* The pin as it is written: not at all, blanks, no digest, a digest in    *)
(* one of the ways that are allowed, each of the booth's certificate.      *)
Pins == {"none", "blank", "malformed", "bare", "colons", "capitals"}

(* The booth with the certificate that was pinned or with a new one, some  *)
(* other host with a certificate of its own, and one that a public         *)
(* authority vouches for.                                                  *)
Peers == {"booth", "renewed", "stranger", "public"}
CertOf(p) == p

Booths == [scheme: Schemes, caps: BOOLEAN, blank: {"no", "before", "after"},
           pin: Pins, token: BOOLEAN]

Reads == {"health", "state", "events", "gpio", "audio", "system", "logs", "config",
          "cert_fingerprint", "metrics"}
Controls == {"simulate_event", "simulate_pulse"}

ASSUME LinkAssumption == Made \subseteq Reads \cup Controls

LinkErrors == {"transport", "unauthorized", "controls_denied", "not_found", "http",
               "decode", "invalid"}
Idle == [of |-> "none", at |-> "ended", reply |-> "none", out |-> "none"]
Replies == {"ok", "no_content", "denied", "forbidden", "controls", "missing", "other"}

LinkTypeOK ==
    /\ booth \in Booths
    /\ client \in {"plain", "pinned", "none"}
    /\ peer \in Peers
    /\ request.of \in Made \cup {"none", "telemetry"}
    /\ request.at \in {"sent", "done", "refused", "ended"}
    /\ request.out \in LinkErrors \cup {"none", "ok", "nothing", "open", "dropped"}
    /\ heard \subseteq Peers
-----------------------------------------------------------------------------
(* normalize_fingerprint: blanks and colons are dropped, the rest is hex   *)
(* in either case and of a digest's length.                                *)
Normalized(pin) == IF pin \in {"bare", "colons", "capitals"} THEN CertOf("booth") ELSE "none"
Given(pin) == pin \notin {"none", "blank"}

(* A server is taken at its word without TLS; over TLS it is the pinned    *)
(* certificate that counts, by itself, or else a public authority.         *)
Accepts(how, tls, p) ==
    \/ ~tls
    \/ how = "pinned" /\ CertOf(p) = Normalized(booth.pin)
    \/ how = "plain" /\ p = "public"

ConnectedIfSmall(b) ==      \* a slip: the scheme is compared as it is written
    IF b.scheme = "https" /\ ~b.caps /\ Given(b.pin)
    THEN IF Normalized(b.pin) = "none" THEN "none" ELSE "pinned"
    ELSE "plain"

(* BoothClient::connect: the scheme is looked at without the blanks before *)
(* it and in either case.                                                  *)
Connected(b) ==
    IF b.scheme = "https" /\ Given(b.pin)
    THEN IF Normalized(b.pin) = "none" THEN "none" ELSE "pinned"
    ELSE "plain"

(* What the HTTP client makes of the base URL with a path behind it: the   *)
(* blanks before it are dropped, those after it are in the middle.         *)
RestUrlFits == booth.scheme \in {"http", "https"} /\ booth.blank # "after"
RestTls == booth.scheme = "https"

(* telemetry_ws_url: blanks are trimmed, the scheme must be in small       *)
(* letters.                                                                *)
SocketUrlFits == booth.scheme # "other" /\ ~booth.caps
SocketTls == booth.scheme \in {"https", "wss"}
-----------------------------------------------------------------------------
LinkInit ==
    /\ booth \in Booths
    /\ client = Connected(booth)
    /\ peer = "booth"
    /\ request = Idle
    /\ heard = {}

\* What is left of a request is how it went.
Over(out) == request' = [Idle EXCEPT !.out = out]

(* Once the connection stands the request goes out, with the token. *)
Reaches(how, tls, of) ==
    \/ /\ Accepts(how, tls, peer)
       /\ request' = [of |-> of, at |-> "sent", reply |-> "none", out |-> "none"]
       /\ heard' = heard \cup {p \in {peer} : tls /\ booth.token}
    \/ /\ Over("transport")
       /\ UNCHANGED heard

(* A call of the client. Without a client there is no panel to make it. *)
Call(c) ==
    /\ request.at = "ended" /\ client # "none"
    /\ \/ RestUrlFits /\ Reaches(client, RestTls, c)
       \/ ~RestUrlFits /\ Over("transport") /\ UNCHANGED heard
    /\ UNCHANGED <<booth, client, peer>>

(* connect_telemetry: the URL and the pin are looked at before anything is *)
(* sent, and there is no TLS without a pin.                                *)
Follow ==
    /\ request.at = "ended" /\ client # "none"
    /\ LET fits == SocketUrlFits /\ (SocketTls => Normalized(booth.pin) # "none")
       IN  \/ fits /\ Reaches("pinned", SocketTls, "telemetry")
           \/ ~fits /\ Over("invalid") /\ UNCHANGED heard
    /\ UNCHANGED <<booth, client, peer>>

(* The server answers: it does what it was asked, or refuses. *)
Answers ==
    /\ request.at = "sent"
    /\ \/ \E reply \in {"ok"} \cup {r \in {"no_content"} : request.of = "system"} :
            request' = [request EXCEPT !.at = "done", !.reply = reply]
       \/ \E reply \in Replies \ {"ok", "no_content"} :
            request' = [request EXCEPT !.at = "refused", !.reply = reply]
    /\ UNCHANGED <<booth, client, peer, heard>>

StatusErrorOf ==
    [denied |-> "unauthorized", forbidden |-> "unauthorized", controls |-> "controls_denied",
     missing |-> "not_found", other |-> "http"]

(* status_error and decode_success; a system without a sample is no error, *)
(* the metrics are text, and a socket that is refused is no connection.    *)
Outcome(r, fits) ==
    IF r.of = "telemetry" THEN (IF r.at = "done" THEN "open" ELSE "transport")
    ELSE IF r.at = "refused" THEN StatusErrorOf[r.reply]
    ELSE IF r.reply = "no_content" THEN "nothing"
    ELSE IF fits \/ r.of = "metrics" THEN "ok"
    ELSE "decode"

AnswerArrives(fits) ==
    /\ request.at \in {"done", "refused"}
    /\ Over(Outcome(request, fits))
    /\ UNCHANGED <<booth, client, peer, heard>>

(* The connection breaks before the reply is there, or the task goes. *)
AnswerLost ==
    /\ request.at # "ended"
    /\ \E out \in {"transport", "dropped"} : Over(out)
    /\ UNCHANGED <<booth, client, peer, heard>>

(* The address goes to another host, or the booth to a new certificate. *)
PeerChanges ==
    /\ peer' \in Peers \ {peer}
    /\ UNCHANGED <<booth, client, request, heard>>

LinkNext ==
    \/ \E c \in Made : Call(c)
    \/ Follow \/ Answers \/ AnswerLost \/ PeerChanges
    \/ \E fits \in BOOLEAN : AnswerArrives(fits)

LinkSpec == LinkInit /\ [][LinkNext]_linkVars
-----------------------------------------------------------------------------
(* Over TLS the booth's token goes only to the certificate that was        *)
(* pinned, however the base URL and the pin are written, and whoever       *)
(* answers at the address by then; without a pin only to a server that a   *)
(* public authority vouches for. Two pieces of code that look at the URL   *)
(* each in its own way decide about it, one for REST, one for the socket.  *)
TokenGoesToPinned ==
    heard \subseteq IF Given(booth.pin) THEN {"booth"} ELSE {"public"}
=============================================================================
