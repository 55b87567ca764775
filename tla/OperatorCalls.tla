---------------------------- MODULE OperatorCalls ----------------------------
(***************************************************************************)
(* The operator API client: the requests every call makes, the token each  *)
(* of them asks for, and what becomes of the replies (client.rs,           *)
(* transport.rs, error.rs and token.rs of tbo-operator-client); and        *)
(* datacmd.rs, the export and the import that run without the screens.     *)
(*                                                                         *)
(* The client keeps no state, so one call at a time is followed, while the *)
(* operator signs in and out and the server does what it likes. Paths,     *)
(* queries and bodies are left out but for the audio file that a question  *)
(* refers to. What is assumed of the server and the blob store: a success  *)
(* (2xx) is answered after the act, a 401, 403 or 404 instead of it. Any   *)
(* other status, a 5xx first of all, may be answered before the act, after *)
(* it or half way through it, which counts as carried out here.            *)
(***************************************************************************)
EXTENDS Naturals, Sequences

CONSTANTS
    Called,         \* the calls that are made
    MaxFiles        \* bound: upload slots the server hands out

VARIABLES
    signedIn,       \* what the TokenProvider would answer: a token or none
    call,           \* the call under way, or the last one
    carried,        \* how many of the call's requests the server carried out
    slots,          \* the server: audio files it has handed out slots for
    blobs,          \* the blob store: audio files it holds
    prompts,        \* the server: audio files that questions refer to
    archive         \* the file the export writes and the import reads

requestVars == <<signedIn, call, carried, slots, blobs, prompts, archive>>
serverVars == <<carried, slots, blobs, prompts>>

(* A request: the transport's method, what the client wants of the reply,  *)
(* and what the server does when it carries it out.                        *)
Request(via, wants, does) == [via |-> via, wants |-> wants, does |-> does]

Get == <<Request("get", "json", "nothing")>>
Post == <<Request("post", "json", "change")>>
Delete == <<Request("delete", "success", "change")>>

(* The calls of the client, by what they are about. *)
StatusCalls ==
    [status |-> Get, status_history |-> Get, system_current |-> Get,
     status_stream |-> <<Request("socket", "stream", "nothing")>>]
MessageReads == [messages |-> Get, message |-> Get, message_transcriptions |-> Get]
QuestionReads == [questions |-> Get]
EventReads ==
    [events |-> Get, events_stream |-> <<Request("get_sse", "stream", "nothing")>>]
SessionReads == [sessions |-> Get, session |-> Get]
AuditReads == [audit_logs |-> Get, audit_log_target |-> Get]
IdentityReads == [operator_me |-> Get]
StatsReads == [stats_overview |-> Get, stats_overview_range |-> Get, metric_filters |-> Get]
TokenReads == [api_tokens |-> Get, api_token_usage |-> Get]

MessageWrites ==
    [decide_message |-> Post, submit_translation |-> Post,
     retranscribe_message |-> Post, remoderate_message |-> Post,
     delete_message |-> Delete]
TokenWrites == [create_api_token |-> Post, revoke_api_token |-> Delete]
QuestionWrites ==
    [activate_question |-> Post, deactivate_question |-> Post,
     archive_question |-> Delete]
FilterWrites == [create_metric_filter |-> Post, delete_metric_filter |-> Delete]

Upload ==
    [create_question_with_audio |->
        <<Request("post", "slot", "slot"), Request("put_bytes", "success", "blob"),
          Request("post", "json", "question")>>]
AudioReads == [download_audio |-> <<Request("get_bytes", "bytes", "nothing")>>]
DataCalls ==
    [export_data |-> <<Request("get_bytes_auth", "bytes", "nothing")>>,
     import_data |-> <<Request("post_bytes", "json", "change")>>]

CallTables ==
    {StatusCalls, MessageReads, QuestionReads, EventReads, SessionReads, AuditReads,
     IdentityReads, StatsReads, TokenReads, MessageWrites, TokenWrites, QuestionWrites,
     FilterWrites, Upload, AudioReads, DataCalls}
ClientCalls ==
    [c \in UNION {DOMAIN table : table \in CallTables} |->
        (CHOOSE table \in CallTables : c \in DOMAIN table)[c]]

ASSUME RequestAssumption ==
    Called \subseteq DOMAIN ClientCalls /\ Called # {} /\ MaxFiles \in Nat

(* The calls that check their arguments before they ask for a token: an    *)
(* instant that does not format, a custom window without its range.        *)
Checked == {"status_history", "messages", "events", "stats_overview", "stats_overview_range"}

\* The requests that go to a URL with a token of its own, without a bearer.
Bare == {"put_bytes", "get_bytes"}

Files == 1..MaxFiles
NoFile == 0
\* 2xx; 401 and 403; 404; any other status.
ReplyStatuses == {"ok", "denied", "missing", "other"}
Errors == {"transport", "unauthenticated", "unauthorized", "not_found", "http",
           "decode", "invalid", "io"}

\* `step` is the request the call is at, `file` the audio file it uploads.
CallStates ==
    [of: Called, step: 1..3, at: {"token", "sent", "carried", "refused", "ended", "write"},
     status: ReplyStatuses, file: Files \cup {NoFile}, out: Errors \cup {"none", "ok", "dropped"}]
NoRequest ==
    [of |-> CHOOSE c \in Called : TRUE, step |-> 1, at |-> "ended", status |-> "ok",
     file |-> NoFile, out |-> "none"]

RequestsTypeOK ==
    /\ signedIn \in BOOLEAN
    /\ call \in CallStates
    /\ carried \in 0..3
    /\ slots \subseteq Files /\ blobs \subseteq Files /\ prompts \subseteq Files
    /\ archive \in {"absent", "empty", "part", "full"}

RequestsInit ==
    /\ signedIn \in BOOLEAN
    /\ call = NoRequest
    /\ carried = 0
    /\ slots = {} /\ blobs = {} /\ prompts = {}
    /\ archive \in {"absent", "empty", "full"}
-----------------------------------------------------------------------------
AtRequest == ClientCalls[call.of][call.step]
Fails(error) == call' = [call EXCEPT !.at = "ended", !.out = error]

(* A reply as it arrives: lost with the connection, cut off in its body,   *)
(* whole but not what was asked for, a slot without an audio file id, or   *)
(* as it should be.                                                        *)
Arrivals == {"lost", "cut", "garbled", "no_id", "good"}

StatusError ==
    [denied |-> "unauthorized", missing |-> "not_found", other |-> "http"]

\* send_text: the body is read whole, whatever the status.
Texted(reply) == reply \notin {"lost", "cut"}

(* The requests of text, with decode_success, the slot that must have an   *)
(* id, and the deletes and uploads that do not look at the body.           *)
TextResult(wants, status, reply) ==
    IF ~Texted(reply) THEN "transport"
    ELSE IF status # "ok" THEN StatusError[status]
    ELSE IF reply = "garbled" /\ wants # "success" THEN "decode"
    ELSE IF reply = "no_id" /\ wants = "slot" THEN "invalid"
    ELSE "ok"

BytesResultAny(status, reply) ==    \* a slip: a refusal's body passes for the bytes
    IF reply \in {"lost", "cut"} THEN "transport" ELSE "ok"

(* The requests of bytes: the body of an error may be cut. *)
BytesResult(status, reply) ==
    IF reply = "lost" THEN "transport"
    ELSE IF status # "ok" THEN StatusError[status]
    ELSE IF reply = "cut" THEN "transport"
    ELSE "ok"

(* A stream is open with its header; a socket that is refused is an error  *)
(* of the transport, whatever the status.                                  *)
StreamResult(via, status, reply) ==
    IF reply = "lost" THEN "transport"
    ELSE IF status = "ok" THEN "ok"
    ELSE IF via = "socket" THEN "transport"
    ELSE StatusError[status]

Result(request, status, reply) ==
    CASE request.wants = "bytes" -> BytesResult(status, reply)
      [] request.wants = "stream" -> StreamResult(request.via, status, reply)
      [] OTHER -> TextResult(request.wants, status, reply)
-----------------------------------------------------------------------------
(* A call begins with its arguments; datacmd.rs reads the archive before   *)
(* it makes the call.                                                      *)
BeginCall(c, fit) ==
    /\ call.at = "ended"
    /\ LET begun == [NoRequest EXCEPT !.of = c, !.at = "token"]
       IN  \/ c \in Checked /\ ~fit
              /\ call' = [begun EXCEPT !.at = "ended", !.out = "invalid"]
           \/ c = "import_data" /\ archive \in {"absent", "empty"}
              /\ call' = [begun EXCEPT !.at = "ended", !.out = "io"]
           \/ /\ c \in Checked => fit
              /\ c = "import_data" => archive \in {"part", "full"}
              /\ call' = begun
    /\ carried' = 0
    /\ UNCHANGED <<signedIn, slots, blobs, prompts, archive>>

(* The bearer for the request, asked for anew at every step of the call;   *)
(* only a blob's URL needs none. The socket's URL is made of the base URL  *)
(* once the token is there.                                                *)
Sends(fit) ==
    /\ call.at = "token"
    /\ \/ /\ AtRequest.via \notin Bare /\ ~signedIn
          /\ Fails("unauthenticated")
       \/ /\ AtRequest.via = "socket" /\ signedIn /\ ~fit
          /\ Fails("invalid")
       \/ /\ AtRequest.via \in Bare \/ signedIn
          /\ AtRequest.via = "socket" => fit
          /\ call' = [call EXCEPT !.at = "sent"]
    /\ UNCHANGED <<signedIn, serverVars, archive>>

(* The token's refresh or the keychain fails (SessionTokenProvider). *)
TokenFails ==
    /\ call.at = "token" /\ AtRequest.via \notin Bare
    /\ Fails("transport")
    /\ UNCHANGED <<signedIn, serverVars, archive>>

(* The server or the blob store carries the request out, wholly or in      *)
(* part, and answers with a success or with an error of its own or of a    *)
(* gateway.                                                                *)
CarriesOut(status) ==
    /\ call.at = "sent" /\ status \in {"ok", "other"}
    /\ carried' = carried + 1
    /\ \/ /\ AtRequest.does = "slot"
          /\ \E f \in Files \ slots :
                /\ slots' = slots \cup {f}
                /\ call' = [call EXCEPT !.at = "carried", !.status = status, !.file = f]
          /\ UNCHANGED <<blobs, prompts>>
       \/ /\ AtRequest.does # "slot"
          /\ call' = [call EXCEPT !.at = "carried", !.status = status]
          /\ blobs' = blobs \cup {f \in {call.file} : AtRequest.does = "blob"}
          /\ prompts' = prompts \cup {f \in {call.file} : AtRequest.does = "question"}
          /\ UNCHANGED slots
    /\ UNCHANGED <<signedIn, archive>>

(* It does nothing, and says so or fails.                                  *)
Refuses(status) ==
    /\ call.at = "sent" /\ status # "ok"
    /\ call' = [call EXCEPT !.at = "refused", !.status = status]
    /\ UNCHANGED <<signedIn, serverVars, archive>>

\* The request never reaches the server.
SendFails ==
    /\ call.at = "sent"
    /\ Fails("transport")
    /\ UNCHANGED <<signedIn, serverVars, archive>>

(* The call goes on to its next request, or ends; the export's bytes are   *)
(* still to be written.                                                    *)
NextRequest(result) ==
    IF result # "ok" THEN Fails(result)
    ELSE IF call.step < Len(ClientCalls[call.of])
         THEN call' = [call EXCEPT !.step = @ + 1, !.at = "token"]
    ELSE IF call.of = "export_data" THEN call' = [call EXCEPT !.at = "write"]
    ELSE Fails("ok")

ReplyArrives(reply) ==
    /\ call.at \in {"carried", "refused"}
    /\ NextRequest(Result(AtRequest, call.status, reply))
    /\ UNCHANGED <<signedIn, serverVars, archive>>

(* datacmd::export writes what it got, which may fail half way. *)
WritesArchive ==
    /\ call.at = "write"
    /\ \/ archive' = "full" /\ Fails("ok")
       \/ archive' \in {archive, "part"} /\ Fails("io")
    /\ UNCHANGED <<signedIn, serverVars>>

(* The task is aborted or the program ends, wherever the call is. *)
Dropped ==
    /\ call.at # "ended"
    /\ archive' \in {archive} \cup (IF call.at = "write" THEN {"part"} ELSE {})
    /\ Fails("dropped")
    /\ UNCHANGED <<signedIn, serverVars>>

SignsInOrOut ==
    /\ signedIn' = ~signedIn
    /\ UNCHANGED <<call, serverVars, archive>>

RequestsNext ==
    \/ \E c \in Called, fit \in BOOLEAN : BeginCall(c, fit)
    \/ \E fit \in BOOLEAN : Sends(fit)
    \/ TokenFails \/ SendFails
    \/ \E status \in ReplyStatuses : CarriesOut(status) \/ Refuses(status)
    \/ \E reply \in Arrivals : ReplyArrives(reply)
    \/ WritesArchive \/ Dropped \/ SignsInOrOut

RequestsSpec == RequestsInit /\ [][RequestsNext]_requestVars
-----------------------------------------------------------------------------
(* No question refers to an audio file that the blob store does not hold,  *)
(* though create_question_with_audio makes three requests of two servers   *)
(* any of which may fail, be lost or never be followed by the next.        *)
QuestionHasAudio == prompts \subseteq blobs

(* What a caller may conclude from a call's end, for instance before it    *)
(* tries again: after success every request was carried out, and an        *)
(* export's file is whole; where the token, a 401, 403 or 404 stopped it,  *)
(* the last request was not, those before it were; an answer that does not *)
(* decode was carried out; a failure of the transport, any other status or *)
(* a call dropped leaves its last request open, and none but the last.     *)
(* client.rs has five ways from a reply to a result, and a slot without an *)
(* id is refused after the server has handed it out. Therefore every       *)
(* question has its audio.                                                 *)
EndTellsWhatWasDone ==
    /\ QuestionHasAudio
    /\ call.at = "ended" /\ call.out # "none" =>
        CASE call.out = "ok" ->
                /\ carried = Len(ClientCalls[call.of])
                /\ call.of = "export_data" => archive = "full"
          [] call.out \in {"unauthenticated", "unauthorized", "not_found"} ->
                carried = call.step - 1
          [] call.out = "decode" -> carried = call.step
          [] call.out = "invalid" ->
                carried = IF call.of = "create_question_with_audio" THEN 1 ELSE 0
          [] call.out = "io" ->
                carried = IF call.of = "export_data" THEN 1 ELSE 0
          [] OTHER -> carried \in {call.step - 1, call.step}
=============================================================================
