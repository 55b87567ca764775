----------------------------- MODULE Edge_proofs -----------------------------
(***************************************************************************)
(* Theorems about what the program does at its edges: the requests of the  *)
(* operator's client (OperatorCalls, for any set of calls of the API), the *)
(* device code (DevicePoll, for any interval, lifetime and delay), the     *)
(* event stream (SseStream, for any streams of bytes), its two files       *)
(* (ConfigStore) and the first-run setup (Onboarding).                     *)
(***************************************************************************)
EXTENDS OperatorCalls, DevicePoll, SseStream, ConfigStore, Onboarding,
        Induction, SequenceTheorems

------------------------------------------------------------------------------
(* OperatorCalls: what the end of a call tells.                            *)

UploadCall == "create_question_with_audio"

(* Every call but the upload is one request, and not for an upload slot.   *)
SingleRequests ==
    [via: {"get", "post", "delete", "socket", "get_sse", "get_bytes", "get_bytes_auth", "post_bytes"},
     wants: {"json", "success", "stream", "bytes"}, does: {"nothing", "change"}]
Shape(f) ==
    \A c \in DOMAIN f : IF c = UploadCall THEN f[c] = Upload[UploadCall]
                        ELSE \E r \in SingleRequests : f[c] = <<r>>

LEMMA GetShapes ==
    /\ Shape(StatusCalls) /\ Shape(MessageReads) /\ Shape(QuestionReads) /\ Shape(EventReads)
    /\ Shape(SessionReads) /\ Shape(AuditReads) /\ Shape(IdentityReads) /\ Shape(StatsReads)
    /\ Shape(TokenReads)
  <1>1. Shape(StatusCalls) /\ Shape(EventReads)
    BY DEF Shape, StatusCalls, EventReads, Get, Request, SingleRequests, UploadCall
  <1>2. Shape(MessageReads) /\ Shape(QuestionReads) /\ Shape(SessionReads) /\ Shape(AuditReads)
    BY DEF Shape, MessageReads, QuestionReads, SessionReads, AuditReads, Get, Request, SingleRequests, UploadCall
  <1>3. Shape(IdentityReads) /\ Shape(StatsReads) /\ Shape(TokenReads)
    BY DEF Shape, IdentityReads, StatsReads, TokenReads, Get, Request, SingleRequests, UploadCall
  <1> QED
    BY <1>1, <1>2, <1>3

LEMMA WriteShapes ==
    /\ Shape(MessageWrites) /\ Shape(TokenWrites) /\ Shape(QuestionWrites) /\ Shape(FilterWrites)
    /\ Shape(Upload) /\ Shape(AudioReads) /\ Shape(DataCalls)
  <1>1. Shape(MessageWrites)
    BY DEF Shape, MessageWrites, Post, Delete, Request, SingleRequests, UploadCall
  <1>2. Shape(TokenWrites) /\ Shape(QuestionWrites) /\ Shape(FilterWrites)
    BY DEF Shape, TokenWrites, QuestionWrites, FilterWrites, Post, Delete, Request, SingleRequests, UploadCall
  <1>3. Shape(AudioReads) /\ Shape(DataCalls)
    BY DEF Shape, AudioReads, DataCalls, Request, SingleRequests, UploadCall
  <1>4. DOMAIN Upload = {UploadCall}
    BY DEF Upload, UploadCall
  <1>5. Shape(Upload)
    BY <1>4 DEF Shape
  <1> QED
    BY <1>1, <1>2, <1>3, <1>5

LEMMA CallShapes == Shape(ClientCalls)
  <1>1. \A table \in CallTables : Shape(table)
    BY GetShapes, WriteShapes DEF CallTables
  <1> SUFFICES ASSUME NEW c \in DOMAIN ClientCalls
               PROVE  IF c = UploadCall THEN ClientCalls[c] = Upload[UploadCall]
                      ELSE \E r \in SingleRequests : ClientCalls[c] = <<r>>
    BY DEF Shape
  <1> DEFINE of == CHOOSE table \in CallTables : c \in DOMAIN table
  <1>2. ClientCalls[c] = of[c] /\ \E table \in CallTables : c \in DOMAIN table
    BY DEF ClientCalls
  <1>3. of \in CallTables /\ c \in DOMAIN of
    BY <1>2
  <1> HIDE DEF of
  <1> QED
    BY <1>1, <1>2, <1>3 DEF Shape

LEMMA UploadRequests ==
    /\ Len(Upload[UploadCall]) = 3
    /\ Upload[UploadCall][1] = Request("post", "slot", "slot")
    /\ Upload[UploadCall][2] = Request("put_bytes", "success", "blob")
    /\ Upload[UploadCall][3] = Request("post", "json", "question")
  BY DEF Upload, UploadCall

(* What a request of a call can be.                                        *)
LEMMA Requests ==
    ASSUME NEW c \in Called, NEW k \in 1..Len(ClientCalls[c])
    PROVE  /\ Len(ClientCalls[c]) \in {1, 3}
           /\ Len(ClientCalls[c]) = 1 <=> c # UploadCall
           /\ c # UploadCall => ClientCalls[c][k] \in SingleRequests
           /\ c = UploadCall /\ k = 1 => ClientCalls[c][k] = Request("post", "slot", "slot")
           /\ c = UploadCall /\ k = 2 => ClientCalls[c][k] = Request("put_bytes", "success", "blob")
           /\ c = UploadCall /\ k = 3 => ClientCalls[c][k] = Request("post", "json", "question")
  <1>1. c \in DOMAIN ClientCalls
    BY RequestAssumption
  <1>2. CASE c = UploadCall
    BY <1>1, <1>2, CallShapes, UploadRequests DEF Shape
  <1>3. CASE c # UploadCall
    <2>1. PICK r \in SingleRequests : ClientCalls[c] = <<r>>
      BY <1>1, <1>3, CallShapes DEF Shape
    <2>2. Len(ClientCalls[c]) = 1 /\ ClientCalls[c][1] = r
      BY <2>1
    <2>3. k = 1
      BY <2>2
    <2> QED
      BY <1>3, <2>2, <2>3
  <1> QED
    BY <1>2, <1>3

-----------------------------------------------------------------------------
Steps == 1..Len(ClientCalls[call.of])

(* How far the call is: what the server has carried out of it, which file  *)
(* it holds, and what is written.                                          *)
CallInOrder ==
    /\ call.step \in Steps
    /\ call.at \in {"token", "sent", "refused"} => carried = call.step - 1
    /\ call.at = "carried" => carried = call.step /\ call.status \in {"ok", "other"}
    /\ call.at = "refused" => call.status # "ok"
    /\ call.at = "write" => call.of = "export_data" /\ carried = 1 /\ call.step = 1

(* The upload has a slot, and then its audio file is in the store before a *)
(* question can refer to it.                                               *)
FileInStore ==
    /\ call.step = 2 \/ (call.of = UploadCall /\ call.step = 1 /\ call.at = "carried") =>
         call.file \in Files
    /\ call.step = 3 \/ (call.step = 2 /\ call.at = "carried") => call.file \in blobs

RequestsInv == RequestsTypeOK /\ CallInOrder /\ FileInStore /\ EndTellsWhatWasDone

LEMMA CallFields ==
    ASSUME RequestsTypeOK
    PROVE  /\ call = [of |-> call.of, step |-> call.step, at |-> call.at, status |-> call.status,
                      file |-> call.file, out |-> call.out]
           /\ call.of \in Called /\ call.step \in 1..3 /\ call.file \in Files \cup {NoFile}
           /\ call.status \in ReplyStatuses
           /\ call.at \in {"token", "sent", "carried", "refused", "ended", "write"}
           /\ call.out \in Errors \cup {"none", "ok", "dropped"}
  BY DEF RequestsTypeOK, CallStates

LEMMA StepOfCall ==
    ASSUME RequestsTypeOK, CallInOrder
    PROVE  /\ Len(ClientCalls[call.of]) \in {1, 3}
           /\ Len(ClientCalls[call.of]) = 1 <=> call.of # UploadCall
           /\ call.of # UploadCall => AtRequest \in SingleRequests /\ call.step = 1
           /\ call.of = UploadCall /\ call.step = 1 => AtRequest = Request("post", "slot", "slot")
           /\ call.of = UploadCall /\ call.step = 2 => AtRequest = Request("put_bytes", "success", "blob")
           /\ call.of = UploadCall /\ call.step = 3 => AtRequest = Request("post", "json", "question")
           /\ call.step \in 1..Len(ClientCalls[call.of])
  <1>1. call.of \in Called /\ call.step \in 1..Len(ClientCalls[call.of])
    BY CallFields DEF CallInOrder, Steps
  <1> QED
    BY <1>1, Requests DEF AtRequest

LEMMA NoRequestFields ==
    /\ NoRequest \in CallStates /\ NoRequest.at = "ended" /\ NoRequest.out = "none"
    /\ NoRequest.step = 1 /\ NoRequest.status = "ok" /\ NoRequest.of \in Called
    /\ NoRequest.file = NoFile
  BY RequestAssumption DEF NoRequest, CallStates, ReplyStatuses, Errors

LEMMA OneStepOrThree ==
    ASSUME NEW c \in Called
    PROVE  1 \in 1..Len(ClientCalls[c]) /\ Len(ClientCalls[c]) \in {1, 3}
  <1>1. c \in DOMAIN ClientCalls
    BY RequestAssumption
  <1>2. CASE c = UploadCall
    BY <1>1, <1>2, CallShapes, UploadRequests DEF Shape
  <1>3. CASE c # UploadCall
    <2>1. PICK r \in SingleRequests : ClientCalls[c] = <<r>>
      BY <1>1, <1>3, CallShapes DEF Shape
    <2> QED
      BY <2>1
  <1> QED
    BY <1>2, <1>3

LEMMA RequestsInitial == RequestsInit => RequestsInv
  <1> SUFFICES ASSUME RequestsInit PROVE RequestsInv
    OBVIOUS
  <1>1. RequestsTypeOK
    BY NoRequestFields DEF RequestsInit, RequestsTypeOK
  <1>2. CallInOrder
    BY NoRequestFields, OneStepOrThree DEF RequestsInit, CallInOrder, Steps
  <1>3. FileInStore /\ EndTellsWhatWasDone
    BY NoRequestFields DEF RequestsInit, FileInStore, EndTellsWhatWasDone, QuestionHasAudio
  <1> QED
    BY <1>1, <1>2, <1>3 DEF RequestsInv

(* A call that ends with a result that tells what was done.                *)
LEMMA EndsKeep ==
    ASSUME RequestsInv, NEW out \in Errors \cup {"ok", "dropped"}, Fails(out),
           UNCHANGED serverVars, signedIn' \in BOOLEAN,
           archive' \in {"absent", "empty", "part", "full"},
           out = "ok" => carried = Len(ClientCalls[call.of])
                         /\ (call.of = "export_data" => archive' = "full"),
           out \in {"unauthenticated", "unauthorized", "not_found"} => carried = call.step - 1,
           out = "decode" => carried = call.step,
           out = "invalid" => carried = IF call.of = UploadCall THEN 1 ELSE 0,
           out = "io" => carried = IF call.of = "export_data" THEN 1 ELSE 0,
           out \in {"transport", "http", "dropped"} => carried \in {call.step - 1, call.step}
    PROVE  RequestsInv'
  <1>1. call' = [call EXCEPT !.at = "ended", !.out = out] /\ UNCHANGED <<carried, slots, blobs, prompts>>
    BY DEF Fails, serverVars
  <1>2. /\ call' \in CallStates /\ call'.at = "ended" /\ call'.out = out /\ call'.of = call.of
        /\ call'.step = call.step /\ call'.file = call.file
    BY <1>1 DEF RequestsInv, RequestsTypeOK, CallStates
  <1>3. RequestsTypeOK'
    BY <1>1, <1>2 DEF RequestsInv, RequestsTypeOK
  <1>4. CallInOrder'
    BY <1>2 DEF RequestsInv, CallInOrder, Steps
  <1>5. FileInStore'
    BY <1>1, <1>2 DEF RequestsInv, FileInStore
  <1>6. EndTellsWhatWasDone'
    <2>1. QuestionHasAudio'
      BY <1>1 DEF RequestsInv, EndTellsWhatWasDone, QuestionHasAudio
    <2> QED
      BY <1>1, <1>2, <2>1 DEF EndTellsWhatWasDone, Errors, UploadCall
  <1> QED
    BY <1>3, <1>4, <1>5, <1>6 DEF RequestsInv

LEMMA BeginCallKeeps ==
    ASSUME RequestsInv, NEW c \in Called, NEW fit \in BOOLEAN, BeginCall(c, fit)
    PROVE  RequestsInv'
  <1> DEFINE begun == [NoRequest EXCEPT !.of = c, !.at = "token"]
  <1>1. /\ \/ c \in Checked /\ call' = [begun EXCEPT !.at = "ended", !.out = "invalid"]
           \/ c = "import_data" /\ call' = [begun EXCEPT !.at = "ended", !.out = "io"]
           \/ call' = begun
        /\ carried' = 0 /\ UNCHANGED <<signedIn, slots, blobs, prompts, archive>>
    BY DEF BeginCall
  <1>2. /\ begun \in CallStates /\ begun.of = c /\ begun.at = "token" /\ begun.out = "none" /\ begun.step = 1
    BY NoRequestFields DEF CallStates
  <1> HIDE DEF begun
  <1>3. /\ call' \in CallStates /\ call'.of = c /\ call'.step = 1
        /\ \/ c \in Checked /\ call'.at = "ended" /\ call'.out = "invalid"
           \/ c = "import_data" /\ call'.at = "ended" /\ call'.out = "io"
           \/ call'.at = "token" /\ call'.out = "none"
    BY <1>1, <1>2 DEF CallStates, Errors
  <1>4. RequestsTypeOK'
    BY <1>1, <1>3 DEF RequestsInv, RequestsTypeOK
  <1>5. CallInOrder'
    BY <1>1, <1>3, OneStepOrThree DEF CallInOrder, Steps
  <1>6. FileInStore'
    BY <1>3 DEF FileInStore
  <1>7. EndTellsWhatWasDone'
    <2>1. QuestionHasAudio'
      BY <1>1 DEF RequestsInv, EndTellsWhatWasDone, QuestionHasAudio
    <2>2. c \in Checked => c # UploadCall
      BY DEF Checked, UploadCall
    <2> QED
      BY <1>1, <1>3, <2>1, <2>2 DEF EndTellsWhatWasDone, UploadCall
  <1> QED
    BY <1>4, <1>5, <1>6, <1>7 DEF RequestsInv

LEMMA Ongoing ==
    ASSUME RequestsInv, call' \in CallStates, call'.of = call.of, call'.at # "ended",
           signedIn' \in BOOLEAN, carried' \in 0..3,
           slots' \subseteq Files, blobs' \subseteq Files, prompts' \subseteq blobs',
           archive' \in {"absent", "empty", "part", "full"},
           CallInOrder', FileInStore'
    PROVE  RequestsInv'
  BY DEF RequestsInv, RequestsTypeOK, EndTellsWhatWasDone, QuestionHasAudio

LEMMA SendsKeeps ==
    ASSUME RequestsInv, NEW fit \in BOOLEAN, Sends(fit)
    PROVE  RequestsInv'
  <1>1. call.at = "token" /\ carried = call.step - 1 /\ UNCHANGED <<signedIn, serverVars, archive>>
    BY DEF Sends, RequestsInv, CallInOrder
  <1>2. signedIn' \in BOOLEAN /\ archive' \in {"absent", "empty", "part", "full"}
    BY <1>1 DEF RequestsInv, RequestsTypeOK
  <1>3. CASE Fails("unauthenticated")
    BY <1>1, <1>2, <1>3, EndsKeep DEF Errors
  <1>4. CASE AtRequest.via = "socket" /\ Fails("invalid")
    <2>1. call.of # UploadCall
      BY <1>4, StepOfCall, CallFields DEF RequestsInv, Request
    <2>2. carried = 0
      BY <1>1, <2>1, StepOfCall DEF RequestsInv
    <2> QED
      BY <1>1, <1>2, <1>4, <2>1, <2>2, EndsKeep DEF Errors
  <1>5. CASE call' = [call EXCEPT !.at = "sent"]
    <2>1. /\ call' \in CallStates /\ call'.of = call.of /\ call'.at = "sent" /\ call'.step = call.step
          /\ call'.file = call.file
      BY <1>5 DEF RequestsInv, RequestsTypeOK, CallStates
    <2>2. UNCHANGED <<carried, slots, blobs, prompts>>
      BY <1>1 DEF serverVars
    <2>3. CallInOrder'
      BY <1>1, <2>1, <2>2 DEF RequestsInv, CallInOrder, Steps
    <2>4. FileInStore'
      BY <1>1, <2>1, <2>2 DEF RequestsInv, FileInStore
    <2> QED
      BY <1>2, <2>1, <2>2, <2>3, <2>4, Ongoing
      DEF RequestsInv, RequestsTypeOK, EndTellsWhatWasDone, QuestionHasAudio
  <1> QED
    BY <1>3, <1>4, <1>5 DEF Sends

LEMMA FailuresKeep ==
    ASSUME RequestsInv, TokenFails \/ SendFails \/ Dropped \/ WritesArchive
    PROVE  RequestsInv'
  <1>1. UNCHANGED serverVars /\ signedIn' \in BOOLEAN /\ archive' \in {"absent", "empty", "part", "full"}
    BY DEF TokenFails, SendFails, Dropped, WritesArchive, RequestsInv, RequestsTypeOK
  <1>2. CASE TokenFails \/ SendFails
    <2>1. Fails("transport") /\ carried = call.step - 1
      BY <1>2 DEF TokenFails, SendFails, RequestsInv, CallInOrder
    <2> QED
      BY <1>1, <2>1, EndsKeep DEF Errors
  <1>3. CASE Dropped
    <2>1. Fails("dropped") /\ call.at # "ended"
      BY <1>3 DEF Dropped
    <2>2. carried \in {call.step - 1, call.step}
      BY <2>1, CallFields DEF RequestsInv, CallInOrder
    <2> QED
      BY <1>1, <2>1, <2>2, EndsKeep
  <1>4. CASE WritesArchive
    <2>1. /\ call.at = "write" /\ call.of = "export_data" /\ carried = 1
          /\ \/ archive' = "full" /\ Fails("ok")
             \/ Fails("io")
      BY <1>4 DEF WritesArchive, RequestsInv, CallInOrder
    <2>2. Len(ClientCalls[call.of]) = 1
      BY <2>1, StepOfCall DEF RequestsInv, UploadCall
    <2> QED
      BY <1>1, <2>1, <2>2, EndsKeep DEF Errors, UploadCall
  <1> QED
    BY <1>2, <1>3, <1>4

LEMMA CarriesOutKeeps ==
    ASSUME RequestsInv, NEW status \in ReplyStatuses, CarriesOut(status)
    PROVE  RequestsInv'
  <1>1. /\ call.at = "sent" /\ status \in {"ok", "other"} /\ carried' = carried + 1 /\ carried = call.step - 1
        /\ UNCHANGED <<signedIn, archive>>
    BY DEF CarriesOut, RequestsInv, CallInOrder
  <1>2. call.step \in 1..3 /\ call.of \in Called
    BY CallFields DEF RequestsInv
  <1>3. carried' = call.step /\ carried' \in 0..3
    BY <1>1, <1>2
  <1>4. signedIn' \in BOOLEAN /\ archive' \in {"absent", "empty", "part", "full"}
        /\ slots \subseteq Files /\ blobs \subseteq Files /\ prompts \subseteq blobs
    BY <1>1 DEF RequestsInv, RequestsTypeOK, EndTellsWhatWasDone, QuestionHasAudio
  <1>5. CASE AtRequest.does = "slot"
    <2>1. PICK f \in Files \ slots :
            slots' = slots \cup {f}
            /\ call' = [call EXCEPT !.at = "carried", !.status = status, !.file = f]
      BY <1>5 DEF CarriesOut
    <2>2. /\ call' \in CallStates /\ call'.of = call.of /\ call'.at = "carried" /\ call'.step = call.step
          /\ call'.status = status
      BY <2>1 DEF RequestsInv, RequestsTypeOK, CallStates, ReplyStatuses
    <2>3. UNCHANGED <<blobs, prompts>> /\ slots' \subseteq Files
      BY <1>4, <1>5, <2>1 DEF CarriesOut
    <2>4. CallInOrder'
      BY <1>1, <1>3, <2>2 DEF RequestsInv, CallInOrder, Steps
    <2>5. call.step = 1
      BY <1>5, <1>2, StepOfCall DEF RequestsInv, Request, SingleRequests
    <2>6. FileInStore'
      BY <2>1, <2>2, <2>5 DEF FileInStore, RequestsInv, RequestsTypeOK, CallStates
    <2> QED
      BY <1>3, <1>4, <2>2, <2>3, <2>4, <2>6, Ongoing
  <1>6. CASE AtRequest.does # "slot"
    <2>1. /\ call' = [call EXCEPT !.at = "carried", !.status = status]
          /\ blobs' = blobs \cup {f \in {call.file} : AtRequest.does = "blob"}
          /\ prompts' = prompts \cup {f \in {call.file} : AtRequest.does = "question"}
          /\ slots' = slots
      BY <1>6 DEF CarriesOut
    <2>2. /\ call' \in CallStates /\ call'.of = call.of /\ call'.at = "carried" /\ call'.step = call.step
          /\ call'.status = status /\ call'.file = call.file
      BY <2>1 DEF RequestsInv, RequestsTypeOK, CallStates, ReplyStatuses
    <2>3. CallInOrder'
      BY <1>1, <1>3, <2>2 DEF RequestsInv, CallInOrder, Steps
    <2>4. AtRequest.does = "question" => call.step = 3 /\ call.file \in blobs
      BY <1>2, StepOfCall DEF RequestsInv, FileInStore, Request, SingleRequests
    <2>5. /\ call.step = 2 <=> AtRequest.does = "blob"
          /\ call.of = UploadCall => call.step # 1
      BY <1>2, <1>6, StepOfCall DEF RequestsInv, Request, SingleRequests
    <2>6. FileInStore'
      BY <2>1, <2>2, <2>5 DEF RequestsInv, FileInStore
    <2>7. prompts' \subseteq blobs'
      BY <1>4, <2>1, <2>4
    <2>8. blobs' \subseteq Files
      BY <1>4, <2>1, <2>5 DEF RequestsInv, FileInStore
    <2> QED
      BY <1>3, <1>4, <2>1, <2>2, <2>3, <2>6, <2>7, <2>8, Ongoing
  <1> QED
    BY <1>5, <1>6

LEMMA RefusesKeeps ==
    ASSUME RequestsInv, NEW status \in ReplyStatuses, Refuses(status)
    PROVE  RequestsInv'
  <1>1. /\ call.at = "sent" /\ status # "ok" /\ carried = call.step - 1
        /\ call' = [call EXCEPT !.at = "refused", !.status = status]
        /\ UNCHANGED <<signedIn, carried, slots, blobs, prompts, archive>>
    BY DEF Refuses, serverVars, RequestsInv, CallInOrder
  <1>2. /\ call' \in CallStates /\ call'.of = call.of /\ call'.at = "refused" /\ call'.step = call.step
        /\ call'.status = status /\ call'.file = call.file
    BY <1>1 DEF RequestsInv, RequestsTypeOK, CallStates
  <1>3. CallInOrder' /\ FileInStore'
    BY <1>1, <1>2 DEF RequestsInv, CallInOrder, FileInStore, Steps
  <1> QED
    BY <1>1, <1>2, <1>3, Ongoing DEF RequestsInv, RequestsTypeOK, EndTellsWhatWasDone, QuestionHasAudio

(* What the client makes of a reply tells what the server did.             *)
LEMMA ResultTells ==
    ASSUME RequestsInv, call.at \in {"carried", "refused"}, NEW reply \in Arrivals,
           NEW result, result = Result(AtRequest, call.status, reply)
    PROVE  /\ result \in {"ok", "transport", "unauthorized", "not_found", "http", "decode", "invalid"}
           /\ result \in {"ok", "decode", "invalid"} => call.at = "carried"
           /\ result \in {"unauthorized", "not_found"} => call.at = "refused"
           /\ result = "invalid" => AtRequest.wants = "slot"
  <1>1. call.at = "carried" => call.status \in {"ok", "other"}
    BY DEF RequestsInv, CallInOrder
  <1>2. call.at = "refused" => call.status \in {"denied", "missing", "other"}
    BY CallFields DEF RequestsInv, CallInOrder, ReplyStatuses
  <1>3. /\ StatusError["denied"] = "unauthorized" /\ StatusError["missing"] = "not_found"
        /\ StatusError["other"] = "http"
    BY DEF StatusError
  <1>4. CASE AtRequest.wants = "bytes"
    BY <1>1, <1>2, <1>3, <1>4 DEF Result, BytesResult
  <1>5. CASE AtRequest.wants = "stream"
    BY <1>1, <1>2, <1>3, <1>5 DEF Result, StreamResult
  <1>6. CASE AtRequest.wants \notin {"bytes", "stream"}
    <2>1. result = TextResult(AtRequest.wants, call.status, reply)
      BY <1>6 DEF Result
    <2> QED
      BY <1>1, <1>2, <1>3, <2>1 DEF TextResult, Texted
  <1> QED
    BY <1>4, <1>5, <1>6

LEMMA ReplyArrivesKeeps ==
    ASSUME RequestsInv, NEW reply \in Arrivals, ReplyArrives(reply)
    PROVE  RequestsInv'
  <1> DEFINE result == Result(AtRequest, call.status, reply)
  <1>1. /\ call.at \in {"carried", "refused"} /\ NextRequest(result)
        /\ UNCHANGED <<signedIn, serverVars, archive>>
    BY DEF ReplyArrives
  <1>2. /\ result \in {"ok", "transport", "unauthorized", "not_found", "http", "decode", "invalid"}
        /\ result \in {"ok", "decode", "invalid"} => call.at = "carried"
        /\ result \in {"unauthorized", "not_found"} => call.at = "refused"
        /\ result = "invalid" => AtRequest.wants = "slot"
    BY <1>1, ResultTells
  <1> HIDE DEF result
  <1>3. /\ call.at = "carried" => carried = call.step
        /\ call.at = "refused" => carried = call.step - 1
    BY DEF RequestsInv, CallInOrder
  <1>4. signedIn' \in BOOLEAN /\ archive' \in {"absent", "empty", "part", "full"}
        /\ UNCHANGED <<carried, slots, blobs, prompts>>
    BY <1>1 DEF RequestsInv, RequestsTypeOK, serverVars
  <1>5. call.step \in 1..3 /\ call.of \in Called
    BY CallFields DEF RequestsInv
  <1>6. CASE result # "ok"
    <2>1. Fails(result)
      BY <1>1, <1>6 DEF NextRequest
    <2>2. result = "invalid" => call.of = UploadCall /\ call.step = 1
      BY <1>2, <1>5, StepOfCall DEF RequestsInv, Request, SingleRequests
    <2>3. /\ result \in {"unauthorized", "not_found"} => carried = call.step - 1
          /\ result = "decode" => carried = call.step
          /\ result = "invalid" => carried = 1
          /\ result \in {"transport", "http"} => carried \in {call.step - 1, call.step}
      BY <1>1, <1>2, <1>3, <2>2
    <2> QED
      BY <1>1, <1>2, <1>4, <1>6, <2>1, <2>2, <2>3, EndsKeep DEF Errors
  <1>7. CASE result = "ok" /\ call.step < Len(ClientCalls[call.of])
    <2>1. call' = [call EXCEPT !.step = @ + 1, !.at = "token"]
      BY <1>1, <1>7 DEF NextRequest
    <2>2. call.of = UploadCall /\ Len(ClientCalls[call.of]) = 3 /\ call.step + 1 \in 2..3
      <3>1. /\ Len(ClientCalls[call.of]) \in {1, 3}
            /\ Len(ClientCalls[call.of]) = 1 <=> call.of # UploadCall
        BY StepOfCall DEF RequestsInv
      <3>2. Len(ClientCalls[call.of]) # 1
        <4> DEFINE step == call.step
                   n == Len(ClientCalls[call.of])
        <4>1. step \in 1..3 /\ step < n
          BY <1>5, <1>7
        <4> HIDE DEF step, n
        <4>2. n # 1
          BY <4>1
        <4> QED
          BY <4>2 DEF n
      <3>3. Len(ClientCalls[call.of]) = 3
        BY <3>1, <3>2
      <3> QED
        BY <1>5, <1>7, <3>1, <3>3
    <2>6. PICK k \in 2..3 : k = call.step + 1
      BY <2>2
    <2>7. call' = [call EXCEPT !.step = k, !.at = "token"] /\ k \in 1..3
      BY <2>1, <2>6
    <2>3. /\ call' \in CallStates /\ call'.of = call.of /\ call'.at = "token" /\ call'.step = call.step + 1
          /\ call'.file = call.file
      BY <2>6, <2>7 DEF RequestsInv, RequestsTypeOK, CallStates
    <2>8. call'.step \in Steps' /\ carried' = call'.step - 1
      <3>1. carried' = call.step /\ call'.step = call.step + 1 /\ call.step \in Int
        BY <1>2, <1>3, <1>4, <1>5, <1>7, <2>3
      <3>2. Len(ClientCalls[call'.of]) = 3 /\ call'.step \in 1..3
        BY <2>2, <2>3
      <3>3. call'.step \in Steps'
        BY <3>2 DEF Steps
      <3> QED
        BY <3>1, <3>3
    <2>4. CallInOrder'
      BY <2>3, <2>8 DEF CallInOrder
    <2>5. FileInStore'
      BY <1>2, <1>4, <1>5, <1>7, <2>2, <2>3 DEF RequestsInv, FileInStore
    <2> QED
      BY <1>4, <2>3, <2>4, <2>5, Ongoing
      DEF RequestsInv, RequestsTypeOK, EndTellsWhatWasDone, QuestionHasAudio
  <1>8. CASE result = "ok" /\ ~(call.step < Len(ClientCalls[call.of])) /\ call.of = "export_data"
    <2>1. call' = [call EXCEPT !.at = "write"]
      BY <1>1, <1>8 DEF NextRequest
    <2>2. call.step = 1 /\ carried = 1
      BY <1>2, <1>3, <1>8, StepOfCall DEF RequestsInv, UploadCall
    <2>3. /\ call' \in CallStates /\ call'.of = call.of /\ call'.at = "write" /\ call'.step = call.step
          /\ call'.file = call.file
      BY <2>1 DEF RequestsInv, RequestsTypeOK, CallStates
    <2>4. CallInOrder' /\ FileInStore'
      BY <1>4, <1>8, <2>2, <2>3 DEF RequestsInv, CallInOrder, FileInStore, Steps, UploadCall
    <2> QED
      BY <1>4, <2>3, <2>4, Ongoing
      DEF RequestsInv, RequestsTypeOK, EndTellsWhatWasDone, QuestionHasAudio
  <1>9. CASE result = "ok" /\ ~(call.step < Len(ClientCalls[call.of])) /\ call.of # "export_data"
    <2>1. Fails("ok")
      BY <1>1, <1>9 DEF NextRequest
    <2>2. carried = Len(ClientCalls[call.of])
      BY <1>2, <1>3, <1>5, <1>9, StepOfCall DEF RequestsInv
    <2> QED
      BY <1>1, <1>4, <1>9, <2>1, <2>2, EndsKeep
  <1> QED
    BY <1>6, <1>7, <1>8, <1>9

LEMMA SignsInOrOutKeeps == RequestsInv /\ (SignsInOrOut \/ UNCHANGED requestVars) => RequestsInv'
  <1> SUFFICES ASSUME RequestsInv, SignsInOrOut \/ UNCHANGED requestVars PROVE RequestsInv'
    OBVIOUS
  <1>1. UNCHANGED <<call, carried, slots, blobs, prompts, archive>> /\ signedIn' \in BOOLEAN
    BY DEF SignsInOrOut, requestVars, serverVars, RequestsInv, RequestsTypeOK
  <1> QED
    BY <1>1 DEF RequestsInv, RequestsTypeOK, CallInOrder, Steps, FileInStore, EndTellsWhatWasDone,
                QuestionHasAudio

LEMMA RequestsKept == RequestsInv /\ [RequestsNext]_requestVars => RequestsInv'
  BY BeginCallKeeps, SendsKeeps, FailuresKeep, CarriesOutKeeps, RefusesKeeps, ReplyArrivesKeeps,
     SignsInOrOutKeeps
  DEF RequestsNext

LEMMA RequestsAlways == RequestsSpec => []RequestsInv
  BY RequestsInitial, RequestsKept, PTL DEF RequestsSpec

(* The types of a call, of the server's files and of the archive.          *)
THEOREM RequestsTypes == RequestsSpec => []RequestsTypeOK
  <1>1. RequestsInv => RequestsTypeOK
    BY DEF RequestsInv
  <1> QED
    BY <1>1, RequestsAlways, PTL

(* How a call ends tells what the server did, whichever calls are made and *)
(* whatever replies are lost, cut off or garbled (client.rs, transport.rs, *)
(* datacmd.rs); and no question refers to audio that is not there.         *)
THEOREM EndsTell == RequestsSpec => []EndTellsWhatWasDone
  <1>1. RequestsInv => EndTellsWhatWasDone
    BY DEF RequestsInv
  <1> QED
    BY <1>1, RequestsAlways, PTL

------------------------------------------------------------------------------
(* DevicePoll: the pace of the polls and an approval.                      *)

FirstPause == Max({Interval, 1})

(* The pace is what the provider has asked for; a sleep is no longer than  *)
(* that, a poll no longer than its time, and none begins long after the    *)
(* deadline.                                                               *)
Paced ==
    /\ interval = FirstPause + Backoff * slowDowns
    /\ clock <= until
    /\ outcome = "sleeping" => until <= clock + interval /\ until <= Deadline + interval
    /\ outcome = "polling" =>
         until <= clock + PollTimeout /\ until <= Deadline + interval + PollTimeout

(* What is said in answer to the poll under way fits the time and what the *)
(* operator did; an approval that comes after the answer comes while it is *)
(* waited for.                                                             *)
Answered ==
    /\ said = "slow_down" /\ outcome = "polling" => slowDowns < MaxSlowDowns
    /\ said = "denied" => approvedAt = Declined
    /\ said = "expired" => Lifetime <= clock
    /\ said = "pending" /\ Approved /\ outcome = "polling" => until <= approvedAt + PollTimeout

(* The next answer that tells of an approval is at most a sleep and the    *)
(* time of two polls away from it.                                         *)
Span == interval + 2 * PollTimeout

Heard ==
    Approved /\ ~unheard =>
      /\ outcome = "sleeping" => until + PollTimeout <= approvedAt + Span
      /\ outcome = "polling" => until <= approvedAt + Span
      /\ outcome = "polling" /\ said = "expired" => Lifetime <= approvedAt + Span
      /\ outcome \in {"denied", "expired", "failed"} => Lifetime <= approvedAt + Span

DeviceInv == DeviceTypeOK /\ Paced /\ Answered /\ Heard

LEMMA Pauses ==
    /\ Interval \in Nat /\ MaxDelay \in Nat /\ MaxSlowDowns \in Nat /\ PollTimeout \in Nat
    /\ Lifetime \in Nat /\ Lifetime >= 1
    /\ FirstPause \in Nat /\ FirstPause >= 1
    /\ LongestPause = FirstPause + 5 * MaxSlowDowns /\ LongestPause \in Nat
    /\ Horizon = Lifetime + MaxDelay + LongestPause + PollTimeout /\ Horizon \in Nat
    /\ Never = 0 - 1 /\ Declined = 0 - 2 /\ Backoff = 5
  <1>1. /\ Interval \in Nat /\ MaxDelay \in Nat /\ MaxSlowDowns \in Nat /\ PollTimeout \in Nat
        /\ Lifetime \in Nat /\ Lifetime >= 1
    BY DeviceAssumption
  <1>2. FirstPause = IF Interval <= 1 THEN 1 ELSE Interval
    BY <1>1, MinMaxOfTwo, SMTT(20) DEF FirstPause
  <1>3. FirstPause \in Nat /\ FirstPause >= 1
    BY <1>1, <1>2
  <1>4. LongestPause = FirstPause + 5 * MaxSlowDowns
    BY DEF LongestPause, FirstPause, Backoff
  <1> QED
    BY <1>1, <1>3, <1>4 DEF Horizon, Never, Declined, Backoff

LEMMA DeviceNumbers ==
    ASSUME DeviceInv
    PROVE  /\ clock \in Nat /\ began \in Nat /\ began <= MaxDelay /\ interval \in Nat /\ interval >= 1
           /\ interval <= LongestPause
           /\ until \in Nat /\ slowDowns \in Nat /\ slowDowns <= MaxSlowDowns
           /\ approvedAt \in Int /\ (Approved <=> approvedAt >= 0)
           /\ Deadline \in Nat /\ Deadline = began + Lifetime
           /\ interval = FirstPause + 5 * slowDowns
  BY Pauses DEF DeviceInv, DeviceTypeOK, Times, Deadline, Paced, Approved

LEMMA DeviceInitial == DeviceInit => DeviceInv
  <1> SUFFICES ASSUME DeviceInit PROVE DeviceInv
    OBVIOUS
  <1>1. /\ began \in 0..MaxDelay /\ clock = began /\ interval = FirstPause /\ until = began + interval
        /\ outcome = "sleeping" /\ said = "none" /\ approvedAt = Never /\ slowDowns = 0
        /\ unheard = FALSE
    BY DEF DeviceInit, FirstPause
  <1>2. interval \in 1..LongestPause /\ until \in Times /\ clock \in Times /\ slowDowns \in 0..MaxSlowDowns
    BY <1>1, Pauses DEF Times
  <1>3. DeviceTypeOK
    BY <1>1, <1>2 DEF DeviceTypeOK
  <1>4. ~Approved
    BY <1>1, Pauses DEF Approved, Times
  <1>5. Paced /\ Answered /\ Heard
    BY <1>1, <1>4, Pauses DEF Paced, Answered, Heard, Deadline
  <1> QED
    BY <1>3, <1>5 DEF DeviceInv

(* An arrival that ends the loop: the code is redeemed, or is told to have *)
(* ended, or what came is not an answer to a poll after the approval.      *)
LEMMA EndKeeps ==
    ASSUME DeviceInv, NEW answer, NEW how \in {"tokens", "denied", "expired", "failed"},
           Ends(answer, how), unheard' \in BOOLEAN,
           how # "tokens" /\ Approved /\ ~unheard' => Lifetime <= approvedAt + Span,
           unheard => unheard'
    PROVE  DeviceInv'
  <1>1. /\ outcome' = how
        /\ UNCHANGED <<clock, began, interval, until, said, approvedAt, slowDowns>>
    BY DEF Ends
  <1>2. Approved' = Approved /\ Deadline' = Deadline /\ Span' = Span
    BY <1>1 DEF Approved, Deadline, Span
  <1>3. DeviceTypeOK'
    BY <1>1 DEF DeviceInv, DeviceTypeOK
  <1>4. Paced' /\ Answered'
    BY <1>1, <1>2 DEF DeviceInv, Paced, Answered
  <1>5. Heard'
    BY <1>1, <1>2 DEF Heard
  <1> QED
    BY <1>3, <1>4, <1>5 DEF DeviceInv

(* One more sleep, at the pace that the answer has left.                   *)
LEMMA SleepsOn ==
    ASSUME DeviceInv, NEW pause \in Nat, GoesOn(pause),
           slowDowns' \in 0..MaxSlowDowns, pause = FirstPause + 5 * slowDowns',
           unheard' \in BOOLEAN,
           Approved /\ ~unheard' => said = "pending" /\ pause = interval
    PROVE  DeviceInv'
  <1>1. /\ outcome = "polling" /\ interval' = pause
        /\ \/ clock < Deadline /\ outcome' = "sleeping" /\ until' = clock + pause
           \/ clock >= Deadline /\ outcome' = "expired" /\ until' = until
        /\ UNCHANGED <<clock, began, said, approvedAt>>
    BY DeviceNumbers DEF GoesOn
  <1>2. slowDowns' \in Nat /\ slowDowns' <= MaxSlowDowns /\ pause >= 1 /\ pause <= LongestPause
    <2>1. slowDowns' \in Nat /\ slowDowns' <= MaxSlowDowns
      BY Pauses
    <2>2. FirstPause \in Nat /\ FirstPause >= 1 /\ LongestPause = FirstPause + 5 * MaxSlowDowns /\ MaxSlowDowns \in Nat
      BY Pauses
    <2>3. ASSUME NEW s \in Nat, NEW m \in Nat, s <= m, NEW f \in Nat, f >= 1
          PROVE  f + 5 * s >= 1 /\ f + 5 * s <= f + 5 * m
      BY <2>3
    <2>4. FirstPause + 5 * slowDowns' >= 1
          /\ FirstPause + 5 * slowDowns' <= FirstPause + 5 * MaxSlowDowns
      BY <2>1, <2>2, <2>3
    <2> QED
      BY <2>1, <2>2, <2>4, Zenon
  <1>3. interval' \in 1..LongestPause
    <2>1. LongestPause \in Nat
      BY Pauses
    <2> QED
      BY <1>1, <1>2, <2>1
  <1>4. until' \in Times
    BY <1>1, <1>2, DeviceNumbers, Pauses DEF Times, DeviceInv, DeviceTypeOK
  <1>5. DeviceTypeOK'
    BY <1>1, <1>3, <1>4 DEF DeviceInv, DeviceTypeOK
  <1>6. Approved' = Approved /\ Deadline' = Deadline
    BY <1>1 DEF Approved, Deadline
  <1>7. Paced'
    BY <1>1, <1>2, <1>6, DeviceNumbers, Pauses DEF DeviceInv, Paced
  <1>8. Answered'
    BY <1>1, <1>6 DEF DeviceInv, Answered
  <1>9. Heard'
    <2> SUFFICES ASSUME Approved, ~unheard'
                 PROVE  /\ outcome' = "sleeping" => until' + PollTimeout <= approvedAt + Span'
                        /\ outcome' = "expired" => Lifetime <= approvedAt + Span'
                        /\ outcome' \in {"sleeping", "expired"}
      BY <1>1, <1>6 DEF Heard
    <2>1. said = "pending" /\ clock <= approvedAt + PollTimeout
      BY <1>1, DeviceNumbers, Pauses DEF DeviceInv, Paced, Answered
    <2>2. Span' = pause + 2 * PollTimeout
      BY <1>1 DEF Span
    <2> QED
      BY <1>1, <1>2, <2>1, <2>2, DeviceNumbers, Pauses
  <1> QED
    BY <1>5, <1>7, <1>8, <1>9 DEF DeviceInv

(* What passes before an answer arrives.                                   *)
LEMMA WaitsKeep ==
    ASSUME DeviceInv, SecondPasses \/ OperatorDecides \/ SendsPoll \/ ProviderAnswers
    PROVE  DeviceInv'
  <1>1. /\ Span \in Nat /\ Span = interval + 2 * PollTimeout /\ Span >= PollTimeout
    BY DeviceNumbers, Pauses DEF Span
  <1>2. CASE SecondPasses
    <2>1. clock' = clock + 1 /\ clock < until
          /\ UNCHANGED <<began, interval, outcome, until, said, approvedAt, slowDowns, unheard>>
      BY <1>2 DEF SecondPasses
    <2>2. clock' \in Times
      BY <2>1, DeviceNumbers, Pauses DEF DeviceInv, DeviceTypeOK, Times
    <2>3. Approved' = Approved /\ Deadline' = Deadline /\ Span' = Span
      BY <2>1 DEF Approved, Deadline, Span
    <2>4. Paced'
      BY <2>1, <2>3, DeviceNumbers, Pauses DEF DeviceInv, Paced
    <2>5. Answered'
      BY <2>1, <2>3, DeviceNumbers, Pauses DEF DeviceInv, Answered
    <2> QED
      BY <2>1, <2>2, <2>3, <2>4, <2>5 DEF DeviceInv, DeviceTypeOK, Heard
  <1>3. CASE OperatorDecides
    <2>1. /\ Waiting /\ approvedAt = Never /\ clock < Lifetime
          /\ approvedAt' \in {clock, Declined}
          /\ UNCHANGED <<clock, began, interval, outcome, until, said, slowDowns, unheard>>
      BY <1>3 DEF OperatorDecides, Decides
    <2>2. Deadline' = Deadline /\ Span' = Span /\ (Approved' => approvedAt' = clock)
      BY <2>1, Pauses DEF Deadline, Span, Approved, Times
    <2>3. DeviceTypeOK' /\ Paced'
      BY <2>1, <2>2 DEF DeviceInv, DeviceTypeOK, Paced
    <2>4. Answered'
      <3>1. said # "denied" /\ said' = said /\ outcome' = outcome
        BY <2>1, Pauses DEF DeviceInv, Answered
      <3>2. outcome = "polling" /\ Approved' => until' <= approvedAt' + PollTimeout
        BY <2>1, <2>2 DEF DeviceInv, Paced
      <3>3. said = "slow_down" /\ outcome = "polling" => slowDowns' < MaxSlowDowns
        BY <2>1 DEF DeviceInv, Answered
      <3>4. said # "expired"
        BY <2>1, DeviceNumbers, Pauses DEF DeviceInv, Answered
      <3> QED
        BY <3>1, <3>2, <3>3, <3>4 DEF Answered
    <2>5. Heard'
      <3>1. said # "expired"
        BY <2>1, DeviceNumbers, Pauses DEF DeviceInv, Answered
      <3>2. /\ outcome = "sleeping" => until <= clock + interval
            /\ outcome = "polling" => until <= clock + PollTimeout
        BY DEF DeviceInv, Paced
      <3>3. /\ outcome = "sleeping" => until + PollTimeout <= clock + Span
            /\ outcome = "polling" => until <= clock + Span
        BY <1>1, <3>2, DeviceNumbers, Pauses
      <3> QED
        BY <2>1, <2>2, <3>1, <3>3 DEF Heard, Waiting
    <2> QED
      BY <2>3, <2>4, <2>5 DEF DeviceInv
  <1>4. CASE SendsPoll
    <2>1. /\ outcome = "sleeping" /\ clock = until /\ outcome' = "polling" /\ said' = "none"
          /\ until' = clock + PollTimeout
          /\ UNCHANGED <<clock, began, interval, approvedAt, slowDowns, unheard>>
      BY <1>4 DEF SendsPoll
    <2>2. Approved' = Approved /\ Deadline' = Deadline /\ Span' = Span
      BY <2>1 DEF Approved, Deadline, Span
    <2>3. Paced'
      BY <2>1, <2>2, DeviceNumbers, Pauses DEF DeviceInv, Paced
    <2>4. until' \in Times
      BY <2>1, DeviceNumbers, Pauses DEF DeviceInv, Paced, Times
    <2> QED
      BY <2>1, <2>2, <2>3, <2>4 DEF DeviceInv, DeviceTypeOK, Answered, Heard
  <1>5. CASE ProviderAnswers
    <2>1. /\ outcome = "polling" /\ said = "none" /\ said' \in Answerable
          /\ said' = "slow_down" => slowDowns < MaxSlowDowns
          /\ UNCHANGED <<clock, began, interval, outcome, until, approvedAt, slowDowns, unheard>>
      BY <1>5 DEF ProviderAnswers
    <2>2. Approved' = Approved /\ Deadline' = Deadline /\ Span' = Span
      BY <2>1 DEF Approved, Deadline, Span
    <2>3. /\ said' \in {"tokens", "pending", "slow_down", "denied", "expired", "error"}
          /\ said' = "expired" => clock >= Lifetime
          /\ said' = "denied" => approvedAt = Declined
          /\ said' = "pending" => approvedAt = Never
      BY <2>1 DEF Answerable
    <2>4. ~(Approved /\ approvedAt = Never)
      BY Pauses DEF Approved, Times
    <2>5. DeviceTypeOK' /\ Paced'
      BY <2>1, <2>2, <2>3 DEF DeviceInv, DeviceTypeOK, Paced
    <2>6. Answered'
      BY <2>1, <2>2, <2>3, <2>4 DEF Answered
    <2>7. Heard'
      BY <1>1, <2>1, <2>2, <2>3, DeviceNumbers, Pauses DEF DeviceInv, Paced, Heard
    <2> QED
      BY <2>5, <2>6, <2>7 DEF DeviceInv
  <1> QED
    BY <1>2, <1>3, <1>4, <1>5

(* What arrives, or does not.                                              *)
LEMMA ArrivalsKeep ==
    ASSUME DeviceInv, Redeemed \/ Denied \/ CodeExpired \/ NotUnderstood
                      \/ Pending \/ SlowDown \/ OutOfReach
    PROVE  DeviceInv'
  <1>1. /\ interval \in Nat /\ interval = FirstPause + 5 * slowDowns
        /\ slowDowns \in 0..MaxSlowDowns /\ unheard \in BOOLEAN
    BY DeviceNumbers DEF DeviceInv, DeviceTypeOK
  <1>2. CASE Redeemed
    <2>1. Ends("tokens", "tokens") /\ unheard' = unheard
      BY <1>2 DEF Redeemed
    <2> QED
      BY <1>1, <2>1, EndKeeps
  <1>3. CASE Denied
    <2>1. Ends("denied", "denied") /\ unheard' = unheard
      BY <1>3 DEF Denied
    <2>2. ~Approved
      BY <2>1, Pauses DEF Ends, DeviceInv, Answered, Approved, Times
    <2> QED
      BY <1>1, <2>1, <2>2, EndKeeps
  <1>4. CASE CodeExpired
    <2>1. Ends("expired", "expired") /\ unheard' = unheard
      BY <1>4 DEF CodeExpired
    <2>2. Approved /\ ~unheard => Lifetime <= approvedAt + Span
      BY <2>1 DEF Ends, DeviceInv, Heard
    <2> QED
      BY <1>1, <2>1, <2>2, EndKeeps
  <1>5. CASE NotUnderstood
    <2>1. PICK answer \in {"error", "tokens"} : Ends(answer, "failed")
      BY <1>5 DEF NotUnderstood
    <2>2. unheard' = (unheard \/ Approved) /\ unheard' \in BOOLEAN
      BY <1>1, <1>5 DEF NotUnderstood
    <2> QED
      BY <2>1, <2>2, EndKeeps
  <1>6. CASE Pending
    <2>1. said = "pending" /\ GoesOn(interval) /\ slowDowns' = slowDowns /\ unheard' = unheard
      BY <1>6 DEF Pending
    <2> QED
      BY <1>1, <2>1, SleepsOn
  <1>7. CASE SlowDown
    <2>1. /\ said = "slow_down" /\ GoesOn(interval + Backoff) /\ slowDowns' = slowDowns + 1
          /\ unheard' = (unheard \/ Approved) /\ slowDowns < MaxSlowDowns
      BY <1>7 DEF SlowDown, GoesOn, DeviceInv, Answered
    <2>2. slowDowns' \in 0..MaxSlowDowns /\ interval + Backoff = FirstPause + 5 * slowDowns'
          /\ interval + Backoff \in Nat
      BY <1>1, <2>1, Pauses
    <2>3. unheard' \in BOOLEAN /\ ~(Approved /\ ~unheard')
      BY <1>1, <2>1
    <2> QED
      BY <2>1, <2>2, <2>3, SleepsOn
  <1>8. CASE OutOfReach
    <2>1. GoesOn(interval) /\ slowDowns' = slowDowns /\ unheard' = (unheard \/ Approved)
      BY <1>8 DEF OutOfReach
    <2>2. unheard' \in BOOLEAN /\ ~(Approved /\ ~unheard')
      BY <1>1, <2>1
    <2> QED
      BY <1>1, <2>1, <2>2, SleepsOn
  <1> QED
    BY <1>2, <1>3, <1>4, <1>5, <1>6, <1>7, <1>8

LEMMA DeviceKept == DeviceInv /\ [DeviceNext]_deviceVars => DeviceInv'
  <1> SUFFICES ASSUME DeviceInv, [DeviceNext]_deviceVars PROVE DeviceInv'
    OBVIOUS
  <1>1. CASE UNCHANGED deviceVars
    BY <1>1 DEF deviceVars, DeviceInv, DeviceTypeOK, Paced, Answered, Heard, Approved, Deadline, Span
  <1> QED
    BY <1>1, WaitsKeep, ArrivalsKeep DEF DeviceNext, Returned

LEMMA DeviceAlways == DeviceSpec => []DeviceInv
  BY DeviceInitial, DeviceKept, PTL DEF DeviceSpec

(* The types of the poll loop: its pauses and its clock stay in bounds,    *)
(* and a poll that may last until it times out ends in one of the ways     *)
(* that poll_for_token has.                                                *)
THEOREM DeviceTypes == DeviceSpec => []DeviceTypeOK
  <1>1. DeviceInv => DeviceTypeOK
    BY DEF DeviceInv
  <1> QED
    BY <1>1, DeviceAlways, PTL

(* A code that was approved is lost only when the approval came within the *)
(* last pause that the provider had asked for and the time of two polls of *)
(* the code's end, or when a later poll was answered with a slow_down or   *)
(* an error, or not at all: for any lifetime, pace, timeout and number of  *)
(* slow_downs (poll_for_token, exchange_device_code).                      *)
THEOREM ApprovalsReaped == DeviceSpec => []ApprovalReaped
  <1>1. DeviceInv => ApprovalReaped
    <2> SUFFICES ASSUME DeviceInv, outcome \in {"denied", "expired", "failed"}, Approved, ~unheard
                 PROVE  approvedAt + FirstPause + Backoff * slowDowns + 2 * PollTimeout >= Lifetime
      BY DEF ApprovalReaped, FirstPause
    <2>1. Lifetime <= approvedAt + (interval + 2 * PollTimeout)
      BY DEF DeviceInv, Heard, Span
    <2>2. approvedAt \in Int /\ slowDowns \in Nat /\ interval = FirstPause + 5 * slowDowns
      BY DeviceNumbers
    <2>3. FirstPause \in Nat /\ Lifetime \in Nat /\ PollTimeout \in Nat /\ Backoff = 5
      BY Pauses
    <2> QED
      BY <2>1, <2>2, <2>3
  <1> QED
    BY <1>1, DeviceAlways, PTL

------------------------------------------------------------------------------
(* SseStream: lines and what is in them.                                   *)
Signs == Octets \cup {"nl"}
SignTexts == Seq(Signs)
Parsers == [buf: SignTexts, current: [event: SignTexts, data: SignTexts], sawField: BOOLEAN, out: Seq(SignTexts)]

LEMMA OpensAt ==
    ASSUME NEW w, NEW n \in Nat, NEW o, IsOpen(w, n, o)
    PROVE  Opens(w, n) = o /\ IsOpen(w, n, Opens(w, n))
  <1> DEFINE a == Opens(w, n)
  <1>1. a \in 1..(n + 1) /\ IsOpen(w, n, a)
    BY DEF Opens, IsOpen
  <1> HIDE DEF a
  <1>2. o \in 1..(n + 1)
    BY DEF IsOpen
  <1>3. ASSUME a < o PROVE FALSE
    <2>1. o - 1 \in a..n /\ w[o - 1] = "nl"
      BY <1>1, <1>2, <1>3 DEF IsOpen
    <2> QED
      BY <1>1, <2>1 DEF IsOpen
  <1>4. ASSUME o < a PROVE FALSE
    <2>1. a - 1 \in o..n /\ w[a - 1] = "nl"
      BY <1>1, <1>2, <1>4 DEF IsOpen
    <2> QED
      BY <2>1 DEF IsOpen
  <1> QED
    BY <1>1, <1>2, <1>3, <1>4 DEF a

LEMMA OpensNext ==
    ASSUME NEW w, NEW n \in Nat, IsOpen(w, n, Opens(w, n))
    PROVE  /\ Opens(w, n + 1) = (IF w[n + 1] = "nl" THEN n + 2 ELSE Opens(w, n))
           /\ IsOpen(w, n + 1, Opens(w, n + 1))
  <1> DEFINE a == Opens(w, n)
             b == IF w[n + 1] = "nl" THEN n + 2 ELSE a
  <1>1. IsOpen(w, n, a)
    OBVIOUS
  <1> HIDE DEF a
  <1>2. b \in 1..((n + 1) + 1) /\ (b = 1 \/ w[b - 1] = "nl")
    <2>1. (n + 2) - 1 = n + 1
      OBVIOUS
    <2> QED
      BY <1>1, <2>1 DEF IsOpen
  <1>3. \A i \in b..(n + 1) : w[i] # "nl"
    <2> SUFFICES ASSUME NEW i \in b..(n + 1) PROVE w[i] # "nl"
      OBVIOUS
    <2>1. w[n + 1] # "nl" /\ i \in a..(n + 1)
      BY <1>1 DEF IsOpen
    <2>2. i = n + 1 \/ i \in a..n
      BY <1>1, <2>1 DEF IsOpen
    <2> QED
      BY <1>1, <2>1, <2>2 DEF IsOpen
  <1>4. IsOpen(w, n + 1, b)
    <2> HIDE DEF b
    <2> QED
      BY <1>2, <1>3 DEF IsOpen
  <1>5. Opens(w, n + 1) = b
    <2> HIDE DEF b
    <2> QED
      BY <1>4, OpensAt
  <1> QED
    BY <1>4, <1>5 DEF a

LEMMA OpensEach ==
    ASSUME NEW w, NEW n \in Nat
    PROVE  IsOpen(w, n, Opens(w, n))
  <1> DEFINE T == {k \in 0..n : IsOpen(w, k, Opens(w, k))}
  <1>1. 0 \in T
    <2>1. IsOpen(w, 0, 1)
      BY DEF IsOpen
    <2>2. IsOpen(w, 0, Opens(w, 0))
      BY <2>1, OpensAt
    <2> QED
      BY <2>2
  <1>2. ASSUME NEW k \in Nat, k < n, k \in T PROVE k + 1 \in T
    <2>1. IsOpen(w, k + 1, Opens(w, k + 1))
      BY <1>2, OpensNext
    <2> QED
      BY <1>2, <2>1
  <1> HIDE DEF T
  <1>3. \A k \in 0..n : k \in T
    BY <1>1, <1>2, UpTo
  <1>4. n \in T
    BY <1>3
  <1> QED
    BY <1>4 DEF T

(* The line that a byte ends is what was kept of it, without a CR.         *)
LEMMA TextIs ==
    ASSUME NEW w \in SignTexts, NEW n \in Nat, n < Len(w)
    PROVE  /\ SubSeq(w, Opens(w, n), n) \in SignTexts
           /\ Text(w, n + 1) = Unended(SubSeq(w, Opens(w, n), n))
           /\ Text(w, n + 1) \in SignTexts
  <1> DEFINE o == Opens(w, n)
             b == SubSeq(w, o, n)
  <1>1. o \in 1..(n + 1)
    BY OpensEach DEF IsOpen
  <1> HIDE DEF o
  <1>2. /\ b \in SignTexts /\ Len(b) = n - o + 1 /\ \A i \in 1..(n - o + 1) : b[i] = w[o + i - 1]
    BY <1>1, SubSeqProperties DEF SignTexts
  <1>3. (n + 1) - 1 = n /\ (n + 1) - 2 = n - 1
    OBVIOUS
  <1>4. Text(w, n + 1) = SubSeq(w, o, IF o < n + 1 /\ w[n] = "cr" THEN n - 1 ELSE n)
    BY <1>3 DEF Text, o
  <1>5. CASE o = n + 1
    <2>1. b = <<>>
      BY <1>2, <1>5, EmptySeq DEF SignTexts
    <2>2. ~(o < n + 1)
      BY <1>5
    <2>3. Text(w, n + 1) = b
      BY <1>4, <2>2
    <2> HIDE DEF b
    <2>4. Unended(b) = b
      BY <2>1 DEF Unended
    <2> QED
      BY <1>2, <2>3, <2>4 DEF b, o
  <1>6. CASE o <= n
    <2>1. b # <<>> /\ Last(b) = w[n] /\ o < n + 1
      <3>1. Len(b) \in 1..(n - o + 1) /\ Len(b) > 0
        BY <1>1, <1>2, <1>6
      <3>2. b[Len(b)] = w[n]
        <4>1. o + Len(b) - 1 = n
          BY <1>1, <1>2
        <4> QED
          BY <1>2, <3>1, <4>1
      <3>3. b # <<>>
        <4> HIDE DEF b
        <4> QED
          BY <3>1, <1>2
      <3> HIDE DEF b
      <3> QED
        BY <1>1, <1>6, <3>2, <3>3 DEF Last
    <2>2. Front(b) = SubSeq(w, o, n - 1) /\ Front(b) \in SignTexts
      <3>1. Front(b) = SubSeq(b, 1, Len(b) - 1)
        BY DEF Front
      <3> DEFINE c == SubSeq(w, o, n - 1)
                 d == SubSeq(b, 1, Len(b) - 1)
      <3>2. c \in SignTexts /\ Len(c) = n - o /\ \A i \in 1..(n - o) : c[i] = w[o + i - 1]
        BY <1>1, <1>6, SubSeqProperties DEF SignTexts
      <3>3. d \in SignTexts /\ Len(d) = n - o /\ \A i \in 1..(n - o) : d[i] = b[i]
        <4>1. Len(b) - 1 = n - o /\ n - o \in 0..Len(b) /\ Len(b) \in Nat
          BY <1>1, <1>2, <1>6
        <4> HIDE DEF b
        <4> QED
          BY <1>2, <4>1, SubSeqProperties DEF SignTexts
      <3>4. \A i \in 1..(n - o) : d[i] = c[i]
        BY <1>1, <1>2, <3>2, <3>3
      <3> HIDE DEF c, d
      <3>5. c = d
        BY <3>2, <3>3, <3>4, SeqEqual DEF SignTexts
      <3> QED
        BY <3>1, <3>3, <3>5 DEF c, d
    <2> HIDE DEF b
    <2> QED
      BY <1>2, <1>4, <2>1, <2>2 DEF Unended, b, o
  <1> QED
    BY <1>1, <1>2, <1>5, <1>6 DEF o

------------------------------------------------------------------------------
(* How the lines, the block and the records change with a byte.            *)
LEMMA Newline ==
    ASSUME NEW w \in SignTexts
    PROVE  Newlines(w) \subseteq 1..Len(w) /\ Blanks(w) \subseteq Newlines(w)
  BY DEF Newlines, Blanks, SignTexts

LEMMA NoLineEnds ==
    ASSUME NEW w \in SignTexts, NEW n \in Nat, n < Len(w), w[n + 1] # "nl"
    PROVE  /\ Block(w, n + 1) = Block(w, n)
           /\ Records(w, n + 1) = Records(w, n)
  <1>1. \A j \in Newlines(w) : j \in Nat /\ (j <= n + 1 <=> j <= n)
    BY Newline DEF Newlines
  <1>2. \A j \in Blanks(w) : j \in Nat /\ (j <= n + 1 <=> j <= n)
    BY <1>1, Newline
  <1> QED
    BY <1>1, <1>2 DEF Block, Records

LEMMA BlankLine ==
    ASSUME NEW w \in SignTexts, NEW n \in Nat, n < Len(w), w[n + 1] = "nl", Text(w, n + 1) = <<>>
    PROVE  /\ Block(w, n + 1) = {}
           /\ Records(w, n + 1) = IF IsRecord(w, n) THEN Records(w, n) \cup {n + 1} ELSE Records(w, n)
           /\ n + 1 \notin Records(w, n)
  <1>1. n + 1 \in Blanks(w) /\ (n + 1) - 1 = n
    BY DEF Newlines, Blanks, SignTexts
  <1>2. \A j \in Blanks(w) : j \in Nat /\ (j <= n + 1 <=> j <= n \/ j = n + 1) /\ ~(n + 1 <= n)
    BY Newline
  <1>3. Block(w, n + 1) = {}
    BY <1>1 DEF Block
  <1>4. n + 1 \notin Records(w, n)
    BY DEF Records
  <1>5. \A j : j \in Records(w, n + 1) <=> j \in Records(w, n) \/ (j = n + 1 /\ IsRecord(w, n))
    BY <1>1, <1>2 DEF Records
  <1>6. Records(w, n + 1) = IF IsRecord(w, n) THEN Records(w, n) \cup {n + 1} ELSE Records(w, n)
    <2> DEFINE r == Records(w, n + 1)
               q == Records(w, n)
    <2>1. \A j : j \in r <=> j \in q \/ (j = n + 1 /\ IsRecord(w, n))
      BY <1>5
    <2> HIDE DEF r, q
    <2>2. r = IF IsRecord(w, n) THEN q \cup {n + 1} ELSE q
      BY <2>1
    <2> QED
      BY <2>2 DEF r, q
  <1> QED
    BY <1>3, <1>4, <1>6

LEMMA FullLine ==
    ASSUME NEW w \in SignTexts, NEW n \in Nat, n < Len(w), w[n + 1] = "nl", Text(w, n + 1) # <<>>
    PROVE  /\ Block(w, n + 1) = Block(w, n) \cup {n + 1}
           /\ Records(w, n + 1) = Records(w, n)
           /\ n + 1 \notin Block(w, n)
  <1>1. n + 1 \in Newlines(w) /\ n + 1 \notin Blanks(w) /\ ~(n + 1 <= n)
    BY DEF Newlines, Blanks, SignTexts
  <1>2. \A j \in Newlines(w) : j \in Nat /\ (j <= n + 1 <=> j <= n \/ j = n + 1)
    BY Newline
  <1>3. \A j \in Blanks(w) : j \in Nat /\ (j <= n + 1 <=> j <= n) /\ ~(n + 1 <= j /\ j <= n)
    BY <1>1, <1>2, Newline
  <1>4. Records(w, n + 1) = Records(w, n)
    BY <1>3 DEF Records
  <1>5. ASSUME NEW j PROVE j \in Block(w, n + 1) <=> j \in Block(w, n) \/ j = n + 1
    <2>1. CASE j = n + 1
      <3>1. \A b \in Blanks(w) : ~(n + 1 <= b /\ b <= n + 1)
        BY <1>1, <1>3
      <3> QED
        BY <1>1, <2>1, <3>1 DEF Block
    <2>2. CASE j # n + 1
      BY <1>2, <1>3, <2>2 DEF Block
    <2> QED
      BY <2>1, <2>2
  <1>6. n + 1 \notin Block(w, n)
    BY <1>1 DEF Block
  <1> QED
    BY <1>4, <1>5, <1>6

(* The lines of a block carry something; the records and lines up to a     *)
(* place are finitely many.                                                *)
LEMMA BlockIs ==
    ASSUME NEW w \in SignTexts, NEW n \in Nat
    PROVE  /\ Block(w, n) \subseteq {j \in 1..Len(w) : j <= n /\ Text(w, j) # <<>>}
           /\ Records(w, n) \subseteq 1..n /\ Block(w, n) \subseteq 1..n
  <1>1. \A j \in Block(w, n) : j \in 1..Len(w) /\ j <= n /\ j \notin Blanks(w) /\ j \in Newlines(w)
    BY Newline DEF Block
  <1>2. \A j \in Block(w, n) : Text(w, j) # <<>>
    BY <1>1 DEF Blanks
  <1> QED
    BY <1>1, <1>2, Newline DEF Records

------------------------------------------------------------------------------
(* The data of a stream, line by line.                                     *)
DataNext(w, values, i, before) ==
    IF i \notin values THEN before
    ELSE (IF \E k \in values : k < i THEN Append(before, "nl") ELSE <<>>) \o Tail(Text(w, i))

Carrying(w) == {j \in 1..Len(w) : Text(w, j) # <<>>}

LEMMA TextType ==
    ASSUME NEW w \in SignTexts, NEW j \in 1..Len(w)
    PROVE  Text(w, j) \in SignTexts
  <1>1. j - 1 \in Nat /\ j - 1 < Len(w) /\ (j - 1) + 1 = j
    BY DEF SignTexts
  <1>2. Text(w, (j - 1) + 1) \in SignTexts
    BY <1>1, TextIs
  <1> QED
    BY <1>1, <1>2

LEMMA DataNextType ==
    ASSUME NEW w \in SignTexts, NEW values \in SUBSET Carrying(w), NEW i \in 1..Len(w),
           NEW before \in SignTexts
    PROVE  DataNext(w, values, i, before) \in SignTexts
  <1> SUFFICES ASSUME i \in values PROVE DataNext(w, values, i, before) \in SignTexts
    BY DEF DataNext
  <1> DEFINE t == Tail(Text(w, i))
             a == IF \E k \in values : k < i THEN Append(before, "nl") ELSE <<>>
  <1>1. t \in SignTexts
    BY TextType, HeadTailProperties DEF Carrying, SignTexts
  <1>2. a \in SignTexts
    <2>1. Append(before, "nl") \in SignTexts
      BY AppendProperties DEF SignTexts, Signs
    <2>2. <<>> \in SignTexts
      BY DEF SignTexts
    <2> QED
      BY <2>1, <2>2
  <1>3. DataNext(w, values, i, before) = a \o t
    BY DEF DataNext
  <1> HIDE DEF a, t
  <1> QED
    BY <1>1, <1>2, <1>3, ConcatProperties DEF SignTexts

LEMMA JoinedIs ==
    ASSUME NEW w \in SignTexts, NEW values \in SUBSET Carrying(w)
    PROVE  /\ DataJoined(w, values) \in [0..Len(w) -> SignTexts]
           /\ DataJoined(w, values)[0] = <<>>
           /\ \A i \in 1..Len(w) :
                DataJoined(w, values)[i] = DataNext(w, values, i, DataJoined(w, values)[i - 1])
  <1> DEFINE N == Len(w)
             Eq(f) == f = [i \in 0..N |->
                IF i \notin values THEN IF i = 0 THEN <<>> ELSE f[i - 1]
                ELSE (IF \E k \in values : k < i THEN Append(f[i - 1], "nl") ELSE <<>>)
                     \o Tail(Text(w, i))]
             step == [i \in 1..N |-> [d \in SignTexts |-> DataNext(w, values, i, d)]]
  <1>1. N \in Nat /\ <<>> \in SignTexts /\ values \subseteq 1..N
    BY DEF SignTexts, Carrying
  <1>2. step \in [1..N -> [SignTexts -> SignTexts]]
    BY DataNextType
  <1>3. PICK g \in [SUBSET (1..N) -> SignTexts] : Walks(g, N, <<>>, step)
    <2> HIDE DEF step, N
    <2> QED
      BY <1>1, <1>2, WalkExists
  <1> DEFINE f == [i \in 0..N |-> g[1..i]]
  <1>4. f \in [0..N -> SignTexts]
    <2>1. \A i \in 0..N : 1..i \in SUBSET (1..N)
      BY <1>1
    <2> HIDE DEF N
    <2> QED
      BY <2>1
  <1>5. f[0] = <<>>
    <2>1. 1..0 = {} /\ {} \in SUBSET (1..N) /\ 0 \in 0..N
      BY <1>1
    <2>2. g[{}] = <<>>
      BY <1>3, <2>1 DEF Walks
    <2> QED
      BY <2>1, <2>2
  <1>6. ASSUME NEW i \in 1..N PROVE f[i] = DataNext(w, values, i, f[i - 1])
    <2>1. i \in 0..N /\ i - 1 \in 0..N /\ 1..i \in SUBSET (1..N) /\ 1..i # {}
      <3>1. i \in 1..i /\ i \in 0..N /\ i - 1 \in 0..N
        BY <1>1
      <3>2. \A k \in 1..i : k \in 1..N
        BY <1>1
      <3> QED
        BY <3>1, <3>2
    <2>2. Max(1..i) = i
      <3>1. i \in Nat /\ 1..i \in SUBSET (1..i) /\ i \in 1..i
        BY <1>1
      <3> QED
        BY <3>1, MaxOfUpTo
    <2>3. (1..i) \ {i} = 1..(i - 1)
      BY <1>1
    <2>4. g[1..i] = step[i][g[1..(i - 1)]]
      <3> HIDE DEF step, N
      <3> QED
        BY <1>3, <2>1, <2>2, <2>3 DEF Walks
    <2>5. g[1..(i - 1)] \in SignTexts
      <3>1. 1..(i - 1) \in SUBSET (1..N)
        BY <1>1
      <3> QED
        BY <1>3, <3>1
    <2>6. step[i][g[1..(i - 1)]] = DataNext(w, values, i, g[1..(i - 1)])
      BY <2>5
    <2> QED
      BY <2>1, <2>4, <2>6
  <1> HIDE DEF f
  <1>7. Eq(f)
    <2>1. ASSUME NEW i \in 0..N
          PROVE  f[i] = (IF i \notin values THEN IF i = 0 THEN <<>> ELSE f[i - 1]
                ELSE (IF \E k \in values : k < i THEN Append(f[i - 1], "nl") ELSE <<>>)
                     \o Tail(Text(w, i)))
      <3>1. CASE i = 0
        BY <1>1, <1>5, <3>1
      <3>2. CASE i # 0
        <4>1. i \in 1..N
          BY <1>1, <3>2
        <4>2. f[i] = DataNext(w, values, i, f[i - 1])
          BY <1>6, <4>1
        <4> QED
          BY <3>2, <4>2 DEF DataNext
      <3> QED
        BY <3>1, <3>2
    <2> HIDE DEF N
    <2> QED
      BY <1>4, <2>1
  <1>8. DataJoined(w, values) = CHOOSE h : Eq(h)
    BY DEF DataJoined
  <1> DEFINE j == DataJoined(w, values)
  <1>9. Eq(j)
    BY <1>7, <1>8
  <1> HIDE DEF j
  <1>10. j[0] = <<>>
    BY <1>1, <1>9
  <1>11. \A i \in 1..N : j[i] = DataNext(w, values, i, j[i - 1])
    <2> SUFFICES ASSUME NEW i \in 1..N PROVE j[i] = DataNext(w, values, i, j[i - 1])
      OBVIOUS
    <2>1. i \in 0..N /\ i # 0
      BY <1>1
    <2> QED
      BY <1>9, <2>1 DEF DataNext
  <1>12. \A i \in 0..N : j[i] \in SignTexts
    <2> DEFINE T == {i \in 0..N : j[i] \in SignTexts}
    <2>1. 0 \in T
      BY <1>1, <1>10
    <2>2. ASSUME NEW k \in Nat, k < N, k \in T PROVE k + 1 \in T
      <3>1. k + 1 \in 1..N /\ (k + 1) - 1 = k /\ k + 1 \in 0..N
        BY <1>1, <2>2
      <3>2. j[k + 1] = DataNext(w, values, k + 1, j[k])
        BY <1>11, <3>1
      <3>3. DataNext(w, values, k + 1, j[k]) \in SignTexts
        BY <2>2, <3>1, DataNextType
      <3> QED
        BY <3>1, <3>2, <3>3
    <2> HIDE DEF T, N
    <2>3. \A k \in 0..N : k \in T
      BY <1>1, <2>1, <2>2, UpTo
    <2> QED
      BY <2>3 DEF T
  <1>13. j \in [0..N -> SignTexts]
    <2>1. DOMAIN j = 0..N /\ j = [i \in 0..N |-> j[i]]
      BY <1>9
    <2> HIDE DEF N
    <2> QED
      BY <1>12, <2>1
  <1> QED
    BY <1>10, <1>11, <1>13 DEF j

(* Two sets of lines that agree up to a place give the same data there.    *)
LEMMA JoinedAgree ==
    ASSUME NEW w \in SignTexts, NEW U \in SUBSET Carrying(w), NEW V \in SUBSET Carrying(w),
           NEW m \in 0..Len(w), \A i \in 1..m : i \in U <=> i \in V
    PROVE  DataJoined(w, U)[m] = DataJoined(w, V)[m]
  <1> DEFINE u == DataJoined(w, U)
             v == DataJoined(w, V)
             T == {i \in 0..m : u[i] = v[i]}
  <1>1. Len(w) \in Nat /\ m \in Nat
    BY DEF SignTexts
  <1>2. 0 \in T
    BY <1>1, JoinedIs
  <1>3. ASSUME NEW k \in Nat, k < m, k \in T PROVE k + 1 \in T
    <2>1. k + 1 \in 1..m /\ k + 1 \in 1..Len(w) /\ (k + 1) - 1 = k
      BY <1>1, <1>3
    <2>2. /\ u[k + 1] = DataNext(w, U, k + 1, u[k])
          /\ v[k + 1] = DataNext(w, V, k + 1, v[k])
      BY <2>1, JoinedIs
    <2>3. (k + 1 \in U <=> k + 1 \in V) /\ ((\E j \in U : j < k + 1) <=> (\E j \in V : j < k + 1))
      <3>1. \A j \in U \cup V : j < k + 1 => j \in 1..m
        BY <1>1, <1>3 DEF Carrying
      <3> QED
        BY <2>1, <3>1
    <2>4. u[k] = v[k]
      BY <1>3
    <2>5. DataNext(w, U, k + 1, u[k]) = DataNext(w, V, k + 1, v[k])
      <3> HIDE DEF u, v
      <3> QED
        BY <2>3, <2>4 DEF DataNext
    <2>6. k + 1 \in 0..m
      BY <2>1
    <2> HIDE DEF u, v
    <2> QED
      BY <2>2, <2>5, <2>6
  <1> HIDE DEF T
  <1>4. \A k \in 0..m : k \in T
    BY <1>1, <1>2, <1>3, UpTo
  <1>5. m \in T
    BY <1>1, <1>4
  <1> QED
    BY <1>5 DEF T

LEMMA JoinedNone ==
    ASSUME NEW w \in SignTexts, NEW m \in 0..Len(w)
    PROVE  DataJoined(w, {})[m] = <<>>
  <1> DEFINE u == DataJoined(w, {})
             T == {i \in 0..m : u[i] = <<>>}
  <1>1. Len(w) \in Nat /\ m \in Nat /\ {} \in SUBSET Carrying(w)
    BY DEF SignTexts
  <1>2. 0 \in T
    BY <1>1, JoinedIs
  <1>3. ASSUME NEW k \in Nat, k < m, k \in T PROVE k + 1 \in T
    <2>1. k + 1 \in 0..m /\ k + 1 \in 1..Len(w) /\ (k + 1) - 1 = k
      BY <1>1, <1>3
    <2>2. u[k + 1] = DataNext(w, {}, k + 1, u[k])
      BY <1>1, <2>1, JoinedIs
    <2>3. u[k + 1] = u[k]
      BY <2>2 DEF DataNext
    <2> HIDE DEF u
    <2> QED
      BY <1>3, <2>1, <2>3
  <1> HIDE DEF T
  <1>4. m \in T
    <2>1. \A k \in 0..m : k \in T
      BY <1>1, <1>2, <1>3, UpTo
    <2> QED
      BY <1>1, <2>1
  <1> QED
    BY <1>4 DEF T

LEMMA DataLinesAre ==
    ASSUME NEW w \in SignTexts, NEW n \in Nat
    PROVE  /\ DataLines(w, n) \in SUBSET Carrying(w)
           /\ DataLines(w, n) \subseteq 1..n
  BY BlockIs DEF DataLines, Named, Carrying

(* Bytes that are in no line yet change nothing.                           *)
LEMMA SameData ==
    ASSUME NEW w \in SignTexts, NEW n \in Nat, n < Len(w), DataLines(w, n + 1) = DataLines(w, n)
    PROVE  Payload(w, n + 1) = Payload(w, n)
  <1> DEFINE V == DataLines(w, n)
  <1>1. V \in SUBSET Carrying(w) /\ n + 1 \notin V
    BY DataLinesAre
  <1>2. n + 1 \in 1..Len(w) /\ (n + 1) - 1 = n
    BY DEF SignTexts
  <1>3. DataJoined(w, V)[n + 1] = DataNext(w, V, n + 1, DataJoined(w, V)[n])
    <2> HIDE DEF V
    <2> QED
      BY <1>1, <1>2, JoinedIs
  <1>4. DataNext(w, V, n + 1, DataJoined(w, V)[n]) = DataJoined(w, V)[n]
    BY <1>1 DEF DataNext
  <1> QED
    BY <1>3, <1>4 DEF Payload

(* A further line of data.                                                 *)
LEMMA MoreData ==
    ASSUME NEW w \in SignTexts, NEW n \in Nat, n < Len(w),
           DataLines(w, n + 1) = DataLines(w, n) \cup {n + 1}
    PROVE  Payload(w, n + 1) =
             (IF DataLines(w, n) # {} THEN Append(Payload(w, n), "nl") ELSE <<>>)
             \o Tail(Text(w, n + 1))
  <1> DEFINE U == DataLines(w, n)
             V == DataLines(w, n + 1)
  <1>1. U \in SUBSET Carrying(w) /\ V \in SUBSET Carrying(w) /\ U \subseteq 1..n
    BY DataLinesAre
  <1>2. n + 1 \in 1..Len(w) /\ (n + 1) - 1 = n /\ n \in 0..Len(w)
    BY DEF SignTexts
  <1>3. V = U \cup {n + 1}
    OBVIOUS
  <1>4. DataJoined(w, V)[n] = DataJoined(w, U)[n]
    <2>1. \A i \in 1..n : i \in V <=> i \in U
      BY <1>3
    <2> HIDE DEF U, V
    <2> QED
      BY <1>1, <1>2, <2>1, JoinedAgree
  <1> HIDE DEF U, V
  <1>5. DataJoined(w, V)[n + 1] = DataNext(w, V, n + 1, DataJoined(w, V)[n])
    BY <1>1, <1>2, JoinedIs
  <1>6. n + 1 \in V /\ ((\E k \in V : k < n + 1) <=> U # {})
    <2>1. (\A k \in U : k < n + 1) /\ ~(n + 1 < n + 1)
      BY <1>1
    <2> QED
      BY <1>3, <2>1
  <1>7. DataNext(w, V, n + 1, DataJoined(w, V)[n]) =
          (IF U # {} THEN Append(DataJoined(w, V)[n], "nl") ELSE <<>>) \o Tail(Text(w, n + 1))
    BY <1>6 DEF DataNext
  <1> QED
    BY <1>4, <1>5, <1>7 DEF Payload, U, V

LEMMA PayloadType ==
    ASSUME NEW w \in SignTexts, NEW n \in 0..Len(w)
    PROVE  Payload(w, n) \in SignTexts /\ (DataLines(w, n) = {} => Payload(w, n) = <<>>)
  <1>1. n \in Nat
    BY DEF SignTexts
  <1>2. DataLines(w, n) \in SUBSET Carrying(w)
    BY <1>1, DataLinesAre
  <1>3. Payload(w, n) \in SignTexts
    BY <1>2, JoinedIs DEF Payload
  <1> QED
    BY <1>3, JoinedNone DEF Payload

------------------------------------------------------------------------------
(* What the parser has in hand after n bytes.                              *)
State(b, e, d, saw, o) ==
    [buf |-> b, current |-> [event |-> e, data |-> d], sawField |-> saw, out |-> o]

EventIs(w, n, e) ==
    IF Named(w, n, "event") = {} THEN e = <<>>
    ELSE e = Tail(Text(w, Max(Named(w, n, "event"))))

Assembles(w, n, p) ==
    /\ p.current # NoEvent => p.sawField
    /\ EventIs(w, n, p.current.event)
    /\ p.current.data = Payload(w, n)
    /\ p.current.data = <<>> <=> DataLines(w, n) = {}

HandedIs(w, n, out) ==
    LET records == Records(w, n) IN
    /\ Len(out) = Cardinality(records)
    /\ \A i \in records :
         out[Cardinality({j \in records : j <= i})] = Payload(w, i - 1)

ReadUpTo(w, n, p) ==
    /\ p \in Parsers
    /\ p.buf = SubSeq(w, Opens(w, n), n)
    /\ Assembles(w, n, p)
    /\ HandedIs(w, n, p.out)

LEMMA StateType ==
    ASSUME NEW b \in SignTexts, NEW e \in SignTexts, NEW d \in SignTexts, NEW saw \in BOOLEAN,
           NEW o \in Seq(SignTexts)
    PROVE  State(b, e, d, saw, o) \in Parsers
  BY DEF State, Parsers

LEMMA IsAState ==
    ASSUME NEW p \in Parsers
    PROVE  /\ p = State(p.buf, p.current.event, p.current.data, p.sawField, p.out)
           /\ p.buf \in SignTexts /\ p.current.event \in SignTexts /\ p.current.data \in SignTexts
           /\ p.sawField \in BOOLEAN /\ p.out \in Seq(SignTexts)
           /\ (p.current = NoEvent <=> p.current.event = <<>> /\ p.current.data = <<>>)
  BY DEF State, Parsers, NoEvent

LEMMA ByteKept ==
    ASSUME NEW p \in Parsers, NEW b, b # "nl"
    PROVE  Step(p, b) = State(Append(p.buf, b), p.current.event, p.current.data, p.sawField, p.out)
  BY DEF Step, State, Parsers

LEMMA ReadBlank ==
    ASSUME NEW p \in Parsers, Unended(p.buf) = <<>>
    PROVE  Step(p, "nl") = State(<<>>, <<>>, <<>>, FALSE,
                                 IF p.sawField /\ p.current # NoEvent
                                 THEN HandedOn(p.out, p.current) ELSE p.out)
  <1> DEFINE t == Unended(p.buf)
             q == Processed(p, t)
  <1>1. q = Dispatched(p)
    BY DEF Processed
  <1>2. Step(p, "nl") = [q EXCEPT !.buf = <<>>]
    BY DEF Step
  <1> HIDE DEF q
  <1> QED
    BY <1>1, <1>2 DEF Dispatched, State, Parsers, NoEvent

LEMMA ReadEvent ==
    ASSUME NEW p \in Parsers, NEW t, t = Unended(p.buf), t # <<>>, t[1] = "event"
    PROVE  Step(p, "nl") = State(<<>>, Tail(t), p.current.data, TRUE, p.out)
  <1> DEFINE q == Processed(p, t)
  <1>1. q = [p EXCEPT !.current.event = Tail(t), !.sawField = TRUE]
    BY DEF Processed
  <1>2. Step(p, "nl") = [q EXCEPT !.buf = <<>>]
    BY DEF Step
  <1>3. q = State(p.buf, Tail(t), p.current.data, TRUE, p.out)
    BY <1>1 DEF State, Parsers
  <1> HIDE DEF q
  <1> QED
    BY <1>2, <1>3 DEF State

LEMMA ReadData ==
    ASSUME NEW p \in Parsers, NEW t, t = Unended(p.buf), t # <<>>, t[1] = "data"
    PROVE  Step(p, "nl") =
             State(<<>>, p.current.event,
                   (IF p.current.data = <<>> THEN <<>> ELSE Append(p.current.data, "nl")) \o Tail(t),
                   TRUE, p.out)
  <1> DEFINE q == Processed(p, t)
             d == (IF p.current.data = <<>> THEN <<>> ELSE Append(p.current.data, "nl")) \o Tail(t)
  <1>1. q = [p EXCEPT !.current.data = d, !.sawField = TRUE]
    BY DEF Processed
  <1>2. Step(p, "nl") = [q EXCEPT !.buf = <<>>]
    BY DEF Step
  <1> HIDE DEF q, d
  <1>3. Step(p, "nl") = State(<<>>, p.current.event, d, TRUE, p.out)
    BY <1>1, <1>2 DEF State, Parsers
  <1> QED
    BY <1>3 DEF d

LEMMA ReadOther ==
    ASSUME NEW p \in Parsers, NEW t, t = Unended(p.buf), t # <<>>, t[1] # "data", t[1] # "event"
    PROVE  Step(p, "nl") = State(<<>>, p.current.event, p.current.data, p.sawField, p.out)
  <1> DEFINE q == Processed(p, t)
  <1>1. q = p
    BY DEF Processed
  <1>2. Step(p, "nl") = [q EXCEPT !.buf = <<>>]
    BY DEF Step
  <1> HIDE DEF q
  <1> QED
    BY <1>1, <1>2 DEF State, Parsers

(* A record is what the parser would hand on.                              *)
LEMMA RecordIf ==
    ASSUME NEW w \in SignTexts, NEW n \in Nat, NEW e, EventIs(w, n, e)
    PROVE  IsRecord(w, n) <=> e = BoothEvent
  <1> DEFINE S == Named(w, n, "event")
  <1>1. S \in SUBSET (1..n)
    BY BlockIs DEF Named
  <1>2. CASE S = {}
    BY <1>2 DEF IsRecord, EventIs, BoothEvent
  <1>3. CASE S # {}
    <2> HIDE DEF S
    <2>0. Max(S) \in S /\ Max(S) \in 1..n /\ \A k \in S : Max(S) >= k
      BY <1>1, <1>3, MaxInside
    <2>1. Max(S) \in S /\ Max(S) \in Int /\ \A k \in S : Max(S) >= k /\ k \in Int
      BY <1>1, <2>0
    <2>2. \A j \in S : (\A k \in S : k <= j) => j = Max(S)
      <3> SUFFICES ASSUME NEW j \in S, \A k \in S : k <= j PROVE j = Max(S)
        OBVIOUS
      <3>1. Max(S) <= j /\ Max(S) >= j
        BY <2>1
      <3>2. j \in Int /\ Max(S) \in Int
        BY <2>1
      <3> QED
        BY <3>1, <3>2
    <2>3. \A k \in S : k <= Max(S)
      BY <1>1, <2>1
    <2>4. e = Tail(Text(w, Max(S)))
      BY <1>3 DEF EventIs, S
    <2>5. IsRecord(w, n) <=> \E j \in S : Tail(Text(w, j)) = BoothEvent /\ \A k \in S : k <= j
      BY DEF IsRecord, S
    <2> QED
      BY <2>1, <2>2, <2>3, <2>4, <2>5
  <1> QED
    BY <1>2, <1>3

(* One more record at the end.                                             *)
LEMMA HandedNext ==
    ASSUME NEW w \in SignTexts, NEW n \in Nat, n < Len(w), NEW out \in Seq(SignTexts), HandedIs(w, n, out),
           Records(w, n + 1) = Records(w, n) \cup {n + 1}
    PROVE  HandedIs(w, n + 1, Append(out, Payload(w, n)))
  <1> DEFINE R == Records(w, n)
             Q == Records(w, n + 1)
             d == Payload(w, n)
             all == Append(out, d)
  <1>1. R \subseteq 1..n /\ n + 1 \notin R /\ n + 1 \in Q /\ Q = R \cup {n + 1}
    BY BlockIs
  <1>2. IsFiniteSet(R) /\ Cardinality(R) \in Nat /\ Cardinality(Q) = Cardinality(R) + 1
    <2>1. IsFiniteSet(1..n)
      BY FS_Interval
    <2>2. IsFiniteSet(R)
      BY <1>1, <2>1, FS_Subset
    <2> HIDE DEF R, Q
    <2> QED
      BY <1>1, <2>2, FS_AddElement, FS_CardinalityType
  <1>3. d \in SignTexts
    <2>1. n \in 0..Len(w)
      BY DEF SignTexts
    <2> QED
      BY <2>1, PayloadType
  <1>4. Len(out) = Cardinality(R) /\ \A i \in R : out[Cardinality({j \in R : j <= i})] = Payload(w, i - 1)
    BY DEF HandedIs
  <1> HIDE DEF R, Q, d
  <1>5. /\ Len(all) = Len(out) + 1 /\ all[Len(out) + 1] = d
        /\ \A i \in 1..Len(out) : all[i] = out[i]
    BY <1>3, AppendProperties
  <1>6. ASSUME NEW i \in Q PROVE all[Cardinality({j \in Q : j <= i})] = Payload(w, i - 1)
    <2>1. CASE i = n + 1
      <3>1. \A j \in Q : j <= i
        BY <1>1, <2>1
      <3>2. {j \in Q : j <= i} = Q
        BY <3>1
      <3>3. i - 1 = n
        BY <2>1
      <3> QED
        BY <1>2, <1>4, <1>5, <3>2, <3>3 DEF d
    <2>2. CASE i \in R
      <3> DEFINE U == {j \in R : j <= i}
      <3>1. ~(n + 1 <= i)
        BY <1>1, <2>2
      <3>2. {j \in Q : j <= i} = U
        BY <1>1, <3>1
      <3>3. i \in U /\ U \subseteq R
        BY <1>1, <2>2
      <3>4. IsFiniteSet(U) /\ Cardinality(U) \in Nat /\ Cardinality(U) <= Cardinality(R) /\ Cardinality(U) # 0
        <4> HIDE DEF U
        <4> QED
          BY <1>2, <3>3, FS_Subset, FS_CardinalityType, FS_EmptySet
      <3>5. Cardinality(U) \in 1..Len(out)
        BY <1>2, <1>4, <3>4
      <3>6. all[Cardinality(U)] = out[Cardinality(U)]
        BY <1>5, <3>5
      <3> QED
        BY <1>4, <2>2, <3>2, <3>6
    <2> QED
      BY <1>1, <2>1, <2>2
  <1>7. Len(all) = Cardinality(Q)
    BY <1>2, <1>4, <1>5
  <1> HIDE DEF all
  <1>8. HandedIs(w, n + 1, all)
    BY <1>6, <1>7 DEF HandedIs, Q
  <1> QED
    BY <1>8 DEF all, d

(* A byte of a line.                                                       *)
LEMMA KeptRead ==
    ASSUME NEW w \in SignTexts, NEW n \in Nat, n < Len(w), NEW p, ReadUpTo(w, n, p), w[n + 1] # "nl"
    PROVE  ReadUpTo(w, n + 1, Step(p, w[n + 1]))
  <1> DEFINE b == Append(p.buf, w[n + 1])
             q == Step(p, w[n + 1])
  <1>1. /\ p \in Parsers /\ p.buf = SubSeq(w, Opens(w, n), n) /\ Assembles(w, n, p)
        /\ HandedIs(w, n, p.out)
    BY DEF ReadUpTo
  <1>2. /\ p.buf \in SignTexts /\ p.current.event \in SignTexts /\ p.current.data \in SignTexts
        /\ p.sawField \in BOOLEAN /\ p.out \in Seq(SignTexts)
    BY <1>1, IsAState
  <1>3. n + 1 \in 1..Len(w) /\ w[n + 1] \in Signs
    BY DEF SignTexts
  <1>4. q = State(b, p.current.event, p.current.data, p.sawField, p.out)
    BY <1>1, ByteKept
  <1>5. b \in SignTexts
    BY <1>2, <1>3, AppendProperties DEF SignTexts
  <1>6. b = SubSeq(w, Opens(w, n + 1), n + 1)
    <2> DEFINE o == Opens(w, n)
    <2>0. IsOpen(w, n, o)
      BY OpensEach
    <2>1. o \in 1..(n + 1) /\ Opens(w, n + 1) = o
      BY <2>0, OpensNext DEF IsOpen
    <2> HIDE DEF o
    <2>2. o \in 1..Len(w) /\ n + 1 \in o..Len(w) /\ (n + 1) - 1 = n
      BY <1>3, <2>1 DEF SignTexts
    <2>3. SubSeq(w, o, n + 1) = SubSeq(w, o, n) \o <<w[n + 1]>>
      BY <2>2, SubSeqRecursiveSecond DEF SignTexts
    <2>4. SubSeq(w, o, n) \o <<w[n + 1]>> = Append(SubSeq(w, o, n), w[n + 1])
      BY <1>1, <1>2, <1>3, AppendIsConcat DEF SignTexts, o
    <2> QED
      BY <1>1, <2>1, <2>3, <2>4 DEF o
  <1>7. Block(w, n + 1) = Block(w, n) /\ Records(w, n + 1) = Records(w, n)
    BY NoLineEnds
  <1>8. \A f : Named(w, n + 1, f) = Named(w, n, f)
    BY <1>7 DEF Named
  <1>9. DataLines(w, n + 1) = DataLines(w, n)
    BY <1>8 DEF DataLines
  <1>10. Payload(w, n + 1) = Payload(w, n)
    BY <1>9, SameData
  <1>11. q.current = p.current /\ q.sawField = p.sawField /\ q.out = p.out /\ q.buf = b
    <2> HIDE DEF q, b
    <2> QED
      BY <1>1, <1>4 DEF State, Parsers
  <1>12. q \in Parsers
    BY <1>2, <1>4, <1>5, StateType
  <1> HIDE DEF q, b
  <1>13. Assembles(w, n + 1, q)
    BY <1>1, <1>8, <1>9, <1>10, <1>11 DEF Assembles, EventIs
  <1>14. HandedIs(w, n + 1, q.out)
    BY <1>1, <1>7, <1>11 DEF HandedIs
  <1>15. ReadUpTo(w, n + 1, q)
    BY <1>6, <1>11, <1>12, <1>13, <1>14 DEF ReadUpTo
  <1> QED
    BY <1>15 DEF q

LEMMA LineEnds ==
    ASSUME NEW w \in SignTexts, NEW n \in Nat, n < Len(w), NEW p, ReadUpTo(w, n, p), w[n + 1] = "nl"
    PROVE  /\ Unended(p.buf) = Text(w, n + 1)
           /\ <<>> = SubSeq(w, Opens(w, n + 1), n + 1)
  <1>1. Opens(w, n + 1) = n + 2
    BY OpensEach, OpensNext
  <1>2. SubSeq(w, n + 2, n + 1) = <<>>
    BY SubSeqEmpty
  <1> QED
    BY <1>1, <1>2, TextIs DEF ReadUpTo

(* A blank line: what was assembled is handed on, if it is a record.       *)
LEMMA BlankRead ==
    ASSUME NEW w \in SignTexts, NEW n \in Nat, n < Len(w), NEW p, ReadUpTo(w, n, p), w[n + 1] = "nl",
           Text(w, n + 1) = <<>>
    PROVE  ReadUpTo(w, n + 1, Step(p, w[n + 1]))
  <1> DEFINE out == IF p.sawField /\ p.current # NoEvent THEN HandedOn(p.out, p.current) ELSE p.out
             q == State(<<>>, <<>>, <<>>, FALSE, out)
  <1>1. /\ p \in Parsers /\ Assembles(w, n, p) /\ HandedIs(w, n, p.out)
        /\ Unended(p.buf) = <<>> /\ <<>> = SubSeq(w, Opens(w, n + 1), n + 1)
    BY LineEnds DEF ReadUpTo
  <1>2. /\ p.current.event \in SignTexts /\ p.current.data \in SignTexts /\ p.out \in Seq(SignTexts)
        /\ p.sawField \in BOOLEAN
        /\ (p.current = NoEvent <=> p.current.event = <<>> /\ p.current.data = <<>>)
    BY <1>1, IsAState
  <1>3. Step(p, "nl") = q
    BY <1>1, ReadBlank
  <1>4. IsRecord(w, n) <=> p.current.event = BoothEvent
    BY <1>1, RecordIf DEF Assembles
  <1>5. out = IF IsRecord(w, n) THEN Append(p.out, Payload(w, n)) ELSE p.out
    <2>1. p.current.data = Payload(w, n) /\ (p.current # NoEvent => p.sawField)
      BY <1>1 DEF Assembles
    <2>2. p.current.event = BoothEvent => p.current # NoEvent
      BY <1>2 DEF BoothEvent
    <2> QED
      BY <1>4, <2>1, <2>2 DEF HandedOn
  <1> HIDE DEF out
  <1>6. Block(w, n + 1) = {}
    BY BlankLine
  <1>7. HandedIs(w, n + 1, out)
    <2>1. CASE IsRecord(w, n)
      BY <1>1, <1>2, <1>5, <2>1, BlankLine, HandedNext
    <2>2. CASE ~IsRecord(w, n)
      BY <1>1, <1>5, <2>2, BlankLine DEF HandedIs
    <2> QED
      BY <2>1, <2>2
  <1>8. n + 1 \in 0..Len(w) /\ n \in 0..Len(w) /\ <<>> \in SignTexts /\ FALSE \in BOOLEAN
    BY DEF SignTexts
  <1>9. out \in Seq(SignTexts)
    <2>1. Payload(w, n) \in SignTexts
      BY <1>8, PayloadType
    <2> QED
      BY <1>2, <1>5, <2>1, AppendProperties
  <1>10. q \in Parsers
    BY <1>8, <1>9, StateType
  <1>11. q.buf = <<>> /\ q.out = out /\ q.current.event = <<>> /\ q.current.data = <<>> /\ q.current = NoEvent
    BY DEF State, NoEvent
  <1> HIDE DEF q
  <1>12. \A f : Named(w, n + 1, f) = {}
    BY <1>6 DEF Named
  <1>13. DataLines(w, n + 1) = {}
    BY <1>12 DEF DataLines
  <1>14. Payload(w, n + 1) = <<>>
    BY <1>8, <1>13, PayloadType
  <1>15. Assembles(w, n + 1, q)
    BY <1>11, <1>12, <1>13, <1>14 DEF Assembles, EventIs
  <1> QED
    BY <1>1, <1>3, <1>7, <1>10, <1>11, <1>15 DEF ReadUpTo

LEMMA NamedNext ==
    ASSUME NEW w \in SignTexts, NEW n \in Nat, n < Len(w), w[n + 1] = "nl", Text(w, n + 1) # <<>>, NEW f
    PROVE  Named(w, n + 1, f) = IF Text(w, n + 1)[1] = f THEN Named(w, n, f) \cup {n + 1}
                                ELSE Named(w, n, f)
  <1>1. \A j : j \in Block(w, n + 1) <=> j \in Block(w, n) \/ j = n + 1
    BY FullLine
  <1> QED
    BY <1>1 DEF Named

LEMMA SameDataLines ==
    ASSUME NEW w \in SignTexts, NEW n \in Nat, n < Len(w), w[n + 1] = "nl", Text(w, n + 1) # <<>>,
           Text(w, n + 1)[1] # "data"
    PROVE  DataLines(w, n + 1) = DataLines(w, n) /\ Payload(w, n + 1) = Payload(w, n)
  <1>1. Named(w, n + 1, "data") = Named(w, n, "data")
    BY NamedNext
  <1>2. DataLines(w, n + 1) = DataLines(w, n)
    BY <1>1 DEF DataLines
  <1> QED
    BY <1>2, SameData

LEMMA DataLinesNext ==
    ASSUME NEW w \in SignTexts, NEW n \in Nat, n < Len(w), w[n + 1] = "nl", Text(w, n + 1) # <<>>,
           Text(w, n + 1)[1] = "data"
    PROVE  DataLines(w, n + 1) =
             IF DataLines(w, n) # {} \/ Len(Text(w, n + 1)) > 1
             THEN DataLines(w, n) \cup {n + 1} ELSE DataLines(w, n)
  <1> DEFINE S == Named(w, n, "data")
             Q == Named(w, n + 1, "data")
             U == DataLines(w, n)
             V == DataLines(w, n + 1)
             long == Len(Text(w, n + 1)) > 1
  <1>1. Q = S \cup {n + 1} /\ \A j \in S : j \in 1..n
    BY NamedNext, BlockIs DEF Named
  <1>2. \A j : j \in U <=> j \in S /\ \E k \in S : k <= j /\ Len(Text(w, k)) > 1
    BY DEF DataLines
  <1>3. \A j : j \in V <=> j \in Q /\ \E k \in Q : k <= j /\ Len(Text(w, k)) > 1
    BY DEF DataLines
  <1> HIDE DEF S, Q, U, V
  <1>4. ASSUME NEW j, j # n + 1 PROVE j \in V <=> j \in U
    BY <1>1, <1>2, <1>3, <1>4
  <1>5. n + 1 \in V <=> U # {} \/ long
    <2>1. \A k \in S : k <= n + 1
      BY <1>1
    <2>2. n + 1 \in V <=> (\E k \in S : Len(Text(w, k)) > 1) \/ long
      BY <1>1, <1>3, <2>1
    <2>3. (\E k \in S : Len(Text(w, k)) > 1) <=> U # {}
      <3>1. ASSUME NEW k \in S, Len(Text(w, k)) > 1 PROVE k \in U
        <4>1. k <= k
          BY <1>1
        <4> QED
          BY <1>2, <3>1, <4>1
      <3> QED
        BY <1>2, <3>1
    <2> QED
      BY <2>2, <2>3
  <1>6. n + 1 \notin U
    BY <1>1, <1>2
  <1> HIDE DEF long
  <1>7. V = IF U # {} \/ long THEN U \cup {n + 1} ELSE U
    BY <1>4, <1>5, <1>6
  <1> QED
    BY <1>7 DEF U, V, long

(* What a line with a field in it does, but for that field.                *)
LEMMA LineRead ==
    ASSUME NEW w \in SignTexts, NEW n \in Nat, n < Len(w), NEW p, ReadUpTo(w, n, p), w[n + 1] = "nl",
           Text(w, n + 1) # <<>>, NEW e \in SignTexts, NEW d \in SignTexts, NEW saw \in BOOLEAN,
           Step(p, "nl") = State(<<>>, e, d, saw, p.out),
           e # <<>> \/ d # <<>> => saw,
           EventIs(w, n + 1, e), d = Payload(w, n + 1), d = <<>> <=> DataLines(w, n + 1) = {}
    PROVE  ReadUpTo(w, n + 1, Step(p, w[n + 1]))
  <1> DEFINE q == Step(p, "nl")
  <1>1. p \in Parsers /\ HandedIs(w, n, p.out) /\ <<>> = SubSeq(w, Opens(w, n + 1), n + 1)
    BY LineEnds DEF ReadUpTo
  <1>2. p.out \in Seq(SignTexts) /\ <<>> \in SignTexts
    BY <1>1, IsAState DEF SignTexts
  <1>3. /\ q.buf = <<>> /\ q.current.event = e /\ q.current.data = d /\ q.sawField = saw /\ q.out = p.out
        /\ (q.current = NoEvent <=> e = <<>> /\ d = <<>>)
    BY DEF State, NoEvent
  <1>4. q \in Parsers
    BY <1>2, StateType
  <1>5. HandedIs(w, n + 1, p.out)
    BY <1>1, FullLine DEF HandedIs
  <1> HIDE DEF q
  <1>6. Assembles(w, n + 1, q)
    BY <1>3 DEF Assembles
  <1>7. ReadUpTo(w, n + 1, q)
    BY <1>1, <1>3, <1>4, <1>5, <1>6 DEF ReadUpTo
  <1> QED
    BY <1>7 DEF q

LEMMA EventStays ==
    ASSUME NEW w \in SignTexts, NEW n \in Nat, n < Len(w), NEW e, EventIs(w, n, e), w[n + 1] = "nl",
           Text(w, n + 1) # <<>>, Text(w, n + 1)[1] # "event"
    PROVE  EventIs(w, n + 1, e)
  BY NamedNext DEF EventIs

LEMMA EventRead ==
    ASSUME NEW w \in SignTexts, NEW n \in Nat, n < Len(w), NEW p, ReadUpTo(w, n, p), w[n + 1] = "nl",
           Text(w, n + 1) # <<>>, Text(w, n + 1)[1] = "event"
    PROVE  ReadUpTo(w, n + 1, Step(p, w[n + 1]))
  <1> DEFINE t == Text(w, n + 1)
             S == Named(w, n + 1, "event")
  <1>1. p \in Parsers /\ Assembles(w, n, p) /\ t = Unended(p.buf)
    BY LineEnds DEF ReadUpTo
  <1>2. t \in SignTexts /\ Tail(t) \in SignTexts
    BY TextIs, HeadTailProperties DEF SignTexts
  <1>3. p.current.data \in SignTexts
    BY <1>1, IsAState
  <1>4. Step(p, "nl") = State(<<>>, Tail(t), p.current.data, TRUE, p.out)
    <2> HIDE DEF t
    <2> QED
      BY <1>1, ReadEvent DEF t
  <1>5. n + 1 \in S /\ S \in SUBSET (1..(n + 1)) /\ S # {}
    <2>1. n + 1 \in S
      BY NamedNext
    <2>2. n + 1 \in Nat
      OBVIOUS
    <2>3. S \subseteq 1..(n + 1)
      BY <2>2, BlockIs DEF Named
    <2> QED
      BY <2>1, <2>3
  <1>6. Max(S) = n + 1
    <2> HIDE DEF S
    <2> QED
      BY <1>5, MaxOfUpTo
  <1>7. EventIs(w, n + 1, Tail(t))
    BY <1>5, <1>6 DEF EventIs
  <1>8. /\ p.current.data = Payload(w, n + 1)
        /\ p.current.data = <<>> <=> DataLines(w, n + 1) = {}
    BY <1>1, SameDataLines DEF Assembles
  <1>9. TRUE \in BOOLEAN
    OBVIOUS
  <1> HIDE DEF t
  <1> QED
    BY <1>2, <1>3, <1>4, <1>7, <1>8, <1>9, LineRead

LEMMA OtherRead ==
    ASSUME NEW w \in SignTexts, NEW n \in Nat, n < Len(w), NEW p, ReadUpTo(w, n, p), w[n + 1] = "nl",
           Text(w, n + 1) # <<>>, Text(w, n + 1)[1] \notin {"event", "data"}
    PROVE  ReadUpTo(w, n + 1, Step(p, w[n + 1]))
  <1> DEFINE t == Text(w, n + 1)
  <1>1. p \in Parsers /\ Assembles(w, n, p) /\ t = Unended(p.buf)
    BY LineEnds DEF ReadUpTo
  <1>2. /\ p.current.event \in SignTexts /\ p.current.data \in SignTexts /\ p.sawField \in BOOLEAN
        /\ (p.current = NoEvent <=> p.current.event = <<>> /\ p.current.data = <<>>)
    BY <1>1, IsAState
  <1>3. Step(p, "nl") = State(<<>>, p.current.event, p.current.data, p.sawField, p.out)
    <2>1. t # <<>> /\ t[1] # "data" /\ t[1] # "event"
      OBVIOUS
    <2> HIDE DEF t
    <2> QED
      BY <1>1, <2>1, ReadOther
  <1>4. EventIs(w, n + 1, p.current.event)
    BY <1>1, EventStays DEF Assembles
  <1>5. /\ p.current.data = Payload(w, n + 1)
        /\ p.current.data = <<>> <=> DataLines(w, n + 1) = {}
    BY <1>1, SameDataLines DEF Assembles
  <1>6. p.current.event # <<>> \/ p.current.data # <<>> => p.sawField
    BY <1>1, <1>2 DEF Assembles
  <1> QED
    BY <1>2, <1>3, <1>4, <1>5, <1>6, LineRead

LEMMA DataRead ==
    ASSUME NEW w \in SignTexts, NEW n \in Nat, n < Len(w), NEW p, ReadUpTo(w, n, p), w[n + 1] = "nl",
           Text(w, n + 1) # <<>>, Text(w, n + 1)[1] = "data"
    PROVE  ReadUpTo(w, n + 1, Step(p, w[n + 1]))
  <1> DEFINE t == Text(w, n + 1)
             a == p.current.data
             u == Tail(t)
             d == (IF a = <<>> THEN <<>> ELSE Append(a, "nl")) \o u
  <1>1. p \in Parsers /\ Assembles(w, n, p) /\ t = Unended(p.buf)
    BY LineEnds DEF ReadUpTo
  <1>2. p.current.event \in SignTexts /\ a \in SignTexts
    BY <1>1, IsAState
  <1>3. t \in SignTexts /\ u \in SignTexts /\ (u = <<>> <=> ~(Len(t) > 1))
    <2>1. t \in SignTexts /\ t # <<>>
      BY TextIs
    <2> HIDE DEF t
    <2>2. u \in SignTexts /\ Len(u) = Len(t) - 1 /\ Len(t) \in Nat \ {0}
      BY <2>1, HeadTailProperties, EmptySeq DEF SignTexts
    <2> HIDE DEF u
    <2>3. u = <<>> <=> Len(u) = 0
      BY <2>2, EmptySeq DEF SignTexts
    <2> QED
      BY <2>1, <2>2, <2>3
  <1>4. Step(p, "nl") = State(<<>>, p.current.event, d, TRUE, p.out)
    <2>1. t # <<>> /\ t[1] = "data"
      OBVIOUS
    <2> HIDE DEF t
    <2> QED
      BY <1>1, <2>1, ReadData
  <1>5. a = Payload(w, n) /\ (a = <<>> <=> DataLines(w, n) = {})
    BY <1>1 DEF Assembles
  <1>6. EventIs(w, n + 1, p.current.event)
    BY <1>1, EventStays DEF Assembles
  <1>7. DataLines(w, n + 1) = IF a # <<>> \/ u # <<>> THEN DataLines(w, n) \cup {n + 1} ELSE DataLines(w, n)
    BY <1>3, <1>5, DataLinesNext
  <1> HIDE DEF t, u, a
  <1>8. CASE a # <<>>
    <2> DEFINE b == Append(a, "nl")
    <2>1. b \in SignTexts /\ b # <<>> /\ d = b \o u
      BY <1>2, <1>8, AppendProperties DEF SignTexts, Signs
    <2> HIDE DEF b
    <2>2. d \in SignTexts /\ d # <<>>
      <3> HIDE DEF d
      <3>1. b \o u \in SignTexts /\ (b \o u = <<>> <=> b = <<>> /\ u = <<>>)
        BY <1>3, <2>1, ConcatProperties, ConcatEqualIffEmpty DEF SignTexts
      <3> QED
        BY <2>1, <3>1
    <2>3. Payload(w, n + 1) = d
      BY <1>5, <1>7, <1>8, <2>1, MoreData DEF b, u, t
    <2>4. TRUE \in BOOLEAN /\ DataLines(w, n + 1) # {}
      BY <1>7, <1>8
    <2> HIDE DEF d
    <2> QED
      BY <1>2, <1>4, <1>6, <2>2, <2>3, <2>4, LineRead
  <1>9. CASE a = <<>> /\ u # <<>>
    <2>1. d = u
      BY <1>3, <1>9, ConcatEmptySeq DEF SignTexts
    <2>2. Payload(w, n + 1) = d
      BY <1>5, <1>7, <1>9, MoreData DEF u, t
    <2>3. TRUE \in BOOLEAN /\ DataLines(w, n + 1) # {}
      BY <1>7, <1>9
    <2> HIDE DEF d
    <2> QED
      BY <1>2, <1>3, <1>4, <1>6, <1>9, <2>1, <2>2, <2>3, LineRead
  <1>10. CASE a = <<>> /\ u = <<>>
    <2>1. d = <<>> /\ <<>> \in SignTexts
      BY <1>3, <1>10, ConcatEmptySeq DEF SignTexts
    <2>2. DataLines(w, n + 1) = DataLines(w, n)
      BY <1>7, <1>10
    <2>3. Payload(w, n + 1) = d
      BY <1>5, <1>10, <2>1, <2>2, SameData
    <2>4. TRUE \in BOOLEAN /\ DataLines(w, n + 1) = {}
      BY <1>5, <1>10, <2>2
    <2> HIDE DEF d
    <2> QED
      BY <1>2, <1>4, <1>6, <2>1, <2>3, <2>4, LineRead
  <1> QED
    BY <1>8, <1>9, <1>10

LEMMA ByteRead ==
    ASSUME NEW w \in SignTexts, NEW n \in Nat, n < Len(w), NEW p, ReadUpTo(w, n, p)
    PROVE  ReadUpTo(w, n + 1, Step(p, w[n + 1]))
  BY KeptRead, BlankRead, EventRead, DataRead, OtherRead

LEMMA StepType ==
    ASSUME NEW p \in Parsers, NEW b \in Signs
    PROVE  Step(p, b) \in Parsers
  <1> DEFINE t == Unended(p.buf)
             d == p.current.data
  <1>1. /\ p.buf \in SignTexts /\ p.current.event \in SignTexts /\ d \in SignTexts
        /\ p.sawField \in BOOLEAN /\ p.out \in Seq(SignTexts) /\ <<>> \in SignTexts
    BY IsAState DEF SignTexts
  <1>2. t \in SignTexts
    <2>1. p.buf # <<>> => Front(p.buf) \in SignTexts
      <3>1. Front(p.buf) = SubSeq(p.buf, 1, Len(p.buf) - 1)
        BY DEF Front
      <3>2. /\ Len(p.buf) - 1 \in Int /\ 1 \in Int
            /\ \A i \in 1..(Len(p.buf) - 1) : p.buf[i] \in Signs
        BY <1>1 DEF SignTexts
      <3> HIDE DEF Signs
      <3> QED
        BY <3>1, <3>2, SubSeqProperties DEF SignTexts
    <2> QED
      BY <1>1, <2>1 DEF Unended
  <1> HIDE DEF t
  <1>3. t # <<>> => Tail(t) \in SignTexts
    BY <1>2, HeadTailProperties DEF SignTexts
  <1>4. CASE b # "nl"
    <2>1. Append(p.buf, b) \in SignTexts
      BY <1>1, AppendProperties DEF SignTexts
    <2> QED
      BY <1>1, <1>4, <2>1, ByteKept, StateType
  <1>5. CASE b = "nl" /\ t = <<>>
    <2> DEFINE out == IF p.sawField /\ p.current # NoEvent THEN HandedOn(p.out, p.current) ELSE p.out
    <2>1. out \in Seq(SignTexts)
      <3>1. Append(p.out, d) \in Seq(SignTexts)
        BY <1>1, AppendProperties
      <3> QED
        BY <1>1, <3>1 DEF HandedOn
    <2>2. Step(p, b) = State(<<>>, <<>>, <<>>, FALSE, out)
      BY <1>5, ReadBlank DEF t
    <2>3. FALSE \in BOOLEAN
      OBVIOUS
    <2> HIDE DEF out
    <2> QED
      BY <1>1, <2>1, <2>2, <2>3, StateType
  <1>6. CASE b = "nl" /\ t # <<>> /\ t[1] = "event"
    <2>1. Step(p, b) = State(<<>>, Tail(t), p.current.data, TRUE, p.out)
      BY <1>6, ReadEvent DEF t
    <2>2. TRUE \in BOOLEAN /\ Tail(t) \in SignTexts
      BY <1>3, <1>6
    <2>3. State(<<>>, Tail(t), p.current.data, TRUE, p.out) \in Parsers
      BY <1>1, <2>2, StateType
    <2> QED
      BY <1>6, <2>1, <2>3
  <1>7. CASE b = "nl" /\ t # <<>> /\ t[1] = "data"
    <2> DEFINE a == IF d = <<>> THEN <<>> ELSE Append(d, "nl")
               e == a \o Tail(t)
    <2>1. a \in SignTexts
      <3>1. Append(d, "nl") \in SignTexts
        BY <1>1, AppendProperties DEF SignTexts, Signs
      <3> QED
        BY <1>1, <3>1
    <2>2. Step(p, b) = State(<<>>, p.current.event, e, TRUE, p.out)
      BY <1>7, ReadData DEF t
    <2>3. TRUE \in BOOLEAN
      OBVIOUS
    <2> HIDE DEF a
    <2>4. e \in SignTexts
      BY <1>3, <1>7, <2>1, ConcatProperties DEF SignTexts
    <2> HIDE DEF e
    <2> QED
      BY <1>1, <2>2, <2>3, <2>4, StateType
  <1>8. CASE b = "nl" /\ t # <<>> /\ t[1] # "event" /\ t[1] # "data"
    <2>1. Step(p, b) = State(<<>>, p.current.event, p.current.data, p.sawField, p.out)
      BY <1>8, ReadOther DEF t
    <2> QED
      BY <1>1, <2>1, StateType
  <1> QED
    BY <1>4, <1>5, <1>6, <1>7, <1>8

(* What pushing a chunk comes to, byte by byte.                            *)
LEMMA PushByStep ==
    ASSUME NEW chunk \in SignTexts, Parser \in Parsers, NEW I, Parser \in I[0],
           \A k \in 1..Len(chunk) : \A v \in I[k - 1] : Step(v, chunk[k]) \in I[k]
    PROVE  Push(chunk) \in I[Len(chunk)]
  <1> DEFINE n == Len(chunk)
             base == Parser
             step == [k \in 1..n |-> [v \in Parsers |-> Step(v, chunk[k])]]
             Eq(g) == g = [s \in SUBSET DOMAIN chunk |->
                             IF s = {} THEN base ELSE Step(g[s \ {Max(s)}], chunk[Max(s)])]
             iter == CHOOSE g : Eq(g)
  <1>1. n \in Nat /\ DOMAIN chunk = 1..n /\ \A k \in 1..n : chunk[k] \in Signs
    BY DEF SignTexts
  <1>2. step \in [1..n -> [Parsers -> Parsers]]
    BY <1>1, StepType
  <1>3. PICK g \in [SUBSET (1..n) -> Parsers] : Walks(g, n, base, step)
    <2> HIDE DEF step, n
    <2> QED
      BY <1>1, <1>2, WalkExists
  <1>4. Eq(g)
    <2>1. ASSUME NEW s \in SUBSET (1..n), s # {}
          PROVE  step[Max(s)][g[s \ {Max(s)}]] = Step(g[s \ {Max(s)}], chunk[Max(s)])
      <3>1. Max(s) \in 1..n
        BY <1>1, <2>1, MaxInside
      <3> QED
        BY <3>1
    <2> QED
      BY <1>1, <1>3, <2>1 DEF Walks
  <1>5. Eq(iter)
    BY <1>4
  <1>6. Push(chunk) = iter[DOMAIN chunk]
    BY DEF Push, FoldLeft, MapThenFoldSet
  <1> DEFINE D == Parsers \cup {iter[s] : s \in SUBSET (1..n)} \cup UNION {I[k] : k \in 0..n}
             wide == [k \in 1..n |-> [v \in D |-> Step(v, chunk[k])]]
  <1> HIDE DEF iter, base
  <1>7. Walks(iter, n, base, wide)
    <2>1. ASSUME NEW s \in SUBSET (1..n), s # {}
          PROVE  wide[Max(s)][iter[s \ {Max(s)}]] = Step(iter[s \ {Max(s)}], chunk[Max(s)])
      <3>1. Max(s) \in 1..n
        BY <1>1, <2>1, MaxInside
      <3>2. iter[s \ {Max(s)}] \in D
        OBVIOUS
      <3> QED
        BY <3>1, <3>2
    <2> QED
      BY <1>1, <1>5, <2>1 DEF Walks
  <1>8. \A k \in 1..n : \A v \in I[k - 1] : wide[k][v] \in I[k]
    <2> SUFFICES ASSUME NEW k \in 1..n, NEW v \in I[k - 1] PROVE wide[k][v] \in I[k]
      OBVIOUS
    <2>1. k - 1 \in 0..n
      BY <1>1
    <2>2. v \in D
      BY <2>1
    <2> QED
      BY <2>2
  <1> HIDE DEF wide, n
  <1>9. iter[1..n] \in I[n]
    BY <1>1, <1>7, <1>8, WalkInvariant DEF base
  <1> QED
    BY <1>1, <1>6, <1>9 DEF n

(* After each byte that has come, the parser has in hand what these bytes  *)
(* say, and has handed on the records in them.                             *)
SseInv ==
    /\ wire \in Seq(Octets) /\ taken \in 0..Len(wire)
    /\ ReadUpTo(wire, taken, Parser)

LEMMA WireIs == ASSUME wire \in Seq(Octets) PROVE wire \in SignTexts /\ Len(wire) \in Nat
  <1>1. Len(wire) \in Nat /\ \A i \in 1..Len(wire) : wire[i] \in Signs
    BY DEF Signs
  <1>2. wire \in [1..Len(wire) -> Signs]
    BY <1>1
  <1> QED
    BY <1>1, <1>2 DEF SignTexts

LEMMA AtTheStart ==
    ASSUME NEW w \in SignTexts
    PROVE  ReadUpTo(w, 0, State(<<>>, <<>>, <<>>, FALSE, <<>>))
  <1> DEFINE p == State(<<>>, <<>>, <<>>, FALSE, <<>>)
  <1>1. /\ p.buf = <<>> /\ p.current.event = <<>> /\ p.current.data = <<>> /\ p.current = NoEvent
        /\ p.out = <<>>
    BY DEF State, NoEvent
  <1>2. p \in Parsers
    <2>1. <<>> \in SignTexts /\ <<>> \in Seq(SignTexts) /\ FALSE \in BOOLEAN
      BY DEF SignTexts
    <2> QED
      BY <2>1, StateType
  <1> HIDE DEF p
  <1>3. Opens(w, 0) = 1
    BY OpensAt DEF IsOpen
  <1>4. Block(w, 0) = {} /\ Records(w, 0) = {}
    <2>1. 1..0 = {}
      OBVIOUS
    <2> QED
      BY <2>1, BlockIs
  <1>5. \A f : Named(w, 0, f) = {}
    BY <1>4 DEF Named
  <1>6. DataLines(w, 0) = {}
    BY <1>5 DEF DataLines
  <1>7. Payload(w, 0) = <<>>
    BY <1>6, PayloadType DEF SignTexts
  <1>8. Assembles(w, 0, p)
    BY <1>1, <1>5, <1>6, <1>7 DEF Assembles, EventIs
  <1>9. HandedIs(w, 0, p.out)
    BY <1>1, <1>4, FS_EmptySet DEF HandedIs
  <1>10. SubSeq(w, 1, 0) = <<>>
    BY SubSeqEmpty
  <1>11. ReadUpTo(w, 0, p)
    BY <1>1, <1>2, <1>3, <1>8, <1>9, <1>10 DEF ReadUpTo
  <1> QED
    BY <1>11 DEF p

LEMMA SseInitInv == SseInit => SseInv
  <1> SUFFICES ASSUME SseInit PROVE SseInv
    OBVIOUS
  <1>1. wire \in Seq(Octets)
    BY StreamAssumption DEF SseInit
  <1>2. wire \in SignTexts /\ 0 \in 0..Len(wire)
    BY <1>1, WireIs
  <1>3. Parser = State(<<>>, <<>>, <<>>, FALSE, <<>>) /\ taken = 0
    BY DEF SseInit, Parser, State, NoEvent
  <1> QED
    BY <1>1, <1>2, <1>3, AtTheStart DEF SseInv

LEMMA ChunkInv ==
    ASSUME SseInv, NEW n \in 1..(Len(wire) - taken), Chunk(n)
    PROVE  SseInv'
  <1> DEFINE chunk == SubSeq(wire, taken + 1, taken + n)
             I == [k \in 0..n |-> {p \in Parsers : ReadUpTo(wire, taken + k, p)}]
  <1>1. wire \in SignTexts /\ Len(wire) \in Nat /\ taken \in 0..Len(wire) /\ n \in Nat /\ taken + n \in 0..Len(wire)
    BY WireIs DEF SseInv
  <1>2. chunk \in SignTexts /\ Len(chunk) = n /\ \A k \in 1..n : chunk[k] = wire[taken + k]
    <2>1. /\ taken + 1 \in Int /\ taken + n \in Int /\ (taken + n) - (taken + 1) + 1 = n
          /\ taken + 1 <= taken + n
      BY <1>1
    <2>2. \A i \in (taken + 1)..(taken + n) : wire[i] \in Signs
      BY <1>1 DEF SignTexts
    <2>3. \A k \in 1..n : (taken + 1) + k - 1 = taken + k
      BY <1>1
    <2>4. /\ chunk \in Seq(Signs) /\ Len(chunk) = n
          /\ \A k \in 1..n : chunk[k] = wire[(taken + 1) + k - 1]
      <3> HIDE DEF Signs
      <3> QED
        BY <2>1, <2>2, SubSeqProperties
    <2> QED
      BY <2>3, <2>4 DEF SignTexts
  <1>3. Parser \in Parsers /\ Parser \in I[0]
    <2>1. taken + 0 = taken /\ 0 \in 0..n
      BY <1>1
    <2>2. Parser \in Parsers /\ ReadUpTo(wire, taken, Parser)
      BY DEF SseInv, ReadUpTo
    <2> QED
      BY <2>1, <2>2
  <1>4. \A k \in 1..n : \A v \in I[k - 1] : Step(v, chunk[k]) \in I[k]
    <2> SUFFICES ASSUME NEW k \in 1..n, NEW v \in I[k - 1] PROVE Step(v, chunk[k]) \in I[k]
      OBVIOUS
    <2>1. k - 1 \in 0..n /\ k \in 0..n /\ taken + (k - 1) \in Nat /\ taken + (k - 1) < Len(wire)
          /\ (taken + (k - 1)) + 1 = taken + k
      BY <1>1
    <2>2. ReadUpTo(wire, taken + (k - 1), v)
      BY <2>1
    <2>3. ReadUpTo(wire, taken + k, Step(v, wire[taken + k]))
      BY <1>1, <2>1, <2>2, ByteRead
    <2>4. Step(v, wire[taken + k]) \in Parsers
      BY <2>3 DEF ReadUpTo
    <2> QED
      BY <1>2, <2>1, <2>3, <2>4
  <1> DEFINE p == Push(chunk)
  <1>5. p \in I[n]
    <2> HIDE DEF I, chunk
    <2> QED
      BY <1>2, <1>3, <1>4, PushByStep
  <1>6. p \in Parsers /\ ReadUpTo(wire, taken + n, p)
    BY <1>1, <1>5
  <1>7. /\ taken' = taken + n /\ wire' = wire
        /\ buf' = p.buf /\ current' = p.current /\ sawField' = p.sawField /\ handed' = p.out
    BY DEF Chunk
  <1> HIDE DEF p
  <1>8. Parser' = p
    BY <1>6, <1>7 DEF Parser, Parsers
  <1>9. ReadUpTo(wire, taken, Parser)'
    <2>1. ReadUpTo(wire', taken', Parser') <=> ReadUpTo(wire, taken + n, p)
      BY <1>7, <1>8
    <2> QED
      BY <1>6, <2>1 DEF ReadUpTo, Assembles, EventIs, HandedIs
  <1> QED
    BY <1>1, <1>7, <1>9 DEF SseInv

LEMMA SseNextInv == SseInv /\ [SseNext]_sseVars => SseInv'
  <1> SUFFICES ASSUME SseInv, [SseNext]_sseVars PROVE SseInv'
    OBVIOUS
  <1>1. CASE UNCHANGED sseVars
    BY <1>1 DEF sseVars, SseInv, Parser, ReadUpTo, Assembles, EventIs, HandedIs
  <1>2. ASSUME NEW n \in 1..(Len(wire) - taken), Chunk(n) PROVE SseInv'
    BY <1>2, ChunkInv
  <1> QED
    BY <1>1, <1>2 DEF SseNext, AllTaken

(* What the parser holds is what the bytes it has taken say.               *)
THEOREM SseInvariant == SseSpec => []SseInv
  <1>1. SseInit => SseInv
    BY SseInitInv
  <1>2. SseInv /\ [SseNext]_sseVars => SseInv'
    BY SseNextInv
  <1> QED
    BY <1>1, <1>2, PTL DEF SseSpec

(* Between two chunks the parser keeps less than a line.                   *)
THEOREM SseTypes == SseSpec => []SseTypeOK
  <1>1. ASSUME SseInv PROVE SseTypeOK
    <2> DEFINE o == Opens(wire, taken)
    <2>1. /\ wire \in SignTexts /\ taken \in 0..Len(wire) /\ taken \in Nat /\ Len(wire) \in Nat
          /\ Parser \in Parsers /\ Parser.buf = SubSeq(wire, o, taken)
      BY <1>1, WireIs DEF SseInv, ReadUpTo
    <2>2. /\ o \in 1..(taken + 1) /\ \A i \in o..taken : wire[i] # "nl"
      BY <2>1, OpensEach DEF IsOpen
    <2> HIDE DEF o
    <2>3. buf = SubSeq(wire, o, taken) /\ buf \in SignTexts
      BY <2>1, IsAState DEF Parser
    <2>4. /\ DOMAIN buf = 1..Len(buf) /\ (Len(buf) = IF o <= taken THEN taken - o + 1 ELSE 0)
          /\ \A i \in 1..(taken - o + 1) : buf[i] = wire[o + i - 1]
      <3>1. \A i \in o..taken : wire[i] \in Signs
        BY <2>1, <2>2 DEF SignTexts
      <3>2. o \in Int /\ taken \in Int
        BY <2>1, <2>2
      <3> HIDE DEF Signs
      <3> QED
        BY <2>3, <3>1, <3>2, SubSeqProperties DEF SignTexts
    <2>5. \A i \in DOMAIN buf : buf[i] # "nl"
      <3> SUFFICES ASSUME NEW i \in DOMAIN buf PROVE buf[i] # "nl"
        OBVIOUS
      <3>1. i \in 1..(taken - o + 1) /\ o + i - 1 \in o..taken
        BY <2>1, <2>2, <2>4
      <3> QED
        BY <2>2, <2>4, <3>1
    <2>6. {"nl"} \cap Range(buf) = {}
      BY <2>5 DEF Range
    <2>7. DOMAIN current = {"event", "data"} /\ sawField \in BOOLEAN
      <3>1. current \in [event: SignTexts, data: SignTexts] /\ sawField \in BOOLEAN
        BY <2>1 DEF Parser, Parsers
      <3> HIDE DEF SignTexts
      <3> QED
        BY <3>1
    <2> QED
      BY <2>1, <2>6, <2>7 DEF SseTypeOK
  <1> QED
    BY <1>1, SseInvariant, PTL

(* However the stream is cut into chunks, the records handed to the live   *)
(* tail are those of the bytes that have come.                             *)
THEOREM CutsNeverShow == SseSpec => []CutsDoNotShow
  <1>1. ASSUME SseInv PROVE CutsDoNotShow
    <2>1. HandedIs(wire, taken, Parser.out) /\ Parser.out = handed
      BY <1>1 DEF SseInv, ReadUpTo, Parser
    <2> QED
      BY <2>1 DEF HandedIs, CutsDoNotShow
  <1> QED
    BY <1>1, SseInvariant, PTL

------------------------------------------------------------------------------
(* ConfigStore: two files, written one after the other.                    *)

LEMMA DefaultTypes ==
    /\ NoToken \in Tokens /\ Defaults \in Configs /\ Defaults.token = NoToken
    /\ 0 \in Prefs
  BY ConfigAssumption DEF NoToken, Tokens, Defaults, Configs, Prefs

LEMMA ShareableTypes ==
    ASSUME NEW c \in Configs
    PROVE  /\ Shareable(c) \in Configs
           /\ Shareable(c).token = NoToken
           /\ Shareable(c).booth = c.booth /\ Shareable(c).prefs = c.prefs
  BY DefaultTypes DEF Shareable, Configs

LEMMA MergedTypes ==
    ASSUME NEW c \in Configs, NEW s \in SecretsFiles
    PROVE  Merged(c, s) \in Configs
  BY DEF Merged, Configs, SecretsFiles

(* What is taken apart for the two files is put together again.            *)
LEMMA TakenApartIsMerged ==
    ASSUME NEW c \in Configs
    PROVE  Merged(Shareable(c), [torn |-> FALSE, token |-> c.token]) = c
  <1> DEFINE s == [torn |-> FALSE, token |-> c.token]
             d == Shareable(c)
  <1>1. /\ c \in [prefs: Prefs, booth: BOOLEAN, token: Tokens]
        /\ d \in [prefs: Prefs, booth: BOOLEAN, token: Tokens]
        /\ ~c.booth => c.token = NoToken
        /\ d.token = NoToken /\ d.booth = c.booth /\ d.prefs = c.prefs
    BY ShareableTypes DEF Configs
  <1>2. CASE c.booth /\ c.token # NoToken
    <2>1. Merged(d, s) = [d EXCEPT !.token = c.token]
      BY <1>1, <1>2 DEF Merged
    <2> QED
      BY <1>1, <2>1
  <1>3. CASE ~(c.booth /\ c.token # NoToken)
    <2>1. Merged(d, s) = d /\ c.token = NoToken
      BY <1>1, <1>3 DEF Merged
    <2> QED
      BY <1>1, <2>1
  <1> QED
    BY <1>2, <1>3

LEMMA ConfigInitial == ConfigInit => ConfigTypeOK
  <1> SUFFICES ASSUME ConfigInit PROVE ConfigTypeOK
    OBVIOUS
  <1>1. 1 \in Tokens
    BY ConfigAssumption DEF Tokens
  <1>2. configFile \in ConfigFiles /\ secretsFile \in SecretsFiles
    BY <1>1, DefaultTypes DEF ConfigInit, ConfigFiles, SecretsFiles
  <1> QED
    BY <1>2, DefaultTypes DEF ConfigInit, ConfigTypeOK

(* What a write that is cut short leaves of the files.                     *)
LEMMA CutTypes ==
    ASSUME ConfigTypeOK, CutShort
    PROVE  /\ configFile' \in ConfigFiles /\ secretsFile' \in SecretsFiles
           /\ configFile' # configFile => configFile'.holds.token = NoToken
  <1>1. CASE phase \in {"save", "setup"}
    <2>1. configFile' \in {configFile, [torn |-> TRUE, holds |-> Defaults]} \cup
                [torn : {FALSE}, holds : {Defaults, Shareable(memory)}]
          /\ secretsFile' = secretsFile
      BY <1>1 DEF CutShort
    <2>2. Shareable(memory) \in Configs /\ Shareable(memory).token = NoToken
      BY ShareableTypes DEF ConfigTypeOK
    <2>3. \A f \in [torn : {FALSE}, holds : {Defaults, Shareable(memory)}] :
            f \in ConfigFiles /\ f.holds.token = NoToken
      BY <2>2, DefaultTypes DEF ConfigFiles
    <2>4. LET f == [torn |-> TRUE, holds |-> Defaults]
          IN  f \in ConfigFiles /\ f.holds.token = NoToken
      BY DefaultTypes DEF ConfigFiles
    <2> QED
      BY <2>1, <2>3, <2>4 DEF ConfigTypeOK
  <1>2. CASE phase \in {"save secrets", "setup secrets"}
    <2>1. secretsFile' \in {secretsFile, [torn |-> TRUE, token |-> NoToken]} \cup
                [torn : {FALSE}, token : {NoToken, memory.token}]
          /\ configFile' = configFile
      BY <1>2 DEF CutShort
    <2>2. memory.token \in Tokens
      BY DEF ConfigTypeOK, Configs
    <2>3. /\ [torn : {FALSE}, token : {NoToken, memory.token}] \subseteq SecretsFiles
          /\ [torn |-> TRUE, token |-> NoToken] \in SecretsFiles
      BY <2>2, DefaultTypes DEF SecretsFiles
    <2> QED
      BY <2>1, <2>3 DEF ConfigTypeOK
  <1>3. CASE phase \in {"off", "running"}
    BY <1>3 DEF CutShort, ConfigTypeOK
  <1> QED
    BY <1>1, <1>2, <1>3 DEF ConfigTypeOK

LEMMA ConfigStep ==
    ASSUME ConfigTypeOK, [ConfigNext]_configVars
    PROVE  /\ ConfigTypeOK'
           /\ configFile' # configFile => configFile'.holds.token = NoToken
  <1> USE DEF ConfigTypeOK
  <1>1. CASE Start
    <2>1. OnDisk \in Configs /\ OnDisk.token \in Tokens
      BY MergedTypes DEF OnDisk, ConfigFiles, Configs
    <2> QED
      BY <1>1, <2>1 DEF Start
  <1>2. CASE SetUp
    <2>1. \A c \in Configs, prefs \in Prefs : [c EXCEPT !.prefs = prefs] \in Configs
      BY DEF Configs
    <2>2. OnDisk \in Configs
      BY MergedTypes DEF OnDisk, ConfigFiles
    <2> QED
      BY <1>2, <2>1, <2>2 DEF SetUp
  <1>3. CASE Change
    <2>1. \A prefs \in Prefs : [memory EXCEPT !.prefs = prefs] \in Configs
      BY DEF Configs
    <2>2. memory.booth => \A token \in Tokens : [memory EXCEPT !.token = token] \in Configs
      BY DEF Configs
    <2>3. memory.booth \in BOOLEAN
      BY DEF Configs
    <2>4. memory' \in Configs /\ rebuild' \in BOOLEAN
      BY <1>3, <2>1, <2>2, <2>3 DEF Change
    <2> QED
      BY <1>3, <2>4 DEF Change
  <1>4. CASE SaveConfig
    <2>1. configFile' \in ConfigFiles /\ configFile'.holds.token = NoToken
      BY <1>4, ShareableTypes DEF SaveConfig, ConfigFiles
    <2> QED
      BY <1>4, <2>1 DEF SaveConfig
  <1>5. CASE SaveSecrets
    <2>1. memory.token \in Tokens
      BY DEF Configs
    <2>2. secretsFile' \in SecretsFiles
      BY <1>5, <2>1 DEF SaveSecrets, SecretsFiles
    <2> QED
      BY <1>5, <2>1, <2>2 DEF SaveSecrets
  <1>6. CASE SaveFails
    BY <1>6, CutTypes DEF SaveFails
  <1>7. CASE Leave
    BY <1>7, CutTypes DEF Leave
  <1>8. CASE Repair
    BY <1>8, ShareableTypes DEF Repair, ConfigFiles
  <1>9. CASE UNCHANGED configVars
    BY <1>9 DEF configVars
  <1> QED
    BY <1>1, <1>2, <1>3, <1>4, <1>5, <1>6, <1>7, <1>8, <1>9 DEF ConfigNext

(* The variables keep their types: a configuration without a booth has no  *)
(* token, either.                                                          *)
THEOREM ConfigTypes == ConfigSpec => []ConfigTypeOK
  BY ConfigInitial, ConfigStep, PTL DEF ConfigSpec

(* No save, however it ends, puts a token in the file that is shared       *)
(* (take_secrets, save_to).                                                *)
THEOREM TokensStayApart == ConfigSpec => NoTokenWritten
  <1>1. ConfigTypeOK /\ [ConfigNext]_configVars =>
          [configFile' # configFile => configFile'.holds.token = NoToken]_configVars
    BY ConfigStep
  <1> QED
    BY <1>1, ConfigTypes, PTL DEF ConfigSpec, NoTokenWritten

------------------------------------------------------------------------------
(* Between its two writes a save has left the first file whole; and a      *)
(* change that does not rebuild the booth's controllers does not change    *)
(* its token.                                                              *)
HalfSaved ==
    phase = "save secrets" =>
      configFile = [torn |-> FALSE, holds |-> Shareable(memory)]

BuiltInStep ==
    phase \in {"save", "save secrets"} /\ ~amiss /\ ~rebuild => built = memory.token

DurableInv == SavedIsDurable /\ HalfSaved /\ BuiltInStep

LEMMA DurableInitial == ConfigInit => DurableInv
  BY DEF ConfigInit, DurableInv, SavedIsDurable, HalfSaved, BuiltInStep

LEMMA DurableStep ==
    ASSUME ConfigTypeOK, DurableInv, [ConfigNext]_configVars
    PROVE  DurableInv'
  <1> USE DEF DurableInv, SavedIsDurable, HalfSaved, BuiltInStep
  <1>1. CASE Start
    BY <1>1 DEF Start, OnDisk
  <1>2. CASE SetUp
    BY <1>2 DEF SetUp
  <1>3. CASE Change
    <2>1. \A prefs \in Prefs : [memory EXCEPT !.prefs = prefs].token = memory.token
      BY DEF ConfigTypeOK, Configs
    <2> QED
      BY <1>3, <2>1 DEF Change
  <1>4. CASE SaveConfig
    BY <1>4 DEF SaveConfig
  <1>5. CASE SaveSecrets
    <2>1. CASE phase = "save secrets"
      <3>1. OnDisk' = Merged(Shareable(memory), [torn |-> FALSE, token |-> memory.token])
        <4>1. OnDisk' = Merged(configFile'.holds, secretsFile')
          BY DEF OnDisk
        <4>2. configFile = [torn |-> FALSE, holds |-> Shareable(memory)]
          BY <2>1
        <4>3. configFile.holds = Shareable(memory)
          BY <4>2, Zenon
        <4>4. configFile' = configFile
              /\ secretsFile' = [torn |-> FALSE, token |-> memory.token]
          BY <1>5 DEF SaveSecrets
        <4> QED
          BY <4>1, <4>3, <4>4
      <3>2. OnDisk' = memory /\ memory' = memory /\ configFile' = configFile
        BY <1>5, <3>1, TakenApartIsMerged DEF SaveSecrets, ConfigTypeOK
      <3>3. ~configFile.torn
        <4>1. configFile = [torn |-> FALSE, holds |-> Shareable(memory)]
          BY <2>1
        <4> QED
          BY <4>1, Zenon
      <3>4. ~amiss' => built' = memory'.token
        BY <1>5, <2>1 DEF SaveSecrets
      <3> QED
        BY <1>5, <2>1, <3>2, <3>3, <3>4 DEF SaveSecrets
    <2>2. CASE phase = "setup secrets"
      BY <1>5, <2>2 DEF SaveSecrets
    <2> QED
      BY <1>5, <2>1, <2>2 DEF SaveSecrets
  <1>6. CASE SaveFails
    BY <1>6 DEF SaveFails
  <1>7. CASE Leave \/ Repair
    BY <1>7 DEF Leave, Repair
  <1>8. CASE UNCHANGED configVars
    BY <1>8 DEF configVars, OnDisk
  <1> QED
    BY <1>1, <1>2, <1>3, <1>4, <1>5, <1>6, <1>7, <1>8 DEF ConfigNext

(* A save that went well is what the next start reads, from both files, in *)
(* spite of every save that failed before or was cut short; and so long as *)
(* none did, the booth's controllers use the token that was saved          *)
(* (persist_config_and_secrets, merge_secrets).                            *)
THEOREM SavesAreDurable == ConfigSpec => []SavedIsDurable
  <1>1. ConfigTypeOK /\ DurableInv /\ [ConfigNext]_configVars => DurableInv'
    BY DurableStep
  <1>2. ConfigSpec => []DurableInv
    BY <1>1, DurableInitial, ConfigTypes, PTL DEF ConfigSpec
  <1> QED
    BY <1>2, PTL DEF DurableInv

------------------------------------------------------------------------------
(* Onboarding: the answers so far.                                         *)

BoothLists == UNION {[1..n -> BoothValues] : n \in 0..MaxBooths}

Adding == {"id", "name", "debug url", "token", "pin"}
BoothsAsked == {"add?", "save"}
FontsAsked == BoothsAsked \cup {"keep?"}
ThemeAsked == FontsAsked \cup {"fonts?"}
AuthAsked == ThemeAsked \cup {"theme", "issuer", "client id", "scopes"}
UrlAsked == AuthAsked \cup {"default tenant?"}

(* What was asked with nothing typed so far was kept.                      *)
KeptSoFar ==
    ~typed =>
      /\ stage \notin Adding
      /\ stage \in UrlAsked => answers.url = existing.url
      /\ stage \in AuthAsked => answers.auth = existing.auth
      /\ stage \in ThemeAsked => answers.theme = existing.theme
      /\ stage \in FontsAsked => answers.fonts = existing.fonts
      /\ stage \in BoothsAsked => answers.booths = existing.booths

(* The font setting is one of two by the time it is saved.                 *)
FontsKnown ==
    /\ existing.fonts \in {"on", "off"}
    /\ stage \in FontsAsked \cup Adding => answers.fonts \in {"on", "off"}

BoothsInOrder ==
    /\ stage \in {"start", "url", "keep?"} \cup (UrlAsked \ FontsAsked) => answers.booths = <<>>
    /\ stage \in Adding => Len(answers.booths) < MaxBooths

SetupInv == SetupTypeOK /\ KeptSoFar /\ FontsKnown /\ BoothsInOrder

LEMMA ConfigurationFields ==
    /\ Configurations =
         [url: Values \cup {NotAsked}, auth: Values \cup {NotAsked},
          theme: {"listed", "unlisted", "other", NotAsked}, fonts: {"on", "off", NotAsked},
          booths: BoothLists]
    /\ MaxBooths \in Nat /\ MaxBooths >= 1
  BY OnboardingAssumption DEF Configurations, BoothLists

LEMMA NoBooths == <<>> \in BoothLists
  <1>1. <<>> \in [1..0 -> BoothValues]
    OBVIOUS
  <1> QED
    BY <1>1, ConfigurationFields DEF BoothLists

LEMMA BoothListIs ==
    ASSUME NEW b \in BoothLists
    PROVE  b \in Seq(BoothValues) /\ Len(b) \in Nat /\ Len(b) <= MaxBooths /\ DOMAIN b = 1..Len(b)
  <1>1. PICK n \in 0..MaxBooths : b \in [1..n -> BoothValues]
    BY DEF BoothLists
  <1>2. n \in Nat /\ n <= MaxBooths
    BY <1>1, ConfigurationFields
  <1>3. b \in Seq(BoothValues)
    BY <1>1, <1>2, IsASeq
  <1>4. DOMAIN b = 1..n /\ DOMAIN b = 1..Len(b) /\ Len(b) \in Nat
    BY <1>1, <1>3, LenProperties
  <1>5. Len(b) = n
    BY <1>2, <1>4
  <1> QED
    BY <1>2, <1>3, <1>4, <1>5

LEMMA OneBoothMore ==
    ASSUME NEW b \in BoothLists, Len(b) < MaxBooths, NEW v \in BoothValues
    PROVE  Append(b, v) \in BoothLists
  <1>1. Append(b, v) \in Seq(BoothValues) /\ Len(Append(b, v)) = Len(b) + 1
    BY BoothListIs, AppendProperties
  <1>2. Append(b, v) \in [1..(Len(b) + 1) -> BoothValues]
    BY <1>1, LenProperties
  <1>3. Len(b) + 1 \in 0..MaxBooths
    BY BoothListIs, ConfigurationFields
  <1> QED
    BY <1>2, <1>3 DEF BoothLists

LEMMA AgedBooths ==
    ASSUME NEW b \in BoothLists
    PROVE  [i \in DOMAIN b |-> Aged(b[i])] \in BoothLists
  <1>1. PICK n \in 0..MaxBooths : b \in [1..n -> BoothValues]
    BY DEF BoothLists
  <1>2. [i \in DOMAIN b |-> Aged(b[i])] \in [1..n -> BoothValues]
    BY <1>1 DEF Aged, BoothValues
  <1> QED
    BY <1>2 DEF BoothLists

LEMMA SetupFields ==
    ASSUME SetupTypeOK
    PROVE  /\ existing \in Configurations /\ answers \in Configurations
           /\ existing.url \in Values \cup {NotAsked} /\ existing.auth \in Values \cup {NotAsked}
           /\ existing.theme \in {"listed", "unlisted", "other", NotAsked}
           /\ existing.fonts \in {"on", "off", NotAsked}
           /\ existing.booths \in BoothLists /\ answers.booths \in BoothLists
           /\ answers.auth \in Values \cup {NotAsked}
           /\ draft \in BoothValues /\ session \in BOOLEAN /\ ended \in BOOLEAN /\ typed \in BOOLEAN
           /\ stage \in Stages
  BY ConfigurationFields DEF SetupTypeOK

LEMMA BlankFields ==
    /\ Blank \in Configurations /\ Blank.booths = <<>>
  BY ConfigurationFields, NoBooths DEF Blank

(* A changed answer is still one, and the others stay.                     *)
LEMMA NewUrl ==
    ASSUME NEW a \in Configurations, NEW v \in Values \cup {NotAsked}
    PROVE  /\ [a EXCEPT !.url = v] \in Configurations
           /\ [a EXCEPT !.url = v].url = v
           /\ [a EXCEPT !.url = v].booths = a.booths
  BY ConfigurationFields

LEMMA NewAuth ==
    ASSUME NEW a \in Configurations, NEW v \in Values \cup {NotAsked}
    PROVE  /\ [a EXCEPT !.auth = v] \in Configurations
           /\ [a EXCEPT !.auth = v].url = a.url /\ [a EXCEPT !.auth = v].auth = v
           /\ [a EXCEPT !.auth = v].booths = a.booths
  BY ConfigurationFields

LEMMA NewTheme ==
    ASSUME NEW a \in Configurations, NEW v \in {"listed", "unlisted", "other", NotAsked}
    PROVE  /\ [a EXCEPT !.theme = v] \in Configurations
           /\ [a EXCEPT !.theme = v].url = a.url /\ [a EXCEPT !.theme = v].auth = a.auth
           /\ [a EXCEPT !.theme = v].theme = v
           /\ [a EXCEPT !.theme = v].booths = a.booths
  BY ConfigurationFields

LEMMA NewFonts ==
    ASSUME NEW a \in Configurations, NEW v \in {"on", "off", NotAsked}
    PROVE  /\ [a EXCEPT !.fonts = v] \in Configurations
           /\ [a EXCEPT !.fonts = v].url = a.url /\ [a EXCEPT !.fonts = v].auth = a.auth
           /\ [a EXCEPT !.fonts = v].theme = a.theme /\ [a EXCEPT !.fonts = v].fonts = v
           /\ [a EXCEPT !.fonts = v].booths = a.booths
  BY ConfigurationFields

LEMMA NewBooths ==
    ASSUME NEW a \in Configurations, NEW v \in BoothLists
    PROVE  /\ [a EXCEPT !.booths = v] \in Configurations
           /\ [a EXCEPT !.booths = v].url = a.url /\ [a EXCEPT !.booths = v].auth = a.auth
           /\ [a EXCEPT !.booths = v].theme = a.theme /\ [a EXCEPT !.booths = v].fonts = a.fonts
           /\ [a EXCEPT !.booths = v].booths = v
  BY ConfigurationFields

LEMMA AnswerRead ==
    ASSUME NEW line, ReadsLine(line), SetupTypeOK
    PROVE  /\ line \in TypedLines /\ ended' \in BOOLEAN /\ typed' \in BOOLEAN
           /\ ~typed' => ~typed /\ ~Says(line)
           /\ Replied(line) /\ Says(line) => line \in {"yes", "no"}
           /\ ~Says(line) => Replied(line)
  BY DEF ReadsLine, Says, Replied, TypedLines, SetupTypeOK

LEMMA SetupInitial == SetupInit => SetupInv
  <1> SUFFICES ASSUME SetupInit PROVE SetupInv
    OBVIOUS
  <1>1. existing \in Configurations /\ existing.fonts \in {"on", "off"}
    BY DEF SetupInit, Configured
  <1>2. SetupTypeOK
    BY <1>1, BlankFields DEF SetupInit, SetupTypeOK, Stages, BoothValues
  <1>3. KeptSoFar /\ FontsKnown /\ BoothsInOrder
    BY <1>1, BlankFields
    DEF SetupInit, KeptSoFar, FontsKnown, BoothsInOrder, Adding, BoothsAsked, FontsAsked, ThemeAsked,
        AuthAsked, UrlAsked
  <1> QED
    BY <1>2, <1>3 DEF SetupInv

LEMMA FirstQuestionsKeep ==
    ASSUME SetupInv, NEW line \in TypedLines, AskUrl(line) \/ AskTenant(line) \/ AskTheme(line) \/ AskFonts(line)
    PROVE  SetupInv'
  <1> USE DEF Adding, BoothsAsked, FontsAsked, ThemeAsked, AuthAsked, UrlAsked
  <1>1. CASE AskUrl(line)
    <2> DEFINE v == ValueOf(line, existing.url)
    <2>1. /\ stage = "url" /\ answers' = [answers EXCEPT !.url = v]
          /\ stage' = "default tenant?" /\ UNCHANGED <<existing, draft, session>> /\ ReadsLine(line)
      BY <1>1 DEF AskUrl
    <2>2. v \in Values \cup {NotAsked} /\ (~typed' => v = existing.url)
      BY <2>1, AnswerRead, SetupFields DEF ValueOf, Values, SetupInv
    <2> HIDE DEF v
    <2>3. answers' \in Configurations /\ answers'.url = v /\ answers'.booths = answers.booths
      BY <2>1, <2>2, NewUrl, SetupFields DEF SetupInv
    <2>4. SetupTypeOK'
      BY <2>1, <2>3, AnswerRead, SetupFields DEF SetupInv, SetupTypeOK, Stages, Prompts
    <2> QED
      BY <2>1, <2>2, <2>3, <2>4 DEF SetupInv, KeptSoFar, FontsKnown, BoothsInOrder
  <1>2. CASE AskTenant(line)
    <2> DEFINE v == IF stage' = "theme" THEN "builtin" ELSE existing.auth
    <2>1. /\ stage = "default tenant?" /\ ReadsLine(line) /\ UNCHANGED <<existing, draft, session>>
          /\ stage' = (IF ~Replied(line) THEN "default tenant?"
                       ELSE IF IsYes(line, TenantDefault) THEN "theme" ELSE "issuer")
          /\ answers' = (IF Replied(line) THEN [answers EXCEPT !.auth = v] ELSE answers)
      BY <1>2 DEF AskTenant, Question, Takes
    <2>2. ~typed' => v = existing.auth
      BY <2>1, AnswerRead DEF SetupInv, IsYes, TenantDefault, Says, Replied
    <2>3. v \in Values \cup {NotAsked}
      BY SetupFields DEF SetupInv, Values
    <2> HIDE DEF v
    <2>4. /\ answers' \in Configurations /\ answers'.booths = answers.booths /\ answers'.url = answers.url
          /\ Replied(line) => answers'.auth = v
      BY <2>1, <2>3, NewAuth, SetupFields DEF SetupInv
    <2>5. SetupTypeOK'
      BY <2>1, <2>4, AnswerRead, SetupFields DEF SetupInv, SetupTypeOK, Stages, Prompts
    <2> QED
      BY <2>1, <2>2, <2>4, <2>5, AnswerRead DEF SetupInv, KeptSoFar, FontsKnown, BoothsInOrder
  <1>3. CASE AskTheme(line)
    <2> DEFINE v == IF Says(line) THEN "other" ELSE existing.theme
    <2>1. /\ stage = "theme" /\ ReadsLine(line) /\ UNCHANGED <<existing, draft, session>>
          /\ \/ UNCHANGED <<stage, answers>>
             \/ stage' = "fonts?" /\ answers' = [answers EXCEPT !.theme = v]
      BY <1>3 DEF AskTheme
    <2>2. v \in {"listed", "unlisted", "other", NotAsked} /\ (~typed' => v = existing.theme)
      BY <2>1, AnswerRead, SetupFields DEF SetupInv
    <2> HIDE DEF v
    <2>3. CASE UNCHANGED <<stage, answers>>
      <3>1. SetupTypeOK'
        BY <2>1, <2>3, AnswerRead, SetupFields DEF SetupInv, SetupTypeOK
      <3> QED
        BY <2>1, <2>3, <3>1, AnswerRead DEF SetupInv, KeptSoFar, FontsKnown, BoothsInOrder
    <2>4. CASE stage' = "fonts?" /\ answers' = [answers EXCEPT !.theme = v]
      <3>1. /\ answers' \in Configurations /\ answers'.booths = answers.booths /\ answers'.url = answers.url
            /\ answers'.auth = answers.auth /\ answers'.theme = v
        BY <2>2, <2>4, NewTheme, SetupFields DEF SetupInv
      <3>2. SetupTypeOK'
        BY <2>1, <2>4, <3>1, AnswerRead, SetupFields DEF SetupInv, SetupTypeOK, Stages, Prompts
      <3> QED
        BY <2>1, <2>2, <2>4, <3>1, <3>2, AnswerRead DEF SetupInv, KeptSoFar, FontsKnown, BoothsInOrder
    <2> QED
      BY <2>1, <2>3, <2>4
  <1>4. CASE AskFonts(line)
    <2> DEFINE v == IF IsYes(line, existing.fonts = "on") THEN "on" ELSE "off"
    <2>1. /\ stage = "fonts?" /\ ReadsLine(line) /\ UNCHANGED <<existing, draft, session>>
          /\ stage' = (IF ~Replied(line) THEN "fonts?" ELSE AfterFonts)
          /\ answers' = (IF Replied(line) THEN [answers EXCEPT !.fonts = v] ELSE answers)
      BY <1>4 DEF AskFonts, Question, Takes
    <2>2. v \in {"on", "off"} /\ (~typed' => v = existing.fonts)
      BY <2>1, AnswerRead DEF SetupInv, FontsKnown, IsYes, Says
    <2> HIDE DEF v
    <2>3. /\ answers' \in Configurations /\ answers'.booths = answers.booths /\ answers'.url = answers.url
          /\ answers'.auth = answers.auth /\ answers'.theme = answers.theme
          /\ (Replied(line) => answers'.fonts = v)
      BY <2>1, <2>2, NewFonts, SetupFields, ZenonT(30) DEF SetupInv
    <2>4. stage' \in {"fonts?", "add?", "keep?"} /\ (stage' = "add?" => existing.booths = <<>>)
          /\ (stage' # "fonts?" => Replied(line))
      BY <2>1 DEF AfterFonts
    <2>5. SetupTypeOK'
      BY <2>1, <2>3, <2>4, AnswerRead, SetupFields DEF SetupInv, SetupTypeOK, Stages, Prompts
    <2> QED
      BY <2>1, <2>2, <2>3, <2>4, <2>5, AnswerRead DEF SetupInv, KeptSoFar, FontsKnown, BoothsInOrder
  <1> QED
    BY <1>1, <1>2, <1>3, <1>4

(* A detail of the tenant: the issuer, the client id, the scopes.          *)
LEMMA TenantDetailKeeps ==
    ASSUME SetupInv, NEW line \in TypedLines, NEW at \in {"issuer", "client id", "scopes"},
           NEW next \in {"client id", "scopes", "theme"}, AskTenantDetail(line, at, next)
    PROVE  SetupInv'
  <1> USE DEF Adding, BoothsAsked, FontsAsked, ThemeAsked, AuthAsked, UrlAsked
  <1> DEFINE v == ValueOf(line, answers.auth)
  <1>1. /\ stage = at /\ answers' = [answers EXCEPT !.auth = v] /\ stage' = next /\ ReadsLine(line)
        /\ UNCHANGED <<existing, draft, session>>
    BY DEF AskTenantDetail
  <1>2. v \in Values \cup {NotAsked} /\ (~typed' => v = answers.auth)
    BY <1>1, AnswerRead, SetupFields DEF ValueOf, Values, SetupInv
  <1> HIDE DEF v
  <1>3. /\ answers' \in Configurations /\ answers'.url = answers.url /\ answers'.auth = v
        /\ answers'.booths = answers.booths
    BY <1>1, <1>2, NewAuth, SetupFields DEF SetupInv
  <1>4. SetupTypeOK'
    BY <1>1, <1>3, AnswerRead, SetupFields DEF SetupInv, SetupTypeOK, Stages, Prompts
  <1> QED
    BY <1>1, <1>2, <1>3, <1>4, AnswerRead DEF SetupInv, KeptSoFar, FontsKnown, BoothsInOrder

(* The booths: kept or dropped, and each that is added.                    *)
LEMMA BoothQuestionsKeep ==
    ASSUME SetupInv, NEW line \in TypedLines,
           \/ AskKeep(line) \/ AskAdd(line) \/ AskId(line) \/ AskName(line) \/ AskDebugUrl(line)
           \/ AskToken(line) \/ AskPin(line)
    PROVE  SetupInv'
  <1> USE DEF Adding, BoothsAsked, FontsAsked, ThemeAsked, AuthAsked, UrlAsked
  <1>1. CASE AskKeep(line)
    <2> DEFINE v == IF IsYes(line, TRUE) THEN existing.booths ELSE <<>>
    <2>1. /\ stage = "keep?" /\ ReadsLine(line) /\ UNCHANGED <<existing, draft, session>>
          /\ stage' = (IF ~Replied(line) THEN "keep?" ELSE "add?")
          /\ answers' = (IF Replied(line) THEN [answers EXCEPT !.booths = v] ELSE answers)
      BY <1>1 DEF AskKeep, Question, Takes
    <2>2. v \in BoothLists /\ (~typed' => v = existing.booths)
      BY <2>1, AnswerRead, SetupFields, NoBooths DEF SetupInv, IsYes
    <2> HIDE DEF v
    <2>3. /\ answers' \in Configurations /\ answers'.url = answers.url
          /\ answers'.auth = answers.auth /\ answers'.theme = answers.theme /\ answers'.fonts = answers.fonts
          /\ (Replied(line) => answers'.booths = v) /\ (~Replied(line) => answers' = answers)
      BY <2>1, <2>2, NewBooths, SetupFields DEF SetupInv
    <2>4. SetupTypeOK'
      BY <2>1, <2>3, AnswerRead, SetupFields DEF SetupInv, SetupTypeOK, Stages, Prompts
    <2> QED
      BY <2>1, <2>2, <2>3, <2>4, AnswerRead DEF SetupInv, KeptSoFar, FontsKnown, BoothsInOrder
  <1>2. CASE AskAdd(line)
    <2>1. /\ stage = "add?" /\ ReadsLine(line) /\ UNCHANGED <<existing, answers, draft, session>>
          /\ stage' \in {"add?", "id", "save"}
          /\ stage' = "id" => line = "yes" /\ Len(answers.booths) < MaxBooths
      BY <1>2 DEF AskAdd, Question, IsYes
    <2>2. SetupTypeOK'
      BY <2>1, AnswerRead, SetupFields DEF SetupInv, SetupTypeOK, Stages, Prompts
    <2> QED
      BY <2>1, <2>2, AnswerRead DEF SetupInv, KeptSoFar, FontsKnown, BoothsInOrder, Says
  <1>3. CASE AskId(line) \/ AskName(line) \/ AskDebugUrl(line) \/ AskToken(line)
    <2>1. /\ stage \in {"id", "name", "debug url", "token"} /\ ReadsLine(line)
          /\ UNCHANGED <<existing, answers, session>>
          /\ draft' \in {draft, "typed", "example"}
          /\ stage' \in {"save", "id", "name", "debug url", "token", "pin"}
      BY <1>3 DEF AskId, AskName, AskDebugUrl, AskToken, ValueOf
    <2>2. SetupTypeOK'
      BY <2>1, AnswerRead, SetupFields DEF SetupInv, SetupTypeOK, Stages, Prompts, BoothValues
    <2> QED
      BY <2>1, <2>2, AnswerRead DEF SetupInv, KeptSoFar, FontsKnown, BoothsInOrder
  <1>4. CASE AskPin(line)
    <2> DEFINE v == Append(answers.booths, draft)
    <2>1. /\ stage = "pin" /\ ReadsLine(line) /\ UNCHANGED <<existing, session>>
          /\ draft' = "example" /\ stage' = "add?" /\ answers' = [answers EXCEPT !.booths = v]
      BY <1>4 DEF AskPin
    <2>2. v \in BoothLists
      BY <2>1, OneBoothMore, SetupFields DEF SetupInv, BoothsInOrder
    <2> HIDE DEF v
    <2>3. /\ answers' \in Configurations /\ answers'.fonts = answers.fonts
      BY <2>1, <2>2, NewBooths, SetupFields DEF SetupInv
    <2>4. SetupTypeOK'
      BY <2>1, <2>3, AnswerRead, SetupFields DEF SetupInv, SetupTypeOK, Stages, Prompts, BoothValues
    <2> QED
      BY <2>1, <2>3, <2>4, AnswerRead DEF SetupInv, KeptSoFar, FontsKnown, BoothsInOrder
  <1> QED
    BY <1>1, <1>2, <1>3, <1>4

LEMMA AgedTypes ==
    ASSUME SetupInv, StartsAgain
    PROVE  /\ existing' \in Configurations /\ existing'.fonts = existing.fonts
  <1> DEFINE url == Aged(existing.url)
             auth == Aged(existing.auth)
             theme == Aged(existing.theme)
             booths == [i \in DOMAIN existing.booths |-> Aged(existing.booths[i])]
  <1>1. existing' = [url |-> url, auth |-> auth, theme |-> theme, fonts |-> existing.fonts, booths |-> booths]
    BY DEF StartsAgain
  <1>2. url \in Values \cup {NotAsked} /\ auth \in Values \cup {NotAsked}
    BY SetupFields DEF SetupInv, Aged, Values, NotAsked
  <1>3. theme \in {"listed", "unlisted", "other", NotAsked}
    BY SetupFields DEF SetupInv, Aged, NotAsked
  <1>4. booths \in BoothLists
    BY SetupFields, AgedBooths DEF SetupInv
  <1> HIDE DEF url, auth, theme, booths
  <1> QED
    BY <1>1, <1>2, <1>3, <1>4, SetupFields, ConfigurationFields DEF SetupInv

(* The rest of the setup, and another start of the program.                *)
LEMMA OtherStepsKeep ==
    ASSUME SetupInv,
           \/ \E setup, terminal \in BOOLEAN : Starts(setup, terminal)
           \/ \E line \in TypedLines : AskAgain(line) \/ AskRetry(line)
           \/ SavesAnswers \/ OpensSession \/ SignsIn \/ SignInFails \/ Validates
           \/ GivesUp \/ StartsAgain \/ UNCHANGED setupVars
    PROVE  SetupInv'
  <1> USE DEF Adding, BoothsAsked, FontsAsked, ThemeAsked, AuthAsked, UrlAsked
  <1>1. CASE \E setup, terminal \in BOOLEAN : Starts(setup, terminal)
    <2>1. /\ stage = "start" /\ stage' \in {"url", "screens"}
          /\ UNCHANGED <<existing, answers, draft, session, ended, typed>>
      BY <1>1 DEF Starts
    <2>2. SetupTypeOK'
      BY <2>1 DEF SetupInv, SetupTypeOK, Stages, Prompts
    <2> QED
      BY <2>1, <2>2 DEF SetupInv, KeptSoFar, FontsKnown, BoothsInOrder
  <1>2. CASE \E line \in TypedLines : AskAgain(line) \/ AskRetry(line)
    <2> PICK line \in TypedLines : AskAgain(line) \/ AskRetry(line)
      BY <1>2
    <2>1. /\ stage' \in {"again?", "retry?", "sign in", "validate"} /\ ReadsLine(line)
          /\ UNCHANGED <<existing, answers, draft, session>>
      BY DEF AskAgain, AskRetry, Question
    <2>2. SetupTypeOK'
      BY <2>1, AnswerRead DEF SetupInv, SetupTypeOK, Stages, Prompts
    <2> QED
      BY <2>1, <2>2 DEF SetupInv, KeptSoFar, FontsKnown, BoothsInOrder
  <1>3. CASE SavesAnswers
    <2>1. /\ stage = "save" /\ stage' = "session" /\ existing' = answers /\ answers' = Blank
          /\ UNCHANGED <<draft, session, ended, typed>>
      BY <1>3 DEF SavesAnswers
    <2>2. SetupTypeOK'
      BY <2>1, BlankFields DEF SetupInv, SetupTypeOK, Stages
    <2> QED
      BY <2>1, <2>2 DEF SetupInv, KeptSoFar, FontsKnown, BoothsInOrder
  <1>4. CASE OpensSession \/ SignsIn \/ SignInFails \/ Validates \/ GivesUp
    <2>1. /\ stage' \in {"again?", "sign in", "validate", "retry?", "screens", "failed"}
          /\ session' \in BOOLEAN /\ UNCHANGED <<existing, answers, draft, ended, typed>>
      BY <1>4 DEF OpensSession, SignsIn, SignInFails, Validates, GivesUp, NoLine, SetupInv, SetupTypeOK
    <2>2. SetupTypeOK'
      BY <2>1 DEF SetupInv, SetupTypeOK, Stages, Prompts
    <2> QED
      BY <2>1, <2>2 DEF SetupInv, KeptSoFar, FontsKnown, BoothsInOrder
  <1>5. CASE StartsAgain
    <2>1. /\ stage' = "start" /\ answers' = Blank /\ draft' = "example"
          /\ session' = FALSE /\ ended' = FALSE /\ typed' = FALSE
      BY <1>5 DEF StartsAgain
    <2>2. SetupTypeOK'
      BY <1>5, <2>1, AgedTypes, BlankFields DEF SetupTypeOK, Stages, BoothValues
    <2> QED
      BY <1>5, <2>1, <2>2, AgedTypes, BlankFields DEF SetupInv, KeptSoFar, FontsKnown, BoothsInOrder
  <1>6. CASE UNCHANGED setupVars
    BY <1>6 DEF setupVars, SetupInv, SetupTypeOK, KeptSoFar, FontsKnown, BoothsInOrder
  <1> QED
    BY <1>1, <1>2, <1>3, <1>4, <1>5, <1>6

LEMMA SetupKept == SetupInv /\ [SetupNext]_setupVars => SetupInv'
  <1> SUFFICES ASSUME SetupInv, [SetupNext]_setupVars PROVE SetupInv'
    OBVIOUS
  <1>1. ASSUME NEW line \in TypedLines, AsksLine(line) PROVE SetupInv'
    BY <1>1, FirstQuestionsKeep, TenantDetailKeeps, BoothQuestionsKeep, OtherStepsKeep DEF AsksLine
  <1> QED
    BY <1>1, OtherStepsKeep DEF SetupNext

LEMMA SetupAlways == SetupSpec => []SetupInv
  BY SetupInitial, SetupKept, PTL DEF SetupSpec

(* What a configuration, the answers and the draft of a booth can be: the  *)
(* booths stay within their bound, whatever is typed.                      *)
THEOREM SetupTypes == SetupSpec => []SetupTypeOK
  <1>1. SetupInv => SetupTypeOK
    BY DEF SetupInv
  <1> QED
    BY <1>1, SetupAlways, PTL

(* A setup gone through with Enter saves what there was, however it was    *)
(* configured and whether the input ended on the way.                      *)
THEOREM EnterKeeps == SetupSpec => []EnterKeepsAll
  <1>1. ASSUME SetupInv PROVE EnterKeepsAll
    <2> SUFFICES ASSUME stage = "save", ~typed PROVE answers = existing
      BY DEF EnterKeepsAll
    <2>1. /\ answers.url = existing.url /\ answers.auth = existing.auth /\ answers.theme = existing.theme
          /\ answers.fonts = existing.fonts /\ answers.booths = existing.booths
      BY <1>1 DEF SetupInv, KeptSoFar, UrlAsked, AuthAsked, ThemeAsked, FontsAsked, BoothsAsked
    <2> QED
      BY <1>1, <2>1, SetupFields, ConfigurationFields DEF SetupInv
  <1> QED
    BY <1>1, SetupAlways, PTL
=============================================================================
