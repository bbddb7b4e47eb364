------------------------------- MODULE Service -------------------------------
(***************************************************************************)
(* MsgService (src/msg-service.c) under the single requests of the drive,  *)
(* mail and user services: refresh the authorization, build a message,     *)
(* sign it, send it, wait and send it again while the server limits the    *)
(* rate, and make of the answer the result of the operation.  Several      *)
(* threads call at once; the application may cancel a call at any moment.  *)
(***************************************************************************)
EXTENDS Naturals

CONSTANTS Threads,   \* threads that share the service
          Items,     \* the items (or messages, users...) the calls are about
          CallsOf,   \* per thread: the operations it calls
          MaxLimited \* bound: rate-limited answers with a Retry-After per call

-----------------------------------------------------------------------------
(* How an operation uses the service:                                      *)
(*   check    when it looks at a name it is given: "first", "late" (after  *)
(*            the refresh), or "never"; "url" if it is given a URL, which  *)
(*            only building the message looks at;                          *)
(*   refresh  whether it refreshes the authorization at all;               *)
(*   send     "read" for msg_service_send_and_read or msg_service_send,    *)
(*            "parse" for msg_service_send_and_parse_response;             *)
(*   needs    what it makes its result of: "bytes", a "status" of 200, a   *)
(*            JSON "object", an object that describes an "item" (or has    *)
(*            the member it is about), or one with a member "id";          *)
(*   local    whether it looks at a local error of its own;                *)
(*   target   what the server does: "deleted", "existing" or "new" item.   *)
Operation(check, send, needs, local, target) ==
  [check |-> check, refresh |-> TRUE, send |-> send, needs |-> needs,
   local |-> local, target |-> target]

Reads(needs, local, target)  == Operation("never", "read", needs, local, target)
Parses(check, needs, target) == Operation(check, "parse", needs, FALSE, target)

(* MsgDriveService *)
get_root             == Parses("never", "item", "existing")
rename               == Parses("first", "item", "existing")
create_folder        == Parses("late", "item", "new")
add_item_to_folder   == Parses("first", "item", "new")
update               == Parses("never", "item", "existing")
update_finish        == Parses("never", "item", "existing")
delete               == Reads("bytes", FALSE, "deleted")
copy_file            == Reads("bytes", TRUE, "existing")
move_file            == Reads("item", TRUE, "existing")
download_url         == [Reads("bytes", FALSE, "existing") EXCEPT !.refresh = FALSE,
                                                                  !.check = "url"]

(* MsgMailService *)
get_mail_folder      == Parses("never", "object", "existing")
create_draft_message == Parses("never", "object", "new")
get_folder_id        == Parses("never", "id", "existing")
delete_message       == Reads("bytes", FALSE, "deleted")
get_mime_message     == Reads("bytes", FALSE, "existing")

(* MsgUserService *)
get_user             == Parses("never", "object", "existing")
get_photo            == Reads("status", FALSE, "existing")

Operations ==
  {get_root, rename, create_folder, add_item_to_folder, update, update_finish,
   delete, copy_file, move_file, download_url, get_mail_folder,
   create_draft_message, get_folder_id, delete_message, get_mime_message,
   get_user, get_photo}

ASSUME CallsAssumption == /\ MaxLimited \in Nat
                          /\ CallsOf \in [Threads -> SUBSET Operations]

VARIABLES call,      \* per thread: the operation it runs and its locals
          remote,    \* the items that exist on the server
          authorizer \* priv->authorizer is not NULL; given at construction only

vars == <<call, remote, authorizer>>

-----------------------------------------------------------------------------
(* A response: its status and what its body is.  Bodies: a JSON object     *)
(* with what the operation looks for, one without, one with a member       *)
(* "error" ("wordless" if that has no string "message"), anything else (an *)
(* empty body, a photo); "none" if nothing was read.                       *)
Bodies == {"item", "object", "error", "wordless", "other", "none"}
Statuses == {"none", "ok", "refused",
             "limited",   \* 429 with a Retry-After
             "throttled"} \* 429 without

(* The caller's *error: "again" is an error set over an error, "silent" a  *)
(* failure that sets none.                                                 *)
Errors == {"unset", "set", "again", "silent"}
SetError(e) == IF e = "unset" THEN "set" ELSE "again"

(* A call before its first step; what has returned keeps op, item, result, *)
(* error and executed for the caller to look at.                           *)
NewCall(o, i, v) ==
  [op |-> o, pc |-> IF o.refresh THEN "refresh" ELSE "sign", item |-> i,
   valid |-> v, auth |-> 0, status |-> "none", body |-> "none", limited |-> 0,
   cut |-> FALSE, cancelled |-> "no", result |-> "none", error |-> "unset",
   executed |-> 0]

Labels == {"idle", "refresh", "sign", "send", "answer", "sleep"}

Calls ==
  [op : Operations, pc : Labels, item : Items, valid : BOOLEAN,
   auth : 0 .. MaxLimited + 1,  \* Authorization headers of the message
   status : Statuses, body : Bodies,
   limited : 0 .. MaxLimited,   \* waits so far
   cut : BOOLEAN,               \* history: CutShort happened
   cancelled : {"no", "early", "sent"}, \* before it was last sent, or later
   result : {"none", "true", "false"}, error : Errors,
   executed : 0 .. MaxLimited + 1] \* times the server carried it out

TypeOK ==
  /\ call \in [Threads -> Calls]
  /\ remote \subseteq Items
  /\ authorizer \in BOOLEAN

Init ==
  /\ \E i \in Items :
       call = [t \in Threads |-> [NewCall(delete, i, TRUE) EXCEPT !.pc = "idle"]]
  /\ remote = Items
  /\ authorizer \in BOOLEAN

At(t, label) == call[t].pc = label
Rest == UNCHANGED <<remote, authorizer>>

(* The call returns; *error keeps what was set on the way. *)
Returns(t, result, error) ==
  call' = [call EXCEPT ![t] = [NewCall(@.op, @.item, TRUE) EXCEPT !.pc = "idle",
             !.result = result, !.error = error, !.executed = call[t].executed,
             !.cut = call[t].cut]]

-----------------------------------------------------------------------------
(* The application starts a call, or cancels one.                          *)
Start(t) ==
  /\ At(t, "idle")
  /\ \E o \in CallsOf[t], i \in Items, v \in BOOLEAN :
       /\ o.check # "never" \/ v
       /\ call' = [call EXCEPT ![t] =
                     IF o.check = "first" /\ ~v
                     THEN [NewCall(o, i, TRUE) EXCEPT !.pc = "idle",
                             !.result = "false", !.error = "set"]
                     ELSE NewCall(o, i, v)]
  /\ Rest

Cancel(t) ==
  /\ call[t].pc \in {"refresh", "sign", "send", "sleep"} /\ call[t].cancelled = "no"
  /\ call' = [call EXCEPT ![t].cancelled = IF At(t, "send") THEN "sent" ELSE "early"]
  /\ Rest

-----------------------------------------------------------------------------
(* msg_service_refresh_authorization: an error without an authorizer; an   *)
(* authorizer may fail with an error, and MsgOAuth2Authorizer without one. *)
(* create_folder looks at the name only now.                               *)
Refresh(t) ==
  /\ At(t, "refresh")
  /\ \/ Returns(t, "false", "set")
     \/ authorizer /\ Returns(t, "false", "silent")
     \/ /\ authorizer /\ call[t].valid
        /\ call' = [call EXCEPT ![t].pc = "sign"]
     \/ ~call[t].valid /\ Returns(t, "false", "set")
  /\ Rest

(* msg_service_build_message: there is no message for a URL that is not    *)
(* one of https, and the call goes on without one until it returns NULL,   *)
(* without an error.                                                       *)
Builds(c) == c.op.check = "url" => c.valid

BuildMessage(t) ==
  /\ At(t, "sign") /\ ~Builds(call[t])
  /\ Returns(t, "false", "silent")
  /\ Rest

(* Mutant: a message is signed twice. *)
SignTwice(t) ==
  /\ At(t, "sign")
  /\ call' = [call EXCEPT ![t].pc = "send", ![t].auth = @ + 2]
  /\ Rest

(* process_request appends an Authorization header, unless the authorizer  *)
(* has lost its token to another thread since, or there is none.           *)
Sign(t) ==
  /\ At(t, "sign") /\ Builds(call[t])
  /\ \E n \in IF authorizer THEN {0, 1} ELSE {0} :
       call' = [call EXCEPT ![t].pc = "send", ![t].auth = @ + n]
  /\ Rest

(* What the server can answer to an operation, and whether it carries it   *)
(* out: no operation is carried out whose answer is not a success.         *)
CanExecute(t) == call[t].op.target = "new" \/ call[t].item \in remote

Answered(t, status, body) ==
  call' = [call EXCEPT ![t].pc = "answer", ![t].status = status, ![t].body = body]

(* The answer of an operation that is carried out may be lost, in part or  *)
(* as a whole, or be given up because the call was cancelled meanwhile.    *)
ServerExecutes(t) ==
  /\ At(t, "send") /\ call[t].cancelled # "early" /\ CanExecute(t)
  /\ remote' = IF call[t].op.target = "deleted" THEN remote \ {call[t].item} ELSE remote
  /\ \/ /\ call[t].cancelled = "no"
        /\ \E body \in IF call[t].op.needs \in {"bytes", "status"} THEN {"other"}
                       ELSE {"item", "object"} :
             call' = [call EXCEPT ![t].pc = "answer", ![t].executed = @ + 1,
                                  ![t].status = "ok", ![t].body = body]
     \/ \E status \in {"none", "ok"} :
          call' = [call EXCEPT ![t].pc = "answer", ![t].executed = @ + 1,
                               ![t].error = SetError(@), ![t].status = status]
  /\ UNCHANGED authorizer

Refusals == {"error", "wordless", "other"}

ServerRefuses(t) ==
  /\ At(t, "send") /\ call[t].cancelled = "no"
  /\ \E body \in Refusals : Answered(t, "refused", body)
  /\ Rest

ServerLimits(t) ==
  /\ At(t, "send") /\ call[t].cancelled = "no"
  /\ \/ call[t].limited < MaxLimited /\ Answered(t, "limited", "error")
     \/ \E body \in Refusals : Answered(t, "throttled", body)
  /\ Rest

(* The connection breaks, or the call is cancelled, after the headers of   *)
(* the answer 429 have been read: there is an error, and yet a status.     *)
CutShort(t) ==
  /\ At(t, "send") /\ call[t].cancelled # "early" /\ call[t].limited < MaxLimited
  /\ call' = [call EXCEPT ![t].pc = "answer", ![t].status = "limited",
                          ![t].error = SetError(@), ![t].cut = TRUE]
  /\ Rest

(* No connection, or the call is cancelled: soup reports an error, and the *)
(* message, sent anew, has no status.                                      *)
SendFails(t) ==
  /\ At(t, "send")
  /\ call' = [call EXCEPT ![t].pc = "answer", ![t].error = SetError(@)]
  /\ Rest

-----------------------------------------------------------------------------
(* Mutant: a response that was lost is asked for again. *)
MustWaitOrLost(c) == c.status \in {"limited", "none"} /\ c.cancelled = "no"

(* Mutant: the Retry-After header is not required. *)
MustWaitAny(c) == c.status \in {"limited", "throttled"}

(* msg_service_handle_rate_limiting, after every send.  While it sleeps it *)
(* does not look at the cancellable.                                       *)
MustWait(c) == c.status = "limited"

RateLimit(t) ==
  /\ At(t, "answer") /\ MustWait(call[t])
  /\ call' = [call EXCEPT ![t].pc = "sleep",
                          ![t].limited = IF @ < MaxLimited THEN @ + 1 ELSE @,
                          ![t].status = "none", ![t].body = "none"]
  /\ Rest

(* Mutant: every retry signs the message. *)
RetryAtSign(op) == "sign"

(* send and send_and_read go back to sending, send_and_parse_response to   *)
(* signing: the header is appended once more.                              *)
RetryAt(op) == IF op.send = "parse" THEN "sign" ELSE "send"

WakeUp(t) ==
  /\ At(t, "sleep")
  /\ call' = [call EXCEPT ![t].pc = RetryAt(call[t].op),
                          ![t].cancelled = IF @ = "no" THEN @ ELSE "early"]
  /\ Rest

(* What answers make a result; parse_response refuses a body that is no    *)
(* JSON object, and one with a member "error".                             *)
Accepted == [bytes |-> Bodies \ {"none"}, status |-> Bodies \ {"none"},
             object |-> {"item", "object"}, item |-> {"item"}, id |-> {"item"}]

(* Mutant: the member "error" of a JSON answer is not looked for. *)
SucceedsWithError(c) == c.body \in Accepted[c.op.needs] \cup {"error"}

Succeeds(c) ==
  /\ c.body \in Accepted[c.op.needs]
  /\ c.op.needs = "status" => c.status = "ok"
  /\ c.op.local => c.error = "unset"

(* What becomes of the error of a call that fails at its answer:           *)
(* get_folder_id sets none if there is no member "id", nor does            *)
(* parse_response for an error without a message (move_file goes on to     *)
(* set one of its own); get_photo sets one for every other status, whether *)
(* or not sending set one; otherwise nothing is added if there is nothing  *)
(* to parse, or if the operation returns at its local error.               *)
FailsWith(c) ==
  IF \/ c.op.needs = "id" /\ c.body = "object"
     \/ c.op.send = "parse" /\ c.body = "wordless" /\ c.error = "unset"
  THEN IF c.error = "unset" THEN "silent" ELSE c.error
  ELSE IF c.op.needs = "status"
  THEN IF c.status = "ok" THEN c.error ELSE SetError(c.error)
  ELSE IF c.body = "none" \/ (c.op.local /\ c.error # "unset") THEN c.error
  ELSE SetError(c.error)

(* Mutant: no error is set when the answer is no JSON object. *)
FinishSilently(t) ==
  /\ At(t, "answer") /\ ~MustWait(call[t])
  /\ IF Succeeds(call[t]) THEN Returns(t, "true", call[t].error)
                          ELSE Returns(t, "false", call[t].error)
  /\ Rest

Finish(t) ==
  /\ At(t, "answer") /\ ~MustWait(call[t])
  /\ IF Succeeds(call[t]) THEN Returns(t, "true", call[t].error)
                          ELSE Returns(t, "false", FailsWith(call[t]))
  /\ Rest

-----------------------------------------------------------------------------
Server(t) == \/ ServerExecutes(t) \/ ServerRefuses(t) \/ ServerLimits(t)
             \/ CutShort(t) \/ SendFails(t)
Step(t) == Refresh(t) \/ BuildMessage(t) \/ Sign(t) \/ RateLimit(t) \/ WakeUp(t) \/ Finish(t)

Next == \E t \in Threads : Start(t) \/ Cancel(t) \/ Server(t) \/ Step(t)

(* A thread runs on, and every request is answered or fails. *)
Fairness == \A t \in Threads : WF_vars(Step(t)) /\ WF_vars(Server(t))
Spec == Init /\ [][Next]_vars
FairSpec == Spec /\ Fairness

-----------------------------------------------------------------------------
(* An operation that looks at the answer, and at more than that there is   *)
(* one, has a result only if the server carried it out in this very call,  *)
(* whatever was refused, limited or cancelled on the way.                  *)
ItemMeansExecuted ==
  \A t \in Threads :
    call[t].op.needs # "bytes" /\ call[t].result = "true" => call[t].executed = 1

(* The retries never make the server carry an operation out twice: none of *)
(* them is idempotent by itself (create_folder asks for a new name).       *)
AtMostOnce == \A t \in Threads : call[t].executed <= 1

(* The caller's *error is set exactly if the call fails, except where the  *)
(* authorizer failed without one, for an error of the server without words *)
(* or a folder without an id, and for a URL that no message can be built   *)
(* for; across retries and all that looks at an answer it is set at most   *)
(* once, except by get_photo.  An answer 429 that was cut short breaks     *)
(* this: the call goes on with the error set, and is left out.             *)
ErrorMeansFailure ==
  \A t \in Threads : ~call[t].cut =>
    /\ call[t].result = "true" => call[t].error = "unset"
    /\ call[t].result = "false" => call[t].error # "unset"
    /\ call[t].error = "again" => call[t].op.needs = "status"

(* However often send and send_and_read send a message again, it carries   *)
(* at most one Authorization header.                                       *)
RetryKeepsSignature == \A t \in Threads : call[t].op.send = "read" => call[t].auth <= 1

(* So does every message, as send_and_parse_response is documented as a    *)
(* combination of send_and_read and parse_response, neither of which signs *)
(* what it sends again.                                                    *)
SignedOnce == \A t \in Threads : call[t].auth <= 1

(* Every call returns, if the server answers each request and stops        *)
(* limiting the rate; an answer 429 without Retry-After ends the call.     *)
CallsReturn == \A t \in Threads : ~At(t, "idle") ~> At(t, "idle")
=============================================================================
