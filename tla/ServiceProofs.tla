---------------------------- MODULE ServiceProofs ----------------------------
(***************************************************************************)
(* Proofs about Service, for any number of threads, items, operations      *)
(* called and waits for the rate limit.                                    *)
(***************************************************************************)
EXTENDS Service, TLAPS

-----------------------------------------------------------------------------
(* The inductive invariant, of each call by itself: the calls share        *)
(* nothing but the server's items and the authorizer.                      *)

(* Before its request is sent, and while it waits to send it again, the    *)
(* server has not carried an operation out, and there is no answer.        *)
Unanswered == {"refresh", "sign", "send", "sleep"}

ExecutedInv(c) ==
  /\ c.executed <= 1
  /\ c.pc \in Unanswered => c.executed = 0 /\ c.status = "none" /\ c.body = "none"
  /\ c.status = "limited" => c.executed = 0 /\ c.limited < MaxLimited
  /\ c.pc = "answer" /\ (c.body \in {"item", "object"} \/ (c.status = "ok" /\ c.body # "none"))
       => c.executed = 1

(* Who is about to sign has no header but those of earlier tries.          *)
SignedInv(c) ==
  c.auth <= CASE c.pc \in {"refresh", "sign"} -> IF c.op.send = "parse" THEN c.limited ELSE 0
              [] c.pc = "sleep" -> IF c.op.send = "parse" THEN c.limited ELSE 1
              [] OTHER -> IF c.op.send = "parse" THEN 1 + c.limited ELSE 1

(* Until it fails to get an answer, a call has set no error; if there is a *)
(* body, as in every whole answer 429, that has not happened.              *)
ErrorInv(c) == ~c.cut =>
  /\ c.pc \in Unanswered => c.error = "unset"
  /\ c.pc = "answer" => c.error = IF c.body = "none" THEN "set" ELSE "unset"
  /\ c.status = "limited" => c.body # "none"
  /\ c.result = "true" => c.error = "unset"
  /\ c.result = "false" => c.error # "unset"
  /\ c.error = "again" => c.op.needs = "status"

(* There is a result only when the call has returned.                      *)
ResultInv(c) ==
  /\ c.pc # "idle" => c.result = "none"
  /\ c.op.needs # "bytes" /\ c.result = "true" => c.executed = 1

CallInv(c) == ExecutedInv(c) /\ SignedInv(c) /\ ErrorInv(c) /\ ResultInv(c)

Inv == TypeOK /\ \A t \in Threads : CallInv(call[t])

-----------------------------------------------------------------------------
USE CallsAssumption

(* The traits of the operations.                                           *)
Traits(o) == /\ o.send \in {"read", "parse"}
             /\ o.needs \in {"bytes", "status", "object", "item", "id"}
             /\ o.refresh \in BOOLEAN /\ o.local \in BOOLEAN

LEMMA OperationTraits == \A o \in Operations : Traits(o)
<1>1. ASSUME NEW check, NEW needs \in {"bytes", "status", "object", "item", "id"}, NEW target
      PROVE  Traits(Parses(check, needs, target))
  BY DEF Parses, Operation, Traits
<1>2. ASSUME NEW needs \in {"bytes", "status", "object", "item", "id"},
             NEW local \in BOOLEAN, NEW target
      PROVE  Traits(Reads(needs, local, target))
  BY DEF Reads, Operation, Traits
<1>3. Traits(download_url)
  BY DEF download_url, Reads, Operation, Traits
<1>4. /\ Traits(get_root) /\ Traits(rename) /\ Traits(create_folder)
      /\ Traits(add_item_to_folder) /\ Traits(update) /\ Traits(update_finish)
      /\ Traits(get_mail_folder) /\ Traits(create_draft_message)
      /\ Traits(get_folder_id) /\ Traits(get_user)
  BY ONLY <1>1 DEF get_root, rename, create_folder, add_item_to_folder, update,
        update_finish,
                   get_mail_folder, create_draft_message, get_folder_id, get_user
<1>5. /\ Traits(delete) /\ Traits(copy_file) /\ Traits(move_file)
      /\ Traits(delete_message) /\ Traits(get_mime_message) /\ Traits(get_photo)
  BY ONLY <1>2 DEF delete, copy_file, move_file, delete_message, get_mime_message,
        get_photo
<1> QED  BY ONLY <1>3, <1>4, <1>5 DEF Operations

(* What a result is made of: a body, and one that only an operation that   *)
(* was carried out is answered with, unless any body will do.              *)
LEMMA SucceedsFacts ==
  ASSUME NEW c \in Calls, Succeeds(c)
  PROVE  /\ c.body # "none"
         /\ c.op.needs # "bytes" =>
              c.body \in {"item", "object"} \/ (c.op.needs = "status" /\ c.status = "ok")
         /\ c.op.local => c.error = "unset"
<1>1. c.op.needs \in {"bytes", "status", "object", "item", "id"}
  BY OperationTraits DEF Traits, Calls
<1> QED  BY <1>1 DEF Succeeds, Accepted, Bodies

(* A step of one call leaves the others alone.                             *)
LEMMA OneCall ==
  ASSUME Inv, NEW t \in Threads, NEW c \in Calls, CallInv(c),
         call' = [call EXCEPT ![t] = c],
         remote' \subseteq Items, authorizer' = authorizer
  PROVE  Inv'
<1>1. TypeOK'
  BY DEF Inv, TypeOK
<1>2. ASSUME NEW u \in Threads PROVE CallInv(call'[u])
  BY <1>2 DEF Inv, TypeOK
<1>3. \A u \in Threads : CallInv(call[u])'
  BY <1>2 DEF CallInv, ExecutedInv, SignedInv, ErrorInv, ResultInv
<1> QED  BY <1>1, <1>3 DEF Inv

(* A call that begins, and one that returns.                               *)
LEMMA NewCallFacts ==
  ASSUME NEW o \in Operations, NEW i \in Items, NEW v \in BOOLEAN
  PROVE  NewCall(o, i, v) \in Calls /\ CallInv(NewCall(o, i, v))
<1>1. o.refresh \in BOOLEAN /\ o.send \in {"read", "parse"}
  BY OperationTraits DEF Traits
<1>2. NewCall(o, i, v) \in Calls
  BY <1>1 DEF NewCall, Calls, Labels, Statuses, Bodies, Errors
<1>3. CallInv(NewCall(o, i, v))
  BY <1>1 DEF NewCall, CallInv, ExecutedInv, SignedInv, ErrorInv, ResultInv, Unanswered
<1> QED  BY <1>2, <1>3

LEMMA ReturnsFacts ==
  ASSUME Inv, NEW t \in Threads, NEW result \in {"true", "false"}, NEW error \in Errors,
         Returns(t, result, error), Rest,
         call[t].op.needs # "bytes" /\ result = "true" => call[t].executed = 1,
         ~call[t].cut => /\ result = "true" <=> error = "unset"
                         /\ error = "again" => call[t].op.needs = "status"
  PROVE  Inv'
<1> DEFINE n == NewCall(call[t].op, call[t].item, TRUE)
           c == [n EXCEPT !.pc = "idle", !.result = result, !.error = error,
                          !.executed = call[t].executed, !.cut = call[t].cut]
<1>1. call[t] \in Calls /\ CallInv(call[t])
  BY DEF Inv, TypeOK
<1>2. call[t].op \in Operations /\ call[t].item \in Items
  BY <1>1 DEF Calls
<1>3. n \in Calls /\ CallInv(n)
  BY <1>2, NewCallFacts
<1>4. c \in Calls
  <2> HIDE DEF n
  <2> QED  BY <1>1, <1>3 DEF Calls, Labels
<1>5. CallInv(c)
  BY <1>1 DEF NewCall, CallInv, ExecutedInv, SignedInv, ErrorInv, ResultInv, Unanswered,
        Calls
<1>6. call' = [call EXCEPT ![t] = c]
  BY DEF Returns, Inv, TypeOK
<1>7. remote' \subseteq Items /\ authorizer' = authorizer
  BY DEF Rest, Inv, TypeOK
<1> HIDE DEF c
<1> QED  BY <1>4, <1>5, <1>6, <1>7, OneCall

-----------------------------------------------------------------------------
THEOREM InvInit == Init => Inv
<1> SUFFICES ASSUME Init PROVE Inv
  OBVIOUS
<1>1. PICK i \in Items :
        call = [t \in Threads |-> [NewCall(delete, i, TRUE) EXCEPT !.pc = "idle"]]
  BY DEF Init
<1> DEFINE n == NewCall(delete, i, TRUE)
           c == [n EXCEPT !.pc = "idle"]
<1>2. delete \in Operations
  BY DEF Operations
<1>3. n \in Calls /\ CallInv(n)
  BY <1>2, NewCallFacts
<1>4. c \in Calls
  <2> HIDE DEF n
  <2> QED  BY <1>3 DEF Calls, Labels
<1>5. CallInv(c)
  BY DEF NewCall, CallInv, ExecutedInv, SignedInv, ErrorInv, ResultInv, Unanswered
<1>6. call = [t \in Threads |-> c]
  BY <1>1
<1> HIDE DEF c
<1> QED  BY <1>4, <1>5, <1>6 DEF Init, Inv, TypeOK

LEMMA InvStart == ASSUME Inv, NEW t \in Threads, Start(t) PROVE Inv'
<1>1. PICK o \in CallsOf[t], i \in Items, v \in BOOLEAN :
        call' = [call EXCEPT ![t] =
                   IF o.check = "first" /\ ~v
                   THEN [NewCall(o, i, TRUE) EXCEPT !.pc = "idle",
                           !.result = "false", !.error = "set"]
                   ELSE NewCall(o, i, v)]
  BY DEF Start
<1>2. remote' \subseteq Items /\ authorizer' = authorizer
  BY DEF Start, Rest, Inv, TypeOK
<1>3. o \in Operations
  OBVIOUS
<1>4. CASE o.check = "first" /\ ~v
  <2> DEFINE n == NewCall(o, i, TRUE)
             c == [n EXCEPT !.pc = "idle", !.result = "false", !.error = "set"]
  <2>1. n \in Calls /\ CallInv(n)
    BY <1>3, NewCallFacts
  <2>2. c \in Calls
    <3> HIDE DEF n
    <3> QED  BY <2>1 DEF Calls, Labels, Errors
  <2>3. CallInv(c)
    BY DEF NewCall, CallInv, ExecutedInv, SignedInv, ErrorInv, ResultInv, Unanswered
  <2>4. call' = [call EXCEPT ![t] = c]
    BY <1>1, <1>4
  <2> HIDE DEF c
  <2> QED  BY <1>2, <2>2, <2>3, <2>4, OneCall
<1>5. CASE ~(o.check = "first" /\ ~v)
  <2> DEFINE c == NewCall(o, i, v)
  <2>1. c \in Calls /\ CallInv(c)
    BY <1>3, NewCallFacts
  <2>2. call' = [call EXCEPT ![t] = c]
    BY <1>1, <1>5
  <2> HIDE DEF c
  <2> QED  BY <1>2, <2>1, <2>2, OneCall
<1> QED  BY <1>4, <1>5

LEMMA InvCancel == ASSUME Inv, NEW t \in Threads, Cancel(t) PROVE Inv'
<1> DEFINE c == [call[t] EXCEPT !.cancelled = IF At(t, "send") THEN "sent" ELSE "early"]
<1>1. call[t] \in Calls /\ CallInv(call[t])
  BY DEF Inv, TypeOK
<1>2. c \in Calls
  BY <1>1 DEF Cancel, At, Calls, Labels, Statuses, Bodies, Errors
<1>3. CallInv(c)
  BY <1>1 DEF Cancel, At, CallInv, ExecutedInv, SignedInv, ErrorInv, ResultInv,
        Unanswered, Calls
<1>4. /\ call' = [call EXCEPT ![t] = c]
      /\ remote' \subseteq Items /\ authorizer' = authorizer
  BY DEF Cancel, Rest, Inv, TypeOK
<1> HIDE DEF c
<1> QED  BY <1>2, <1>3, <1>4, OneCall

LEMMA InvRefresh == ASSUME Inv, NEW t \in Threads, Refresh(t) PROVE Inv'
<1>1. call[t] \in Calls /\ Rest
  BY DEF Inv, TypeOK, Refresh
<1>2. CASE Returns(t, "false", "set") \/ Returns(t, "false", "silent")
  BY <1>1, <1>2, ReturnsFacts DEF Errors
<1>3. CASE call' = [call EXCEPT ![t].pc = "sign"]
  <2> DEFINE c == [call[t] EXCEPT !.pc = "sign"]
  <2>1. call[t] \in Calls /\ CallInv(call[t]) /\ At(t, "refresh")
    BY DEF Inv, TypeOK, Refresh
  <2>2. c \in Calls
    BY <2>1 DEF Calls, Labels
  <2>3. CallInv(c)
    BY <2>1 DEF At, CallInv, ExecutedInv, SignedInv, ErrorInv, ResultInv, Unanswered,
          Calls
  <2>4. /\ call' = [call EXCEPT ![t] = c]
        /\ remote' \subseteq Items /\ authorizer' = authorizer
    BY <1>1, <1>3 DEF Rest, Inv, TypeOK
  <2> HIDE DEF c
  <2> QED  BY <2>2, <2>3, <2>4, OneCall
<1> QED  BY <1>2, <1>3 DEF Refresh

LEMMA InvBuildMessage == ASSUME Inv, NEW t \in Threads, BuildMessage(t) PROVE Inv'
  BY ReturnsFacts DEF BuildMessage, Errors

LEMMA InvSign == ASSUME Inv, NEW t \in Threads, Sign(t) PROVE Inv'
<1>1. PICK n \in {0, 1} : call' = [call EXCEPT ![t].pc = "send", ![t].auth = @ + n]
  BY DEF Sign
<1> DEFINE c == [call[t] EXCEPT !.pc = "send", !.auth = @ + n]
<1>2. call[t] \in Calls /\ CallInv(call[t]) /\ At(t, "sign")
  BY DEF Inv, TypeOK, Sign
<1>3. c.auth \in 0 .. MaxLimited + 1
  BY <1>2 DEF At, CallInv, ExecutedInv, SignedInv, ErrorInv, ResultInv, Unanswered, Calls
<1>4. c \in Calls
  BY <1>2, <1>3 DEF Calls, Labels
<1>5. CallInv(c)
  BY <1>2 DEF At, CallInv, ExecutedInv, SignedInv, ErrorInv, ResultInv, Unanswered, Calls
<1>6. /\ call' = [call EXCEPT ![t] = c]
      /\ remote' \subseteq Items /\ authorizer' = authorizer
  BY <1>1 DEF Sign, Rest, Inv, TypeOK
<1> HIDE DEF c
<1> QED  BY <1>4, <1>5, <1>6, OneCall

LEMMA InvCutShort == ASSUME Inv, NEW t \in Threads, CutShort(t) PROVE Inv'
<1> DEFINE c == [call[t] EXCEPT !.pc = "answer", !.status = "limited",
                               !.error = SetError(@), !.cut = TRUE]
<1>1. call[t] \in Calls /\ CallInv(call[t])
  BY DEF Inv, TypeOK
<1>2. c \in Calls
  BY <1>1 DEF CutShort, At, SetError, Calls, Labels, Statuses, Bodies, Errors
<1>3. CallInv(c)
  BY <1>1 DEF CutShort, At, SetError, CallInv, ExecutedInv, SignedInv, ErrorInv,
        ResultInv, Unanswered, Calls
<1>4. /\ call' = [call EXCEPT ![t] = c]
      /\ remote' \subseteq Items /\ authorizer' = authorizer
  BY DEF CutShort, Rest, Inv, TypeOK
<1> HIDE DEF c
<1> QED  BY <1>2, <1>3, <1>4, OneCall

LEMMA InvSendFails == ASSUME Inv, NEW t \in Threads, SendFails(t) PROVE Inv'
<1> DEFINE c == [call[t] EXCEPT !.pc = "answer", !.error = SetError(@)]
<1>1. call[t] \in Calls /\ CallInv(call[t])
  BY DEF Inv, TypeOK
<1>2. c \in Calls
  BY <1>1 DEF SendFails, At, SetError, Calls, Labels, Statuses, Bodies, Errors
<1>3. CallInv(c)
  BY <1>1 DEF SendFails, At, SetError, CallInv, ExecutedInv, SignedInv, ErrorInv,
        ResultInv, Unanswered, Calls
<1>4. /\ call' = [call EXCEPT ![t] = c]
      /\ remote' \subseteq Items /\ authorizer' = authorizer
  BY DEF SendFails, Rest, Inv, TypeOK
<1> HIDE DEF c
<1> QED  BY <1>2, <1>3, <1>4, OneCall

LEMMA InvRateLimit == ASSUME Inv, NEW t \in Threads, RateLimit(t) PROVE Inv'
<1> DEFINE c == [call[t] EXCEPT !.pc = "sleep", !.limited = @ + 1,
                               !.status = "none", !.body = "none"]
<1>1. /\ call[t] \in Calls /\ CallInv(call[t]) /\ At(t, "answer")
      /\ call[t].status = "limited"
  BY DEF Inv, TypeOK, RateLimit, MustWait
<1>2. call[t].executed = 0 /\ call[t].limited < MaxLimited
  BY <1>1 DEF CallInv, ExecutedInv
<1>3. c.limited \in 0 .. MaxLimited
  BY <1>1, <1>2 DEF Calls
<1>4. c \in Calls
  BY <1>1, <1>3 DEF Calls, Labels, Statuses, Bodies
<1>5. call[t].op.send \in {"read", "parse"}
  BY <1>1, OperationTraits DEF Calls, Traits
<1>6. ExecutedInv(c) /\ ResultInv(c)
  BY <1>1, <1>2 DEF At, CallInv, ExecutedInv, ResultInv, Unanswered, Calls
<1>7. SignedInv(c)
  BY <1>1 DEF At, CallInv, SignedInv, Calls
<1>8. ErrorInv(c)
  BY <1>1 DEF At, CallInv, ErrorInv, Unanswered, Calls
<1>9. /\ call' = [call EXCEPT ![t] = c]
      /\ remote' \subseteq Items /\ authorizer' = authorizer
  BY <1>2 DEF RateLimit, Rest, Inv, TypeOK
<1> HIDE DEF c
<1> QED  BY <1>4, <1>6, <1>7, <1>8, <1>9, OneCall DEF CallInv

LEMMA InvWakeUp == ASSUME Inv, NEW t \in Threads, WakeUp(t) PROVE Inv'
<1> DEFINE c == [call[t] EXCEPT !.pc = RetryAt(call[t].op),
                               !.cancelled = IF @ = "no" THEN @ ELSE "early"]
<1>1. call[t] \in Calls /\ CallInv(call[t])
  BY DEF Inv, TypeOK
<1>2. c \in Calls
  BY <1>1 DEF WakeUp, At, RetryAt, Calls, Labels, Statuses, Bodies, Errors
<1>3. CallInv(c)
  BY <1>1 DEF WakeUp, At, RetryAt, CallInv, ExecutedInv, SignedInv, ErrorInv, ResultInv,
        Unanswered, Calls
<1>4. /\ call' = [call EXCEPT ![t] = c]
      /\ remote' \subseteq Items /\ authorizer' = authorizer
  BY DEF WakeUp, Rest, Inv, TypeOK
<1> HIDE DEF c
<1> QED  BY <1>2, <1>3, <1>4, OneCall

(* An answer the server gives to a call that it has been sent.             *)
LEMMA AnsweredFacts ==
  ASSUME Inv, NEW t \in Threads, At(t, "send"), Rest,
         NEW status \in Statuses \ {"none", "ok"}, NEW body \in Refusals,
         status = "limited" => call[t].limited < MaxLimited,
         Answered(t, status, body)
  PROVE  Inv'
<1> USE DEF Refusals
<1> DEFINE c == [call[t] EXCEPT !.pc = "answer", !.status = status, !.body = body]
<1>1. call[t] \in Calls /\ CallInv(call[t])
  BY DEF Inv, TypeOK
<1>2. c \in Calls
  BY <1>1 DEF Calls, Labels, Bodies
<1>3. CallInv(c)
  BY <1>1 DEF At, CallInv, ExecutedInv, SignedInv, ErrorInv, ResultInv, Unanswered, Calls
<1>4. /\ call' = [call EXCEPT ![t] = c]
      /\ remote' \subseteq Items /\ authorizer' = authorizer
  BY DEF Answered, Rest, Inv, TypeOK
<1> HIDE DEF c
<1> QED  BY <1>2, <1>3, <1>4, OneCall

LEMMA InvServerRefuses == ASSUME Inv, NEW t \in Threads, ServerRefuses(t) PROVE Inv'
  BY AnsweredFacts DEF ServerRefuses, Statuses

LEMMA InvServerLimits == ASSUME Inv, NEW t \in Threads, ServerLimits(t) PROVE Inv'
  BY AnsweredFacts DEF ServerLimits, Statuses, Refusals

LEMMA InvServerExecutes == ASSUME Inv, NEW t \in Threads, ServerExecutes(t) PROVE Inv'
<1>1. /\ call[t] \in Calls /\ CallInv(call[t]) /\ At(t, "send")
      /\ remote' \subseteq Items /\ authorizer' = authorizer
  BY DEF Inv, TypeOK, ServerExecutes
<1>2. ASSUME NEW body \in {"other", "item", "object"},
             call' = [call EXCEPT ![t].pc = "answer", ![t].executed = @ + 1,
                                  ![t].status = "ok", ![t].body = body]
      PROVE  Inv'
  <2> DEFINE c == [call[t] EXCEPT !.pc = "answer", !.executed = @ + 1,
                                  !.status = "ok", !.body = body]
  <2>1. c \in Calls
    <3>1. call[t].executed = 0
      BY <1>1 DEF At, CallInv, ExecutedInv, Unanswered
    <3>2. c.executed \in 0 .. MaxLimited + 1
      BY <1>1, <3>1 DEF Calls
    <3> QED  BY <1>1, <3>2 DEF Calls, Labels, Statuses, Bodies
  <2>2. CallInv(c)
    BY <1>1 DEF At, CallInv, ExecutedInv, SignedInv, ErrorInv, ResultInv, Unanswered,
          Calls
  <2>3. call' = [call EXCEPT ![t] = c]
    BY <1>2 DEF Inv, TypeOK
  <2> HIDE DEF c
  <2> QED  BY <1>1, <2>1, <2>2, <2>3, OneCall
<1>3. ASSUME NEW status \in {"none", "ok"},
             call' = [call EXCEPT ![t].pc = "answer", ![t].executed = @ + 1,
                                  ![t].error = SetError(@), ![t].status = status]
      PROVE  Inv'
  <2> DEFINE c == [call[t] EXCEPT !.pc = "answer", !.executed = @ + 1,
                                  !.error = SetError(@), !.status = status]
  <2>1. c \in Calls
    <3>1. call[t].executed = 0
      BY <1>1 DEF At, CallInv, ExecutedInv, Unanswered
    <3>2. c.executed \in 0 .. MaxLimited + 1
      BY <1>1, <3>1 DEF Calls
    <3> QED  BY <1>1, <3>2 DEF SetError, Calls, Labels, Statuses, Errors
  <2>2. CallInv(c)
    BY <1>1 DEF At, SetError, CallInv, ExecutedInv, SignedInv, ErrorInv, ResultInv,
          Unanswered, Calls
  <2>3. call' = [call EXCEPT ![t] = c]
    BY <1>3 DEF Inv, TypeOK
  <2> HIDE DEF c
  <2> QED  BY <1>1, <2>1, <2>2, <2>3, OneCall
<1> QED  BY <1>2, <1>3 DEF ServerExecutes

(* A result was executed, and goes with no error; a failure leaves one, or *)
(* is one of those known to leave none.                                    *)
LEMMA InvFinish == ASSUME Inv, NEW t \in Threads, Finish(t) PROVE Inv'
<1>1. call[t] \in Calls /\ CallInv(call[t]) /\ At(t, "answer") /\ Rest
  BY DEF Inv, TypeOK, Finish
<1>2. CASE Succeeds(call[t])
  <2>1. Returns(t, "true", call[t].error) /\ call[t].error \in Errors
    BY <1>1, <1>2 DEF Finish, Calls
  <2>2. call[t].body # "none"
    BY <1>1, <1>2, SucceedsFacts
  <2>3. call[t].op.needs # "bytes" => call[t].executed = 1
    BY <1>1, <1>2, <2>2, SucceedsFacts DEF At, CallInv, ExecutedInv
  <2>4. ~call[t].cut => call[t].error = "unset"
    BY <1>1, <2>2 DEF At, CallInv, ErrorInv
  <2> QED  BY <1>1, <2>1, <2>3, <2>4, ReturnsFacts
<1>3. CASE ~Succeeds(call[t])
  <2> DEFINE e == FailsWith(call[t])
  <2>1. Returns(t, "false", e)
    BY <1>3 DEF Finish
  <2>2. e \in Errors
    BY <1>1 DEF FailsWith, SetError, Calls, Errors
  <2>3. ASSUME ~call[t].cut
        PROVE  e # "unset" /\ (e = "again" => call[t].op.needs = "status")
    <3>1. call[t].error = IF call[t].body = "none" THEN "set" ELSE "unset"
      BY <1>1, <2>3 DEF At, CallInv, ErrorInv
    <3>2. CASE call[t].body = "none"
      BY <3>1, <3>2 DEF FailsWith, SetError
    <3>3. CASE call[t].body # "none" /\ call[t].op.needs = "status" /\ call[t].status = "ok"
      <4>1. Succeeds(call[t])
        BY <1>1, <3>1, <3>3 DEF Succeeds, Accepted, Calls, Bodies
      <4> QED  BY <1>3, <4>1
    <3>4. CASE call[t].body # "none" /\ ~(call[t].op.needs = "status" /\ call[t].status = "ok")
      BY <3>1, <3>4 DEF FailsWith, SetError
    <3> QED  BY <3>2, <3>3, <3>4
  <2> HIDE DEF e
  <2> QED  BY <1>1, <2>1, <2>2, <2>3, ReturnsFacts
<1> QED  BY <1>2, <1>3

-----------------------------------------------------------------------------
THEOREM InvStep == Inv /\ [Next]_vars => Inv'
<1> SUFFICES ASSUME Inv, [Next]_vars PROVE Inv'
  OBVIOUS
<1>1. CASE UNCHANGED vars
  <2>1. call' = call /\ remote' = remote /\ authorizer' = authorizer
    BY <1>1 DEF vars
  <2> QED
    BY <2>1 DEF Inv, TypeOK, CallInv, ExecutedInv, SignedInv, ErrorInv, ResultInv
<1>2. ASSUME NEW t \in Threads, Start(t) \/ Cancel(t) PROVE Inv'
  BY <1>2, InvStart, InvCancel
<1>3. ASSUME NEW t \in Threads, Server(t) PROVE Inv'
  BY <1>3, InvServerExecutes, InvServerRefuses, InvServerLimits, InvCutShort,
     InvSendFails DEF Server
<1>4. ASSUME NEW t \in Threads, Step(t) PROVE Inv'
  BY <1>4, InvRefresh, InvBuildMessage, InvSign, InvRateLimit, InvWakeUp,
        InvFinish DEF Step
<1> QED  BY <1>1, <1>2, <1>3, <1>4 DEF Next

THEOREM Invariance == Spec => []Inv
  BY InvInit, InvStep, PTL DEF Spec

(* A call's locals stay in their ranges, whatever its operation goes       *)
(* through: limited <= MaxLimited, auth and executed <= MaxLimited + 1.    *)
THEOREM TypeCorrect == Spec => []TypeOK
<1>1. Inv => TypeOK
  BY DEF Inv
<1> QED  BY <1>1, Invariance, PTL

(* Across refusals, rate limits, cancellations and lost answers, an        *)
(* operation that looks at its answer returns a result only if the server  *)
(* carried it out in this very call (the operations of MsgDriveService,    *)
(* MsgMailService and MsgUserService over the three kinds of sending).     *)
THEOREM ResultsExecuted == Spec => []ItemMeansExecuted
<1>1. Inv => ItemMeansExecuted
  BY DEF Inv, CallInv, ResultInv, ItemMeansExecuted
<1> QED  BY <1>1, Invariance, PTL

(* The retries of msg_service_handle_rate_limiting never have the server   *)
(* carry an operation out twice, however often it limits the rate.         *)
THEOREM NeverTwice == Spec => []AtMostOnce
<1>1. Inv => AtMostOnce
  BY DEF Inv, CallInv, ExecutedInv, AtMostOnce
<1> QED  BY <1>1, Invariance, PTL

(* The error a caller of any operation finds agrees with the result it is  *)
(* given, unless an answer 429 was cut short (msg_service_send and its     *)
(* callers).                                                               *)
THEOREM ErrorsAgree == Spec => []ErrorMeansFailure
<1>1. Inv => ErrorMeansFailure
  BY DEF Inv, CallInv, ErrorInv, ErrorMeansFailure
<1> QED  BY <1>1, Invariance, PTL

(* A message sent again by send or send_and_read carries at most one       *)
(* Authorization header, however often the server limits the rate.         *)
THEOREM Signatures == Spec => []RetryKeepsSignature
<1>1. ASSUME Inv PROVE RetryKeepsSignature
  <2> SUFFICES ASSUME NEW t \in Threads, call[t].op.send = "read"
               PROVE  call[t].auth <= 1
    BY DEF RetryKeepsSignature
  <2>1. call[t] \in Calls /\ SignedInv(call[t])
    BY <1>1 DEF Inv, TypeOK, CallInv
  <2> QED  BY <2>1 DEF SignedInv, Calls
<1> QED  BY <1>1, Invariance, PTL
=============================================================================
