---------------------------- MODULE GoaAuthorizer ----------------------------
(***************************************************************************)
(* MsgGoaAuthorizer (src/msg-goa-authorizer.c): the tokens come from the   *)
(* GNOME Online Accounts service over D-Bus.  A refresh holds the mutex    *)
(* across both D-Bus calls, so that messages are signed either before it   *)
(* or after it, and its first step drops the token it is to replace.       *)
(***************************************************************************)
CONSTANTS Threads, \* threads that share the authorizer
          Nobody,  \* the mutex is free
          Tokens,  \* access tokens the service hands out
          NULL     \* no token

ASSUME GoaAssumption ==
  /\ Nobody \notin Threads /\ NULL \notin Tokens
  /\ \A k \in Tokens : Tokens # {k}

VARIABLES mutex,       \* priv->mutex: the thread that holds it, or Nobody
          accessToken, \* priv->access_token
          issued,      \* the service: the token it handed out last
          pc, op,      \* per thread: where it stands, and in which call
          ok,          \* per thread: ret_val of refresh_authorization
          header       \* per thread: token its message was signed with, or NULL

goaVars == <<mutex, accessToken, issued, pc, op, ok, header>>

Critical == {"clear", "ensure", "ask", "reply", "sign", "unlock"}
Labels   == Critical \cup {"idle", "lock", "returned"}

GoaTypeOK ==
  /\ mutex \in Threads \cup {Nobody}
  /\ accessToken \in Tokens \cup {NULL} /\ issued \in Tokens \cup {NULL}
  /\ pc \in [Threads -> Labels] /\ op \in [Threads -> {"refresh", "process"}]
  /\ ok \in [Threads -> BOOLEAN] /\ header \in [Threads -> Tokens \cup {NULL}]

GoaInit ==
  /\ mutex = Nobody /\ accessToken = NULL /\ issued = NULL
  /\ pc = [t \in Threads |-> "idle"] /\ op = [t \in Threads |-> "refresh"]
  /\ ok = [t \in Threads |-> FALSE] /\ header = [t \in Threads |-> NULL]

Goto(t, from, to) == pc[t] = from /\ pc' = [pc EXCEPT ![t] = to]

Start(t, call) ==
  /\ Goto(t, "idle", "lock")
  /\ op' = [op EXCEPT ![t] = call]
  /\ UNCHANGED <<mutex, accessToken, issued, ok, header>>

Lock(t) ==
  /\ mutex = Nobody
  /\ Goto(t, "lock", IF op[t] = "refresh" THEN "clear" ELSE "sign")
  /\ mutex' = t
  /\ UNCHANGED <<accessToken, issued, op, ok, header>>

(* process_request: a message goes out unsigned if there is no token. *)
ProcessMessage(t) ==
  /\ Goto(t, "sign", "unlock")
  /\ header' = [header EXCEPT ![t] = accessToken]
  /\ UNCHANGED <<mutex, accessToken, issued, op, ok>>

(* Mutant: a refresh that fails keeps the old token. *)
ClearTokenForgotten(t) ==
  /\ Goto(t, "clear", "ensure")
  /\ UNCHANGED <<mutex, accessToken, issued, op, ok, header>>

(* refresh_authorization. *)
ClearToken(t) ==
  /\ Goto(t, "clear", "ensure")
  /\ accessToken' = NULL
  /\ UNCHANGED <<mutex, issued, op, ok, header>>

(* goa_account_call_ensure_credentials_sync; it may fail, with an error. *)
EnsureCredentials(t) ==
  /\ Goto(t, "ensure", "ask") \/ Goto(t, "ensure", "unlock")
  /\ UNCHANGED <<mutex, accessToken, issued, op, ok, header>>

(* goa_oauth2_based_call_get_access_token_sync: the service makes a token  *)
(* when it handles the call, and the reply comes later, or an error does.  *)
ServiceIssues(t) ==
  /\ Goto(t, "ask", "reply")
  /\ issued' \in Tokens \ {issued}
  /\ UNCHANGED <<mutex, accessToken, op, ok, header>>

GetAccessToken(t) ==
  /\ Goto(t, "reply", "unlock")
  /\ accessToken' = issued
  /\ ok' = [ok EXCEPT ![t] = TRUE]
  /\ UNCHANGED <<mutex, issued, op, header>>

CallFails(t) ==
  /\ Goto(t, "ask", "unlock") \/ Goto(t, "reply", "unlock")
  /\ UNCHANGED <<mutex, accessToken, issued, op, ok, header>>

(* Mutant: the mutex is given up while the reply is awaited. *)
UnlockWhileWaiting(t) ==
  /\ pc[t] \in {"ask", "reply"}
  /\ mutex' = IF mutex = t THEN Nobody ELSE mutex
  /\ UNCHANGED <<accessToken, issued, pc, op, ok, header>>
UnlockEarly(t) ==
  \/ UnlockWhileWaiting(t)
  \/ /\ Goto(t, "unlock", "returned")
     /\ mutex' = IF mutex = t THEN Nobody ELSE mutex
     /\ UNCHANGED <<accessToken, issued, op, ok, header>>

(* Mutant: a refresh that fails returns without unlocking. *)
UnlockOnSuccess(t) ==
  /\ Goto(t, "unlock", "returned")
  /\ mutex' = IF op[t] = "process" \/ ok[t] THEN Nobody ELSE mutex
  /\ UNCHANGED <<accessToken, issued, op, ok, header>>

Unlock(t) ==
  /\ Goto(t, "unlock", "returned")
  /\ mutex' = Nobody
  /\ UNCHANGED <<accessToken, issued, op, ok, header>>

(* The caller has looked at what was returned. *)
Return(t) ==
  /\ Goto(t, "returned", "idle")
  /\ ok' = [ok EXCEPT ![t] = FALSE]
  /\ header' = [header EXCEPT ![t] = NULL]
  /\ UNCHANGED <<mutex, accessToken, issued, op>>

GoaStep(t) ==
  \/ Lock(t) \/ ProcessMessage(t) \/ ClearToken(t) \/ EnsureCredentials(t)
  \/ ServiceIssues(t) \/ GetAccessToken(t) \/ CallFails(t) \/ Unlock(t)

-----------------------------------------------------------------------------
(* A refresh that is about to return TRUE leaves a token, the one the      *)
(* service handed out last; one that fails leaves none.                    *)
RefreshTruthful ==
  \A t \in Threads : op[t] = "refresh" /\ pc[t] = "unlock" =>
    accessToken = IF ok[t] THEN issued ELSE NULL

(* A message is signed only with the token the service handed out last: a  *)
(* slow reply never overwrites the token of a later refresh.               *)
LatestToken ==
  /\ accessToken \in {NULL, issued}
  /\ \A t \in Threads :
       op[t] = "process" /\ pc[t] = "unlock" => header[t] \in {NULL, issued}
=============================================================================
