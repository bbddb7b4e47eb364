-------------------------- MODULE OAuth2Authorizer --------------------------
(***************************************************************************)
(* MsgOAuth2Authorizer (src/msg-oauth2-authorizer.c): one authorizer       *)
(* object shared by the threads of an application.  Each thread runs one   *)
(* call at a time; a call is cut into the steps between which another      *)
(* thread can observe or change the object.  The two tokens are protected  *)
(* by a mutex, except that refresh_authorization, the request it builds    *)
(* and the validation of its answer read refresh_token without it.         *)
(***************************************************************************)
CONSTANTS Threads,       \* threads that share the authorizer
          Nobody,        \* the mutex is free
          AccessTokens,  \* non-empty access tokens the server may grant
          RefreshTokens, \* non-empty refresh tokens
          Empty,         \* the empty string, in a member of the answer
          NULL,          \* no string
          SetTokens      \* what the application passes to set_refresh_token

ASSUME ConstantsAssumption ==
  /\ Nobody \notin Threads
  /\ NULL \notin AccessTokens \cup RefreshTokens \cup {Empty}
  /\ Empty \notin AccessTokens
  /\ SetTokens \subseteq RefreshTokens \cup {Empty, NULL}

VARIABLES mutex,        \* priv->mutex: the thread that holds it, or Nobody
          accessToken,  \* priv->access_token
          refreshToken, \* priv->refresh_token
          freed,        \* priv->refresh_token points to a freed string
          op, pc,       \* per thread: the call it runs and where it stands
          held,         \* per thread: state of the string it reads unlocked
          grant,        \* per thread: access_token, refresh_token of the answer
          childError,   \* per thread: child_error of parse_grant_response is set
          arg,          \* per thread: argument of set_refresh_token
          header,       \* per thread: token in the Authorization header, or NULL
          result        \* per thread: what its last call returned

store  == <<accessToken, refreshToken, freed>>
locals == <<held, grant, childError, arg, header, result>>
vars   == <<mutex, accessToken, refreshToken, freed, op, pc, held, grant,
            childError, arg, header, result>>

RefreshStrings == RefreshTokens \cup {Empty}
Members == [access  : AccessTokens \cup {Empty, NULL},
            refresh : RefreshStrings \cup {NULL}]
NoGrant == [access |-> NULL, refresh |-> NULL]

GrantOps == {"refresh_authorization", "request_authorization"}
LockOps == GrantOps \cup {"process_request", "set_refresh_token", "dup_refresh_token"}

(* Where each call stands once it owns the mutex. *)
Critical == {"storeAccess", "freeRefresh", "storeRefresh", "sign", "compare",
             "clearRefresh", "storeSet", "dup", "unlock"}
Labels == Critical \cup {"idle", "check", "build", "encode", "send",
                         "validate", "lock", "notify", "return"}

TypeOK ==
  /\ mutex \in Threads \cup {Nobody}
  /\ accessToken \in AccessTokens \cup {NULL}
  /\ refreshToken \in RefreshStrings \cup {NULL}
  /\ freed \in BOOLEAN
  /\ op \in [Threads -> LockOps \cup {"none"}]
  /\ pc \in [Threads -> Labels]
  /\ held \in [Threads -> {"none", "live", "freed"}]
  /\ grant \in [Threads -> Members]
  /\ childError \in [Threads -> BOOLEAN]
  /\ arg \in [Threads -> RefreshStrings \cup {NULL}]
  /\ header \in [Threads -> AccessTokens \cup {NULL}]
  /\ result \in [Threads -> {"none", "true", "error", "false"}]

(* A new authorizer has no token; the tests start from a saved one. *)
Init ==
  /\ mutex = Nobody
  /\ accessToken = NULL
  /\ refreshToken \in RefreshTokens \cup {NULL}
  /\ freed = FALSE
  /\ op = [t \in Threads |-> "none"]
  /\ pc = [t \in Threads |-> "idle"]
  /\ held = [t \in Threads |-> "none"]
  /\ grant = [t \in Threads |-> NoGrant]
  /\ childError = [t \in Threads |-> FALSE]
  /\ arg = [t \in Threads |-> NULL]
  /\ header = [t \in Threads |-> NULL]
  /\ result = [t \in Threads |-> "none"]

Goto(t, from, to) == pc[t] = from /\ pc' = [pc EXCEPT ![t] = to]

(* A thread whose unlocked read of the string is under way keeps a pointer *)
(* that dangles from the moment another thread frees the string.           *)
FreeRefreshString ==
  held' = [t \in Threads |-> IF held[t] = "live" THEN "freed" ELSE held[t]]

-----------------------------------------------------------------------------
(* A thread that runs no call starts one; when a call returns, its locals  *)
(* are gone and the caller has the result.                                 *)

Start(t, call, first) ==
  /\ Goto(t, "idle", first)
  /\ op' = [op EXCEPT ![t] = call]
  /\ result' = [result EXCEPT ![t] = "none"]
  /\ UNCHANGED <<mutex, store, held, grant, childError, header>>

Finish(t, from, res) ==
  /\ Goto(t, from, "idle")
  /\ op' = [op EXCEPT ![t] = "none"]
  /\ held' = [held EXCEPT ![t] = "none"]
  /\ grant' = [grant EXCEPT ![t] = NoGrant]
  /\ childError' = [childError EXCEPT ![t] = FALSE]
  /\ arg' = [arg EXCEPT ![t] = NULL]
  /\ header' = [header EXCEPT ![t] = NULL]
  /\ result' = [result EXCEPT ![t] = res]

StartRefresh(t) == Start(t, "refresh_authorization", "check") /\ UNCHANGED arg
StartRequest(t) == Start(t, "request_authorization", "send") /\ UNCHANGED arg
StartProcess(t) == Start(t, "process_request", "lock") /\ UNCHANGED arg
StartDup(t)     == Start(t, "dup_refresh_token", "lock") /\ UNCHANGED arg
StartSet(t) ==
  \E r \in SetTokens : /\ Start(t, "set_refresh_token", "lock")
                       /\ arg' = [arg EXCEPT ![t] = r]

NewCall(t) == \/ StartRefresh(t) \/ StartRequest(t) \/ StartProcess(t)
              \/ StartDup(t) \/ StartSet(t)

-----------------------------------------------------------------------------
(* refresh_authorization and build_authorization_message, outside the lock. *)

(* Without a refresh token: return FALSE, leaving *error alone. *)
CheckRefreshToken(t) ==
  /\ \/ refreshToken = NULL /\ Finish(t, "check", "false")
     \/ refreshToken # NULL /\ Goto(t, "check", "build") /\ UNCHANGED <<op, locals>>
  /\ UNCHANGED <<mutex, store>>

(* soup_form_encode is passed priv->refresh_token, read without the lock. *)
BuildMessage(t) ==
  /\ Goto(t, "build", "encode")
  /\ held' = [held EXCEPT ![t] = IF refreshToken = NULL THEN "none"
                                 ELSE IF freed THEN "freed" ELSE "live"]
  /\ UNCHANGED <<mutex, store, op, grant, childError, arg, header, result>>

(* soup_form_encode has read the string; the message goes out. *)
EncodeMessage(t) ==
  /\ Goto(t, "encode", "send")
  /\ held' = [held EXCEPT ![t] = "none"]
  /\ UNCHANGED <<mutex, store, op, grant, childError, arg, header, result>>

-----------------------------------------------------------------------------
(* The token endpoint.  No status is looked at: any body is parsed as a    *)
(* grant.  A body that is no JSON object leaves both locals NULL.          *)

Answer(t) ==
  /\ Goto(t, "send", "validate")
  /\ \E m \in Members : grant' = [grant EXCEPT ![t] = m]
  /\ UNCHANGED <<mutex, store, op, held, childError, arg, header, result>>

(* soup_session_send_and_read failed.  refresh_authorization hands its own *)
(* local_error to parse_grant_error and never sets the caller's error.     *)
TransportError(t) ==
  /\ Finish(t, "send", IF op[t] = "refresh_authorization" THEN "false" ELSE "error")
  /\ UNCHANGED <<mutex, store>>

-----------------------------------------------------------------------------
(* parse_grant_response. *)

(* Mutant: the check for the empty string is forgotten. *)
MissingNullOnly(s) == s = NULL

Missing(s) == s \in {NULL, Empty}

(* Mutant: any grant with an access token is accepted. *)
AcceptableWithoutRefresh(m) == ~Missing(m.access)

(* An access token is always required, a refresh token only when the       *)
(* authorizer has none; priv->refresh_token is read without the lock.      *)
Acceptable(m) ==
  ~Missing(m.access) /\ (Missing(m.refresh) => refreshToken # NULL)

(* Mutant: the error path does not reset the two locals. *)
ValidateGrantKeepsLocals(t) ==
  /\ Goto(t, "validate", "lock")
  /\ childError' = [childError EXCEPT ![t] = ~Acceptable(grant[t])]
  /\ UNCHANGED <<mutex, store, op, held, grant, arg, header, result>>

ValidateGrant(t) ==
  /\ Goto(t, "validate", "lock")
  /\ \/ Acceptable(grant[t]) /\ UNCHANGED <<grant, childError>>
     \/ /\ ~Acceptable(grant[t])
        /\ grant' = [grant EXCEPT ![t] = NoGrant]
        /\ childError' = [childError EXCEPT ![t] = TRUE]
  /\ UNCHANGED <<mutex, store, op, held, arg, header, result>>

(* The access token is replaced also by a failed grant, which has none. *)
StoreAccess(t) ==
  /\ Goto(t, "storeAccess",
          IF grant[t].refresh = NULL THEN "unlock" ELSE "freeRefresh")
  /\ accessToken' = grant[t].access
  /\ UNCHANGED <<mutex, refreshToken, freed, op, locals>>

FreeRefresh(t) ==
  /\ Goto(t, "freeRefresh", "storeRefresh")
  /\ freed' = (refreshToken # NULL)
  /\ FreeRefreshString
  /\ UNCHANGED <<mutex, accessToken, refreshToken, op, grant, childError, arg,
                 header, result>>

StoreRefresh(t) ==
  /\ Goto(t, "storeRefresh", "unlock")
  /\ refreshToken' = grant[t].refresh
  /\ freed' = FALSE
  /\ UNCHANGED <<mutex, accessToken, op, locals>>

Return(t) ==
  /\ Finish(t, "return", IF childError[t] THEN "error" ELSE "true")
  /\ UNCHANGED <<mutex, store>>

-----------------------------------------------------------------------------
(* The mutex, and the calls that run under it as a whole. *)

FirstCritical == [o \in LockOps |->
  CASE o \in GrantOps           -> "storeAccess"
    [] o = "process_request"    -> "sign"
    [] o = "set_refresh_token"  -> "compare"
    [] o = "dup_refresh_token"  -> "dup"]

(* Mutant: process_request does not take the mutex. *)
LockUnlessSigning(t) ==
  /\ Goto(t, "lock", FirstCritical[op[t]])
  /\ \/ mutex = Nobody /\ mutex' = t
     \/ op[t] = "process_request" /\ UNCHANGED mutex
  /\ UNCHANGED <<store, op, locals>>

Lock(t) ==
  /\ mutex = Nobody
  /\ Goto(t, "lock", FirstCritical[op[t]])
  /\ mutex' = t
  /\ UNCHANGED <<store, op, locals>>

(* Mutant: the error path of a grant forgets to unlock. *)
UnlockUnlessError(t) ==
  /\ op[t] \in GrantOps
  /\ Goto(t, "unlock", "return")
  /\ mutex' = IF childError[t] THEN mutex ELSE Nobody
  /\ UNCHANGED <<store, op, locals>>

Unlock(t) ==
  /\ \/ /\ op[t] \in {"process_request", "dup_refresh_token"}
        /\ Finish(t, "unlock", "none")
     \/ /\ op[t] \in GrantOps
        /\ Goto(t, "unlock", "return") /\ UNCHANGED <<op, locals>>
     \/ /\ op[t] = "set_refresh_token"
        /\ Goto(t, "unlock", "notify") /\ UNCHANGED <<op, locals>>
  /\ mutex' = Nobody
  /\ UNCHANGED store

(* process_request: sign the message, unless it does not go over https. *)
SignMessage(t) ==
  /\ Goto(t, "sign", "unlock")
  /\ \E https \in BOOLEAN :
       header' = [header EXCEPT ![t] = IF https THEN accessToken ELSE NULL]
  /\ UNCHANGED <<mutex, store, op, held, grant, childError, arg, result>>

(* dup_refresh_token, and get_property for PROP_REFRESH_TOKEN. *)
DupRefreshToken(t) ==
  /\ Goto(t, "dup", "unlock")
  /\ UNCHANGED <<mutex, store, op, locals>>

(* Mutant: the early return forgets to unlock. *)
SetSameTokenLocked(t) ==
  /\ arg[t] = refreshToken
  /\ Finish(t, "compare", "none")
  /\ UNCHANGED <<mutex, store>>

(* set_refresh_token: setting the token it already has unlocks and returns *)
(* without a notification; otherwise the access token goes first.          *)
SetSameToken(t) ==
  /\ arg[t] = refreshToken
  /\ Finish(t, "compare", "none")
  /\ mutex' = Nobody
  /\ UNCHANGED store

(* Mutant: the old access token survives the change of refresh token. *)
ClearAccessForgotten(t) ==
  /\ arg[t] # refreshToken
  /\ Goto(t, "compare", "clearRefresh")
  /\ UNCHANGED <<mutex, store, op, locals>>

ClearAccess(t) ==
  /\ arg[t] # refreshToken
  /\ Goto(t, "compare", "clearRefresh")
  /\ accessToken' = NULL
  /\ UNCHANGED <<mutex, refreshToken, freed, op, locals>>

ClearRefresh(t) ==
  /\ Goto(t, "clearRefresh", "storeSet")
  /\ refreshToken' = NULL
  /\ FreeRefreshString
  /\ UNCHANGED <<mutex, accessToken, freed, op, grant, childError, arg, header,
                 result>>

StoreSetToken(t) ==
  /\ Goto(t, "storeSet", "unlock")
  /\ refreshToken' = arg[t]
  /\ UNCHANGED <<mutex, accessToken, freed, op, locals>>

(* g_object_notify runs the application's handlers in this thread, and a   *)
(* handler may read the property, which takes the mutex again.             *)
Notify(t) ==
  /\ \/ Finish(t, "notify", "none")
     \/ /\ Goto(t, "notify", "lock")
        /\ op' = [op EXCEPT ![t] = "dup_refresh_token"]
        /\ UNCHANGED locals
  /\ UNCHANGED <<mutex, store>>

-----------------------------------------------------------------------------
(* Steps the calling thread takes by itself, and steps of the network. *)
Step(t) ==
  \/ CheckRefreshToken(t) \/ BuildMessage(t) \/ EncodeMessage(t)
  \/ ValidateGrant(t) \/ StoreAccess(t) \/ FreeRefresh(t) \/ StoreRefresh(t)
  \/ Return(t) \/ Lock(t) \/ Unlock(t) \/ SignMessage(t) \/ DupRefreshToken(t)
  \/ SetSameToken(t) \/ ClearAccess(t) \/ ClearRefresh(t) \/ StoreSetToken(t)
  \/ Notify(t)

Network(t) == Answer(t) \/ TransportError(t)

Next == \E t \in Threads : NewCall(t) \/ Step(t) \/ Network(t)

(* A thread keeps running its call.  Nothing is assumed of the network, of *)
(* new calls, or of who gets a contended mutex.                            *)
Fairness == \A t \in Threads : WF_vars(Step(t))

Spec == Init /\ [][Next]_vars
FairSpec == Spec /\ Fairness
-----------------------------------------------------------------------------
(* The mutex is owned by exactly the threads between g_mutex_lock and      *)
(* g_mutex_unlock, the early return of set_refresh_token included: two     *)
(* calls never update or sign at once, and no call leaves the mutex locked.*)
MutualExclusion == \A t \in Threads : pc[t] \in Critical <=> mutex = t

(* The assertion of process_request: whenever a message is about to be     *)
(* signed, an access token comes with a refresh token, although the grant  *)
(* that stored it looked at refresh_token before it took the mutex.        *)
AccessNeedsRefresh ==
  \A t \in Threads :
    pc[t] = "sign" => (accessToken = NULL \/ refreshToken # NULL)

(* The postconditions parse_grant_response asserts, and their effect: when *)
(* the call gives the mutex back, the authorizer has both tokens if the    *)
(* call will return TRUE, and no access token if it will return an error.  *)
GrantHolds ==
  \A t \in Threads : op[t] \in GrantOps =>
    /\ pc[t] \in {"lock", "storeAccess"} =>
         /\ grant[t].refresh # NULL => grant[t].access # NULL
         /\ childError[t] <=> grant[t].access = NULL
    /\ pc[t] = "unlock" =>
         IF childError[t] THEN accessToken = NULL
                          ELSE accessToken # NULL /\ refreshToken # NULL

(* A message process_request leaves signed carries the token that is in    *)
(* force when the mutex is given back, never one that a concurrent grant   *)
(* or set_refresh_token has meanwhile replaced.                            *)
SignedInForce ==
  \A t \in Threads :
    op[t] = "process_request" /\ pc[t] = "unlock"
      => header[t] \in {NULL, accessToken}

(* Seen as atomic steps, the calls implement the token store: an update    *)
(* takes effect with its first write, and what its owner has still to      *)
(* write already counts.                                                   *)
EffectiveRefresh ==
  IF mutex \in Threads
  THEN CASE pc[mutex] \in {"freeRefresh", "storeRefresh"} -> grant[mutex].refresh
         [] pc[mutex] \in {"clearRefresh", "storeSet"}    -> arg[mutex]
         [] OTHER                                         -> refreshToken
  ELSE refreshToken

(* The application's change is under way from its first write to its last. *)
SettingRefresh == \E t \in Threads : pc[t] \in {"clearRefresh", "storeSet"}

Store == INSTANCE TokenStore WITH access <- accessToken, refresh <- EffectiveRefresh,
                                  setting <- SettingRefresh

(* In particular a refused grant never touches the refresh token, an       *)
(* access token is granted without a refresh token only to a session that  *)
(* has one, and a changed refresh token always voids the access token.     *)
StoreImplemented == Store!StoreSpec

(* If the application stops making calls, every call returns or is left    *)
(* waiting for the token endpoint: no path keeps the mutex, and a          *)
(* notification handler that reads the property does not deadlock.         *)
NoNewCall == \A t \in Threads : pc[t] = "idle" => pc'[t] = "idle"
CallsSettle ==
  <>[][NoNewCall]_vars => \A t \in Threads : <>[](pc[t] \in {"idle", "send"})

(* No thread reads the refresh token's string after another one freed it,  *)
(* which is what "This method is thread safe" says of refreshing.          *)
NoFreedRead == \A t \in Threads : pc[t] = "encode" => held[t] # "freed"
=============================================================================
