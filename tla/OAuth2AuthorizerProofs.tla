----------------------- MODULE OAuth2AuthorizerProofs -----------------------
(***************************************************************************)
(* Proofs about OAuth2Authorizer, for any number of threads and tokens.    *)
(***************************************************************************)
EXTENDS OAuth2Authorizer, TLAPS

-----------------------------------------------------------------------------
(* The inductive invariant.  MutualExclusion is one of its parts. *)

(* Which call a thread runs follows from where it stands. *)
CallAt == \A t \in Threads :
  /\ pc[t] \in {"check", "build", "encode", "send", "validate", "storeAccess",
                "freeRefresh", "storeRefresh", "return"} => op[t] \in GrantOps
  /\ pc[t] = "sign" => op[t] = "process_request"
  /\ pc[t] \in {"compare", "clearRefresh", "storeSet", "notify"}
       => op[t] = "set_refresh_token"
  /\ pc[t] = "dup" => op[t] = "dup_refresh_token"
  /\ pc[t] \in {"lock", "unlock"} => op[t] \in LockOps
  /\ op[t] = "set_refresh_token" /\ pc[t] # "idle" => arg[t] \in SetTokens

(* What the validated locals of a grant are, from the moment they are      *)
(* validated until the call returns.                                       *)
Validated(t) == op[t] \in GrantOps /\
  pc[t] \in {"lock", "storeAccess", "freeRefresh", "storeRefresh", "unlock"}

GrantLocals == \A t \in Threads :
  /\ pc[t] \in {"idle", "check", "build", "encode", "send", "validate"} => ~childError[t]
  /\ Validated(t) =>
       /\ grant[t].access # Empty
       /\ childError[t] <=> grant[t].access = NULL
       /\ grant[t].refresh # NULL => grant[t].access # NULL
       /\ pc[t] \in {"freeRefresh", "storeRefresh"} => grant[t].refresh # NULL
       /\ pc[t] \in {"freeRefresh", "storeRefresh", "unlock"}
            => accessToken = grant[t].access

(* The token a message was just signed with is in force. *)
Signed == \A t \in Threads :
  op[t] = "process_request" /\ pc[t] = "unlock" => header[t] \in {NULL, accessToken}

Inv == TypeOK /\ CallAt /\ MutualExclusion /\ GrantLocals /\ Signed

(* It holds of a new authorizer. *)
LEMMA InvInit == Init => Inv
<1> SUFFICES ASSUME Init PROVE Inv
  OBVIOUS
<1> USE DEF Init
<1>1. TypeOK
  BY DEF TypeOK, Labels, Members, NoGrant, RefreshStrings
<1>2. MutualExclusion
  BY ConstantsAssumption DEF MutualExclusion, Critical
<1>3. CallAt /\ GrantLocals /\ Signed
  BY DEF CallAt, GrantLocals, Validated, Signed, GrantOps
<1> QED  BY <1>1, <1>2, <1>3 DEF Inv

USE DEF Goto

(* A thread starts a call. *)
LEMMA InvNewCall ==
  ASSUME Inv, NEW t \in Threads, NewCall(t)
  PROVE  Inv'
<1> USE ConstantsAssumption DEF Inv, store, locals
<1>1. TypeOK'
  BY DEF NewCall, StartRefresh, StartRequest, StartProcess, StartDup, StartSet, Start,
         TypeOK, Labels, LockOps, GrantOps, RefreshStrings
<1>2. CallAt'
  BY DEF NewCall, StartRefresh, StartRequest, StartProcess, StartDup, StartSet, Start,
         TypeOK, CallAt, LockOps, GrantOps
<1>3. MutualExclusion'
  BY DEF NewCall, StartRefresh, StartRequest, StartProcess, StartDup, StartSet, Start,
         TypeOK, MutualExclusion, Critical
<1>4. GrantLocals'
  BY DEF NewCall, StartRefresh, StartRequest, StartProcess, StartDup, StartSet, Start,
         TypeOK, GrantLocals, Validated, GrantOps
<1>5. Signed'
  BY DEF NewCall, StartRefresh, StartRequest, StartProcess, StartDup, StartSet, Start,
         TypeOK, Signed
<1> QED  BY <1>1, <1>2, <1>3, <1>4, <1>5

(* What a returning call resets and returns is well typed. *)
LEMMA FinishTyped ==
  ASSUME TypeOK, NEW t \in Threads, NEW from,
         NEW res \in {"none", "true", "error", "false"},
         Finish(t, from, res)
  PROVE  /\ op' \in [Threads -> LockOps \cup {"none"}]
         /\ pc' \in [Threads -> Labels]
         /\ held' \in [Threads -> {"none", "live", "freed"}]
         /\ grant' \in [Threads -> Members]
         /\ childError' \in [Threads -> BOOLEAN]
         /\ arg' \in [Threads -> RefreshStrings \cup {NULL}]
         /\ header' \in [Threads -> AccessTokens \cup {NULL}]
         /\ result' \in [Threads -> {"none", "true", "error", "false"}]
  BY DEF Finish, TypeOK, Labels, Critical, Members, NoGrant, RefreshStrings

(* Steps of a call outside the mutex. *)
LEMMA InvUnlockedStep ==
  ASSUME Inv, NEW t \in Threads,
         \/ CheckRefreshToken(t) \/ BuildMessage(t) \/ EncodeMessage(t)
         \/ ValidateGrant(t) \/ Return(t) \/ Notify(t)
  PROVE  Inv'
<1> USE ConstantsAssumption DEF Inv, store, locals
<1>1. CASE CheckRefreshToken(t)
  <2> USE <1>1 DEF CheckRefreshToken
  <2>1. TypeOK'
    BY FinishTyped DEF TypeOK, Labels, Critical
  <2>2. CallAt'
    BY DEF TypeOK, CallAt, LockOps, GrantOps, Finish
  <2>3. MutualExclusion'
    BY DEF TypeOK, CallAt, MutualExclusion, Critical, Finish
  <2>4. GrantLocals'
    BY DEF TypeOK, CallAt, MutualExclusion, Critical, GrantLocals, Validated, GrantOps,
           NoGrant, Members, RefreshStrings, Finish
  <2>5. Signed'
    BY DEF TypeOK, CallAt, MutualExclusion, Critical, Signed, GrantOps, Finish
  <2> QED  BY <2>1, <2>2, <2>3, <2>4, <2>5
<1>2. CASE BuildMessage(t)
  <2> USE <1>2 DEF BuildMessage
  <2>1. TypeOK'
    BY DEF TypeOK, CallAt, GrantLocals, Validated, Labels, Critical, LockOps, GrantOps,
           Members, NoGrant, RefreshStrings
  <2>2. CallAt'
    BY DEF TypeOK, CallAt, LockOps, GrantOps
  <2>3. MutualExclusion'
    BY DEF TypeOK, CallAt, MutualExclusion, Critical
  <2>4. GrantLocals'
    BY DEF TypeOK, CallAt, MutualExclusion, Critical, GrantLocals, Validated, GrantOps,
           NoGrant, Members, RefreshStrings
  <2>5. Signed'
    BY DEF TypeOK, CallAt, MutualExclusion, Critical, Signed, GrantOps
  <2> QED  BY <2>1, <2>2, <2>3, <2>4, <2>5
<1>3. CASE EncodeMessage(t)
  <2> USE <1>3 DEF EncodeMessage
  <2>1. TypeOK'
    BY DEF TypeOK, CallAt, GrantLocals, Validated, Labels, Critical, LockOps, GrantOps,
           Members, NoGrant, RefreshStrings
  <2>2. CallAt'
    BY DEF TypeOK, CallAt, LockOps, GrantOps
  <2>3. MutualExclusion'
    BY DEF TypeOK, CallAt, MutualExclusion, Critical
  <2>4. GrantLocals'
    BY DEF TypeOK, CallAt, MutualExclusion, Critical, GrantLocals, Validated, GrantOps,
           NoGrant, Members, RefreshStrings
  <2>5. Signed'
    BY DEF TypeOK, CallAt, MutualExclusion, Critical, Signed, GrantOps
  <2> QED  BY <2>1, <2>2, <2>3, <2>4, <2>5
<1>4. CASE ValidateGrant(t)
  <2> USE <1>4 DEF ValidateGrant, Acceptable, Missing
  <2>1. TypeOK'
    <3>1. NoGrant \in Members /\ grant[t] \in Members
      BY DEF TypeOK, Members, NoGrant, RefreshStrings
    <3>2. CASE Acceptable(grant[t])
      BY <3>2 DEF TypeOK, Labels, Critical
    <3>3. CASE ~Acceptable(grant[t])
      <4>1. grant' \in [Threads -> Members]
        BY <3>1, <3>3 DEF TypeOK
      <4>2. childError' \in [Threads -> BOOLEAN]
        BY <3>3 DEF TypeOK
      <4> QED  BY <4>1, <4>2, <3>3 DEF TypeOK, Labels, Critical
    <3> QED  BY <3>2, <3>3
  <2>2. CallAt'
    BY DEF TypeOK, CallAt, LockOps, GrantOps
  <2>3. MutualExclusion'
    BY DEF TypeOK, CallAt, MutualExclusion, Critical
  <2>4. GrantLocals'
    <3>1. grant[t].access = NULL \/ grant[t].access \in AccessTokens
              \/ grant[t].access = Empty
      BY DEF TypeOK, Members
    <3>2. ~childError[t]
      BY DEF GrantLocals
    <3>3. CASE Acceptable(grant[t])
      BY <3>1, <3>2, <3>3
      DEF TypeOK, CallAt, MutualExclusion, Critical, GrantLocals, Validated
    <3>4. CASE ~Acceptable(grant[t])
      <4>1. grant'[t] = NoGrant /\ childError'[t]
        BY <3>4 DEF TypeOK
      <4>2. \A u \in Threads \ {t} : grant'[u] = grant[u] /\ childError'[u] = childError[u]
                                     /\ pc'[u] = pc[u] /\ op'[u] = op[u]
        BY <3>4 DEF TypeOK
      <4> QED  BY <4>1, <4>2, <3>4 DEF TypeOK, GrantLocals, Validated, NoGrant
    <3> QED  BY <3>3, <3>4
  <2>5. Signed'
    BY DEF TypeOK, CallAt, MutualExclusion, Critical, Signed, GrantOps
  <2> QED  BY <2>1, <2>2, <2>3, <2>4, <2>5
<1>5. CASE Return(t)
  <2> USE <1>5 DEF Return
  <2>1. TypeOK'
    <3>1. CASE childError[t]
      BY <3>1, FinishTyped DEF TypeOK
    <3>2. CASE ~childError[t]
      BY <3>2, FinishTyped DEF TypeOK
    <3> QED  BY <3>1, <3>2
  <2>2. CallAt'
    BY DEF TypeOK, CallAt, LockOps, GrantOps, Finish
  <2>3. MutualExclusion'
    BY DEF TypeOK, CallAt, MutualExclusion, Critical, Finish
  <2>4. GrantLocals'
    BY DEF TypeOK, CallAt, MutualExclusion, Critical, GrantLocals, Validated, GrantOps,
           NoGrant, Members, RefreshStrings, Finish
  <2>5. Signed'
    BY DEF TypeOK, CallAt, MutualExclusion, Critical, Signed, GrantOps, Finish
  <2> QED  BY <2>1, <2>2, <2>3, <2>4, <2>5
<1>6. CASE Notify(t)
  <2> USE <1>6 DEF Notify
  <2>1. TypeOK'
    BY FinishTyped DEF TypeOK, Labels, Critical, LockOps, GrantOps
  <2>2. CallAt'
    BY DEF TypeOK, CallAt, LockOps, GrantOps, Finish
  <2>3. MutualExclusion'
    BY DEF TypeOK, CallAt, MutualExclusion, Critical, Finish
  <2>4. GrantLocals'
    BY DEF TypeOK, CallAt, MutualExclusion, Critical, GrantLocals, Validated, GrantOps,
           NoGrant, Members, RefreshStrings, Finish
  <2>5. Signed'
    BY DEF TypeOK, CallAt, MutualExclusion, Critical, Signed, GrantOps, Finish
  <2> QED  BY <2>1, <2>2, <2>3, <2>4, <2>5
<1> QED  BY <1>1, <1>2, <1>3, <1>4, <1>5, <1>6

(* Steps of the token endpoint. *)
LEMMA InvNetwork ==
  ASSUME Inv, NEW t \in Threads, Answer(t) \/ TransportError(t)
  PROVE  Inv'
<1> USE ConstantsAssumption DEF Inv, store, locals
<1>1. CASE Answer(t)
  <2> USE <1>1 DEF Answer
  <2>1. TypeOK'
    BY DEF TypeOK, CallAt, GrantLocals, Validated, Labels, Critical, LockOps, GrantOps,
           Members, NoGrant, RefreshStrings
  <2>2. CallAt'
    BY DEF TypeOK, CallAt, LockOps, GrantOps
  <2>3. MutualExclusion'
    BY DEF TypeOK, CallAt, MutualExclusion, Critical
  <2>4. GrantLocals'
    BY DEF TypeOK, CallAt, MutualExclusion, Critical, GrantLocals, Validated, GrantOps,
           NoGrant, Members, RefreshStrings
  <2>5. Signed'
    BY DEF TypeOK, CallAt, MutualExclusion, Critical, Signed, GrantOps
  <2> QED  BY <2>1, <2>2, <2>3, <2>4, <2>5
<1>2. CASE TransportError(t)
  <2> USE <1>2 DEF TransportError
  <2>1. TypeOK'
    <3>1. CASE op[t] = "refresh_authorization"
      BY <3>1, FinishTyped DEF TypeOK
    <3>2. CASE op[t] # "refresh_authorization"
      BY <3>2, FinishTyped DEF TypeOK
    <3> QED  BY <3>1, <3>2
  <2>2. CallAt'
    BY DEF TypeOK, CallAt, LockOps, GrantOps, Finish
  <2>3. MutualExclusion'
    BY DEF TypeOK, CallAt, MutualExclusion, Critical, Finish
  <2>4. GrantLocals'
    BY DEF TypeOK, CallAt, MutualExclusion, Critical, GrantLocals, Validated, GrantOps,
           NoGrant, Members, RefreshStrings, Finish
  <2>5. Signed'
    BY DEF TypeOK, CallAt, MutualExclusion, Critical, Signed, GrantOps, Finish
  <2> QED  BY <2>1, <2>2, <2>3, <2>4, <2>5
<1> QED  BY <1>1, <1>2

(* Taking the mutex and giving it back. *)
LEMMA InvLocking ==
  ASSUME Inv, NEW t \in Threads, Lock(t) \/ Unlock(t) \/ SetSameToken(t)
  PROVE  Inv'
<1> USE ConstantsAssumption DEF Inv, store, locals
<1>1. CASE Lock(t)
  <2> USE <1>1 DEF Lock
  <2>1. TypeOK'
    BY DEF TypeOK, CallAt, FirstCritical, Labels, Critical, LockOps, GrantOps
  <2>2. CallAt'
    BY DEF TypeOK, CallAt, FirstCritical, LockOps, GrantOps
  <2>3. /\ op[t] \in LockOps
        /\ FirstCritical[op[t]] \in {"storeAccess", "sign", "compare", "dup"}
        /\ op[t] \in GrantOps => FirstCritical[op[t]] = "storeAccess"
    BY DEF CallAt, FirstCritical, LockOps, GrantOps
  <2>4. /\ pc[t] = "lock" /\ pc'[t] \in {"storeAccess", "sign", "compare", "dup"}
        /\ op[t] \in GrantOps => pc'[t] = "storeAccess"
        /\ \A u \in Threads \ {t} : pc'[u] = pc[u]
        /\ mutex = Nobody /\ mutex' = t
        /\ UNCHANGED <<op, grant, childError, accessToken, header>>
    BY <2>3 DEF TypeOK
  <2>5. MutualExclusion'
    BY <2>4 DEF MutualExclusion, Critical
  <2>6. GrantLocals' /\ Signed'
    BY <2>4 DEF GrantLocals, Validated, Signed
  <2> QED  BY <2>1, <2>2, <2>5, <2>6
<1>2. CASE Unlock(t)
  <2> USE <1>2 DEF Unlock
  <2>1. TypeOK'
    BY FinishTyped DEF TypeOK, Labels, Critical
  <2>2. CallAt'
    BY DEF TypeOK, CallAt, LockOps, GrantOps, Finish
  <2>3. MutualExclusion'
    BY DEF TypeOK, CallAt, MutualExclusion, Critical, Finish
  <2>4. GrantLocals'
    BY DEF TypeOK, CallAt, MutualExclusion, Critical, GrantLocals, Validated, GrantOps,
           NoGrant, Members, RefreshStrings, Finish
  <2>5. Signed'
    BY DEF TypeOK, CallAt, MutualExclusion, Critical, Signed, GrantOps, Finish
  <2> QED  BY <2>1, <2>2, <2>3, <2>4, <2>5
<1>3. CASE SetSameToken(t)
  <2> USE <1>3 DEF SetSameToken
  <2>1. TypeOK'
    BY FinishTyped DEF TypeOK, Labels, Critical
  <2>2. CallAt'
    BY DEF TypeOK, CallAt, LockOps, GrantOps, Finish
  <2>3. MutualExclusion'
    BY DEF TypeOK, CallAt, MutualExclusion, Critical, Finish
  <2>4. GrantLocals'
    BY DEF TypeOK, CallAt, MutualExclusion, Critical, GrantLocals, Validated, GrantOps,
           NoGrant, Members, RefreshStrings, Finish
  <2>5. Signed'
    BY DEF TypeOK, CallAt, MutualExclusion, Critical, Signed, GrantOps, Finish
  <2> QED  BY <2>1, <2>2, <2>3, <2>4, <2>5
<1> QED  BY <1>1, <1>2, <1>3

(* Steps of the thread that owns the mutex. *)
LEMMA InvCritical ==
  ASSUME Inv, NEW t \in Threads,
         \/ StoreAccess(t) \/ FreeRefresh(t) \/ StoreRefresh(t) \/ SignMessage(t)
         \/ DupRefreshToken(t) \/ ClearAccess(t) \/ ClearRefresh(t) \/ StoreSetToken(t)
  PROVE  Inv'
<1> USE ConstantsAssumption DEF Inv, store, locals
<1>1. CASE StoreAccess(t)
  <2> USE <1>1 DEF StoreAccess
  <2>1. TypeOK'
    BY DEF TypeOK, CallAt, GrantLocals, Validated, Labels, Critical, LockOps, GrantOps,
           Members, NoGrant, RefreshStrings
  <2>2. CallAt'
    BY DEF TypeOK, CallAt, LockOps, GrantOps
  <2>3. MutualExclusion'
    BY DEF TypeOK, CallAt, MutualExclusion, Critical
  <2>4. GrantLocals'
    BY DEF TypeOK, CallAt, MutualExclusion, Critical, GrantLocals, Validated, GrantOps,
           NoGrant, Members, RefreshStrings
  <2>5. Signed'
    BY DEF TypeOK, CallAt, MutualExclusion, Critical, Signed, GrantOps
  <2> QED  BY <2>1, <2>2, <2>3, <2>4, <2>5
<1>2. CASE FreeRefresh(t)
  <2> USE <1>2 DEF FreeRefresh, FreeRefreshString
  <2>1. TypeOK'
    BY DEF TypeOK, CallAt, GrantLocals, Validated, Labels, Critical, LockOps, GrantOps,
           Members, NoGrant, RefreshStrings
  <2>2. CallAt'
    BY DEF TypeOK, CallAt, LockOps, GrantOps
  <2>3. MutualExclusion'
    BY DEF TypeOK, CallAt, MutualExclusion, Critical
  <2>4. GrantLocals'
    BY DEF TypeOK, CallAt, MutualExclusion, Critical, GrantLocals, Validated, GrantOps,
           NoGrant, Members, RefreshStrings
  <2>5. Signed'
    BY DEF TypeOK, CallAt, MutualExclusion, Critical, Signed, GrantOps
  <2> QED  BY <2>1, <2>2, <2>3, <2>4, <2>5
<1>3. CASE StoreRefresh(t)
  <2> USE <1>3 DEF StoreRefresh
  <2>1. TypeOK'
    BY DEF TypeOK, CallAt, GrantLocals, Validated, Labels, Critical, LockOps, GrantOps,
           Members, NoGrant, RefreshStrings
  <2>2. CallAt'
    BY DEF TypeOK, CallAt, LockOps, GrantOps
  <2>3. MutualExclusion'
    BY DEF TypeOK, CallAt, MutualExclusion, Critical
  <2>4. GrantLocals'
    BY DEF TypeOK, CallAt, MutualExclusion, Critical, GrantLocals, Validated, GrantOps,
           NoGrant, Members, RefreshStrings
  <2>5. Signed'
    BY DEF TypeOK, CallAt, MutualExclusion, Critical, Signed, GrantOps
  <2> QED  BY <2>1, <2>2, <2>3, <2>4, <2>5
<1>4. CASE SignMessage(t)
  <2> USE <1>4 DEF SignMessage
  <2>1. TypeOK'
    BY DEF TypeOK, CallAt, GrantLocals, Validated, Labels, Critical, LockOps, GrantOps,
           Members, NoGrant, RefreshStrings
  <2>2. CallAt'
    BY DEF TypeOK, CallAt, LockOps, GrantOps
  <2>3. MutualExclusion'
    BY DEF TypeOK, CallAt, MutualExclusion, Critical
  <2>4. GrantLocals'
    BY DEF TypeOK, CallAt, MutualExclusion, Critical, GrantLocals, Validated, GrantOps,
           NoGrant, Members, RefreshStrings
  <2>5. Signed'
    BY DEF TypeOK, CallAt, MutualExclusion, Critical, Signed, GrantOps
  <2> QED  BY <2>1, <2>2, <2>3, <2>4, <2>5
<1>5. CASE DupRefreshToken(t)
  <2> USE <1>5 DEF DupRefreshToken
  <2>1. TypeOK'
    BY DEF TypeOK, CallAt, GrantLocals, Validated, Labels, Critical, LockOps, GrantOps,
           Members, NoGrant, RefreshStrings
  <2>2. CallAt'
    BY DEF TypeOK, CallAt, LockOps, GrantOps
  <2>3. MutualExclusion'
    BY DEF TypeOK, CallAt, MutualExclusion, Critical
  <2>4. GrantLocals'
    BY DEF TypeOK, CallAt, MutualExclusion, Critical, GrantLocals, Validated, GrantOps,
           NoGrant, Members, RefreshStrings
  <2>5. Signed'
    BY DEF TypeOK, CallAt, MutualExclusion, Critical, Signed, GrantOps
  <2> QED  BY <2>1, <2>2, <2>3, <2>4, <2>5
<1>6. CASE ClearAccess(t)
  <2> USE <1>6 DEF ClearAccess
  <2>1. TypeOK'
    BY DEF TypeOK, CallAt, GrantLocals, Validated, Labels, Critical, LockOps, GrantOps,
           Members, NoGrant, RefreshStrings
  <2>2. CallAt'
    BY DEF TypeOK, CallAt, LockOps, GrantOps
  <2>3. MutualExclusion'
    BY DEF TypeOK, CallAt, MutualExclusion, Critical
  <2>4. GrantLocals'
    BY DEF TypeOK, CallAt, MutualExclusion, Critical, GrantLocals, Validated, GrantOps,
           NoGrant, Members, RefreshStrings
  <2>5. Signed'
    BY DEF TypeOK, CallAt, MutualExclusion, Critical, Signed, GrantOps
  <2> QED  BY <2>1, <2>2, <2>3, <2>4, <2>5
<1>7. CASE ClearRefresh(t)
  <2> USE <1>7 DEF ClearRefresh, FreeRefreshString
  <2>1. TypeOK'
    BY DEF TypeOK, CallAt, GrantLocals, Validated, Labels, Critical, LockOps, GrantOps,
           Members, NoGrant, RefreshStrings
  <2>2. CallAt'
    BY DEF TypeOK, CallAt, LockOps, GrantOps
  <2>3. MutualExclusion'
    BY DEF TypeOK, CallAt, MutualExclusion, Critical
  <2>4. GrantLocals'
    BY DEF TypeOK, CallAt, MutualExclusion, Critical, GrantLocals, Validated, GrantOps,
           NoGrant, Members, RefreshStrings
  <2>5. Signed'
    BY DEF TypeOK, CallAt, MutualExclusion, Critical, Signed, GrantOps
  <2> QED  BY <2>1, <2>2, <2>3, <2>4, <2>5
<1>8. CASE StoreSetToken(t)
  <2> USE <1>8 DEF StoreSetToken
  <2>1. TypeOK'
    BY DEF TypeOK, CallAt, GrantLocals, Validated, Labels, Critical, LockOps, GrantOps,
           Members, NoGrant, RefreshStrings
  <2>2. CallAt'
    BY DEF TypeOK, CallAt, LockOps, GrantOps
  <2>3. MutualExclusion'
    BY DEF TypeOK, CallAt, MutualExclusion, Critical
  <2>4. GrantLocals'
    BY DEF TypeOK, CallAt, MutualExclusion, Critical, GrantLocals, Validated, GrantOps,
           NoGrant, Members, RefreshStrings
  <2>5. Signed'
    BY DEF TypeOK, CallAt, MutualExclusion, Critical, Signed, GrantOps
  <2> QED  BY <2>1, <2>2, <2>3, <2>4, <2>5
<1> QED  BY <1>1, <1>2, <1>3, <1>4, <1>5, <1>6, <1>7, <1>8

(* Every step of the system keeps the invariant. *)
LEMMA InvStep == Inv /\ [Next]_vars => Inv'
<1> SUFFICES ASSUME Inv, [Next]_vars PROVE Inv'
  OBVIOUS
<1>1. ASSUME NEW t \in Threads, NewCall(t) PROVE Inv'
  BY <1>1, InvNewCall
<1>2. ASSUME NEW t \in Threads, Step(t) PROVE Inv'
  BY <1>2, InvUnlockedStep, InvLocking, InvCritical DEF Step
<1>3. ASSUME NEW t \in Threads, Network(t) PROVE Inv'
  BY <1>3, InvNetwork DEF Network
<1>4. CASE UNCHANGED vars
  BY <1>4 DEF vars, Inv, TypeOK, CallAt, MutualExclusion, GrantLocals, Validated, Signed
<1> QED  BY <1>1, <1>2, <1>3, <1>4 DEF Next

(* Hence it holds in every reachable state. *)
LEMMA Invariance == Spec => []Inv
  BY InvInit, InvStep, PTL DEF Spec

(* Every variable keeps its type; in particular no empty access token is   *)
(* ever stored (parse_grant_response). *)
THEOREM TypeCorrect == Spec => []TypeOK
<1>1. Inv => TypeOK
  BY DEF Inv
<1> QED  BY <1>1, Invariance, PTL

(* The mutex excludes: no two threads are inside the sections that read or *)
(* write the tokens under it, and a thread outside of them never owns it.  *)
THEOREM Mutex == Spec => []MutualExclusion
<1>1. Inv => MutualExclusion
  BY DEF Inv
<1> QED  BY <1>1, Invariance, PTL

(* A message leaves process_request with the token that is in force. *)
THEOREM Signing == Spec => []SignedInForce
<1>1. Inv => SignedInForce
  BY DEF Inv, Signed, SignedInForce
<1> QED  BY <1>1, Invariance, PTL

-----------------------------------------------------------------------------
(* The session argument, for applications that never sign out: whoever     *)
(* accepted a grant without a refresh token saw one, and from then on the  *)
(* authorizer has one, be it old, new, or about to be written by the owner *)
(* of the mutex.                                                           *)

PendingGrant(t) ==
  /\ op[t] \in GrantOps /\ pc[t] \in {"lock", "storeAccess"}
  /\ grant[t].access # NULL /\ grant[t].refresh = NULL

Session ==
  /\ accessToken # NULL => EffectiveRefresh # NULL
  /\ \A t \in Threads : PendingGrant(t) => EffectiveRefresh # NULL

(* Only two steps of the code change what the tokens effectively are. *)
LEMMA StoreAccessEffect ==
  ASSUME Inv, NEW t \in Threads, StoreAccess(t)
  PROVE  /\ EffectiveRefresh = refreshToken
         /\ EffectiveRefresh' = IF grant[t].refresh = NULL THEN EffectiveRefresh
                                                           ELSE grant[t].refresh
  BY DEF Inv, TypeOK, MutualExclusion, Critical, StoreAccess, EffectiveRefresh, locals

(* set_refresh_token takes effect with its first write. *)
LEMMA ClearAccessEffect ==
  ASSUME Inv, NEW t \in Threads, ClearAccess(t)
  PROVE  EffectiveRefresh = refreshToken /\ EffectiveRefresh' = arg[t]
  BY DEF Inv, TypeOK, MutualExclusion, Critical, ClearAccess, EffectiveRefresh, locals

(* A step of a thread outside its critical section changes neither. *)
LEMMA QuietOutside ==
  ASSUME Inv, NEW t \in Threads, pc[t] \notin Critical, pc'[t] \notin Critical,
         pc' = [pc EXCEPT ![t] = pc'[t]], grant' = [grant EXCEPT ![t] = grant'[t]],
         arg' = [arg EXCEPT ![t] = arg'[t]], UNCHANGED <<mutex, refreshToken>>
  PROVE  EffectiveRefresh' = EffectiveRefresh
<1>1. mutex # t
  BY DEF Inv, MutualExclusion
<1>2. mutex \in Threads =>
        pc'[mutex] = pc[mutex] /\ grant'[mutex] = grant[mutex] /\ arg'[mutex] = arg[mutex]
  BY <1>1 DEF Inv, TypeOK
<1> QED  BY <1>2 DEF EffectiveRefresh

(* The steps that leave both tokens effectively as they are. *)
Quiet(t) ==
  \/ NewCall(t) \/ Network(t)
  \/ CheckRefreshToken(t) \/ BuildMessage(t) \/ EncodeMessage(t) \/ Return(t) \/ Notify(t)
  \/ Lock(t) \/ Unlock(t) \/ SetSameToken(t)
  \/ FreeRefresh(t) \/ StoreRefresh(t) \/ SignMessage(t) \/ DupRefreshToken(t)
  \/ ClearRefresh(t) \/ StoreSetToken(t)

(* Those steps do leave them as they are, and so does the validation. *)
LEMMA QuietStep ==
  ASSUME Inv, NEW t \in Threads, Quiet(t) \/ ValidateGrant(t)
  PROVE  UNCHANGED <<accessToken, EffectiveRefresh>>
<1> USE DEF store, locals
<1>1. CASE NewCall(t)
  <2>1. /\ UNCHANGED <<mutex, store, grant>> /\ pc[t] = "idle" /\ pc'[t] \notin Critical
        /\ pc' = [pc EXCEPT ![t] = pc'[t]] /\ arg' = [arg EXCEPT ![t] = arg'[t]]
    BY <1>1 DEF NewCall, StartRefresh, StartRequest, StartProcess, StartDup, StartSet,
                Start, Inv, TypeOK, Critical
  <2>2. grant' = [grant EXCEPT ![t] = grant'[t]]
    BY <2>1 DEF Inv, TypeOK
  <2> QED  BY <2>1, <2>2, QuietOutside DEF Critical
<1>2. CASE CheckRefreshToken(t) \/ BuildMessage(t) \/ EncodeMessage(t) \/ ValidateGrant(t)
           \/ Return(t) \/ Notify(t) \/ Network(t)
  <2>1. /\ UNCHANGED <<mutex, store>> /\ pc[t] \notin Critical /\ pc'[t] \notin Critical
        /\ pc' = [pc EXCEPT ![t] = pc'[t]]
    BY <1>2 DEF CheckRefreshToken, BuildMessage, EncodeMessage, ValidateGrant, Return, Notify,
                Network, Answer, TransportError, Finish, Inv, TypeOK, Critical
  <2>2. grant' = [grant EXCEPT ![t] = grant'[t]]
    BY <1>2 DEF CheckRefreshToken, BuildMessage, EncodeMessage, ValidateGrant, Return, Notify,
                Network, Answer, TransportError, Finish, Inv, TypeOK
  <2>3. arg' = [arg EXCEPT ![t] = arg'[t]]
    BY <1>2 DEF CheckRefreshToken, BuildMessage, EncodeMessage, ValidateGrant, Return, Notify,
                Network, Answer, TransportError, Finish, Inv, TypeOK
  <2> QED  BY <2>1, <2>2, <2>3, QuietOutside
<1>3. CASE Lock(t)
  <2>1. op[t] \in LockOps
    BY <1>3 DEF Lock, Inv, CallAt
  <2>2. FirstCritical[op[t]] \in {"storeAccess", "sign", "compare", "dup"}
    BY <2>1 DEF FirstCritical, LockOps, GrantOps
  <2>3. pc'[t] = FirstCritical[op[t]] /\ mutex' = t /\ mutex = Nobody
        /\ UNCHANGED <<accessToken, refreshToken>>
    BY <1>3 DEF Lock, Inv, TypeOK
  <2> QED  BY <2>2, <2>3, ConstantsAssumption DEF EffectiveRefresh
<1>4. CASE Unlock(t) \/ SetSameToken(t)
  BY <1>4, ConstantsAssumption
     DEF Unlock, SetSameToken, Finish, Inv, MutualExclusion, Critical, EffectiveRefresh
<1>5. CASE FreeRefresh(t) \/ StoreRefresh(t) \/ SignMessage(t) \/ DupRefreshToken(t)
           \/ ClearRefresh(t) \/ StoreSetToken(t)
  BY <1>5 DEF FreeRefresh, StoreRefresh, SignMessage, DupRefreshToken, ClearRefresh,
              StoreSetToken, FreeRefreshString, Inv, TypeOK, MutualExclusion, Critical,
              EffectiveRefresh
<1> QED  BY <1>1, <1>2, <1>3, <1>4, <1>5 DEF Quiet

(* Without a sign-out, an authorizer that has a refresh token keeps one. *)
LEMMA EffectiveNonNull ==
  ASSUME NULL \notin SetTokens, Inv, refreshToken # NULL
  PROVE  EffectiveRefresh # NULL
  BY DEF EffectiveRefresh, Inv, CallAt, GrantLocals, Validated

(* A thread has a grant of this kind pending since it validated it. *)
LEMMA PendingKept ==
  ASSUME Inv, NEW t \in Threads, Quiet(t) \/ StoreAccess(t) \/ ClearAccess(t),
         NEW u \in Threads, PendingGrant(u)'
  PROVE  PendingGrant(u)
<1> USE DEF store, locals, Inv, TypeOK, PendingGrant
<1>1. CASE NewCall(t)
  BY <1>1 DEF NewCall, StartRefresh, StartRequest, StartProcess, StartDup, StartSet, Start,
              GrantOps
<1>2. CASE CheckRefreshToken(t) \/ BuildMessage(t) \/ EncodeMessage(t) \/ Return(t)
           \/ Network(t)
  BY <1>2 DEF CheckRefreshToken, BuildMessage, EncodeMessage, Return, Network, Answer,
              TransportError, Finish
<1>3. CASE Notify(t)
  BY <1>3 DEF Notify, Finish, GrantOps
<1>4. CASE Lock(t)
  BY <1>4 DEF Lock
<1>5. CASE Unlock(t) \/ SetSameToken(t) \/ StoreAccess(t) \/ ClearAccess(t)
  BY <1>5 DEF Unlock, SetSameToken, StoreAccess, ClearAccess, Finish
<1>6. CASE FreeRefresh(t) \/ StoreRefresh(t) \/ SignMessage(t) \/ DupRefreshToken(t)
           \/ ClearRefresh(t) \/ StoreSetToken(t)
  BY <1>6 DEF FreeRefresh, StoreRefresh, SignMessage, DupRefreshToken, ClearRefresh,
              StoreSetToken
<1> QED  BY <1>1, <1>2, <1>3, <1>4, <1>5, <1>6 DEF Quiet

(* Every step keeps the session, if the application does not sign out. *)
LEMMA SessionStep ==
  ASSUME NULL \notin SetTokens
  PROVE  Inv /\ Session /\ [Next]_vars => Session'
<1> SUFFICES ASSUME Inv, Session, [Next]_vars PROVE Session'
  OBVIOUS
<1>1. ASSUME NEW t \in Threads, Quiet(t) PROVE Session'
  BY <1>1, QuietStep, PendingKept DEF Session
<1>2. ASSUME NEW t \in Threads, ValidateGrant(t) PROVE Session'
  <2>1. UNCHANGED <<accessToken, EffectiveRefresh>>
    BY <1>2, QuietStep
  <2>2. ASSUME NEW u \in Threads, PendingGrant(u)' PROVE EffectiveRefresh # NULL
    <3>1. CASE u # t
      <4>1. PendingGrant(u)
        BY <1>2, <2>2, <3>1 DEF ValidateGrant, PendingGrant, Inv, TypeOK, locals
      <4> QED  BY <4>1 DEF Session
    <3>2. CASE u = t
      <4>1. Acceptable(grant[t])
        BY <1>2, <2>2, <3>2 DEF ValidateGrant, PendingGrant, NoGrant, Inv, TypeOK
      <4>2. grant[t].refresh = NULL
        BY <1>2, <2>2, <3>2, <4>1 DEF ValidateGrant, PendingGrant
      <4>3. refreshToken # NULL
        BY <4>1, <4>2 DEF Acceptable, Missing
      <4> QED  BY <4>3, EffectiveNonNull
    <3> QED  BY <3>1, <3>2
  <2> QED  BY <2>1, <2>2 DEF Session
<1>3. ASSUME NEW t \in Threads, StoreAccess(t) PROVE Session'
  <2>1. accessToken' = grant[t].access /\ pc[t] = "storeAccess" /\ op[t] \in GrantOps
    BY <1>3 DEF StoreAccess, Inv, CallAt
  <2>2. EffectiveRefresh # NULL => EffectiveRefresh' # NULL
    BY <1>3, StoreAccessEffect
  <2>3. accessToken' # NULL => EffectiveRefresh' # NULL
    <3>1. CASE grant[t].refresh = NULL
      BY <2>1, <2>2, <3>1 DEF Session, PendingGrant
    <3>2. CASE grant[t].refresh # NULL
      BY <1>3, <3>2, StoreAccessEffect
    <3> QED  BY <3>1, <3>2
  <2>4. \A u \in Threads : PendingGrant(u)' => EffectiveRefresh' # NULL
    BY <1>3, <2>2, PendingKept DEF Session
  <2> QED  BY <2>3, <2>4 DEF Session
<1>4. ASSUME NEW t \in Threads, ClearAccess(t) PROVE Session'
  <2>1. arg[t] # NULL
    BY <1>4 DEF ClearAccess, Inv, CallAt
  <2>2. EffectiveRefresh' # NULL
    BY <1>4, <2>1, ClearAccessEffect
  <2> QED  BY <2>2 DEF Session
<1>5. CASE UNCHANGED vars
  BY <1>5 DEF vars, Session, PendingGrant, EffectiveRefresh
<1> QED  BY <1>1, <1>2, <1>3, <1>4, <1>5 DEF Next, Step, Quiet

(* Hence a session lasts. *)
LEMMA SessionInvariance ==
  ASSUME NULL \notin SetTokens
  PROVE  Spec => []Session
<1>1. Init => Session
  BY DEF Init, Session, PendingGrant
<1> QED  BY <1>1, SessionStep, Invariance, PTL DEF Spec

(* The assertion of process_request never fails while the application does *)
(* not sign out: an access token is never there without a refresh token.   *)
THEOREM AssertionHolds ==
  ASSUME NULL \notin SetTokens
  PROVE  Spec => []AccessNeedsRefresh
<1>1. Inv /\ Session => AccessNeedsRefresh
  BY DEF Inv, MutualExclusion, Critical, Session, AccessNeedsRefresh, EffectiveRefresh
<1> QED  BY <1>1, Invariance, SessionInvariance, PTL

(* What parse_grant_response asserts holds, and a grant that returns TRUE  *)
(* leaves both tokens set, one that fails no access token.                 *)
THEOREM GrantCorrect ==
  ASSUME NULL \notin SetTokens
  PROVE  Spec => []GrantHolds
<1>1. ASSUME Inv, Session, NEW t \in Threads, op[t] \in GrantOps, pc[t] = "unlock"
      PROVE  IF childError[t] THEN accessToken = NULL
                              ELSE accessToken # NULL /\ refreshToken # NULL
  <2>1. accessToken = grant[t].access /\ (childError[t] <=> accessToken = NULL)
    BY <1>1 DEF Inv, GrantLocals, Validated
  <2>2. EffectiveRefresh = refreshToken
    BY <1>1 DEF Inv, MutualExclusion, Critical, EffectiveRefresh
  <2> QED  BY <1>1, <2>1, <2>2 DEF Session
<1>2. Inv /\ Session => GrantHolds
  BY <1>1 DEF GrantHolds, Inv, GrantLocals, Validated
<1> QED  BY <1>2, Invariance, SessionInvariance, PTL

-----------------------------------------------------------------------------
(* Between its first and its last write, set_refresh_token has the tokens  *)
(* to itself.                                                              *)
LEMMA SettingAlone ==
  ASSUME Inv, NEW t \in Threads, pc[t] \in {"storeAccess", "compare"}
  PROVE  ~SettingRefresh
BY DEF Inv, MutualExclusion, Critical, SettingRefresh

(* The other steps neither begin nor end such a change. *)
LEMMA SettingKept ==
  ASSUME Inv, NEW t \in Threads,
         Quiet(t) \/ ValidateGrant(t) \/ StoreAccess(t), ~StoreSetToken(t)
  PROVE  SettingRefresh' = SettingRefresh
<1> DEFINE Changing == {"clearRefresh", "storeSet"}
<1>1. pc' = [pc EXCEPT ![t] = pc'[t]] /\ (pc'[t] \in Changing <=> pc[t] \in Changing)
  <2> USE DEF Finish, Inv, TypeOK
  <2>1. CASE NewCall(t) \/ Network(t)
    BY <2>1 DEF NewCall, StartRefresh, StartRequest, StartProcess, StartDup, StartSet, Start,
                Network, Answer, TransportError
  <2>2. CASE CheckRefreshToken(t) \/ BuildMessage(t) \/ EncodeMessage(t) \/ Return(t)
             \/ Notify(t) \/ ValidateGrant(t)
    BY <2>2 DEF CheckRefreshToken, BuildMessage, EncodeMessage, Return, Notify, ValidateGrant
  <2>3. CASE Lock(t)
    <3>1. op[t] \in LockOps
      BY <2>3 DEF Lock, CallAt
    <3>2. FirstCritical[op[t]] \notin Changing
      BY <3>1 DEF FirstCritical, LockOps, GrantOps
    <3> QED  BY <2>3, <3>2 DEF Lock
  <2>4. CASE Unlock(t) \/ SetSameToken(t) \/ StoreAccess(t) \/ FreeRefresh(t)
             \/ StoreRefresh(t) \/ SignMessage(t) \/ DupRefreshToken(t) \/ ClearRefresh(t)
    BY <2>4 DEF Unlock, SetSameToken, StoreAccess, FreeRefresh, StoreRefresh, SignMessage,
                DupRefreshToken, ClearRefresh
  <2> QED  BY <2>1, <2>2, <2>3, <2>4 DEF Quiet
<1>2. \A u \in Threads : pc'[u] \in Changing <=> pc[u] \in Changing
  BY <1>1 DEF Inv, TypeOK
<1> QED  BY <1>2 DEF SettingRefresh

(* A new authorizer is a new token store. *)
LEMMA StoreInitial == Init => Store!StoreInit
  BY ConstantsAssumption
     DEF Init, Store!StoreInit, EffectiveRefresh, RefreshStrings, SettingRefresh

(* Every step of the code is a step of the token store, or invisible there.*)
LEMMA StoreStep ==
  ASSUME NULL \notin SetTokens
  PROVE  Inv /\ Session /\ [Next]_vars => [Store!StoreNext]_(Store!storeVars)
<1> SUFFICES ASSUME Inv, Session, [Next]_vars
             PROVE  \/ Store!StoreNext
                    \/ UNCHANGED <<accessToken, EffectiveRefresh, SettingRefresh>>
  BY DEF Store!storeVars
<1>1. ASSUME NEW t \in Threads, Quiet(t) \/ ValidateGrant(t), ~StoreSetToken(t)
      PROVE  UNCHANGED <<accessToken, EffectiveRefresh, SettingRefresh>>
  BY <1>1, QuietStep, SettingKept
<1>2. ASSUME NEW t \in Threads, StoreSetToken(t) PROVE Store!StoreNext
  <2>1. UNCHANGED <<accessToken, EffectiveRefresh>>
    BY <1>2, QuietStep DEF Quiet
  <2>2. pc[t] = "storeSet" /\ pc' = [pc EXCEPT ![t] = "unlock"]
    BY <1>2 DEF StoreSetToken
  <2>3. \A u \in Threads \ {t} : pc[u] \notin Critical
    BY <2>2 DEF Inv, MutualExclusion, Critical
  <2>4. SettingRefresh /\ ~SettingRefresh'
    BY <2>2, <2>3 DEF SettingRefresh, Critical, Inv, TypeOK
  <2> QED  BY <2>1, <2>4 DEF Store!StoreNext, Store!RefreshSet
<1>3. ASSUME NEW t \in Threads, StoreAccess(t) PROVE Store!StoreNext
  <2>1. /\ accessToken' = grant[t].access /\ Validated(t) /\ pc[t] = "storeAccess"
        /\ grant[t].access \in AccessTokens \cup {Empty, NULL}
        /\ grant[t].refresh \in RefreshStrings \cup {NULL}
    BY <1>3 DEF StoreAccess, Inv, CallAt, TypeOK, Members, Validated
  <2>2. ~SettingRefresh /\ SettingRefresh' = SettingRefresh
    BY <1>3, <2>1, SettingAlone, SettingKept DEF StoreSetToken
  <2>3. CASE grant[t].access = NULL
    <3>1. EffectiveRefresh' = EffectiveRefresh
      BY <1>3, <2>1, <2>3, StoreAccessEffect DEF Inv, GrantLocals
    <3> QED  BY <2>1, <2>2, <2>3, <3>1
             DEF Store!StoreNext, Store!Grant, Store!GrantFails
  <2>4. CASE grant[t].access # NULL /\ grant[t].refresh = NULL
    <3>1. EffectiveRefresh # NULL /\ EffectiveRefresh' = EffectiveRefresh
      BY <1>3, <2>1, <2>4, StoreAccessEffect DEF Session, PendingGrant, Validated
    <3>2. grant[t].access \in AccessTokens
      BY <2>1, <2>4 DEF Inv, GrantLocals
    <3> QED  BY <2>1, <2>2, <3>1, <3>2
             DEF Store!StoreNext, Store!Grant, Store!GrantAccess
  <2>5. CASE grant[t].access # NULL /\ grant[t].refresh # NULL
    <3>1. EffectiveRefresh' = grant[t].refresh
      BY <1>3, <2>5, StoreAccessEffect
    <3>2. grant[t].access \in AccessTokens /\ grant[t].refresh \in RefreshStrings
      BY <2>1, <2>5 DEF Inv, GrantLocals
    <3> QED  BY <2>1, <2>2, <3>1, <3>2
             DEF Store!StoreNext, Store!Grant, Store!GrantBoth
  <2> QED  BY <2>3, <2>4, <2>5
<1>4. ASSUME NEW t \in Threads, ClearAccess(t) PROVE Store!StoreNext
  <2>1. accessToken' = NULL /\ arg[t] # EffectiveRefresh /\ EffectiveRefresh' = arg[t]
    BY <1>4, ClearAccessEffect DEF ClearAccess
  <2>2. arg[t] \in RefreshStrings \cup {NULL}
    BY DEF Inv, TypeOK
  <2>3. pc[t] = "compare" /\ pc' = [pc EXCEPT ![t] = "clearRefresh"]
    BY <1>4 DEF ClearAccess
  <2>4. ~SettingRefresh /\ SettingRefresh'
    BY <2>3, SettingAlone DEF SettingRefresh, Inv, TypeOK
  <2> QED  BY <2>1, <2>2, <2>4 DEF Store!StoreNext, Store!SetRefresh
<1>5. CASE UNCHANGED vars
  BY <1>5 DEF vars, EffectiveRefresh, SettingRefresh
<1> QED  BY <1>1, <1>2, <1>3, <1>4, <1>5 DEF Next, Step, Quiet

(* The authorizer implements the token store for applications that do not  *)
(* sign out: concurrent refreshes, authorizations and changes of the       *)
(* refresh token act on the two tokens like one atomic operation each.     *)
THEOREM Implements ==
  ASSUME NULL \notin SetTokens
  PROVE  Spec => StoreImplemented
BY StoreInitial, StoreStep, Invariance, SessionInvariance, PTL
   DEF Spec, StoreImplemented, Store!StoreSpec
=============================================================================
