------------------------- MODULE AsyncRefreshProofs -------------------------
(***************************************************************************)
(* Proofs about AsyncRefresh, and with it GoaAuthorizer, for any number of *)
(* threads, workers and tokens.                                            *)
(***************************************************************************)
EXTENDS AsyncRefresh, TLAPS

-----------------------------------------------------------------------------
(* The inductive invariant: of the authorizer ...                          *)

(* The mutex is owned by exactly the thread between g_mutex_lock and       *)
(* g_mutex_unlock, across both D-Bus calls.                                *)
MutexHeld == \A t \in Threads : pc[t] \in Critical <=> mutex = t

(* Which call a thread runs follows from where it stands, and ok is set    *)
(* only from the reply until the call has returned.                        *)
CallAt == \A t \in Threads :
  /\ pc[t] \in {"clear", "ensure", "ask", "reply"} => op[t] = "refresh"
  /\ pc[t] = "sign" => op[t] = "process"
  /\ ok[t] => pc[t] \in {"unlock", "returned"}

(* From its first step to its reply a refresh leaves no token, so that the *)
(* token the service makes meanwhile is a newer one than any in use.       *)
NoTokenMeanwhile == \A t \in Threads :
  pc[t] \in {"ensure", "ask", "reply"} => accessToken = NULL

GoaInv == MutexHeld /\ CallAt /\ NoTokenMeanwhile /\ RefreshTruthful /\ LatestToken

(* ... and of the tasks: until its callback has run a task has reported    *)
(* nothing, and a completed task holds an error, a freed one, exactly if   *)
(* its refresh failed: nothing is left over of an earlier task.            *)
TaskInv == \A w \in Workers :
  /\ task[w] # "none" => finish[w] = "none"
  /\ task[w] \in {"queued", "running"} => result[w] = "unset"
  /\ task[w] = "complete" => (succeeded[w] <=> result[w] = "unset")

Inv == TypeOK /\ GoaInv /\ TaskInv /\ FailureTold

LEMMA InvInit == Init => Inv
<1> SUFFICES ASSUME Init PROVE Inv
  OBVIOUS
<1> USE DEF Init, GoaInit
<1>1. TypeOK
  BY DEF TypeOK, GoaTypeOK, Labels
<1>2. GoaInv
  BY GoaAssumption DEF GoaInv, MutexHeld, CallAt, NoTokenMeanwhile, RefreshTruthful,
                       LatestToken, Critical
<1>3. TaskInv /\ FailureTold
  BY DEF TaskInv, FailureTold
<1> QED  BY <1>1, <1>2, <1>3 DEF Inv

-----------------------------------------------------------------------------
USE DEF Goto

(* A call begins: nothing but the thread's own program counter and call.   *)
LEMMA StartKeeps ==
  ASSUME GoaTypeOK, GoaInv, NEW t \in Threads, NEW call \in {"refresh", "process"},
         Start(t, call)
  PROVE  GoaTypeOK' /\ GoaInv'
<1> USE DEF Start, GoaTypeOK
<1>1. GoaTypeOK'
  BY DEF Labels
<1>2. MutexHeld' /\ CallAt' /\ NoTokenMeanwhile'
  BY DEF GoaInv, MutexHeld, CallAt, NoTokenMeanwhile, Critical
<1>3. RefreshTruthful' /\ LatestToken'
  BY DEF GoaInv, RefreshTruthful, LatestToken
<1> QED  BY <1>1, <1>2, <1>3 DEF GoaInv

(* The caller has looked at the result of its call.                        *)
LEMMA ReturnKeeps ==
  ASSUME GoaTypeOK, GoaInv, NEW t \in Threads, Return(t)
  PROVE  GoaTypeOK' /\ GoaInv'
<1> USE DEF Return, GoaTypeOK
<1>1. GoaTypeOK'
  BY DEF Labels
<1>2. MutexHeld' /\ CallAt' /\ NoTokenMeanwhile'
  BY DEF GoaInv, MutexHeld, CallAt, NoTokenMeanwhile, Critical
<1>3. RefreshTruthful' /\ LatestToken'
  BY DEF GoaInv, RefreshTruthful, LatestToken
<1> QED  BY <1>1, <1>2, <1>3 DEF GoaInv

(* The steps of a call.  Whoever changes the token or makes the service    *)
(* issue one owns the mutex, so that no other thread is about to unlock.   *)
LEMMA GoaStepKeeps ==
  ASSUME GoaTypeOK, GoaInv, NEW t \in Threads, GoaStep(t)
  PROVE  GoaTypeOK' /\ GoaInv'
<1> USE GoaAssumption DEF GoaTypeOK
<1>1. CASE Lock(t)
  <2> USE <1>1 DEF Lock
  <2>1. GoaTypeOK'
    BY DEF Labels, Critical
  <2>2. MutexHeld' /\ CallAt' /\ NoTokenMeanwhile'
    BY DEF GoaInv, MutexHeld, CallAt, NoTokenMeanwhile, Critical
  <2>3. RefreshTruthful' /\ LatestToken'
    BY DEF GoaInv, RefreshTruthful, LatestToken
  <2> QED  BY <2>1, <2>2, <2>3 DEF GoaInv
<1>2. CASE ProcessMessage(t)
  <2> USE <1>2 DEF ProcessMessage
  <2>1. GoaTypeOK'
    BY DEF Labels, Critical
  <2>2. MutexHeld' /\ CallAt' /\ NoTokenMeanwhile'
    BY DEF GoaInv, MutexHeld, CallAt, NoTokenMeanwhile, Critical
  <2>3. RefreshTruthful' /\ LatestToken'
    BY DEF GoaInv, CallAt, RefreshTruthful, LatestToken
  <2> QED  BY <2>1, <2>2, <2>3 DEF GoaInv
<1>3. CASE ClearToken(t)
  <2> USE <1>3 DEF ClearToken
  <2>1. GoaTypeOK'
    BY DEF Labels, Critical
  <2>2. MutexHeld' /\ CallAt' /\ NoTokenMeanwhile'
    BY DEF GoaInv, MutexHeld, CallAt, NoTokenMeanwhile, Critical
  <2>3. RefreshTruthful' /\ LatestToken'
    BY DEF GoaInv, MutexHeld, Critical, RefreshTruthful, LatestToken
  <2> QED  BY <2>1, <2>2, <2>3 DEF GoaInv
<1>4. CASE EnsureCredentials(t) \/ CallFails(t)
  <2> USE <1>4 DEF EnsureCredentials, CallFails
  <2>1. GoaTypeOK'
    BY DEF Labels, Critical
  <2>2. MutexHeld' /\ CallAt' /\ NoTokenMeanwhile'
    BY DEF GoaInv, MutexHeld, CallAt, NoTokenMeanwhile, Critical
  <2>3. RefreshTruthful' /\ LatestToken'
    BY DEF GoaInv, CallAt, NoTokenMeanwhile, RefreshTruthful, LatestToken
  <2> QED  BY <2>1, <2>2, <2>3 DEF GoaInv
<1>5. CASE ServiceIssues(t)
  <2> USE <1>5 DEF ServiceIssues
  <2>1. GoaTypeOK'
    BY DEF Labels, Critical
  <2>2. MutexHeld' /\ CallAt' /\ NoTokenMeanwhile'
    BY DEF GoaInv, MutexHeld, CallAt, NoTokenMeanwhile, Critical
  <2>3. RefreshTruthful' /\ LatestToken'
    BY DEF GoaInv, MutexHeld, Critical, NoTokenMeanwhile, RefreshTruthful, LatestToken
  <2> QED  BY <2>1, <2>2, <2>3 DEF GoaInv
<1>6. CASE GetAccessToken(t)
  <2> USE <1>6 DEF GetAccessToken
  <2>1. GoaTypeOK'
    BY DEF Labels, Critical
  <2>2. MutexHeld' /\ CallAt' /\ NoTokenMeanwhile'
    BY DEF GoaInv, MutexHeld, CallAt, NoTokenMeanwhile, Critical
  <2>3. RefreshTruthful' /\ LatestToken'
    BY DEF GoaInv, MutexHeld, Critical, CallAt, RefreshTruthful, LatestToken
  <2> QED  BY <2>1, <2>2, <2>3 DEF GoaInv
<1>7. CASE Unlock(t)
  <2> USE <1>7 DEF Unlock
  <2>1. GoaTypeOK'
    BY DEF Labels, Critical
  <2>2. MutexHeld' /\ CallAt' /\ NoTokenMeanwhile'
    BY DEF GoaInv, MutexHeld, CallAt, NoTokenMeanwhile, Critical
  <2>3. RefreshTruthful' /\ LatestToken'
    BY DEF GoaInv, RefreshTruthful, LatestToken
  <2> QED  BY <2>1, <2>2, <2>3 DEF GoaInv
<1> QED  BY <1>1, <1>2, <1>3, <1>4, <1>5, <1>6, <1>7 DEF GoaStep

-----------------------------------------------------------------------------
(* The invariant survives every step of the composition.                   *)
LEMMA InvStep == Inv /\ [Next]_vars => Inv'
<1> SUFFICES ASSUME Inv, [Next]_vars PROVE Inv'
  OBVIOUS
<1> USE WorkersAssumption DEF Inv, TypeOK
<1>1. ASSUME NEW w \in Workers, RefreshAsync(w) PROVE Inv'
  <2> USE <1>1 DEF RefreshAsync, goaVars
  <2>1. GoaTypeOK' /\ GoaInv'
    BY DEF GoaTypeOK, GoaInv, MutexHeld, CallAt, NoTokenMeanwhile, RefreshTruthful,
           LatestToken
  <2>2. TypeOK' /\ TaskInv' /\ FailureTold'
    BY <2>1 DEF TaskInv, FailureTold
  <2> QED  BY <2>1, <2>2
<1>2. ASSUME NEW w \in Workers, ThreadFuncStarts(w) PROVE Inv'
  <2> USE <1>2 DEF ThreadFuncStarts
  <2>1. GoaTypeOK' /\ GoaInv'
    BY StartKeeps
  <2>2. TypeOK' /\ TaskInv' /\ FailureTold'
    BY <2>1 DEF TaskInv, FailureTold
  <2> QED  BY <2>1, <2>2
<1>3. ASSUME NEW w \in Workers, ThreadFuncEnds(w) PROVE Inv'
  <2> USE <1>3 DEF ThreadFuncEnds
  <2>1. GoaTypeOK' /\ GoaInv'
    BY ReturnKeeps
  <2>2. TypeOK' /\ TaskInv' /\ FailureTold'
    BY <2>1 DEF GoaTypeOK, TaskInv, FailureTold
  <2> QED  BY <2>1, <2>2
<1>4. ASSUME NEW w \in Workers, Callback(w) PROVE Inv'
  <2> USE <1>4 DEF Callback, goaVars
  <2>1. GoaTypeOK' /\ GoaInv'
    BY DEF GoaTypeOK, GoaInv, MutexHeld, CallAt, NoTokenMeanwhile, RefreshTruthful,
           LatestToken
  <2>2. TypeOK' /\ TaskInv' /\ FailureTold'
    BY <2>1 DEF TaskInv, FailureTold
  <2> QED  BY <2>1, <2>2
<1>5. ASSUME NEW w \in Workers, CancelRefresh(w) PROVE Inv'
  <2> USE <1>5 DEF CancelRefresh, goaVars
  <2>1. GoaTypeOK' /\ GoaInv'
    BY DEF GoaTypeOK, GoaInv, MutexHeld, CallAt, NoTokenMeanwhile, RefreshTruthful,
           LatestToken
  <2>2. TypeOK' /\ TaskInv' /\ FailureTold'
    BY <2>1 DEF TaskInv, FailureTold
  <2> QED  BY <2>1, <2>2
<1>6. ASSUME GoaTypeOK' /\ GoaInv', UNCHANGED tasks PROVE Inv'
  BY <1>6 DEF tasks, TaskInv, FailureTold
<1>7. ASSUME NEW w \in Workers, GoaStep(w), UNCHANGED tasks PROVE Inv'
  BY <1>6, <1>7, GoaStepKeeps
<1>8. ASSUME NEW t \in Threads \ Workers, Caller(t) PROVE Inv'
  BY <1>6, <1>8, StartKeeps, GoaStepKeeps, ReturnKeeps DEF Caller
<1>9. CASE UNCHANGED vars
  BY <1>9 DEF vars, GoaTypeOK, GoaInv, MutexHeld, CallAt, NoTokenMeanwhile,
              RefreshTruthful, LatestToken, TaskInv, FailureTold
<1> QED  BY <1>1, <1>2, <1>3, <1>4, <1>7, <1>8, <1>9, <1>5 DEF Next, Worker

LEMMA Invariance == Spec => []Inv
BY InvInit, InvStep, PTL DEF Spec

-----------------------------------------------------------------------------
(* Every variable of the authorizer and of the tasks keeps its type.       *)
THEOREM TypeCorrect == Spec => []TypeOK
<1>1. Inv => TypeOK
  BY DEF Inv
<1> QED  BY <1>1, Invariance, PTL

(* A refresh is as truthful about the token as it is alone, however many   *)
(* threads refresh and sign at the same time: no other call replaces the   *)
(* token between the reply and the unlock.                                 *)
THEOREM Truthful == Spec => []RefreshTruthful
<1>1. Inv => RefreshTruthful
  BY DEF Inv, GoaInv
<1> QED  BY <1>1, Invariance, PTL

(* No message is signed with a token that a later one has replaced at the  *)
(* service, and no late reply brings an older token back.                  *)
THEOREM Latest == Spec => []LatestToken
<1>1. Inv => LatestToken
  BY DEF Inv, GoaInv
<1> QED  BY <1>1, Invariance, PTL

(* msg_authorizer_refresh_authorization_finish leaves the error alone only *)
(* after a success, and passes on a task's error only after a failure.     *)
THEOREM Failures == Spec => []FailureTold
<1>1. Inv => FailureTold
  BY DEF Inv
<1> QED  BY <1>1, Invariance, PTL
=============================================================================
