---------------------------- MODULE AsyncRefresh ----------------------------
(***************************************************************************)
(* msg_authorizer_refresh_authorization_async and _finish                  *)
(* (src/msg-authorizer.c) on top of the GOA authorizer: each asynchronous  *)
(* call is a GTask that a worker thread runs, and whose callback the main  *)
(* loop invokes.  GTask itself is GLib's and is modelled by what it does.  *)
(***************************************************************************)
EXTENDS GoaAuthorizer

CONSTANT Workers \* threads of the pool, each running one task at a time

ASSUME WorkersAssumption == Workers \subseteq Threads

VARIABLES task,    \* per worker: the state of its GTask
          result,  \* per worker: the error the GTask was made to return, if any
          cancelled, \* per worker: the application has cancelled the GCancellable
          succeeded, \* history, per worker: refresh_authorization returned TRUE
          finish   \* per worker: what _finish returned to the callback: FALSE with no
                   \* error, with a live error, or with one that has been freed

vars == <<mutex, accessToken, issued, pc, op, ok, header,
          task, result, cancelled, succeeded, finish>>

TypeOK ==
  /\ GoaTypeOK
  /\ task \in [Workers -> {"none", "queued", "running", "complete"}]
  /\ result \in [Workers -> {"unset", "freed"}]
  /\ cancelled \in [Workers -> BOOLEAN]
  /\ succeeded \in [Workers -> BOOLEAN]
  /\ finish \in [Workers -> {"none", "false", "error", "freed"}]

Init ==
  /\ GoaInit
  /\ task = [w \in Workers |-> "none"] /\ result = [w \in Workers |-> "unset"]
  /\ cancelled = [w \in Workers |-> FALSE]
  /\ succeeded = [w \in Workers |-> FALSE] /\ finish = [w \in Workers |-> "none"]

tasks == <<task, result, cancelled, succeeded, finish>>

(* g_task_new and g_task_run_in_thread, with a new GCancellable. *)
RefreshAsync(w) ==
  /\ task[w] = "none"
  /\ task' = [task EXCEPT ![w] = "queued"]
  /\ result' = [result EXCEPT ![w] = "unset"]
  /\ cancelled' = [cancelled EXCEPT ![w] = FALSE]
  /\ succeeded' = [succeeded EXCEPT ![w] = FALSE]
  /\ finish' = [finish EXCEPT ![w] = "none"]
  /\ UNCHANGED goaVars

(* The application cancels the refresh.  The thread is not stopped: the    *)
(* D-Bus call it is in may fail of it.                                     *)
CancelRefresh(w) ==
  /\ task[w] # "none" /\ ~cancelled[w]
  /\ cancelled' = [cancelled EXCEPT ![w] = TRUE]
  /\ UNCHANGED <<goaVars, task, result, succeeded, finish>>

ThreadFuncStarts(w) ==
  /\ task[w] = "queued"
  /\ Start(w, "refresh")
  /\ task' = [task EXCEPT ![w] = "running"]
  /\ UNCHANGED <<result, cancelled, succeeded, finish>>

(* Mutant: the error is not handed to the task. *)
ThreadFuncDropsError(w) ==
  /\ task[w] = "running" /\ Return(w)
  /\ succeeded' = [succeeded EXCEPT ![w] = ok[w]]
  /\ task' = [task EXCEPT ![w] = "complete"]
  /\ UNCHANGED <<result, cancelled, finish>>

(* msg_authorizer_refresh_authorization_thread_func after the refresh: an  *)
(* error is handed to the task, a success is not.  The error belongs to    *)
(* the g_autoptr too, which frees it as the function returns, before GTask *)
(* completes the task: it is left with a pointer to freed memory.          *)
ThreadFuncEnds(w) ==
  /\ task[w] = "running" /\ Return(w)
  /\ succeeded' = [succeeded EXCEPT ![w] = ok[w]]
  /\ result' = [result EXCEPT ![w] = IF ok[w] THEN @ ELSE "freed"]
  /\ task' = [task EXCEPT ![w] = "complete"]
  /\ UNCHANGED <<cancelled, finish>>

(* Mutant: what the task was given is handed on as it is. *)
CallbackUnset(w) ==
  /\ task[w] = "complete"
  /\ finish' = [finish EXCEPT ![w] = IF cancelled[w] THEN "error" ELSE result[w]]
  /\ task' = [task EXCEPT ![w] = "none"]
  /\ UNCHANGED <<goaVars, result, cancelled, succeeded>>

(* The main loop invokes the callback, which calls _finish: always FALSE.  *)
(* g_task_propagate_boolean makes an error of its own if the cancellable   *)
(* is cancelled by now, else passes on the task's; a task that was given   *)
(* nothing is FALSE without an error.                                      *)
Callback(w) ==
  /\ task[w] = "complete"
  /\ finish' = [finish EXCEPT ![w] = IF cancelled[w] THEN "error"
                                     ELSE IF result[w] = "unset" THEN "false" ELSE result[w]]
  /\ task' = [task EXCEPT ![w] = "none"]
  /\ UNCHANGED <<goaVars, result, cancelled, succeeded>>

Worker(w) ==
  \/ ThreadFuncStarts(w) \/ ThreadFuncEnds(w) \/ Callback(w)
  \/ GoaStep(w) /\ UNCHANGED tasks

(* The other threads call the synchronous operations. *)
Caller(t) ==
  /\ \/ Start(t, "refresh") \/ Start(t, "process") \/ GoaStep(t) \/ Return(t)
  /\ UNCHANGED tasks

Next == \/ \E w \in Workers : RefreshAsync(w) \/ CancelRefresh(w) \/ Worker(w)
        \/ \E t \in Threads \ Workers : Caller(t)

(* Workers run on, the service answers every D-Bus call, and the mutex is  *)
(* not denied for ever to a thread that keeps finding it free again.       *)
Fairness ==
  /\ \A w \in Workers : WF_vars(Worker(w)) /\ SF_vars(Lock(w) /\ UNCHANGED tasks)
  /\ \A t \in Threads \ Workers :
       WF_vars((GoaStep(t) \/ Return(t)) /\ UNCHANGED tasks)

Spec == Init /\ [][Next]_vars
FairSpec == Spec /\ Fairness

-----------------------------------------------------------------------------
(* What _finish leaves of the outcome.  It is never TRUE; but FALSE with   *)
(* the error left alone comes only of a refresh that succeeded, and an     *)
(* error that is not of the cancellable only of one that failed, although  *)
(* the outcome crosses threads while other calls succeed and fail.         *)
FailureTold == \A w \in Workers :
  /\ finish[w] = "false" => succeeded[w]
  /\ finish[w] = "freed" => ~succeeded[w]

(* "You can then call msg_authorizer_refresh_authorization_finish() to get *)
(* the result of the operation": TRUE if the authorizer now has a valid    *)
(* token, else an error that the caller can read and free; unless the      *)
(* application cancelled the refresh, of which GTask makes an error.       *)
ResultReported == \A w \in Workers : finish[w] # "none" /\ ~cancelled[w] =>
  finish[w] = IF succeeded[w] THEN "true" ELSE "error"

(* Every asynchronous refresh has its callback invoked. *)
CallbackInvoked == \A w \in Workers : task[w] # "none" ~> finish[w] # "none"
=============================================================================
