----------------------------- MODULE InputStream -----------------------------
(***************************************************************************)
(* MsgInputStream (src/msg-input-stream.c): a seekable GInputStream over   *)
(* the body of a GET request that is sent by the first read.  A seek drops *)
(* the body and records a Range header for the next request.  GIO's        *)
(* pending and closed flags serialise the operations of the application;   *)
(* between the start and the end of an asynchronous one it can still call  *)
(* tell, get_message, and try the others.  A file is its positions         *)
(* 0 .. FileSize - 1.                                                      *)
(***************************************************************************)
EXTENDS Integers

CONSTANTS FileSize,  \* bytes in the remote file
          MaxRead,   \* bytes a read asks for
          MaxOffset, \* bound: seeks go to -1 .. MaxOffset
          ErrorLength, \* Content-Length of an error response, 0 without one
          None       \* a NULL pointer

ASSUME SizesAssumption ==
  /\ FileSize \in Nat /\ MaxRead \in Nat \ {0} /\ MaxOffset \in Nat
  /\ ErrorLength \in 0 .. MaxOffset /\ FileSize <= MaxOffset

VARIABLES msg,           \* priv->msg: whether it has an Authorization header, and
                         \* whether redirects have led it elsewhere; or None
          contentLength, \* Content-Length of its response, 0 without one
          stream,        \* priv->stream: the body being read, or None
          range,         \* priv->range: first byte asked for, or None
          requestOffset, \* priv->request_offset
          offset,        \* priv->offset, which tell() returns
          pending, closed, \* flags of the GInputStream
          task,          \* the asynchronous operation under way
          stuck,         \* history: a seek could not close the old body
          last,          \* history: the outcome of the last call
          careful        \* history: no careless call so far (see Careless...)

priv == <<msg, contentLength, stream, range, requestOffset, offset>>
vars == <<msg, contentLength, stream, range, requestOffset, offset,
          pending, closed, task, stuck, last, careful>>

ErrorSize == 1 \* bytes in the body of an error response

Offsets == -1 .. MaxOffset
Messages == [signed : BOOLEAN, elsewhere : BOOLEAN]
Bodies  == [body : {"file", "error"}, pos : 0 .. FileSize + ErrorSize, refused : BOOLEAN]

(* NULL is neither a number nor an object. *)
ASSUME NoneAssumption == None \notin Int \cup Messages \cup Bodies

NoTask  == [kind |-> "none", range |-> None, request |-> 0]
Tasks   == [kind : {"none", "send", "read", "close"},
            range : Offsets \cup {None}, request : Offsets]

(* What a call returned: for a read the number of bytes (-1 for an error), *)
(* where in which body they come from, and tell() when it began; for a     *)
(* seek, whether it succeeded, its target relative to the end of the file  *)
(* if it was a G_SEEK_END, and tell() before it.                           *)
NoCall == [call |-> "none"]
ReadOutcome(n, body, at) ==
  [call |-> "read", n |-> n, body |-> body, at |-> at, tell |-> offset]
SeekOutcome(type, arg, ok) ==
  [call |-> "seek", type |-> type, arg |-> arg, ok |-> ok, tell |-> offset]

TypeOK ==
  /\ msg \in Messages \cup {None}
  /\ contentLength \in 0 .. MaxOffset
  /\ stream \in Bodies \cup {None}
  /\ range \in Offsets \cup {None}
  /\ requestOffset \in Offsets /\ offset \in -1 .. MaxOffset + FileSize + ErrorSize
  /\ pending \in BOOLEAN /\ closed \in BOOLEAN
  /\ task \in Tasks /\ stuck \in BOOLEAN /\ careful \in BOOLEAN

Init ==
  /\ msg = None /\ contentLength = 0 /\ stream = None
  /\ range = None /\ requestOffset = 0 /\ offset = 0
  /\ pending = FALSE /\ closed = FALSE /\ task = NoTask
  /\ stuck = FALSE /\ last = NoCall /\ careful = TRUE

-----------------------------------------------------------------------------
(* The server.  A negative offset goes out as a huge unsigned number.      *)

Response(status, start, pos, length) ==
  [status |-> status, start |-> start, pos |-> pos, length |-> length]

Whole == {Response("ok", None, 0, len) : len \in {0, FileSize}}
Failed == {Response("error", None, 0, ErrorLength)}
PartFrom(k) ==
  IF k \in 0 .. FileSize - 1
  THEN {Response("ok", k, k, len) : len \in {0, FileSize - k}}
  ELSE {Response("unsatisfiable", None, 0, ErrorLength)}

(* What may answer a request for `from`; a server may ignore the header. *)
Responses(from) == Failed \cup Whole \cup IF from = None THEN {} ELSE PartFrom(from)

BodyOf(r, refused) ==
  [body |-> IF r.status = "ok" THEN "file" ELSE "error",
   pos |-> r.pos, refused |-> refused]

SizeOf(s) == IF s.body = "file" THEN FileSize ELSE ErrorSize
Left(s) == IF s.pos >= SizeOf(s) THEN 0 ELSE SizeOf(s) - s.pos

(* A read returns some of what is asked for, 0 only at the end. *)
Counts(s) == IF Left(s) = 0 THEN {0}
             ELSE 1 .. IF Left(s) < MaxRead THEN Left(s) ELSE MaxRead
Advance(s, n) == [s EXCEPT !.pos = @ + n]

-----------------------------------------------------------------------------
(* msg_input_stream_ensure_msg: the message is built once, and building it *)
(* resets the position.  It is signed then or never: process_request adds  *)
(* no header while the authorizer has no token.                            *)
Ensured == IF msg = None THEN {[signed |-> b, elsewhere |-> FALSE] : b \in BOOLEAN}
                         ELSE {msg}
OffsetEnsured == IF msg = None THEN 0 ELSE offset

(* Mutant: the position is reset whenever the message is asked for.        *)
EnsureMsgResets == msg' \in Ensured /\ offset' = 0

EnsureMsg == msg' \in Ensured /\ offset' = OffsetEnsured

(* Mutant: the header is kept when a request is restarted.                 *)
OnRestartedKeeps(m) == m

(* on_restarted takes the header off, and nothing puts it back.            *)
OnRestarted(m) == [m EXCEPT !.signed = FALSE]

(* libsoup sends a message again on its own after a redirect, which leads  *)
(* elsewhere or back and changes the address for good, or after a broken   *)
(* connection or a challenge of the server, which do not.                  *)
Restarts(m) == {OnRestarted([m EXCEPT !.elsewhere = b]) : b \in BOOLEAN}

GetMessage ==
  /\ EnsureMsg
  /\ UNCHANGED <<contentLength, stream, range, requestOffset, pending, closed,
                 task, last, careful, stuck>>

(* GIO starts an operation only when none is pending on an open stream. *)
Idle == ~pending /\ ~closed

(* Careless: reading on from a response that a read has just refused. *)
CarelessRead == stream # None /\ stream.refused

ReadAsync ==
  /\ Idle
  /\ pending' = TRUE
  /\ careful' = (careful /\ ~CarelessRead)
  /\ \/ /\ stream = None
        /\ EnsureMsg
        /\ contentLength' = 0
        /\ task' = [kind |-> "send", range |-> range, request |-> requestOffset]
        /\ UNCHANGED <<stream, range, requestOffset>>
     \/ /\ stream # None
        /\ task' = [NoTask EXCEPT !.kind = "read"]
        /\ UNCHANGED priv
  /\ UNCHANGED <<closed, last, stuck>>

(* Mutant: pending is not cleared when a read ends. *)
ReadReturnsPending(outcome) ==
  /\ task' = NoTask /\ last' = outcome /\ UNCHANGED pending

(* The end of an asynchronous read: GIO clears pending. *)
ReadReturns(outcome) ==
  /\ task' = NoTask /\ pending' = FALSE /\ last' = outcome

(* Mutant: the Content-Range of the response is not compared. *)
AcceptsAnyRange(r) == r.status = "ok"

(* Whether read_send_callback goes on to read the body.  A response for    *)
(* another range is an error.                                              *)
Accepts(r) == r.status = "ok" /\ (range # None => r.start = requestOffset)

(* The request on its way is sent again before it is answered.             *)
Restart ==
  /\ task.kind = "send"
  /\ msg' \in Restarts(msg)
  /\ UNCHANGED <<contentLength, stream, range, requestOffset, offset, pending,
                 closed, task, last, careful, stuck>>

(* read_send_callback.  A refused body stays in priv->stream, except that  *)
(* an unsatisfiable range is the end of the file.                          *)
SendFails ==
  /\ task.kind = "send"
  /\ ReadReturns(ReadOutcome(-1, "none", 0))
  /\ UNCHANGED <<priv, closed, careful, stuck>>

SendDone ==
  /\ task.kind = "send"
  /\ \E r \in Responses(task.range) :
       /\ contentLength' = r.length
       /\ \/ /\ r.status = "unsatisfiable"
             /\ ReadReturns(ReadOutcome(0, "none", 0))
             /\ UNCHANGED stream
          \/ /\ r.status # "unsatisfiable" /\ ~Accepts(r)
             /\ stream' = BodyOf(r, TRUE)
             /\ ReadReturns(ReadOutcome(-1, "none", 0))
          \/ /\ Accepts(r)
             /\ stream' = BodyOf(r, FALSE)
             /\ task' = [NoTask EXCEPT !.kind = "read"]
             /\ UNCHANGED <<pending, last>>
  /\ UNCHANGED <<msg, range, requestOffset, offset, closed, careful, stuck>>

(* Mutant: the bytes asked for are counted, not those that were read. *)
ReadDoneCountsAsked ==
  /\ task.kind = "read"
  /\ \E n \in Counts(stream) :
       /\ ReadReturns(ReadOutcome(n, stream.body, stream.pos))
       /\ stream' = Advance(stream, n)
  /\ offset' = offset + MaxRead
  /\ UNCHANGED <<msg, contentLength, range, requestOffset, closed, careful, stuck>>

(* read_callback: what was read, or an error of the connection; or the     *)
(* read was cancelled too late, when the bytes had been counted, and the   *)
(* task reports the cancellation in their place.                           *)
ReadDone ==
  /\ task.kind = "read"
  /\ \/ \E n \in Counts(stream) :
          /\ ReadReturns(ReadOutcome(n, stream.body, stream.pos))
          /\ stream' = Advance(stream, n)
          /\ offset' = offset + n
     \/ \E n \in Counts(stream) :
          /\ ReadReturns(ReadOutcome(-1, "cancelled", 0))
          /\ stream' = Advance(stream, n)
          /\ offset' = offset + n
     \/ /\ ReadReturns(ReadOutcome(-1, "none", 0))
        /\ UNCHANGED <<stream, offset>>
  /\ UNCHANGED <<msg, contentLength, range, requestOffset, closed, careful, stuck>>

(* msg_input_stream_read_fn: the synchronous read, which looks at neither  *)
(* status nor range (a 429 with a Retry-After is sent again) and does not  *)
(* count what it reads.                                                    *)
ReadSync ==
  /\ Idle
  /\ careful' = FALSE
  /\ \/ /\ stream = None
        /\ offset' = OffsetEnsured
        /\ msg' \in Ensured \cup UNION {Restarts(m) : m \in Ensured}
        /\ \/ /\ contentLength' = 0
              /\ last' = ReadOutcome(-1, "none", 0)
              /\ UNCHANGED stream
           \/ \E r \in Responses(range) : \E n \in Counts(BodyOf(r, FALSE)) :
                /\ contentLength' = r.length
                /\ stream' = Advance(BodyOf(r, FALSE), n)
                /\ last' = ReadOutcome(n, stream'.body, r.pos)
     \/ /\ stream # None
        /\ \/ \E n \in Counts(stream) :
                /\ stream' = Advance(stream, n)
                /\ last' = ReadOutcome(n, stream.body, stream.pos)
           \/ last' = ReadOutcome(-1, "none", 0) /\ UNCHANGED stream
        /\ UNCHANGED <<msg, contentLength, offset>>
  /\ UNCHANGED <<range, requestOffset, pending, closed, task, stuck>>

-----------------------------------------------------------------------------
(* msg_input_stream_seek. *)

(* G_SEEK_END becomes G_SEEK_SET when the last response had a length. *)
EndKnown == msg # None /\ contentLength # 0

Target(type, o) == CASE type = "set" -> o
                     [] type = "cur" -> offset + o
                     [] type = "end" -> requestOffset + contentLength + o

(* G_SEEK_END without a length, or an operation pending, or a closed stream.*)
SeekRefused ==
  \E type \in {"set", "cur", "end"} :
    /\ (type = "end" /\ ~EndKnown) \/ ~Idle
    /\ last' = SeekOutcome(type, 0, FALSE)
    /\ UNCHANGED <<priv, pending, closed, task, careful, stuck>>

(* Mutant: the new position is recorded before the old body is closed. *)
SeekCloseFailsMoved ==
  \E type \in {"set", "cur", "end"}, o \in -FileSize .. MaxOffset :
    /\ type = "end" => EndKnown
    /\ Idle /\ stream # None /\ Target(type, o) \in Offsets
    /\ offset' = Target(type, o)
    /\ pending' = TRUE /\ stuck' = TRUE
    /\ last' = SeekOutcome(type, 0, FALSE)
    /\ UNCHANGED <<msg, contentLength, stream, range, requestOffset, closed, task,
                   careful>>

(* Closing the old body fails: pending stays set. *)
SeekCloseFails ==
  \E type \in {"set", "cur", "end"} :
    /\ type = "end" => EndKnown
    /\ Idle /\ stream # None
    /\ pending' = TRUE /\ stuck' = TRUE
    /\ last' = SeekOutcome(type, 0, FALSE)
    /\ UNCHANGED <<priv, closed, task, careful>>

(* Careless: seeking before the message exists, whose building resets the  *)
(* position.                                                               *)
CarelessSeek == msg = None

SeekTo(o) == range' = o /\ requestOffset' = o /\ offset' = o

(* Mutant: the body read so far is kept. *)
SeekKeepsStream ==
  \E o \in 0 .. MaxOffset :
    /\ Idle /\ SeekTo(o)
    /\ last' = SeekOutcome("set", o, TRUE)
    /\ careful' = (careful /\ ~CarelessSeek)
    /\ UNCHANGED <<msg, contentLength, stream, pending, closed, task, stuck>>

(* Mutant: a seek does not ask for the pending flag. *)
SeekWhilePending ==
  \E o \in 0 .. MaxOffset :
    /\ stream' = None /\ SeekTo(o)
    /\ last' = SeekOutcome("set", o, TRUE)
    /\ careful' = (careful /\ ~CarelessSeek)
    /\ UNCHANGED <<msg, contentLength, pending, closed, task, stuck>>

Seek ==
  \E type \in {"set", "cur", "end"}, o \in -FileSize .. MaxOffset :
    /\ type = "end" => EndKnown
    /\ Idle
    /\ Target(type, o) \in Offsets
    /\ stream' = None
    /\ SeekTo(Target(type, o))
    /\ last' = SeekOutcome(type, o, TRUE)
    /\ careful' = (careful /\ ~CarelessSeek)
    /\ UNCHANGED <<msg, contentLength, pending, closed, task, stuck>>

-----------------------------------------------------------------------------
(* Closing: the body is closed but stays in priv->stream; GIO marks the    *)
(* stream closed whether or not that succeeds.  The synchronous close of   *)
(* GIO finds no close_fn and only marks it.                                *)
CloseAsync ==
  /\ Idle
  /\ pending' = TRUE
  /\ task' = [NoTask EXCEPT !.kind = "close"]
  /\ UNCHANGED <<priv, closed, last, careful, stuck>>

CloseDone ==
  /\ task.kind = "close"
  /\ task' = NoTask /\ pending' = FALSE /\ closed' = TRUE
  /\ UNCHANGED <<priv, last, careful, stuck>>

Close ==
  /\ Idle
  /\ closed' = TRUE
  /\ UNCHANGED <<priv, pending, task, last, careful, stuck>>

Application == GetMessage \/ ReadAsync \/ ReadSync \/ Seek \/ SeekRefused
               \/ SeekCloseFails \/ CloseAsync \/ Close
Completion  == Restart \/ SendFails \/ SendDone \/ ReadDone \/ CloseDone

Next == Application \/ Completion
Spec == Init /\ [][Next]_vars

-----------------------------------------------------------------------------
(* What an asynchronous read delivers are the bytes of the file at the     *)
(* position tell() had: neither the body of an error response, nor bytes   *)
(* of another range the server sent instead, nor of a body from before a   *)
(* seek.  Only for an application that is careful in three respects: it    *)
(* uses the asynchronous read, does not seek before there is a message,    *)
(* and does not read on from a response that was refused.                  *)
ReadsAtTell ==
  careful /\ last.call = "read" /\ last.n > 0
    => last.body = "file" /\ last.at = last.tell

(* Such an application is told end of file only outside of the file, also  *)
(* where the server answers that the range cannot be satisfied.            *)
EndOfFile ==
  careful /\ last.call = "read" /\ last.n = 0
    => last.tell \notin 0 .. FileSize - 1

(* While a request is on its way, no other operation replaces the range    *)
(* and the offset that read_send_callback compares its answer with.        *)
RequestInForce ==
  task.kind = "send" => /\ stream = None
                        /\ task.range = range /\ task.request = requestOffset

(* The pending flag is set exactly while an asynchronous operation is      *)
(* under way, over every early return and callback; but a seek that could  *)
(* not close the old body leaves it set for good, and no later operation   *)
(* can start.                                                              *)
PendingIsTask ==
  /\ pending <=> task.kind # "none" \/ stuck
  /\ stuck => task.kind = "none"

(* A read or a seek that fails, and a read at the end, leave the position  *)
(* and the range of the next request alone; only a read that was cancelled *)
(* too late has moved the position past bytes that it did not deliver.     *)
FailureKeepsPosition ==
  [][ last' # last /\ careful' =>
        \/ last'.call = "read" /\ (last'.n > 0 \/ last'.body = "cancelled")
        \/ last'.call = "seek" /\ last'.ok
        \/ UNCHANGED <<offset, range, requestOffset>> ]_vars

(* A message that redirects have led away from the service has no          *)
(* Authorization header, now or in any later request of the same stream,   *)
(* also where a redirect leads back first and then away again.             *)
TokenStaysHome == msg # None /\ msg.elsewhere => ~msg.signed

(* For an application that is careful in the same respects, the stream is  *)
(* a reader of the file: over any number of reads, seeks, failures, late   *)
(* cancellations and requests in between, tell() is the position and the   *)
(* bytes delivered are the ones there.                                     *)
Returned == CASE last.call = "read" -> [n |-> last.n, at |-> last.at]
              [] last.call = "seek" /\ last.ok -> [n |-> -2, to |-> range]
              [] last.call = "seek" /\ ~last.ok -> [n |-> -3]
              [] OTHER -> [n |-> -4]
Reader == INSTANCE FileReader WITH pos <- offset, out <- Returned, defined <- careful
FileImplemented == Reader!Spec

(* A G_SEEK_END that succeeds lets tell() answer with the distance asked   *)
(* for from the end of the file, which is why it is refused while the      *)
(* length is unknown.                                                      *)
SeekEndAtEnd ==
  careful /\ last.call = "seek" /\ last.ok /\ last.type = "end"
    => offset = FileSize + last.arg
=============================================================================
