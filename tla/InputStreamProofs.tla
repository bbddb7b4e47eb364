------------------------- MODULE InputStreamProofs --------------------------
(***************************************************************************)
(* Proofs about InputStream, for files, reads and seeks of any size.       *)
(***************************************************************************)
EXTENDS InputStream, TLAPS

-----------------------------------------------------------------------------
(* The inductive invariant.                                                *)

(* The body of a response is read to its end and no further, and what has  *)
(* been counted since the last seek is no more than was read of it.        *)
BodyInv ==
  /\ stream # None => /\ msg # None
                      /\ stream.pos <= SizeOf(stream)
                      /\ offset <= MaxOffset + stream.pos
  /\ stream = None => offset <= MaxOffset

(* What the callback of a task finds when it is invoked.                   *)
TaskInv ==
  /\ task.kind = "send" => msg # None /\ RequestInForce
  /\ task.kind = "read" => stream # None /\ (careful => ~stream.refused)
  /\ PendingIsTask

(* The range of the next request is the offset its answer is compared with.*)
RangeInv == requestOffset = IF range = None THEN 0 ELSE range

(* For a careful application, tell() is where the next request will begin, *)
(* or where the accepted body stands; only while a refused body is left    *)
(* behind it is neither.                                                   *)
PositionInv == careful =>
  /\ msg = None => offset = 0 /\ range = None
  /\ stream = None => offset = requestOffset
  /\ stream # None /\ ~stream.refused => stream.body = "file" /\ stream.pos = offset

Inv == /\ TypeOK /\ BodyInv /\ TokenStaysHome /\ TaskInv /\ RangeInv /\ PositionInv
       /\ ReadsAtTell /\ EndOfFile

-----------------------------------------------------------------------------
USE SizesAssumption, NoneAssumption DEF ErrorSize

(* What a server may answer to a request for `from`: an accepted answer    *)
(* begins where it says, and only a range outside of the file cannot be    *)
(* satisfied.                                                              *)
LEMMA ResponseFacts ==
  ASSUME NEW from \in Offsets \cup {None}, NEW r \in Responses(from)
  PROVE  /\ r.status \in {"ok", "error", "unsatisfiable"}
         /\ r.start \in Int \cup {None}
         /\ r.pos \in 0 .. FileSize /\ r.length \in 0 .. MaxOffset
         /\ r.status # "ok" => r.pos = 0
         /\ r.status = "ok" => r.pos = IF r.start = None THEN 0 ELSE r.start
         /\ r.status = "unsatisfiable" => from # None /\ from \notin 0 .. FileSize - 1
<1>1. CASE r \in Failed \cup Whole
  BY <1>1 DEF Failed, Whole, Response
<1>2. CASE from # None /\ r \in PartFrom(from)
  <2>1. CASE from \in 0 .. FileSize - 1
    BY <1>2, <2>1 DEF PartFrom, Response
  <2>2. CASE from \notin 0 .. FileSize - 1
    BY <1>2, <2>2 DEF PartFrom, Response
  <2> QED  BY <2>1, <2>2
<1> QED  BY <1>1, <1>2 DEF Responses

(* The body of an answer, of which nothing has been read.                  *)
LEMMA BodyOfFacts ==
  ASSUME NEW from \in Offsets \cup {None}, NEW r \in Responses(from),
         NEW refused \in BOOLEAN
  PROVE  /\ BodyOf(r, refused) \in Bodies
         /\ BodyOf(r, refused).pos = r.pos /\ BodyOf(r, refused).refused = refused
         /\ r.status = "ok" => BodyOf(r, refused).body = "file"
         /\ r.pos <= SizeOf(BodyOf(r, refused))
BY ResponseFacts DEF BodyOf, Bodies, SizeOf

(* A read goes on by what it returns, and returns nothing only at the end. *)
LEMMA AdvanceFacts ==
  ASSUME NEW s \in Bodies, s.pos <= SizeOf(s), NEW n \in Counts(s)
  PROVE  /\ n \in Nat
         /\ Advance(s, n) \in Bodies
         /\ Advance(s, n).pos = s.pos + n /\ Advance(s, n).pos <= SizeOf(Advance(s, n))
         /\ Advance(s, n).body = s.body /\ Advance(s, n).refused = s.refused
         /\ n = 0 => s.pos = SizeOf(s)
<1>1. SizeOf(s) \in Nat /\ s.pos \in Nat /\ SizeOf(s) <= FileSize + 1
  BY DEF SizeOf, Bodies
<1>2. n \in Nat /\ s.pos + n <= SizeOf(s) /\ (n = 0 => s.pos = SizeOf(s))
  <2>1. CASE Left(s) = 0
    BY <1>1, <2>1 DEF Left, Counts
  <2>2. CASE Left(s) # 0
    BY <1>1, <2>2 DEF Left, Counts
  <2> QED  BY <2>1, <2>2
<1>3. Advance(s, n) = [s EXCEPT !.pos = s.pos + n]
  BY DEF Advance
<1>4. SizeOf(Advance(s, n)) = SizeOf(s)
  BY <1>3 DEF SizeOf, Bodies
<1> QED  BY <1>1, <1>2, <1>3, <1>4 DEF Bodies, SizeOf

(* Asking for the message makes one, and moves the position only if there  *)
(* was none.                                                               *)
LEMMA EnsureMsgFacts ==
  ASSUME TypeOK, TokenStaysHome, EnsureMsg
  PROVE  /\ msg' \in Messages /\ msg' # None /\ (msg'.elsewhere => ~msg'.signed)
         /\ offset' = IF msg = None THEN 0 ELSE offset
<1>1. \A b \in BOOLEAN : [signed |-> b, elsewhere |-> FALSE] \in Messages
  BY DEF Messages
<1> QED  BY <1>1 DEF TypeOK, TokenStaysHome, EnsureMsg, Ensured, OffsetEnsured

(* Whatever a message is sent again for, it has lost its header.           *)
LEMMA RestartsFacts ==
  ASSUME NEW m \in Messages, NEW n \in Restarts(m)
  PROVE  n \in Messages /\ ~n.signed
BY DEF Messages, Restarts, OnRestarted

(* The tasks there are.                                                    *)
LEMMA TaskFacts ==
  /\ NoTask \in Tasks /\ NoTask.kind = "none"
  /\ \A k \in {"read", "close"} :
       [NoTask EXCEPT !.kind = k] \in Tasks /\ [NoTask EXCEPT !.kind = k].kind = k
BY DEF NoTask, Tasks, Offsets

-----------------------------------------------------------------------------
LEMMA InvInit == Init => Inv
<1> SUFFICES ASSUME Init PROVE Inv
  OBVIOUS
<1> USE DEF Init
<1>1. TypeOK
  <2>1. task \in Tasks
    BY TaskFacts
  <2>2. msg \in Messages \cup {None} /\ stream \in Bodies \cup {None}
    OBVIOUS
  <2>3. range \in Offsets \cup {None}
    OBVIOUS
  <2>4. requestOffset \in Offsets /\ offset \in -1 .. MaxOffset + FileSize + ErrorSize
    BY DEF Offsets
  <2>5. contentLength \in 0 .. MaxOffset
    OBVIOUS
  <2> QED  BY ONLY Init, <2>1, <2>2, <2>3, <2>4, <2>5 DEF TypeOK
<1>2. BodyInv /\ TokenStaysHome /\ RangeInv /\ PositionInv
  BY DEF BodyInv, TokenStaysHome, RangeInv, PositionInv
<1>3. TaskInv /\ ReadsAtTell /\ EndOfFile
  BY TaskFacts DEF TaskInv, NoCall, PendingIsTask, ReadsAtTell, EndOfFile
<1> QED  BY <1>1, <1>2, <1>3 DEF Inv

USE TaskFacts DEF priv

LEMMA InvGetMessage == Inv /\ GetMessage => Inv'
<1> SUFFICES ASSUME Inv, GetMessage PROVE Inv'
  OBVIOUS
<1> USE EnsureMsgFacts DEF Inv, GetMessage
<1>1. TypeOK'
  BY DEF TypeOK, Offsets
<1>2. BodyInv' /\ TokenStaysHome' /\ RangeInv' /\ PositionInv'
  BY DEF TypeOK, Bodies, SizeOf, BodyInv, TokenStaysHome, RangeInv, PositionInv
<1>3. TaskInv' /\ ReadsAtTell' /\ EndOfFile'
  BY DEF TaskInv, PendingIsTask, RequestInForce, ReadsAtTell, EndOfFile
<1> QED  BY <1>1, <1>2, <1>3

LEMMA InvReadAsync == Inv /\ ReadAsync => Inv'
<1> SUFFICES ASSUME Inv, ReadAsync PROVE Inv'
  OBVIOUS
<1> USE DEF Inv, ReadAsync
<1>1. CASE stream = None
  <2>0. /\ msg' \in Messages /\ msg' # None /\ (msg'.elsewhere => ~msg'.signed)
        /\ offset' = IF msg = None THEN 0 ELSE offset
        /\ task' \in Tasks /\ task'.kind = "send"
        /\ task'.range = range /\ task'.request = requestOffset
    BY <1>1, EnsureMsgFacts DEF TypeOK, Tasks
  <2> USE <1>1, <2>0
  <2>1. TypeOK'
    BY DEF TypeOK, Offsets
  <2>2. BodyInv' /\ TokenStaysHome' /\ RangeInv' /\ PositionInv'
    BY DEF TypeOK, BodyInv, TokenStaysHome, RangeInv, PositionInv
  <2>3. TaskInv' /\ ReadsAtTell' /\ EndOfFile'
    BY DEF TypeOK, Idle, TaskInv, PendingIsTask, RequestInForce, ReadsAtTell, EndOfFile
  <2> QED  BY <2>1, <2>2, <2>3
<1>2. CASE stream # None
  <2> USE <1>2
  <2>1. TypeOK'
    BY DEF TypeOK, Offsets
  <2>2. BodyInv' /\ TokenStaysHome' /\ RangeInv' /\ PositionInv'
    BY DEF TypeOK, SizeOf, BodyInv, TokenStaysHome, RangeInv, PositionInv
  <2>3. TaskInv' /\ ReadsAtTell' /\ EndOfFile'
    BY DEF TypeOK, Idle, CarelessRead, TaskInv, PendingIsTask, RequestInForce,
           ReadsAtTell, EndOfFile
  <2> QED  BY <2>1, <2>2, <2>3
<1> QED  BY <1>1, <1>2

LEMMA InvRestart == Inv /\ Restart => Inv'
<1> SUFFICES ASSUME Inv, Restart PROVE Inv'
  OBVIOUS
<1> USE DEF Inv, Restart
<1>0. msg' \in Messages /\ ~msg'.signed
  BY RestartsFacts DEF TypeOK, TaskInv
<1>1. TypeOK' /\ msg' # None
  BY <1>0 DEF TypeOK
<1>2. BodyInv' /\ TokenStaysHome' /\ RangeInv' /\ PositionInv'
  BY <1>0, <1>1 DEF SizeOf, BodyInv, TokenStaysHome, RangeInv, PositionInv, TaskInv
<1>3. TaskInv' /\ ReadsAtTell' /\ EndOfFile'
  BY <1>1 DEF TaskInv, PendingIsTask, RequestInForce, ReadsAtTell, EndOfFile
<1> QED  BY <1>1, <1>2, <1>3

LEMMA InvSendFails == Inv /\ SendFails => Inv'
<1> SUFFICES ASSUME Inv, SendFails PROVE Inv'
  OBVIOUS
<1> USE DEF Inv, SendFails, ReadReturns, ReadOutcome
<1>1. TypeOK'
  BY DEF TypeOK, Offsets
<1>2. BodyInv' /\ TokenStaysHome' /\ RangeInv' /\ PositionInv'
  BY DEF SizeOf, BodyInv, TokenStaysHome, RangeInv, PositionInv
<1>3. TaskInv' /\ ReadsAtTell' /\ EndOfFile'
  BY DEF TaskInv, PendingIsTask, RequestInForce, ReadsAtTell, EndOfFile
<1> QED  BY <1>1, <1>2, <1>3

(* The request in force is the one for the position of a careful           *)
(* application, so that the answer accepted is the one from there.         *)
LEMMA InvSendDone == Inv /\ SendDone => Inv'
<1> SUFFICES ASSUME Inv, SendDone PROVE Inv'
  OBVIOUS
<1> USE DEF Inv, ReadReturns, ReadOutcome
<1>1. /\ task.kind = "send" /\ msg # None /\ stream = None
      /\ task.range = range /\ range \in Offsets \cup {None}
      /\ UNCHANGED <<msg, range, requestOffset, offset, closed, careful, stuck>>
  BY DEF SendDone, TaskInv, RequestInForce, TypeOK
<1>2. PICK r \in Responses(range) :
        /\ contentLength' = r.length
        /\ \/ /\ r.status = "unsatisfiable"
              /\ ReadReturns(ReadOutcome(0, "none", 0))
              /\ UNCHANGED stream
           \/ /\ r.status # "unsatisfiable" /\ ~Accepts(r)
              /\ stream' = BodyOf(r, TRUE)
              /\ ReadReturns(ReadOutcome(-1, "none", 0))
           \/ /\ Accepts(r)
              /\ stream' = BodyOf(r, FALSE)
              /\ task' = [NoTask EXCEPT !.kind = "read"]
              /\ UNCHANGED <<pending, last>>
  BY <1>1 DEF SendDone
<1>3. /\ r.length \in 0 .. MaxOffset /\ r.pos \in Nat
      /\ r.status = "ok" => r.pos = IF r.start = None THEN 0 ELSE r.start
      /\ r.status = "unsatisfiable" => range # None /\ range \notin 0 .. FileSize - 1
  BY <1>1, ResponseFacts
<1>4. CASE /\ r.status = "unsatisfiable"
           /\ ReadReturns(ReadOutcome(0, "none", 0))
           /\ UNCHANGED stream
  <2> USE <1>1, <1>2, <1>3, <1>4
  <2>1. TypeOK'
    BY DEF TypeOK, Offsets
  <2>2. BodyInv' /\ TokenStaysHome' /\ RangeInv' /\ PositionInv'
    BY DEF BodyInv, TokenStaysHome, RangeInv, PositionInv
  <2>3. TaskInv' /\ ReadsAtTell' /\ EndOfFile'
    BY DEF TaskInv, PendingIsTask, RequestInForce, ReadsAtTell, EndOfFile,
           PositionInv, RangeInv
  <2> QED  BY <2>1, <2>2, <2>3
<1>5. CASE /\ r.status # "unsatisfiable" /\ ~Accepts(r)
           /\ stream' = BodyOf(r, TRUE)
           /\ ReadReturns(ReadOutcome(-1, "none", 0))
  <2>1. /\ stream' \in Bodies /\ stream' # None /\ stream'.refused
        /\ stream'.pos = r.pos /\ stream'.pos <= SizeOf(stream')
    <3>1. r \in Responses(range) /\ range \in Offsets \cup {None}
      BY <1>1
    <3>2. stream' \in Bodies /\ stream'.refused = TRUE /\ stream'.pos = r.pos
      BY ONLY <3>1, <1>5, BodyOfFacts
    <3>3. stream'.pos <= SizeOf(stream')
      BY ONLY <3>1, <3>2, <1>5, BodyOfFacts
    <3> QED  BY <3>2, <3>3
  <2> USE <1>1, <1>2, <1>3, <1>5, <2>1
  <2>2. TypeOK'
    BY DEF TypeOK, Offsets
  <2>3. BodyInv'
    <3>1. offset' <= MaxOffset /\ offset' \in Int /\ msg' # None
      BY DEF TypeOK, BodyInv
    <3>2. offset' <= MaxOffset + stream'.pos
      BY ONLY <1>3, <2>1, <3>1, SizesAssumption
    <3>3. stream'.pos <= SizeOf(stream)'
      BY DEF SizeOf
    <3> QED  BY ONLY <2>1, <3>1, <3>2, <3>3 DEF BodyInv
  <2>4. TokenStaysHome' /\ RangeInv' /\ PositionInv'
    BY DEF TokenStaysHome, RangeInv, PositionInv
  <2>5. TaskInv'
    BY DEF TaskInv, PendingIsTask, RequestInForce
  <2>6. ReadsAtTell' /\ EndOfFile'
    BY DEF ReadsAtTell, EndOfFile
  <2> QED  BY <2>2, <2>3, <2>4, <2>5, <2>6
<1>6. CASE /\ Accepts(r)
           /\ stream' = BodyOf(r, FALSE)
           /\ task' = [NoTask EXCEPT !.kind = "read"]
           /\ UNCHANGED <<pending, last>>
  <2>0. stream' = BodyOf(r, FALSE) /\ r.status = "ok"
    BY <1>6 DEF Accepts
  <2>1. /\ stream' \in Bodies /\ stream' # None /\ ~stream'.refused
        /\ stream'.pos = r.pos /\ stream'.pos <= SizeOf(stream')
        /\ stream'.body = "file"
    <3>1. r \in Responses(range) /\ range \in Offsets \cup {None}
      BY <1>1
    <3>2. stream' \in Bodies
      BY ONLY <3>1, <2>0, BodyOfFacts
    <3>3. stream'.pos = r.pos /\ stream'.refused = FALSE
      BY ONLY <3>1, <2>0, BodyOfFacts
    <3>4. stream'.body = "file" /\ stream'.pos <= SizeOf(stream')
      BY ONLY <3>1, <3>3, <2>0, BodyOfFacts
    <3> QED  BY <3>2, <3>3, <3>4
  <2>2. ASSUME range = None PROVE r.pos = requestOffset
    <3>1. r.start = None
      BY <1>2, <2>0, <2>2 DEF Responses, Failed, Whole, Response
    <3> QED  BY <1>3, <2>0, <2>2, <3>1 DEF RangeInv
  <2>3. ASSUME range # None PROVE r.pos = requestOffset
    <3>1. r.start = requestOffset /\ requestOffset # None
      BY <1>6, <2>3 DEF Accepts, TypeOK, Offsets
    <3> QED  BY <1>3, <2>0, <3>1
  <2>4. r.pos = requestOffset
    BY <2>2, <2>3
  <2> USE <1>1, <1>3, <1>6, <2>1, <2>4
  <2>5. TypeOK'
    BY <1>2 DEF TypeOK, Offsets
  <2>6. BodyInv'
    <3>1. offset' <= MaxOffset /\ offset' \in Int /\ msg' # None
      BY DEF TypeOK, BodyInv
    <3>2. offset' <= MaxOffset + stream'.pos
      BY ONLY <1>3, <2>1, <3>1, SizesAssumption
    <3>3. stream'.pos <= SizeOf(stream)'
      BY DEF SizeOf
    <3> QED  BY ONLY <2>1, <3>1, <3>2, <3>3 DEF BodyInv
  <2>7. TokenStaysHome' /\ RangeInv' /\ PositionInv'
    BY DEF TokenStaysHome, RangeInv, PositionInv
  <2>8. TaskInv' /\ ReadsAtTell' /\ EndOfFile'
    BY DEF TaskInv, PendingIsTask, RequestInForce, ReadsAtTell, EndOfFile
  <2> QED  BY <2>5, <2>6, <2>7, <2>8
<1> QED  BY <1>2, <1>4, <1>5, <1>6

LEMMA InvReadDone == Inv /\ ReadDone => Inv'
<1> SUFFICES ASSUME Inv, ReadDone PROVE Inv'
  OBVIOUS
<1> USE DEF Inv, ReadReturns, ReadOutcome
<1>1. /\ task.kind = "read" /\ stream # None /\ stream \in Bodies
      /\ stream.pos <= SizeOf(stream) /\ (careful => ~stream.refused) /\ msg # None
      /\ UNCHANGED <<msg, contentLength, range, requestOffset, closed, careful, stuck>>
  BY DEF ReadDone, TypeOK, TaskInv, BodyInv
<1>2. ASSUME NEW n \in Counts(stream), stream' = Advance(stream, n), offset' = offset + n,
             NEW d \in {n, -1}, NEW b, NEW at,
             ReadReturns(ReadOutcome(d, b, at)),
             d = n => b = stream.body /\ at = stream.pos
      PROVE  Inv'
  <2>1. /\ stream' \in Bodies /\ stream' # None /\ n \in Nat
        /\ stream'.pos = stream.pos + n /\ stream'.pos <= SizeOf(stream')
        /\ stream'.body = stream.body /\ stream'.refused = stream.refused
        /\ n = 0 => stream.pos = SizeOf(stream)
    BY <1>1, <1>2, AdvanceFacts
  <2> USE <1>1, <1>2, <2>1
  <2>2. stream'.pos <= FileSize + ErrorSize /\ stream.pos \in Nat
    BY DEF SizeOf, Bodies
  <2>3. TypeOK'
    <3>1. offset' \in -1 .. MaxOffset + FileSize + ErrorSize
      BY <2>2 DEF TypeOK, Bodies, BodyInv
    <3> QED  BY <3>1 DEF TypeOK
  <2>4. BodyInv' /\ TokenStaysHome' /\ RangeInv'
    BY <2>2 DEF TypeOK, BodyInv, TokenStaysHome, RangeInv
  <2>5. PositionInv' /\ TaskInv'
    BY DEF PositionInv, TaskInv, PendingIsTask, RequestInForce
  <2>6. careful => stream.body = "file" /\ stream.pos = offset
    BY DEF PositionInv
  <2>7. ReadsAtTell' /\ EndOfFile'
    BY <2>6 DEF ReadsAtTell, EndOfFile, SizeOf
  <2> QED  BY <2>3, <2>4, <2>5, <2>7
<1>3. ASSUME ReadReturns(ReadOutcome(-1, "none", 0)), UNCHANGED <<stream, offset>>
      PROVE  Inv'
  <2> USE <1>1, <1>3
  <2>1. TypeOK'
    BY DEF TypeOK, Offsets
  <2>2. BodyInv' /\ TokenStaysHome' /\ RangeInv' /\ PositionInv'
    BY DEF SizeOf, BodyInv, TokenStaysHome, RangeInv, PositionInv
  <2>3. TaskInv' /\ ReadsAtTell' /\ EndOfFile'
    BY DEF TaskInv, PendingIsTask, RequestInForce, ReadsAtTell, EndOfFile
  <2> QED  BY <2>1, <2>2, <2>3
<1>4. ASSUME NEW n \in Counts(stream), stream' = Advance(stream, n), offset' = offset + n,
             \/ ReadReturns(ReadOutcome(n, stream.body, stream.pos))
             \/ ReadReturns(ReadOutcome(-1, "cancelled", 0))
      PROVE  Inv'
  <2>1. CASE ReadReturns(ReadOutcome(n, stream.body, stream.pos))
    BY ONLY <1>4, <2>1, <1>2
  <2>2. CASE ReadReturns(ReadOutcome(-1, "cancelled", 0))
    <3>1. n # -1
      BY <1>1, <1>4, AdvanceFacts
    <3> QED  BY ONLY <1>4, <2>2, <1>2, <3>1
  <2> QED  BY <1>4, <2>1, <2>2
<1> QED  BY <1>3, <1>4 DEF ReadDone

(* After a synchronous read nothing is promised about the position, but    *)
(* what the other parts of the invariant say still holds.                  *)
LEMMA InvReadSync == Inv /\ ReadSync => Inv'
<1> SUFFICES ASSUME Inv, ReadSync PROVE Inv'
  OBVIOUS
<1> USE DEF Inv
<1>1. /\ ~pending /\ ~closed /\ careful' = FALSE /\ task.kind = "none"
      /\ UNCHANGED <<range, requestOffset, pending, closed, task, stuck>>
  BY DEF ReadSync, Idle, TypeOK, TaskInv, PendingIsTask, Tasks
<1>2. /\ msg' \in Messages \cup {None} /\ stream' \in Bodies \cup {None}
      /\ contentLength' \in 0 .. MaxOffset
      /\ offset' \in -1 .. MaxOffset + FileSize + ErrorSize
      /\ BodyInv' /\ TokenStaysHome'
  <2>1. CASE stream = None
    <3>1. /\ msg' \in Messages /\ msg' # None /\ (msg'.elsewhere => ~msg'.signed)
          /\ offset' = OffsetEnsured
      <4>1. \A b \in BOOLEAN : [signed |-> b, elsewhere |-> FALSE] \in Messages
        BY DEF Messages
      <4>2. \A m \in Ensured : m \in Messages /\ (m.elsewhere => ~m.signed)
        BY <4>1 DEF Ensured, TypeOK, TokenStaysHome
      <4>3. PICK m \in Ensured : msg' = m \/ msg' \in Restarts(m)
        BY <2>1 DEF ReadSync
      <4>4. msg' \in Messages /\ (msg'.elsewhere => ~msg'.signed)
        BY ONLY <4>2, <4>3, RestartsFacts
      <4>5. offset' = OffsetEnsured
        BY <2>1 DEF ReadSync
      <4> QED  BY ONLY <4>4, <4>5, NoneAssumption
    <3>2. offset' \in -1 .. MaxOffset
      BY <2>1, <3>1 DEF OffsetEnsured, TypeOK, BodyInv
    <3>3. CASE contentLength' = 0 /\ UNCHANGED stream
      BY <2>1, <3>1, <3>2, <3>3 DEF BodyInv, TokenStaysHome
    <3>4. ASSUME NEW r \in Responses(range), NEW n \in Counts(BodyOf(r, FALSE)),
                 contentLength' = r.length, stream' = Advance(BodyOf(r, FALSE), n)
          PROVE  /\ contentLength' \in 0 .. MaxOffset
                 /\ stream' \in Bodies
                 /\ stream'.pos <= SizeOf(stream')
      <4>1. range \in Offsets \cup {None}
        BY DEF TypeOK
      <4>2. BodyOf(r, FALSE) \in Bodies /\ BodyOf(r, FALSE).pos = r.pos
        BY ONLY <4>1, <3>4, BodyOfFacts
      <4>3. BodyOf(r, FALSE).pos <= SizeOf(BodyOf(r, FALSE))
        BY ONLY <4>1, <4>2, <3>4, BodyOfFacts
      <4>4. stream' \in Bodies /\ stream'.pos <= SizeOf(stream')
        BY ONLY <4>2, <4>3, <3>4, AdvanceFacts
      <4> QED  BY <4>1, <4>4, <3>4, ResponseFacts
    <3>5. CASE /\ contentLength' \in 0 .. MaxOffset
               /\ stream' \in Bodies /\ stream'.pos <= SizeOf(stream')
      <4>1. stream' # None /\ stream'.pos \in Nat
        BY <3>5 DEF Bodies
      <4>2. offset' <= MaxOffset + stream'.pos
        BY <3>2, <4>1
      <4>3. stream'.pos <= SizeOf(stream)'
        BY <3>5 DEF SizeOf
      <4>4. BodyInv'
        BY <3>1, <4>1, <4>2, <4>3 DEF BodyInv
      <4> QED  BY <3>1, <3>2, <3>5, <4>4 DEF TokenStaysHome
    <3>6. \/ contentLength' = 0 /\ UNCHANGED stream
          \/ \E r \in Responses(range) : \E n \in Counts(BodyOf(r, FALSE)) :
               contentLength' = r.length /\ stream' = Advance(BodyOf(r, FALSE), n)
      BY <2>1 DEF ReadSync
    <3> QED  BY <3>3, <3>4, <3>5, <3>6
  <2>2. CASE stream # None
    <3>1. stream \in Bodies /\ stream.pos <= SizeOf(stream) /\ msg # None
      BY <2>2 DEF TypeOK, BodyInv
    <3>2. UNCHANGED <<msg, contentLength, offset>>
          /\ (UNCHANGED stream \/ \E n \in Counts(stream) : stream' = Advance(stream, n))
      BY <2>2 DEF ReadSync
    <3>3. CASE UNCHANGED stream
      BY <3>2, <3>3 DEF TypeOK, BodyInv, TokenStaysHome, SizeOf
    <3>4. ASSUME NEW n \in Counts(stream), stream' = Advance(stream, n)
          PROVE  /\ stream' \in Bodies \cup {None} /\ BodyInv' /\ TokenStaysHome'
      <4>1. /\ stream' \in Bodies /\ n \in Nat
            /\ stream'.pos = stream.pos + n /\ stream'.pos <= SizeOf(stream')
        BY ONLY <3>1, <3>4, AdvanceFacts
      <4>2. stream.pos \in Nat /\ offset \in Int
        BY <3>1 DEF Bodies, TypeOK
      <4>3. offset' <= MaxOffset + stream'.pos /\ msg' # None
        BY <2>2, <3>1, <3>2, <4>1, <4>2 DEF BodyInv
      <4>4. stream'.pos <= SizeOf(stream)' /\ stream' # None
        BY <4>1 DEF SizeOf
      <4> QED  BY <3>2, <4>1, <4>3, <4>4 DEF BodyInv, TokenStaysHome
    <3> QED  BY <3>2, <3>3, <3>4 DEF TypeOK
  <2> QED  BY <2>1, <2>2
<1>3. TypeOK'
  BY <1>1, <1>2 DEF TypeOK
<1>4. RangeInv' /\ PositionInv' /\ TaskInv' /\ ReadsAtTell' /\ EndOfFile'
  BY <1>1 DEF RangeInv, PositionInv, TaskInv, PendingIsTask, RequestInForce,
              ReadsAtTell, EndOfFile
<1> QED  BY <1>2, <1>3, <1>4

(* A seek that fails has touched nothing that belongs to the stream.       *)
LEMMA InvSeekFails == Inv /\ (SeekRefused \/ SeekCloseFails) => Inv'
<1> SUFFICES ASSUME Inv, SeekRefused \/ SeekCloseFails PROVE Inv'
  OBVIOUS
<1> USE DEF Inv
<1>1. /\ last'.call = "seek" /\ ~last'.ok
      /\ pending' \in BOOLEAN /\ stuck' \in BOOLEAN /\ PendingIsTask'
      /\ UNCHANGED <<priv, closed, task, careful>>
  <2>1. CASE SeekRefused
    BY <2>1 DEF SeekRefused, SeekOutcome, TypeOK, TaskInv, PendingIsTask
  <2>2. CASE SeekCloseFails
    BY <2>2 DEF SeekCloseFails, Idle, SeekOutcome, TypeOK, TaskInv, PendingIsTask
  <2> QED  BY <2>1, <2>2
<1>2. TypeOK'
  BY <1>1 DEF TypeOK
<1>3. BodyInv' /\ TokenStaysHome' /\ RangeInv' /\ PositionInv'
  BY <1>1 DEF BodyInv, SizeOf, TokenStaysHome, RangeInv, PositionInv
<1>4. TaskInv' /\ ReadsAtTell' /\ EndOfFile'
  BY <1>1 DEF TypeOK, TaskInv, RequestInForce, ReadsAtTell, EndOfFile
<1> QED  BY <1>2, <1>3, <1>4

(* A seek makes position, range and request offset agree again.            *)
LEMMA InvSeek == Inv /\ Seek => Inv'
<1> SUFFICES ASSUME Inv, NEW o \in Offsets,
                    Idle, stream' = None, SeekTo(o),
                    last'.call = "seek",
                    careful' = (careful /\ ~CarelessSeek),
                    UNCHANGED <<msg, contentLength, pending, closed, task, stuck>>
             PROVE  Inv'
  BY DEF Seek, SeekOutcome
<1> USE DEF Inv, SeekTo
<1>1. ~pending /\ task.kind = "none"
  BY DEF Idle, TypeOK, TaskInv, PendingIsTask, Tasks
<1>2. TypeOK'
  BY DEF TypeOK, Offsets
<1>3. BodyInv' /\ TokenStaysHome' /\ RangeInv'
  BY DEF Offsets, BodyInv, TokenStaysHome, RangeInv
<1>4. PositionInv'
  BY DEF CarelessSeek, PositionInv
<1>5. TaskInv' /\ ReadsAtTell' /\ EndOfFile'
  BY <1>1 DEF TaskInv, PendingIsTask, RequestInForce, ReadsAtTell, EndOfFile
<1> QED  BY <1>2, <1>3, <1>4, <1>5

LEMMA InvClose == Inv /\ (CloseAsync \/ CloseDone \/ Close) => Inv'
<1> SUFFICES ASSUME Inv, CloseAsync \/ CloseDone \/ Close PROVE Inv'
  OBVIOUS
<1> USE DEF Inv
<1>1. /\ pending' \in BOOLEAN /\ closed' \in BOOLEAN /\ task' \in Tasks
      /\ task'.kind \notin {"send", "read"}
      /\ PendingIsTask'
      /\ UNCHANGED <<priv, stuck, last, careful>>
  <2>1. CASE CloseAsync
    BY <2>1 DEF CloseAsync, Idle, TypeOK, TaskInv, PendingIsTask
  <2>2. CASE CloseDone
    BY <2>2 DEF CloseDone, TypeOK, TaskInv, PendingIsTask
  <2>3. CASE Close
    BY <2>3 DEF Close, Idle, TypeOK, TaskInv, PendingIsTask, Tasks
  <2> QED  BY <2>1, <2>2, <2>3
<1>2. TypeOK'
  BY <1>1 DEF TypeOK
<1>3. BodyInv' /\ TokenStaysHome' /\ RangeInv' /\ PositionInv'
  BY <1>1 DEF BodyInv, SizeOf, TokenStaysHome, RangeInv, PositionInv
<1>4. TaskInv' /\ ReadsAtTell' /\ EndOfFile'
  BY <1>1 DEF TaskInv, ReadsAtTell, EndOfFile
<1> QED  BY <1>2, <1>3, <1>4

LEMMA InvStep == Inv /\ [Next]_vars => Inv'
<1>1. Inv /\ UNCHANGED vars => Inv'
  BY DEF vars, Inv, TypeOK, BodyInv, SizeOf, TokenStaysHome, RangeInv, PositionInv, TaskInv,
         PendingIsTask, RequestInForce, ReadsAtTell, EndOfFile
<1> QED  BY <1>1, InvGetMessage, InvReadAsync, InvReadSync, InvSeek, InvSeekFails,
            InvClose, InvRestart, InvSendFails, InvSendDone, InvReadDone
         DEF Next, Application, Completion

LEMMA Invariance == Spec => []Inv
BY InvInit, InvStep, PTL DEF Spec

-----------------------------------------------------------------------------
(* Every variable keeps its type; in particular the position, however      *)
(* carelessly the stream is used, never runs further past the largest      *)
(* target of a seek than what is then read of one body.                    *)
THEOREM TypeCorrect == Spec => []TypeOK
<1>1. Inv => TypeOK
  BY DEF Inv
<1> QED  BY <1>1, Invariance, PTL

(* The bytes an asynchronous read delivers to a careful application are    *)
(* those of the file at tell().                                            *)
THEOREM BytesAtTell == Spec => []ReadsAtTell
<1>1. Inv => ReadsAtTell
  BY DEF Inv
<1> QED  BY <1>1, Invariance, PTL

(* Such an application is told end of file only outside of the file.       *)
THEOREM EndTold == Spec => []EndOfFile
<1>1. Inv => EndOfFile
  BY DEF Inv
<1> QED  BY <1>1, Invariance, PTL

(* No operation replaces the range or offset of a request on its way.      *)
THEOREM InForce == Spec => []RequestInForce
<1>1. Inv => RequestInForce
  BY DEF Inv, TaskInv, RequestInForce
<1> QED  BY <1>1, Invariance, PTL

(* The pending flag is set exactly while there is a task, or for good      *)
(* after a seek that could not close the old body.                         *)
THEOREM Pending == Spec => []PendingIsTask
<1>1. Inv => PendingIsTask
  BY DEF Inv, TaskInv
<1> QED  BY <1>1, Invariance, PTL

(* Wherever redirects have led a message, it has no header to take along.  *)
THEOREM Signing == Spec => []TokenStaysHome
<1>1. Inv => TokenStaysHome
  BY DEF Inv
<1> QED  BY <1>1, Invariance, PTL

-----------------------------------------------------------------------------
(* What each kind of step does to the position and to the last outcome     *)
(* while the application stays careful.                                    *)

(* These return nothing.                                                   *)
LEMMA SilentStep ==
  ASSUME Inv, careful',
         \/ GetMessage \/ ReadAsync \/ Restart \/ CloseAsync \/ CloseDone \/ Close
  PROVE  UNCHANGED <<offset, range, requestOffset, last, careful>>
<1> USE DEF Inv, TypeOK
<1>1. CASE GetMessage
  BY <1>1, EnsureMsgFacts DEF GetMessage, PositionInv
<1>2. CASE ReadAsync
  <2>1. careful
    BY <1>2 DEF ReadAsync
  <2>2. CASE stream = None
    BY <1>2, <2>1, <2>2, EnsureMsgFacts DEF ReadAsync, PositionInv
  <2>3. CASE stream # None
    BY <1>2, <2>1, <2>3 DEF ReadAsync
  <2> QED  BY <2>2, <2>3
<1>3. CASE Restart \/ CloseAsync \/ CloseDone \/ Close
  BY <1>3 DEF Restart, CloseAsync, CloseDone, Close
<1> QED  BY <1>1, <1>2, <1>3

(* These end a read or a seek without having moved.                        *)
StaysPut ==
  /\ UNCHANGED <<offset, range, requestOffset, careful>>
  /\ \/ last'.call = "read" /\ last'.n = -1
     \/ last'.call = "read" /\ last'.n = 0 /\ (careful => offset \notin 0 .. FileSize - 1)
     \/ last'.call = "seek" /\ ~last'.ok

LEMMA StayingStep ==
  ASSUME Inv, SendFails \/ SeekRefused \/ SeekCloseFails
  PROVE  StaysPut
BY DEF SendFails, SeekRefused, SeekCloseFails, ReadReturns, ReadOutcome, SeekOutcome,
       StaysPut

LEMMA SendDoneStep ==
  ASSUME Inv, SendDone
  PROVE  StaysPut \/ UNCHANGED <<offset, range, requestOffset, last, careful>>
<1>1. /\ task.range = range /\ range \in Offsets \cup {None} /\ stream = None
      /\ UNCHANGED <<offset, range, requestOffset, careful>>
  BY DEF SendDone, Inv, TaskInv, RequestInForce, TypeOK
<1>2. PICK r \in Responses(range) :
        \/ r.status = "unsatisfiable" /\ last' = ReadOutcome(0, "none", 0)
        \/ last' = ReadOutcome(-1, "none", 0)
        \/ UNCHANGED last
  BY <1>1 DEF SendDone, ReadReturns
<1>3. r.status = "unsatisfiable" => range # None /\ range \notin 0 .. FileSize - 1
  BY <1>1, ResponseFacts
<1>4. careful /\ range # None => offset = range
  BY <1>1 DEF Inv, PositionInv, RangeInv
<1> QED  BY <1>1, <1>2, <1>3, <1>4 DEF StaysPut, ReadOutcome

(* A read goes on from the position within the file, or stays.             *)
ReadsOn ==
  /\ UNCHANGED <<range, requestOffset, careful>> /\ last'.call = "read"
  /\ \/ last'.n \in Nat \ {0} /\ last'.at = offset /\ offset' = offset + last'.n
     \/ last'.n = 0 /\ offset' = offset /\ offset \notin 0 .. FileSize - 1
     \/ last'.n = -1 /\ last'.body = "cancelled" /\ offset' >= offset
  /\ offset' <= FileSize

LEMMA ReadDoneStep ==
  ASSUME Inv, careful, ReadDone
  PROVE  StaysPut \/ ReadsOn
<1>1. /\ stream \in Bodies /\ stream.pos <= SizeOf(stream)
      /\ stream.body = "file" /\ stream.pos = offset
      /\ UNCHANGED <<range, requestOffset, careful>>
  BY DEF Inv, TypeOK, TaskInv, BodyInv, PositionInv, ReadDone
<1>2. ASSUME NEW n \in Counts(stream), offset' = offset + n,
             \/ ReadReturns(ReadOutcome(n, stream.body, stream.pos))
             \/ ReadReturns(ReadOutcome(-1, "cancelled", 0))
      PROVE  ReadsOn
  <2>1. /\ n \in Nat /\ stream.pos + n <= FileSize /\ stream.pos \in Nat
        /\ n = 0 => offset = FileSize
    <3>1. Advance(stream, n).pos = stream.pos + n /\ n \in Nat
          /\ Advance(stream, n).pos <= SizeOf(Advance(stream, n))
          /\ Advance(stream, n).body = "file" /\ (n = 0 => stream.pos = SizeOf(stream))
      BY <1>1, AdvanceFacts
    <3>2. SizeOf(stream) = FileSize /\ SizeOf(Advance(stream, n)) = FileSize
      BY <1>1, <3>1 DEF SizeOf
    <3>3. stream.pos \in Nat
      BY <1>1 DEF Bodies
    <3> QED  BY <1>1, <3>1, <3>2, <3>3
  <2> QED  BY <1>1, <1>2, <2>1 DEF ReadsOn, ReadReturns, ReadOutcome
<1>3. CASE ReadReturns(ReadOutcome(-1, "none", 0)) /\ UNCHANGED <<stream, offset>>
  BY <1>1, <1>3 DEF StaysPut, ReadReturns, ReadOutcome
<1> QED  BY <1>2, <1>3 DEF ReadDone

(* A seek that succeeds takes the position where the next request begins.  *)
LEMMA SeekStep ==
  ASSUME Inv, Seek
  PROVE  last'.call = "seek" /\ last'.ok /\ range' = offset'
BY DEF Seek, SeekTo, SeekOutcome

-----------------------------------------------------------------------------
(* What fails, and a read at the end, leaves the position and the request  *)
(* alone, except for a cancellation that came too late.                    *)
THEOREM FailuresKeepPosition == Spec => FailureKeepsPosition
<1> DEFINE Keeps == last' # last /\ careful' =>
              \/ last'.call = "read" /\ (last'.n > 0 \/ last'.body = "cancelled")
              \/ last'.call = "seek" /\ last'.ok
              \/ UNCHANGED <<offset, range, requestOffset>>
<1>1. ASSUME Inv, Next, careful' PROVE Keeps
  <2>1. CASE GetMessage \/ ReadAsync \/ Restart \/ CloseAsync \/ CloseDone \/ Close
    BY <1>1, <2>1, SilentStep
  <2>2. CASE SendFails \/ SeekRefused \/ SeekCloseFails \/ SendDone
    BY <1>1, <2>2, StayingStep, SendDoneStep DEF StaysPut
  <2>3. CASE ReadDone
    <3>1. StaysPut \/ ReadsOn
      BY <1>1, <2>3, ReadDoneStep DEF ReadDone
    <3>2. ASSUME ReadsOn PROVE Keeps
      BY <3>2 DEF ReadsOn
    <3> QED  BY <3>1, <3>2 DEF StaysPut
  <2>4. CASE Seek
    BY <1>1, <2>4, SeekStep
  <2>5. CASE ReadSync
    BY <1>1, <2>5 DEF ReadSync
  <2> QED  BY <1>1, <2>1, <2>2, <2>3, <2>4, <2>5 DEF Next, Application, Completion
<1>2. Inv /\ [Next]_vars => [Keeps]_vars
  BY <1>1
<1> QED  BY <1>2, Invariance, PTL DEF Spec, FailureKeepsPosition

-----------------------------------------------------------------------------
(* Every step of the stream is one of the reader, or none there.           *)
LEMMA ReaderStep == Inv /\ [Next]_vars => [Reader!Next]_(Reader!vars)
<1> SUFFICES ASSUME Inv, [Next]_vars
             PROVE  Reader!Next \/ UNCHANGED <<offset, Returned, careful>>
  BY DEF Reader!vars
<1>1. CASE ~careful'
  BY <1>1 DEF Reader!Next, Inv, TypeOK
<1>2. ASSUME UNCHANGED <<offset, range, last, careful>>
      PROVE  UNCHANGED <<offset, Returned, careful>>
  BY <1>2 DEF Returned
<1>3. ASSUME careful, StaysPut PROVE Reader!Next
  <2>1. CASE last'.call = "read" /\ last'.n = -1
    BY <1>3, <2>1 DEF StaysPut, Returned, Reader!Next, Reader!Fail
  <2>2. CASE last'.call = "read" /\ last'.n = 0 /\ offset \notin 0 .. FileSize - 1
    BY <1>3, <2>2 DEF StaysPut, Returned, Reader!Next, Reader!EndOfFile
  <2>3. CASE last'.call = "seek" /\ ~last'.ok
    BY <1>3, <2>3 DEF StaysPut, Returned, Reader!Next, Reader!Fail
  <2> QED  BY <1>3, <2>1, <2>2, <2>3 DEF StaysPut
<1>4. CASE careful' /\ Next
  <2>1. CASE GetMessage \/ ReadAsync \/ Restart \/ CloseAsync \/ CloseDone \/ Close
    BY <1>2, <1>4, <2>1, SilentStep
  <2>2. CASE SendFails \/ SeekRefused \/ SeekCloseFails \/ SendDone
    BY <1>2, <1>3, <1>4, <2>2, StayingStep, SendDoneStep DEF StaysPut
  <2>3. CASE ReadDone
    <3>1. careful /\ (StaysPut \/ ReadsOn)
      BY <1>4, <2>3, ReadDoneStep DEF ReadDone
    <3>2. ASSUME ReadsOn PROVE Reader!Next
      <4>1. last'.call = "read" /\ careful' /\ careful
            /\ Returned' = [n |-> last'.n, at |-> last'.at]
        BY <3>1, <3>2 DEF ReadsOn, Returned
      <4>2. CASE last'.n = -1 /\ offset' >= offset
        BY <3>2, <4>1, <4>2 DEF ReadsOn, Reader!Next, Reader!Skip
      <4>3. CASE last'.n \in Nat \ {0} /\ last'.at = offset /\ offset' = offset + last'.n
        BY <3>2, <4>1, <4>3 DEF ReadsOn, Reader!Next, Reader!Read
      <4>4. CASE last'.n = 0 /\ offset' = offset /\ offset \notin 0 .. FileSize - 1
        BY <4>1, <4>4 DEF Reader!Next, Reader!EndOfFile
      <4> QED  BY <3>2, <4>2, <4>3, <4>4 DEF ReadsOn, Inv, TypeOK
    <3> QED  BY <1>3, <3>1, <3>2
  <2>4. CASE Seek
    <3>1. careful /\ Returned' = [n |-> -2, to |-> offset']
      BY <1>4, <2>4, SeekStep DEF Seek, Returned
    <3> QED  BY <1>4, <3>1 DEF Reader!Next, Reader!Seek
  <2>5. CASE ReadSync
    BY <1>4, <2>5 DEF ReadSync
  <2> QED  BY <1>4, <2>1, <2>2, <2>3, <2>4, <2>5 DEF Next, Application, Completion
<1>5. CASE UNCHANGED vars
  BY <1>2, <1>5 DEF vars
<1> QED  BY <1>1, <1>4, <1>5

(* For a careful application the stream is a reader of the file.           *)
THEOREM Implements == Spec => FileImplemented
<1>1. Init => Reader!Init
  BY DEF Init, Reader!Init, Returned, NoCall
<1> QED  BY <1>1, ReaderStep, Invariance, PTL DEF Spec, FileImplemented, Reader!Spec
=============================================================================
