----------------------------- MODULE FileReader -----------------------------
(***************************************************************************)
(* What a stream over a remote file promises to an application that reads  *)
(* it with one operation at a time: a read delivers the bytes at the       *)
(* position and moves it past them, the end is told only outside of the    *)
(* file, and nothing but a seek or a cancelled read moves it otherwise.    *)
(* Where the application has done what the stream has no answer for, it    *)
(* promises nothing any more.                                              *)
(***************************************************************************)
EXTENDS Integers

CONSTANT FileSize    \* bytes in the file

VARIABLES pos,       \* the position, which tell() returns
          out,       \* what the last call returned: n bytes from `at', -1 for a
                     \* read that failed, -2 and where to for a seek, -3
                     \* for a seek that failed, -4 while none has returned
          defined    \* whether the promise stands

vars == <<pos, out, defined>>

Init == pos = 0 /\ out.n = -4 /\ defined = TRUE

Read ==
  /\ out'.n > 0
  /\ out'.at = pos /\ pos + out'.n <= FileSize
  /\ pos' = pos + out'.n

EndOfFile ==
  /\ out'.n = 0
  /\ pos \notin 0 .. FileSize - 1
  /\ UNCHANGED pos

Fail == out'.n \in {-1, -3} /\ UNCHANGED pos

\* A read that is cancelled may have consumed what it does not deliver.
Skip == out'.n = -1 /\ pos' >= pos /\ pos' <= FileSize

Seek == out'.n = -2 /\ pos' = out'.to

Next ==
  \/ defined /\ defined' /\ (Read \/ EndOfFile \/ Fail \/ Skip \/ Seek)
  \/ defined' = FALSE

Spec == Init /\ [][Next]_vars
=============================================================================
