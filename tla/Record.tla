------------------------------- MODULE Record -------------------------------
(***************************************************************************)
(* What an object of the library promises to its application: it is a      *)
(* record of texts.  A text stays what the server or the application made  *)
(* it until the application sets that very member, to a text of its own    *)
(* or to what another member has, and no text is ever anything else.       *)
(***************************************************************************)
EXTENDS FiniteSets

CONSTANTS NULL,
          Known,    \* the texts there are: those of the server and those of the application
          Own       \* the texts of the application

VARIABLES class,    \* what the object is, NULL if there is none
          rec       \* its members

vars == <<class, rec>>

Init == class = NULL /\ rec = <<>>

\* An object is made, empty or from a document of the server.
Make ==
  /\ class = NULL
  /\ class' # NULL
  /\ \A m \in DOMAIN rec' : rec'[m] \in Known \union {NULL}

SetTo(m, text) ==
  /\ rec' = [rec EXCEPT ![m] = text]
  /\ UNCHANGED class

\* The text comes from the application or from a member of the object.
Set ==
  /\ class # NULL
  /\ \E m \in DOMAIN rec :
       \E text \in Own \union {NULL} \union {rec[n] : n \in DOMAIN rec} : SetTo(m, text)

Unref == class # NULL /\ class' = NULL /\ rec' = <<>>

Next == Make \/ Set \/ Unref

Spec == Init /\ [][Next]_vars
=============================================================================
