---------------------------- MODULE Enumeration ----------------------------
(***************************************************************************)
(* The operations of the drive, mail and user services that enumerate a    *)
(* collection page by page, following @odata.nextLink.  Two of them also   *)
(* hand out links, to be called again from where they stopped; an          *)
(* application that keeps them is modelled as it uses them.  A link is the *)
(* number of the page it leads to, and the collection may grow at any      *)
(* moment.                                                                 *)
(***************************************************************************)
EXTENDS Naturals, SequencesExt

CONSTANTS Ids,       \* identifiers of the elements
          None,      \* no link, no element
          MaxPages,  \* bound: pages the collection grows to
          MaxLength  \* bound: elements on a page

ASSUME PagesAssumption ==
  MaxPages \in Nat \ {0} /\ MaxLength \in Nat /\ None \notin Nat \cup Ids

(* An element whose object cannot be turned into a drive, a message...; a  *)
(* "bundle" is a drive whose name starts with "Bundles_".                  *)
Unreadable == [id |-> None, kind |-> "unreadable"]
Elements   == [id : Ids, kind : {"plain", "bundle"}]
Pages      == BoundedSeq(Elements \cup {Unreadable}, MaxLength)

(* What the operations differ in: whether they append or prepend what they *)
(* read; whether they are about drives, with the fallback and the filter   *)
(* of bundles; and the links they take and hand out ("delta" is the delta  *)
(* link only, "both" lets the call stop at each page).                     *)
Operation(order, drives, links) == [order |-> order, drives |-> drives, links |-> links]

get_drives          == Operation("append", TRUE, "none")
list_children       == Operation("prepend", FALSE, "none")
get_shared_with_me  == Operation("prepend", FALSE, "none")
get_contacts        == Operation("append", FALSE, "none")
get_contact_folders == Operation("append", FALSE, "none")
find_users          == Operation("append", FALSE, "none")
get_mail_folders    == Operation("append", FALSE, "delta")
get_messages        == Operation("append", FALSE, "both")

Linked == {get_mail_folders, get_messages}
Operations ==
  {get_drives, list_children, get_shared_with_me, get_contacts, get_contact_folders,
   find_users} \cup Linked

(* What a list holds of an element: the object made of it, and where it    *)
(* was in the collection; the default drive is not in it.                  *)
Entry(e, at) == [id |-> e.id, at |-> at]
Entries      == [id : Ids, at : Nat \X Nat]
Nowhere      == <<0, 0>>

VARIABLES pages,  \* the server: the pages of the collection
          call,   \* the locals of the call under way, or the last one's result
          typeOf, \* the drive whose type is self->type, or None
          app     \* the linked operation the application uses, the links it
                  \* keeps, and the messages or folders it has

vars == <<pages, call, typeOf, app>>

Links == 1 .. MaxPages + 1

Calls ==
  [op : Operations, single : BOOLEAN,
   pc : {"idle", "fetch", "array", "default"},
   url : Links \cup {None},
   array : Pages,            \* "value" of the page that was answered,
   index : Nat \ {0},        \* the loop's index, from one,
   next : Links \cup {None}, \* and its next link
   list : Seq(Entries),
   result : {"none", "list", "failed"},
   fallback : BOOLEAN,       \* history: it is the default drive
   read : 0 .. MaxPages + 1, \* history: pages read
   size : 0 .. MaxPages]     \* history: pages there were at the last answer

Apps == [op : Linked, next : Links \cup {None}, delta : Links \cup {None}, got : Seq(Entries)]

TypeOK ==
  /\ pages \in Seq(Pages) /\ Len(pages) \in 1 .. MaxPages
  /\ call \in Calls /\ app \in Apps /\ typeOf \in Ids \cup {None}

NewCall(op, url, single) ==
  [op |-> op, pc |-> "fetch", url |-> url, single |-> single, array |-> <<>>, index |-> 1,
   next |-> None, list |-> <<>>, result |-> "none", fallback |-> FALSE, read |-> 0, size |-> 0]

Ended(c) ==
  [c EXCEPT !.pc = "idle", !.url = None, !.array = <<>>, !.index = 1, !.next = None]

Init ==
  /\ pages \in [{1} -> Pages]
  /\ call = Ended(NewCall(get_drives, None, FALSE))
  /\ typeOf = None
  /\ \E op \in Linked : app = [op |-> op, next |-> None, delta |-> None, got |-> <<>>]

(* The server: what is added to the collection goes to a page of its own.  *)
Grow ==
  /\ Len(pages) < MaxPages
  /\ \E p \in Pages : pages' = Append(pages, p)
  /\ UNCHANGED <<call, typeOf, app>>

-----------------------------------------------------------------------------
(* What was read so far is freed; *error is set, unless the answer was an  *)
(* error object that lacks a message.                                      *)
Fails ==
  call' = [Ended(call) EXCEPT !.result = "failed", !.list = <<>>]

(* Mutant: the delta link is preferred. *)
FirstUrlDelta(op) ==
  IF op \notin Linked THEN 1
  ELSE IF app.delta # None THEN app.delta
  ELSE IF app.next # None THEN app.next ELSE 1

FirstUrl(op) ==
  IF op \notin Linked THEN 1
  ELSE IF app.next # None THEN app.next
  ELSE IF app.delta # None THEN app.delta ELSE 1

(* A call begins with msg_service_refresh_authorization, which may fail.   *)
(* Only get_messages can be asked for a single page, with out_next_link,   *)
(* and only it is given a next link.                                       *)
StartCall ==
  /\ call.pc = "idle"
  /\ \E op \in (Operations \ Linked) \cup {app.op}, single \in BOOLEAN :
       /\ single => op.links = "both"
       /\ LET new == NewCall(op, FirstUrl(op), single) IN
          call' \in {new, [Ended(new) EXCEPT !.result = "failed"]}
  /\ UNCHANGED <<pages, typeOf, app>>

(* Mutant: every duplicate is left out. *)
AlreadyAddedAny(list, e) == \E i \in DOMAIN list : list[i].id = e.id

(* drive_already_added: a bundle is listed under one drive only. *)
AlreadyAdded(list, e) ==
  e.kind = "bundle" /\ \E i \in DOMAIN list : list[i].id = e.id

(* Mutant: an object that could not be read is added. *)
AddUnread(op, list, e, at) == Append(list, Entry(e, at))

(* Whether the loop over the array "value" adds an element, and where. *)
Adds(op, list, e) == e # Unreadable /\ ~(op.drives /\ AlreadyAdded(list, e))

Add(op, list, e, at) ==
  IF ~Adds(op, list, e) THEN list
  ELSE IF op.order = "prepend" THEN <<Entry(e, at)>> \o list
  ELSE Append(list, Entry(e, at))

(* A page is answered.  The one after the last is where a delta link leads.*)
FetchPage ==
  /\ call.pc = "fetch"
  /\ LET k == call.url IN
     call' = [call EXCEPT !.pc = "array", !.index = 1,
                          !.array = IF k <= Len(pages) THEN pages[k] ELSE <<>>,
                          !.next = IF k < Len(pages) THEN k + 1 ELSE None,
                          !.size = Len(pages)]
  /\ UNCHANGED <<pages, typeOf, app>>

CollectElement ==
  /\ call.pc = "array" /\ call.index <= Len(call.array)
  /\ LET e == call.array[call.index] IN
     /\ call' = [call EXCEPT !.index = @ + 1,
                             !.list = Add(call.op, @, e, <<call.url, call.index>>)]
     /\ typeOf' = IF call.op.drives /\ Adds(call.op, call.list, e) THEN e.id ELSE typeOf
  /\ UNCHANGED <<pages, app>>

(* The array has been read: follow the next link ...                       *)
FollowLink ==
  /\ call.pc = "array" /\ call.index > Len(call.array)
  /\ call.next # None /\ ~call.single
  /\ call' = [call EXCEPT !.pc = "fetch", !.url = call.next, !.read = @ + 1]
  /\ UNCHANGED <<pages, typeOf, app>>

(* ... or return the list, and the links if they are asked for.            *)
Return ==
  /\ call.pc = "array" /\ call.index > Len(call.array)
  /\ call.next = None \/ call.single
  /\ call' = [Ended(call) EXCEPT !.result = "list", !.read = @ + 1]
  /\ app' = IF call.op \notin Linked THEN app
            ELSE [app EXCEPT !.next = call.next,
                             !.delta = IF call.next = None THEN call.size + 1 ELSE @,
                             !.got = @ \o call.list]
  /\ UNCHANGED <<pages, typeOf>>

FallsBack(c) == c.op.drives /\ c.list = <<>>

(* Graph answers with an error object, or JSON that is no object; while    *)
(* its list is empty, get_drives then tries the default drive.             *)
Refused ==
  /\ call.pc = "fetch"
  /\ \/ FallsBack(call) /\ call' = [call EXCEPT !.pc = "default"]
     \/ ~FallsBack(call) /\ Fails
  /\ UNCHANGED <<pages, typeOf, app>>

(* No answer, one that is no JSON, or an error object without a message,   *)
(* which leaves request_error unset and so matches no MSG_ERROR.           *)
TransportFails ==
  /\ call.pc = "fetch" /\ Fails
  /\ UNCHANGED <<pages, typeOf, app>>

(* get_default_drive. *)
GetDefaultDrive ==
  /\ call.pc = "default"
  /\ \/ \E e \in Elements :
          /\ call' = [Ended(call) EXCEPT !.result = "list", !.fallback = TRUE,
                                         !.list = <<Entry(e, Nowhere)>>]
          /\ typeOf' = e.id
     \/ Fails /\ UNCHANGED typeOf
  /\ UNCHANGED <<pages, app>>

Next ==
  \/ Grow \/ StartCall \/ FetchPage \/ CollectElement \/ FollowLink \/ Return
  \/ Refused \/ TransportFails \/ GetDefaultDrive
Spec == Init /\ [][Next]_vars

-----------------------------------------------------------------------------
(* The readable elements of pages from .. to, by their positions.          *)
Element(p) == pages[p[1]][p[2]]

Readable(from, to) ==
  {p \in (from .. to) \X (1 .. MaxLength) :
     p[2] \in DOMAIN pages[p[1]] /\ Element(p) # Unreadable}

Before(p, q) == p[1] < q[1] \/ (p[1] = q[1] /\ p[2] < q[2])

(* A bundle whose identifier an earlier drive has.                         *)
Repeated(p) ==
  /\ Element(p).kind = "bundle"
  /\ \E q \in Readable(1, p[1]) : Before(q, p) /\ Element(q).id = Element(p).id

(* The list holds the objects of the elements at these positions, each     *)
(* once and in this order.                                                 *)
Lists(list, positions, order) ==
  /\ {list[n].at : n \in DOMAIN list} = positions
  /\ \A n \in DOMAIN list : list[n].id = Element(list[n].at).id
  /\ \A m, n \in DOMAIN list : m < n =>
       IF order = "append" THEN Before(list[m].at, list[n].at)
       ELSE Before(list[n].at, list[m].at)

Kept(op, positions) == IF op.drives THEN {p \in positions : ~Repeated(p)} ELSE positions

(* What an enumeration has read: every element of the collection that can  *)
(* be read, in order (in the opposite one where they are prepended),       *)
(* bundles once; the type of the service is that of the last drive.        *)
ListComplete ==
  call.result = "list" /\ call.op \notin Linked /\ ~call.fallback =>
    /\ Lists(call.list, Kept(call.op, Readable(1, call.size)), call.op.order)
    /\ call.op.drives /\ call.list # <<>> => typeOf = Last(call.list).id

(* Where the default drive takes its place, no page that was answered had  *)
(* a drive that could be read, and it decides on later listings.           *)
NothingReplaced ==
  call.fallback => /\ Readable(1, call.read) = {}
                   /\ typeOf = Head(call.list).id

(* An enumeration that returns a list returns every element that it could  *)
(* read, in order and bundles once, also when the collection grew          *)
(* meanwhile, an earlier call failed or a page was refused: a refusal      *)
(* never makes the default drive replace drives that were read.  (The      *)
(* comment of the fallback promises more, that errors during pagination    *)
(* propagate; they do not if no drive could be read on the pages before.)  *)
Enumerated == ListComplete /\ NothingReplaced

(* Where the application that keeps the links goes on.                     *)
Link == IF app.next # None THEN app.next ELSE IF app.delta # None THEN app.delta ELSE 1

(* An application that calls get_messages (page by page or to the end) or  *)
(* get_mail_folders again and again, with the links it was given last, has *)
(* every message or folder before its link exactly once, whatever failed   *)
(* in between.                                                             *)
Synced == Lists(app.got, Readable(1, Link - 1), "append")
=============================================================================
