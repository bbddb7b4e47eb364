------------------------------ MODULE Requests ------------------------------
(***************************************************************************)
(* What the services ask for of an object (Objects): which item a request  *)
(* of src/drive/msg-drive-service.c addresses, under which name, what an   *)
(* upload has collected before it is sent, and what a draft of             *)
(* src/mail/msg-mail-service.c is made of.  How requests are sent and      *)
(* answered is the business of Service; here a request that was sent is    *)
(* looked at until the application's next step.                            *)
(***************************************************************************)
EXTENDS Objects

CONSTANTS Names,       \* names the application gives to items, sequences of Parts
          MaxWrites    \* bound: writes to the stream of an upload

VARIABLES request,     \* the request just sent, NULL if none
          upload       \* the stream of an upload and what was written to it in all

vars == <<object, member, heap, borrowed, request, upload>>

(***************************************************************************)
(* Names.  A part stands for a run of characters that the code tells       *)
(* apart: "con" for the reserved names of any letter case but the ones     *)
(* around _vti_, ":" for every forbidden character but the slash, "%2F"    *)
(* for a text that looks like an escaped one.                              *)
(***************************************************************************)
Parts == {"x", " ", "~$", "_vti_", "_VTI_", "con", "CON", ":", "/", "%2F"}

ASSUME NamesAssumption == Names \subseteq Seq(Parts) /\ MaxWrites \in Nat

Lower(part) == CASE part = "CON" -> "con" [] part = "_VTI_" -> "_vti_" [] OTHER -> part

IsReserved(name) == Len(name) = 1 /\ Lower(name[1]) \in {"con", "_vti_"}

HasPart(name, parts) == \E i \in DOMAIN name : name[i] \in parts

\* The last test of the code, for "forms" below the root, splits the name at
\* slashes after names with a slash have been refused, and never decides.
IsValidName(name) ==
  /\ ~IsReserved(name)
  /\ name # <<>> => name[1] # " " /\ Last(name) # " "
  /\ name # <<>> => name[1] # "~$"
  /\ ~HasPart(name, {"_vti_"})
  /\ ~HasPart(name, {":", "/"})

\* g_uri_escape_string
Escaped(part) ==
  CASE part = " "   -> "%20"
    [] part = ":"   -> "%3A"
    [] part = "/"   -> "%2F"
    [] part = "%2F" -> "%252F"
    [] OTHER        -> part

EscapeNameNot(name) == name

EscapeName(name) == [i \in DOMAIN name |-> Escaped(name[i])]

(***************************************************************************)
(* Addresses.  g_strconcat stops at the first NULL it is given, so that    *)
(* an address without a drive or an item ends there.                       *)
(***************************************************************************)
StrconcatAll(parts) == parts

Strconcat(parts) ==
  LET end == SelectInSeq(parts, LAMBDA p : p = NULL)
  IN IF end = 0 THEN parts ELSE SubSeq(parts, 1, end - 1)

IsItem == object.class \in {"file", "folder"}

OwnAddress == Strconcat(<<Text("drive_id"), Text("id")>>)

ReadAddressMixed ==
  IF object.shared THEN Strconcat(<<Text("remote_drive_id"), Text("id")>>) ELSE OwnAddress

\* An item that is shared is read where it is, in the drive of its owner.
ReadAddress ==
  IF object.shared THEN Strconcat(<<Text("remote_drive_id"), Text("remote_id")>>)
  ELSE OwnAddress

Send(op, address, content) ==
  /\ request' = [op |-> op, address |-> address, content |-> content]
  /\ UNCHANGED <<objectVars, upload>>

\* Refused before a request is made: the name, the type, the authorization.
Refuse == request' = NULL /\ UNCHANGED <<objectVars, upload>>

download_item ==
  /\ IsItem
  /\ \/ object.class = "file" /\ Send("download_item", ReadAddress, NULL)
     \/ Refuse

list_children == IsItem /\ (Send("list_children", ReadAddress, NULL) \/ Refuse)

\* The name in the body, and the server reads it as it is.
rename ==
  /\ IsItem
  /\ \E name \in Names :
       \/ IsValidName(name) /\ Send("rename", OwnAddress, [given |-> name, sent |-> name])
       \/ Refuse

create_folder ==
  /\ IsItem
  /\ \E name \in Names :
       \/ IsValidName(name) /\ Send("create_folder", OwnAddress, [given |-> name, sent |-> name])
       \/ Refuse

\* The object is the parent; the name, that of the item, goes into the address.
add_item_to_folder ==
  /\ IsItem
  /\ \E name \in Names :
       \/ /\ IsValidName(name)
          /\ Send("add_item_to_folder", OwnAddress, [given |-> name, sent |-> EscapeName(name)])
       \/ Refuse

delete == IsItem /\ (Send("delete", OwnAddress, NULL) \/ Refuse)

\* The destination is another item; of it, the drive is named in a copy only.
copy_file ==
  /\ IsItem
  /\ \/ \E doc \in Docs["item"] :
          LET to == ItemMembers(doc)
          IN ItemClass(doc) # NULL /\ Send("copy_file", OwnAddress, <<to.drive_id, to.id>>)
     \/ Refuse

move_file ==
  /\ IsItem
  /\ \/ \E doc \in Docs["item"] :
          ItemClass(doc) # NULL /\ Send("move_file", OwnAddress, <<ItemMembers(doc).id>>)
     \/ Refuse

(***************************************************************************)
(* Uploads: update opens a stream in memory, the application writes to     *)
(* it, and update_finish sends what the stream has.                        *)
(***************************************************************************)
NoUpload == [stream |-> FALSE, content |-> 0, written |-> 0]

\* The session that the request creates is not used again; without the
\* address of one in the answer there is no stream.
update ==
  /\ IsItem /\ ~upload.stream
  /\ \/ /\ request' = [op |-> "update", address |-> OwnAddress, content |-> NULL]
        /\ upload' \in {upload, [NoUpload EXCEPT !.stream = TRUE]}
        /\ UNCHANGED objectVars
     \/ Refuse

Write ==
  /\ upload.stream /\ upload.written < MaxWrites
  /\ upload' = [upload EXCEPT !.content = @ + 1, !.written = @ + 1]
  /\ request' = NULL
  /\ UNCHANGED objectVars

\* The refresh fails, the stream is as it was; or the stream is closed, its
\* bytes are taken out and sent, and the reference to it is dropped.
UpdateFinishStolen ==
  upload.stream /\ request' = NULL /\ upload' = [upload EXCEPT !.content = 0] /\ UNCHANGED objectVars

UpdateFinishRefused == upload.stream /\ Refuse

update_finish ==
  /\ IsItem /\ upload.stream
  /\ request' = [op |-> "update_finish", address |-> OwnAddress, content |-> upload.content]
  /\ upload' = [upload EXCEPT !.stream = FALSE, !.content = 0]
  /\ UNCHANGED objectVars

(***************************************************************************)
(* Mail.                                                                   *)
(***************************************************************************)
\* The text of a draft is the preview, and the receiver is its one address.
create_draft_message ==
  /\ object.class = "message"
  /\ \/ Send("create_draft_message", <<>>,
             <<Text("subject"), Text("body_preview"), Text("receiver")>>)
     \/ Refuse

ById(op, class) ==
  object.class = class /\ (Send(op, Strconcat(<<Text("id")>>), NULL) \/ Refuse)

delete_message == ById("delete_message", "message")

get_mime_message == ById("get_mime_message", "message")

\* The messages of a folder, unless the application gives a link to go on from.
get_messages == ById("get_messages", "mailFolder")

get_root == ById("get_root", "drive")

(***************************************************************************)
Init == ObjectsInit /\ request = NULL /\ upload = NoUpload

\* The application keeps the item of an upload until the upload is finished.
Application ==
  /\ ObjectsNext
  /\ upload.stream => object' = object
  /\ upload' = IF object' = NoObject THEN NoUpload ELSE upload
  /\ request' = NULL

Next ==
  \/ Application
  \/ download_item \/ list_children \/ rename \/ create_folder \/ add_item_to_folder
  \/ delete \/ copy_file \/ move_file
  \/ update \/ Write \/ UpdateFinishRefused \/ update_finish
  \/ create_draft_message \/ delete_message \/ get_mime_message \/ get_messages
  \/ get_root

Spec == Init /\ [][Next]_vars

(***************************************************************************)
(* Properties.                                                             *)
(***************************************************************************)
\* Every variable has its type, and an address is made of texts that there are.
TypeOK ==
  /\ object \in [class : Classes \union {NULL}, shared : BOOLEAN]
  /\ \A m \in DOMAIN member : member[m] \in Blocks \union {NULL}
  /\ DOMAIN heap = Blocks
  /\ borrowed # NULL => borrowed.of \in DOMAIN member /\ borrowed.at \in Blocks
  /\ request # NULL => \A i \in DOMAIN request.address : request.address[i] # NULL
  /\ upload \in [stream : BOOLEAN, content : 0 .. MaxWrites, written : 0 .. MaxWrites]

\* Whatever the application gets and sets, in any order and from one member to
\* another, an object is the record that it looks like: setters and getters
\* share no string, free each one once and read none that was freed.
AsRecord == INSTANCE Record WITH class <- object.class,
                                 rec <- [m \in DOMAIN member |-> Text(m)],
                                 Own <- Texts

RecordImplemented == AsRecord!Spec

\* No setter copies a string that it has just freed.
CopiesLive == \A m \in DOMAIN member : Text(m) # Garbage

\* What is sent to the server, in an address or in a draft, was never read
\* from memory that had been freed.
SentKnown ==
  request # NULL =>
    /\ Range(request.address) \subseteq Known
    /\ request.op = "create_draft_message" => Range(request.content) \subseteq Known \union {NULL}

\* The item a text identifies: the one of the user, or the one of the owner
\* that shares it.
ItemOf(text) ==
  IF text \in [text : {"remoteItem.id", "remoteItem.parentReference.driveId"}, form : {"plain"}]
  THEN "remote" ELSE "own"

Reads == {"download_item", "list_children"}

\* The drive and the item of an address belong together, through every change
\* of the object: reading a shared item names the owner's drive and item, and
\* what changes, moves or deletes it names the user's, never one of each.  An
\* address that is cut short is one of an object that lacks the member.
OneItem ==
  (request # NULL /\ IsItem) =>
    LET side == IF request.op \in Reads /\ object.shared THEN "remote" ELSE "own"
        needs == IF side = "remote" THEN {"remote_drive_id", "remote_id"} ELSE {"drive_id", "id"}
    IN /\ \A i \in DOMAIN request.address : ItemOf(request.address[i]) = side
       /\ Len(request.address) < 2 => \E m \in needs : member[m] = NULL

\* How the server reads a name in an address, and the characters that would
\* make it a path there.
Unescaped(part) ==
  CASE part = "%20" -> " " [] part = "%3A" -> ":" [] part = "%2F" -> "/"
    [] part = "%252F" -> "%2F" [] OTHER -> part

\* A name reaches the server as the application gave it: in an address it is
\* neither taken apart nor taken for an escaped one, and no name that was
\* sent is one that OneDrive reserves or could not have as one name.
NameAsGiven ==
  (request # NULL /\ request.op \in {"rename", "create_folder", "add_item_to_folder"}) =>
    LET name == request.content.given
        sent == request.content.sent
        read == IF request.op = "add_item_to_folder"
                THEN [i \in DOMAIN sent |-> Unescaped(sent[i])] ELSE sent
    IN /\ read = name
       /\ ~HasPart(sent, {":", "/"}) /\ ~HasPart(read, {":", "/", "_vti_"})
       /\ read \notin {<<"con">>, <<"CON">>, <<"_VTI_">>}

\* What the application wrote to the stream of an upload is in the stream or
\* has been sent in one piece: no way to fail before the request is made
\* takes it out.
UploadKept ==
  /\ upload.stream => upload.content = upload.written
  /\ (request # NULL /\ request.op = "update_finish") => request.content = upload.written
=============================================================================
