------------------------------ MODULE Objects -------------------------------
(***************************************************************************)
(* The objects that the library hands out (src/drive/msg-drive.c,          *)
(* src/drive/msg-drive-item*.c, src/mail/msg-mail-message.c,               *)
(* src/mail/msg-mail-folder.c, src/user/msg-user.c and                     *)
(* src/user/msg-user-contact-folder.c): how the members of each class come *)
(* from a JSON document, and how getters lend the strings they are made    *)
(* of, which setters free.                                                 *)
(*                                                                         *)
(* A document is the set of the JSON members it has.  A text is named by   *)
(* the JSON member it comes from and by what the code made of it; a text   *)
(* of the application is one of Texts.  A string is a block of memory: a   *)
(* member holds the block, a getter lends it, a setter frees it and copies *)
(* what it was given into another one.                                     *)
(***************************************************************************)
EXTENDS Naturals, SequencesExt

CONSTANTS NULL,
          Garbage,     \* what memory holds that was freed
          Texts,       \* the texts of the application
          Docs,        \* [class -> the documents that objects of it are made from]
          Settable,    \* the members that the application sets
          Lent,        \* the members that the application gets
          SelfSet,     \* the members that it may set to the string they have
          NBlocks      \* blocks of memory

VARIABLES object,      \* the object the application has: its class, and whether it is_shared
          member,      \* [member of the class -> its block or NULL]
          heap,        \* [block -> the text in it]
          borrowed     \* the last string it got: of which member, at which block

objectVars == <<object, member, heap, borrowed>>

Blocks == 1 .. NBlocks

Classes == {"file", "folder", "message", "mailFolder", "user", "contactFolder", "drive"}

\* The texts there are: those of the application and those of the documents.
Known ==
  Texts \union [text : UNION UNION {Docs[kind] : kind \in DOMAIN Docs},
                form : {"plain", "stripped", "mailbox", "mailboxes", "lower"}]

\* A file has eleven strings, more than the objects of any other class.
ASSUME ObjectsAssumption ==
  /\ NBlocks \in Nat /\ NBlocks >= 11
  /\ DOMAIN Docs \subseteq Classes \union {"item"}
  /\ Garbage # NULL /\ {NULL, Garbage} \intersect (Known \union Blocks \union Classes) = {}

NoObject == [class |-> NULL, shared |-> FALSE]

(***************************************************************************)
(* From JSON to members.                                                   *)
(***************************************************************************)
\* msg_json_object_get_string: the text of JSON member p, as form, or NULL.
Str(doc, p, form) == IF p \in doc THEN [text |-> p, form |-> form] ELSE NULL

Plain(doc, p) == Str(doc, p, "plain")

\* The facets of an item decide on its class; those of the remote item count
\* only if it has none of its own.
ItemClass(doc) ==
  LET own == {"file", "folder"} \cap doc
  IN IF "file" \in doc \/ (own = {} /\ "remoteItem.file" \in doc) THEN "file"
     ELSE IF "folder" \in doc \/ "remoteItem.folder" \in doc THEN "folder"
     ELSE NULL

IsShared(doc) == "remoteItem" \in doc

\* lastModifiedBy is looked at only if there is no createdBy at all.
UserOf(doc) ==
  IF "createdBy" \in doc THEN Plain(doc, "createdBy.user.displayName")
  ELSE Plain(doc, "lastModifiedBy.user.displayName")

ItemMembers(doc) ==
  [id |-> Plain(doc, "id"),
   name |-> Plain(doc, "name"),
   drive_id |-> Plain(doc, "parentReference.driveId"),
   parent_id |-> NULL,
   remote_id |-> Plain(doc, "remoteItem.id"),
   remote_drive_id |-> Plain(doc, "remoteItem.parentReference.driveId"),
   remote_parent_id |-> Plain(doc, "remoteItem.parentReference.id"),
   etag |-> Plain(doc, "eTag"),
   user |-> UserOf(doc)]

\* The thumbnail of the last set wins.
FileMembers(doc) ==
  [mime_type |-> IF "file" \in doc THEN Plain(doc, "file.mimeType")
                 ELSE Plain(doc, "remoteItem.file.mimeType"),
   thumbnail_uri |-> Plain(doc, "thumbnails.small.url")]

\* Addresses are written as "name <address>"; those of the receivers are
\* joined, of the carbon copies the last one is kept.
MessageMembers(doc) ==
  [id |-> Plain(doc, "id"),
   subject |-> Str(doc, "subject", "stripped"),
   body |-> Plain(doc, "body.content"),
   body_preview |-> Plain(doc, "bodyPreview"),
   sender |-> Str(doc, "from", "mailbox"),
   receiver |-> Str(doc, "toRecipients", "mailboxes"),
   cc |-> Str(doc, "ccRecipients", "mailbox")]

MailFolderMembers(doc) ==
  [id |-> Plain(doc, "id"),
   display_name |-> Plain(doc, "displayName"),
   parent_folder_id |-> Plain(doc, "parentFolderId"),
   delta_link |-> NULL]

\* The first of the addresses of a contact, in lower case, before the mail of a user.
UserMembers(doc) ==
  [mail |-> IF "emailAddresses" \in doc THEN Str(doc, "emailAddresses", "lower")
            ELSE Plain(doc, "mail"),
   display_name |-> Plain(doc, "displayName"),
   mobile_phone |-> Plain(doc, "mobilePhone"),
   office_location |-> Plain(doc, "officeLocation"),
   surname |-> Plain(doc, "surname"),
   given_name |-> Plain(doc, "givenName"),
   company_name |-> Plain(doc, "companyName"),
   department |-> Plain(doc, "department")]

ContactFolderMembers(doc) ==
  [id |-> Plain(doc, "id"), display_name |-> Plain(doc, "displayName")]

DriveMembers(doc) == [id |-> Plain(doc, "id"), name |-> Plain(doc, "name")]

\* A drive of an unknown type is an error, as is an item that is neither.
ClassOf(kind, doc) ==
  IF kind = "item" THEN ItemClass(doc)
  ELSE IF kind = "drive" /\ "driveType" \notin doc THEN NULL
  ELSE kind

\* A class has the members of its parent class, and its own.
Derived(parent, own) ==
  [m \in DOMAIN parent \union DOMAIN own |->
     IF m \in DOMAIN parent THEN parent[m] ELSE own[m]]

Members(class, doc) ==
  CASE class = "file"          -> Derived(ItemMembers(doc), FileMembers(doc))
    [] class = "folder"        -> ItemMembers(doc)
    [] class = "message"       -> MessageMembers(doc)
    [] class = "mailFolder"    -> MailFolderMembers(doc)
    [] class = "user"          -> UserMembers(doc)
    [] class = "contactFolder" -> ContactFolderMembers(doc)
    [] class = "drive"         -> DriveMembers(doc)

(***************************************************************************)
(* Strings in memory.                                                      *)
(***************************************************************************)
Held == {member[m] : m \in DOMAIN member} \ {NULL}

\* The text of a member, and that of a string (NULL is the text of NULL).
At(b) == IF b = NULL THEN NULL ELSE heap[b]

Text(m) == At(member[m])

NoMembers == <<>>

Freed == [b \in Blocks |-> Garbage]

\* Which free block g_strdup gets makes no difference: the application never
\* compares strings by their addresses.
Free(blocks) == CHOOSE b \in Blocks : b \notin blocks

\* Member m owns a copy of text, in memory that is otherwise h.
Strdup(m, text, h) ==
  LET b == Free({member[n] : n \in DOMAIN member \ {m}})
  IN IF text = NULL
     THEN member' = [member EXCEPT ![m] = NULL] /\ heap' = h
     ELSE member' = [member EXCEPT ![m] = b] /\ heap' = [h EXCEPT ![b] = text]

ClearPointerOther(m) ==
  IF m = "receiver" /\ member["sender"] # NULL
  THEN [heap EXCEPT ![member["sender"]] = Garbage] ELSE heap

\* What g_clear_pointer leaves of memory.
ClearPointer(m) ==
  IF member[m] = NULL THEN heap ELSE [heap EXCEPT ![member[m]] = Garbage]

\* An object with these members: every text is copied to a block of its own.
Make(class, shared, values) ==
  LET given == SetToSeq({m \in DOMAIN values : values[m] # NULL})
      place(m) == CHOOSE i \in DOMAIN given : given[i] = m
  IN /\ object.class = NULL
     /\ object' = [class |-> class, shared |-> shared]
     /\ member' = [m \in DOMAIN values |-> IF values[m] = NULL THEN NULL ELSE place(m)]
     /\ heap' = [b \in Blocks |-> IF b \in DOMAIN given THEN values[given[b]] ELSE Garbage]
     /\ UNCHANGED borrowed

ObjectsInit ==
  /\ object = NoObject
  /\ member = NoMembers
  /\ heap = Freed
  /\ borrowed = NULL

\* The application makes an empty object.
New == \E class \in Classes : Make(class, FALSE, Members(class, {}))

\* The library makes one from a document; an item of an unknown type, or a
\* drive of one, is an error and no object.
NewFromJson ==
  \E kind \in DOMAIN Docs : \E doc \in Docs[kind] :
    /\ ClassOf(kind, doc) # NULL
    /\ Make(ClassOf(kind, doc), kind = "item" /\ IsShared(doc), Members(ClassOf(kind, doc), doc))

\* A getter lends the string of the member.
Get ==
  \E m \in DOMAIN member \cap Lent :
    /\ member[m] # NULL
    /\ borrowed' = [of |-> m, at |-> member[m]]
    /\ UNCHANGED <<object, member, heap>>

\* A string that was lent lives until its member is set.
Returned(m) == IF borrowed # NULL /\ borrowed.of = m THEN NULL ELSE borrowed

GuardedNever(m) == FALSE

\* The setters of a message's body and subject first compare the pointers.
Guarded(m) == object.class = "message" /\ m \in {"body", "subject"}

\* A setter frees the string there is and copies the one it is given, which
\* is in the application's memory ...
SetText ==
  \E m \in DOMAIN member \cap Settable, text \in Texts \union {NULL} :
    /\ Strdup(m, text, ClearPointer(m))
    /\ borrowed' = Returned(m)
    /\ UNCHANGED object

\* ... or is what a getter has lent, perhaps of this very member: the copy
\* is then made from memory that has just been freed.
SetBorrowed ==
  \E m \in DOMAIN member \cap Settable :
    /\ borrowed # NULL
    /\ borrowed.of = m => m \in SelfSet
    /\ IF Guarded(m) /\ member[m] = borrowed.at
       THEN UNCHANGED objectVars
       ELSE /\ Strdup(m, ClearPointer(m)[borrowed.at], ClearPointer(m))
            /\ borrowed' = Returned(m)
            /\ UNCHANGED object

\* dispose and finalize free the strings.
Unref ==
  /\ object.class # NULL
  /\ object' = NoObject
  /\ member' = NoMembers
  /\ heap' = [b \in Blocks |-> IF b \in Held THEN Garbage ELSE heap[b]]
  /\ borrowed' = NULL

ObjectsNext == New \/ NewFromJson \/ Get \/ SetText \/ SetBorrowed \/ Unref
=============================================================================
