--------------------------- MODULE RequestsProofs ----------------------------
(***************************************************************************)
(* Proofs about Requests and Objects, for any documents, names, texts and  *)
(* writes: what objects keep, that they are the records of Record, and     *)
(* what requests are made of.                                              *)
(***************************************************************************)
EXTENDS Requests, FiniteSetTheorems, SequenceTheorems, TLAPS

-----------------------------------------------------------------------------
(* What objects are made from.                                             *)

Small(S, n) == IsFiniteSet(S) /\ Cardinality(S) \in Nat /\ Cardinality(S) <= n

LEMMA Fewer ==
  ASSUME NEW S, NEW n \in Nat, Small(S, n), NEW T \in SUBSET S
  PROVE  Small(T, n)
  BY FS_Subset, FS_CardinalityType DEF Small

LEMMA AtMostEleven ==
  ASSUME NEW a, NEW b, NEW c, NEW d, NEW e, NEW f, NEW g, NEW h, NEW i, NEW j, NEW k
  PROVE  Small({a, b, c, d, e, f, g, h, i, j, k}, 11)
<1> DEFINE s1 == {a}
           s2 == s1 \union {b}
           s3 == s2 \union {c}
           s4 == s3 \union {d}
           s5 == s4 \union {e}
           s6 == s5 \union {f}
           s7 == s6 \union {g}
           s8 == s7 \union {h}
           s9 == s8 \union {i}
           s10 == s9 \union {j}
           s11 == s10 \union {k}
<1>1. IsFiniteSet(s1) /\ Cardinality(s1) = 1
  BY FS_Singleton
<1>2. IsFiniteSet(s2) /\ Cardinality(s2) \in Nat /\ Cardinality(s2) <= 2
  <2> HIDE DEF s1
  <2> QED  BY <1>1, FS_AddElement
<1>3. IsFiniteSet(s3) /\ Cardinality(s3) \in Nat /\ Cardinality(s3) <= 3
  <2> HIDE DEF s2
  <2> QED  BY <1>2, FS_AddElement
<1>4. IsFiniteSet(s4) /\ Cardinality(s4) \in Nat /\ Cardinality(s4) <= 4
  <2> HIDE DEF s3
  <2> QED  BY <1>3, FS_AddElement
<1>5. IsFiniteSet(s5) /\ Cardinality(s5) \in Nat /\ Cardinality(s5) <= 5
  <2> HIDE DEF s4
  <2> QED  BY <1>4, FS_AddElement
<1>6. IsFiniteSet(s6) /\ Cardinality(s6) \in Nat /\ Cardinality(s6) <= 6
  <2> HIDE DEF s5
  <2> QED  BY <1>5, FS_AddElement
<1>7. IsFiniteSet(s7) /\ Cardinality(s7) \in Nat /\ Cardinality(s7) <= 7
  <2> HIDE DEF s6
  <2> QED  BY <1>6, FS_AddElement
<1>8. IsFiniteSet(s8) /\ Cardinality(s8) \in Nat /\ Cardinality(s8) <= 8
  <2> HIDE DEF s7
  <2> QED  BY <1>7, FS_AddElement
<1>9. IsFiniteSet(s9) /\ Cardinality(s9) \in Nat /\ Cardinality(s9) <= 9
  <2> HIDE DEF s8
  <2> QED  BY <1>8, FS_AddElement
<1>10. IsFiniteSet(s10) /\ Cardinality(s10) \in Nat /\ Cardinality(s10) <= 10
  <2> HIDE DEF s9
  <2> QED  BY <1>9, FS_AddElement
<1>11. IsFiniteSet(s11) /\ Cardinality(s11) \in Nat /\ Cardinality(s11) <= 11
  <2> HIDE DEF s10
  <2> QED  BY <1>10, FS_AddElement
<1>12. s11 = {a, b, c, d, e, f, g, h, i, j, k}
  OBVIOUS
<1> HIDE DEF s11
<1> QED  BY <1>11, <1>12 DEF Small

(* The members of an object, by its class.                                 *)
ItemNames == {"id", "name", "drive_id", "parent_id", "remote_id", "remote_drive_id",
              "remote_parent_id", "etag", "user"}

MembersOf(class) ==
  CASE class = "file"          -> ItemNames \union {"mime_type", "thumbnail_uri"}
    [] class = "folder"        -> ItemNames
    [] class = "message"       -> {"id", "subject", "body", "body_preview", "sender",
                                   "receiver", "cc"}
    [] class = "mailFolder"    -> {"id", "display_name", "parent_folder_id", "delta_link"}
    [] class = "user"          -> {"mail", "display_name", "mobile_phone", "office_location",
                                   "surname", "given_name", "company_name", "department"}
    [] class = "contactFolder" -> {"id", "display_name"}
    [] class = "drive"         -> {"id", "name"}
    [] OTHER                   -> {}

LEMMA ItemAndFileDomains ==
  ASSUME NEW doc
  PROVE  /\ DOMAIN ItemMembers(doc) = ItemNames
         /\ DOMAIN FileMembers(doc) = {"mime_type", "thumbnail_uri"}
  BY DEF ItemMembers, FileMembers, ItemNames

LEMMA MembersDomain ==
  ASSUME NEW class \in Classes, NEW doc
  PROVE  DOMAIN Members(class, doc) = MembersOf(class)
<1>1. CASE class = "file"
  <2>1. Members(class, doc) = Derived(ItemMembers(doc), FileMembers(doc))
    BY <1>1 DEF Members
  <2>2. DOMAIN Derived(ItemMembers(doc), FileMembers(doc)) =
          ItemNames \union {"mime_type", "thumbnail_uri"}
    BY ItemAndFileDomains DEF Derived
  <2> QED  BY <1>1, <2>1, <2>2 DEF MembersOf
<1>2. CASE class = "folder"
  BY <1>2, ItemAndFileDomains DEF Members, MembersOf
<1>3. CASE class = "message"
  BY <1>3 DEF Members, MembersOf, MessageMembers
<1>4. CASE class = "mailFolder"
  BY <1>4 DEF Members, MembersOf, MailFolderMembers
<1>5. CASE class = "user"
  BY <1>5 DEF Members, MembersOf, UserMembers
<1>6. CASE class = "contactFolder"
  BY <1>6 DEF Members, MembersOf, ContactFolderMembers
<1>7. CASE class = "drive"
  BY <1>7 DEF Members, MembersOf, DriveMembers
<1> QED  BY <1>1, <1>2, <1>3, <1>4, <1>5, <1>6, <1>7 DEF Classes

LEMMA MembersSmall == ASSUME NEW class PROVE Small(MembersOf(class), 11)
<1>1. Small(ItemNames \union {"mime_type", "thumbnail_uri"}, 11)
  <2>1. ItemNames \union {"mime_type", "thumbnail_uri"} =
          {"id", "name", "drive_id", "parent_id", "remote_id", "remote_drive_id",
           "remote_parent_id", "etag", "user", "mime_type", "thumbnail_uri"}
    BY DEF ItemNames
  <2>2. Small({"id", "name", "drive_id", "parent_id", "remote_id", "remote_drive_id",
               "remote_parent_id", "etag", "user", "mime_type", "thumbnail_uri"}, 11)
    BY AtMostEleven
  <2> QED  BY <2>1, <2>2
<1>2. Small({"id", "subject", "body", "body_preview", "sender", "receiver", "cc",
             "cc", "cc", "cc", "cc"}, 11)
  BY AtMostEleven
<1>3. Small({"mail", "display_name", "mobile_phone", "office_location", "surname",
             "given_name", "company_name", "department", "mail", "mail", "mail"}, 11)
  BY AtMostEleven
<1>4. Small({"id", "display_name", "parent_folder_id", "delta_link", "name", "name",
             "name", "name", "name", "name", "name"}, 11)
  BY AtMostEleven
<1>5. \/ MembersOf(class) \in SUBSET (ItemNames \union {"mime_type", "thumbnail_uri"})
      \/ MembersOf(class) \in
           SUBSET {"id", "subject", "body", "body_preview", "sender", "receiver", "cc",
                   "cc", "cc", "cc", "cc"}
      \/ MembersOf(class) \in
           SUBSET {"mail", "display_name", "mobile_phone", "office_location", "surname",
                   "given_name", "company_name", "department", "mail", "mail", "mail"}
      \/ MembersOf(class) \in
           SUBSET {"id", "display_name", "parent_folder_id", "delta_link", "name", "name",
                   "name", "name", "name", "name", "name"}
  BY DEF MembersOf
<1> QED  BY <1>1, <1>2, <1>3, <1>4, <1>5, Fewer

(* A text that comes from a document, or none.                             *)
ServerMembers == UNION UNION {Docs[kind] : kind \in DOMAIN Docs}

LEMMA StrKnown ==
  ASSUME NEW doc \in SUBSET ServerMembers, NEW p,
         NEW form \in {"plain", "stripped", "mailbox", "mailboxes", "lower"}
  PROVE  Str(doc, p, form) \in Known \union {NULL}
  BY DEF Str, Known, ServerMembers

LEMMA MembersKnown ==
  ASSUME NEW class \in Classes, NEW doc \in SUBSET ServerMembers,
         NEW m \in DOMAIN Members(class, doc)
  PROVE  Members(class, doc)[m] \in Known \union {NULL}
<1> DEFINE K == Known \union {NULL}
<1>1. \A p : Plain(doc, p) \in K
  BY StrKnown DEF Plain
<1>2. \A p : /\ Str(doc, p, "stripped") \in K /\ Str(doc, p, "mailbox") \in K
             /\ Str(doc, p, "mailboxes") \in K /\ Str(doc, p, "lower") \in K
  BY StrKnown
<1>3. NULL \in K
  OBVIOUS
<1> HIDE DEF K
<1>4. \A n \in DOMAIN ItemMembers(doc) : ItemMembers(doc)[n] \in K
  BY <1>1, <1>3 DEF ItemMembers, UserOf
<1>5. \A n \in DOMAIN FileMembers(doc) : FileMembers(doc)[n] \in K
  BY <1>1, <1>3 DEF FileMembers
<1>6. CASE class = "file"
  <2>1. Members(class, doc) = Derived(ItemMembers(doc), FileMembers(doc))
    BY <1>6 DEF Members
  <2> QED  BY <1>4, <1>5, <2>1 DEF Derived, K
<1>7. CASE class = "folder"
  BY <1>4, <1>7 DEF Members, K
<1>8. CASE class = "message"
  BY <1>1, <1>2, <1>8 DEF Members, MessageMembers, K
<1>9. CASE class = "mailFolder"
  BY <1>1, <1>3, <1>9 DEF Members, MailFolderMembers, K
<1>10. CASE class = "user"
  BY <1>1, <1>2, <1>10 DEF Members, UserMembers, K
<1>11. CASE class = "contactFolder" \/ class = "drive"
  BY <1>1, <1>11 DEF Members, ContactFolderMembers, DriveMembers, K
<1> QED  BY <1>6, <1>7, <1>8, <1>9, <1>10, <1>11 DEF Classes

-----------------------------------------------------------------------------
(* The inductive invariant of objects.  Their members have the types of    *)
(* their class, no two of them hold one block, each block that is held has *)
(* a text, and what was lent last is still held by the member it is of.    *)
MembersInv ==
  /\ object \in [class : Classes \union {NULL}, shared : BOOLEAN]
  /\ DOMAIN member = MembersOf(object.class)
  /\ member = [m \in DOMAIN member |-> member[m]]
  /\ \A m \in DOMAIN member : member[m] \in Blocks \union {NULL}
  /\ DOMAIN heap = Blocks
  /\ heap = [b \in Blocks |-> heap[b]]

OwnBlocks ==
  \A m, n \in DOMAIN member : member[m] # NULL /\ member[m] = member[n] => m = n

HeldTexts == \A m \in DOMAIN member : member[m] # NULL => heap[member[m]] \in Known

LentHeld ==
  borrowed # NULL => /\ borrowed.of \in DOMAIN member \intersect Lent
                     /\ borrowed.at \in Blocks /\ borrowed.at = member[borrowed.of]

ObjectInv == MembersInv /\ OwnBlocks /\ HeldTexts /\ LentHeld

LEMMA NullApart == NULL \notin Known /\ NULL \notin Blocks /\ NULL \notin Classes
  BY ObjectsAssumption

(* What SetToSeq numbers: every element, once.                             *)
LEMMA SetToSeqFacts ==
  ASSUME NEW S, NEW n \in Nat, Small(S, n)
  PROVE  /\ DOMAIN SetToSeq(S) \in SUBSET (1 .. n)
         /\ \A x \in S : \E i \in DOMAIN SetToSeq(S) : SetToSeq(S)[i] = x
<1> DEFINE c == Cardinality(S)
           given == SetToSeq(S)
<1>1. IsFiniteSet(S) /\ c \in Nat /\ c <= n
  BY DEF Small
<1>2. ExistsBijection(1 .. c, S)
  BY <1>1, FS_CardinalityType
<1>3. \E f \in [1 .. c -> S] : IsInjective(f)
  BY <1>2 DEF ExistsBijection, Bijection, Injection
<1>4. given \in [1 .. c -> S] /\ IsInjective(given)
  BY <1>3 DEF SetToSeq
<1>5. given \in Injection(1 .. c, S)
  BY <1>4 DEF Injection
<1>6. IsFiniteSet(1 .. c) /\ Cardinality(1 .. c) = c
  BY <1>1, FS_Interval
<1>7. given \in Surjection(1 .. c, S)
  <2> HIDE DEF given
  <2> QED  BY <1>1, <1>5, <1>6, FS_Injection
<1>8. \A x \in S : \E i \in 1 .. c : given[i] = x
  BY <1>7 DEF Surjection
<1> QED  BY <1>1, <1>4, <1>8

(* A new object: every text is in a block of its own.                      *)
LEMMA MakeFacts ==
  ASSUME NEW class, NEW shared, NEW values, Small(DOMAIN values, 11),
         Make(class, shared, values)
  PROVE  /\ object' = [class |-> class, shared |-> shared]
         /\ DOMAIN member' = DOMAIN values
         /\ member' = [m \in DOMAIN member' |-> member'[m]]
         /\ DOMAIN heap' = Blocks /\ heap' = [b \in Blocks |-> heap'[b]]
         /\ \A m \in DOMAIN values : values[m] = NULL => member'[m] = NULL
         /\ \A m \in DOMAIN values : values[m] # NULL =>
              member'[m] \in Blocks /\ heap'[member'[m]] = values[m]
         /\ \A m, n \in DOMAIN values :
              values[m] # NULL /\ values[n] # NULL /\ member'[m] = member'[n] => m = n
         /\ borrowed' = borrowed
<1> DEFINE S == {m \in DOMAIN values : values[m] # NULL}
           given == SetToSeq(S)
           place(m) == CHOOSE i \in DOMAIN given : given[i] = m
<1>1. Small(S, 11)
  BY Fewer
<1>2. /\ DOMAIN given \in SUBSET (1 .. 11)
      /\ \A m \in S : \E i \in DOMAIN given : given[i] = m
  BY <1>1, SetToSeqFacts
<1>3. DOMAIN given \in SUBSET Blocks
  BY <1>2, ObjectsAssumption DEF Blocks
<1> HIDE DEF given
<1>4. \A m \in S : place(m) \in DOMAIN given /\ given[place(m)] = m
  BY <1>2
<1>5. /\ member' = [m \in DOMAIN values |-> IF values[m] = NULL THEN NULL ELSE place(m)]
      /\ heap' = [b \in Blocks |-> IF b \in DOMAIN given THEN values[given[b]] ELSE Garbage]
  BY DEF Make, given
<1> HIDE DEF place
<1>6. \A m \in DOMAIN values : values[m] = NULL => member'[m] = NULL
  BY <1>5
<1>7. ASSUME NEW m \in DOMAIN values, values[m] # NULL
      PROVE  /\ member'[m] \in Blocks /\ heap'[member'[m]] = values[m]
             /\ member'[m] = place(m) /\ given[place(m)] = m
  BY <1>3, <1>4, <1>5, <1>7
<1>8. \A m, n \in DOMAIN values :
        values[m] # NULL /\ values[n] # NULL /\ member'[m] = member'[n] => m = n
  BY <1>7
<1>9. /\ DOMAIN member' = DOMAIN values
      /\ member' = [m \in DOMAIN member' |-> member'[m]]
      /\ DOMAIN heap' = Blocks /\ heap' = [b \in Blocks |-> heap'[b]]
  BY <1>5
<1>10. object' = [class |-> class, shared |-> shared] /\ borrowed' = borrowed
  BY DEF Make
<1> QED  BY <1>6, <1>7, <1>8, <1>9, <1>10

(* There is a free block for every string: the other members of an object  *)
(* hold ten at most.                                                       *)
LEMMA FreeFacts ==
  ASSUME MembersInv, NEW m \in DOMAIN member
  PROVE  LET others == {member[n] : n \in DOMAIN member \ {m}}
         IN  Free(others) \in Blocks /\ Free(others) \notin others
<1> DEFINE D == DOMAIN member
           E == D \ {m}
           others == {member[n] : n \in E}
           f == [n \in E |-> member[n]]
<1>1. IsFiniteSet(D) /\ Cardinality(D) \in Nat /\ Cardinality(D) <= 11
  BY MembersSmall DEF MembersInv, Small
<1>2. IsFiniteSet(E) /\ Cardinality(E) <= 10 /\ Cardinality(E) \in Nat
  <2>1. m \in D
    OBVIOUS
  <2> HIDE DEF D
  <2>2. IsFiniteSet(D \ {m}) /\ Cardinality(D \ {m}) = Cardinality(D) - 1
    BY <1>1, <2>1, FS_RemoveElement
  <2>3. Cardinality(D \ {m}) \in Nat
    BY <2>2, FS_CardinalityType
  <2> HIDE DEF E
  <2>4. E = D \ {m}
    BY DEF E
  <2> QED  BY <1>1, <2>2, <2>3, <2>4
<1>3. f \in Surjection(E, others)
  BY DEF Surjection
<1>4. IsFiniteSet(others) /\ Cardinality(others) <= Cardinality(E)
  <2> HIDE DEF E, others, f
  <2> QED  BY <1>2, <1>3, FS_Surjection
<1>5. Cardinality(others) \in Nat
  BY <1>4, FS_CardinalityType
<1>6. IsFiniteSet(Blocks) /\ Cardinality(Blocks) = NBlocks
  BY FS_Interval, ObjectsAssumption DEF Blocks
<1>7. ~(Blocks \in SUBSET others)
  <2> SUFFICES ASSUME Blocks \in SUBSET others PROVE FALSE
    OBVIOUS
  <2>1. Cardinality(Blocks) <= Cardinality(others)
    BY <1>4, FS_Subset
  <2> HIDE DEF others, E
  <2> QED  BY <1>2, <1>4, <1>5, <1>6, <2>1, ObjectsAssumption
<1>8. \E b \in Blocks : b \notin others
  BY <1>7
<1> HIDE DEF others
<1>9. Free(others) \in Blocks /\ Free(others) \notin others
  BY <1>8 DEF Free
<1> QED  BY <1>9 DEF others

(* A setter: the member has the new text, every other one the text it had, *)
(* each in its own block.                                                  *)
LEMMA SetFacts ==
  ASSUME ObjectInv, NEW m \in DOMAIN member, NEW text \in Known \union {NULL},
         Strdup(m, text, ClearPointer(m)), borrowed' = Returned(m), object' = object
  PROVE  /\ ObjectInv'
         /\ DOMAIN member' = DOMAIN member
         /\ \A n \in DOMAIN member : Text(n)' = IF n = m THEN text ELSE Text(n)
<1> DEFINE others == {member[n] : n \in DOMAIN member \ {m}}
           b == Free(others)
           h == ClearPointer(m)
<1>1. /\ MembersInv /\ OwnBlocks /\ HeldTexts /\ LentHeld
      /\ NULL \notin Known /\ NULL \notin Blocks
  BY NullApart DEF ObjectInv
<1>2. b \in Blocks /\ b \notin others
  BY <1>1, FreeFacts
<1>3. DOMAIN h = Blocks /\ h = [c \in Blocks |-> h[c]]
  BY <1>1 DEF ClearPointer, MembersInv
<1>4. \A n \in DOMAIN member \ {m} : member[n] # NULL => h[member[n]] = heap[member[n]]
  BY <1>1 DEF ClearPointer, MembersInv, OwnBlocks
<1>5. IF text = NULL
      THEN member' = [member EXCEPT ![m] = NULL] /\ heap' = h
      ELSE member' = [member EXCEPT ![m] = b] /\ heap' = [h EXCEPT ![b] = text]
  BY DEF Strdup
<1>6. \A n \in DOMAIN member \ {m} : member[n] # b
  BY <1>2
<1> HIDE DEF b, h
<1>7. /\ DOMAIN member' = DOMAIN member
      /\ member' = [n \in DOMAIN member' |-> member'[n]]
      /\ member'[m] = IF text = NULL THEN NULL ELSE b
      /\ \A n \in DOMAIN member \ {m} : member'[n] = member[n]
  BY <1>1, <1>5 DEF MembersInv
<1>8. /\ DOMAIN heap' = Blocks /\ heap' = [c \in Blocks |-> heap'[c]]
      /\ text # NULL => heap'[b] = text
      /\ \A n \in DOMAIN member \ {m} : member[n] # NULL => heap'[member[n]] = heap[member[n]]
  BY <1>1, <1>2, <1>3, <1>4, <1>5, <1>6 DEF MembersInv
<1>9. MembersInv'
  BY <1>1, <1>2, <1>7, <1>8 DEF MembersInv
<1>10. OwnBlocks'
  BY <1>1, <1>6, <1>7 DEF OwnBlocks
<1>11. HeldTexts'
  BY <1>1, <1>7, <1>8 DEF HeldTexts
<1>12. LentHeld'
  BY <1>1, <1>7 DEF LentHeld, Returned
<1>13. \A n \in DOMAIN member : Text(n)' = IF n = m THEN text ELSE Text(n)
  BY <1>1, <1>2, <1>7, <1>8 DEF Text, At
<1> QED  BY <1>7, <1>9, <1>10, <1>11, <1>12, <1>13 DEF ObjectInv

(* A new object has the texts that its class makes of the document.        *)
LEMMA MakeInv ==
  ASSUME ObjectInv, NEW class \in Classes, NEW shared \in BOOLEAN,
         NEW doc \in SUBSET ServerMembers, Make(class, shared, Members(class, doc))
  PROVE  /\ ObjectInv'
         /\ DOMAIN member' = MembersOf(class)
         /\ \A m \in MembersOf(class) : Text(m)' = Members(class, doc)[m]
         /\ object' = [class |-> class, shared |-> shared]
<1> DEFINE values == Members(class, doc)
<1>1. DOMAIN values = MembersOf(class)
  BY MembersDomain
<1>2. Small(DOMAIN values, 11)
  BY <1>1, MembersSmall
<1>3. \A m \in DOMAIN values : values[m] \in Known \union {NULL}
  BY MembersKnown
<1>4. NULL \notin Known /\ NULL \notin Blocks
  BY NullApart
<1>5. borrowed = NULL
  <2>1. object.class = NULL
    BY DEF Make
  <2>2. MembersOf(object.class) = {}
    BY <2>1, NullApart DEF MembersOf, Classes
  <2> QED  BY <2>2 DEF ObjectInv, MembersInv, LentHeld
<1> HIDE DEF values
<1>6. Make(class, shared, values)
  BY DEF values
<1>7. /\ object' = [class |-> class, shared |-> shared]
      /\ DOMAIN member' = DOMAIN values
      /\ member' = [m \in DOMAIN member' |-> member'[m]]
      /\ DOMAIN heap' = Blocks /\ heap' = [b \in Blocks |-> heap'[b]]
      /\ \A m \in DOMAIN values : values[m] = NULL => member'[m] = NULL
      /\ \A m \in DOMAIN values : values[m] # NULL =>
           member'[m] \in Blocks /\ heap'[member'[m]] = values[m]
      /\ \A m, n \in DOMAIN values :
           values[m] # NULL /\ values[n] # NULL /\ member'[m] = member'[n] => m = n
      /\ borrowed' = borrowed
  BY <1>2, <1>6, MakeFacts
<1>8. MembersInv'
  BY <1>1, <1>7 DEF MembersInv
<1>9. OwnBlocks'
  BY <1>4, <1>7 DEF OwnBlocks
<1>10. HeldTexts'
  BY <1>3, <1>7 DEF HeldTexts
<1>11. LentHeld'
  BY <1>5, <1>7 DEF LentHeld
<1>12. \A m \in DOMAIN values : Text(m)' = values[m]
  BY <1>4, <1>7 DEF Text, At
<1> QED  BY <1>1, <1>7, <1>8, <1>9, <1>10, <1>11, <1>12 DEF ObjectInv, values

-----------------------------------------------------------------------------
(* The steps of the application on an object.  What is asked of it: that   *)
(* it sets a member to the very string a getter lent of it only where the  *)
(* setter compares the pointers, those of a message's body and subject;    *)
(* everywhere else the code copies what it has just freed (CopiesLive).    *)
SelfSetGuarded == SelfSet \subseteq {"body", "subject"}

Sets(m, text) ==
  /\ object' = object /\ DOMAIN member' = DOMAIN member
  /\ \A n \in DOMAIN member : Text(n)' = IF n = m THEN text ELSE Text(n)

Makes(class, shared, doc) ==
  /\ object.class = NULL /\ object' = [class |-> class, shared |-> shared]
  /\ DOMAIN member' = MembersOf(class)
  /\ \A m \in MembersOf(class) : Text(m)' = Members(class, doc)[m]

LEMMA NewFacts ==
  ASSUME ObjectInv, New
  PROVE  ObjectInv' /\ \E class \in Classes : Makes(class, FALSE, {})
<1>1. PICK class \in Classes : Make(class, FALSE, Members(class, {}))
  BY DEF New
<1>2. {} \in SUBSET ServerMembers
  OBVIOUS
<1>3. object.class = NULL
  BY <1>1 DEF Make
<1> QED  BY <1>1, <1>2, <1>3, MakeInv DEF Makes

LEMMA NewFromJsonFacts ==
  ASSUME ObjectInv, NewFromJson
  PROVE  ObjectInv' /\ \E class \in Classes, shared \in BOOLEAN, doc \in SUBSET ServerMembers :
                         Makes(class, shared, doc)
<1>1. PICK kind \in DOMAIN Docs :
        \E doc \in Docs[kind] :
          /\ ClassOf(kind, doc) # NULL
          /\ Make(ClassOf(kind, doc), kind = "item" /\ IsShared(doc),
                  Members(ClassOf(kind, doc), doc))
  BY DEF NewFromJson
<1>2. PICK doc \in Docs[kind] :
        /\ ClassOf(kind, doc) # NULL
        /\ Make(ClassOf(kind, doc), kind = "item" /\ IsShared(doc),
                Members(ClassOf(kind, doc), doc))
  BY <1>1
<1> DEFINE class == ClassOf(kind, doc)
           shared == kind = "item" /\ IsShared(doc)
<1>3. doc \in SUBSET ServerMembers
  BY DEF ServerMembers
<1>4. class \in Classes
  BY <1>2, ObjectsAssumption DEF ClassOf, ItemClass, Classes
<1>5. shared \in BOOLEAN
  BY DEF IsShared
<1>6. Make(class, shared, Members(class, doc)) /\ object.class = NULL
  BY <1>2 DEF Make
<1> HIDE DEF class, shared
<1> QED  BY <1>3, <1>4, <1>5, <1>6, MakeInv DEF Makes

LEMMA GetFacts ==
  ASSUME ObjectInv, Get PROVE ObjectInv' /\ UNCHANGED <<object, member, heap>>
<1>1. PICK m \in DOMAIN member \intersect Lent :
        /\ member[m] # NULL /\ borrowed' = [of |-> m, at |-> member[m]]
        /\ UNCHANGED <<object, member, heap>>
  BY DEF Get
<1>2. object' = object /\ member' = member /\ heap' = heap
  BY <1>1
<1>3. LentHeld'
  BY <1>1, <1>2 DEF LentHeld, ObjectInv, MembersInv
<1> QED  BY <1>2, <1>3 DEF ObjectInv, MembersInv, OwnBlocks, HeldTexts

LEMMA SetTextFacts ==
  ASSUME ObjectInv, SetText
  PROVE  ObjectInv' /\ \E m \in DOMAIN member \intersect Settable,
                           text \in Texts \union {NULL} : Sets(m, text)
<1>1. PICK m \in DOMAIN member \intersect Settable, text \in Texts \union {NULL} :
        /\ Strdup(m, text, ClearPointer(m))
        /\ borrowed' = Returned(m)
        /\ object' = object
  BY DEF SetText
<1>2. text \in Known \union {NULL}
  BY DEF Known
<1>3. ObjectInv' /\ Sets(m, text)
  BY <1>1, <1>2, SetFacts DEF Sets
<1> QED  BY <1>3

(* A string lent by one member may be set as another: it is not the one    *)
(* that is freed.                                                          *)
LEMMA SetBorrowedFacts ==
  ASSUME SelfSetGuarded, ObjectInv, SetBorrowed
  PROVE  \/ UNCHANGED objectVars
         \/ ObjectInv' /\ \E m \in DOMAIN member \intersect Settable,
                             n \in DOMAIN member \intersect Lent : Sets(m, Text(n))
<1>1. PICK m \in DOMAIN member \intersect Settable :
        /\ borrowed # NULL
        /\ borrowed.of = m => m \in SelfSet
        /\ IF Guarded(m) /\ member[m] = borrowed.at
           THEN UNCHANGED objectVars
           ELSE /\ Strdup(m, ClearPointer(m)[borrowed.at], ClearPointer(m))
                /\ borrowed' = Returned(m)
                /\ UNCHANGED object
  BY DEF SetBorrowed
<1> DEFINE n == borrowed.of
<1>2. /\ MembersInv /\ OwnBlocks /\ HeldTexts
      /\ n \in DOMAIN member \intersect Lent /\ borrowed.at = member[n]
      /\ borrowed.at \in Blocks /\ NULL \notin Blocks
  BY <1>1, NullApart DEF ObjectInv, LentHeld
<1>3. CASE n = m
  <2>1. m \in {"body", "subject"}
    BY <1>1, <1>3 DEF SelfSetGuarded
  <2>2. object.class = "message"
    BY <1>2, <2>1 DEF MembersInv, MembersOf, ItemNames
  <2> QED  BY <1>1, <1>2, <1>3, <2>1, <2>2 DEF Guarded
<1>4. CASE n # m
  <2>1. member[m] # borrowed.at
    BY <1>2, <1>4 DEF OwnBlocks
  <2>2. ClearPointer(m)[borrowed.at] = heap[borrowed.at]
    BY <1>2, <2>1 DEF ClearPointer, MembersInv
  <2>3. heap[borrowed.at] = Text(n) /\ heap[borrowed.at] \in Known
    BY <1>2 DEF Text, At, HeldTexts
  <2>4. /\ Strdup(m, Text(n), ClearPointer(m)) /\ borrowed' = Returned(m)
        /\ object' = object /\ Text(n) \in Known \union {NULL}
    BY <1>1, <2>1, <2>2, <2>3
  <2>5. ObjectInv' /\ Sets(m, Text(n))
    BY <2>4, SetFacts DEF Sets
  <2> QED  BY <1>2, <2>5
<1> QED  BY <1>3, <1>4

LEMMA UnrefFacts ==
  ASSUME ObjectInv, Unref PROVE ObjectInv' /\ object' = NoObject /\ member' = <<>>
<1>1. object' = NoObject /\ member' = <<>> /\ borrowed' = NULL
  BY DEF Unref, NoMembers
<1>2. heap' = [b \in Blocks |-> IF b \in Held THEN Garbage ELSE heap[b]]
  BY DEF Unref
<1>3. DOMAIN member' = {} /\ member' = [m \in DOMAIN member' |-> member'[m]]
  BY <1>1
<1>4. MembersInv'
  <2>1. object'.class = NULL /\ object' \in [class : Classes \union {NULL}, shared : BOOLEAN]
    BY <1>1 DEF NoObject
  <2>2. MembersOf(object'.class) = {}
    BY <2>1, NullApart DEF MembersOf, Classes
  <2> QED  BY <1>2, <1>3, <2>1, <2>2 DEF MembersInv
<1> QED  BY <1>1, <1>3, <1>4 DEF ObjectInv, OwnBlocks, HeldTexts, LentHeld

LEMMA ObjectsStep ==
  ASSUME SelfSetGuarded, ObjectInv, ObjectsNext PROVE ObjectInv'
<1>1. CASE UNCHANGED objectVars
  BY <1>1 DEF objectVars, ObjectInv, MembersInv, OwnBlocks, HeldTexts, LentHeld
<1> QED
  BY <1>1, NewFacts, NewFromJsonFacts, GetFacts, SetTextFacts, SetBorrowedFacts, UnrefFacts
  DEF ObjectsNext

-----------------------------------------------------------------------------
(* An object is a record of texts.                                         *)
LEMMA SetsRecord ==
  ASSUME ObjectInv, ObjectInv', object.class # NULL, NEW m \in DOMAIN member,
         NEW text \in Texts \union {NULL} \union {Text(n) : n \in DOMAIN member}, Sets(m, text)
  PROVE  AsRecord!Set
<1> DEFINE rec == [n \in DOMAIN member |-> Text(n)]
<1>1. rec' = [rec EXCEPT ![m] = text]
  BY DEF Sets
<1>2. text \in Texts \union {NULL} \union {rec[n] : n \in DOMAIN rec}
  OBVIOUS
<1>3. object'.class = object.class
  BY DEF Sets
<1>4. m \in DOMAIN rec
  OBVIOUS
<1>5. rec' = [n \in DOMAIN member' |-> Text(n)']
  OBVIOUS
<1> QED  BY <1>1, <1>2, <1>3, <1>4, <1>5 DEF AsRecord!Set, AsRecord!SetTo

LEMMA MakesRecord ==
  ASSUME ObjectInv', NEW class \in Classes, NEW shared \in BOOLEAN,
         NEW doc \in SUBSET ServerMembers, Makes(class, shared, doc)
  PROVE  AsRecord!Make
<1>1. object.class = NULL /\ object'.class # NULL
  BY NullApart DEF Makes
<1>2. \A m \in DOMAIN member' : Text(m)' \in Known \union {NULL}
  BY MembersKnown, MembersDomain DEF Makes
<1> QED  BY <1>1, <1>2 DEF AsRecord!Make

LEMMA UnrefRecord == ASSUME ObjectInv, Unref PROVE AsRecord!Unref
<1>1. object.class # NULL /\ object'.class = NULL
  BY DEF Unref, NoObject
<1>2. member' = <<>>
  BY UnrefFacts
<1>3. [n \in DOMAIN member' |-> Text(n)'] = <<>>
  BY <1>2
<1> QED  BY <1>1, <1>3 DEF AsRecord!Unref

LEMMA SameRecord ==
  ASSUME UNCHANGED <<object, member, heap>> PROVE UNCHANGED AsRecord!vars
<1>1. object' = object /\ member' = member /\ heap' = heap
  OBVIOUS
<1>2. [n \in DOMAIN member' |-> Text(n)'] = [n \in DOMAIN member |-> Text(n)]
  BY <1>1 DEF Text, At
<1> QED  BY <1>1, <1>2 DEF AsRecord!vars

LEMMA ObjectsStepRecord ==
  ASSUME SelfSetGuarded, ObjectInv, ObjectsNext
  PROVE  [AsRecord!Next]_AsRecord!vars
<1>1. CASE New
  <2>1. {} \in SUBSET ServerMembers /\ FALSE \in BOOLEAN
    OBVIOUS
  <2> QED  BY <1>1, <2>1, NewFacts, MakesRecord DEF AsRecord!Next
<1>2. CASE NewFromJson
  BY <1>2, NewFromJsonFacts, MakesRecord DEF AsRecord!Next
<1>3. CASE Get
  BY <1>3, GetFacts, SameRecord
<1>4. ASSUME NEW m \in DOMAIN member PROVE object.class # NULL
  BY <1>4, NullApart DEF ObjectInv, MembersInv, MembersOf, Classes
<1>5. CASE SetText
  BY <1>4, <1>5, SetTextFacts, SetsRecord DEF AsRecord!Next
<1>6. CASE SetBorrowed
  <2>1. CASE UNCHANGED objectVars
    BY <2>1, SameRecord DEF objectVars
  <2>2. CASE ObjectInv' /\ \E m \in DOMAIN member \intersect Settable,
                              n \in DOMAIN member \intersect Lent : Sets(m, Text(n))
    BY <1>4, <2>2, SetsRecord DEF AsRecord!Next
  <2> QED  BY <1>6, <2>1, <2>2, SetBorrowedFacts
<1>7. CASE Unref
  BY <1>7, UnrefRecord DEF AsRecord!Next
<1> QED  BY <1>1, <1>2, <1>3, <1>5, <1>6, <1>7 DEF ObjectsNext

-----------------------------------------------------------------------------
(* Of which item the texts of an item are.  What is asked of the           *)
(* application: it neither sets nor passes on what names the item of the   *)
(* owner (there is no setter for either member), nor comes by the same     *)
(* text by itself.                                                         *)
RemoteTexts ==
  [text : {"remoteItem.id", "remoteItem.parentReference.driveId"}, form : {"plain"}]

RemoteNames == {"remote_id", "remote_drive_id"}

RemoteLeftAlone ==
  /\ Settable \intersect RemoteNames = {} /\ Lent \intersect RemoteNames = {}
  /\ Texts \intersect RemoteTexts = {}

SideOf(m) == IF m \in RemoteNames THEN "remote" ELSE "own"

OnSide(m, text) == text # NULL => ItemOf(text) = SideOf(m)

SidesInv == IsItem => \A m \in DOMAIN member : OnSide(m, Text(m))

LEMMA ItemMembersSides ==
  ASSUME NEW class \in {"file", "folder"}, NEW doc
  PROVE  \A m \in MembersOf(class) : OnSide(m, Members(class, doc)[m])
<1>1. ASSUME NEW m, NEW p,
             m \in RemoteNames <=> p \in {"remoteItem.id", "remoteItem.parentReference.driveId"}
      PROVE  OnSide(m, Plain(doc, p))
  BY <1>1 DEF Plain, Str, OnSide, ItemOf, SideOf
<1>2. \A m \in ItemNames : OnSide(m, ItemMembers(doc)[m])
  <2>1. /\ OnSide("id", ItemMembers(doc)["id"]) /\ OnSide("name", ItemMembers(doc)["name"])
        /\ OnSide("drive_id", ItemMembers(doc)["drive_id"])
        /\ OnSide("parent_id", ItemMembers(doc)["parent_id"])
        /\ OnSide("etag", ItemMembers(doc)["etag"])
    BY <1>1 DEF ItemMembers, RemoteNames, OnSide
  <2>2. /\ OnSide("remote_id", ItemMembers(doc)["remote_id"])
        /\ OnSide("remote_drive_id", ItemMembers(doc)["remote_drive_id"])
        /\ OnSide("remote_parent_id", ItemMembers(doc)["remote_parent_id"])
    BY <1>1 DEF ItemMembers, RemoteNames
  <2>3. OnSide("user", ItemMembers(doc)["user"])
    BY <1>1 DEF ItemMembers, UserOf, RemoteNames
  <2> QED  BY <2>1, <2>2, <2>3 DEF ItemNames
<1>3. \A m \in {"mime_type", "thumbnail_uri"} : OnSide(m, FileMembers(doc)[m])
  BY <1>1 DEF FileMembers, RemoteNames
<1>4. CASE class = "file"
  <2>1. Members(class, doc) = Derived(ItemMembers(doc), FileMembers(doc))
    BY <1>4 DEF Members
  <2>2. MembersOf(class) = ItemNames \union {"mime_type", "thumbnail_uri"}
    BY <1>4 DEF MembersOf
  <2> QED  BY <1>2, <1>3, <2>1, <2>2, ItemAndFileDomains DEF Derived
<1>5. CASE class = "folder"
  BY <1>2, <1>5 DEF Members, MembersOf
<1> QED  BY <1>4, <1>5

LEMMA SetsSides ==
  ASSUME SidesInv, NEW m \in DOMAIN member, NEW text, IsItem => OnSide(m, text), Sets(m, text)
  PROVE  SidesInv'
  BY DEF SidesInv, IsItem, Sets, OnSide

LEMMA MakesSides ==
  ASSUME NEW class \in Classes, NEW shared, NEW doc, Makes(class, shared, doc)
  PROVE  SidesInv'
<1> SUFFICES ASSUME IsItem' PROVE (\A m \in DOMAIN member : OnSide(m, Text(m)))'
  BY DEF SidesInv
<1>1. class \in {"file", "folder"}
  BY DEF Makes, IsItem
<1>2. DOMAIN member' = MembersOf(class)
  BY DEF Makes
<1>3. \A m \in DOMAIN member' : OnSide(m, Text(m)')
  BY <1>1, <1>2, ItemMembersSides DEF Makes
<1> QED  BY <1>3 DEF OnSide

LEMMA SameObject ==
  ASSUME UNCHANGED <<object, member, heap>>
  PROVE  /\ IsItem' = IsItem /\ OwnAddress' = OwnAddress /\ ReadAddress' = ReadAddress
         /\ \A m : Text(m)' = Text(m)
         /\ DOMAIN member' = DOMAIN member /\ object' = object /\ SidesInv' = SidesInv
<1>1. object' = object /\ member' = member /\ heap' = heap
  OBVIOUS
<1>2. \A m : Text(m)' = Text(m)
  BY <1>1 DEF Text, At
<1> QED  BY <1>1, <1>2 DEF IsItem, OwnAddress, ReadAddress, SidesInv, OnSide

LEMMA SidesStep ==
  ASSUME SelfSetGuarded, RemoteLeftAlone, ObjectInv, SidesInv, ObjectsNext PROVE SidesInv'
<1>1. CASE New
  BY <1>1, NewFacts, MakesSides
<1>2. CASE NewFromJson
  BY <1>2, NewFromJsonFacts, MakesSides
<1>3. CASE Get
  BY <1>3, GetFacts, SameObject
<1>4. CASE SetText
  <2>1. ASSUME NEW m \in DOMAIN member \intersect Settable, NEW text \in Texts \union {NULL}
        PROVE  OnSide(m, text)
    BY DEF RemoteLeftAlone, OnSide, ItemOf, SideOf, RemoteTexts
  <2> QED  BY <1>4, <2>1, SetTextFacts, SetsSides
<1>5. CASE SetBorrowed
  <2>1. ASSUME NEW m \in DOMAIN member \intersect Settable,
               NEW n \in DOMAIN member \intersect Lent, IsItem
        PROVE  OnSide(m, Text(n))
    BY <2>1 DEF RemoteLeftAlone, SidesInv, OnSide, SideOf
  <2>2. CASE UNCHANGED objectVars
    BY <2>2, SameObject DEF objectVars
  <2> QED  BY <1>5, <2>1, <2>2, SetBorrowedFacts, SetsSides
<1>6. CASE Unref
  BY <1>6, UnrefFacts, NullApart DEF SidesInv, IsItem, NoObject, Classes
<1> QED  BY <1>1, <1>2, <1>3, <1>4, <1>5, <1>6 DEF ObjectsNext

-----------------------------------------------------------------------------
(* What requests are made of.                                              *)
LEMMA StrconcatTwo ==
  ASSUME NEW a, NEW b
  PROVE  Strconcat(<<a, b>>) =
           IF a = NULL THEN <<>> ELSE IF b = NULL THEN <<a>> ELSE <<a, b>>
<1> DEFINE parts == <<a, b>>
           I == {i \in 1 .. Len(parts) : parts[i] = NULL}
<1>1. Strconcat(parts) =
        LET end == IF I # {} THEN Min(I) ELSE 0
        IN IF end = 0 THEN parts ELSE SubSeq(parts, 1, end - 1)
  BY DEF Strconcat, SelectInSeq
<1>2. Len(parts) = 2 /\ parts[1] = a /\ parts[2] = b
  OBVIOUS
<1>3. CASE a = NULL
  <2>1. 1 \in I /\ \A i \in I : 1 <= i /\ i \in Int
    BY <1>2, <1>3
  <2>2. Min(I) = 1
    <3> HIDE DEF I
    <3> QED  BY <2>1 DEF Min
  <2>3. SubSeq(parts, 1, 0) = <<>>
    OBVIOUS
  <2>4. Strconcat(parts) = SubSeq(parts, 1, Min(I) - 1)
    <3> HIDE DEF I
    <3> QED  BY <1>1, <2>1, <2>2
  <2>5. Min(I) - 1 = 0
    BY <2>2
  <2> HIDE DEF I, parts
  <2>6. Strconcat(parts) = <<>>
    BY <2>3, <2>4, <2>5
  <2> QED  BY <1>3, <2>6 DEF parts
<1>4. CASE a # NULL /\ b = NULL
  <2>1. 2 \in I /\ \A i \in I : i = 2
    BY <1>2, <1>4
  <2>2. Min(I) = 2
    <3> HIDE DEF I
    <3> QED  BY <2>1 DEF Min
  <2>3. SubSeq(parts, 1, 1) = <<a>>
    <3>1. \A i \in 1 .. 1 : parts[i] \in {a}
      BY <1>2
    <3> HIDE DEF parts
    <3>2. /\ SubSeq(parts, 1, 1) \in Seq({a})
          /\ Len(SubSeq(parts, 1, 1)) = 1 /\ SubSeq(parts, 1, 1)[1] = parts[1 + 1 - 1]
      BY <3>1, SubSeqProperties
    <3>3. SubSeq(parts, 1, 1)[1] = a
      BY <1>2, <3>2
    <3>4. <<a>> \in Seq({a}) /\ Len(<<a>>) = 1 /\ <<a>>[1] = a
      OBVIOUS
    <3>5. \A i \in 1 .. 1 : SubSeq(parts, 1, 1)[i] = <<a>>[i]
      BY <3>3, <3>4
    <3> QED  BY <3>2, <3>4, <3>5, SeqEqual
  <2>4. Min(I) - 1 = 1
    BY <2>2
  <2>5. Strconcat(parts) = SubSeq(parts, 1, Min(I) - 1)
    <3> HIDE DEF I, parts
    <3> QED  BY <1>1, <2>1, <2>2
  <2> HIDE DEF parts, I
  <2>6. Strconcat(parts) = <<a>>
    BY <2>3, <2>4, <2>5
  <2> QED  BY <1>4, <2>6 DEF parts
<1>5. CASE a # NULL /\ b # NULL
  <2>1. I = {}
    BY <1>2, <1>5
  <2> HIDE DEF I
  <2> QED  BY <1>1, <1>5, <2>1
<1> QED  BY <1>3, <1>4, <1>5

LEMMA StrconcatOne ==
  ASSUME NEW a
  PROVE  Strconcat(<<a>>) = IF a = NULL THEN <<>> ELSE <<a>>
<1> DEFINE parts == <<a>>
           I == {i \in 1 .. Len(parts) : parts[i] = NULL}
<1>1. Strconcat(parts) =
        LET end == IF I # {} THEN Min(I) ELSE 0
        IN IF end = 0 THEN parts ELSE SubSeq(parts, 1, end - 1)
  BY DEF Strconcat, SelectInSeq
<1>2. Len(parts) = 1 /\ parts[1] = a
  OBVIOUS
<1>3. CASE a = NULL
  <2>1. 1 \in I /\ \A i \in I : 1 <= i /\ i \in Int
    BY <1>2, <1>3
  <2>2. Min(I) = 1
    <3> HIDE DEF I
    <3> QED  BY <2>1 DEF Min
  <2>3. SubSeq(parts, 1, 0) = <<>>
    OBVIOUS
  <2>4. Strconcat(parts) = SubSeq(parts, 1, Min(I) - 1)
    <3> HIDE DEF I
    <3> QED  BY <1>1, <2>1, <2>2
  <2>5. Min(I) - 1 = 0
    BY <2>2
  <2> HIDE DEF I, parts
  <2>6. Strconcat(parts) = <<>>
    BY <2>3, <2>4, <2>5
  <2> QED  BY <1>3, <2>6 DEF parts
<1>4. CASE a # NULL
  <2>1. I = {}
    BY <1>2, <1>4
  <2> HIDE DEF I
  <2> QED  BY <1>1, <1>4, <2>1
<1> QED  BY <1>3, <1>4

(* A request that was sent, by its operation: how it is addressed, under   *)
(* which name, and with what.                                              *)
Changes == {"rename", "create_folder", "add_item_to_folder", "delete", "copy_file",
            "move_file", "update", "update_finish"}

ByIds == {"delete_message", "get_mime_message", "get_messages", "get_root"}

Addressed(r) ==
  \/ IsItem /\ r.op \in Reads /\ r.address = ReadAddress
  \/ IsItem /\ r.op \in Changes /\ r.address = OwnAddress
  \/ /\ object.class = "message" /\ r.op = "create_draft_message" /\ r.address = <<>>
     /\ r.content = <<Text("subject"), Text("body_preview"), Text("receiver")>>
  \/ /\ object.class \in {"message", "mailFolder", "drive"} /\ r.op \in ByIds
     /\ r.address = Strconcat(<<Text("id")>>)

Named(r) ==
  /\ r.op \in {"rename", "create_folder"} =>
       \E name \in Names : IsValidName(name) /\ r.content = [given |-> name, sent |-> name]
  /\ r.op = "add_item_to_folder" =>
       \E name \in Names : IsValidName(name)
                           /\ r.content = [given |-> name, sent |-> EscapeName(name)]

Uploaded(r) == r.op = "update_finish" => r.content = upload.written

RequestInv == request # NULL => Addressed(request) /\ Named(request) /\ Uploaded(request)

(* The stream of an upload has all that was written to it.                 *)
UploadInv ==
  /\ upload \in [stream : BOOLEAN, content : 0 .. MaxWrites, written : 0 .. MaxWrites]
  /\ upload.stream => upload.content = upload.written

(* The inductive invariant of the requests, whatever becomes of objects.   *)
Inv == RequestInv /\ UploadInv

LEMMA SentFacts ==
  ASSUME UNCHANGED <<object, member, heap>>, NEW op, NEW address, NEW content,
         request' = [op |-> op, address |-> address, content |-> content],
         Addressed([op |-> op, address |-> address, content |-> content]),
         Named([op |-> op, address |-> address, content |-> content]),
         op = "update_finish" => content = upload'.written
  PROVE  RequestInv'
<1> DEFINE r == [op |-> op, address |-> address, content |-> content]
<1>1. r.op = op /\ r.address = address /\ r.content = content
  OBVIOUS
<1> HIDE DEF r
<1>2. request' = r /\ Addressed(r) /\ Named(r)
  BY DEF r
<1>3. Addressed(request)'
  BY <1>2, SameObject DEF Addressed
<1>4. Named(request)'
  BY <1>2 DEF Named
<1>5. Uploaded(request)'
  BY <1>1, <1>2 DEF Uploaded
<1> QED  BY <1>3, <1>4, <1>5 DEF RequestInv

LEMMA SameObjectInv == ASSUME ObjectInv, UNCHANGED objectVars PROVE ObjectInv'
  BY DEF objectVars, ObjectInv, MembersInv, OwnBlocks, HeldTexts, LentHeld

LEMMA RefuseInv == ASSUME Inv, Refuse PROVE Inv'
<1>1. request' = NULL /\ UNCHANGED objectVars /\ upload' = upload
  BY DEF Refuse
<1> QED  BY <1>1 DEF Inv, RequestInv, UploadInv

LEMMA SendInv ==
  ASSUME Inv, NEW op, op # "update_finish", NEW address, NEW content,
         Send(op, address, content),
         Addressed([op |-> op, address |-> address, content |-> content]),
         Named([op |-> op, address |-> address, content |-> content])
  PROVE  Inv'
<1>1. /\ request' = [op |-> op, address |-> address, content |-> content]
      /\ UNCHANGED objectVars /\ upload' = upload
  BY DEF Send
<1>2. UNCHANGED <<object, member, heap>>
  BY <1>1 DEF objectVars
<1>3. RequestInv'
  BY <1>1, <1>2, SentFacts
<1> QED  BY <1>1, <1>3 DEF Inv, UploadInv

LEMMA InvReads == ASSUME Inv, download_item \/ list_children PROVE Inv'
<1>1. ASSUME NEW op \in Reads, Send(op, ReadAddress, NULL), IsItem PROVE Inv'
  <2> DEFINE r == [op |-> op, address |-> ReadAddress, content |-> NULL]
  <2>1. r.op = op /\ r.address = ReadAddress
    OBVIOUS
  <2> HIDE DEF r
  <2>2. Addressed(r) /\ Named(r) /\ op # "update_finish"
    BY <1>1, <2>1 DEF Addressed, Named, Reads
  <2> QED  BY <1>1, <2>2, SendInv DEF r
<1> QED  BY <1>1, RefuseInv DEF download_item, list_children, Reads

LEMMA InvNames == ASSUME Inv, rename \/ create_folder \/ add_item_to_folder PROVE Inv'
<1>1. ASSUME NEW op \in {"rename", "create_folder"}, NEW name \in Names, IsValidName(name),
             Send(op, OwnAddress, [given |-> name, sent |-> name]), IsItem
      PROVE  Inv'
  <2> DEFINE r == [op |-> op, address |-> OwnAddress,
                   content |-> [given |-> name, sent |-> name]]
  <2>1. r.op = op /\ r.address = OwnAddress /\ r.content = [given |-> name, sent |-> name]
    OBVIOUS
  <2> HIDE DEF r
  <2>2. Addressed(r) /\ Named(r) /\ op # "update_finish"
    BY <1>1, <2>1 DEF Addressed, Named, Changes
  <2> QED  BY <1>1, <2>2, SendInv DEF r
<1>2. ASSUME NEW name \in Names, IsValidName(name), IsItem,
             Send("add_item_to_folder", OwnAddress,
                  [given |-> name, sent |-> EscapeName(name)])
      PROVE  Inv'
  <2> DEFINE r == [op |-> "add_item_to_folder", address |-> OwnAddress,
                   content |-> [given |-> name, sent |-> EscapeName(name)]]
  <2>1. /\ r.op = "add_item_to_folder" /\ r.address = OwnAddress
        /\ r.content = [given |-> name, sent |-> EscapeName(name)]
    OBVIOUS
  <2> HIDE DEF r
  <2>2. Addressed(r) /\ Named(r)
    BY <1>2, <2>1 DEF Addressed, Named, Changes
  <2> QED  BY <1>2, <2>2, SendInv DEF r
<1> QED  BY <1>1, <1>2, RefuseInv DEF rename, create_folder, add_item_to_folder

LEMMA InvChanges == ASSUME Inv, delete \/ copy_file \/ move_file PROVE Inv'
<1>1. ASSUME NEW op \in {"delete", "copy_file", "move_file"}, NEW content,
             Send(op, OwnAddress, content), IsItem
      PROVE  Inv'
  <2> DEFINE r == [op |-> op, address |-> OwnAddress, content |-> content]
  <2>1. r.op = op /\ r.address = OwnAddress
    OBVIOUS
  <2> HIDE DEF r
  <2>2. Addressed(r) /\ Named(r) /\ op # "update_finish"
    BY <1>1, <2>1 DEF Addressed, Named, Changes
  <2> QED  BY <1>1, <2>2, SendInv DEF r
<1> QED  BY <1>1, RefuseInv DEF delete, copy_file, move_file

LEMMA InvUpdate == ASSUME Inv, update PROVE Inv'
<1>1. CASE Refuse
  BY <1>1, RefuseInv
<1>2. CASE /\ request' = [op |-> "update", address |-> OwnAddress, content |-> NULL]
           /\ upload' \in {upload, [NoUpload EXCEPT !.stream = TRUE]}
           /\ UNCHANGED objectVars
  <2> DEFINE r == [op |-> "update", address |-> OwnAddress, content |-> NULL]
  <2>1. r.op = "update" /\ r.address = OwnAddress /\ request' = r /\ IsItem
    BY <1>2 DEF update
  <2> HIDE DEF r
  <2>2. Addressed(r) /\ Named(r)
    BY <2>1 DEF Addressed, Named, Changes
  <2>3. UNCHANGED <<object, member, heap>>
    BY <1>2 DEF objectVars
  <2>4. RequestInv'
    BY <1>2, <2>2, <2>3, SentFacts DEF r
  <2>5. UploadInv'
    <3>1. CASE upload' = upload
      BY <3>1 DEF Inv, UploadInv
    <3>2. CASE upload' = [NoUpload EXCEPT !.stream = TRUE]
      <4>1. upload' = [stream |-> TRUE, content |-> 0, written |-> 0]
        BY <3>2 DEF NoUpload
      <4> QED  BY <4>1, NamesAssumption DEF UploadInv
    <3> QED  BY <1>2, <3>1, <3>2
  <2> QED  BY <2>4, <2>5 DEF Inv
<1> QED  BY <1>1, <1>2 DEF update

LEMMA InvWrite == ASSUME Inv, Write PROVE Inv'
<1>1. /\ upload.stream /\ upload.written < MaxWrites
      /\ upload' = [upload EXCEPT !.content = @ + 1, !.written = @ + 1]
      /\ request' = NULL /\ UNCHANGED objectVars
  BY DEF Write
<1>2. UploadInv'
  <2>1. upload' = [stream |-> upload.stream, content |-> upload.content + 1,
                   written |-> upload.written + 1]
    BY <1>1 DEF Inv, UploadInv
  <2>2. /\ upload.content \in 0 .. MaxWrites /\ upload.written \in 0 .. MaxWrites
        /\ upload.stream \in BOOLEAN /\ upload.content = upload.written
    BY <1>1 DEF Inv, UploadInv
  <2>3. upload.written + 1 \in 0 .. MaxWrites
    BY <1>1, <2>2, NamesAssumption
  <2> QED  BY <2>1, <2>2, <2>3 DEF UploadInv
<1> QED  BY <1>1, <1>2 DEF Inv, RequestInv

LEMMA InvUpdateFinish == ASSUME Inv, UpdateFinishRefused \/ update_finish PROVE Inv'
<1>1. CASE UpdateFinishRefused
  BY <1>1, RefuseInv DEF UpdateFinishRefused
<1>2. CASE update_finish
  <2> DEFINE r == [op |-> "update_finish", address |-> OwnAddress, content |-> upload.content]
  <2>1. /\ r.op = "update_finish" /\ r.address = OwnAddress /\ request' = r /\ IsItem
        /\ upload.stream /\ upload' = [upload EXCEPT !.stream = FALSE, !.content = 0]
        /\ UNCHANGED objectVars
    BY <1>2 DEF update_finish
  <2> HIDE DEF r
  <2>2. Addressed(r) /\ Named(r)
    BY <2>1 DEF Addressed, Named, Changes
  <2>3. UNCHANGED <<object, member, heap>>
    BY <2>1 DEF objectVars
  <2>4. upload.content = upload'.written
    BY <2>1 DEF Inv, UploadInv
  <2>5. RequestInv'
    BY <2>1, <2>2, <2>3, <2>4, SentFacts DEF r
  <2>6. UploadInv'
    <3>1. upload' = [stream |-> FALSE, content |-> 0, written |-> upload.written]
      BY <2>1 DEF Inv, UploadInv
    <3>2. upload.written \in 0 .. MaxWrites
      BY DEF Inv, UploadInv
    <3> QED  BY <3>1, <3>2, NamesAssumption DEF UploadInv
  <2> QED  BY <2>5, <2>6 DEF Inv
<1> QED  BY <1>1, <1>2

LEMMA InvMail ==
  ASSUME Inv, \/ create_draft_message \/ delete_message \/ get_mime_message
              \/ get_messages \/ get_root
  PROVE  Inv'
<1>1. ASSUME NEW op \in ByIds, NEW class \in {"message", "mailFolder", "drive"},
             ById(op, class)
      PROVE  Inv'
  <2> DEFINE address == Strconcat(<<Text("id")>>)
             r == [op |-> op, address |-> address, content |-> NULL]
  <2>1. r.op = op /\ r.address = address
    OBVIOUS
  <2>2. object.class = class /\ (Send(op, address, NULL) \/ Refuse)
    BY <1>1 DEF ById
  <2> HIDE DEF r
  <2>3. Addressed(r) /\ Named(r) /\ op # "update_finish"
    BY <2>1, <2>2 DEF Addressed, Named, ByIds
  <2> HIDE DEF address
  <2> QED  BY <2>2, <2>3, RefuseInv, SendInv DEF r
<1>2. CASE create_draft_message
  <2> DEFINE content == <<Text("subject"), Text("body_preview"), Text("receiver")>>
             r == [op |-> "create_draft_message", address |-> <<>>, content |-> content]
  <2>1. r.op = "create_draft_message" /\ r.address = <<>> /\ r.content = content
    OBVIOUS
  <2>2. /\ object.class = "message"
        /\ Send("create_draft_message", <<>>, content) \/ Refuse
    BY <1>2 DEF create_draft_message
  <2> HIDE DEF r
  <2>3. Addressed(r) /\ Named(r)
    BY <2>1, <2>2 DEF Addressed, Named
  <2> HIDE DEF content
  <2> QED  BY <2>2, <2>3, RefuseInv, SendInv DEF r
<1> QED
  BY <1>1, <1>2 DEF delete_message, get_mime_message, get_messages, get_root, ByIds

LEMMA InvApplication == ASSUME Inv, Application PROVE Inv'
<1>1. /\ ObjectsNext /\ request' = NULL
      /\ upload' = IF object' = NoObject THEN NoUpload ELSE upload
  BY DEF Application
<1>2. UploadInv'
  BY <1>1, NamesAssumption DEF Inv, UploadInv, NoUpload
<1> QED  BY <1>1, <1>2 DEF Inv, RequestInv

-----------------------------------------------------------------------------
THEOREM InvInit == Init => Inv /\ ObjectInv
<1> SUFFICES ASSUME Init PROVE Inv /\ ObjectInv
  OBVIOUS
<1>1. /\ object = NoObject /\ member = <<>> /\ heap = [b \in Blocks |-> Garbage]
      /\ borrowed = NULL /\ request = NULL
      /\ upload = [stream |-> FALSE, content |-> 0, written |-> 0]
  BY DEF Init, ObjectsInit, NoMembers, Freed, NoUpload
<1>2. DOMAIN member = {} /\ member = [m \in DOMAIN member |-> member[m]]
  BY <1>1
<1>3. object.class = NULL /\ object \in [class : Classes \union {NULL}, shared : BOOLEAN]
  BY <1>1 DEF NoObject
<1>4. MembersOf(object.class) = {}
  BY <1>3, NullApart DEF MembersOf, Classes
<1>5. ObjectInv
  BY <1>1, <1>2, <1>3, <1>4 DEF ObjectInv, MembersInv, OwnBlocks, HeldTexts, LentHeld
<1>6. UploadInv
  BY <1>1, NamesAssumption DEF UploadInv
<1> QED  BY <1>1, <1>5, <1>6 DEF Inv, RequestInv

LEMMA SameInv == ASSUME Inv, UNCHANGED vars PROVE Inv'
<1>1. UNCHANGED objectVars /\ request' = request /\ upload' = upload
  BY DEF vars, objectVars
<1>2. UNCHANGED <<object, member, heap>>
  BY <1>1 DEF objectVars
<1>3. RequestInv'
  <2> SUFFICES ASSUME request # NULL
               PROVE  (Addressed(request) /\ Named(request) /\ Uploaded(request))'
    BY <1>1 DEF RequestInv
  <2>1. Addressed(request) /\ Named(request) /\ Uploaded(request)
    BY DEF Inv, RequestInv
  <2>2. Addressed(request)'
    BY <1>1, <1>2, <2>1, SameObject DEF Addressed
  <2>3. Named(request)' /\ Uploaded(request)'
    BY <1>1, <2>1 DEF Named, Uploaded
  <2> QED  BY <2>2, <2>3
<1> QED  BY <1>1, <1>3 DEF Inv, UploadInv

THEOREM InvStep == Inv /\ [Next]_vars => Inv'
<1> SUFFICES ASSUME Inv, [Next]_vars PROVE Inv'
  OBVIOUS
<1> QED
  BY SameInv, InvApplication, InvReads, InvNames, InvChanges, InvUpdate, InvWrite,
     InvUpdateFinish, InvMail DEF Next

THEOREM Invariance == Spec => []Inv
  BY InvInit, InvStep, PTL DEF Spec

(* Only the application's own steps change an object.                      *)
LEMMA RequestsKeepObjects ==
  ASSUME [Next]_vars, ~Application PROVE UNCHANGED objectVars
  BY DEF Next, vars, objectVars, Send, Refuse, ById, download_item, list_children, rename,
     create_folder, add_item_to_folder, delete, copy_file, move_file, update, Write,
     UpdateFinishRefused, update_finish, create_draft_message, delete_message,
     get_mime_message, get_messages, get_root

THEOREM ObjectsInvariance == ASSUME SelfSetGuarded PROVE Spec => []ObjectInv
<1>1. ASSUME ObjectInv, [Next]_vars PROVE ObjectInv'
  <2>1. CASE Application
    BY <1>1, <2>1, ObjectsStep DEF Application
  <2>2. CASE ~Application
    BY <1>1, <2>2, RequestsKeepObjects, SameObjectInv
  <2> QED  BY <2>1, <2>2
<1> QED  BY <1>1, InvInit, PTL DEF Spec

(* An address is made of two texts of one side, or of one text, and has no *)
(* NULL in it.                                                             *)
LEMMA AddressFacts ==
  ASSUME NEW r, Addressed(r), NEW i \in DOMAIN r.address
  PROVE  /\ r.address[i] # NULL
         /\ \/ /\ IsItem /\ r.op \in Reads /\ object.shared
               /\ r.address[i] \in {Text("remote_drive_id"), Text("remote_id")}
            \/ /\ IsItem /\ ~(r.op \in Reads /\ object.shared)
               /\ r.address[i] \in {Text("drive_id"), Text("id")}
            \/ /\ ~IsItem /\ object.class \in {"message", "mailFolder", "drive"}
               /\ r.address[i] = Text("id")
<1>1. ASSUME NEW a, NEW b, NEW s, s = Strconcat(<<a, b>>), NEW j \in DOMAIN s
      PROVE  s[j] # NULL /\ s[j] \in {a, b}
  <2>1. CASE a = NULL
    <3>1. s = <<>>
      BY <1>1, <2>1, StrconcatTwo
    <3>2. DOMAIN s = {}
      BY <3>1
    <3> QED  BY <1>1, <3>2
  <2>2. CASE a # NULL /\ b = NULL
    <3>1. s = <<a>>
      BY <1>1, <2>2, StrconcatTwo
    <3> QED  BY <1>1, <2>2, <3>1
  <2>3. CASE a # NULL /\ b # NULL
    <3>1. s = <<a, b>>
      BY <1>1, <2>3, StrconcatTwo
    <3>2. j \in {1, 2}
      BY <1>1, <3>1
    <3> QED  BY <2>3, <3>1, <3>2
  <2> QED  BY <2>1, <2>2, <2>3
<1>2. ASSUME NEW a, NEW s, s = Strconcat(<<a>>), NEW j \in DOMAIN s
      PROVE  s[j] # NULL /\ s[j] = a
  BY <1>2, StrconcatOne
<1>3. CASE IsItem /\ r.op \in Reads /\ r.address = ReadAddress /\ object.shared
  BY <1>1, <1>3 DEF ReadAddress
<1>4. CASE IsItem /\ r.op \in Reads /\ r.address = ReadAddress /\ ~object.shared
  BY <1>1, <1>4 DEF ReadAddress, OwnAddress
<1>5. CASE IsItem /\ r.op \in Changes /\ r.address = OwnAddress
  BY <1>1, <1>5 DEF OwnAddress, Changes, Reads
<1>6. CASE r.address = <<>>
  BY <1>6
<1>7. CASE /\ object.class \in {"message", "mailFolder", "drive"}
           /\ r.address = Strconcat(<<Text("id")>>)
  BY <1>2, <1>7 DEF IsItem
<1> QED  BY <1>3, <1>4, <1>5, <1>6, <1>7 DEF Addressed

(* Every object has the members of its class, each in a block of memory or *)
(* NULL; what was lent is of one of them; an address has no NULL in it,    *)
(* for g_strconcat ends before the first (msg_drive_service_rename).       *)
THEOREM TypeCorrect == ASSUME SelfSetGuarded PROVE Spec => []TypeOK
<1>1. ASSUME Inv, ObjectInv PROVE TypeOK
  <2>1. \A r : Addressed(r) => \A i \in DOMAIN r.address : r.address[i] # NULL
    BY AddressFacts
  <2>2. request # NULL => \A i \in DOMAIN request.address : request.address[i] # NULL
    BY <1>1, <2>1 DEF Inv, RequestInv
  <2> QED
    BY <1>1, <2>2 DEF Inv, ObjectInv, MembersInv, LentHeld, UploadInv, TypeOK
<1> QED  BY <1>1, Invariance, ObjectsInvariance, PTL

(* Setters and getters of every class (msg-drive-item.c, msg-mail-message.c *)
(* and the others) copy, free and lend strings so that an object is the    *)
(* record of texts its application sees, if strings that were lent by the  *)
(* member they are given back to are those of a message's body or subject. *)
THEOREM Refines == ASSUME SelfSetGuarded PROVE Spec => RecordImplemented
<1>1. Init => AsRecord!Init
  <2> SUFFICES ASSUME Init PROVE AsRecord!Init
    OBVIOUS
  <2>1. object.class = NULL /\ member = <<>>
    BY DEF Init, ObjectsInit, NoObject, NoMembers
  <2>2. [m \in DOMAIN member |-> Text(m)] = <<>>
    BY <2>1
  <2> QED  BY <2>1, <2>2 DEF AsRecord!Init
<1>2. ASSUME ObjectInv, [Next]_vars PROVE [AsRecord!Next]_AsRecord!vars
  <2>1. CASE Application
    BY <1>2, <2>1, ObjectsStepRecord DEF Application
  <2>2. CASE ~Application
    BY <1>2, <2>2, RequestsKeepObjects, SameRecord DEF objectVars
  <2> QED  BY <2>1, <2>2
<1> QED  BY <1>1, <1>2, ObjectsInvariance, PTL DEF Spec, RecordImplemented, AsRecord!Spec

(* Nothing that was freed is sent: the texts of every address, and those   *)
(* of a draft, are the server's or the application's                       *)
(* (msg_drive_service_*, create_draft_message of msg-mail-service.c).      *)
THEOREM KnownSent == ASSUME SelfSetGuarded PROVE Spec => []SentKnown
<1>1. ASSUME Inv, ObjectInv PROVE SentKnown
  <2>1. \A m \in DOMAIN member : Text(m) \in Known \union {NULL}
    BY <1>1 DEF ObjectInv, HeldTexts, Text, At
  <2> SUFFICES ASSUME request # NULL
               PROVE  /\ \A i \in DOMAIN request.address : request.address[i] \in Known
                      /\ request.op = "create_draft_message" =>
                           \A i \in DOMAIN request.content :
                             request.content[i] \in Known \union {NULL}
    BY DEF SentKnown, Range
  <2>2. Addressed(request)
    BY <1>1 DEF Inv, RequestInv
  <2>3. DOMAIN member = MembersOf(object.class)
    BY <1>1 DEF ObjectInv, MembersInv
  <2>4. ASSUME NEW i \in DOMAIN request.address PROVE request.address[i] \in Known
    <3>1. IsItem => {"id", "drive_id", "remote_id", "remote_drive_id"} \subseteq DOMAIN member
      BY <2>3 DEF IsItem, MembersOf, ItemNames
    <3>2. object.class \in {"message", "mailFolder", "drive"} => "id" \in DOMAIN member
      BY <2>3 DEF MembersOf
    <3> QED  BY <2>1, <2>2, <3>1, <3>2, AddressFacts
  <2>5. ASSUME request.op = "create_draft_message"
        PROVE  \A i \in DOMAIN request.content : request.content[i] \in Known \union {NULL}
    <3>1. /\ object.class = "message"
          /\ request.content = <<Text("subject"), Text("body_preview"), Text("receiver")>>
      BY <2>2, <2>5 DEF Addressed, Reads, Changes, ByIds
    <3>2. {"subject", "body_preview", "receiver"} \subseteq DOMAIN member
      BY <2>3, <3>1 DEF MembersOf
    <3>3. \A m \in {"subject", "body_preview", "receiver"} : Text(m) \in Known \union {NULL}
      BY <2>1, <3>2
    <3>4. DOMAIN request.content = 1 .. 3
      BY <3>1
    <3>5. \A i \in 1 .. 3 : i = 1 \/ i = 2 \/ i = 3
      OBVIOUS
    <3> QED  BY <3>1, <3>3, <3>4, <3>5
  <2> QED  BY <2>4, <2>5
<1> QED  BY <1>1, Invariance, ObjectsInvariance, PTL

(* A name that rename, create_folder or add_item_to_folder sends, the last *)
(* of them escaped in an address, is the one the application gave, and one *)
(* that is_valid_name allows; for names of any length.                     *)
THEOREM NamesAsGiven == Spec => []NameAsGiven
<1>1. ASSUME NEW name \in Seq(Parts), IsValidName(name)
      PROVE  /\ ~HasPart(name, {":", "/"}) /\ ~HasPart(name, {":", "/", "_vti_"})
             /\ name \notin {<<"con">>, <<"CON">>, <<"_VTI_">>}
             /\ ~HasPart(EscapeName(name), {":", "/"})
             /\ [i \in DOMAIN EscapeName(name) |-> Unescaped(EscapeName(name)[i])] = name
  <2>1. ~HasPart(name, {":", "/"}) /\ ~HasPart(name, {":", "/", "_vti_"})
    BY <1>1 DEF IsValidName, HasPart
  <2>2. name \notin {<<"con">>, <<"CON">>, <<"_VTI_">>}
    <3>1. ~(Len(name) = 1 /\ name[1] \in {"con", "CON", "_VTI_"})
      BY <1>1 DEF IsValidName, IsReserved, Lower
    <3>2. ASSUME NEW part, name = <<part>> PROVE Len(name) = 1 /\ name[1] = part
      BY <3>2
    <3> QED  BY <3>1, <3>2
  <2>3. /\ DOMAIN EscapeName(name) = DOMAIN name
        /\ \A i \in DOMAIN name : EscapeName(name)[i] = Escaped(name[i])
    BY DEF EscapeName
  <2>4. \A i \in DOMAIN name : name[i] \in Parts
    OBVIOUS
  <2>5. \A part \in Parts : Escaped(part) \notin {":", "/"} /\ Unescaped(Escaped(part)) = part
    BY DEF Parts, Escaped, Unescaped
  <2>6. ~HasPart(EscapeName(name), {":", "/"})
    BY <2>3, <2>4, <2>5 DEF HasPart
  <2>7. name = [i \in DOMAIN name |-> name[i]]
    OBVIOUS
  <2>8. [i \in DOMAIN EscapeName(name) |-> Unescaped(EscapeName(name)[i])] = name
    BY <2>3, <2>4, <2>5, <2>7
  <2> QED  BY <2>1, <2>2, <2>6, <2>8
<1>2. ASSUME Inv PROVE NameAsGiven
  <2> SUFFICES ASSUME request # NULL,
                      request.op \in {"rename", "create_folder", "add_item_to_folder"}
               PROVE  NameAsGiven
    BY DEF NameAsGiven
  <2>1. Named(request)
    BY <1>2 DEF Inv, RequestInv
  <2>2. CASE request.op \in {"rename", "create_folder"}
    <3>1. PICK name \in Names : /\ IsValidName(name)
                                /\ request.content = [given |-> name, sent |-> name]
      BY <2>1, <2>2 DEF Named
    <3>2. request.content.given = name /\ request.content.sent = name /\ name \in Seq(Parts)
      BY <3>1, NamesAssumption
    <3> QED  BY <1>1, <2>2, <3>1, <3>2 DEF NameAsGiven
  <2>3. CASE request.op = "add_item_to_folder"
    <3>1. PICK name \in Names : /\ IsValidName(name)
                                /\ request.content = [given |-> name, sent |-> EscapeName(name)]
      BY <2>1, <2>3 DEF Named
    <3>2. /\ request.content.given = name /\ request.content.sent = EscapeName(name)
          /\ name \in Seq(Parts)
      BY <3>1, NamesAssumption
    <3> QED  BY <1>1, <2>3, <3>1, <3>2 DEF NameAsGiven
  <2> QED  BY <2>2, <2>3
<1> QED  BY <1>2, Invariance, PTL

(* The bytes that update_finish takes from the stream of an upload are     *)
(* those the application has written to it since msg_drive_service_update, *)
(* whatever was refused in between.                                        *)
THEOREM UploadsKept == Spec => []UploadKept
<1>1. Inv => UploadKept
  BY DEF Inv, RequestInv, UploadInv, Uploaded, UploadKept
<1> QED  BY <1>1, Invariance, PTL

THEOREM SidesInvariance ==
  ASSUME SelfSetGuarded, RemoteLeftAlone PROVE Spec => []SidesInv
<1>1. Init => SidesInv
  BY NullApart DEF Init, ObjectsInit, NoObject, SidesInv, IsItem, Classes
<1>2. ASSUME ObjectInv, SidesInv, [Next]_vars PROVE SidesInv'
  <2>1. CASE Application
    BY <1>2, <2>1, SidesStep DEF Application
  <2>2. CASE ~Application
    BY <1>2, <2>2, RequestsKeepObjects, SameObject DEF objectVars
  <2> QED  BY <2>1, <2>2
<1> QED  BY <1>1, <1>2, ObjectsInvariance, PTL DEF Spec

(* The drive and the item of a request are both the user's or both the     *)
(* owner's (msg_drive_service_list_children, msg_drive_service_rename and  *)
(* the others), and one is left out only if the object lacks a member.     *)
THEOREM Sides == ASSUME SelfSetGuarded, RemoteLeftAlone PROVE Spec => []OneItem
<1>1. ASSUME Inv, ObjectInv, SidesInv PROVE OneItem
  <2> SUFFICES ASSUME request # NULL, IsItem PROVE OneItem
    BY DEF OneItem
  <2>1. Addressed(request)
    BY <1>1 DEF Inv, RequestInv
  <2>2. {"id", "drive_id", "remote_id", "remote_drive_id"} \subseteq DOMAIN member
    BY <1>1 DEF ObjectInv, MembersInv, IsItem, MembersOf, ItemNames
  <2>3. /\ OnSide("id", Text("id")) /\ OnSide("drive_id", Text("drive_id"))
        /\ OnSide("remote_id", Text("remote_id"))
        /\ OnSide("remote_drive_id", Text("remote_drive_id"))
    BY <1>1, <2>2 DEF SidesInv
  <2>4. /\ SideOf("id") = "own" /\ SideOf("drive_id") = "own"
        /\ SideOf("remote_id") = "remote" /\ SideOf("remote_drive_id") = "remote"
    BY DEF SideOf, RemoteNames
  <2>5. \A m \in DOMAIN member : Text(m) = NULL => member[m] = NULL
    BY <1>1, NullApart DEF ObjectInv, HeldTexts, Text, At
  <2>6. CASE request.op \in Reads /\ object.shared
    <3>1. request.address = Strconcat(<<Text("remote_drive_id"), Text("remote_id")>>)
      BY <2>1, <2>6 DEF Addressed, ReadAddress, Changes, Reads, IsItem
    <3>2. \A i \in DOMAIN request.address : ItemOf(request.address[i]) = "remote"
      BY <2>1, <2>3, <2>4, <2>6, AddressFacts DEF OnSide
    <3>3. Len(request.address) < 2 => Text("remote_drive_id") = NULL \/ Text("remote_id") = NULL
      <4> SUFFICES ASSUME Text("remote_drive_id") # NULL, Text("remote_id") # NULL
                   PROVE  ~(Len(request.address) < 2)
        OBVIOUS
      <4>1. request.address = <<Text("remote_drive_id"), Text("remote_id")>>
        BY <3>1, StrconcatTwo
      <4> QED  BY <4>1
    <3> QED  BY <2>2, <2>5, <2>6, <3>2, <3>3 DEF OneItem
  <2>7. CASE ~(request.op \in Reads /\ object.shared)
    <3>1. request.address = Strconcat(<<Text("drive_id"), Text("id")>>)
      BY <2>1, <2>7 DEF Addressed, ReadAddress, OwnAddress, IsItem
    <3>2. \A i \in DOMAIN request.address : ItemOf(request.address[i]) = "own"
      BY <2>1, <2>3, <2>4, <2>7, AddressFacts DEF OnSide
    <3>3. Len(request.address) < 2 => Text("drive_id") = NULL \/ Text("id") = NULL
      <4> SUFFICES ASSUME Text("drive_id") # NULL, Text("id") # NULL
                   PROVE  ~(Len(request.address) < 2)
        OBVIOUS
      <4>1. request.address = <<Text("drive_id"), Text("id")>>
        BY <3>1, StrconcatTwo
      <4> QED  BY <4>1
    <3> QED  BY <2>2, <2>5, <2>7, <3>2, <3>3 DEF OneItem
  <2> QED  BY <2>6, <2>7
<1> QED  BY <1>1, Invariance, ObjectsInvariance, SidesInvariance, PTL
=============================================================================
