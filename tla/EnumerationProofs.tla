------------------------- MODULE EnumerationProofs --------------------------
(***************************************************************************)
(* Proofs about Enumeration, for any number of pages, elements and         *)
(* identifiers.                                                            *)
(***************************************************************************)
EXTENDS Enumeration, SequenceTheorems, TLAPS

-----------------------------------------------------------------------------
(* The inductive invariant.                                                *)

(* Where a call started: at the beginning, or where its application is.    *)
First == IF call.op \in Linked THEN Link ELSE 1

(* What the call has read so far can be told from where it stands.         *)
Limit == IF call.pc = "array"
         THEN IF call.url <= call.size THEN call.url ELSE call.size
         ELSE call.url - 1

Seen == {p \in Readable(First, Limit) :
           call.pc = "array" => Before(p, <<call.url, call.index>>)}

IdsOf(list) == {list[n].id : n \in DOMAIN list}

(* The list has what was seen, bundles once; of each drive that was seen   *)
(* it has the identifier, if not the drive itself.                         *)
Collecting ==
  /\ call.result = "none" /\ ~call.fallback
  /\ call.single => call.op \in Linked
  /\ call.url \in First .. Len(pages) + 1
  /\ call.read = call.url - First
  /\ Lists(call.list, Kept(call.op, Seen), call.op.order)
  /\ call.op.drives =>
       /\ \A p \in Seen : Element(p).id \in IdsOf(call.list)
       /\ call.list # <<>> => typeOf = Last(call.list).id

(* The page that was answered is what it was then.                         *)
Answered ==
  /\ call.url <= call.size + 1
  /\ call.array = IF call.url <= call.size THEN pages[call.url] ELSE <<>>
  /\ call.index <= Len(call.array) + 1
  /\ call.next = IF call.url < call.size THEN call.url + 1 ELSE None

Falling ==
  /\ call.op.drives /\ ~call.fallback /\ call.result = "none"
  /\ call.read <= Len(pages) /\ Readable(1, call.read) = {}

CallInv ==
  /\ call.size <= Len(pages)
  /\ call.pc \in {"fetch", "array"} => Collecting
  /\ call.pc = "array" => Answered
  /\ call.pc = "default" => Falling
  /\ call.fallback => call.read <= Len(pages)

LinkInv == Link \in 1 .. Len(pages) + 1

Inv == TypeOK /\ CallInv /\ LinkInv /\ ListComplete /\ Synced /\ NothingReplaced

-----------------------------------------------------------------------------
(* Pages, elements and operations.                                         *)
USE PagesAssumption

All == Elements \cup {Unreadable}

LEMMA PageFacts ==
  /\ \A s \in Pages : s \in Seq(All) /\ Len(s) <= MaxLength
  /\ <<>> \in Pages
<1>1. Pages = UNION {[1 .. m -> All] : m \in 0 .. MaxLength}
  BY DEF Pages, BoundedSeq, SeqOf, All
<1>2. ASSUME NEW s \in Pages PROVE s \in Seq(All) /\ Len(s) <= MaxLength
  <2>1. PICK m \in 0 .. MaxLength : s \in [1 .. m -> All]
    BY <1>1
  <2> QED  BY <2>1
<1>3. <<>> \in [1 .. 0 -> All]
  OBVIOUS
<1> QED  BY <1>1, <1>2, <1>3

LEMMA ElementFacts ==
  /\ \A e \in All : e # Unreadable => e \in Elements /\ e.id \in Ids
  /\ Unreadable \notin Elements
BY DEF All, Elements, Unreadable

LEMMA OperationFacts ==
  /\ \A op \in Operations : op.order \in {"append", "prepend"} /\ op.drives \in BOOLEAN
                            /\ (op.drives => op.order = "append" /\ op \notin Linked)
  /\ \A op \in Linked : op \in Operations /\ op.order = "append" /\ ~op.drives
  /\ \A op \in Operations : op.links = "both" => op \in Linked
  /\ get_drives \in Operations
BY DEF Operations, Linked, Operation, get_drives, list_children, get_shared_with_me,
       get_contacts, get_contact_folders, find_users, get_mail_folders, get_messages

(* Positions of readable elements are those of elements there are.         *)
LEMMA ReadableFacts ==
  ASSUME TypeOK, NEW from \in Nat \ {0}, NEW to \in 0 .. Len(pages), NEW p \in Readable(from, to)
  PROVE  /\ p \in Nat \X Nat /\ p[1] \in from .. to /\ p[2] \in 1 .. Len(pages[p[1]])
         /\ Element(p) \in Elements /\ Element(p).id \in Ids
<1>1. p[1] \in 1 .. Len(pages) /\ p[2] \in 1 .. MaxLength /\ p = <<p[1], p[2]>> /\ p[1] \in from .. to
  BY DEF Readable, TypeOK
<1>2. pages[p[1]] \in Seq(All)
  BY <1>1, PageFacts DEF TypeOK
<1>3. p[2] \in 1 .. Len(pages[p[1]]) /\ Element(p) # Unreadable
  BY <1>1, <1>2 DEF Readable
<1>4. Element(p) \in All
  BY <1>2, <1>3 DEF Element
<1> QED  BY <1>1, <1>3, <1>4, ElementFacts

(* Which are read from which pages.                                        *)
LEMMA ReadableSplit ==
  ASSUME TypeOK, NEW from \in Nat \ {0}, NEW to \in 0 .. Len(pages), NEW p
  PROVE  p \in Readable(from, to) <=>
           /\ p \in Nat \X Nat /\ p[1] \in from .. to /\ p[2] \in 1 .. Len(pages[p[1]])
           /\ Element(p) # Unreadable
<1>1. ASSUME p \in Nat \X Nat, p[1] \in from .. to, p[2] \in 1 .. Len(pages[p[1]]),
             Element(p) # Unreadable
      PROVE  p \in Readable(from, to)
  <2>1. pages[p[1]] \in Seq(All) /\ Len(pages[p[1]]) <= MaxLength
    BY <1>1, PageFacts DEF TypeOK
  <2> QED  BY <1>1, <2>1 DEF Readable
<1> QED  BY <1>1, ReadableFacts DEF Readable

-----------------------------------------------------------------------------
(* Pages that grow by others, or not at all.                               *)
Growing == /\ TypeOK /\ TypeOK' /\ Len(pages) <= Len(pages')
           /\ \A k \in 1 .. Len(pages) : pages'[k] = pages[k]

LEMMA ReadableKept ==
  ASSUME Growing, NEW from \in Nat \ {0}, NEW to \in 0 .. Len(pages)
  PROVE  /\ Readable(from, to)' = Readable(from, to)
         /\ \A p \in Readable(from, to) : Element(p)' = Element(p) /\ Repeated(p)' = Repeated(p)
<1>1. ASSUME NEW a \in Nat \ {0}, NEW b \in 0 .. Len(pages)
      PROVE  /\ Readable(a, b)' = Readable(a, b)
             /\ \A p \in Readable(a, b) : Element(p)' = Element(p)
  <2>1. \A p \in (a .. b) \X (1 .. MaxLength) : pages'[p[1]] = pages[p[1]]
    BY DEF Growing, TypeOK
  <2> QED  BY <2>1 DEF Readable, Element
<1>2. ASSUME NEW p \in Readable(from, to) PROVE Repeated(p)' = Repeated(p)
  <2>1. p[1] \in 0 .. Len(pages)
    BY <1>2, ReadableFacts DEF Growing, TypeOK
  <2>2. Readable(1, p[1])' = Readable(1, p[1]) /\ Element(p)' = Element(p)
        /\ \A q \in Readable(1, p[1]) : Element(q)' = Element(q)
    BY <1>1, <1>2, <2>1
  <2> QED  BY <2>2 DEF Repeated
<1> QED  BY <1>1, <1>2

LEMMA ListsKept ==
  ASSUME Growing, NEW from \in Nat \ {0}, NEW to \in 0 .. Len(pages),
         NEW positions \in SUBSET Readable(from, to), NEW list, NEW order
  PROVE  Lists(list, positions, order) => Lists(list, positions, order)'
BY ReadableKept DEF Lists

LEMMA KeptKept ==
  ASSUME Growing, NEW from \in Nat \ {0}, NEW to \in 0 .. Len(pages),
         NEW positions \in SUBSET Readable(from, to), NEW op
  PROVE  Kept(op, positions)' = Kept(op, positions)
BY ReadableKept DEF Kept

-----------------------------------------------------------------------------
(* Lists that get longer.                                                  *)
Follows(order, p, q) == IF order = "append" THEN Before(p, q) ELSE Before(q, p)

LEMMA ListsJoined ==
  ASSUME NEW a \in Seq(Entries), NEW b \in Seq(Entries), NEW P, NEW Q,
         NEW order, Lists(a, P, order), Lists(b, Q, order),
         \A p \in P, q \in Q : Follows(order, p, q)
  PROVE  Lists(a \o b, P \union Q, order)
<1> DEFINE c == a \o b
<1>1. /\ c \in Seq(Entries) /\ DOMAIN c = 1 .. Len(a) + Len(b)
      /\ DOMAIN a = 1 .. Len(a) /\ DOMAIN b = 1 .. Len(b) /\ Len(a) \in Nat /\ Len(b) \in Nat
      /\ \A n \in DOMAIN c : c[n] = IF n <= Len(a) THEN a[n] ELSE b[n - Len(a)]
  OBVIOUS
<1>2. ASSUME NEW n \in DOMAIN c
      PROVE  \/ n \in DOMAIN a /\ c[n] = a[n]
             \/ n - Len(a) \in DOMAIN b /\ c[n] = b[n - Len(a)] /\ n > Len(a)
  BY <1>1
<1>3. ASSUME NEW n \in DOMAIN b PROVE n + Len(a) \in DOMAIN c /\ c[n + Len(a)] = b[n]
  BY <1>1
<1>4. \A n \in DOMAIN a : n \in DOMAIN c /\ c[n] = a[n]
  BY <1>1
<1> HIDE DEF c
<1>5. {c[n].at : n \in DOMAIN c} = P \union Q
  BY <1>2, <1>3, <1>4 DEF Lists
<1>6. \A n \in DOMAIN c : c[n].id = Element(c[n].at).id
  BY <1>2 DEF Lists
<1>7. ASSUME NEW m \in DOMAIN c, NEW n \in DOMAIN c, m < n
      PROVE  Follows(order, c[m].at, c[n].at)
  <2>1. CASE n \in DOMAIN a /\ c[n] = a[n]
    <3>1. m \in DOMAIN a /\ c[m] = a[m]
      BY <1>1, <1>4, <1>7, <2>1
    <3> QED  BY <1>7, <2>1, <3>1 DEF Lists, Follows
  <2>2. CASE n - Len(a) \in DOMAIN b /\ c[n] = b[n - Len(a)] /\ n > Len(a)
    <3>1. CASE m \in DOMAIN a /\ c[m] = a[m]
      BY <2>2, <3>1 DEF Lists
    <3>2. CASE m - Len(a) \in DOMAIN b /\ c[m] = b[m - Len(a)]
      <4>1. m - Len(a) < n - Len(a)
        BY <1>1, <1>7
      <4> QED  BY <2>2, <3>2, <4>1 DEF Lists, Follows
    <3> QED  BY <1>2, <3>1, <3>2
  <2> QED  BY <1>2, <2>1, <2>2
<1> QED  BY <1>5, <1>6, <1>7 DEF Lists, Follows, c

LEMMA ListsOne ==
  ASSUME NEW p, NEW order
  PROVE  Lists(<<Entry(Element(p), p)>>, {p}, order)
<1>1. ASSUME NEW m \in 1 .. 1, NEW n \in 1 .. 1 PROVE ~(m < n)
  OBVIOUS
<1> QED  BY <1>1 DEF Lists, Entry

LEMMA ListsNone == \A order : Lists(<<>>, {}, order)
BY DEF Lists

(* An element that is added comes behind, or before, all there are.        *)
LEMMA ListsAdded ==
  ASSUME NEW list \in Seq(Entries), NEW op \in Operations, NEW P,
         Lists(list, P, op.order),
         NEW p \in Nat \X Nat, Element(p).id \in Ids, \A q \in P : Before(q, p),
         Adds(op, list, Element(p))
  PROVE  /\ Add(op, list, Element(p), p) \in Seq(Entries)
         /\ Lists(Add(op, list, Element(p), p), P \union {p}, op.order)
         /\ IdsOf(list) \union {Element(p).id} \subseteq IdsOf(Add(op, list, Element(p), p))
         /\ op.drives => Last(Add(op, list, Element(p), p)).id = Element(p).id
<1> DEFINE one == <<Entry(Element(p), p)>>
           added == Add(op, list, Element(p), p)
<1>1. Entry(Element(p), p) \in Entries /\ one \in Seq(Entries)
      /\ Entry(Element(p), p).id = Element(p).id
  BY DEF Entry, Entries
<1>2. Lists(one, {p}, op.order)
  BY ListsOne
<1>3. added = IF op.order = "prepend" THEN one \o list ELSE list \o one
  <2>1. Append(list, Entry(Element(p), p)) = list \o one
    BY <1>1, AppendIsConcat
  <2> QED  BY <2>1 DEF Add
<1>4. added \in Seq(Entries) /\ Lists(added, P \union {p}, op.order)
  <2> HIDE DEF added, one
  <2>1. CASE op.order = "prepend"
    <3>1. \A q \in {p}, r \in P : Follows("prepend", q, r)
      BY DEF Follows
    <3>2. Lists(one \o list, {p} \union P, "prepend")
      BY <1>1, <1>2, <2>1, <3>1, ListsJoined
    <3>3. {p} \union P = P \union {p} /\ added = one \o list
      BY <1>3, <2>1
    <3>4. one \o list \in Seq(Entries)
      BY <1>1
    <3> QED  BY <2>1, <3>2, <3>3, <3>4
  <2>2. CASE op.order = "append"
    <3>1. \A q \in P, r \in {p} : Follows("append", q, r)
      BY DEF Follows
    <3> QED  BY <1>1, <1>2, <1>3, <2>2, <3>1, ListsJoined
  <2> QED  BY <2>1, <2>2, OperationFacts
<1>5. IdsOf(list) \union {Element(p).id} \subseteq IdsOf(added)
  <2> HIDE DEF added
  <2> DEFINE l == Entry(Element(p), p)
  <2>1. CASE added = one \o list
    <3>1. Len(added) = Len(list) + 1 /\ added[1] = l
          /\ \A n \in 1 .. Len(list) : added[n + 1] = list[n]
      BY <1>1, <2>1
    <3>2. \A n \in DOMAIN list : n + 1 \in DOMAIN added /\ added[n + 1] = list[n]
      BY <1>1, <1>4, <3>1
    <3>3. 1 \in DOMAIN added
      BY <1>1, <1>4, <3>1
    <3>4. Element(p).id \in IdsOf(added)
      <4>1. added[1].id = Element(p).id
        BY <1>1, <3>1
      <4> QED  BY <3>3, <4>1 DEF IdsOf
    <3>5. ASSUME NEW n \in DOMAIN list  PROVE list[n].id \in IdsOf(added)
      <4> DEFINE k == n + 1
      <4>1. k \in DOMAIN added /\ added[k] = list[n]
        BY <3>2
      <4> HIDE DEF k
      <4> QED  BY <4>1 DEF IdsOf
    <3> HIDE DEF l
    <3> QED  BY <3>4, <3>5 DEF IdsOf
  <2>2. CASE added = list \o one
    <3>1. Len(added) = Len(list) + 1 /\ added[Len(list) + 1] = l
          /\ \A n \in 1 .. Len(list) : added[n] = list[n]
      BY <1>1, <2>2
    <3>2. Len(list) + 1 \in DOMAIN added /\ \A n \in DOMAIN list : n \in DOMAIN added
      BY <1>1, <1>4, <3>1
    <3>3. Element(p).id \in IdsOf(added)
      <4> DEFINE k == Len(list) + 1
      <4>1. k \in DOMAIN added /\ added[k].id = Element(p).id
        BY <1>1, <3>1, <3>2
      <4> HIDE DEF k
      <4> QED  BY <4>1 DEF IdsOf
    <3>4. ASSUME NEW n \in DOMAIN list  PROVE list[n].id \in IdsOf(added)
      <4>1. n \in DOMAIN added /\ added[n] = list[n]
        BY <3>1, <3>2
      <4> QED  BY <4>1 DEF IdsOf
    <3> QED  BY <3>3, <3>4 DEF IdsOf
  <2> QED  BY <1>3, <2>1, <2>2
<1>6. op.drives => Last(added).id = Element(p).id
  BY <1>1, <1>3, OperationFacts DEF Last
<1> QED  BY <1>4, <1>5, <1>6

-----------------------------------------------------------------------------
LEMMA NewCallFacts ==
  ASSUME NEW op \in Operations, NEW url \in Links \cup {None}, NEW single \in BOOLEAN
  PROVE  NewCall(op, url, single) \in Calls
<1>1. <<>> \in Seq(Entries) /\ <<>> \in Pages /\ 1 \in Nat \ {0}
      /\ 0 \in 0 .. MaxPages /\ 0 \in 0 .. MaxPages + 1
  BY PageFacts
<1> QED  BY <1>1 DEF NewCall, Calls

LEMMA EndedFacts ==
  ASSUME NEW c \in Calls
  PROVE  /\ Ended(c) \in Calls
         /\ Ended(c).pc = "idle" /\ Ended(c).url = None
         /\ Ended(c).op = c.op /\ Ended(c).list = c.list /\ Ended(c).result = c.result
         /\ Ended(c).fallback = c.fallback /\ Ended(c).read = c.read /\ Ended(c).size = c.size
<1>1. <<>> \in Pages /\ 1 \in Nat \ {0}
  BY PageFacts
<1> DEFINE c1 == [c EXCEPT !.pc = "idle"]
           c2 == [c1 EXCEPT !.url = None]
           c3 == [c2 EXCEPT !.array = <<>>]
           c4 == [c3 EXCEPT !.index = 1]
           c5 == [c4 EXCEPT !.next = None]
<1>2. c1 \in Calls /\ c2 \in Calls /\ c3 \in Calls /\ c4 \in Calls /\ c5 \in Calls
  BY <1>1 DEF Calls
<1>3. Ended(c) = c5
  BY DEF Ended, Calls
<1> QED  BY <1>2, <1>3 DEF Calls

(* A call that has ended without a list, and one that has yet to begin.    *)
LEMMA NothingListed ==
  ASSUME call.pc = "idle", call.result # "list", ~call.fallback, call.size <= Len(pages)
  PROVE  CallInv /\ ListComplete /\ NothingReplaced
BY DEF CallInv, ListComplete, NothingReplaced

LEMMA InvInit == Init => Inv
<1> SUFFICES ASSUME Init PROVE Inv
  OBVIOUS
<1>1. pages \in Seq(Pages) /\ Len(pages) = 1
  <2>1. \A m \in Nat : \A s \in [1 .. m -> Pages] : s \in Seq(Pages) /\ Len(s) = m
    OBVIOUS
  <2>2. pages \in [1 .. 1 -> Pages] /\ 1 \in Nat
    BY DEF Init
  <2> QED  BY <2>1, <2>2
<1>2. call \in Calls /\ call.pc = "idle" /\ call.result = "none" /\ ~call.fallback
      /\ call.size = 0
  <2>1. NewCall(get_drives, None, FALSE) \in Calls
    BY NewCallFacts, OperationFacts
  <2> QED  BY <2>1, EndedFacts DEF Init, NewCall
<1>3. app \in Apps /\ Link = 1 /\ app.got = <<>>
  BY DEF Init, Apps, Link
<1>4. TypeOK
  <2>1. typeOf = None
    BY DEF Init
  <2> QED  BY <1>1, <1>2, <1>3, <2>1 DEF TypeOK
<1>5. Readable(1, 0) = {}
  BY DEF Readable
<1>6. Synced
  <2>1. Link - 1 = 0
    BY <1>3
  <2> QED  BY <1>3, <1>5, <2>1, ListsNone DEF Synced
<1>7. CallInv /\ ListComplete /\ NothingReplaced /\ LinkInv
  BY <1>1, <1>2, <1>3, NothingListed DEF LinkInv
<1> QED  BY <1>4, <1>6, <1>7 DEF Inv

-----------------------------------------------------------------------------
(* What the steps of a call share: the application's part is as before.    *)
LEMMA SameApp ==
  ASSUME Inv, TypeOK', UNCHANGED <<pages, app>>
  PROVE  LinkInv' /\ Synced' /\ Link' = Link
BY DEF Inv, LinkInv, Synced, Link, Lists, Readable, Element

LEMMA SeenFacts ==
  ASSUME Inv, call.pc \in {"fetch", "array"}
  PROVE  /\ First \in Nat \ {0} /\ First <= Len(pages) + 1
         /\ Limit \in 0 .. Len(pages) /\ Seen \subseteq Readable(First, Limit)
         /\ Kept(call.op, Seen) \subseteq Seen
<1>1. First \in Nat \ {0} /\ First <= Len(pages) + 1
  BY DEF First, LinkInv, Inv, TypeOK
<1>2. Limit \in 0 .. Len(pages)
  BY <1>1 DEF Limit, Inv, TypeOK, Calls, CallInv, Collecting, Answered
<1> QED  BY <1>1, <1>2 DEF Seen, Kept

LEMMA InvGrow == Inv /\ Grow => Inv'
<1> SUFFICES ASSUME Inv, Grow PROVE Inv'
  OBVIOUS
<1>1. /\ pages' \in Seq(Pages) /\ Len(pages') = Len(pages) + 1 /\ Len(pages') <= MaxPages
      /\ \A k \in 1 .. Len(pages) : pages'[k] = pages[k]
  BY DEF Inv, TypeOK, Grow
<1>2. TypeOK' /\ Growing
  BY <1>1 DEF Inv, TypeOK, Grow, Growing
<1>3. UNCHANGED <<call, typeOf, app>> /\ Link' = Link /\ First' = First
  BY DEF Grow, Link, First
<1>4. LinkInv'
  BY <1>1, <1>3 DEF Inv, LinkInv, TypeOK
<1>5. Synced'
  <2>1. Link - 1 \in 0 .. Len(pages)
    BY DEF Inv, LinkInv, TypeOK
  <2>2. Readable(1, Link - 1)' = Readable(1, Link - 1)
    BY <1>2, <1>3, <2>1, ReadableKept
  <2>3. Lists(app.got, Readable(1, Link - 1), "append")'
    BY <1>2, <1>3, <2>1, <2>2, ListsKept DEF Inv, Synced
  <2> QED  BY <2>3 DEF Synced
<1>6. call.size \in 0 .. Len(pages) /\ call.size' = call.size
  BY <1>3 DEF Inv, CallInv, TypeOK, Calls
<1>7. ListComplete'
  <2>1. Readable(1, call.size)' = Readable(1, call.size)
    BY <1>2, <1>3, <1>6, ReadableKept
  <2>2. Kept(call.op, Readable(1, call.size))' = Kept(call.op, Readable(1, call.size))
    BY <1>2, <1>3, <1>6, <2>1, KeptKept
  <2>3. Kept(call.op, Readable(1, call.size)) \subseteq Readable(1, call.size)
    BY DEF Kept
  <2>4. Lists(call.list, Kept(call.op, Readable(1, call.size)), call.op.order) =>
          Lists(call.list, Kept(call.op, Readable(1, call.size)), call.op.order)'
    BY <1>2, <1>3, <1>6, <2>2, <2>3, ListsKept
  <2> QED  BY <1>3, <2>4 DEF Inv, ListComplete
<1>8. call.read \in 0 .. Len(pages) => Readable(1, call.read)' = Readable(1, call.read)
  BY <1>2, <1>3, ReadableKept
<1>9. NothingReplaced'
  BY <1>3, <1>8 DEF Inv, NothingReplaced, CallInv, TypeOK, Calls
<1>10. ASSUME call.pc \in {"fetch", "array"} PROVE Collecting'
  <2>1. First \in Nat \ {0} /\ Limit \in 0 .. Len(pages) /\ Seen \subseteq Readable(First, Limit)
        /\ Kept(call.op, Seen) \subseteq Readable(First, Limit)
    BY <1>10, SeenFacts
  <2>2. Limit' = Limit
    BY <1>3 DEF Limit
  <2>3. Seen' = Seen /\ \A p \in Seen : Element(p)' = Element(p)
    BY <1>2, <1>3, <2>1, <2>2, ReadableKept DEF Seen, Before
  <2>4. Kept(call.op, Seen)' = Kept(call.op, Seen)
    BY <1>2, <1>3, <2>1, <2>3, KeptKept
  <2>5. Lists(call.list, Kept(call.op, Seen), call.op.order) =>
          Lists(call.list, Kept(call.op, Seen), call.op.order)'
    BY <1>2, <1>3, <2>1, <2>4, ListsKept
  <2>6. Collecting
    BY <1>10 DEF Inv, CallInv
  <2>7. call.url' \in First' .. Len(pages)' + 1
    BY <1>1, <1>3, <2>1, <2>6 DEF Collecting, Inv, TypeOK
  <2> QED  BY <1>3, <2>3, <2>5, <2>6, <2>7 DEF Collecting
<1>11. ASSUME call.pc = "array" PROVE Answered'
  <2>1. Answered /\ call.url \in Nat \ {0}
    BY <1>11, SeenFacts DEF Inv, CallInv, Collecting
  <2> QED  BY <1>1, <1>3, <1>6, <2>1 DEF Answered
<1>12. CallInv'
  BY <1>1, <1>3, <1>6, <1>8, <1>10, <1>11 DEF Inv, CallInv, Falling, TypeOK, Calls
<1> QED  BY <1>2, <1>4, <1>5, <1>7, <1>9, <1>12 DEF Inv

-----------------------------------------------------------------------------
LEMMA StepsOn ==
  ASSUME Inv, TypeOK', CallInv', UNCHANGED <<pages, app>>,
         call'.result = "none", ~call'.fallback
  PROVE  Inv'
BY SameApp DEF Inv, ListComplete, NothingReplaced

LEMMA StepsFail ==
  ASSUME Inv, Fails, UNCHANGED <<pages, typeOf, app>>, ~call.fallback
  PROVE  Inv'
<1>1. call \in Calls /\ Ended(call) \in Calls
  BY EndedFacts DEF Inv, TypeOK
<1>2. /\ call' \in Calls /\ call'.pc = "idle" /\ call'.result = "failed" /\ ~call'.fallback
      /\ call'.size = call.size
  <2>1. <<>> \in Seq(Entries)
    OBVIOUS
  <2>2. call' = [Ended(call) EXCEPT !.result = "failed", !.list = <<>>]
    BY DEF Fails
  <2>3. Ended(call).pc = "idle" /\ ~Ended(call).fallback /\ Ended(call).size = call.size
    BY <1>1, EndedFacts
  <2> QED  BY <1>1, <2>1, <2>2, <2>3 DEF Calls
<1>3. TypeOK'
  BY <1>2 DEF Inv, TypeOK
<1>4. call.size <= Len(pages)
  BY DEF Inv, CallInv
<1>5. CallInv' /\ ListComplete' /\ NothingReplaced'
  BY <1>2, <1>4 DEF CallInv, ListComplete, NothingReplaced
<1> QED  BY <1>3, <1>5, SameApp DEF Inv

LEMMA InvStartCall == Inv /\ StartCall => Inv'
<1> SUFFICES ASSUME Inv, StartCall PROVE Inv'
  OBVIOUS
<1>1. PICK op \in (Operations \ Linked) \cup {app.op}, single \in BOOLEAN :
        /\ single => op.links = "both"
        /\ LET new == NewCall(op, FirstUrl(op), single) IN
           call' \in {new, [Ended(new) EXCEPT !.result = "failed"]}
  BY DEF StartCall
<1> DEFINE new == NewCall(op, FirstUrl(op), single)
<1>2. UNCHANGED <<pages, typeOf, app>>
  BY DEF StartCall
<1>3. app.op \in Linked /\ op \in Operations
  BY OperationFacts DEF Inv, TypeOK, Apps
<1>4. FirstUrl(op) = IF op \in Linked THEN Link ELSE 1
  BY DEF FirstUrl, Link
<1>5. FirstUrl(op) \in 1 .. Len(pages) + 1 /\ FirstUrl(op) \in Links
  BY <1>4 DEF Inv, LinkInv, TypeOK, Links
<1>6. /\ new \in Calls /\ new.op = op /\ new.pc = "fetch" /\ new.url = FirstUrl(op)
      /\ new.list = <<>> /\ new.result = "none" /\ ~new.fallback /\ new.read = 0
      /\ new.size = 0 /\ new.single = single
  BY <1>3, <1>5, NewCallFacts DEF NewCall
<1> HIDE DEF new
<1>7. CASE call' = [Ended(new) EXCEPT !.result = "failed"]
  <2>1. Ended(new) \in Calls /\ Ended(new).pc = "idle" /\ ~Ended(new).fallback
        /\ Ended(new).size = 0
    BY <1>6, EndedFacts
  <2>2. /\ call' \in Calls /\ call'.pc = "idle" /\ call'.result = "failed" /\ ~call'.fallback
        /\ call'.size = 0
    BY <1>7, <2>1 DEF Calls
  <2>3. TypeOK'
    BY <1>2, <2>2 DEF Inv, TypeOK
  <2>4. CallInv' /\ ListComplete' /\ NothingReplaced'
    BY <1>2, <2>2 DEF CallInv, ListComplete, NothingReplaced, Inv, TypeOK
  <2> QED  BY <1>2, <2>3, <2>4, SameApp DEF Inv
<1>8. CASE call' = new
  <2>1. TypeOK'
    BY <1>2, <1>6, <1>8 DEF Inv, TypeOK
  <2>2. Link' = Link
    BY <1>2, <2>1, SameApp
  <2>3. First' = FirstUrl(op)
    BY <1>4, <1>6, <1>8, <2>2 DEF First
  <2>4. Limit' = FirstUrl(op) - 1
    BY <1>6, <1>8 DEF Limit
  <2>5. Readable(First, Limit)' = {}
    <3>1. (First .. Limit)' = {}
      BY <1>5, <2>3, <2>4
    <3> QED  BY <3>1 DEF Readable
  <2>6. Seen' = {} /\ Kept(call.op, Seen)' = {}
    BY <2>5 DEF Seen, Kept
  <2>7. Lists(call.list, Kept(call.op, Seen), call.op.order)'
    BY <1>6, <1>8, <2>6, ListsNone DEF Lists
  <2>8. single => op \in Linked
    BY <1>1, <1>3, OperationFacts
  <2>9. Collecting'
    BY <1>2, <1>5, <1>6, <1>8, <2>3, <2>6, <2>7, <2>8 DEF Collecting
  <2>10. CallInv'
    BY <1>2, <1>6, <1>8, <2>9 DEF CallInv, Inv, TypeOK
  <2> QED  BY <1>2, <1>6, <1>8, <2>1, <2>10, StepsOn
<1> QED  BY <1>1, <1>7, <1>8 DEF new

LEMMA InvFetchPage == Inv /\ FetchPage => Inv'
<1> SUFFICES ASSUME Inv, FetchPage PROVE Inv'
  OBVIOUS
<1> DEFINE k == call.url
           array == IF k <= Len(pages) THEN pages[k] ELSE <<>>
           next == IF k < Len(pages) THEN k + 1 ELSE None
<1>1. call.pc = "fetch" /\ UNCHANGED <<pages, typeOf, app>>
      /\ call' = [call EXCEPT !.pc = "array", !.index = 1, !.array = array, !.next = next,
                              !.size = Len(pages)]
  BY DEF FetchPage
<1>2. Collecting /\ call \in Calls /\ Len(pages) \in 1 .. MaxPages
  BY <1>1 DEF Inv, CallInv, TypeOK
<1>3. First \in Nat \ {0} /\ k \in First .. Len(pages) + 1
  BY <1>1, <1>2, SeenFacts DEF Collecting
<1>4. array \in Pages /\ next \in Links \cup {None}
  <2>1. pages \in Seq(Pages)
    BY DEF Inv, TypeOK
  <2> QED  BY <1>2, <1>3, <2>1, PageFacts DEF Links
<1> HIDE DEF array, next
<1>5. /\ call' \in Calls /\ call'.pc = "array" /\ call'.index = 1 /\ call'.array = array
      /\ call'.next = next /\ call'.size = Len(pages)
      /\ call'.op = call.op /\ call'.single = call.single /\ call'.url = k
      /\ call'.list = call.list /\ call'.result = call.result
      /\ call'.fallback = call.fallback /\ call'.read = call.read
  <2> DEFINE c1 == [call EXCEPT !.pc = "array"]
             c2 == [c1 EXCEPT !.index = 1]
             c3 == [c2 EXCEPT !.array = array]
             c4 == [c3 EXCEPT !.next = next]
             c5 == [c4 EXCEPT !.size = Len(pages)]
  <2>1. 1 \in Nat \ {0} /\ Len(pages) \in 0 .. MaxPages
    BY <1>2
  <2>2. c1 \in Calls /\ c2 \in Calls /\ c3 \in Calls /\ c4 \in Calls /\ c5 \in Calls
    BY <1>2, <1>4, <2>1 DEF Calls
  <2>3. call' = c5
    BY <1>1, <1>2 DEF Calls
  <2> QED  BY <1>2, <2>2, <2>3 DEF Calls
<1>6. TypeOK'
  BY <1>1, <1>5 DEF Inv, TypeOK
<1>7. First' = First
  BY <1>1, <1>5, <1>6, SameApp DEF First
<1>8. Seen' = Seen
  <2>1. Seen = Readable(First, k - 1)
    BY <1>1 DEF Seen, Limit
  <2>2. Limit' = IF k <= Len(pages) THEN k ELSE Len(pages)
    BY <1>5 DEF Limit
  <2>3. ASSUME NEW p PROVE p \in Seen' <=> p \in Readable(First, k - 1)
    <3> DEFINE l == IF k <= Len(pages) THEN k ELSE Len(pages)
    <3>1. p \in Seen' <=> p \in Readable(First, l) /\ Before(p, <<k, 1>>)
      BY <1>1, <1>5, <1>7, <2>2 DEF Seen, Readable, Element
    <3>2. l \in 0 .. Len(pages) /\ k - 1 \in 0 .. Len(pages)
      BY <1>2, <1>3
    <3>3. p \in Readable(First, l) <=>
            /\ p \in Nat \X Nat /\ p[1] \in First .. l /\ p[2] \in 1 .. Len(pages[p[1]])
            /\ Element(p) # Unreadable
      BY <1>3, <3>2, ReadableSplit DEF Inv
    <3>4. p \in Readable(First, k - 1) <=>
            /\ p \in Nat \X Nat /\ p[1] \in First .. k - 1 /\ p[2] \in 1 .. Len(pages[p[1]])
            /\ Element(p) # Unreadable
      BY <1>3, <3>2, ReadableSplit DEF Inv
    <3>5. ASSUME p \in Nat \X Nat, p[2] \in 1 .. Len(pages[p[1]])
          PROVE  (p[1] \in First .. l /\ Before(p, <<k, 1>>)) <=> p[1] \in First .. k - 1
      BY <1>2, <1>3, <3>5 DEF Before
    <3> QED  BY <3>1, <3>3, <3>4, <3>5
  <2> QED  BY <2>1, <2>3
<1>9. Collecting'
  BY <1>1, <1>2, <1>5, <1>7, <1>8 DEF Collecting, Lists, Kept, Repeated, Readable, Element
<1>10. Answered'
  BY <1>1, <1>2, <1>3, <1>4, <1>5, PageFacts DEF Answered, array, next
<1>11. CallInv'
  BY <1>1, <1>2, <1>5, <1>9, <1>10 DEF CallInv, Collecting
<1> QED  BY <1>1, <1>2, <1>5, <1>6, <1>11, StepsOn DEF Collecting

LEMMA InvCollectElement == Inv /\ CollectElement => Inv'
<1> SUFFICES ASSUME Inv, CollectElement PROVE Inv'
  OBVIOUS
<1> DEFINE k == call.url
           i == call.index
           e == call.array[i]
           here == <<k, i>>
           longer == Add(call.op, call.list, e, here)
<1>1. /\ call.pc = "array" /\ UNCHANGED <<pages, app>> /\ i <= Len(call.array)
      /\ call' = [call EXCEPT !.index = i + 1, !.list = longer]
      /\ typeOf' = IF call.op.drives /\ Adds(call.op, call.list, e) THEN e.id ELSE typeOf
  BY DEF CollectElement, Inv, TypeOK, Calls
<1>2. Collecting /\ Answered /\ call \in Calls /\ Len(pages) \in 1 .. MaxPages
      /\ call.size \in 0 .. Len(pages)
  BY <1>1 DEF Inv, CallInv, TypeOK, Calls
<1>3. First \in Nat \ {0} /\ k \in First .. Len(pages) /\ k <= call.size
      /\ call.array = pages[k] /\ i \in 1 .. Len(pages[k]) /\ Limit = k
  <2>1. First \in Nat \ {0} /\ k \in First .. Len(pages) + 1 /\ i \in Nat \ {0}
    BY <1>1, <1>2, SeenFacts DEF Collecting, Calls
  <2>2. k <= call.size
    <3>1. CASE ~(k <= call.size)
      BY <1>1, <1>2, <2>1, <3>1 DEF Answered
    <3> QED  BY <3>1
  <2> QED  BY <1>1, <1>2, <2>1, <2>2 DEF Answered, Limit
<1>4. e = Element(here) /\ e \in All /\ here \in Nat \X Nat /\ here[1] = k /\ here[2] = i
  <2>1. pages[k] \in Seq(All)
    BY <1>2, <1>3, PageFacts DEF Inv, TypeOK
  <2> QED  BY <1>3, <2>1 DEF Element
<1> HIDE DEF e, here
<1>5. /\ call.op \in Operations /\ call.list \in Seq(Entries)
      /\ Lists(call.list, Kept(call.op, Seen), call.op.order)
  BY <1>2 DEF Collecting, Calls
<1>6. /\ Seen = {q \in Readable(First, k) : Before(q, here)}
      /\ Kept(call.op, Seen) \subseteq Seen
      /\ \A q \in Seen : q \in Readable(First, k) /\ Before(q, here)
  BY <1>1, <1>3 DEF Seen, Kept, here
<1>7. longer \in Seq(Entries)
  <2>1. CASE Adds(call.op, call.list, e)
    <3>1. Element(here).id \in Ids
      BY <1>4, <2>1, ElementFacts DEF Adds
    <3> QED  BY <1>4, <1>5, <1>6, <2>1, <3>1, ListsAdded
  <2>2. CASE ~Adds(call.op, call.list, e)
    BY <1>5, <2>2 DEF Add
  <2> QED  BY <2>1, <2>2
<1> HIDE DEF longer
<1>8. /\ call' \in Calls /\ call'.pc = "array" /\ call'.index = i + 1 /\ call'.array = call.array
      /\ call'.next = call.next /\ call'.size = call.size
      /\ call'.op = call.op /\ call'.single = call.single /\ call'.url = k
      /\ call'.list = longer /\ call'.result = call.result
      /\ call'.fallback = call.fallback /\ call'.read = call.read
  <2>1. i + 1 \in Nat \ {0}
    BY <1>3
  <2> QED  BY <1>1, <1>2, <1>7, <2>1 DEF Calls
<1>9. TypeOK'
  <2>1. typeOf' \in Ids \cup {None}
    BY <1>1, <1>4, ElementFacts DEF Adds, Inv, TypeOK
  <2> QED  BY <1>1, <1>8, <2>1 DEF Inv, TypeOK
<1>10. First' = First /\ Limit' = k
  BY <1>1, <1>3, <1>8, <1>9, SameApp DEF First, Limit
<1>11. \A a, b : Readable(a, b)' = Readable(a, b)
  BY <1>1 DEF Readable, Element
<1>12. Seen' = IF e = Unreadable THEN Seen ELSE Seen \union {here}
  <2>1. Seen' = {q \in Readable(First, k) : Before(q, <<k, i + 1>>)}
    BY <1>8, <1>10, <1>11 DEF Seen, Before
  <2>2. ASSUME NEW q \in Readable(First, k)
        PROVE  Before(q, <<k, i + 1>>) <=> Before(q, here) \/ q = here
    <3>1. q \in Nat \X Nat
      BY <1>3, <2>2, ReadableFacts DEF Inv
    <3>2. Before(q, <<k, i + 1>>) <=> q[1] < k \/ (q[1] = k /\ q[2] < i + 1)
      BY DEF Before
    <3>3. Before(q, here) <=> q[1] < k \/ (q[1] = k /\ q[2] < i)
      BY <1>4 DEF Before
    <3>4. q = here <=> q[1] = k /\ q[2] = i
      BY <3>1 DEF here
    <3> QED  BY <1>3, <3>1, <3>2, <3>3, <3>4
  <2>3. here \in Readable(First, k) <=> e # Unreadable
    <3>1. k \in 0 .. Len(pages) /\ k \in First .. k
      BY <1>3
    <3> QED  BY <1>3, <1>4, <3>1, ReadableSplit DEF Inv
  <2> QED  BY <1>6, <2>1, <2>2, <2>3
<1>13. \A q : Element(q)' = Element(q) /\ Repeated(q)' = Repeated(q)
  BY <1>1, <1>11 DEF Element, Repeated
<1>14. Kept(call.op, Seen)' = IF Adds(call.op, call.list, e) THEN Kept(call.op, Seen) \union {here}
                             ELSE Kept(call.op, Seen)
  <2>1. CASE e = Unreadable
    BY <1>8, <1>12, <1>13, <2>1 DEF Kept, Adds
  <2>2. CASE e # Unreadable /\ ~call.op.drives
    BY <1>8, <1>12, <2>2 DEF Kept, Adds
  <2>3. CASE e # Unreadable /\ call.op.drives
    <3>1. First = 1
      BY <1>5, <2>3, OperationFacts DEF First
    <3>2. Repeated(here) <=> AlreadyAdded(call.list, e)
      <4>1. Repeated(here) <=> e.kind = "bundle" /\ \E q \in Seen : Element(q).id = e.id
        BY <1>4, <1>6, <3>1 DEF Repeated
      <4>2. \A q \in Seen : Element(q).id \in IdsOf(call.list)
        BY <1>2, <2>3 DEF Collecting
      <4>3. \A n \in DOMAIN call.list :
              call.list[n].at \in Seen /\ call.list[n].id = Element(call.list[n].at).id
        BY <1>5, <1>6 DEF Lists
      <4> QED  BY <4>1, <4>2, <4>3 DEF AlreadyAdded, IdsOf
    <3> QED  BY <1>8, <1>12, <1>13, <2>3, <3>2 DEF Kept, Adds
  <2> QED  BY <2>1, <2>2, <2>3
<1>15. /\ Lists(longer, Kept(call.op, Seen)', call.op.order)
       /\ call.op.drives =>
            /\ \A q \in Seen' : Element(q).id \in IdsOf(longer)
            /\ longer # <<>> => typeOf' = Last(longer).id
  <2>1. CASE Adds(call.op, call.list, e)
    <3>1. Element(here).id \in Ids /\ e # Unreadable
      BY <1>4, <2>1, ElementFacts DEF Adds
    <3>2. /\ Lists(longer, Kept(call.op, Seen) \union {here}, call.op.order)
          /\ IdsOf(call.list) \union {e.id} \subseteq IdsOf(longer)
          /\ call.op.drives => Last(longer).id = e.id
      <4>1. longer = Add(call.op, call.list, Element(here), here)
        BY <1>4 DEF longer
      <4>2. Adds(call.op, call.list, Element(here))
        BY <1>4, <2>1
      <4>3. \A q \in Kept(call.op, Seen) : Before(q, here)
        BY <1>6
      <4>4. /\ Lists(longer, Kept(call.op, Seen) \union {here}, call.op.order)
            /\ IdsOf(call.list) \union {Element(here).id} \subseteq IdsOf(longer)
            /\ call.op.drives => Last(longer).id = Element(here).id
        BY <1>4, <1>5, <3>1, <4>1, <4>2, <4>3, ListsAdded
      <4> QED  BY <1>4, <4>4
    <3>3. call.op.drives => \A q \in Seen' : Element(q).id \in IdsOf(longer)
      BY <1>2, <1>4, <1>12, <3>2 DEF Collecting
    <3> QED  BY <1>1, <1>14, <2>1, <3>2, <3>3
  <2>2. CASE ~Adds(call.op, call.list, e)
    <3>1. longer = call.list /\ Kept(call.op, Seen)' = Kept(call.op, Seen)
      BY <1>14, <2>2 DEF longer, Add
    <3>2. ASSUME call.op.drives, e # Unreadable
          PROVE  e.id \in IdsOf(call.list)
      BY <2>2, <3>2 DEF Adds, AlreadyAdded, IdsOf
    <3>3. call.op.drives => \A q \in Seen' : Element(q).id \in IdsOf(longer)
      BY <1>2, <1>4, <1>12, <3>1, <3>2 DEF Collecting
    <3> QED  BY <1>1, <1>2, <1>5, <2>2, <3>1, <3>3 DEF Collecting
  <2> QED  BY <2>1, <2>2
<1>16. Collecting'
  BY <1>1, <1>2, <1>8, <1>10, <1>13, <1>15 DEF Collecting, Lists
<1>17. Answered'
  BY <1>1, <1>2, <1>3, <1>8 DEF Answered
<1>18. CallInv'
  BY <1>1, <1>2, <1>8, <1>16, <1>17 DEF CallInv, Collecting
<1> QED  BY <1>1, <1>2, <1>8, <1>9, <1>18, StepsOn DEF Collecting

(* What was seen when the array has been read to its end.                  *)
LEMMA ArrayRead ==
  ASSUME Inv, call.pc = "array", call.index > Len(call.array)
  PROVE  Seen = Readable(First, Limit)
<1>1. Collecting /\ Answered /\ call \in Calls /\ Limit \in 0 .. Len(pages)
      /\ First \in Nat \ {0}
  BY SeenFacts DEF Inv, CallInv, TypeOK
<1>2. ASSUME NEW p \in Readable(First, Limit) PROVE Before(p, <<call.url, call.index>>)
  <2>1. p[1] \in First .. Limit /\ p[2] \in 1 .. Len(pages[p[1]])
    BY <1>1, ReadableFacts DEF Inv
  <2>2. CASE call.url <= call.size
    BY <1>1, <2>1, <2>2 DEF Before, Limit, Answered, Calls, Collecting, Inv, TypeOK
  <2>3. CASE ~(call.url <= call.size)
    BY <1>1, <2>1, <2>3 DEF Before, Limit, Answered, Calls, Collecting
  <2> QED  BY <2>2, <2>3
<1> QED  BY <1>2 DEF Seen

LEMMA InvFollowLink == Inv /\ FollowLink => Inv'
<1> SUFFICES ASSUME Inv, FollowLink PROVE Inv'
  OBVIOUS
<1>1. /\ call.pc = "array" /\ UNCHANGED <<pages, typeOf, app>> /\ call.next # None
      /\ call' = [call EXCEPT !.pc = "fetch", !.url = call.next, !.read = call.read + 1]
  BY DEF FollowLink, Inv, TypeOK, Calls
<1>2. Collecting /\ Answered /\ call \in Calls /\ Len(pages) \in 1 .. MaxPages
      /\ call.size \in 0 .. Len(pages) /\ First \in Nat \ {0}
  BY <1>1, SeenFacts DEF Inv, CallInv, TypeOK, Calls
<1>3. /\ call.url \in First .. Len(pages) + 1 /\ call.url < call.size
      /\ call.next = call.url + 1 /\ call.read = call.url - First /\ Limit = call.url
  BY <1>1, <1>2 DEF Collecting, Answered, Limit
<1>4. /\ call' \in Calls /\ call'.pc = "fetch" /\ call'.url = call.url + 1
      /\ call'.read = call.url + 1 - First /\ call'.size = call.size
      /\ call'.op = call.op /\ call'.single = call.single /\ call'.list = call.list
      /\ call'.result = call.result /\ call'.fallback = call.fallback
  <2>1. call.url + 1 \in Links /\ call.read + 1 \in 0 .. MaxPages + 1
        /\ call.read + 1 = call.url + 1 - First
    BY <1>2, <1>3 DEF Links
  <2> QED  BY <1>1, <1>2, <1>3, <2>1 DEF Calls
<1>5. TypeOK'
  BY <1>1, <1>4 DEF Inv, TypeOK
<1>6. First' = First /\ Limit' = call.url
  <2>1. Limit' = call'.url - 1
    BY <1>4 DEF Limit
  <2> QED  BY <1>1, <1>2, <1>3, <1>4, <1>5, <2>1, SameApp DEF First
<1>7. Seen' = Seen
  <2>1. Seen = Readable(First, call.url)
    BY <1>1, <1>3, ArrayRead DEF FollowLink
  <2>2. Seen' = Readable(First, call.url)
    BY <1>1, <1>4, <1>6 DEF Seen, Readable, Element
  <2> QED  BY <2>1, <2>2
<1>8. Collecting'
  BY <1>1, <1>2, <1>3, <1>4, <1>6, <1>7
     DEF Collecting, Lists, Kept, Repeated, Readable, Element
<1>9. CallInv'
  BY <1>1, <1>2, <1>4, <1>8 DEF CallInv, Collecting
<1> QED  BY <1>1, <1>2, <1>4, <1>5, <1>9, StepsOn DEF Collecting

LEMMA InvReturn == Inv /\ Return => Inv'
<1> SUFFICES ASSUME Inv, Return PROVE Inv'
  OBVIOUS
<1>1. /\ call.pc = "array" /\ UNCHANGED <<pages, typeOf>> /\ call.index > Len(call.array)
      /\ call.next = None \/ call.single
      /\ call' = [Ended(call) EXCEPT !.result = "list", !.read = Ended(call).read + 1]
      /\ app' = IF call.op \notin Linked THEN app
                ELSE [app EXCEPT !.next = call.next,
                                 !.delta = IF call.next = None THEN call.size + 1 ELSE @,
                                 !.got = @ \o call.list]
  BY EndedFacts DEF Return, Inv, TypeOK, Calls
<1>2. Collecting /\ Answered /\ call \in Calls /\ Len(pages) \in 1 .. MaxPages
      /\ call.size \in 0 .. Len(pages) /\ First \in Nat \ {0} /\ app \in Apps
      /\ call.op \in Operations /\ call.list \in Seq(Entries)
  BY <1>1, SeenFacts DEF Inv, CallInv, TypeOK, Calls
<1>3. /\ call.url \in First .. Len(pages) + 1 /\ call.read = call.url - First
      /\ call.url <= call.size + 1
      /\ call.next = IF call.url < call.size THEN call.url + 1 ELSE None
  BY <1>2 DEF Collecting, Answered
<1>4. /\ call' \in Calls /\ call'.pc = "idle" /\ call'.result = "list" /\ ~call'.fallback
      /\ call'.size = call.size /\ call'.op = call.op /\ call'.list = call.list
  <2>1. Ended(call) \in Calls /\ Ended(call).pc = "idle" /\ Ended(call).op = call.op
        /\ Ended(call).list = call.list /\ Ended(call).fallback = call.fallback
        /\ Ended(call).read = call.read /\ Ended(call).size = call.size
    BY <1>2, EndedFacts
  <2>2. Ended(call).read + 1 \in 0 .. MaxPages + 1
    BY <1>2, <1>3, <2>1
  <2>3. ~call.fallback
    BY <1>2 DEF Collecting
  <2> QED  BY <1>1, <2>1, <2>2, <2>3 DEF Calls
<1>5. app' \in Apps
  <2>1. call.next \in Links \cup {None} /\ call.size + 1 \in Links
        /\ app.got \o call.list \in Seq(Entries)
    BY <1>2 DEF Calls, Links, Apps
  <2> QED  BY <1>1, <1>2, <2>1 DEF Apps
<1>6. TypeOK'
  BY <1>1, <1>4, <1>5 DEF Inv, TypeOK
<1>7. Lists(call.list, Kept(call.op, Readable(First, Limit)), call.op.order)
  BY <1>1, <1>2, ArrayRead DEF Collecting
<1>8. \A a, b : Readable(a, b)' = Readable(a, b)
  BY <1>1 DEF Readable, Element
<1>9. \A list, P, order : Lists(list, P, order)' <=> Lists(list, P, order)
  BY <1>1 DEF Lists, Element
<1>10. CASE call.op \notin Linked
  <2>1. UNCHANGED <<pages, app>>
    BY <1>1, <1>10
  <2>2. First = 1
    BY <1>10 DEF First
  <2>3. Limit = call.size
    BY <1>1, <1>2, <1>3, <1>10 DEF Limit, Collecting
  <2>4. Kept(call.op, Readable(1, call.size))' = Kept(call.op, Readable(1, call.size))
    BY <1>4, <2>1 DEF Kept, Repeated, Readable, Element
  <2>5. Lists(call.list, Kept(call.op, Readable(1, call.size)), call.op.order)'
    BY <1>4, <1>7, <2>1, <2>2, <2>3, <2>4 DEF Lists, Element
  <2>6. ListComplete'
    BY <1>1, <1>2, <1>4, <2>5 DEF ListComplete, Collecting
  <2>7. CallInv' /\ NothingReplaced'
    BY <1>1, <1>2, <1>4 DEF CallInv, NothingReplaced
  <2> QED  BY <1>6, <2>1, <2>6, <2>7, SameApp DEF Inv
<1>11. CASE call.op \in Linked
  <2> DEFINE link == IF call.url < call.size THEN call.url + 1 ELSE call.size + 1
  <2>1. First = Link /\ Kept(call.op, Readable(First, Limit)) = Readable(Link, Limit)
        /\ call.op.order = "append"
    BY <1>11, OperationFacts DEF First, Kept
  <2>2. Link' = link
    <3>1. None \notin Nat /\ call.url + 1 \in Nat /\ call.size + 1 \in Nat
      BY <1>2, <1>3
    <3>2. app'.next = call.next /\ (call.next = None => app'.delta = call.size + 1)
      BY <1>1, <1>2, <1>11 DEF Apps
    <3> QED  BY <1>3, <3>1, <3>2 DEF Link
  <2>3. /\ Limit = link - 1 /\ Link \in Nat \ {0} /\ Link <= link /\ link \in 1 .. Len(pages) + 1
        /\ Link - 1 \in 0 .. Len(pages)
    BY <1>1, <1>2, <1>3, <2>1 DEF Limit, Inv, LinkInv
  <2> HIDE DEF link
  <2>4. LinkInv'
    BY <1>1, <2>2, <2>3 DEF LinkInv
  <2>5. app'.got = app.got \o call.list /\ app.got \in Seq(Entries)
    BY <1>1, <1>2, <1>11 DEF Apps
  <2>6. Lists(app.got, Readable(1, Link - 1), "append")
        /\ Lists(call.list, Readable(Link, link - 1), "append")
    BY <1>7, <2>1, <2>3 DEF Inv, Synced
  <2>7. \A p \in Readable(1, Link - 1), q \in Readable(Link, link - 1) : Follows("append", p, q)
    <3>1. link - 1 \in 0 .. Len(pages)
      BY <1>2, <2>3
    <3>2. \A p \in Readable(1, Link - 1) : p[1] \in 1 .. Link - 1
      BY <2>3, ReadableFacts DEF Inv
    <3>3. \A q \in Readable(Link, link - 1) : q[1] \in Link .. link - 1
      BY <2>3, <3>1, ReadableFacts DEF Inv
    <3> QED  BY <2>3, <3>2, <3>3 DEF Follows, Before
  <2>8. Readable(1, Link - 1) \union Readable(Link, link - 1) = Readable(1, link - 1)
    BY <1>2, <2>3 DEF Readable
  <2>9. Lists(app.got \o call.list, Readable(1, link - 1), "append")
    BY <1>2, <2>5, <2>6, <2>7, <2>8, ListsJoined
  <2>10. Synced'
    <3>1. Readable(1, Link - 1)' = Readable(1, link - 1)
      BY <1>1, <2>2 DEF Readable, Element
    <3>2. \A q : Element(q)' = Element(q)
      BY <1>1 DEF Element
    <3> DEFINE got == app.got \o call.list
    <3>3. app'.got = got /\ Lists(got, Readable(1, link - 1), "append")
      BY <2>5, <2>9
    <3> HIDE DEF got
    <3> QED  BY <3>1, <3>2, <3>3 DEF Synced, Lists
  <2>11. CallInv' /\ NothingReplaced' /\ ListComplete'
    BY <1>1, <1>2, <1>4, <1>11 DEF CallInv, NothingReplaced, ListComplete
  <2> QED  BY <1>6, <2>4, <2>10, <2>11 DEF Inv
<1> QED  BY <1>10, <1>11

LEMMA InvRefused == Inv /\ (Refused \/ TransportFails) => Inv'
<1> SUFFICES ASSUME Inv, Refused \/ TransportFails PROVE Inv'
  OBVIOUS
<1>1. call.pc = "fetch" /\ UNCHANGED <<pages, typeOf, app>>
  BY DEF Refused, TransportFails
<1>2. Collecting /\ call \in Calls /\ ~call.fallback
  BY <1>1 DEF Inv, CallInv, TypeOK, Collecting
<1>3. CASE Fails
  BY <1>1, <1>2, <1>3, StepsFail
<1>4. CASE FallsBack(call) /\ call' = [call EXCEPT !.pc = "default"]
  <2>1. /\ call' \in Calls /\ call'.pc = "default" /\ call'.op = call.op
        /\ call'.read = call.read /\ call'.result = "none" /\ ~call'.fallback
        /\ call'.size = call.size
    BY <1>2, <1>4 DEF Calls, Collecting
  <2>2. call.op.drives /\ call.list = <<>> /\ call.op \in Operations
    BY <1>2, <1>4 DEF FallsBack, Calls
  <2>3. First = 1 /\ Limit \in 0 .. Len(pages) /\ Limit = call.url - 1
    BY <1>1, <2>2, OperationFacts, SeenFacts DEF First, Limit
  <2>4. call.read = Limit /\ Seen = Readable(1, Limit)
    BY <1>1, <1>2, <2>3 DEF Collecting, Seen
  <2>5. Seen = {}
    <3>1. IdsOf(<<>>) = {}
      BY DEF IdsOf
    <3> QED  BY <1>2, <2>2, <3>1 DEF Collecting
  <2>6. TypeOK'
    BY <1>1, <2>1 DEF Inv, TypeOK
  <2>7. Falling'
    BY <1>1, <2>1, <2>2, <2>3, <2>4, <2>5 DEF Falling, Readable, Element
  <2>8. CallInv'
    BY <1>1, <2>1, <2>7 DEF CallInv, Inv
  <2> QED  BY <1>1, <2>1, <2>6, <2>8, StepsOn
<1> QED  BY <1>3, <1>4 DEF Refused, TransportFails

LEMMA InvGetDefaultDrive == Inv /\ GetDefaultDrive => Inv'
<1> SUFFICES ASSUME Inv, GetDefaultDrive PROVE Inv'
  OBVIOUS
<1>1. call.pc = "default" /\ UNCHANGED <<pages, app>> /\ Falling /\ call \in Calls
      /\ ~call.fallback
  BY DEF GetDefaultDrive, Inv, CallInv, TypeOK, Falling
<1>2. CASE Fails /\ UNCHANGED typeOf
  BY <1>1, <1>2, StepsFail
<1>3. ASSUME NEW e \in Elements,
             call' = [Ended(call) EXCEPT !.result = "list", !.fallback = TRUE,
                                         !.list = <<Entry(e, Nowhere)>>],
             typeOf' = e.id
      PROVE  Inv'
  <2>1. e.id \in Ids /\ Entry(e, Nowhere) \in Entries /\ Entry(e, Nowhere).id = e.id
    BY DEF Elements, Entry, Entries, Nowhere
  <2>2. <<Entry(e, Nowhere)>> \in Seq(Entries)
    BY <2>1
  <2>3. Ended(call) \in Calls /\ Ended(call).pc = "idle" /\ Ended(call).read = call.read
        /\ Ended(call).size = call.size
    BY <1>1, EndedFacts
  <2>4. /\ call' \in Calls /\ call'.pc = "idle" /\ call'.fallback /\ call'.read = call.read
        /\ call'.size = call.size /\ call'.list = <<Entry(e, Nowhere)>>
    BY <1>3, <2>2, <2>3 DEF Calls
  <2>5. TypeOK'
    BY <1>1, <1>3, <2>1, <2>4 DEF Inv, TypeOK
  <2>6. CallInv' /\ ListComplete'
    BY <1>1, <2>4 DEF CallInv, ListComplete, Inv, Falling
  <2>7. Head(call'.list).id = e.id
    BY <2>1, <2>4
  <2>8. NothingReplaced'
    BY <1>1, <1>3, <2>4, <2>7 DEF NothingReplaced, Falling, Readable, Element
  <2> QED  BY <1>1, <2>5, <2>6, <2>8, SameApp DEF Inv
<1> QED  BY <1>1, <1>2, <1>3 DEF GetDefaultDrive

LEMMA InvStutter == Inv /\ UNCHANGED vars => Inv'
<1> SUFFICES ASSUME Inv, UNCHANGED vars PROVE Inv'
  OBVIOUS
<1>1. UNCHANGED <<pages, call, typeOf, app>>
  BY DEF vars
<1>2. TypeOK'
  BY <1>1 DEF Inv, TypeOK
<1>3. LinkInv' /\ Synced' /\ Link' = Link
  BY <1>1, <1>2, SameApp
<1>4. \A a, b : Readable(a, b)' = Readable(a, b)
  BY <1>1 DEF Readable, Element
<1>5. \A p : Repeated(p)' = Repeated(p) /\ Element(p)' = Element(p)
  BY <1>1, <1>4 DEF Repeated, Element
<1>6. \A list, P, order : Lists(list, P, order)' <=> Lists(list, P, order)
  BY <1>5 DEF Lists
<1>7. \A op, P : Kept(op, P)' = Kept(op, P)
  BY <1>5 DEF Kept
<1>8. First' = First /\ Limit' = Limit
  BY <1>1, <1>3 DEF First, Limit
<1>9. Seen' = Seen
  BY <1>1, <1>4, <1>8 DEF Seen, Before
<1>10. CallInv'
  BY <1>1, <1>4, <1>5, <1>6, <1>7, <1>8, <1>9
     DEF Inv, CallInv, Collecting, Answered, Falling, Lists, Kept
<1>11. ListComplete' /\ NothingReplaced'
  BY <1>1, <1>4, <1>5, <1>7 DEF Inv, ListComplete, NothingReplaced, Lists
<1> QED  BY <1>2, <1>3, <1>10, <1>11 DEF Inv

LEMMA InvStep == Inv /\ [Next]_vars => Inv'
BY InvGrow, InvStartCall, InvFetchPage, InvCollectElement, InvFollowLink, InvReturn, InvRefused,
   InvGetDefaultDrive, InvStutter DEF Next

LEMMA Invariance == Spec => []Inv
<1> QED  BY InvInit, InvStep, PTL DEF Spec

-----------------------------------------------------------------------------
(* The locals of a call, the links and the lists keep their types,         *)
(* whatever the server answers and however long a list gets.               *)
THEOREM TypeCorrect == Spec => []TypeOK
<1>1. Inv => TypeOK
  BY DEF Inv
<1> QED  BY <1>1, Invariance, PTL

(* A list that is returned is complete, in order, and has a bundle once;   *)
(* the default drive replaces no drive that was read.                      *)
THEOREM Complete == Spec => []Enumerated
<1>1. Inv => Enumerated
  BY DEF Inv, Enumerated
<1> QED  BY <1>1, Invariance, PTL

(* Over any number of calls, failures and new pages an application that    *)
(* follows the links misses nothing and gets nothing twice.                *)
THEOREM NothingMissed == Spec => []Synced
<1>1. Inv => Synced
  BY DEF Inv
<1> QED  BY <1>1, Invariance, PTL
=============================================================================
