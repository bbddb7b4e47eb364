# TLA+ specifications of libmsgraph

libmsgraph is a GLib/libsoup client library for Microsoft Graph (OneDrive, mail,
contacts).  It is small in lines and has little state of its own, but what it has is
shared: one authorizer is used by all threads of an application, requests are refused,
limited, lost and repeated, streams are driven from callbacks, and listings are put
together from pages that fail one at a time.  These modules specify that behaviour as
the C code has it, TLC checks it on small instances, and TLAPS proves the safety
properties for all instances.

File names below are relative to the repository (`src/msg-service.c`).

## 1. Inventory

| Component | State | Operations | Modelled in |
|---|---|---|---|
| `MsgAuthorizer` (`src/msg-authorizer.c`) | none of its own; a `GTask` per asynchronous refresh | `process_request`, `refresh_authorization`, `_async`, `_finish` | `AsyncRefresh` |
| `MsgOAuth2Authorizer` (`src/msg-oauth2-authorizer.c`) | mutex, access token, refresh token | request and refresh an authorization at the token endpoint, sign a message, set and copy the refresh token | `OAuth2Authorizer` (implements `TokenStore`) |
| `MsgGoaAuthorizer` (`src/msg-goa-authorizer.c`) | mutex, access token; the account lives in another process | refresh with two D-Bus calls, sign a message | `GoaAuthorizer` |
| `MsgService` (`src/msg-service.c`) | authorizer (construct-only), soup session | refresh, build, send, `send_and_read`, `send_and_parse_response`, rate limiting, parse | `Service` |
| `MsgDriveService` (`src/drive/msg-drive-service.c`) | type of the drive read last; the memory stream of an upload | list drives and items; create, rename, delete, copy, move, update, download | `Service`, `Enumeration`, `Requests` |
| `MsgMailService` (`src/mail/msg-mail-service.c`) | none; gives out next and delta links | list folders and messages; draft, delete, fetch | `Service`, `Enumeration`, `Requests` |
| `MsgUserService` (`src/user/msg-user-service.c`) | none | get user, photo, contacts, contact folders, find users | `Service`, `Enumeration` |
| `MsgInputStream` (`src/msg-input-stream.c`) | message, body stream, range, request offset, offset; GIO's pending and closed flags | read, asynchronous read, seek, tell, close, get_message | `InputStream` (implements `FileReader`) |
| `MsgDriveItem` and its subclasses, `MsgDrive`, `MsgMailMessage`, `MsgMailFolder`, `MsgUser`, `MsgUserContactFolder` | the strings of their members; numbers and dates | parse from JSON, getters, setters | `Objects` (implements `Record`); numbers and dates are not modelled |
| JSON and error helpers (`src/msg-json-utils.c`, `src/msg-error.c`) | none | get a member; report an error | `Str` of `Objects`; the rest is not modelled |
| Tests, dummy authorizer | none | replay recorded traces in one thread | a reference only |

### How they interact

* An operation of a service refreshes the authorizer
  (`msg_service_refresh_authorization`), builds a message, lets the authorizer sign it
  (`process_request`), sends it and turns the answer into a result.  All of it runs
  synchronously in the calling thread; several threads may run operations on one service,
  and several services may share an authorizer.
* The authorizer is the shared state.  Its mutex protects the tokens, but
  `MsgOAuth2Authorizer` also reads its refresh token without it.
* An asynchronous refresh is a `GTask` that runs the synchronous one in a worker thread
  and calls back in the main loop.
* What a request addresses and contains comes from objects the application got from the
  library, or made, and may have changed with setters since; the strings their getters
  return stay theirs.
* A download is a `MsgInputStream`, which sends its requests itself, asynchronously, and
  between the start of an operation and its callback the application runs on.
* `g_object_notify` in `set_refresh_token` calls the application back in the same thread.
* An enumeration follows `@odata.nextLink` within one call; `get_messages` gives links
  out, so that the enumeration then spans calls of the application.

### What is hard, and what makes each part correct

* **Authorizers.** Unlocked reads followed by locked writes; a token dropped before its
  replacement is there; error paths that must unlock; callbacks that take the mutex
  again.  Correct: the mutex excludes and is always given back; an access token is only
  held with a refresh token, only signed with while in force, and never survives the
  refusal or the replacement of what it was obtained from.
* **Service.** The retry of a rate-limited request; a lost answer; cancellation before,
  while and after a request is on its way; which of status, body and local error decides
  the result.  Correct: a result is truthful, errors and results agree, no request is
  repeated that was carried out, each call returns.
* **Input stream.** Position, range and body are three pieces of state that a seek, a
  refused response and a server that ignores `Range` push apart.  Correct: a read
  delivers the bytes at `tell()`, end of file is told only there, a failure changes
  nothing, the pending flag is not leaked, and a redirect does not take the token along.
* **Objects and requests.** Strings are lent by getters and freed by setters; a shared item
  has two addresses; an address with a missing part ends there; names are checked in one
  form and sent in another.  Correct: an object is a record of texts whatever is done with
  it; drive and item of an address belong together; a name arrives as it was given; an
  upload loses nothing before it is sent.
* **Enumerations.** A page fails after others were read; the collection grows; a fallback
  replaces a refused first page; bundles appear several times; links outlive calls.
  Correct: complete, ordered, without duplicates; over many calls nothing is missed.

`PROJECT.json` lists these hazards one by one at their lines, each with the properties
that cover it or the reason why none does.

## 2. Modules

One module per component, one action per step that another actor can observe.  The
threads of a component are a CONSTANT set; a call is cut where another thread could act
in between.  `MC*` modules give TLC its small sets.  In the component modules an operator
preceded by "Mutant:" is a plausible bug, defined beside the definition it changes; no
specification uses it, and PROJECT.json says which property notices it.

### TokenStore

The abstract promise of an authorizer that keeps two tokens: `GrantBoth`, `GrantAccess`
(only with a refresh token present), `GrantFails`, and `SetRefresh`, which voids the
access token and keeps grants out until `RefreshSet`.

### OAuth2Authorizer

| Model | Code |
|---|---|
| `mutex`, `accessToken`, `refreshToken` | the members of the private structure |
| `freed` | the refresh token's member points to a freed string (between `g_clear_pointer`/`g_free` and the assignment) |
| `op`, `pc`, `grant`, `childError`, `arg`, `header`, `result` | a thread's call and its locals |
| `held` | the pointer to the refresh token that `soup_form_encode` is reading unlocked |
| `CheckRefreshToken`, `BuildMessage`, `EncodeMessage` | `refresh_authorization`, `build_authorization_message` |
| `Answer`, `TransportError` | `soup_session_send_and_read` and the JSON parser: any combination of missing, empty and non-empty members |
| `ValidateGrant`, `StoreAccess`, `FreeRefresh`, `StoreRefresh`, `Return` | `parse_grant_response` |
| `SignMessage` | `process_request` |
| `SetSameToken`, `ClearAccess`, `ClearRefresh`, `StoreSetToken`, `Notify` | `set_refresh_token` |

Reading `refresh_token` unlocked is a data race; the model gives it the outcomes the
code produces when words are read and written atomically, and marks the string as freed.
`SetTokens` says what the application passes to `set_refresh_token`; whether it contains
`NULL` (signing out) decides on several properties.

### GoaAuthorizer and AsyncRefresh

`GoaAuthorizer` is the authorizer on D-Bus: under the mutex, drop the token, ensure the
credentials, ask for a token (`ServiceIssues` is the moment the service makes one, the
reply comes later or is lost), store it.  It is no specification of its own;
`AsyncRefresh` EXTENDS it and composes it with the tasks of
`msg_authorizer_refresh_authorization_async`: `RefreshAsync`, `ThreadFuncStarts`, the
steps of the authorizer, `ThreadFuncEnds`, `Callback`.  Threads that are not workers call
the synchronous operations at the same time, and the application may cancel a task
(`CancelRefresh`), upon which GTask reports an error of its own.  `result` is what the
thread function made the task return: nothing, or an error that a `g_autoptr` has freed by
the time the task is complete; `finish` is what `_finish` tells the callback.

### Service

All seventeen single requests of the three services are defined by what they differ in
(`Operation`): when a name is checked, whether the authorization is refreshed, which of
the three ways of sending is used, what makes a result of the answer, whether a local
error is looked at, and what the server does with the item.  Those traits are what the
actions test: where a retry resumes (`RetryAt`), what counts as a success (`Accepted`,
`Succeeds`) and what becomes of the caller's error (`SetError`, `FailsWith`; "again" is
an error set over an error).  Operations with equal traits are one operation for TLC.

`call[t]` is the operation a thread runs with its locals; `remote` the items the server
has.  The server may carry an operation out and answer, carry it out and have its answer
lost, refuse, limit the rate with or without `Retry-After`, break an answer 429 off
(`CutShort`), or never be reached.  The application may cancel at any moment;
`handle_rate_limiting` sleeps through that.

Two things are assumed of Graph: an answer that is not a success is not carried out, and
is either a JSON object with a member `error` or no JSON object.  An error object may lack
the text that `parse_response` makes an error of (the body "wordless").

### InputStream

The private members are variables of the same names; `pending` and `closed` are those of
`GInputStream`, whose rules (no operation starts while one is pending or the stream is
closed) are guards.  An asynchronous read is `ReadAsync`, then `SendDone` (or
`SendFails`) if there was no body yet, then `ReadDone`.  `Responses` is what the server
may answer: the whole file, the part asked for, a failure, an unsatisfiable range, each
with and without a length where HTTP allows it.  `last` records what a call returned,
`careful` whether the application has so far avoided three uses after which the position
is meaningless in this code: the synchronous read (it does not advance the offset), a
seek before the message exists (building it resets the offset), and reading on from a
refused response.  Each is a hazard in PROJECT.json and each is an action of the model;
properties about positions are for careful applications.

`msg` is the message with two facts about it: whether it has an Authorization header and
whether redirects have led it elsewhere.  It is built once, signed then if the authorizer
has a token (`Ensured`), and serves every request of the stream.  `Restart` is libsoup
sending it again, after a redirect there or back or for another reason, and `OnRestarted`
takes the header off each time, whatever the reason.  `stuck` records that a seek could not
close the old body, which leaves `pending` set with no operation under way.  `ReadDone` includes a read that
is cancelled too late: GTask reports the cancellation although the bytes were counted.

`FileReader` is what a careful application may rely on: a position and a file.  Reads
deliver what is at the position, the end is told outside of the file only, a seek that
succeeds leads where it says and one that fails nowhere, and nothing else but a cancelled
read moves it otherwise.  `InputStream` implements it with `pos <- offset`.

### Record, Objects and Requests

`Objects` has the classes the library hands out.  A document is the set of JSON members it
has, a text is named by the member it comes from and by what the code made of it (stripped,
in lower case, written as a mailbox, several joined), so that a wrong source or a missed
conversion shows.  `ItemMembers`, `FileMembers`, `MessageMembers` and so on are the
`..._new_from_json`.  A string is a block of `heap`; a member holds its block, `Get` lends
it (`borrowed`), a setter (`SetText`, `SetBorrowed`) frees the block with `ClearPointer`
and copies with `Strdup`, in this order, as the code does.  `Record` is what the application
sees: a record whose members change only when they are set.

`Requests` EXTENDS it with what the services make of an object.  `request` is the last
request sent: its operation, its address (`Strconcat` stops at a NULL, like `g_strconcat`)
and what it contains.  A name is a sequence of parts, each of which stands for characters
`is_valid_name` or `g_uri_escape_string` tells apart.  `upload` is the memory stream between
`update` and `update_finish`; that the session `update` creates is never used again follows
from `update_finish`, which sends to the item itself.

### Enumeration

One module for the eight operations that loop over pages, because they are one loop with
four differences: prepend or append, the bundle filter and the fallback of drives, and the
links taken and handed out; each operation is defined by its differences.  The loop over a
page is a step per element (`CollectElement`) between the answer (`FetchPage`) and what
follows the array (`FollowLink`, `Return`).  A listed object remembers where it was in the
collection, so that "complete, in order, once" is a statement about positions.  A link is the
number of a page; the collection may grow by a page at any moment, so a delta link leads
to what comes next.  `app` is an application that keeps the links of `get_messages` or of
`get_mail_folders` and passes them again.  Any element may be unreadable, which the code
provides for in every loop, although today only drives and drive items can be.

## 3. Runs

| Run | Instance | What it shows |
|---|---|---|
| `OAuth2` | 2 threads, 1 access token, 2 refresh tokens, set_refresh_token with either | type, `MutualExclusion`, `AccessNeedsRefresh` (the assertion of `process_request`), `GrantHolds` (those of `parse_grant_response`), `SignedInForce`, refinement of `TokenStore`, `CallsSettle` |
| `OAuth2SignOut` | the application may also set NULL | `AccessNeedsRefresh` fails (finding 1) |
| `OAuth2FreedRead` | nobody sets a token | `NoFreedRead` fails with two refreshes (finding 2) |
| `AsyncRefresh` | 2 workers, 1 other thread, 2 tokens | `RefreshTruthful`, `LatestToken`, `FailureTold`, `CallbackInvoked` |
| `AsyncRefreshResult` | the same | `ResultReported` fails (finding 5) |
| `Service` | 1 thread that calls every operation, 1 that deletes; 1 item, 1 rate-limited answer per call | `ItemMeansExecuted`, `AtMostOnce`, `ErrorMeansFailure`, `RetryKeepsSignature`, `CallsReturn` |
| `ServiceSignedTwice` | 1 thread | `SignedOnce` fails (finding 6) |
| `InputStream` | a file of 4 bytes, reads of 2, seeks to -1 .. 5, error responses of length 1 | `ReadsAtTell`, `EndOfFile`, `RequestInForce`, `PendingIsTask`, `FailureKeepsPosition`, `TokenStaysHome`, refinement of `FileReader` |
| `InputStreamSeekEnd` | a file of 3 bytes, error responses without a length | `SeekEndAtEnd` fails (finding 3) |
| `Enumeration` | 2 identifiers, up to 3 pages of at most 1 element | `Enumerated`, `Synced` |
| `Requests` | one object at a time of any class, 12 blocks of memory, 1 text of the application, 40 documents, names of up to 2 parts, uploads of up to 2 writes | `RecordImplemented`, `SentKnown`, `OneItem`, `NameAsGiven`, `UploadKept` |
| `RequestsSelfSet` | the same, and a member may be set to the string it has | `CopiesLive` fails (finding 4) |

### Bounds, and why they are enough

* **Threads.** The races are between one thread's unlocked read and another's locked
  write, or between two users of one mutex: two threads.  Calls of `Service` meet only on the server, where
  nothing but a deletion changes what another call finds, so that the second thread only
  deletes (`CallsOf`).  `AsyncRefresh` has a third so
  that two tasks and a synchronous caller contend.  The proofs are for any number.
* **Tokens.** One access token suffices for presence and absence; two refresh tokens tell
  "the same" from "another" in `set_refresh_token`; two tokens of the account service
  tell stale from current.
* **`MaxLimited = 1`** is one wait and one repetition, which is where signing again,
  repeating what was carried out and a second error appear; the bound stops the server
  from limiting for ever, which `CallsReturn` has to assume anyway.
* **InputStream.** A file of 4 bytes read in pieces of up to 2 has a first, middle and
  last read, short reads included; offsets -1 and 5 lie before and behind it.
  `ErrorLength` makes an error response shorter than the file, or without a length.
* **Requests.** Requests and setters concern one object, and objects share nothing, so that
  one is enough; the destination of a copy or a move is any item that can be read from a
  document.  12 blocks are more than the 11 members of a file.  The documents have every
  combination of facets, of `parentReference` and of `remoteItem`.  Every part of a name
  occurs alone, first and last.  The application keeps the item of an upload until
  `update_finish`.
* **Enumeration.** Three pages have a first, a middle and a last one, any of which may
  be empty or have been added, and are what it takes for an application to have a delta link
  and a next link at once; two identifiers make equal and different bundles.  An element
  beside another on a page goes through the same loop body as one on the next page; the
  proofs are for pages of any length.

### Fairness

* `OAuth2Authorizer`: weak fairness of each thread's own steps, which is the operating
  system's scheduler.  None for the network and none for the mutex beyond that:
  `CallsSettle` only speaks of behaviours in which the application stops making calls.
* `AsyncRefresh`: weak fairness of workers, callers and the main loop; the D-Bus calls
  have timeouts, so they end.  Strong fairness of a worker's `Lock`: `GMutex` is not
  fair, but it does not pass a thread over for ever; without this another thread that
  keeps signing could starve a refresh.
* `Service`: weak fairness of the thread and of the server's answer or failure, as soup
  ends each request with an answer, an error or a timeout.

Deadlock is checked in every run.

## 4. Proofs

Each component has a module of proofs, `<component>Proofs`.  The theorems hold for all
values of the constants that satisfy the named assumptions of the modules: any number of
threads, tokens, items, calls, waits, names, documents, texts and writes, and files, reads
and seeks of any size.  An invariant is proved from an inductive one, named `Inv` (for
`Objects`, `ObjectInv`), that each action is shown to preserve, by one lemma per action or
group of actions.

### OAuth2AuthorizerProofs

For any sets of threads and tokens that satisfy `ConstantsAssumption`:

| Theorem | Says |
|---|---|
| `TypeCorrect` | `Spec => []TypeOK`; in particular no empty access token is ever stored |
| `Mutex` | `Spec => []MutualExclusion` |
| `Signing` | `Spec => []SignedInForce` |
| `AssertionHolds` | `Spec => []AccessNeedsRefresh`, if the application does not sign out |
| `GrantCorrect` | `Spec => []GrantHolds`, if it does not sign out |
| `Implements` | `Spec => StoreImplemented`, if it does not sign out |

`MutualExclusion` and `SignedInForce` are not inductive: what a thread
writes depends on which call it runs and on locals it validated earlier.  `Inv` adds
`CallAt` (which call a program counter belongs to, and that `arg` came from `SetTokens`)
and `GrantLocals` (from the validation of a grant to its return, an access token is
non-empty, and missing exactly if `childError` is set), and states `SignedInForce`
inside the critical section as `Signed`.  `Inv` is preserved by each action, one lemma
per group of actions; none of it needs an assumption on the application.

The three theorems about the two tokens together hold only if the application never
passes `NULL` to `set_refresh_token` (`NULL \notin SetTokens`); otherwise finding 1 is a
counterexample.  With that assumption `Session` is inductive relative to `Inv`: once
there is a refresh token there will always be one, except between the clearing and the
storing of another, so that what a grant looked at before it took the mutex still holds
when it is stored.

For the refinement an update takes effect with its first write: while its owner still
holds the mutex, the abstract refresh token is the one it is about to store
(`EffectiveRefresh`), and the abstract change by the application lasts from the first
write of `set_refresh_token` to its last (`SettingRefresh`).  Every step is then a step of `TokenStore` or a stutter;
`MutualExclusion` makes the owner unique, and `Session` gives `GrantAccess` its guard.

### AsyncRefreshProofs

For any workers, callers and tokens (`GoaAssumption`, `WorkersAssumption`):

| Theorem | Says |
|---|---|
| `TypeCorrect` | `Spec => []TypeOK` |
| `Truthful` | `Spec => []RefreshTruthful` |
| `Latest` | `Spec => []LatestToken` |
| `Failures` | `Spec => []FailureTold` |

`MutexHeld` says that the mutex belongs to the thread in its critical section, across both
D-Bus calls; `CallAt` which call a program counter belongs to, and that success is only
noted from the reply to the return.  What makes the tokens current is `NoTokenMeanwhile`:
from its first step to its reply a refresh has left no token in the authorizer, so that the
one the service issues meanwhile is newer than any in use.  `TaskInv` is what a task carries
from its worker to its callback: a complete one was given an error exactly if its refresh
failed.  `FailureTold` needs it because the failure, the return of the task and the callback
are three steps.  That the error has been freed by then is finding 5.

### ServiceProofs

For any threads, items, operations called and number of waits (`CallsAssumption`):

| Theorem | Says |
|---|---|
| `TypeCorrect` | `Spec => []TypeOK` |
| `ResultsExecuted` | `Spec => []ItemMeansExecuted` |
| `NeverTwice` | `Spec => []AtMostOnce` |
| `ErrorsAgree` | `Spec => []ErrorMeansFailure` |
| `Signatures` | `Spec => []RetryKeepsSignature` |

The calls share only the server's items, so that the invariant is one of each call
(`CallInv`).  A call that is yet to be sent, or sleeps before it is sent again, has not been
carried out, has no answer and has set no error (`ExecutedInv`, `ErrorInv`): this is what
the retry rests on, and it holds because an answer 429 is not carried out.  An answer with
the body of an item, and any success with a body, was carried out.  A whole answer 429 has a
body, so that no error was set before the request is repeated; one that was cut short is the
exception the property names too.  `SignedInv` says that a call has no header before it first signs, that `send` and
`send_and_read` never come back to signing, and that `send_and_parse_response` adds at most
one header for each wait.

### InputStreamProofs

For a file, reads, seeks and error bodies of any size (`SizesAssumption`, `NoneAssumption`):

| Theorem | Says |
|---|---|
| `TypeCorrect` | `Spec => []TypeOK` |
| `BytesAtTell` | `Spec => []ReadsAtTell` |
| `EndTold` | `Spec => []EndOfFile` |
| `InForce` | `Spec => []RequestInForce` |
| `Pending` | `Spec => []PendingIsTask` |
| `Signing` | `Spec => []TokenStaysHome` |
| `FailuresKeepPosition` | `Spec => FailureKeepsPosition` |
| `Implements` | `Spec => FileImplemented` |

`PositionInv` is the heart: for a careful application the accepted body stands at the
offset, and where there is no body the offset is the one the next request asks for; only
while a refused body is left behind it is neither.  It is kept because the range and the
offset it is compared with are changed together (`RangeInv`) and because an answer is
compared with the request in force when it was asked for (`RequestInForce`).  `TaskInv` says
what a callback finds: a message, a body, the pending flag.  `BodyInv` bounds the position
in a body by its length.  The refinement follows step by step: a read that delivers is
`FileReader`'s read because of `PositionInv`, a failure its failure because of
`StaysPut`, and from a careless use on (`defined <- careful`) the reader promises nothing.

### RequestsProofs

For any documents, texts of the application, blocks of memory (at least 11, as many as a
file has members), names and writes (`ObjectsAssumption`, `NamesAssumption`):

| Theorem | Says | If |
|---|---|---|
| `TypeCorrect` | `Spec => []TypeOK` | `SelfSetGuarded` |
| `Refines` | `Spec => RecordImplemented` | `SelfSetGuarded` |
| `KnownSent` | `Spec => []SentKnown` | `SelfSetGuarded` |
| `Sides` | `Spec => []OneItem` | `SelfSetGuarded`, `RemoteLeftAlone` |
| `NamesAsGiven` | `Spec => []NameAsGiven` | |
| `UploadsKept` | `Spec => []UploadKept` | |

The first four are about objects and need that the application gives a setter the string
its getter lent only where the setter compares before it frees (`SelfSetGuarded`: `body` and
`subject` of a message); without it finding 4 is a counterexample.  `RemoteLeftAlone` says
that the application sets no member about the owner's side and passes on none of the owner's
identifiers as texts of its own.

Of an object, `ObjectInv` says that it has the members of its class (`MembersInv`), that no
two of them hold the same block (`OwnBlocks`), that the block of a member holds a text of a
document or of the application (`HeldTexts`), and that what a getter lent is where its
member still has it (`LentHeld`).  `OwnBlocks` makes freeing one member harmless for the
others.  It needs that a free block is never in use and that there
always is one, which is counting: an object has at most 11 members, so one block is left
over while a member is being set.  An object then is a record of texts, and each step of
`Objects` is one of `Record`.

Of the requests, `Inv` says that the last one is addressed, named and filled with what the
object holds, which is so whatever the application does; `SidesInv` that no member of the
one side of a shared item ever has a text of the other, from the way a document is parsed.  That a name arrives as it was given is about the sequence of its parts: escaping
leaves none out and those that `is_valid_name` refuses are never sent.

### EnumerationProofs

For any number of pages, elements and identifiers (`PagesAssumption`):

| Theorem | Says |
|---|---|
| `TypeCorrect` | `Spec => []TypeOK` |
| `Complete` | `Spec => []Enumerated` |
| `NothingMissed` | `Spec => []Synced` |

`Seen` is the set of positions the call has passed, which is known from the page and the
index where it stands; `Collecting` says that the list has exactly these, but for repeated
bundles, in order, and the identifier of each of them.  The last part is what makes
`drive_already_added` right: it looks a bundle up in the list, the property compares it with
the whole collection, and the two agree only because a drive that was left out has its
identifier in the list.  `Answered` says that the array is what the page was when it was
answered, and that the link read with it leads to the page after it, although the collection
may have grown since.  `ListsJoined` is the lemma about lists: of two lists whose positions
follow each other the concatenation is the list of all, which is used for each element and,
in `Synced`, for each call.

### Only model-checked

* Liveness: `CallsSettle`, `CallbackInvoked` and `CallsReturn`, which rest on fairness and
  `ENABLED`.

## 5. Findings

Each is the counterexample of a run that is expected to be violated.

1. `src/msg-oauth2-authorizer.c:224`: the assertion that an access token comes with a
   refresh token fails if the application signs out between the unlocked validation of a
   grant and its storing.
2. `src/msg-oauth2-authorizer.c:440`: a refresh reads the refresh token's string without
   the mutex, while a concurrent one may have freed it; refreshing is documented as
   thread safe (`src/msg-authorizer.c:72`).
3. `src/msg-input-stream.c:345`: `G_SEEK_END` adds a length to an offset that is not its
   own, after a refused range or after another seek.
4. `src/mail/msg-mail-message.c:280`: setters free the string they have before they copy
   the one they are given; `src/tests/mail.c:189` (and 196, 203, 210) sets a member to what
   its getter returned.
5. `src/msg-authorizer.c:35`: the error of an asynchronous refresh that failed is freed by
   the `g_autoptr` of line 31 after it was given to the task, so that `_finish` passes freed
   memory on.  The property also fails of one that succeeded, which line 34 never reports as
   TRUE; TLC stops at the shorter of the two.
6. `src/msg-service.c:229`: `send_and_parse_response` appends one more Authorization header
   at each retry; `send_and_read`, of which it is documented to be a combination (line 214),
   does not.

The passing runs and the theorems say what does hold beside these: `FailureTold` that what
`_finish` tells of failure and success is that of its own refresh, `RetryKeepsSignature` that
the other two ways of sending sign once.

Other places where the code differs from what is written about it are in the model, and the
properties are stated so as not to claim what the code does not do:

* `src/drive/msg-drive-service.c:630`: `delete` is documented as TRUE when the item has been
  deleted (line 605), and is TRUE for any answer with a body, so for a refusal; so is
  `delete_message`.  `ItemMeansExecuted` is about the operations that look at their answer.
* `src/msg-service.c:200`: after an answer 429 that breaks off, `send_and_read` goes on with
  the caller's error set and may return an answer with it, where line 186 documents NULL on
  error.  `ErrorMeansFailure` leaves such calls out (`cut`).
* `src/drive/msg-drive-service.c:229`: the comment at 225-228 says that the default drive is
  for an initial request that was refused and that errors during pagination propagate; the
  test is whether the list is empty, which it also is after pages without a drive that could
  be read, and then such an error is replaced by the default drive.  `Enumerated` has only
  that it replaces no drive that was read.

Two things a reader may not expect, which no document rules out:

* `src/drive/msg-drive-service.c:784`: an empty name is valid, and `add_item_to_folder` then
  addresses the parent's `":/:/content"`.
* `src/mail/msg-mail-service.c:364`: a draft is made of the body preview, not of the body,
  and has the receivers of the message as one address, joined if it was parsed.

Besides, `ErrorMeansFailure` leaves out the error `get_photo` sets over the one of a request
that failed to be sent (`src/user/msg-user-service.c:125`), and the failures that set no error
at all ("silent"): a refresh that fails in transport, a URL that no message can be built for,
an error object without a message, a folder without an id.  `PendingIsTask` leaves out the
seek that could not close the old body (`stuck`).

## 6. Not modelled

* The text of JSON and of URIs, logging, the soup session's options: data and I/O
  without control that depends on it.  Whether an answer can be parsed is an input.
* Numbers, flags and dates of objects, which are copied and returned.
* `request_authorization_async` and `_finish` of `MsgOAuth2Authorizer`, a `GTask` around the
  synchronous call, which `OAuth2Authorizer` has in any thread; `build_authentication_uri`,
  which formats constants under the mutex.
* Reading the stream that `msg_service_send` returns.
* The `Prefer` header of `list_children` and the annotations of delta pages.
* A leak: the task that is never unreferenced when a stream without a body is closed.
* Durations: of `Retry-After`, of timeouts.

## 7. Plan

In this order; what is done is marked.

1. `TokenStore`, `OAuth2Authorizer`, runs and proofs (done).
2. `GoaAuthorizer`, composed with the asynchronous refresh in `AsyncRefresh` (done).
3. `Service` with every single request of the three services (done).
4. `InputStream` (done), and the abstract `FileReader` it implements (done).
5. `Enumeration` (done).
6. `Objects` and the abstract `Record` they implement, `Requests` (done).
7. Proofs of `AsyncRefresh`, `Service`, `InputStream`, `Objects`, `Requests` and
   `Enumeration` (done).
