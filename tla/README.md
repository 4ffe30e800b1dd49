# TwoKey: a TLA+ verification project

TwoKey is a password manager that needs a hardware token. This directory holds
TLA+ modules of its parts, TLC configurations that check them on small
instances, and theorems about them with proofs for TLAPS. Everything is
translated from the source; line numbers in the modules and in `PROJECT.json`
point into it.

1. [The system](#1-the-system)
2. [Modules and code](#2-modules-and-code)
3. [Runs: what is checked and with which bounds](#3-runs)
4. [Fairness, deadlock](#4-fairness-and-deadlock)
5. [Proofs](#5-proofs)
6. [What the checks found](#6-what-the-checks-found)
7. [Abstractions and what is not modelled](#7-abstractions)
8. [Plan](#8-plan)

## 1. The system

```
  web page <-> browser extension --HTTP localhost:8000--> desktop application <--serial--> token
                                                               |
                                                             HTTPS
                                                               v
                                                     Flask server <-> MongoDB
```

| Component | State | Operations | Talks to |
|---|---|---|---|
| Registration and login server (`register.py`, `login.py`, `api.py`) | the collections `user`, `devices`, `session`; one collection per user; JWTs are not stored | `/reg`, `/login`, `/2fa` | MongoDB, desktop |
| Vault server (`controll_data.py`) | the user's collection of accounts | `/view-urls`, `/view-accounts`, `/Add-acc`, `/delete-acc`, `/update` | MongoDB, desktop |
| Token (`TokenArduinoCode.ino`) | a 128 bit key in its flash | encrypts 16 bytes, prints 32 hex digits | serial port |
| Token link (`usb_communicator.cpp`, `usb_event_handler.cpp`) | the open port and its buffer, `tokenIsAvailable`, udev events | `tick`, `checkForToken`, `writeToToken`, `readFromToken` | token, desktop session |
| Desktop session (`twokey.cpp`, `backend_client.cpp`, `main.cpp`) | page, JWT, encryption key, last token answer | login, logout, registration, token events | server, token link, bridge |
| Manager page (`twokey.cpp`) | list of sites, combo box, text fields, `credentials`, `oldUsername`, `oldPassword` | select, edit, save, add, delete, load | server |
| Bridge (`browser_extension_communicator.cpp`, `sandbird.c`) | HTTP streams with their buffers, states and times; the shared `BackendClient` | poll, accept, send, time out; say whether a user is logged in, log in, list the accounts of a site | extension, session, server |
| Browser extension (`background.js`, `content.js`, `popup.js`, `chooseAccount.js`) | `retrievedCredentials`, messages, context menu, popup | ask for the accounts of the page in front, post them to the page, fill in, log in | bridge, web page |
| Password generator (`passwordgenerator.cpp`, `passworddialog.cpp`) | mask, length, label | toggle, slide, regenerate | manager page |
| Encodings (`backend_client.cpp`, `sandbird.c`) | none | AES, hex, base64, list parser, URL decoding | session, bridge |

What makes the system hard to test, and what each component must get right:

* **Server: handlers interleave between calls to MongoDB.** Nothing is done in a
  transaction: a registration looks up the serial, then the address, inserts
  the user, creates a collection and binds the token, in five calls. Another
  handler may run between any two; a handler may die between any two. It is
  right when access is given only for the account's own password and an answer
  of the token bound to it, when a token is bound once and to a complete user,
  and when addresses are unique.
* **Vault: check, then act, and an expiring token.** Each handler verifies the JWT
  once at its start and again inside `get_all_user_data`; the look for
  duplicates and the write are two calls. It is right when an account is stored
  once, an update writes the account it names, a deletion is not undone, and
  the answer tells the client what happened.
* **Token link: bytes come in pieces, early, late or never, and tokens are swapped.**
  It is right when the answer that is read is the one to the challenge that was
  written, the port is that of the token that is there, and the status follows.
* **Desktop: every wait is `while (!finished) processEvents()`.** Clicks, token
  events and queued signals start further operations inside a wait, and a
  second thread (the bridge) logs in through the same `BackendClient` with no
  lock. It is right when the key in memory belongs to the user of the JWT, what
  is stored can be read again, nothing is left behind by a logout, and all
  waits end.
* **Manager page: fields and cache are filled by loads that nest.** It is right when
  the fields show one account and a save replaces only the password the user
  changed.
* **Generator: a loop with `i--`, a null character and a `goto`.** It is right when
  the password fits the settings and the loop ends.
* **Bridge: one thread polls all streams, and a handler in it waits for the server.**
  While it waits no other stream is served, the clock goes on, and the GUI thread
  logs in and out of the same `BackendClient`. The time that timeouts are measured
  by is read once for each poll, before the handlers. It is right when an answer
  that is written is delivered, no stream that was not silent is timed out, every
  request ends, and nobody is told to be logged in because of a login that failed.
* **Extension: asynchronous requests whose answers cross.** The background page posts
  what it has at once and asks for the next; requests of several tabs are on their
  way together, and the browser may unload the page. It is right when what it holds
  is the answer to what it asked last, and an alert has a cause.
* **Encodings: groups that are not full, padding, characters with a meaning.** They are
  right when every text comes back, and the list an extension is given is the one
  that was stored.

`PROJECT.json` lists each hazard at the line where it bites, with the properties
that watch it.

## 2. Modules and code

| Module | Models | Shape |
|---|---|---|
| `Enrolment` | what the account server promises | two variables, two actions: a token is bound once, access follows the binding |
| `AuthServer` | `register.py`, `login.py`, `api.py` | `job[w]` is the local state of handler `w`; one action for each call to MongoDB |
| `AuthServerProofs` | theorems about `AuthServer` | |
| `VaultStore` | `controll_data.py` | the same for the vault of one user |
| `VaultStoreProofs` | theorems about `VaultStore` | |
| `TokenLink` | the two serial classes and the firmware | token, wire, buffer, port, timer, one login exchange |
| `TokenLinkProofs` | theorems about `TokenLink` | |
| `Desktop` | session part of `twokey.cpp`, `backend_client.cpp`; login of the bridge's thread | a stack of operations for each thread |
| `DesktopProofs` | theorems about `Desktop` | |
| `Codec` | the conversions of `backend_client.cpp`, `sandbird.c`, the list of `event_handler` | operators and recursive functions on texts |
| `Bridge` | `sandbird.c` as the program uses it, `event_handler`, with any clients | a state for each connection; one action for each step of the poll loop and of the handler |
| `Service` | what the bridge promises each client | a request is asked, sent, answered once, delivered or ended |
| `BridgeProofs` | theorems about `Codec`, and about `Bridge` whatever its clients do | |
| `Browser` | the extension as the client of `Bridge`, which it extends | tabs, requests, messages; one action for each listener and callback |
| `BrowserProofs` | theorems about `Browser`; that it is a client of `Bridge` | |
| `ManagerPage` | manager part of `twokey.cpp` against a vault | a stack of requests; fields, list, combo box and cache |
| `ManagerPageProofs` | theorems about `ManagerPage` | |
| `PasswordGenerator` | the generator and its dialog | one action for each character drawn |
| `PasswordGeneratorProofs` | theorems about `PasswordGenerator` | |
| `MC...` | instances for TLC: symmetry, texts, budgets, vaults | |

**AuthServer.** `RegisterArrive`, `SerialExist`, `EmailFree`, `InsertUser`,
`CreateCollection` and `BindDevice` are the calls of `User_Register` in order;
`Login` is `initial_login`, which makes a single call; `TwoFAArrive`,
`FindSession`, `FindUser`, `CheckAnswer`, `RemoveSession` and `Grant` are
`authentication` and `User_login`. `find_one` takes any matching document.
`Rebind` is an `update_one` on the printed serial, whose result the code does
not read. `Fail(w)` is a handler that dies; `Expire` the end of a JWT's life.
`live` holds the ids that an unexpired JWT names: first and second step sign
tokens of the same shape with the same key. `Desktop` uses this server with each
request as one step.

**VaultStore.** `AddArrive`, `AddLook`, `AddInsert`, `UpdateArrive`, `UpdateLook` and
`UpdateWrite` are the calls of the two long handlers, `Delete` is the one of the
short handler. `expired` is what the second look at the JWT finds. `answer` is
the last answer sent, with what the handler has done and whether something
excuses it. The two `view-` handlers only read and have no action here;
`ManagerPage` has them as `View`.

**TokenLink.** `Tick` is the timer (one udev event for each tick), `CheckForToken`
the scan it causes, with `OpenToken` and `CloseToken`; `WriteToToken` and
`ReadFromToken` are one exchange of `BackendClient::login`. `Plug`, `Unplug`,
`Boot` and `TokenSends` are the user, the boot loader that runs after each
opening of the port, and the line.

**Desktop.** A thread is a stack of frames, one for each operation that waits; only
the top one goes on. `Listens` is a wait in which the GUI handles signals,
`Clickable` one in which it handles clicks (a message box is only the first).
`LoginAnswered`, `Exchange`, `Derive`, `Post2fa`, `Granted` and `Refused` are
`BackendClient::login` and `_2fa`, cut where another operation or the other
thread can come between. A frame remembers what was read at the time: the JWT
and answer posted, the key used. `BrowserSignal` is the queued
`successfulLogin`; `TokenGone` and `TokenCame` are `changeStatus`; `SitesAnswered`
and `AccountsAnswered` are the loads, with `websites[0]` of an empty list as a
choice between a crash (`Restart`) and going on. `AddAccount`, `DeleteAccount` and
`ChangeAccount` are the three buttons, which share `EncryptWithKey` and the choice of
request; `ChangeAnswered` is the answer to a deletion or a change, after which a
message box is open (`CloseBox`) and sites or accounts are loaded. `Register` and
`RegisterAnswered` are `on_register_button_clicked` cut at its wait.

**ManagerPage.** The operations again form a stack; a request is *posted*, then
*served*, then answered (or lost), and posted requests are served in any order.
`SitesAnswered` is `loadWebsitesList`, `ClearCombo` and `AccountsAnswered` (with `Loaded`, its loop over the
rows) the two halves of `loadAccountsForWebsite`, `Selected` the slot of the combo box,
`Followed` what each caller does after a load. `Save`, `Told` and `CloseBox` are
`on_manager_save_button_clicked` cut at its wait and at its message box. The
combo box is modelled in detail: clearing it selects the empty text, adding the
first entry selects it, `setMaxCount` cuts entries a nested load has added.

**PasswordGenerator.** `DrawPlain`, `DrawSpecial`, `DrawNull` and `DrawNothing` are one
turn of the loop by the kind of character that comes out, `Finish` its end, with
the recursion when a class has not come up. `Toggle`, `SetLength` and `Press` are
the slots of the dialog.

**Codec.** A text is a sequence of character codes. `Base64Encode`, `Base64Decode`,
`EncryptWithKey`, `DecryptWithKey`, `ParseJSONArray`, `AccountsIn` (the `QHash` of
`getAccountsForWebsite`), `UrlDecode` and `StripURL` do what the functions of those names
do; `JSONList` is the list `event_handler` writes and `ParsedList` what `JSON.parse`
makes of it. What is a loop over a text of any length (`UrlDecode`, `Quoted`, the reading of a list) is a recursive
function on positions, so that theorems can speak of it. What AES does to a block is a stand-in that only the same key undoes.

**Bridge.** `conn[r]` joins the place of a connection (backlog, or a stream) with the
state of the stream and of its buffer: `header` while the request is not complete,
`status` once the handler runs or has written nothing, `data` and `rest` while an answer is being sent, `flushed` when
the buffer is empty. `Select` is the `select()` with the aging of the streams, `Wait`,
`Disconnected`, `Flush`, `Finish` and `Handle` are what the loop does with the stream at its head,
by the sets and the state, and `Accept` the end of the poll. `Handle`,
`LoginAnswered`, `SecondAnswered`, `PostLookup` and `ListAnswered` are `event_handler` cut at its
waits. `old` are the streams whose `last_activity` is more than the timeout ago by the time
of this poll, `ahead` says that the clock has gone on since. `BridgeSpec` is this server
with clients that may do anything; `GuiLogin`, `GuiSecond` and `GuiLogout` are
what the GUI thread does to the same `BackendClient`, of which `Desktop` has the whole; `gui` are its logins past the
first step, which nest: one that starts in the wait of another ends first.
`Service` is the promise to each client, without streams and waits; `Standing` and `Given` map a connection to it.

**Browser.** `Navigate` and `Activate` are the two tab events, `Query` the callback of
`chrome.tabs.query`, which sends a request and posts what the last one has left;
`Progress` and `Done` are `onreadystatechange`; `Deliver`, `SaveCreds` and `ClickData` the
listeners of the content script and of the background page; `Typed`, `PopupOpen`, `PopupLogin`,
`PopupClose` the other requests; `Suspend` is the browser unloading the background page.

Variables marked *history* in a module are not in the program: they remember what
a property has to refer to, and no guard reads them but `unused`, which keeps new
ids apart from old ones.

## 3. Runs

| Run | Instance | Shows |
|---|---|---|
| `auth` | 2 handlers, 2 addresses, 2 passwords, 2 tokens, 3 uuids | all properties of `AuthServer` and that it implements `Enrolment` |
| `vault` | 2 handlers, 2 sites, 2 names, 1 password, 2 documents | duplicates, lost updates and wrong answers have the causes named, no account comes back |
| `vault_update` | same | *violated*: an update writes another site's account |
| `vault_delete` | same | *violated*: a deletion that did nothing is told as done |
| `token_link` | 3 plug-ins, 3 logins | which reads return the answer; the port and the status follow the token |
| `token_refused` | same | *violated*: a right token that answers in time is refused |
| `desktop` | 2 users, of whom one has an account; 2 logins, 1 other task, 2 nested operations | key and JWT fit, stored accounts are readable, no JWT left outside the manager, why the first of an empty list of sites is taken |
| `desktop_waits` | 1 user with an account, same bounds | nested waits all end |
| `desktop_token` | as `desktop` | *violated*: the manager is shown without a token |
| `manager` | 2 sites, 2 names, 2 passwords, 2 documents, 2 operations, 2 edits, depth 2 | fields show one account, passwords are replaced only by what the user wrote |
| `generator` | all masks, lengths 4 to 6 | the password fits the settings, when the generator hangs |
| `browser` | 2 tabs, 2 pages, 4 accounts, 2 connections, 5 budgets of other events | every request ends, the bridge implements `Service`, timeouts, lists and alerts have their causes |

Properties, in short (each is stated in full above its definition):

* `TwoFactorBinding`, `ReplayBounded`, `EmailUniqueUnlessRaced`, `DeviceUnlessRaced`,
  `BoundIsComplete`, `FullTokenOnlyGranted`, `EnrolmentKept` (a refinement, with
  `signedIn` mapped to the pairs of user and token in `granted`).
* `KeyUniqueUnlessRaced`, `AnswerTells`, `UpdateDoneUnlessExcused`, `NoResurrection`
  (an action property).
* `IntactExchangeMatches` and its converse `NoRecoveryOnOpenPort`,
  `HandleFollowsToken`, `StatusConverges` (liveness).
* `KeyFitsJwt`, `StoredReadable` (action property), `NoJwtOutside`,
  `EmptyListHasCause`, `WaitsEnd` (liveness).
* `FieldsAgree`, `PasswordKept` (action property).
* `LabelFits`, `StuckOnlySpecial`.
* `AnswerDelivered`, `TimeoutIsSilence` (action property), `ServiceKept` (a refinement), `FirstStepPending`, `ListShowsVault`,
  `EveryRequestEnds` (liveness) of the bridge; `RetrievedIsLastAsked`, `AlertHasCause` of the
  extension.

Many are of the form "X, unless Y": the code does not give X outright, and Y names
all the causes of an exception. Each Y was checked to be needed, by removing it
and looking at the counterexample.

Why the bounds are enough for the question asked:

* `auth`: every hazard listed is between two handlers. Three uuids allow two
  accounts and a login, or an account and two logins; two of each other set let
  anything be mixed up. Accounts of one address need two registrations at once,
  which two handlers give. With four uuids, one address and one password (about
  a million states) no property failed either.
* `vault`: a race has two actors; "the other site" needs two sites, a rename two
  names. One password is enough, as no handler compares passwords.
* `token_link`: three plug-ins give a swap and a return before the timer looks, three
  logins a spoilt one and one that meets its remains.
* `desktop`: two logins overlap in one thread or in two; one further operation nests
  inside or around them. An account is there from the start, so that one operation is
  enough to change or remove one. Symmetry over users.
  A page turned by one registration and then another task takes two tasks: with one user and two tasks (1.5 million
  states) `NoJwtOutside` and `EmptyListHasCause` hold too, and both are theorems for any number.
* `browser`: two connections wait for each other, cross, and fill the backlog while a handler waits.
  One tick of the clock is more than the 30 seconds of the timeout; two of them
  age a stream twice. `Budgets` says which other events a behaviour has: two
  requests of the popup with two ticks; the content script and the popup with a login in
  the GUI; the content script with two logins in the GUI, one in the wait of the other or after it; the background page and the popup with a tick and a tab event; the background page twice with a
  login and two tab events. All at once would be more than TLC can do, and each hazard needs only one of them.
  The first page has three accounts, two of one name, with a name and a password that need padding; the second has
  an address with an escape and a query and a password with a `%`.
* `manager`: two operations nest; two edits change a name and a password. A load lists
  at most the two documents there are, so "first" and "last" account differ.
* `generator`: the cap is 1 for lengths 4 and 5 and 2 for 6, so a change of length moves
  it; special characters above the cap, null characters and new beginnings all
  occur. The count is stopped one above the cap, as it is only compared with it.

Symmetry is used in safety runs only, over sets whose members are only compared
for equality. `token_link`, `desktop_waits` and `browser`, which check liveness, use none; the
`PROPERTIES` of the runs with symmetry are action properties and the refinement,
which are safety.

## 4. Fairness and deadlock

* `TokenLink`: `WF(Tick)`. The timer is periodic (250 ms), and nothing blocks the GUI
  thread for ever: the longest wait of an exchange is three seconds. `StatusConverges`
  needs no fairness of the user, the token or the logins.
* `Desktop`: weak fairness of the steps of the operation on top of each thread's stack
  (the server answers or the connection breaks, after which `isFinished` is true, and
  message boxes are closed), and of the handling of a queued signal. The code has no
  timeout: without the first assumption a wait never ends, which the hazards note.
  Nothing is assumed of clicks and token events.
* `Browser`: weak fairness of the steps of the bridge's thread as a whole, which runs in a loop of its own:
  `select()` returns when something is ready or after a second, a wait of the
  handler ends because the server answers or the connection breaks. `EveryRequestEnds` assumes nothing of
  the clients, the clock or the GUI.
* All other modules are checked for safety only, and state no fairness.

`CHECK_DEADLOCK FALSE` stands where an instance really stops. In `AuthServer` the uuids are used up; in
`TokenLink`, `Desktop` and `ManagerPage` the counters of the user's actions reach their bounds; in
`PasswordGenerator` the program itself hangs in `stuck`; in `Browser` the program may stop
over a `%` and the budgets are used up. `VaultStore` never stops (a request with
an invalid token can always come) and is checked for deadlock.

## 5. Proofs

`tlapm M.tla` checks the module `M` for each `M` that ends in `Proofs`. No theorem bounds the
number of users, handlers, tokens, requests, tabs or operations. What is assumed of the constants is
named in the modules, and TLC evaluates it in every run:

* `AuthServer`: `Workers` is finite (`ReplayBounded` counts them), no uuid equals a printed serial.
* `TokenLink`, `Desktop`: the bounds are numbers; in `Desktop` the key that is nobody's and "no key"
  are not users, and the vaults hold keys at first.
* `PasswordGenerator`: lengths are numbers from four on (`generatePassword` returns nothing for shorter ones;
  the slider has none).
* `ManagerPage`: there are finitely many user names (a line of text holds 32767 characters), so that the names of a site
  can be put in an order.
* `Codec`: a block has at least one byte. `Bridge`: the bounds are numbers, the user's key is a number other than the
  one for "no key", the accounts stored are texts without null characters (they were read as C strings), and
  the address of a page has no null character, two hexadecimal digits after each `%`, and no `%00`. `Browser`: there is a tab and a page.

Nearly all theorems are invariants `Inv` shown by `Init => IInv`, `IInv /\ [Next]_vars => IInv'`,
`IInv => Inv`; below is `IInv`, and why `Inv` alone is not inductive.

**AuthServer** (`AuthServerProofs`)

* `Typing` (`TypeOK`). Inductive as it stands, with `JobOfStep`: the step of a job tells its type.
* `Binding` (`TwoFactorBinding`). A handler grants access by what it read and compared three calls
  before. `CheckedHolds` says what each handler may rely on: the account it has found is in the
  collection and has the address of its session; once it has compared, password and
  challenge match and the token of the answer is bound to the account. This survives
  the steps of others because nothing they do takes back a fact: `StepMonotone`
  says that users are only added and that a token, once bound, stays bound to the
  same user. `CheckedKept` and `GrantedKept` carry the facts of a handler and of an old access over
  any such step; so only the handler's own steps need an argument.
* `BoundComplete` (`BoundIsComplete`). `Written`: a registration about to create its collection has
  its user stored, one about to bind its token has both. The binding is the last of the three writes.
* `EmailUnique`, `DeviceOwned` (`...UnlessRaced`). `Drawn`: an id is drawn once, and all registrations that
  run together are in `overlap`. `LookedUp`: a registration whose address was free is in `overlap` with each
  user that has taken it since. `Clear`: the same of the token, for those that have bound it since.
* `FullTokens` (`FullTokenOnlyGranted`). `Fresh`: an id that is unused or of a registration still to create its
  collection is in no token and no collection.
* `ReplaysBounded` (`ReplayBounded`). `Counted`: a session that is unused or can still be read has given no
  access, and the accesses a session has given and the handlers that hold it (`Holding`, a subset of `Workers`)
  are together at most `Cardinality(Workers)`. `SessionIds`: ids that are stored or held are not unused, and a
  session that is being answered is no longer stored, so nobody joins once it has given an access.
  Uses the theorems on cardinality of the library.
* `EnrolmentImplemented` (`EnrolmentKept`). The refinement: `StepEnrols` shows that every step of the server
  binds a free token to an id no token is bound to, gives an access along a binding, or does neither,
  under the invariants above.

**VaultStore** (`VaultStoreProofs`)

* `Typing`, and `AnswersTell` from it: what is answered is written in the step that acts.
* `NothingResurrected` (`NoResurrection`), an action property: an update replaces a document by one with
  its id and site, which the types alone show.
* `KeysUnique` (`KeyUniqueUnlessRaced`). `Paired`: additions that run together are in `overlap`. `Looked`: one
  that has looked, and has seen the vault, is excused with each account of its site and name that is there.
* `UpdatesDone` (`UpdateDoneUnlessExcused`). `Kept`: the account an update has found is still there unless another
  handler has marked the update as having lost it.

**TokenLink** (`TokenLinkProofs`)

* `Typing`.
* `HandleFollows` (`HandleFollowsToken`). `Following` says the same of the port also while events are waiting.
* `IntactExchange` (`IntactExchangeMatches`). `Gone`: nothing is on the line without a token. `Undisturbed`: while an
  undisturbed exchange waits, the challenge, or the part of the answer still to come after what is in the
  buffer, is on its way, in order, and nothing else (`OnTheWay`).
* `NoRecovery` (`NoRecoveryOnOpenPort`). `Past`: nothing on the line is of a challenge to come. `Stale`: while a
  spoilt exchange waits, what can be read first is not of it (`Behind`). It is why waiting longer does not help.

**Desktop** (`DesktopProofs`)

* `Typing` (`TypeOK`). Needs `Framed`: a frame in a step of a login belongs to a login, names a user as long as it
  asks for one, and knows its session until the exchange; so the operation that goes on is what its step says.
* `KeyFits` (`KeyFitsJwt`). The key and the JWT are set in different steps of a login, with waits between.
  `Solo`: a login nothing has overlapped is the only frame of both threads, no signal is queued, and
  `Progress` says for each of its steps that the session its JWT names was opened with the password the key
  was, or will be, derived from. `RaceSeen`: any other login that runs has left its mark in
  `raced`. `Old`: ids of sessions are no newer than the last login, so that a new one meets no old session. `Summary`
  groups the steps of the other operations by what they do to the session and the frames.
* `AdditionsReadable` (`StoredReadable`), an action property. `AddFits`: an addition that waits to encrypt has the
  JWT of the user whose key is in memory; one that is under way was encrypted with the key of the user its JWT names.

* `NoneOutside` (`NoJwtOutside`). The property speaks of quiet states only. `Outside` says it of all: a JWT behind a page that
  is not of a session belongs to a login past its first step in some frame of either thread, or to a signal still queued
  (`Outstanding`), unless a registration has turned the page. What a step does to the frames of both stacks (`FramesPushed`
  and its like) shows that the last of these to go takes the JWT with it or shows the manager.
* `IndexedForCause` (`EmptyListHasCause`). `Admitted`: unless operations overlap or a browser's login has failed, the JWT of a
  page of the manager, of a queued signal and of every request of the manager is one of a second step, so that the server lists the
  user's vault. `LoginShown`: a login of the GUI holds its page, so no list is loaded under it.

**ManagerPage** (`ManagerPageProofs`)

* `Typing` (`TypeOK`), with a type for each kind of frame.
* `FieldsShowOne` (`FieldsAgree`) and `PasswordsKept` (`PasswordKept`, an action property), both from `Paged`, which has three parts.
  `Shows` holds however operations nest: the old user name is the one the combo box shows. `Documents`: ids are not given
  again. `OnePage` holds until operations are nested (`~mixed`), when at most one waits: `Accurate` says of the fields
  what `FieldsAgree` says of them at rest, also under a box or a save; `Fresh` that the cache holds what is stored, where a
  name is stored once, unless an answer was lost (`doubtful`); a save that waits and was not meant to change the
  password carries the one that is stored (`StoredAs`); and a load waits with an empty combo box, with the rows of the vault
  once it is served. The save is posted with values the user saw long before, so the argument has to go
  through all of `Fresh`, the load that filled the cache, and the steps in between.

**Codec** (in `BridgeProofs`): `Base64RoundTrip` and `EncryptRoundTrip`, for every text of bytes and every block size. A text
is decoded character by character, so neither needs induction: `NeighboursHoldByte` is the arithmetic of one
byte, `LengthsAgree` that of the groups, `LengthBeforeIs` finds the first `=` or null character. `CipherTextsDiffer` follows: the server, which compares cipher texts,
compares sites and names.

Lists and addresses do need induction: `Quoted` and `UrlDecode` are recursive functions on positions. The induction theorems of
the library take an operator; `Induction` states it for a set of numbers instead, and follows from the library's well-founded order on finite
sets. With it each recursive function is shown to exist and to be unique, and then to have what the definition says.

* `QuotedIsParsed`: a list of texts without quotes, of any length, is read as it was written. `Splits` says where the quotes of a written
  list stand; the parser counts them with `InOrder`, which `InOrderIs` and `InOrderEnumerates` show to list a finite set upwards.
* `AccountsRead`: what is read of the answer of `view-accounts` are the accounts stored for the site, of one name the last, for every
  vault, page, key and block size. Rests on `QuotedIsParsed` (base64 holds no quote, `EncryptedIsPlain`), `EncryptRoundTrip`,
  `CipherTextsDiffer` and `SiteIsTyped`: what `UrlDecode` and `StripURL` make of an address is a text without null characters.

**Bridge** (`BridgeProofs`), for any clients

* `BridgeDelivers` (`AnswerDelivered`). `Delivery`: what has an answer is being sent, and a stream that the poll will
  look at and has not found ready has none; so the timeout never meets an answer.
* `BridgeFirstStep` (`FirstStepPending`). Inductive with the types of the session, however the logins of the GUI nest.
* `BridgeLists` (`ListShowsVault`). `ListIsWhole`: what was written as a list is of a page whose accounts have no character that spoils it;
  with that, `AccountsRead` says what it reads as, and `QuotedIsParsed` that `JSON.parse` reads the same.
* `BridgeSilence` (`TimeoutIsSilence`), an action property. `Silence`: a stream that waits for its client is excused if it is
  old by the time of this poll, or the clock has gone on since, or it is to be closed later in this poll.
* `BridgeTyping` (`BridgeTypeOK`). `AskedWhenOpen`, `LooksUpPages`, `PagesGetLists`: a lookup is made only for a request with a page, so that
  the list names a page, and such a request is answered with nothing else. Rests on `BridgeInvariant`: the handler runs for the
  stream at the head.
* `BridgeServes` (`ServiceKept`), the refinement. A connection is mapped to idle, open or ended (`Standing`), and what its client
  is given to the answer of a stream that was sent to its end (`Given`). `StepServes` shows that each step of the poll loop, of a
  handler and of a client is a step of `Service` or none. It rests on all of the above: nothing is written twice since a
  stream in front of the handler has no answer (`Delivery`), the answer fits since the wait is that of the request in hand
  (`HandlerFits`, `LooksUpPages`), and `HandledIsSent` says that a handler has run only for what was sent.
* `BridgeInvariant` collects these with `Logins`, what may become of a login, for `BrowserProofs`.

**Browser** (`BrowserProofs`)

* `ExtensionIsClient`: `Spec => BridgeSpec`. Every step of the extension with the bridge is one of `BridgeSpec` or leaves
  the bridge as it is, so that `ExtensionServed` (with `ServiceKept`) and `BridgeInvariant` come from `BridgeProofs`.
* `Typing` (`TypeOK`). That what is posted to a page is a list comes from `PagesGetLists` and from `Written`, that a stream which ends as
  answered had an answer (`BodyIsList`); a menu is made of lists alone, so a name chosen in it is of one of the pages.
* `AlertsHaveCause` (`AlertHasCause`). `Told`: a request whose script was told all is over, and stays as it is.
* `HoldsLastAnswer` (`RetrievedIsLastAsked`). `LastAsked`: unless requests were in the air together, every other request
  of the background page has been answered, so only the last one may still change what it holds.

**PasswordGenerator** (`PasswordGeneratorProofs`)

* `Typing`.
* `Fitting` (`LabelFits`). What is shown was a draft first: `DraftFits` says that the
  classes of the draft are those that have come up and all chosen, that it is no longer
  than the turns taken, and exactly as long without special characters, and that its
  special characters are those counted, up to the cap. The cap is at least one
  (`CapPositive`), so that a class that has come up is really in the password, and a special character that is
  left out was preceded by one that was taken.
* `Hanging` (`StuckOnlySpecial`), from the same invariant.

Only model-checked: liveness (`StatusConverges`, `WaitsEnd`, `EveryRequestEnds`), as the prover handles neither fairness nor `ENABLED`.

## 6. What the checks found

Runs that TLC finds violated, each against words of the program:

* `UpdateStaysOnSite`: `update_one` filters by the user name alone (`controll_data.py:127`).
* `DeleteConfirmed`: an expired token is answered 200 (`controll_data.py:104`).
* `TimelyTokenIsHeard`: a read returns with the first piece of an answer (`usb_communicator.cpp:33`),
  and what is left spoils every login until the port is closed (`NoRecoveryOnOpenPort`).
* `ManagerNeedsToken`: a token pulled during the second step (`twokey.cpp:150`).

Behaviours that the "unless" parts describe:

* Registrations at the same time share an address (`register.py:38`), or are both told to own a token.
* A session can be used by as many handlers as had read it before it is removed (`login.py:99`).
* Additions at the same time, an expiry between two checks, and renaming store an account twice.
* A login in the bridge's thread or in a nested wait leaves the JWT of one user with the key of
  another; what is added then cannot be read by its owner.
* A refused login from the browser clears the JWT of the session the GUI shows.
* After a save or an addition, the password of the last account of a site stands under the name
  of the first; the next save writes it there. (`loadAccountsForWebsite` sets the field to each
  password in turn because its `i` is not counted up; only some callers set it again.)
* Nested loads fill the combo box with names of one site under another.
* When the answer to a change is lost, saving again may write the old password back.
* A registration that is answered when the browser has logged in meanwhile turns the page of that
  session to the login page (`twokey.cpp:184`): the JWT stays in memory behind it.
* Streams are served from the newest on, so answers to two tabs may come in the reverse order, and the background page
  then holds those of the page before (`background.js:34`).
* A stream accepted after a handler has waited is aged by the clock of before, and may be timed out though it was
  not silent (`sandbird.c:388`); a login closed so is shown as a wrong password.
* A `%` in a name or password of the list is taken for a directive when the answer is written
  and may stop the program; a quote or backslash in one makes the list unreadable for `JSON.parse`.
* Special characters alone make the generator hang when the null character is drawn without its
  coin; the null character also makes passwords shorter than asked.

## 7. Abstractions

* A challenge is its session's id; an answer is the pair of token and challenge. AES and the key
  derivation are taken to be injective, and uuids never repeat and never equal a printed serial.
* What a token answers to a garbled challenge is no one's answer.
* Concurrent use of a `QString` in two threads is undefined in C++. `Desktop` takes each read and
  write as a step; torn values are left out.
* `Desktop` takes a request to the server as one step (what happens inside is in `AuthServer` and
  `VaultStore`), `ManagerPage` as two, because several may be under way.
* One udev event stands for each plug-in and each removal; the serial device is there before its event.
  The Windows path calls the same scan.
* A user types the right password or one that is nobody's. Empty fields end an operation at its start,
  and only where that matters are they written.
* The order in which a `QHash` lists accounts is arbitrary; of accounts of one name it keeps the last.
* A request whose answer is lost has been handled before, or never is.
* `0.2 * length` in doubles, rounded up, is `(length + 4) \div 5` for all lengths from 4 to 128.
* In `ManagerPage` the session is valid or expired throughout; logins are in `Desktop`. Which page is in
  front and which buttons are enabled only decides which clicks can come, and the model allows them all.

* AES is a stand-in: a function of each byte that only the same key undoes. The theorems and runs use no other fact of it.
  PBKDF2 and the hex conversions have no operator; keys are values.
* `Bridge` leaves out what `sandbird.c` has and the program never calls (files, cookies, multipart and request
  bodies, closing the server), failures of `malloc`, and more streams than `FD_SETSIZE`. A page's address stands for the
  whole query; further variables in it are left out.
* In `Browser` the content script asks with "new" as the page is typed into, which adds nothing to the store; a
  content script that is loaded twice, or that throws, is left out. A name chosen in the context menu is
  sent with an empty password, as in the code, so no password is part of that message.
* In `Codec` a list is written as its quoted strings; the brackets, braces and commas between them, which hold no
  quote, are left out.
* In `Bridge` the first step of a login stores the JWT and the key at once, between which `Desktop` lets others run. A lookup can
  tell no difference: it lists accounts only with the JWT of a second step, so while the JWT is new and the key old it finds nothing, as it does
  with both new, and a list that reads the old key then reads what it would have read before the login.
* What follows the 999th character of an address, far behind its site, is cut by the program and left out.
* In `Desktop` a request reads the key once, though the fields of an account are encrypted one by one.
* The dialog for a generated password does not block the window: accepting it is `Write` in `ManagerPage`, on whatever
  page is open by then.

Not modelled: the hand-run scripts (`client.py`, `py_aes.py`), the unused key exchange, jQuery, window decoration, the tray
icon, and the wording of the strength label, none of which keeps state that the others depend on.

## 8. Plan

Done, in the order of importance: the account server and its abstract `Enrolment`; the vault; the token link; the session;
the manager page; the generator; the encodings; the bridge with any clients and its abstract `Service`; the extension as one of them; the
proofs of section 5.

An attempt to prove `NoJwtOutside` has corrected the model: `turned`, the history of a session whose page a registration has
turned, was set anew by each registration that is answered, so that a second one forgot the first, and with two tasks the property
failed. It is now kept until something else decides the page or the session (a login, its signal, a logout, the token).

The proof of `ListShowsVault` has corrected `StoredFor`: of accounts of one name only the last comes into the `QHash`, which the instance did not
show before it had two of one name. That of `FirstStepPending` was of a session in which only one login of the GUI could be past its first step;
they nest, and now do in `Bridge` as in `Desktop`.

Left:

1. A composition of `Desktop` with `TokenLink`, whose exchange is a single step so far, with `Enrolment` for the
   server: the login as the user sees it.
2. An abstract vault (accounts come, change and go, each with its owner) that `VaultStore` implements but for the causes named.
