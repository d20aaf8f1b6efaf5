# gooser in TLA+

gooser is a gRPC service that keeps users, groups and the roles that groups
give to their members in MongoDB. This directory holds TLA+ specifications of
it, the configurations TLC checks them with, and proofs checked by TLAPS.

Everything below is read off the Go code; paths are relative to `src/`.

## The system

| component | state | operations | talks to |
| --- | --- | --- | --- |
| `internal/server/users.go` | none of its own; each request holds a copy of the caller and of one document | CreateUser, UpdateUser, DeleteUser, ChangePassword, ConfirmMail, ForgotPassword, ResetPassword, ListUsers, GetUser | store, mailer, utils |
| `internal/server/groups.go` | the same, with copies of a group and of members | CreateGroup, UpdateGroup, DeleteGroup, ListGroups, GetGroup, AddRolesToMembers, RemoveRolesFromMembers | store, utils |
| `internal/server/server.go` | the gRPC server, the hashed secret | NewServer, Serve, Stop, InitCollections, who the caller is | store, auth |
| `internal/store` users, groups | the two collections | get, count, save (upsert of one document), delete, list | MongoDB |
| `internal/store` store.go | the documents `User` and `Group` | tokens, password check, conversion from and to protobuf | utils |
| `internal/store` db.go, pagetoken.go | page tokens, which clients keep | filters, page filters, page tokens, sort orders (nothing passes one), connection | MongoDB |
| `internal/mailer` | none | mails with a confirmation or a reset link, over SMTP or to the log | SMTP server |
| `internal/auth` | none | user id of an access token | OAuth server |
| `internal/utils` | none | encryption, slice helpers, environment | |
| `cmd/gooser-server` | channels, goroutines | start, wait for a signal or an error, stop | all |
| `api`, `internal/translations`, `internal/mocks`, `internal/tools`, `internal/scripts` | | generated code, catalogues, test doubles, build scripts | |

What is hard about it:

- *Interleaving.* Every request runs on its own goroutine. No lock and no
  transaction spans two accesses to MongoDB. A handler reads a whole document,
  works on its copy, makes further calls, and saves the whole copy.
- *Two representations.* UpdateUser takes a document through its protobuf form
  and back, which loses the password and both tokens; `$set` with `omitempty`
  keeps the password (and empty roles) but not the tokens. The id is a field of the
  message too, and a mask may replace it.
- *Tokens* live in three places: in the document, in mails, and, as what they
  encrypt, in themselves. They are tied to a secret that may change at a restart.
- *Partial failure.* A role change is a series of single saves over two
  collections. It may stop after any of them.
- *Restart.* Initialisation is a series of accesses too, repeated at each start, on
  what requests have left.
- *Shutdown* races signals, an error of the listener, requests and a timer.
- *Pages.* A listing is a series of queries; each is made from the last document
  of the one before, while documents come, change and go. It goes on behind that
  document in the order of ids, and does not ask for this order.
- *SMTP.* The server may refuse any command, and an answer may be lost after the
  command took effect.

What makes each part correct: an address counts as confirmed only if it was
proven; a token works for one account, one address, one secret, once; a save
touches what its request is about; user names, addresses and group names are
unique; a role is held only if it was granted and is kept while a group provides
it; a start ends with a usable administrator; a stop ends, and drains first; a
listing that is delivered by id shows what stays, once; a mail goes to all of its
recipients or none, and success is reported only if it did.

## Modules

| module | of | contents |
| --- | --- | --- |
| `Store` | `internal/store/store.go`, `users.go` | documents, hashes, conversions, saves, lookups; pure operators |
| `Accounts` | `internal/server/users.go`, the users of `InitCollections` | the user handlers as interleaving steps, and what a start does to users; extends `Store` |
| `Directory` | | abstract: names, addresses and standing of accounts, each changed as a whole; `Accounts` without overlap implements it |
| `Groups` | `internal/server/groups.go`, `internal/store/groups.go` | the group handlers over both collections |
| `Membership` | | abstract: roles granted, given and taken, groups founded and altered; `Groups` without overlap implements it |
| `Bootstrap` | `InitCollections` | starts, crashes, several processes |
| `Lifecycle` | `main.go`, `Serve`, `Stop` | goroutines, signals, timer, requests in flight |
| `Pages` | `internal/store/db.go`, `pagetoken.go`, `ListUsers` | a listing through its pages while documents change |
| `Slices` | `internal/utils/utils.go`, its use in `groups.go`, the roles of `InitCollections` | the slice helpers on lists of roles |
| `RoleSets` | | abstract: the same on sets; `Slices` implements it |
| `Mail` | `internal/mailer/client.go`, `loginauth.go` | Send as a dialogue with an SMTP server |
| `Delivery` | | abstract: a mail is delivered at one moment, or not; `Mail` implements it |
| `AccountsProofs`, `GroupsProofs`, `BootstrapProofs`, `LifecycleProofs`, `PagesProofs`, `SlicesProofs`, `MailProofs` | | theorems about the module of that name |
| `AccountsAloneProofs` | | theorems about `Accounts` when requests do not overlap |
| `MCAccounts`, `MCGroups`, `MCBootstrap`, `MCLifecycle`, `MCPages`, `MCSlices`, `MCMail` | | instances for TLC |

Operators whose comment begins with "Mutant:" stand beside the definition they
are a faulty variant of. No specification uses them. They show that a property
can fail: with the variant in place of the definition TLC reports it.

### Accounts

`users` is the collection, a function from the ids in use to documents. `req[r]`
is a goroutine: `pc` says where the handler is, the other fields are its local
variables. A step makes one access to the database and does the local work up to
the next one: `UpdateUser` (identify the caller, check rights), `UpdateRead`
(`GetUser` and the merge), `UpdateChecked` (the count of `ValidateUser`, the
token and its mail), `UpdateSaved` (`SaveUser`). Steps of different goroutines
interleave freely. `Abort` is any error return, `Crash` the end of the process,
`Restart` its next start, with a new secret unless `FixedSecret`. `InitAdmin` is
what comes before that: `InitCollections` makes the administrator, or gives the role
to whoever has its name by then; the process serves when there is such a user.

`minted` records what each token was generated from. The address in a
confirmation token and the key are in the code's token; the owner and address of
a reset token are history. `inbox` holds the mails that arrived. A client can present
only tokens from there. `vouched` is history: addresses an administrator saved as
confirmed, for a user or for the one it is a copy of.

Modelling choices:

- A mail is sent in the step next to it. It may be lost.
- Passwords have the required length; languages, timestamps and the form of an
  address are left out. The empty string is `Empty`.
- A hash is the text it was made from. `Hash(Digest)` is what ChangePassword
  stores: the hash of a stored hash, a text nobody enters.
- `Edits` are the UpdateUser requests clients send. Masks with roles or password
  are refused at once. A mask may name the id. With an id that is given it changes
  nothing, since the id chosen was the one read. With an empty id `UpdateSaved` inserts
  a new user: without a password, which the protobuf form does not have, and with the
  roles of the old one, confirmed if that is and the address was not moved. A stored
  user need not have a password for this reason; it can get one through
  ForgotPassword, or that of an empty text when an administrator calls ChangePassword.
- The group handlers save users too: `RolesRead` and `RolesSaved` are
  AddRolesToMembers and RemoveRolesFromMembers reduced to that, a read of a user
  and later a save of all of it with other roles, one of `RoleChanges`.
- ForgotPassword may be given a user name, an address or both. Both errors are
  dropped, and one user results.

`Directory` is what the collection promises to somebody who looks at names and
addresses only: `Register`, `Edit`, `Copy` (a user made by an UpdateUser), `Confirm`,
`Appoint`, `Promote`, `Install` (a start) and `Reach`, each one step, none with a request,
a token or a copy of a document. `Entries` reads it off `users`,
`Reached` off `inbox` (an address at which a link to confirm it arrived), and
`vouched` is itself. Nine handlers of one to three accesses each, with panics,
crashes and restarts anywhere, come down to these eight: a save is one of the first
seven, a mail that arrives is `Reach`, everything else a stutter. What the mapping has
to show is that the whole copy a handler saves differs from what is stored in what
its step may change and in nothing else. With two requests it does not, and TLC
says so.

### Groups

Of a user only its roles are kept, `users[u]`; slices of roles and members are
sets, since the handlers remove duplicates before use. What UpdateGroup will do to
members is fixed when it reads the group, and the model keeps it as a list of
jobs, each a call of AddRolesToMembers or RemoveRolesFromMembers. A job is worked
off in the steps `AddListed`, `AddSaved`, `RemoveCounted` (one role of one
member), `RemoveRead`, `RemoveSaved`. `ProfileRead` and `ProfileSaved` are the
handlers of `Accounts` reduced to what they do to roles: they save all of a
document they read earlier, an UpdateUser with an empty id in its mask as a new user.
`granted` counts its roles as asked for; the code has no other ground for them.

`ListUsers` of MGO never returns a list (below), so AddRolesToMembers never gets to
its saves. `repaired` is drawn at the start and says how much of it is taken to be
mended: `{}` is the program as it is (`ListPanics`, `Fail`); with `"list"` the
listing returns (`AddListed`), as the handlers were written and tested for
(`internal/server/groups_test.go:332`), and decodes all documents into one variable,
as it is written: a document without the field, which is a user without roles, is
listed with the roles of one before it; with `"decode"` as well each has its own.
`Decoded` is the roles a user can be listed with. What leaks is saved, so with
`"list"` alone (`Leaky`) a role may come to a user it was not granted to, and a
user that looks as if it had a role is passed over. `RolesOnlyGranted`,
`GainedRolesArrive` and `Membership` say what is left then: no role is made up, and
nothing is lost that is provided. Their full form is for the program as it is and
for a listing mended altogether; the mutant `DecodedIntoOne` is the leak there.
DeleteUser has no action: it panics before it changes anything.

`Membership` is the same without requests, jobs and copies, in six actions: `Join` (a
user registers, or is made out of another), `Grant` (a group was checked), `Found` and
`Alter` (it was saved), `Give` and `Take` (a user was). It says when each may happen:
a group is founded with members that exist and have its roles, a role is given as it
was granted, and taken for the sake of one group only from users to whom no other
provides it, down to the last role, which stays. It does not say that they happen: an
UpdateGroup that fails half-way has given some roles and taken none, and `Membership`
allows that as the code does. The mapping is the identity but for `held <- users` and
`own <- ~Leaky`.

### Bootstrap

Each access of InitCollections is a step of a process `p`. `Fail` is an error
that ends `main`, `Crash` an end for any other reason. `FixUser` has the branch
in which the save fails, its error is overwritten, and the user is nil.
`UserChanges` and `GroupChanges` are what requests leave behind until the next
start: new users and groups, another name, other roles, other members, but never an
empty list again, which cannot be saved. The roles of a group are a list, since a
start appends `admins` each time it does not find `admin`; those of a user stay a set.

### Lifecycle

The main goroutine from `signal.Notify` to its end, the goroutine that serves,
the one that calls GracefulStop, and the timer of Stop. That a signal is offered
to the unbuffered channel without blocking, that GracefulStop first refuses new
requests and then waits for the running ones, and that grpc's Stop does not wait
for handlers, are facts about libraries.

### Pages

One client lists users: `Begin`, then `Continue` with the token of each answer,
under the same filter or another. Serving a call is `Query` (the checks of the
token, the count), `Find` (the query and the loop of ListUsers) and `NothingNext` or
`SomethingNext` (NextPageToken, which looks for a document after the last one);
`Write` is a save or a removal by someone else between any of these. A save may make
a document match a filter, or no longer match it, since filters are the sets of
values they match; parsing them is left out.

No request carries an order and the handlers pass an empty one
(`internal/server/users.go:34`, `groups.go:107`), so the code for orders is left out,
and what remains is `Beyond`: the page filter asks for greater ids. The sort option
is empty then. `sorted` is drawn at the start and says whether the database delivers
in the order of ids all the same, as the comment at `db.go:306` expects. Where it does
not, a page is any part of what was selected, in any order, and documents are skipped
and shown twice: `NothingSkipped` and `NothingTwice` are about `sorted` only,
`ListedMatch` and `PagesEnd` are not.

As the program is, no listing gets to a second page: six mistakes each prevent
it. `repaired` is drawn at the start from all sets of them. With `{}` the module is
the program; the other values let TLC reach the code behind the mistakes, so that
the properties say something about the page filter and the tokens.

| in `repaired` | what is taken as mended | as it is |
| --- | --- | --- |
| `"list"` | the append through a nil pointer, `users.go:40` | the process ends (`FindPanics`) |
| `"total"` | the named result `totalSize`, which is compared and never set, `users.go:22-44` | no token |
| `"filter"` | the nested `bson.E` values of the page filter, which are encoded as documents with the fields key and value, `db.go:201-210` | nothing is found behind a page, no token |
| `"id"` | the operator `$oid`, which there is not, and a string compared to an object id, `db.go:204` | the query fails (`Fail`) |
| `"token"` | the nil pointer a token is decoded into, `pagetoken.go:26` | the token is refused (`Fail`) |
| `"json"` | the page filter in the token, which `encoding/json` does not restore as it was, `pagetoken.go:46-57` | the next page is empty |

`"id"` mended is a conversion of the string as in the other functions of the store,
which refuse one that is no object id; that of a user that was never decoded
(`ZeroId`, after an empty page) is none. What the database makes of a filter that
JSON has changed is external; it is taken to match nothing.

`walk` is the client, with what it was shown as history. `upset` names the two
things that end a listing early without an error: a document came to match between
the count and the query of a call, which makes the count too small, or the token
could not be encrypted (`db.go:361-365`). `NothingSkipped` does not ask that such a
listing be complete, only that it had no gap until then.

### Slices and RoleSets

`Groups` speaks of roles as sets, the code has lists. `Slices` has the helpers on
lists (`AppendUniqueString`, `UniqueStringSlice`, `RemoveFromStringSlice` with its
move of the last element, `StringSlicesDiff`) as the handlers use them, on
requests in any order and with duplicates, and `SetList`, the save that omits an empty
list: the last role of a member or of a group stays. `Start` is what InitCollections
appends to both, the one writer that may store a string twice. The worst case of it is
taken, a group of administrators whose member is the administrator. That `Slices`
implements `RoleSets` under `ToSet`, also where the group has a string twice, is what
entitles `Groups` to its sets; TLC checks it on short lists, and it is proved for all.

### Mail and Delivery

Send is the sequence of calls it makes on the SMTP client of the Go library
(`CallAfter`), each a command and an answer on `wire`. `Accept`, `Reject` and
`Prompt` are the server: it acts on a command or not, asks what it likes during
LOGIN, and at any of these the connection may break, also after it acted. That Send
ends is not claimed: it sets no deadline, so it waits for a silent server for good,
and a server that asks again and again is answered again and again. `left`
counts connections that Send leaves open. `Delivery` has four actions: `Start`,
`Refuse`, `Deliver`, `Return`. Under the mapping `sending <- send.step # "idle"`,
`got <- peer.accepted`, `result <- send.result` the answer to the end of the data
is `Deliver` and everything before is a stutter. An error says nothing about
whether the mail was taken, in the code as in `Delivery`; that is what lets
`Accounts` have a mail arrive or be lost without the handler knowing.

## Runs

| run | question | result |
| --- | --- | --- |
| `accounts_concurrent` | two overlapping requests: is a confirmed address proven, does a token fit the stored address, does UpdateUser leave the password? | holds |
| `accounts_sequential` | requests one after another, role changes and a restart under a new secret, with another administrator or a new one: unique accounts, tokens used once, no token of another secret; is it a `Directory`? | holds |
| `accounts_change_password` | does ChangePassword set the new password? | violated |
| `groups_concurrent` | two overlapping requests: are all roles granted, do members of a created group exist? | holds |
| `groups_sequential` | requests one after another: do roles arrive, stay while provided, are names unique? Is it a `Membership`? | holds |
| `groups_delete` | does DeleteGroup delete the group? | violated |
| `bootstrap` | starts cut short anywhere: one administrator, in its group, with its role; no start hangs | holds |
| `lifecycle` | does Stop end, does it drain first, does an error of Serve end the program? | holds |
| `lifecycle_signal` | does a signal end the program? | violated |
| `pages` | a listing while documents change: is anything skipped, shown twice or shown unasked, does it end? | holds |
| `slices` | do the helpers on lists, the saves and the starts implement the operations on sets, and who stores a string twice? | holds |
| `mail` | a mail to three recipients, three times: all or none, nil only if taken, no password in clear, no connection left but by an error; is it a `Delivery`? | holds |

Bounds. Two ids, two user names, two addresses and two tokens are enough for one
account to take an address another one has or had, for a token to outlive a change of
address, and for a request to hold a copy older than the other's save. Two requests
suffice for every stale copy of one handler against another; the proofs below cover
any number. `MaxTokens` bounds the length of `minted`, `MaxRestarts` and `MaxStarts`
the starts, `MaxLen` the roles in a request and in a group that a start appends to,
`MaxChanges` the writes of others during listings, `MaxSignals` the signals; `Ids` and
`GroupIds` bound how often something is created. In `groups_sequential` the requests
include a group named as one there is, a name too short, members that do not exist,
changes of roles, of members, of both, and to nothing, under each value of `repaired`.
`groups_concurrent` has fewer kinds of request, and the same handlers. `bootstrap`
starts a process three times, enough for a half-made state, its repair, and a change
by an administrator in between. `accounts_concurrent` leaves out role changes
(`RoleChanges = {}`), which with two tokens are too many states for a run of minutes;
`accounts_sequential` has them, the theorems cover them for any number of requests,
and an instance with two requests, role changes and one token was checked too.

The UpdateUser requests of the accounts runs move an address, make a second account
out of one, and, without overlap, move an address back and confirm it, ask for no
name, and have an administrator rename and confirm another user.

`pages` has three ids, two values to filter by, a filter that matches all and one that
matches one value, and page sizes -1 and 0 (no limit), 1 and 2, so that there are a
second and a third page, and a last one that is full or not; two writes by others at
any place, so that a count is too small, a document ceases to match, and the one the
next page begins after is gone. `slices` has three roles and requests of
up to four, so that every position of a duplicate and of a removed string occurs.
`mail` sends three times, so that one Send follows a failed and a successful one,
to one recipient of each kind; `MaxPrompts` bounds the questions of a server, which
in the code are unbounded.

Symmetry is used where no property is temporal under fairness: over requests and
ids of users in `Accounts`, where edits name no id or each; over requests and ids of
groups in `Groups`.

Deadlock. `accounts_concurrent` is checked for it: a request can always return. In
`accounts_sequential` a start may stop for good, at the bound on ids when a new
administrator is wanted. In
`Groups`, `Bootstrap`, `Lifecycle` and `Pages` the process really may have ended for
good, and in `Mail` the sends are bounded.

Fairness. `Bootstrap` assumes of a running goroutine that it runs and of calls
to the database that they return (with a result or an error); nothing is assumed
about being started again. `Lifecycle` assumes that the main goroutine is
scheduled and that its timer fires. It does not assume that a handler returns or
that GracefulStop does, since mail is sent over a connection without a deadline.
`Pages` assumes that a call is served and that the client goes on while it is given
tokens. `Mail` assumes nothing, and no liveness is claimed of it: the code sets no
deadline and no limit to the questions of a server.

## Proofs

The theorems hold for every set of users, groups, names, addresses, roles,
documents, recipients and goroutines and every value of the bounds. Of the
constants they assume only the named assumptions of the modules
(`StoreAssumption`, `AccountsAssumption`, `GroupsAssumption`,
`BootstrapAssumption`, `PagesAssumption`, `SlicesAssumption`, `MailAssumption`,
`LifecycleAssumption`):
that "no value" is not a value, that ids of users and of groups differ, that the
role and the group of administrators are a role and a group name, and the name of the
administrator a user name, that the requests clients send are requests, that ids are
finitely many (an ObjectID has twelve bytes) and ordered as numbers, that a mail has a
recipient. Three groups of theorems have a further
hypothesis in their statement: `OneProcess` (one process starts, ends and starts
again) and `OneRequest` (one goroutine serves, request after request). Each is
needed: with two, TLC finds the property violated.

Every inductive invariant was checked by TLC on the instance of a run before it was
proved. In each module there is one lemma for an action or a few alike, and one that
puts them together.

### One user document, many copies: `AccountsProofs`

| theorem | says |
| --- | --- |
| `Invariance` | `IInv /\ DownSound` always holds |
| `TypeCorrect` | `TypeOK`: no save leaves a user without a name |
| `ConfirmedOnlyWhenProven` | `ConfirmedMailIsProven` |
| `ConfirmTokensMatch` | `ConfirmTokenNamesStoredMail` |
| `ResetTokensMatch` | `ResetTokenFollowsMail` |
| `UpdatesKeepPasswords` | `UpdateKeepsPassword` |
| `TokensOfThisSecret` | `TokensDieWithSecret` |

A handler saves what it read some steps before, so what is stored
after a save depends on a copy, and the copy on what was stored at the read.
`IInv` therefore says the same of both: `StoredSound`, the three facts `Sound` of
every stored document, and `LocalSound`, what each request holds at each `pc`. A
copy may be older than the document, but its facts speak about `minted`, `inbox`
and `vouched`, which only grow (`Grows`), and so do not become false while others
run. `InboxSound` ties a mail to the address in its token: it is why a client
who presents one has proven that address. What UpdateUser holds is the exception:
its copy went through protobuf, and what is known is that it has no password and
no token; the user it makes when the id is masked and empty has the address of the
one it read, which was confirmed for that or is unconfirmed now, and `vouched` carries
over. `DownSound` says that no request outlives the process, without which a
restart could change the secret under a request that has checked its token.
`SaveUserWrites` is what the lemmas need of a save.

### The same without overlap: `AccountsAloneProofs`

| theorem | says |
| --- | --- |
| `AccountsStayUnique` | `OneRequest /\ Spec => []UniqueAccounts` |
| `TokensWorkOnce` | `OneRequest /\ Spec => TokensSingleUse` |
| `AccountsAreADirectory` | `OneRequest /\ Spec => ImplementsDirectory` |

`Current` is what `IInv` cannot say with overlap: what a handler checked still holds
(`~Taken` between ValidateUser and the save), and the copy it holds is of the
account as stored, with its name, its address, and no token that is not stored or
just made. So a save brings no token back. That a token is gone when it is redeemed
needs that it was not with a second user: a reset token names its owner, a
confirmation token names an address, and no two users have one.

`AccountsAreADirectory` needs more of what a handler knows: `Directed` says, for each
`pc` at which a save is next, how the entry in the handler's copy stands to the
stored one. UpdateUser's has the address of the stored one or is unconfirmed, or
belongs to a caller who is an administrator, and that there is one is still so;
ConfirmMail's is the stored one, whose address has been reached; ForgotPassword's
and ResetPassword's have the stored entry. `DirectedStep` keeps this through the
steps, `SavePuts` turns a save into `Put`, and there is one lemma for each save
(`CreateSavedDirects`, `UpdateSavedDirects`, `CopySavedDirects`), one for the mails
(`SendReaches`) and one for a start; `DirectoryStep` puts them together.

### Roles: `GroupsProofs`

| theorem | says |
| --- | --- |
| `Invariance` | `IInv` always holds |
| `TypeCorrect` | `TypeOK`: a stored group keeps a name |
| `RolesGranted` | `RolesOnlyGranted`, its weaker form where members are listed with the roles of others |
| `MembersExist` | `CreatedMembersExist` |
| `NamesStayUnique` | `OneRequest /\ Spec => []UniqueNames` |
| `NoRoleLost` | `OneRequest /\ Spec => NoRoleLostWhileProvided` |
| `GainsArrive` | `OneRequest /\ Spec => GainedRolesArrive` |
| `GroupsKeepMembership` | `OneRequest /\ Spec => ImplementsMembership` |

With overlap: a role reaches a document from a copy of a user that a handler holds
(`copies`, `copy`) or from a call of AddRolesToMembers it still has before it
(`jobs`). `Within` says that none of these hands out a role that was not granted, to
the user or, when the listing leaks, to anybody (`Asked`): `ListedAsked` is the fact
about the listing, in both cases. For UpdateGroup, whose jobs are fixed before the
group is checked, they hand out what the group entitles its members to, which the
check then grants (`UpdateJobsWithin`, `UpdateCheckedStep`). `Creating` follows
CreateGroup: its one job is what stands between it and its save, and no user goes away
meanwhile, since DeleteGroup looks for the id of a group among the users.

Without overlap: `NameFree` is the count of ValidateGroup, still true at the save.
`Fresh` says that a copy has what is stored, and that no other group provides what
is to be dropped: groups change only by the save of a request, which comes when
nothing was dropped yet. `Kept` is the argument for the roles members gain, where they are
listed with their own: each
is with the member, in a copy about to be saved, or in a job not begun, and no job
of the request takes it away. That it is so at the start is a fact about
UpdateGroup alone, `UpdateJobsKeep`: the calls it makes for changed roles and those
for changed members, made one after the other whatever the mask, cover the
difference between the old and the new group and remove nothing of it. CreateUser
may run at any time in between, and the process may end anywhere.

`GroupsKeepMembership` uses all of these, and `Seated`: until its group is saved
there is an administrator (CreateGroup only gives roles before), the group that is
changed exists, and what CreateGroup owes is what the group entitles its members to.
There is one lemma for each action of `Membership` (`JoinsIn`, `Grants`, `Founds`,
`Alters`, `Gives`, `Takes`), `Doubles` for the `Join` of a user made out of another, and
`LeavesAll` for the two saves that change nothing: a profile saved as it was, and a
group looked for among the users.

### Starts: `BootstrapProofs`

| theorem | says |
| --- | --- |
| `TypeCorrect` | `TypeOK`, for any number of processes |
| `NoSecond` | `OneProcess /\ Spec => []OneOfEach` |
| `AdminBeforeService` | `OneProcess /\ Spec => ServesWithAdmin` |

`Fresh` carries each lookup to the save it is for: no user of the name when one is
made, the user as stored when it is given its role, the group as stored when it is
completed. Other processes would break it; crashes do not, since they forget
what was looked up, and neither do the requests of earlier processes, which had
ended before.

### Listings: `PagesProofs`

| theorem | says |
| --- | --- |
| `NeverTwice` | `NothingTwice` |
| `NeverSkipped` | `NothingSkipped` |
| `PagesMatch` | `ListedMatch` |

The three share an invariant over the whole walk of a client, `IInv`, for any set of
mended mistakes. The calls of a walk have one filter, also where it comes out of the
token (`SameRequest`); until there is a token no document was shown
(`FromTheStart`). `Position` is the last document shown. `Forward` is for documents
that are delivered by id: nothing that was shown is behind `Position`, so what the page
filter selects was not shown yet; and of the documents that matched throughout, those
not shown are behind all that were, so there is no gap. A page is a beginning of what
was selected, and the last document decoded is its greatest, which is all that is
used of the database. `Remaining`: until a document comes to match after it, the count
is as large as what matches, so that a token is withheld only when the page was not
full or nothing is left. The counts compared are cardinalities, which is where the
finiteness of `Ids` comes in. A document that ceased to match at some time is not
`steady` and falls out of `NothingSkipped`, but not of `NothingTwice`.

### Lists of roles: `SlicesProofs`

| theorem | says |
| --- | --- |
| `RepeatsAreOfStarts` | `OnlyStartsRepeat`, for lists of any length |
| `ListsActAsSets` | `ImplementsRoleSets`, for lists of any length |

What is hard here is not the invariant (`SlicesInv`: stored lists are lists of roles,
with the duplicates of starts only) but what the loops compute. The library's theorems
on induction take an operator, which the provers cannot instantiate; `Induction` is
about a set of numbers instead and follows from the order of the numbers being
well-founded. With it a fold of a function is shown to exist (`FoldExists`), and for
each of the three loops there is the sequence of what it has after each string
(`AppendRun`, `RemoveRun`, `MissingRun`). One step of a loop is then a fact about one
call (`AppendOne`, `RemoveOne`, `CollectOne`), and a second induction gives the whole
loop (`AppendAll`, `RemoveAll`, `MissingAll`). `RemoveOne` is where duplicates would
do harm: the last string takes the place of the one removed, and no other occurrence
may be left behind. It is asked of members only, whose lists have none. The
differences are of lists of groups, which may have the role of a start twice, and
`MissingAll` is about them as they are.

### The end, mails

| theorem | says |
| --- | --- |
| `LifecycleProofs!DisconnectsLast` | `DrainedBeforeDisconnect` |
| `MailProofs!NilIsTrue` | `NilMeansAccepted` |
| `MailProofs!TakenForAll` | `AllOrNobody` |
| `MailProofs!LoginEncrypted` | `CredentialsEncrypted` |
| `MailProofs!SendDelivers` | `ImplementsDelivery` |
| `MailProofs!OnlyErrorsLeave` | `LeftByErrors` |

`DisconnectsLast`: a connection is cut by the forced stop only (`CutWhenForced`);
once GracefulStop has ended nothing runs, and nothing begins (`ClosedIsDrained`);
`main` is past Stop only after one of the two (`StoppedFirst`).

The invariant of `MailProofs`: client and server speak in turn (`InTurn`), only
LOGIN makes a server ask (`OnlyLoginAsks`), the recipients are those the server has
and those still to be named (`Partition`), and the mail is taken at the end of the
data and not before (`Taken`). `SendDelivers` then maps every step to `Start`,
`Refuse`, `Deliver`, `Return` or to none of them.

### What TLC alone checks

- Liveness, which is out of the prover's reach: `StartsEnd`, `StopEnds`,
  `ServeErrorEnds`, `PagesEnd`.

## Where code and words disagree

Shown by runs:

- ChangePassword hashes the stored hash instead of the new password
  (`internal/server/users.go:327`).
- DeleteGroup of MGO deletes from the users collection
  (`internal/store/groups.go:155`).
- A signal that arrives before `main` waits for it is lost
  (`cmd/gooser-server/main.go:95`).

Met while modelling, without a run of their own. Users:

- UpdateUser generates the token for a changed address on the caller's own copy,
  for the old address, and does not save it (`internal/server/users.go:240`).
- Two overlapping requests get the same user name, address or group name, since
  the count and the save are two calls (`UniqueAccounts` fails with two requests).
- UpdateUser whose mask names the id and leaves it empty saves a new user with the roles
  of the old one and without a password (`internal/server/users.go:218`, `:251`), where
  its comment says that it changes the given user (`:177`).
- The reset URL is a parameter of NewMailer that it does not store
  (`internal/mailer/mailer.go:30`), and the mailer drops its errors (`:52`).

Groups and starts:

- UpdateGroup does not look at the error of SaveGroup, changes roles all the same
  and then dereferences nil (`internal/server/groups.go:250`, `:283`).
- An empty list is not saved: the last role or member stays
  (`internal/store/store.go:51`, `:62-64`).
- InitCollections adds the role `admins` where it says `admin`
  (`internal/server/server.go:216-217`), once more at each start; it gives the role to
  whoever has the administrator's name by then (`:184-188`); two processes that start
  together create two administrators.
- The filter `_id=oid=("a","b")` keeps its closing parenthesis, because the
  pattern `\(||\)` never gets to its third alternative
  (`internal/store/db.go:82`): AddRolesToMembers fails where it does not panic.
- `README.md` names `GOOSER_ADMIN_USER`; the code reads `GOOSER_ADMIN_USERNAME`.

Listings:

- ListUsers and ListGroups of MGO append through a nil pointer
  (`internal/store/users.go:40`, `internal/store/groups.go:39`). DeleteUser
  panics with them, so no user is ever deleted. They decode all documents into one
  variable.
- ListGroups queries and pages the users collection (`internal/store/groups.go:23-52`).
- Page tokens are decoded into a nil pointer and always refused
  (`internal/store/pagetoken.go:26`), and none is handed out, since the result that
  the size is compared with is never set.
- The page filter does not work in any form: its nested `bson.E` values are encoded
  as documents with the fields key and value, and it asks for an operator `$oid` and
  compares the id as a string (`internal/store/db.go:201-210`); a token would not bring
  it back as it was, since `encoding/json` does not know the documents of bson
  (`internal/store/pagetoken.go:46-57`). When encrypting a token fails, the listing ends
  without an error (`internal/store/db.go:361-365`).
- A comment says that without a valid order it is sorted by id
  (`internal/store/db.go:306-307`); the sort option is empty then
  (`internal/store/db.go:384`), the order is that of the database, and the handlers
  never pass another.
- The code for orders, which nothing reaches: for several fields the page filter asks
  that all be greater, not the first that differs (`internal/store/db.go:274`); `id` is
  sorted by as a field of that name, which no document has; a name that is a sign
  alone panics.
- When documents come to match after the count, the last token may be missing; with a
  size of 0 an empty page asks for a token too, made from a user that was not decoded.

Helpers and mail:

- The comments of AppendUniqueString and UniqueStringSlice promise a copy
  (`internal/utils/utils.go:63`, `:76`); the first may append in place.
- Send closes nothing when a step fails, has no deadline, and may return an error
  for a mail that was taken (`internal/mailer/client.go:86-131`). The LOGIN client
  answers as many questions as a server asks.

## Not modelled

GetUser, GetGroup and everything else that only reads one document; the texts of
mails and messages; languages; LogMailer, which prints; the HTTP request of
`internal/auth`, which has no state; the interceptor and the options of NewServer;
RandomString, LookupEnv and the syntax of mail addresses; the parsing of filters
beyond what they match; orders, which no handler passes; the age of tokens, which
nothing reads; connecting to the database; generated code, catalogues,
mocks and scripts.

## Plan

The modules above are the plan as first made, and exist. What would add most next:

1. `Accounts` and `Groups` over one users collection, where a stale save of one meets
   the role changes of the other. Today each has the other's saves in reduced form.
2. What remains of `Directory` and `Membership` when requests overlap: a weaker promise
   each, without the uniqueness and the steps that need a fresh copy.
