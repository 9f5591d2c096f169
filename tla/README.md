# A verification of encounter-builder-api

encounter-builder-api stores a game master's encounters and chapters for a
campaign and, when an encounter is released, hands its loot to the party. This
directory models the service in TLA+, checks the models with TLC on small
instances, and proves the main safety properties with TLAPS for all instances.

Paths below are relative to the repository: `encounters.go`, `chapters.go`,
`settings.go`, `router.go`, `config.go` are in `service/internal/api/`,
`store.go` in `service/internal/store/`, `model.go` in
`service/internal/model/`, `client.go` in `service/internal/partytreasure/`,
`auth.go` in `service/internal/auth/`.

## 1. The system

| Component | State | Operations | Interacts with |
|---|---|---|---|
| Encounter endpoints (`encounters.go`) | none of their own: each request works on a document it read | create, list, get, update, delete, release | gate first; store; on release, the party-treasure client |
| Chapter endpoints (`chapters.go`) | none | create, list, update, delete | gate first; store |
| Settings endpoints (`settings.go`) | none | get, put (full replace) | gate first; store |
| GM gate (`requireGM`, `letsroll/client.go`) | none: lets-roll is asked on every request | "does the caller run this game?" | lets-roll, with the caller's token |
| Store (`store.go`) | one DynamoDB table, key = (campaign, item) | Put, Get, Delete, List; the same for chapters; settings | DynamoDB, through the AWS SDK |
| Content rules (`model.go`, `client.go:58`) | none, pure | Validate (save), IncompleteContent (release), ReleasePayloadFromEncounter (push) | each other, only through the content list |
| Legacy arrays (`model.go`) | none, pure | Validate's strict rules for the lists that content superseded | the client moves their rows into content |
| party-treasure client (`client.go`) | none | PushRelease, best effort | party-treasure |
| Token verification (`auth.go`) | per process: a copy of the issuer's keys, or none | discover and warm at boot; refresh in the background; verify on every request | the OIDC issuer, which is lets-roll |
| Router (`router.go`), health, me | none | the chain in front of each handler | verifier, gate |
| Entry points, configuration (`cmd/`, `config.go`) | none | build everything or exit | verifier |
| Request log | none | one line per request | |

Everything runs in Lambda invocations. An invocation serves one request; many
run at once; one may be killed at any time (30 s limit, memory). They share
only the table. There is no lock, no version attribute and no condition on a
write. A process lives through many invocations, one after another, frozen in
between, and keeps nothing from one to the next but its copy of the keys.

### What is hard here

* **Read, decide, write.** Update and release read a document, judge it, and
  store a whole new one. Anything may happen to the table in between.
* **Stale reads.** `GetItem` and `Query` are used without `ConsistentRead`.
* **Unanswered calls.** A store call may take effect without an answer. The SDK
  repeats it, and gives up in the end; the handler then answers 500.
* **Two effects, one request.** A release is stored, then pushed. Between the
  two the invocation may die, and the push may fail.
* **Check, then act, across services.** The gate's answer is as old as the
  request, the token's verification older still, and the keys it was verified
  with may be older than both.
* **A background task in a frozen process.** The key refresh only runs while a
  request does.
* **Four readings of one list.** Validate's rules for content, its rules for the
  old arrays, IncompleteContent and ReleasePayloadFromEncounter were written
  apart and must agree.
* **Pages.** A list is read page by page while others write.

### What makes each component correct

* Encounter endpoints: documents are well formed whatever races; released ones
  are complete unless forced, frozen, and released once; deleted ones stay
  deleted; loot is pushed only after the commit, and all of it; answers tell
  the truth; only a GM of the campaign changes it; every request is answered.
* Chapter endpoints: an update changes what its body mentions, and clears only
  the fields that are defined to be cleared by omission.
* Settings: what is stored is what one GM sent, whole.
* Tokens: nothing is written without a genuine one; an outage of the issuer
  costs no valid token; a rotation is picked up; a process comes up.
* Lists: every item once, each right at some moment of the reading, chapters in
  a fixed order, and an end.
* Content rules: what is saved can be read and saved again; saving does not
  change what the gate says; what passes the gate is pushed whole and is
  finished; loot in the old arrays survives its move into content.

## 2. Modules

| Module | What it models |
|---|---|
| `Nothing`, `Keys` | the absent value; the table's keys |
| `Table` | DynamoDB as the store uses it (external): blind puts and deletes, reads that may come from a lagging replica |
| `Invocations` | a Lambda invocation: one request, one store call after another with repeated attempts, one answer, killed at any time |
| `EncounterDocs` | the encounter document and the three ways a handler makes one |
| `Encounters`, `EncounterProps` | the encounter endpoints behind the gate, and what is claimed of them |
| `Lineage` | abstract: what the store of encounters guarantees under all disturbances |
| `Lifecycle` | abstract: the documented life of an encounter, every operation atomic |
| `Chapters`, `ChapterProps` | the chapter endpoints, and what is claimed of them |
| `Listing`, `ListingProps` | List and ListChapters under writers, and what is claimed of them |
| `PartyRules`, `ContentRules` | the range of the expected party; the three pure functions over content lists |
| `Ranking` | a finite set written as a sequence, without recursion: the sort of a list, the rows a filter leaves |
| `Hoard` | the loot a content list holds, counted straight from its rows |
| `LegacyRules` | the encounter input as a whole: the old arrays, `challenges`, the scalar fields, and what a save stores |
| `Content`, `ContentProps` | a machine that builds inputs row by row in the three lists, and the claims |
| `KeyCache` | token verification in a process that boots and freezes; the issuer (external) |
| `Settings` | the campaign settings |
| `Api`, `ApiProps` | the chain: process, token, gate, handler; settings, me and health behind it; and the claims |
| `Release` | `Encounters` over the real `ContentRules`: bodies are content lists, `Gappy` is IncompleteContent, `Loot` is the payload |
| `MCEncounters`, `MCChapters`, `MCListing`, `MCContent`, `MCRelease`, `MCApi` | instances for TLC |
| `EncounterInvariant` | why the encounter endpoints are safe: the inductive invariant |
| `EncounterProofs` | their type correctness and safety, that they implement `Lineage`, and one at a time `Lifecycle`, proved |
| `InvocationProofs` | the lemmas about invocations that `ChapterProofs` and `ApiProofs` share |
| `ChapterProofs`, `ListingProofs`, `ApiProofs` | chapters, lists and the chain, proved |
| `DataLemmas` | what the operators on lists and rows compute, for lists of any length, proved |
| `ContentProofs`, `ReleaseProofs` | the content rules, and the release over them, proved |

### Correspondence with the code

**State.** `table` is the DynamoDB table, `replica` what a lagging replica
serves. For each invocation slot `w`: `pc[w]` says where its handler is
(`verify`: in the token middleware, `gate`: in `requireGM`, `handler`: before
its first write, `put`: in `Store.Put`, `push`: in `PushRelease`, `done`:
answered), `req[w]` is its request, `doc[w]` the Go
variable `enc` / `existing` / `ch` it is about to store, `tries[w]` the failed
attempts of the current store call, `code[w]` the status it answered. `role` is
what lets-roll would answer, `party` what party-treasure was sent. In `Api` a
slot is a process: `life[w]` is where it stands between "off" and "up", and
`keys[w]` its copy of the key set; `published`, `reachable` and `now` are the
issuer's key set, the issuer's host and the clock. `versions`, `gms`,
`authors`, `wrote`, `seen` and `editions` are history. No action reads them,
except that the draw of a fresh id (`newID`, 128 random bits) looks at
`versions`, and a retired key does not come back (`Publish`).

**Actions.** A handler is cut exactly where it calls out, since everything
between two calls is local to the invocation:

| Code | Action |
|---|---|
| `requireGM` and `FetchGame` | `LetsRollFails`, `NotGM`, `Admit` in `Encounters`; `RequireGM` in `Api` |
| `createEncounter` to its Put | `CreateEncounter` |
| `getEncounter` | `GetEncounter` |
| `updateEncounter` to its Put | `UpdateEncounter`: read, released check, decoding and validation, status check, edit, in this order |
| `releaseEncounter` to its Put | `ReleaseEncounter`: read, released check, gate, stamp |
| `Store.Put` and what follows it | `PutAcknowledged` (201, 200 or on to the push), `PutUnanswered` (effect or not, another attempt or a 500) |
| `deleteEncounter` | `DeleteEncounter`: one store call, acknowledged or not |
| push and final answer of `releaseEncounter` | `PushRelease` |
| killed invocation | `Killed` |
| `NewRouter`'s routes | `Receive`, `AfterToken`: health is public, me wants a token, the rest a token and the gate |
| `Verifier.Middleware`, `Verify`, `bearerToken` | `Middleware`: no token, or judged by the copy of the keys, fetched first if there is none |
| `NewVerifier`, `BuildConfig`, `main` | `Booting`: `Discover` (fatal if the issuer is unreachable), `Warm` (best effort) |
| the refresh of `jwk.Cache` | `RefreshKeys` |
| `getSettings`, `putSettings` | `SettingsRead`, `SettingsDecided` |
| `me`, `health` | `Me`, `Health` |

The gate and the `GetItem` that follows it are two calls and two steps
(`Admit`, then the handler's action). The read and the decision on it are one
step: nothing the decision depends on is shared.

**Data.** The many content fields of an encounter travel together, so a *body*
is one value. The handlers ask two things of it: does the gate find gaps
(`Gappy`), and which loot does it hold (`Loot`). `ContentRules` answers both
for real, and `Release` puts the two together. A text field is "blank or
not"; a ref is its chain of bases. A row of an old array is written like a
content row whose type is the array's kind. A signature is the key it was made
with; token times are ticks of the clock. Time stamps are left out, except
whether `released_at` is set. `forced` is a ghost field: the code does not store
that a release was forced.

The gate is asked in `Encounters` while memberships change, and in `Api` with
the token that was verified while keys and tokens expire. In `Chapters` it is
left out: it is the same middleware, and its properties do not depend on what
follows it.

**Disturbances.** The constant `Disturbances` says what may go wrong in an
instance: `crash`, `store` (calls unanswered), `push`, `letsroll`, `roles`
(memberships change), `issuer` (its host comes and goes). `Lag` switches stale
reads on, `Freezes` the freezing of a process between requests; the local
server of `cmd/` is `Freezes = FALSE`. The proofs hold for all of them.

**Mutants.** The definitions marked "Mutant:" are wrong variants of the
definition after them, one for each property. No specification uses them.
Putting one in the place of the definition it varies must make TLC refute the
property it was written for.

## 3. Runs

| Run | Question | Instance |
|---|---|---|
| `MCEncounters_race` | Are documents, answers and the order of commit and push right under all disturbances? Does it implement `Lineage`? | 2 invocations, 1 key, `Lag`, crashes, 2 attempts; 619 000 states |
| `MCEncounters_tenants` | Who can change what? The proofs' invariant. | 2 campaigns, 2 users, roles change, lets-roll fails, no push configured; 546 000 |
| `MCEncounters_progress` | Is every request answered, and is no loot lost in silence? | 2 invocations, store calls fail, fairness; 24 000 |
| `MCRelease` | Do the documented lifecycle and the party's record hold over real content when nothing is concurrent or stale? Does the party get whole releases? | 1 invocation, every request, 3 hoards, crashes, repeated calls, failing pushes; 74 000 |
| `MCChapters_race` | Is every stored chapter a merge of one request into an earlier version? | 2 invocations, `Lag`, crashes, 2 attempts; 870 000 |
| `MCListing` | Each item once, right at some moment? Complete, in order, ended? | 2 chapters with a tie in order, 1 encounter, `Lag`, undecodable items; 387 000 |
| `MCContent` | Is saving stable, the gate row by row and no weaker than the old rules, what passes it pushed whole, nothing lost in the move from the old arrays? | every row one at a time in each of the three lists, lists of up to 3 loot rows, every head; 49 000 |
| `MCApi` | Who gets through to the settings, with which keys, and is the answer true? Is a rotation picked up, an outage survived? | 1 process, 2 keys and a forged one, 6 tokens in two headers, 2 campaigns, 2 attempts, fairness; 138 000 |

Four more runs expect a violation; section 4 lists them.

**Bounds, and why they are enough.** Encounters do not refer to each other, so
one key shows every race on an encounter; two campaigns are there where the
property is about campaigns. The races need one request that reads early and
writes late and another one between, hence two invocations; two attempts show
the repeated call, and a third adds nothing the second does not. Two bodies,
one with gaps and one without, tell every edit from what it replaced. A list
needs two items in scope to have an edge between pages, and one out of scope to
have a prefix; the two chapters of the instance have one order and differ by
name, which is the case where the sort has something to decide twice.
`Mixed` names the rows that are combined in lists: those the push or the gate
looks at together. `Word = 8` makes an int of 3 bits, so that three coin rows
wrap. `MCRelease` has the three hoards that differ for the gate and the push:
finished, unfinished, empty. `MCApi` has one process, since processes share
nothing but the table, and a settings put neither reads it nor depends on it;
two processes racing are two puts, each of which is checked against what was
sent, and the theorem `SettingsAreAsSent` is of any number of processes. Its clock (`Horizon = 2`, `Skew = 1`) shows a token valid, within the
accepted skew, where lets-roll already turns it down, and expired. Two keys are
one rotation, including the overlap in which both are served. A slot is reused
without end, so runs are not bounded in length: what is bounded is concurrency,
not the number of requests. `MaxRows`, `MaxAttempts`, `Word`, `Horizon` are the
only numeric bounds; ids are never reused (`Fresh`), so a run of one id is one
life of one encounter with any number of requests. `CHECK_DEADLOCK FALSE` is
set where the instance really stops: all ids used up and nothing sent, or the
list full. The listing run never stops and is checked for deadlock.

**Fairness.** `WF_vars(Step(w))` for each invocation: the runtime runs an
invocation it started until it answers or is killed. It is weak fairness of the
whole step, so nothing forces the push to succeed, or a store call to be
answered; attempts end because the SDK gives up. Requests, crashes, changes of
roles, the issuer and the replica have no fairness: nobody must send a request,
and a replica may lag for ever. `EveryRequestAnswered` is therefore claimed
"unless killed". `LootDelivered` is claimed while store calls fail and are
repeated, but nothing is killed and the push succeeds, since the push is
documented as best effort; then loot arrives, or the client was answered 500.
In `Listing` the loop has weak fairness and the writers none. In `Api`
`SF_vars(RefreshKeys(w))`: a process is frozen whenever it has no request, so
its refresh is enabled only now and then. The refresh is due by a timer, and the
timer fires once the process has been thawed often enough; strong fairness says
just that. `RotationPickedUp` still has to assume that requests keep coming and
the issuer can be reached in the end: a process that is never thawed again
keeps its old keys, and uses them for nothing.

**Particular abstractions.**

* A killed invocation's last call does not take effect after the kill; a call
  that did take effect before it is `PutUnanswered` or `StorePut` before
  `Killed`. A write that reaches the table long after its invocation died is
  not modelled.
* A replica lags item by item and never goes back.
* A page of a list reads its items one by one, each from the leader or a
  replica. DynamoDB promises no more for an eventually consistent Query.
* In `Api` the replica stays empty and what a settings get answers is in no
  state, since no write is made from a read. That a get may answer stale
  settings is clear from the code and claimed nowhere.
* When the first key fetch failed, `jwk.Cache` may fetch the keys for the first
  request, or answer from the failed fetch; `Verify` allows both.
* `Publish` and the refresh exchange whole key sets, as `jwk.Cache` does; nothing
  is claimed of that exchange itself.
* Every token expires. One without `exp`, and the claims `nbf` and `iat`, which
  the JWT library looks at as well, are left out.
* One Boolean says that a text is there. The strict rules compare with the empty
  string, the gate trims blanks first (`model.go:573`); text made of blanks is
  not told apart from none, and no property depends on it.

## 4. What the runs refute

Each of these runs states what a comment, a message or a test of the repository
says, and TLC shows a behaviour of the code against it.

| Run | Says | The code |
|---|---|---|
| `MCEncounters_unreleased` | "encounter is released and can no longer be edited" (`encounters.go:124`), "released encounters are immutable via update" (`encounters_test.go:646`) | an update that read the draft stores it over a release that committed meanwhile (`encounters.go:167`) |
| `MCEncounters_resurrected` | "Delete removes an encounter" (`store.go:148`) | an update in flight puts the deleted encounter back |
| `MCChapters_layout` | "a rename/party edit ... must not wipe the GM's saved layout" (`chapters.go:88-89`) | a rename that read the chapter before a drag-save puts the old layout back |
| `MCApi_coldstart` | "don't couple cold start (or the public /healthz) to the provider being reachable" (`auth.go:91-93`) | discovery comes first and its failure ends the process (`auth.go:73`, `config.go:34`); `auth.go:55-57` says so too, so the two comments disagree |

The first three share one cause: the store's writes are unconditional. Two
concurrent releases have it too: both are answered 200 and both push, although a
"second release is a conflict" (`encounters_test.go:642`). The eventually
consistent `GetItem` (`store.go:102`) opens the first window without any
concurrency: an update that arrives after the release was answered may still
read the draft. Nothing else is wrong with the lifecycle: with one request at a
time and current reads, `RefinesLifecycle` holds although invocations die, calls
are repeated and pushes fail. `MCRelease` checks it, and `SerialLifecycle` proves
it. The other half is proved as well: `SerialImmutable`, `SerialDeletes` and
`SerialLayout` state the three refuted properties of an instance with one
request at a time and current reads. So a race or a stale read is not only how
TLC breaks them, it is the only way: no killed invocation, unanswered call or
repeated attempt does.

Two more windows are in the models, and nothing in the code closes them or
promises to. An invocation killed between commit and push leaves a released
encounter whose loot was never pushed, and a retry is a 409. So does a store
call that took effect but was answered with a failure: the client is told 500.
`LootDelivered` is claimed without kills and lets a 500 count as told;
`PartyMatchesRecord` accepts a party that got nothing.

Smaller divergences are followed in the model and not run, or excepted by name:

* `value_tiers` without a tier is accepted in content (`model.go:540`) although
  one "must be set" (`model.go:107-108`); the treasure array refuses it.
* A ref of `{"json": null}` counts as naming content (`model.go:40`).
* The sum of the coin drops wraps around like any Go `int` (`client.go:87`,
  `Plus`).
* Validate looks at the loadouts of monsters and of challenges, and never at
  those of the hazard and affliction arrays (`model.go:729`): such a row with a
  negative quantity is saved, and refused once it is moved into content. It is
  the one exception of `MigrationKeepsLoot` (`UncheckedLoadout`).
* The gate does not see what the strict rules refuse in a loadout quantity of
  0, an empty `value_tiers`, and a pool without id: the three exceptions of
  `FinishedIsStrict` (`GateOverlooks`).
* The comment over the content loop calls it strict (`model.go:917-918`: "the
  client drops empty placeholders before saving, so strict here"); the loop
  accepts unfinished rows, and the gate at release is what catches them.

## 5. What holds, and why it is not obvious

* `StampIffReleased`, `ReleasedIsComplete`: an update copies `ReleasedAt` and
  the status unseen from what it read, and the gate judges a document that may
  no longer be the stored one. Both hold all the same because a handler always
  stores one whole document made from one whole document. Nothing is merged
  with what the table holds at the time of the write.
* `RefinesLineage` says this for every write: a stored document is new, or held
  by the key before, or one legal edit or release of such a document. Updates
  get lost, but no document is a mixture. `WritesAreMerges` is the same for
  chapters.
* `AnswersAreHonest`: a 4xx means that no attempt of this request reached the
  table, a 2xx that one did. A 500 says nothing. In `Api` the same is claimed of
  the whole chain, where a settings put may be turned down at three places with
  four codes (401, 403 or 502, 400) and be repeated at the fourth.
* `PushAfterCommit`, `PartyMatchesRecord`, `PartyGetsWholeReleases`: the loot is
  that of a stored release under the same key, whole but for the unfinished
  lines of a forced one.
* `AuthorsWereGMs`, `WritesGoToTheURL`: `Store.Put` takes its key from the
  document, not from the URL the gate looked at. They agree because a document
  read under a key carries that key, which is itself an invariant of the table.
* `NobodyWritesUnvetted`: three looks at one token at three times, by two
  parties with different keys. A put is still always that of the campaign's GM
  with a token the issuer made, because nothing in the chain forgets what was
  decided before, and a copy of the keys never holds one the issuer did not
  publish.
* `OutageTolerated`, `RotationPickedUp`: verification never asks the issuer once
  there are keys, and yet new keys arrive. Both rest on the cache outliving the
  boot (`context.WithoutCancel`, `auth.go:84`) and replacing its copy only when a
  fetch succeeds.
* `StoredAsSent`: settings are never merged, so a cleared field stays cleared
  however puts race and are repeated.
* `RegularListing`: page by page under writers, each item is what it could have
  been read as at some moment since the listing began. The list as a whole is no
  snapshot, and nothing says it is.
* `GateProtectsLoot`: the push drops lines silently; after the gate nothing is
  left for it to drop but what the GM pruned.
* `FinishedIsStrict`, `MigrationKeepsLoot`: the gate replaces the strict rules of
  the old arrays, and is no weaker but for three named gaps. Old rows moved into
  content are valid there, no treasure line among them blocks the release, and
  all unpruned ones are pushed.
* `CoinsAddUp`: the coins pushed are the sum of the rows as long as the sum is
  an int. Nothing bounds the amounts above.

## 6. Proofs

| Theorem | Module | States |
|---|---|---|
| `TypeCorrect` | `EncounterProofs` | `Spec => []TypeOK` |
| `AlwaysSound` | `EncounterProofs` | `Spec => [](TypeOK /\ Sound)`, the inductive invariant |
| `StampCorrect`, `GateHolds` | `EncounterProofs` | `[]StampIffReleased`, `[]ReleasedIsComplete` |
| `WritesStayInTheURL`, `OnlyGMsWrite` | `EncounterProofs` | `[]WritesGoToTheURL`, `[]AuthorsWereGMs` |
| `CommitBeforePush`, `HonestAnswers` | `EncounterProofs` | `[]PushAfterCommit`, `[]AnswersAreHonest` |
| `DescentHolds`, `ImplementsLineage` | `EncounterProofs` | `[]DescentOK`, `Spec => RefinesLineage` |
| `SerialLifecycle`, `SerialParty` | `EncounterProofs` | with `Serial`: `Spec => RefinesLifecycle`, `[]PartyMatchesRecord` |
| `SerialImmutable`, `SerialDeletes` | `EncounterProofs` | with `Serial`: `Spec => ReleasedImmutable`, `Spec => DeletedStaysDeleted` |
| `ChaptersTypeCorrect`, `ChapterAnswersHonest`, `ChapterWritesAreMerges` | `ChapterProofs` | `[]TypeOK`, `[]AnswersAreHonest`, `WritesAreMerges` |
| `SerialLayout` | `ChapterProofs` | with `Serial`: `Spec => LayoutOnlyMovesBySave` |
| `ListTypeCorrect`, `NothingTwice`, `ListingRegular`, `ListingInOrder` | `ListingProofs` | `[]ListTypeOK`, `[]ListedOnce`, `[]RegularListing`, `[]AnswerInOrder` |
| `ApiTypeCorrect`, `ChainAnswersHonest`, `SettingsAreAsSent` | `ApiProofs` | `[]TypeOK`, `[]AnswersAreHonest`, `[]StoredAsSent` |
| `OnlyVettedWrites`, `VerificationIsOffline` | `ApiProofs` | `NobodyWritesUnvetted`, `OutageTolerated` |
| `ContentTypeCorrect`, `SaveIsStable`, `SavingKeepsGaps` | `ContentProofs` | `[]ContentTypeOK`, `[]SavedIsStable`, `[]SaveKeepsGaps` |
| `GapsRowwise`, `GateKeepsLoot`, `GateIsAsStrict` | `ContentProofs` | `[]GapsAreRowwise`, `[]GateProtectsLoot`, `[]FinishedIsStrict` |
| `PushIsAcceptable`, `PushAddsUpCoins` | `ContentProofs` | `[]PayloadAcceptable`, `[]CoinsAddUp` |
| `MigrationLosesNothing` | `ContentProofs` | `[]MigrationKeepsLoot` |
| `PartyGetsWhole` | `ReleaseProofs` | `[]PartyGetsWholeReleases` |

They hold for any sets of campaigns, ids, bodies, users, workers, keys and
tokens, any set of requests sent, any content lists, any number of items, pages
and attempts and any of the disturbances, with stale reads or without. The
assumptions are those of the modules: a body with gaps is a body, the malformed
body is none, requests sent are requests, at least one attempt is made, `None`
is no document, token, status or payload, the sort keys of a list are numbers
and its ids finitely many, the clock is a number, a content row pairs a type
with a payload of that type or none, and an `int` has a bit at least (`Word >
1`). `StringAssumption` and `RoomTypesAssumption` say that a few listed strings
are strings: TLC knows, the provers have to be told. `Release` assumes that
`Bodies`, `Gappy` and `Loot` are what the content rules make of `Contents`;
that is a definition written as an assumption, and the instance satisfies it.
`Serial`, the hypothesis of some theorems, says that there is one invocation
slot and no lagging replica (`Invocations`).

**Encounters.** None of the safety properties is inductive. What a handler
will store was made from what it read, and what it read may be anything the
table or the replica holds or held. So `Sound` speaks of every place a document
may be:

* `HistoryOK`: every document ever stored under a key carries that key and is
  well formed; table and replica hold nothing else. A stale read is then as
  good as a current one.
* `InFlightOK`: a document that a handler holds carries the key of the URL and
  is well formed; a release's is released, and is stored by the time of the
  push.
* `PushAfterCommit` itself: `versions` only grows (`Grows`), so what was pushed
  stays justified.
* `GateSound`: who is GM now was GM at some time; a request in hand was
  admitted for such a caller. With `InFlightOK` this bounds the authors.
* `BookkeepingSound`: before its first store call a request has written
  nothing, which is what makes a refusal honest; a delete repeats its only call
  from the same place and never refuses.

One lemma for each of the three parts has a step for each action
(`NextDocumentsSound`, `NextGateSound`, `NextBookkeepingSound`); smaller lemmas
treat the steps that the actions share (`AnswerInFlight`, `GoPutInFlight`,
`PutKeepsHistory`, ...). TLC checks `Sound` in `MCEncounters_tenants`.

**The refinement of Lineage** needs one more invariant, `DescentOK`: the
document a handler is about to store is one `Lineage` allows to be written in
the current state. History only grows, so what was legal when the document was
made stays legal, except at one point: a new draft may be written only where
nothing was ever stored. There only a create has anything to store, and no other
create runs under its id, because ids are drawn fresh. `PutKeepsDescent` is this
argument; `WritableDocs` ties the documents the handlers make to those
`Lineage` allows. TLC checks `DescentOK` in `MCEncounters_race`, whose two
invocations are what it is about.

**The refinement of Lifecycle** holds for `Serial` instances, and `CurrentOK` is
why: what a handler is about to store is applicable to what is stored *now*
(`Applicable`: the same document again, an edit or the release of it, or a new
one where there never was one), what it pushes is on record, and the party's
record is right. A repeated put finds its own document and maps to a stutter; a
crash between commit and push leaves a legal state. The same invariant gives
`SerialParty`, and `LegalStep` two of the properties that runs refute: every
step of the table is a legal step of `Lifecycle`, and none of those edits a
released encounter or brings a deleted one back. `DescentOK` provides that a
create finds nothing there.

**Chapters.** The invariant says that a chapter in flight is the merge of its
request into something the key held; table and replica hold what was stored.
`InvocationProofs` has the frame of an invocation, for chapters and for the
chain. For `SerialLayout` one more fact is needed of a `Serial` instance,
`LayoutsOK`: an update about to be stored has the layout that is stored *now*,
or one its own client sent.

**Lists.** `Read` is the invariant: types; nothing is read before the first page
(`Fresh`); what could be read now is recorded as seen (`SeenNow`); and what is
read so far lies below the key the next page starts after, once, as it was seen,
with nothing left out that could not be read as absent (`ReadSoFar`). Pages
never overlap because the next one starts exclusively after the last key.

The answer's order needs `Ordered`: later pages hold later keys, and the answer
is `Result` of the pages. `Result` is a `Ranked` of the entries under the order
of the code's comparison, which `ComesIsAnOrder` shows to be strict and total:
ties in order and name are decided by the place in the pages, because the sort in
`store.go:211` is stable. `RankedIsInOrder` does the rest.

**The chain.** `Typed`; `CacheOK`, the issuer's current key set and every copy
are editions (a fact the other proofs need, and no more than how the issuer is
modelled); and `ChainOK`: what each place in the chain relies on was
established before it: past `verify` the token is genuine, past `gate` its
bearer is GM of the URL's campaign, and at `put` the document is the request's
body under the URL's key. Editions only grow (`EditionsGrow`), so a genuine
token stays genuine whatever rotates. The two action properties follow in one
step each. For the answers, `HonestOK` adds that nothing is written before a
request is at `put`, so whatever turns it down earlier tells the truth; at `put`
only an acknowledged attempt is answered 200, and giving up is a 500.

**Content.** `Rows` may be any rows, and the lists have any length. The type
invariant bounds only what the machine of `Content` builds; the properties are
facts about every input it may hold, in two layers.

* Row by row, because each of the three functions judges a row apart from the
  others: what Validate leaves of a row is valid and left alone the next time
  (`NormalStable`, `NormalValid`), has the same gaps, and a row without gaps is
  pushed (`FinishedIsPushed`) or passes the strict rules (`FinishedRowIsStrict`).
* For the lists made of the rows. What a filter keeps is `Picked`, the rows at
  some positions in order; `AscendingPositions` and `PickedRows` say what is in
  it, `PickedConcat` that picking from a concatenation is the concatenation of
  what is picked from its parts, which is what the move of the old arrays into
  content rests on (`ItemsConcat`, `SavedMoves`).

Sums over the rows are functions defined by recursion. `Recursion` shows that
such a function exists and obeys its equation, and `Counting` is induction over
a *set* of numbers: both follow from `LeastNumber`, a set of numbers that is
not empty has a least. `RunningTotal` and `ValidCoinsAddUp` are inductions in
this form: the wrapped sum is the sum as long as the sum fits.

**The release over content.** `LootOfBody` says that the payload of a body is
its coins, and all its intact lines if the gate found no gaps. With
`PushAfterCommit` and `HistoryOK` from `Sound` that gives `PartyGetsWhole`: the
party is sent the loot of a stored release, and an unforced release has no
gaps. So the endpoints' proof and the content proof are joined for any lists.

**Only model-checked:** the four liveness properties, since fairness is out of
the prover's reach (`EveryRequestAnswered`, `LootDelivered`, `ListingEnds`,
`RotationPickedUp`). Every invariant and every action property that a passing
run checks is proved.

## 7. Not modelled, and why

* The request log: nothing reads it.
* Infrastructure: deployment only. The table's key schema, the time limit and
  the freezing of a function are in `Table`, `Killed` and `Freezes`.
* Values read from the environment: constants of the modules
  (`PushConfigured`, `AudienceRequired`). Hence configuration and entry points
  are listed as partly modelled: their boot is.
* Cryptography, signing and HTTP: by their outcomes.
* What party-treasure does with a push (it is idempotent by encounter id, says
  `encounters.go:215`): external. `party` records what was sent.
* What clients resolve from the party defaults of campaign, chapter and
  encounter: not in this repository.

## 8. Plan

Done: the encounter endpoints with safety and both refinements proved; chapters,
lists and the chain of middlewares with the settings, checked and proved; the
content rules with the old arrays, and their composition with the release,
checked and proved for all lists. What is left, in this order:

1. **One table with all kinds side by side.** Chapters, encounters and settings
   under one specification: operations of one kind never disturb items of
   another, and a dangling `chapter_id` stays harmless.
2. **A conditional write.** `Lifecycle` as the target for a store whose puts
   carry a condition: what the repairs of section 4 would have to guarantee,
   and a proof that they do without `Serial`.
3. **The literal null.** A ref whose JSON is `null` counts as set
   (`model.go:40`): what the push makes of it, told apart from an empty one.
