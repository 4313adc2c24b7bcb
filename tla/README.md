# TLA+ verification of iam-db

iam-db is the identity store: a gRPC service that turns each RPC into a few SQL
statements against MariaDB. Its correctness is mostly that of transactions that
interleave: which rows a statement locks, what it reads once it has the lock,
and what a caller is told. The modules here model those statements, TLC checks
them on small instances, and TLAPS proves, for instances of any size, every
safety property the passing runs check.

## Inventory

| part | source (under `src/src/`) | state | operations |
| --- | --- | --- | --- |
| account lifecycle | `service/{enrolment,enrolment/*,credential,credential/*,password,epoch}.rs` | `iam_user` (deleted_at, is_admin, credential_epoch), `iam_password`, `iam_enrolment`, `iam_credential`, `iam_enrolment_redemption` (ledger) | CreateEnrolment (ordinary, revoking, demand, declared), RedeemEnrolment, CreateCredential (checked, unchecked), RevokeCredential, RevokeAllCredentials, SetPassword, GetPasswordHash, ResolveCredential, ListCredentials |
| inherited setting | `service/setting.rs`, `service/setting/{claim,inherited}.rs` | `iam_org_setting`, `iam_team_setting_override`, `iam_inherited_setting_write` (ledger) | SetInheritedSetting |
| teams and bootstrap | `service/team.rs`, `service/team/sync.rs`, `service/identity.rs`, `service/identity/bootstrap.rs`, `service/enrolment/declared.rs` | `iam_team`, `iam_team_member`, `iam_team_member_pending`, `iam_team_sync_lock` | SyncTeams, CreateUser (ordinary, F2 bootstrap), declared enrolment, retired AddTeamMember/RemoveTeamMember |
| key identity | `service/key_identity.rs`, `service/key_identity/adopt.rs` | `iam_key_identity` singleton | GetKeyIdentity, SetKeyIdentity, AdoptKeyIdentity, ListKeyIdentityEvidence |
| policy | `service/policy.rs` | `is_admin`, `iam_rate_limit_override` | SetUserAdmin, SetRateLimitOverride |
| connections | `service/conn.rs` | pool slots, armed flag, cancelled flag, pending isolation level | acquire under deadline, begin, cancel, drop |
| caller gate | `service/caller.rs`, `service/handlers.rs`, `service/seam.rs` | none | admission, then the deadline, then store work |
| schema | `schema.rs`, `schema/*.rs` | tables, keys | 21 migrations |
| process | `main.rs`, `boot.rs`, `boot/lock.rs`, `serve.rs`, `rotate.rs` | boot stage, signal handlers, drain budget, watched files | probe, migrate, serve, rotate, drain |

How the parts meet. The only caller is `iam`. It logs a person in with two RPCs
(GetPasswordHash, then CreateCredential carrying the epoch the first answered)
and enrols one with three (CreateEnrolment, RedeemEnrolment, CreateCredential).
The RPCs share nothing in memory; they meet in the rows. The user row is the
meeting point of the account RPCs: its record lock orders them and its
`credential_epoch` tells a late CreateCredential that its proof is stale. Teams
meet the settings (an override hangs on a team row) and the bootstrap (the first
administrator is declared before the user row exists). Every RPC runs on a
pooled connection, and what one call leaves on it the next one inherits: that is
where `conn.rs` decides the isolation level `ResolveCredential` really gets. The
process bounds them all with its drain.

What is hard, and what makes each part correct:

- *Accounts.* A revocation must end credentials it cannot see yet (a login under
  way, a redemption key replayed later) and enrolments issued before it; a
  redemption must be replayable after a lost answer and never happen twice; a
  password reset must void every proof on the old password; the demand arm must
  never enrol somebody who has held a credential; nobody waits for ever.
- *Inherited setting.* One key stands for one request whatever interleaving its
  deliveries take; an override is never written for an archived team; absence of
  a field never deletes.
- *Teams and bootstrap.* At least one live administrator remains after any sync;
  exactly one bootstrap administrator; a pending row admits nobody.
- *Key identity.* Of two first keys one wins and the other is told; no answer is
  overturned later; an adoption rests on the oldest rows; a walk of the evidence
  skips nothing.
- *Reads.* What ResolveCredential answers was true at one moment; a listing taken
  in pages is exact.
- *Connections.* A connection never carries an isolation level, or an open
  transaction, to its next borrower; the deadline's answer names who ran out.
- *Process.* A signal or a rotated file always ends it, and calls in flight are
  cut only when they outlast the drain's budget.

## Modules

| module | models |
| --- | --- |
| `AccountStore` | the committed rows of the account tables and the WHERE clauses over them |
| `AccountAtomic` | what the account RPCs promise: each of them as one atomic step |
| `Account` | the same RPCs, one action per statement (or run of statements that no other transaction can come between), with locks and lost calls |
| `AccountInv` | the two inductive invariants of `Account`, which its runs check too |
| `InheritedSetting` | SetInheritedSetting statement by statement, and what SyncTeams commits to `iam_team` |
| `TeamsAtomic` | what the team RPCs promise: a declaration replaces the live team sets as a whole |
| `Teams` | SyncTeams, both arms of CreateUser and the declared enrolment, statement by statement |
| `KeyIdentity` | the singleton marker, recorded or adopted, and the walk over the evidence |
| `ConnPool` | one call's way to a connection and back: gate, wait, SET TRANSACTION, BEGIN, work, release |
| `Serving` | ConnPool inside the process: boot, signals, rotation, drain, restart |
| `Resolve` | ConnPool with ResolveCredential, ListCredentials and the writers they race |
| `AccountProofs`, `AccountLedgerProofs`, `InheritedSettingProofs`, `TeamsProofs`, `KeyIdentityProofs`, `ConnPoolProofs`, `ServingProofs`, `ResolveProofs` | the inductive invariants of the other modules, and the proofs; `ConnPoolProofs` has the lemmas that `ServingProofs` and `ResolveProofs` share |
| `MCAccount`, `MCInheritedSetting`, `MCTeams`, `MCKeyIdentity`, `MCServing`, `MCResolve` | the instances TLC runs |

### Account

A member of `Txn` is one request slot of `iam`. Its record holds a program
counter, the request, and what the transaction has written and not committed:
the ids it tombstones (`creds`), the enrolments it voids (`enrs`), the epoch it
writes. The commit action moves them to the store; `Drop` forgets them, which is
a deadline, a crash or a failed statement (the connection is closed or rolled
back, `conn.rs`). A slot in `proved` is `iam` between its two RPCs.

| code | actions |
| --- | --- |
| GetPasswordHash | `GetPasswordHash` (hash and epoch in one statement) |
| CreateCredential | `CreateCredentialUnchecked` or `CreateCredentialChecked` (share lock and read), then `MintInsert`, or `Reread` after zero rows |
| CreateEnrolment | `CreateEnrolment`, then `EnrolInsert` or `Reread` |
| RedeemEnrolment | `RedeemBegin` (ledger read), `RedeemLock` (user row), `RedeemSpend`, then `RedeemRevoke`, `RedeemWrite`, `RedeemCommit`; or `RedeemUnspent` (second ledger check) |
| RevokeAllCredentials | `RevokeAllLock`, `RevokeAllWrite`, `RevokeAllCommit` |
| SetPassword | `SetPasswordBump`, `SetPasswordCommit` |
| RevokeCredential, CreateUser, SetUserAdmin | one autocommit statement each |

Fields marked HISTORY (the epoch of a proof, of an enrolment's insert, the last
revocation's epoch) are not columns; no guard reads them.

Assumptions about the engine, taken from how the code uses it: an exclusive
record lock from FOR UPDATE or UPDATE and a shared one from LOCK IN SHARE MODE
last to the end of the transaction (of the statement for autocommit); a
statement that waited reads the rows as committed when it gets its lock. The locks
are read off the slots: `HoldsX` and `HoldsS` for the user row, `HoldsEnr` for the
enrolment rows a transaction has spent or voided, `CredLocked` for tombstoned
credentials, `KeyHeld` for an uncommitted ledger key. Every statement waits for the
rows it changes, also where the code's order (user row, then enrolment rows) means
that the wait never happens; with the order reversed (the mutant `HoldsXFromBump`)
a redemption and a holder of the user row wait for each other, and `Answered` fails.
The demand arm's share lock over absent credential rows is a gap lock that makes an
insert wait (REPEATABLE READ, the server's default, which the code relies on). A
zero-row UPDATE at that level leaves its gap locked, so SetPassword's re-read
cannot see a row that its bump missed. A secret is presented only after its
enrolment committed, because the caller learns of the enrolment from the answer.

### InheritedSetting

The organisation row and every override are one function `stored` from levels to
values; `ledger` maps a key to the whole request it recorded. A slot is at one
of the statements of `store_setting`: the ledger read, the write at the scope,
the claim's INSERT, the re-read of a duplicate, the commit. `Drop` rolls back,
and at the commit it may also have committed with the answer lost.

`Wire` is everything a request can carry: absent, zero and undeclared enum
members, an absent, an empty and a named team. `CheckInheritedSetting` is the
validation. An undeclared *value* passes it (the enum is open and only zero is
refused) and is stopped by the column's CHECK, as UNAVAILABLE.

At READ COMMITTED an insert-select that finds no team row locks nothing, one
that finds an archived row shares it. A duplicate claim shares the ledger row;
two of them re-reading FOR UPDATE deadlock, and the engine ends one
(`DeadlockVictim`). SyncTeams appears as its committed effect on `iam_team`,
for any declaration; it has to wait for whoever shares a row it changes.
The content of the read-back is left out.

### Teams and TeamsAtomic

A declaration is a function from the teams it names to sets of people (what
`validate` leaves). A slot is at one of the points where another transaction can
come between: the sentinel, the administrators row and the count under it, one
plain read per person, the writes, the commit.

| code | actions |
| --- | --- |
| SyncTeams | `SyncBegin`, `SyncCount`, `SyncKnow` per person, `SyncWrite` (guard, then `write_teams`, `write_members`, `replace_pending`), `SyncCommit` |
| CreateUser, F2 | `ClaimBegin` (`predicate` under the administrators row), `ClaimCommit` |
| CreateUser, ordinary | `NewUser` |
| CreateEnrolment, declared arm | `EnrolBegin`, `EnrolCommit` |
| AddTeamMember, RemoveTeamMember | `Retired` |

All run at READ COMMITTED. Locking the administrators row when it is absent
locks nothing; inserting a member row shares its user row (foreign key), which
is what a withdrawal waits for. An operator sets `deleted_at` (`Withdraw`), no
RPC does. The sync reads people without a lock, so somebody it saw live may be
withdrawn before it commits: `NoLockout` and `TeamsAtomic` say exactly that
exception. `Teams` implements `TeamsAtomic` under
`person <- row, grants <- the live teams of each person, claimable <- pending`:
archived teams, the member rows they keep and their reactivation disappear.

### KeyIdentity

The callers are replicas of `iam`, each with a key set. A recording call is its
INSERT ... SELECT in two halves (`SetKeyIdentity` or `AdoptKeyIdentity` reads the
predicate, `Insert` meets the marker row), then `Commit`, or `Reread` with
LOCK IN SHARE MODE after zero rows or a duplicate. `level` is the server's
isolation level, chosen in `Init`, because the code sets none: at REPEATABLE READ
the SELECT keeps inserts into `iam_user` out, at READ COMMITTED it does not.
`under` (which key set a row is encrypted under) is HISTORY. A replica presents
as evidence only rows its own keys decrypt; ids of no row are allowed.
`created_at` is in whole seconds and is the start of the inserting statement; the
model lets a row commit within a second of it.

### ConnPool, Serving and Resolve

A connection is what the server and sqlx each believe of it: a pending
SET TRANSACTION, the open transaction, sqlx's depth, whether a reply was read
half-way. A call is dropped wherever it awaits (`HangUp`, `Deadline`), with the
statement in flight run or not. `Release` is `Conn`'s `Drop`: close, or return to
the pool. The wait for a connection ends in four ways: a connection (`Acquire`), the
timer that is due (`TimeOut`), a drop, or an error of sqlx's own (`AcquireFails`).
sqlx opens connections inside its `acquire`, so a login refused after a rotation or
a TLS failure comes back at once, and both arms of `acquire` turn it into
UNAVAILABLE whatever time is left. UNAVAILABLE alone therefore does not say that the
pool was exhausted; `NamesWhoRanOut` says what the two timers mean, and
that UNAVAILABLE while every connection is held is the pool's.

Assumed of libraries, each from how the code uses it: sqlx opens a connection only
in a slot nobody holds (a refused connect that it retries is still a wait); it pings a returned
connection and rolls back a transaction it counts, and that ping may never return
on a torn stream (the header of `conn.rs`); `Deadline::bound` is the caller's time
less the margin, at most the ceiling; `drain_within` starts its clock when the
stop is requested; `serve_with_shutdown` stops accepting and lets calls finish;
`rotate::watch` resolves once the files differ from what `watch_set` hashed, and
keeps polling.

`Serving` adds the process. The boot is a sequence of named steps, each of which
refuses or goes on; the watch set is hashed in its step, the handlers arm in the
last one. A rotation may come at any moment. Time passes only when no timer is
due, so the order of the caller's deadline, the pool's `acquire_timeout` and the
drain's budget is exact.

`Resolve` adds the store as the sequence of its committed states. Each of the five
statements of ResolveCredential is a step; in a REPEATABLE READ transaction it
reads the state its first statement saw, otherwise the latest. So
`OnePointInTime` rests on `ConnPool`: the mutant that pools a connection with a
pending READ COMMITTED tears an answer. The writers land as one commit each, their
own interleavings being the business of the other modules; the CLEAR arm of
SetRateLimitOverride keeps its two statements. The listing is one client's walk,
which asks for a page after it has the one before (the page token is in it), so
one ListCredentials call of the walk is in flight at a time.

## Runs

| run | instance | shows |
| --- | --- | --- |
| `account_revocation` | 2 slots, 1 person, 2 secrets, 2 credentials, 1 key, epochs to 3 | what a revocation ended stays ended; spent and voided exclude each other; `IInv` holds |
| `account_ledger` | 2 slots, 1 person (a declared id with no row at first), 2 secrets, 2 keys, 1 credential, epochs to 2; redemptions, the three arms of CreateEnrolment, mints, revocations, flag changes, soft deletion | a committed redemption is always replayed; the ledger is sound; the demand arm enrols only before the first credential; `RedeemInv` holds |
| `account_calls` | 2 slots, 1 secret, 1 key, 1 credential, epochs to 2, every account RPC but the demand arm, expiry, soft deletion | `Account` implements `AccountAtomic`; no mint on a replaced password; every reset and revocation moves the epoch by one; every call is answered |
| `setting_claims` | 2 slots, 1 key or none, 1 team, every request at most one field off one of four legal ones | no override for an archived team; no false refusal of a retry; nothing admitted panics, deletes by omission or stores an undeclared value |
| `setting_live` | 3 slots, withdrawals and organisation writes under one key | every call is answered; one key, one request |
| `teams` | 2 slots, 2 ids minted before install and 1 ordinary person, 2 teams, 6 declarations | no lockout, one bootstrap, complete `changed_user_ids`, convergence, declared enrolments only for live administrators, refinement; `TeamsInv` (types with the foreign keys, and a pending row only while nobody administers) |
| `key_identity` | 2 calls, 2 people, 2 key sets, 7 requests (two derivations, keyed and not, malformed), a clock of 2 seconds, pages of 1, both isolation levels | one recording, evidence, exact walks, every call answered; `MarkerInv` (types, and answers that stand) |
| `resolve` | 2 connections, 1 reader, 1 writer, 3 credentials, pages of 1, 2 commits of 8 kinds of write | `ResolveInv` (types, and answers of one moment), exact listings, no limit for the deleted |
| `serving` | 1 connection, 2 calls, pool timeout 2, margin 1, deadlines none, 1, 2, 3, drain budget 3, 1 rotation | `ServingInv` (types, connections that go back clean, work at the level asked for); each timer answers under its own name; the drain ends, and cuts only what had no bound |
| `account_fabricated`, `setting_undo`, `setting_stranded` | violations | see Findings |

Bounds. `Calls` names the RPCs of an instance, so that each run is about one
question; `MaxEpoch` stops calls that would bump an epoch past it, counting the
bumps under way (`Room`), so two concurrent bumps need a bound of at least 2 and
a third epoch lets one more follow. `Request` is the set of requests of an
instance. Two slots are enough for the account races because every one of them
is between a holder of the user row and one other statement, with the history of
earlier calls kept in the rows; three slots are needed where two losers of one
key meet. In `teams` two slots hold two syncs, or a sync and a bootstrap or an
enrolment; the declarations keep, replace, empty and omit the administrators.
`key_identity` lets only one slot walk (`Walker`); two people, pages of one and
two seconds give a row created between two pages before, at and after the
position. Its evidence has at most two ids, so the cap of 64 is met only from
below. In `resolve` one writer is enough because the reader sees commits, not
writers, and two commits (`MaxCommits`) put one before and one after any
statement; two connections let the reader get one that a writer left. In
`serving` one connection makes the second call wait, and the deadlines are below,
at and above what the pool waits. Slots, secrets, credentials, keys and people are interchangeable
(symmetry), except in the liveness runs, which use none.
The theorems cover the numbers the runs do not.

Fairness. `SF(Step(t))` for every slot: a statement waiting for a lock is in the
engine's queue and gets it if it is free again and again. Nothing obliges a
caller to call, a clock to pass or an administrator to act. In `Serving` the clock
runs, due timers fire and the runtime polls its tasks (weak fairness of `Tick`,
`OfTimer`, `Bind`, `Stop`, `Close`, `Drained`, `Finished`, `Overran`); the store's
replies and the boot have none, so a statement or a call may hang for ever and the
drain must end all the same. Deadlock checking is on in every run.

## Findings

Each is a run that TLC ends with a counterexample against a sentence of the
repository.

1. `account_fabricated`: an id declared for the F2 bootstrap can be named before
   its user row exists. If the row is created between the zero-row
   INSERT ... SELECT of CreateEnrolment (ordinary arm) or of an unchecked
   CreateCredential and the `live_user` after it, the answer is OK with the id of
   no row. `enrolment.rs` calls this "a state no statement can reach". The same
   window exists in SetInheritedSetting, without a run of its own: if SyncTeams
   inserts the team between the zero-row INSERT ... SELECT and `live_team`
   (`setting.rs` 274-296), the claim is recorded and OK answered with nothing
   written, and retries replay it.
2. `setting_undo` (organisation requests only, two keys): delivery 2 of a key reads
   an empty ledger; delivery 1 commits OFF, its answer lost; another call commits ON
   under its own key and is answered; delivery 2 writes OFF, meets the duplicate,
   agrees, commits and answers OK. The other call's change is undone, though
   `setting.rs` calls the double work "harmless because the verb ASSIGNS" and says
   the ledger exists to stop that overwrite.
3. `setting_stranded`: migration 11 makes clearing the override of a deleted team
   the job of the RPC that deletes it; SyncTeams now archives teams and leaves
   the override, which is in force again after a reactivation.

Also met, without a run: the comment at `epoch.rs` 66-70 has the replay answer
the current epoch, while `ledger.rs` 84-92 answers the recorded one (which the
revocation theorem needs: the mutant that answers the current one breaks it).
`RecordedOnEvidence` holds at REPEATABLE READ only: at READ COMMITTED, which
`key_identity.rs` 313-320 also names, the locks that make the predicate atomic
are not taken and a marker can be recorded while a row commits. And `rotate.rs`
106-109 hashes the files early so that no swap becomes the baseline; between
`main.rs` 397, which reads the password, and `watch_set`, which reads the file
again by its path, a swap still does.

## Proofs

Each theorem is for any number of slots, people, keys and whatever else the
module takes as a constant, under the named assumptions of that module, which
TLC evaluates in its runs. The inductive invariants were model-checked on the
instances of the runs before they were proved; those of `Account` are properties
of runs, the others are in the proof modules.

| module | theorem | statement |
| --- | --- | --- |
| `AccountProofs` | `Invariance` | `Spec => []IInv` |
| | `TypeCorrect` | `Spec => []TypeOK` |
| | `RevocationEndsCredentials` | `Spec => []NoCredentialOutlivesRevocation` |
| | `RevocationEndsEnrolments` | `Spec => []NoEnrolmentOutlivesRevocation` |
| | `ResetsBump` | `Spec => EveryResetBumps` |
| `AccountLedgerProofs` | `LedgerInvariance` | `Spec => []RedeemInv` |
| | `SpendsApartFromVoids` | `Spec => []SpentXorVoided` |
| | `LedgerIsSound` | `Spec => []LedgerSound` |
| | `RetriesAreAnswered` | `Spec => []RetryNeverRefused` |
| | `MintsOnCurrentPassword` | `Spec => MintOnCurrentPassword` |
| | `DemandsComeFirst` | `Spec => DemandOnlyBeforeFirstCredential` |
| | `StatementsImplementCalls` | `Spec => ImplementsAtomic` (refinement) |
| `ServingProofs` | `ServingInvariance` | `Spec => []Inv` |
| | `ConnectionsAreClean` | `Spec => []ServingInv` |
| | `AnswersInTime` | `Spec => []AnswersBeforeTheDrop` |
| | `TimersAreNamed` | `Spec => NamesWhoRanOut` |
| | `DrainsTheBounded` | `ShortDeadlines` implies `Spec => CutsOnlyTheUnbounded` |
| `InheritedSettingProofs` | `SettingInvariance` | `Spec => []Inv` |
| | `SettingTypes` | `Spec => []TypeOK` |
| | `SettingRetries` | `Spec => []RetryNeverRefused` |
| | `ExpectsHold` | `Spec => []ExpectsDischarged` |
| | `KeysStandForRequests` | `Spec => OneKeyOneRequest` |
| | `OverridesLandOnLiveTeams` | `Spec => OverrideOnlyForLiveTeam` |
| | `DeletionsAreExplicit` | `Spec => DeletionIsExplicit` |
| `TeamsProofs` | `TeamsInvariance` | `Spec => []Inv` |
| | `TeamsAreSound` | `Spec => []TeamsInv` |
| | `NobodyIsLockedOut` | `Spec => NoLockout` |
| | `ClaimsComeFirst` | `Spec => ClaimOnlyWhenNone` |
| | `EnrolmentsAreDeclared` | `Spec => EnrolsAdministratorsOnly` |
| | `ChangesAreReported` | `Spec => ChangedMissesNobody` |
| | `SyncConverges` | `Spec => Converges` |
| | `StatementsKeepThePromise` | `Spec => ImplementsPromise` (refinement) |
| `KeyIdentityProofs` | `KeyIdentityInvariance` | `Spec => []Inv` |
| | `AnswersAreFinal` | `Spec => []MarkerInv` |
| | `OneRecordingWins` | `Spec => []OneIsRecorded` |
| | `WalksAreExact` | `Spec => []WalkIsExact` |
| | `RecordingsAreOnEvidence` | `Spec => RecordedOnEvidence` |
| `ResolveProofs` | `ResolveInvariance` | `Spec => []Inv` |
| | `AnswersAreOfOnePoint` | `Spec => []ResolveInv` |
| | `ListingsAreExact` | `Spec => []ListingIsExact` |
| | `NoLimitForTheDeleted` | `Spec => LimitsOfTheDeletedOnlyGo` |

Assumptions. Sets of slots, keys, secrets and teams may be infinite; `None`,
`Absent` and `Org` are none of the values they stand beside; requests are members
of the set of requests on the wire; times, page sizes and bounds are natural
numbers. `KeyIdentity` needs a finite `User` and `Resolve` a finite `Cred`, because
`LIMIT n` counts rows; both are sets of numeric ids there, as in the columns.
`Resolve` assumes a write is one of its RPCs with a value of the column's type.
`DrainsTheBounded` has a hypothesis of its own: no caller's deadline exceeds the
drain's budget. The request timeout is a value in `iam`'s chart, 14 s by default
(`chart/values.yaml`), and the budget is 25 s; this repository cannot rule out a
caller configured above 25 s, and then a call may be cut with time left.

### Account

The two revocation properties are not inductive: at the commit one has to know
that the set of credentials the transaction read is still all there is. `IInv`
adds what the lock gives its holder. `Exclusion`: an exclusive holder is alone
on the row. `SlotCaptured`: a transaction past its revoke and void has captured
every live credential and open enrolment of the person (nobody can add one: an
insert needs the share lock). `SlotEpoch`: a mint past its read carries the
current epoch, a bump carries the next one, an epoch answered to `iam` is the
epoch of its proof. `StoreOK`: a cutoff is an epoch that was reached, so a proof
of the current epoch is never older than it.

The proof of a step follows what it disturbs. *Quiet* steps change only their
slot (`QuietStep`): the new slot must be good and may hold only locks that were
free. *Loud* steps commit: `SlotStable` says which changes of the store leave
another slot good, `AloneOnRow` that no other slot is on the person's row,
`CommitFrame` and `RevocationFrame` put them together; `OutsideFrame` is for the
autocommit statements. `ResetsBump` uses `IInv` to know that the epoch a commit
writes is one more than the stored one.

`RedeemInv` is inductive relative to `IInv`. `SlotProof`: a hash that was verified
is the hash of its epoch, so while the epoch stands the password does too; this
is why the epoch comparison of the insert-select is enough for
`MintOnCurrentPassword`. `SlotPerson` and `SlotSpend`: what a statement found under
its lock (a live row, no credential yet, an unspent secret, what is left to
revoke) is so until the commit. `SlotRefused`: a refused redemption was of a key
recorded for another secret, or of a secret that is dead and that no call in
flight has in hand; `RetryNeverRefused` is its consequence and is not inductive
without it. `Apart`: no two calls hold one minted id or one ledger key. `LedgerStore`
is about the rows. For the refinement every statement but the committing one
stutters, and `RedeemInv` says that the commit writes what one atomic call on the
rows of that moment would.

### ConnPool and Serving

`Holds` says that the connection of a call is in exactly the state its program
counter calls for, and every other connection is like a new one. That no call
leaves a pending isolation level behind is its consequence, and it has to be that
strong: a call dropped in the middle of SET TRANSACTION closes its connection
because of what `armed` says then. `Waits`: nobody waits beyond the bound, so a
caller who waits still has the margin (`WaitLeaves`), and `TimersAreNamed` follows
from what `TimeOut` compares; the failing acquire needs a free slot, so it never
speaks for an exhausted pool. `Spends`: what the drain has
used of its budget every call in flight has used of its deadline. `Flights` ties
the calls to the life of the process.

### InheritedSetting

`Checked`: a call in flight carries an admitted request. `Written`: a value written
and not committed is one the column admits, and its team is live for as long as
the call shares the row, which is until it ends. `Claims` says what the ledger holds
for a call's key at each statement, and `OneClaim` that a key is claimed by one
call at a time; the refusal of a duplicate is then always about another request.

### Teams

`Tables` has the foreign keys, `PendingNamed` and `FollowsLast` (the tables are what
the last declaration made them, but for one claim since), which `Converges` needs.
`Exclusive`: one sync has the sentinel, one call the administrators row. For each
call, `Counts` (past its count nobody else changes who administers), `Reads` (what
it read of a person holds, but that somebody live may have been withdrawn),
`Wrote` (what it wrote is what it would write now) and `Decided` (the predicates of
the claim and the declared arm). The refinement maps a sync's commit to one
declaration; lemmas say what the commit does to every person's live teams.

### KeyIdentity

`Inserts`: one insert is in flight, over an absent marker. `Stands`: what a call was
told holds of the marker. `Evident`: at REPEATABLE READ what the predicate read
still holds, as the SELECT keeps user rows out. `Walks`: a walk has served once
what was there up to its position and nothing beyond. The lemmas are about
`ORDER BY created_at, id LIMIT n`: rows are strictly and totally ordered, a
non-empty set of rows has an oldest and a youngest, a prefix has at most n rows, is
closed downwards and is short only if it is everything; so ids that pass the
predicate are the oldest rows, and a page followed from its last row skips none.

### Resolve

`Reading`: the part of the answer read so far is what the state of the first
statement says. It needs `Holds` of `ConnPoolProofs`, that the connection is inside
a REPEATABLE READ transaction; the chain from `conn.rs` to `credential.rs` is one
proof. `Walked` is the walk's invariant, over the history of the store: a
credential before the position that was not listed was not live in some state
since the walk began. `OneWalks` was found by the proof: two pages of one walk in
flight at once would list a credential twice, which a client that follows page
tokens cannot do, and `StartList` now says so.

### Only model-checked

Liveness under fairness, which is out of the prover's reach: `Answered` (of Account,
InheritedSetting and KeyIdentity), `EveryWaitEnds` and `StopEndsIt` of Serving. The
findings are counterexamples of TLC.

## Not modelled

Telemetry, logging, the actor records and the wording of refusals. The handlers
differ in nothing else, so they are one action. Which environment a boot step
refuses (parsing of numbers, addresses, TLS modes) and the migration runner, a
library under an advisory lock. The content of rows (names, labels, ciphertexts,
hashes) is reduced to identity, and so are the counters in answers; of a sync's
answer only `changed_user_ids` is kept. Refusals that come before any statement
and depend on spelling alone are left out (a malformed id or team name, a repeated
evidence id, a rate-limit kind that is never stored, a page token that was not
issued), as is a team name that exists under another id, which no RPC can produce.
A deadlock victim is modelled where the code's own order admits one
(InheritedSetting).

## Plan

Done: the modules above, and theorems for every safety property of the passing
runs, the two refinements included. What could follow:

1. The repair of each finding as a theorem: with the re-read under a lock
   `OkMeansInserted` would be an invariant of `Account`, and with a duplicate
   that agrees rolling its write back `NoRedeliveryUndoes` would hold of
   `InheritedSetting`.
2. What `RecordedOnEvidence` leaves open at READ COMMITTED: a statement of how far
   the marker can then be from the oldest rows.
3. Serving and the account modules composed, to carry a dropped call's effect from
   the connection to the rows (each module has its own `Drop` today).
