------------------------------ MODULE Account ------------------------------
(***************************************************************************)
(* The account RPCs at the grain of the SQL statements they run.  A member *)
(* of Txn is one slot of the caller (iam): it is idle, or inside one RPC   *)
(* of this service, or holds the proof a first RPC gave it (GetPasswordHash*)
(* or RedeemEnrolment) and is about to spend it on CreateCredential.       *)
(*                                                                         *)
(* A transaction's writes are kept in its slot and reach the store at the  *)
(* commit, so a dropped call (deadline, crash, rollback) loses them all.   *)
(* The engine is modelled from how the code uses it: record locks on the   *)
(* user row (shared for the insert-selects, exclusive for FOR UPDATE and   *)
(* UPDATE), on the enrolment and credential rows an UPDATE has changed and *)
(* on an uncommitted unique key; a statement reads the last committed rows *)
(* when it gets its locks.                                                 *)
(***************************************************************************)
EXTENDS AccountStore

CONSTANTS
    Txn,        \* request slots of the caller
    PreMinted,  \* ids an operator declared before the user row exists (F2)
    MaxEpoch,   \* bound: no call that would bump past this epoch is started
    Calls       \* bound: the calls and outside events of this instance

ASSUME PreMintedAssumption == PreMinted \subseteq User
ASSUME MaxEpochAssumption == MaxEpoch \in Nat
ASSUME CallsAssumption ==
    Calls \subseteq {"GetPasswordHash", "CreateCredential", "RevokeCredential",
                     "RevokeAllCredentials", "SetPassword", "RedeemEnrolment",
                     "ordinary", "revoking", "demand",  \* CreateEnrolment's arms
                     "SetUserAdmin", "SoftDelete", "Expire"}

VARIABLE txn

vars == <<row, admin, epoch, pw, enr, cred, ledger, cutoff, txn>>

XPc == {"owned", "unspent", "spent", "revoking", "written",  \* RedeemEnrolment
        "locked", "voided",                                  \* RevokeAll
        "bumped"}                                            \* SetPassword
SPc == {"minting", "enrolling"}
ServerPc == XPc \cup SPc \cup {"keyed", "zero"}
Pc == ServerPc \cup {"idle", "proved", "done"}

\* Answers; "" before there is one.
Refusal == {"SPENT", "VOIDED", "EXPIRED", "NOT_FOUND", "UNAVAILABLE"}
Out == Refusal \cup {"", "OK", "INVALID_ARGUMENT", "ALREADY_EXISTS",
                     "FAILED_PRECONDITION", "PERMISSION_DENIED"}

TxnRec == [pc       : Pc,
           user     : User \cup {None},
           secret   : Secret \cup {None},
           key      : Key \cup {None},
           demand   : BOOLEAN,      \* require_zero_credential_admin
           revoking : BOOLEAN,      \* revoke_existing_credentials
           checked  : BOOLEAN,      \* expected_credential_epoch is present
           epoch    : Nat,          \* the epoch answered, or written
           auth     : Nat,          \* HISTORY: the epoch of the proof
           pw       : Nat,          \* HISTORY: the hash of the proof
           creds    : SUBSET Cred,  \* tombstoned by this call, or its new id
           enrs     : SUBSET Secret,\* voided by this call, or its new row
           out      : Out]

Idle == [pc |-> "idle", user |-> None, secret |-> None, key |-> None,
         demand |-> FALSE, revoking |-> FALSE, checked |-> FALSE,
         epoch |-> 0, auth |-> 0, pw |-> 0, creds |-> {}, enrs |-> {},
         out |-> ""]

\* The type invariant: the tables and every slot are what the columns and the
\* request fields can hold; in particular no epoch is ever below zero.
TypeOK == StoreTypeOK /\ txn \in [Txn -> TxnRec]

Init == StoreInit /\ txn = [t \in Txn |-> Idle]

-----------------------------------------------------------------------------
(* Locks, read off the slots.                                              *)

\* Mutant: a redemption reads its owner without FOR UPDATE, so the bump, after
\* the spend, is the first to lock the user row.
HoldsXFromBump(t, u) == txn[t].user = u /\ txn[t].pc \in XPc \ {"owned", "unspent", "spent"}

\* FOR UPDATE or UPDATE of the user row, kept to the end of the transaction.
HoldsX(t, u) == txn[t].user = u /\ txn[t].pc \in XPc

\* LOCK IN SHARE MODE of the user row in an insert-select.
HoldsS(t, u) == txn[t].user = u /\ txn[t].pc \in SPc

\* Mutant: plain reads where the code reads FOR UPDATE.
CanXUnlocked(t, u) == \A o \in Txn \ {t} : ~HoldsS(o, u)

\* Mutant: the insert-selects without LOCK IN SHARE MODE.
CanSUnlocked(t, u) == row[u] \in RowState

CanX(t, u) == \A o \in Txn \ {t} : ~HoldsX(o, u) /\ ~HoldsS(o, u)
CanS(t, u) == \A o \in Txn \ {t} : ~HoldsX(o, u)

\* An autocommit UPDATE or INSERT of the user row by nobody's slot.
RowFree(u) == \A t \in Txn : ~HoldsX(t, u) /\ ~HoldsS(t, u)

\* The enrolment rows a transaction has changed: the one it spent, the ones it
\* voided.
HoldsEnr(t, s) ==
    \/ txn[t].pc \in {"spent", "revoking", "written"} /\ txn[t].secret = s
    \/ txn[t].pc \in {"voided", "revoking", "written"} /\ s \in txn[t].enrs

\* Nobody else has changed any of these rows.
CanEnrs(t, S) == \A o \in Txn \ {t}, s \in S : ~HoldsEnr(o, s)

\* The demand arm's share lock over the absent iam_credential rows.
GapLocked(t, u) == \E o \in Txn \ {t} : /\ txn[o].pc = "enrolling"
                                        /\ txn[o].demand
                                        /\ txn[o].user = u

\* An uncommitted ledger row of the same key: a unique key being inserted.
KeyHeld(t, k) == \E o \in Txn \ {t} : /\ k # None
                                      /\ txn[o].pc = "written"
                                      /\ txn[o].key = k

-----------------------------------------------------------------------------
(* Which calls are made.                                                   *)

\* An id a caller can name: a row that exists, or one declared in advance.
Named(u) == row[u] # "absent" \/ u \in PreMinted

\* The calls that will bump the person's epoch.
Bumping(u) == {t \in Txn : \/ HoldsX(t, u)
                           \/ /\ txn[t].pc = "keyed"
                              /\ txn[t].secret # None
                              /\ enr[txn[t].secret].user = u}
Room(u) == epoch[u] + Cardinality(Bumping(u)) < MaxEpoch

\* A fresh uuid: neither stored nor the id of a call under way or answered.
FreshCred(c) == cred[c].user = None /\ \A t \in Txn : c \notin txn[t].creds

\* credential_epoch + 1, as the bumping transaction then reads it.
Bumped(u) == epoch[u] + 1

Goto(t, r) == txn' = [txn EXCEPT ![t] = r]

\* The call ends with an answer.
Answer(t, out) == Goto(t, [Idle EXCEPT !.pc = "done", !.out = out])

\* A redemption's answer, with the secret and the key it was asked with.
AnswerRedeem(t, out, s, k) ==
    Goto(t, [Idle EXCEPT !.pc = "done", !.out = out, !.secret = s, !.key = k])

\* OK with the id of the row, minted before the statement ran.
AnswerCreated(t) ==
    Goto(t, [Idle EXCEPT !.pc = "done", !.out = "OK", !.user = txn[t].user,
                         !.creds = txn[t].creds, !.enrs = txn[t].enrs])

Proved(u, e, auth, p) == [Idle EXCEPT !.pc = "proved", !.user = u, !.epoch = e,
                                      !.auth = auth, !.pw = p]

-----------------------------------------------------------------------------
(* CreateCredential, and the two ways iam comes to make a checked one.     *)

\* GetPasswordHash, with the right password: hash and epoch are read in one
\* statement.  An unknown person, or a wrong password, ends there.
GetPasswordHash(t, u) ==
    /\ txn[t].pc = "idle"
    /\ row[u] = "live"
    /\ pw[u] # 0
    /\ Goto(t, Proved(u, epoch[u], epoch[u], pw[u]))
    /\ UNCHANGED store

\* Mutant: UNCHECKED run for a request that carries an epoch.
MintMatchesAnyEpoch(u, checked, e) == row[u] = "live"

\* The insert-selects' WHERE: a live person, in the expected epoch if the
\* request carries one.
MintMatches(u, checked, e) == row[u] = "live" /\ (checked => epoch[u] = e)

\* The statement gets its share lock and reads the user row.
MintRead(t, r) ==
    /\ CanS(t, r.user)
    /\ Goto(t, [r EXCEPT !.pc = IF MintMatches(r.user, r.checked, r.epoch)
                                THEN "minting" ELSE "zero"])
    /\ UNCHANGED store

CreateCredentialUnchecked(t, u, c) ==
    /\ txn[t].pc = "idle"
    /\ Named(u)
    /\ FreshCred(c)
    /\ MintRead(t, [Idle EXCEPT !.user = u, !.creds = {c}, !.auth = epoch[u]])

CreateCredentialChecked(t, c) ==
    /\ txn[t].pc = "proved"
    /\ FreshCred(c)
    /\ MintRead(t, [txn[t] EXCEPT !.creds = {c}, !.checked = TRUE])

\* The insert and its autocommit.  It waits for a demand insert that has
\* share-locked the person's absent credential rows.
MintInsert(t) ==
    /\ txn[t].pc = "minting"
    /\ ~GapLocked(t, txn[t].user)
    /\ cred' = [c \in Cred |->
                   IF c \in txn[t].creds
                   THEN [user |-> txn[t].user, revoked |-> FALSE,
                         auth |-> txn[t].auth]
                   ELSE cred[c]]
    /\ AnswerCreated(t)
    /\ UNCHANGED <<row, admin, epoch, pw, enr, ledger, cutoff>>

\* Zero rows inserted: live_user re-reads, in a statement of its own.  A
\* checked mint is then stale, a demand refused; the other arms fall through
\* to OK with the id of a row that was not inserted.
Reread(t) ==
    /\ txn[t].pc = "zero"
    /\ \/ row[txn[t].user] # "live" /\ Answer(t, "NOT_FOUND")
       \/ /\ row[txn[t].user] = "live"
          /\ \/ txn[t].checked /\ Answer(t, "FAILED_PRECONDITION")
             \/ txn[t].demand /\ Answer(t, "PERMISSION_DENIED")
             \/ ~txn[t].checked /\ ~txn[t].demand /\ AnswerCreated(t)
    /\ UNCHANGED store

-----------------------------------------------------------------------------
(* RevokeAllCredentials and SetPassword.                                   *)

\* FOR UPDATE, no deleted_at filter.  With no row at all the answer is
\* NOT_FOUND and nothing is written.
RevokeAllLock(t, u) ==
    /\ txn[t].pc = "idle"
    /\ row[u] # "absent"
    /\ Room(u)
    /\ CanX(t, u)
    /\ Goto(t, [Idle EXCEPT !.pc = "locked", !.user = u])
    /\ UNCHANGED store

\* The three updates under the user-row lock: credentials, epoch, enrolments.
RevokeAllWrite(t) ==
    LET u == txn[t].user
    IN  /\ txn[t].pc = "locked"
        /\ CanEnrs(t, OpenEnrs(u))
        /\ Goto(t, [txn[t] EXCEPT !.pc = "voided", !.creds = LiveCreds(u),
                                  !.enrs = OpenEnrs(u), !.epoch = Bumped(u)])
        /\ UNCHANGED store

\* Mutant: revoke-all without revoke::void.
RevokeAllCommitNoVoid(t) ==
    LET u == txn[t].user
    IN  /\ txn[t].pc = "voided"
        /\ epoch' = [epoch EXCEPT ![u] = txn[t].epoch]
        /\ cred' = Revoked(txn[t].creds)
        /\ cutoff' = [cutoff EXCEPT ![u] = txn[t].epoch]
        /\ Goto(t, Idle)
        /\ UNCHANGED <<row, admin, pw, enr, ledger>>

RevokeAllCommit(t) ==
    LET u == txn[t].user
    IN  /\ txn[t].pc = "voided"
        /\ epoch' = [epoch EXCEPT ![u] = txn[t].epoch]
        /\ cred' = Revoked(txn[t].creds)
        /\ enr' = Voided(txn[t].enrs)
        /\ cutoff' = [cutoff EXCEPT ![u] = txn[t].epoch]
        /\ Goto(t, Idle)
        /\ UNCHANGED <<row, admin, pw, ledger>>

\* bump_live first.  When it matches nothing the answer is NOT_FOUND: the
\* re-read runs under the lock the UPDATE left on the row, or on its gap.
SetPasswordBump(t, u) ==
    /\ txn[t].pc = "idle"
    /\ row[u] = "live"
    /\ Room(u)
    /\ CanX(t, u)
    /\ Goto(t, [Idle EXCEPT !.pc = "bumped", !.user = u, !.epoch = Bumped(u)])
    /\ UNCHANGED store

\* The upsert of the hash, under the same lock, and the commit.
SetPasswordCommit(t) ==
    LET u == txn[t].user
    IN  /\ txn[t].pc = "bumped"
        /\ epoch' = [epoch EXCEPT ![u] = txn[t].epoch]
        /\ pw' = [pw EXCEPT ![u] = @ + 1]
        /\ Goto(t, Idle)
        /\ UNCHANGED <<row, admin, enr, cred, ledger, cutoff>>

-----------------------------------------------------------------------------
(* CreateEnrolment, the derivation-off arms.                               *)

\* The insert-selects' WHERE: a live person, and for the demand arm one who
\* has never held a credential.
EnrolMatches(u, demand) == row[u] = "live" /\ (demand => ZeroCredentialAdmin(u))

\* The demand carrying the revoke instruction is refused before any read.
CreateEnrolment(t, u, s, demand, revoking) ==
    /\ txn[t].pc = "idle"
    /\ Named(u)
    /\ ~(demand /\ revoking)
    /\ CanS(t, u)
    /\ Goto(t, [Idle EXCEPT !.pc = IF EnrolMatches(u, demand)
                                   THEN "enrolling" ELSE "zero",
                            !.user = u, !.secret = s, !.enrs = {s},
                            !.demand = demand, !.revoking = revoking])
    /\ UNCHANGED store

\* The insert and its autocommit, or the duplicate secret, which waits for who
\* has changed the row.
EnrolInsert(t) ==
    LET s == txn[t].secret
    IN  /\ txn[t].pc = "enrolling"
        /\ \/ /\ enr[s].user = None
              /\ enr' = [enr EXCEPT ![s] =
                            [NoEnr EXCEPT !.user = txn[t].user,
                                          !.at = epoch[txn[t].user],
                                          !.demand = txn[t].demand,
                                          !.revoking = txn[t].revoking]]
              /\ AnswerCreated(t)
           \/ /\ enr[s].user # None
              /\ CanEnrs(t, {s})
              /\ Answer(t, "ALREADY_EXISTS")
              /\ UNCHANGED enr
        /\ UNCHANGED <<row, admin, epoch, pw, cred, ledger, cutoff>>

-----------------------------------------------------------------------------
(* RedeemEnrolment: one READ COMMITTED transaction.  A secret is presented *)
(* after its enrolment committed, or names none (secret = None).           *)

\* Mutant: the replay answers the person's current epoch.
ReplayEpochCurrent(k) == epoch[ledger[k].user]

\* replay answers the epoch the first delivery recorded.
ReplayEpoch(k) == ledger[k].epoch

ReplayAnswer(t, k) ==
    Goto(t, Proved(ledger[k].user, ReplayEpoch(k), ledger[k].epoch,
                   ledger[k].pw))

\* The ledger row of this key: the original outcome for the same secret, a
\* refusal for another.
Replay(t, s, k) ==
    \/ /\ ledger[k].secret = s
       /\ ReplayAnswer(t, k)
    \/ /\ ledger[k].secret # s
       /\ Answer(t, "INVALID_ARGUMENT")

\* The first ledger check, a plain read.  The hash's size is checked after
\* it, before anything is locked.
RedeemBegin(t, s, k) ==
    /\ txn[t].pc = "idle"
    /\ s # None => enr[s].user # None
    /\ \/ ~KeyFree(k) /\ Replay(t, s, k)
       \/ /\ KeyFree(k)
          /\ s # None => Room(enr[s].user)
          /\ \/ Goto(t, [Idle EXCEPT !.pc = "keyed", !.secret = s, !.key = k])
             \/ Answer(t, "INVALID_ARGUMENT")
    /\ UNCHANGED store

\* lock_owner: an unknown secret locks nothing.
RedeemLock(t) ==
    LET s == txn[t].secret
        u == IF s = None THEN None ELSE enr[s].user
    IN  /\ txn[t].pc = "keyed"
        /\ u # None => CanX(t, u)
        /\ Goto(t, [txn[t] EXCEPT !.pc = "owned", !.user = u])
        /\ UNCHANGED store

\* Mutant: the spend without spent_at IS NULL.
SpendMatchesSpent(s) ==
    /\ s # None
    /\ enr[s].user # None /\ ~enr[s].voided /\ row[enr[s].user] = "live"
    /\ ~enr[s].expired

\* Mutant: the spend without voided_at IS NULL.
SpendMatchesVoided(s) ==
    /\ s # None
    /\ enr[s].user # None /\ ~enr[s].spent /\ row[enr[s].user] = "live"
    /\ ~enr[s].expired

\* The spend's whole WHERE, the engine's clock included.
SpendMatches(s) == s # None /\ Unspent(s) /\ ~enr[s].expired

RedeemSpend(t) ==
    /\ txn[t].pc = "owned"
    /\ CanEnrs(t, {txn[t].secret})
    /\ Goto(t, [txn[t] EXCEPT !.pc = IF SpendMatches(txn[t].secret)
                                     THEN "spent" ELSE "unspent"])
    /\ UNCHANGED store

\* Why the spend matched nothing.
Unredeemable(s) ==
    IF s = None \/ row[enr[s].user] # "live" THEN "NOT_FOUND"
    ELSE IF enr[s].spent THEN "SPENT"
    ELSE IF enr[s].voided THEN "VOIDED"
    ELSE "EXPIRED"

\* Mutant: no second ledger check.
SecondCheckSkipped(t, s, k) == AnswerRedeem(t, Unredeemable(s), s, k)

\* The second ledger check, FOR UPDATE: it waits for an uncommitted row of
\* the key.  The failure itself is not recorded.
SecondCheck(t, s, k) ==
    IF KeyFree(k) THEN AnswerRedeem(t, Unredeemable(s), s, k) ELSE Replay(t, s, k)

RedeemUnspent(t) ==
    /\ txn[t].pc = "unspent"
    /\ ~KeyHeld(t, txn[t].key)
    /\ SecondCheck(t, txn[t].secret, txn[t].key)
    /\ UNCHANGED store

\* The bump, and for a flagged enrolment revoke::all and void.  The spent row
\* is this transaction's own, so the void's WHERE leaves it out.  Both wait for
\* their rows, and have the user row since lock_owner.
RedeemRevoke(t) ==
    LET u == txn[t].user
        all == enr[txn[t].secret].revoking
    IN  /\ txn[t].pc = "spent"
        /\ CanX(t, u)
        /\ all => CanEnrs(t, OpenEnrs(u))
        /\ Goto(t, [txn[t] EXCEPT !.pc = "revoking", !.revoking = all,
                                  !.epoch = Bumped(u),
                                  !.creds = IF all THEN LiveCreds(u) ELSE {},
                                  !.enrs = IF all THEN OpenEnrs(u) \ {txn[t].secret}
                                           ELSE {}])
        /\ UNCHANGED store

\* The password and the ledger row.  The insert waits for an uncommitted row
\* of the same key; a duplicate fails the statement and rolls back.
RedeemWrite(t) ==
    /\ txn[t].pc = "revoking"
    /\ ~KeyHeld(t, txn[t].key)
    /\ IF KeyFree(txn[t].key)
       THEN Goto(t, [txn[t] EXCEPT !.pc = "written"])
       ELSE AnswerRedeem(t, "UNAVAILABLE", txn[t].secret, txn[t].key)
    /\ UNCHANGED store

RedeemCommit(t) ==
    LET x == txn[t]
        u == x.user
    IN  /\ x.pc = "written"
        /\ epoch' = [epoch EXCEPT ![u] = x.epoch]
        /\ pw' = [pw EXCEPT ![u] = @ + 1]
        /\ cred' = Revoked(x.creds)
        /\ enr' = [Voided(x.enrs) EXCEPT ![x.secret].spent = TRUE]
        /\ cutoff' = IF x.revoking THEN [cutoff EXCEPT ![u] = x.epoch] ELSE cutoff
        /\ ledger' = IF x.key = None THEN ledger
                     ELSE [ledger EXCEPT ![x.key] =
                              [secret |-> x.secret, user |-> u,
                               epoch |-> x.epoch, pw |-> pw[u] + 1]]
        /\ Goto(t, Proved(u, x.epoch, x.epoch, pw[u] + 1))
        /\ UNCHANGED <<row, admin>>

-----------------------------------------------------------------------------
(* Single autocommit statements, the clock, and calls that end early.      *)

\* A tombstone waits for the transaction that is tombstoning the same row.
CredLocked(c) == \E t \in Txn : /\ txn[t].pc \in {"voided", "revoking", "written"}
                                /\ c \in txn[t].creds

RevokeOne(c, u) == ~CredLocked(c) /\ RevokeCredential(c, u) /\ UNCHANGED txn

\* The F2 arm creates the declared id, and never with the flag.
NewUser(u, isAdmin) ==
    /\ RowFree(u)
    /\ u \in PreMinted => ~isAdmin
    /\ CreateUser(u, isAdmin)
    /\ UNCHANGED txn

SetAdmin(u, isAdmin) == RowFree(u) /\ SetUserAdmin(u, isAdmin) /\ UNCHANGED txn
Withdraw(u) == RowFree(u) /\ SoftDelete(u) /\ UNCHANGED txn
Tick(s) == Expire(s) /\ UNCHANGED txn

\* The answer is read; or the call is dropped at its deadline, its process
\* dies, a statement fails: the transaction rolls back.
Drop(t) == txn[t].pc # "idle" /\ Goto(t, Idle) /\ UNCHANGED store

Step(t) ==
    \/ MintInsert(t) \/ Reread(t) \/ EnrolInsert(t)
    \/ RevokeAllWrite(t) \/ RevokeAllCommit(t) \/ SetPasswordCommit(t)
    \/ RedeemLock(t) \/ RedeemSpend(t) \/ RedeemUnspent(t) \/ RedeemRevoke(t)
    \/ RedeemWrite(t) \/ RedeemCommit(t)

Begin(t) ==
    \/ \E u \in User :
          \/ "GetPasswordHash" \in Calls /\ GetPasswordHash(t, u)
          \/ "RevokeAllCredentials" \in Calls /\ RevokeAllLock(t, u)
          \/ "SetPassword" \in Calls /\ SetPasswordBump(t, u)
          \/ "CreateCredential" \in Calls
                /\ \E c \in Cred : CreateCredentialUnchecked(t, u, c)
          \/ \E s \in Secret, arm \in Calls \cap {"ordinary", "revoking", "demand"} :
                CreateEnrolment(t, u, s, arm = "demand", arm = "revoking")
    \/ \E c \in Cred : CreateCredentialChecked(t, c)
    \/ "RedeemEnrolment" \in Calls
          /\ \E s \in Secret \cup {None}, k \in Key \cup {None} : RedeemBegin(t, s, k)

Others ==
    \/ \E u \in User :
          \/ \E b \in BOOLEAN : NewUser(u, b)
          \/ "SetUserAdmin" \in Calls /\ \E b \in BOOLEAN : SetAdmin(u, b)
          \/ "SoftDelete" \in Calls /\ Withdraw(u)
          \/ "RevokeCredential" \in Calls /\ \E c \in Cred : RevokeOne(c, u)
    \/ "Expire" \in Calls /\ \E s \in Secret : Tick(s)

Next == Others \/ \E t \in Txn : Begin(t) \/ Step(t) \/ Drop(t)

Spec == Init /\ [][Next]_vars

\* A statement waiting for a lock is queued by the engine, so it is not passed
\* over for ever; nothing makes a caller call, or an answer be dropped.
FairSpec == Spec /\ \A t \in Txn : SF_vars(Step(t))

-----------------------------------------------------------------------------
(* Properties.                                                             *)

\* After a revoke-all, or the redemption of a revoking enrolment, commits, no
\* live credential rests on a proof older than it: the credentials the call's
\* UPDATE saw are tombstoned, the ones it could not see (a Login that read the
\* old hash, a replayed redemption key) are refused by the epoch check.
NoCredentialOutlivesRevocation ==
    \A u \in User : \A c \in LiveCreds(u) : cred[c].auth >= cutoff[u]

\* And no enrolment issued before it can still be redeemed (revoke::void).
NoEnrolmentOutlivesRevocation ==
    \A u \in User : \A s \in OpenEnrs(u) : enr[s].at >= cutoff[u]

\* ledger.rs: "Spent and voided are never both set".  The void and the spend
\* each skip the other's rows, as they stand when the statement has its locks:
\* neither may act on a row that the other has changed and not committed.
SpentXorVoided == \A s \in Secret : ~(enr[s].spent /\ enr[s].voided)

\* A redelivery of a redemption that committed is never refused: the D9
\* lockout the second ledger check closes for two deliveries in flight.
RetryNeverRefused ==
    \A t \in Txn : (/\ txn[t].pc = "done"
                    /\ txn[t].out \in Refusal
                    /\ txn[t].key # None
                    /\ txn[t].secret # None)
                       => ledger[txn[t].key].secret # txn[t].secret

\* A ledger row stands for one redemption that happened: its secret is spent,
\* belongs to the person it names, and no other key redeemed it too.
LedgerSound ==
    \A k \in Key : ledger[k].secret # None =>
        /\ enr[ledger[k].secret].spent
        /\ enr[ledger[k].secret].user = ledger[k].user
        /\ \A l \in Key : ledger[l].secret = ledger[k].secret => l = k

\* A checked credential is inserted only while the password that was verified
\* for it is the stored one: SetPassword or a redemption in between refuses it.
MintOnCurrentPassword ==
    [][\A t \in Txn, c \in Cred :
          (/\ cred[c].user = None
           /\ cred'[c].user # None
           /\ c \in txn[t].creds
           /\ txn[t].checked) => txn[t].pw = pw[txn[t].user]]_vars

\* Every new password and every revocation moves the epoch by exactly one, and
\* nothing else moves it: two bumps in flight never merge into one.
EveryResetBumps ==
    [][\A u \in User :
          LET reset == pw'[u] # pw[u] \/ cutoff'[u] # cutoff[u]
          IN  epoch'[u] = IF reset THEN epoch[u] + 1 ELSE epoch[u]]_vars

\* ADR-0656: the demand arm never enrols somebody who has a password or has
\* ever held a credential, revoked ones included, as of the moment its row
\* appears.
DemandOnlyBeforeFirstCredential ==
    [][\A s \in Secret :
          (enr[s].user = None /\ enr'[s].user # None /\ enr'[s].demand) =>
             /\ pw[enr'[s].user] = 0
             /\ \A c \in Cred : cred[c].user # enr'[s].user]_vars

\* Every statement-level behaviour is one of the atomic specification.
Atomic == INSTANCE AccountAtomic
ImplementsAtomic == Atomic!AtomicSpec

\* No call waits for ever: every lock is released and the queue moves.  A cycle
\* of waits has no way out in this model, so this also says that none can form
\* (redeem.rs: "THE LOCK ORDER IS USER ROW, THEN ENROLMENT ROW, FOR EVERY WRITER"),
\* where the engine would kill a call with 1213.
Answered == \A t \in Txn : (txn[t].pc \in ServerPc) ~> (txn[t].pc \notin ServerPc)

\* enrolment.rs: "on the ordinary arm a live user with no row inserted is a
\* state no statement can reach" - so an OK carries the id of a stored row.
OkMeansInserted ==
    \A t \in Txn : (txn[t].pc = "done" /\ txn[t].out = "OK") =>
        /\ \A c \in txn[t].creds : cred[c].user = txn[t].user
        /\ \A s \in txn[t].enrs : enr[s].user = txn[t].user
=============================================================================
