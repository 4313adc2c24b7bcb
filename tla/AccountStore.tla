---------------------------- MODULE AccountStore ----------------------------
(***************************************************************************)
(* The committed rows an account is made of: iam_user, iam_password,       *)
(* iam_enrolment, iam_credential and the redemption ledger, and the        *)
(* predicates the SQL statements evaluate on them.  Both the atomic        *)
(* specification (AccountAtomic) and the statement-level one (Account)     *)
(* extend this module.                                                     *)
(*                                                                         *)
(* A secret hash identifies its enrolment (UNIQUE secret_hash), so an      *)
(* enrolment row is addressed by its secret.  A row that was never         *)
(* inserted has user = None.  The fields marked HISTORY are not columns:   *)
(* they record when something happened, for the properties only.           *)
(***************************************************************************)
EXTENDS Naturals, FiniteSets

CONSTANTS
    User,       \* the ids of people
    Secret,     \* enrolment secret hashes
    Key,        \* non-empty idempotency keys of RedeemEnrolment
    Cred,       \* credential ids
    None        \* "no row", "no key", "no such secret"

ASSUME NoneAssumption == None \notin User \cup Secret \cup Key \cup Cred

VARIABLES
    row,        \* iam_user: "absent", "live" or "deleted" (deleted_at set)
    admin,      \* iam_user.is_admin
    epoch,      \* iam_user.credential_epoch
    pw,         \* iam_password: 0 for no row, n for the n-th hash written
    enr,        \* iam_enrolment, by secret hash
    cred,       \* iam_credential
    ledger,     \* iam_enrolment_redemption, by idempotency key
    cutoff      \* HISTORY: the epoch set by the last committed revoke-all
                \* or revoking redemption of the person

store == <<row, admin, epoch, pw, enr, cred, ledger, cutoff>>

RowState == {"absent", "live", "deleted"}

EnrRow == [user     : User \cup {None},
           revoking : BOOLEAN,  \* revoke_existing_credentials
           expired  : BOOLEAN,  \* expires_at <= CURRENT_TIMESTAMP
           spent    : BOOLEAN,  \* spent_at IS NOT NULL
           voided   : BOOLEAN,  \* voided_at IS NOT NULL
           demand   : BOOLEAN,  \* HISTORY: inserted by the demand arm
           at       : Nat]      \* HISTORY: the person's epoch at the insert

CredRow == [user    : User \cup {None},
            revoked : BOOLEAN,  \* revoked_at IS NOT NULL
            auth    : Nat]      \* HISTORY: the epoch in which the holder
                                \* proved who they are

LedgerRow == [secret : Secret \cup {None},
              user   : User \cup {None},
              epoch  : Nat,
              pw     : Nat]     \* HISTORY: the hash that redemption wrote

NoEnr == [user |-> None, revoking |-> FALSE, expired |-> FALSE,
          spent |-> FALSE, voided |-> FALSE, demand |-> FALSE, at |-> 0]
NoCred == [user |-> None, revoked |-> FALSE, auth |-> 0]
NoRow == [secret |-> None, user |-> None, epoch |-> 0, pw |-> 0]

StoreTypeOK ==
    /\ row \in [User -> RowState]
    /\ admin \in [User -> BOOLEAN]
    /\ epoch \in [User -> Nat]
    /\ pw \in [User -> Nat]
    /\ enr \in [Secret -> EnrRow]
    /\ cred \in [Cred -> CredRow]
    /\ ledger \in [Key -> LedgerRow]
    /\ cutoff \in [User -> Nat]

\* The store after the migrations: empty tables.
StoreInit ==
    /\ row = [u \in User |-> "absent"]
    /\ admin = [u \in User |-> FALSE]
    /\ epoch = [u \in User |-> 0]
    /\ pw = [u \in User |-> 0]
    /\ enr = [s \in Secret |-> NoEnr]
    /\ cred = [c \in Cred |-> NoCred]
    /\ ledger = [k \in Key |-> NoRow]
    /\ cutoff = [u \in User |-> 0]

-----------------------------------------------------------------------------
(* What the statements' WHERE clauses select.                              *)

\* revoke::all: user_id = ? AND revoked_at IS NULL.
LiveCreds(u) == {c \in Cred : cred[c].user = u /\ ~cred[c].revoked}

\* revoke::void: user_id = ? AND spent_at IS NULL AND voided_at IS NULL.
\* Expired rows are voided too.
OpenEnrs(u) == {s \in Secret : /\ enr[s].user = u
                               /\ ~enr[s].spent
                               /\ ~enr[s].voided}

\* The spend's WHERE, the clock left out: unspent, not voided, person live.
Unspent(s) ==
    /\ enr[s].user # None
    /\ ~enr[s].spent
    /\ ~enr[s].voided
    /\ row[enr[s].user] = "live"

\* Mutant: the natural live-rows reading that ADR-0656 rules out.
ZeroLiveCredentialAdmin(u) ==
    /\ row[u] = "live"
    /\ admin[u]
    /\ pw[u] = 0
    /\ LiveCreds(u) = {}

\* The demand arm's joins: a live administrator with no password row and no
\* credential row of any liveness.
ZeroCredentialAdmin(u) ==
    /\ row[u] = "live"
    /\ admin[u]
    /\ pw[u] = 0
    /\ \A c \in Cred : cred[c].user # u

\* A key that has redeemed nothing yet; the empty key never has.
KeyFree(k) == k \in Key => ledger[k].secret = None

\* The rows after setting revoked_at, or voided_at, on a set of them.
Revoked(C) == [c \in Cred |-> IF c \in C THEN [cred[c] EXCEPT !.revoked = TRUE]
                                         ELSE cred[c]]
Voided(S) == [s \in Secret |-> IF s \in S THEN [enr[s] EXCEPT !.voided = TRUE]
                                          ELSE enr[s]]

-----------------------------------------------------------------------------
(* Autocommit statements that change one row of iam_user, and the clock.   *)

\* CreateUser: the ordinary arm mints the id; the F2 arm is given it.
CreateUser(u, isAdmin) ==
    /\ row[u] = "absent"
    /\ row' = [row EXCEPT ![u] = "live"]
    /\ admin' = [admin EXCEPT ![u] = isAdmin]
    /\ UNCHANGED <<epoch, pw, enr, cred, ledger, cutoff>>

SetUserAdmin(u, isAdmin) ==
    /\ row[u] = "live"
    /\ admin' = [admin EXCEPT ![u] = isAdmin]
    /\ UNCHANGED <<row, epoch, pw, enr, cred, ledger, cutoff>>

\* External: no handler writes deleted_at; an operator does.
SoftDelete(u) ==
    /\ row[u] = "live"
    /\ row' = [row EXCEPT ![u] = "deleted"]
    /\ UNCHANGED <<admin, epoch, pw, enr, cred, ledger, cutoff>>

\* External: the engine's clock passes expires_at.
Expire(s) ==
    /\ enr[s].user # None
    /\ ~enr[s].expired
    /\ enr' = [enr EXCEPT ![s].expired = TRUE]
    /\ UNCHANGED <<row, admin, epoch, pw, cred, ledger, cutoff>>

\* RevokeCredential: one UPDATE matched on the pair (id, user_id).
RevokeCredential(c, u) ==
    /\ c \in LiveCreds(u)
    /\ cred' = Revoked({c})
    /\ UNCHANGED <<row, admin, epoch, pw, enr, ledger, cutoff>>
=============================================================================
