----------------------------- MODULE AccountInv -----------------------------
(***************************************************************************)
(* The inductive invariants behind the theorems of Account: what the locks *)
(* guarantee to the slot that holds them.  IInv is about revocation and is *)
(* proved in AccountProofs; RedeemInv is about redemptions, mints and the  *)
(* ledger and is proved on top of it in AccountLedgerProofs.  TLC checks   *)
(* both as invariants.                                                     *)
(***************************************************************************)
EXTENDS Account

RedeemPc == {"owned", "unspent", "spent", "revoking", "written"}
UserPc == {"minting", "enrolling", "zero", "locked", "voided", "bumped", "proved"}
SecretPc == {"enrolling", "spent", "revoking", "written"}
BumpedPc == {"voided", "bumped", "revoking", "written"}

\* What a slot names is there: the person of a call, the enrolment of a
\* redemption and, once lock_owner has run, its owner.
SlotShape(x) ==
    /\ x.pc \in UserPc => x.user \in User
    /\ x.pc \in SecretPc => x.secret \in Secret
    /\ x.pc \in {"locked", "voided"} => x.secret = None
    /\ (x.pc \in RedeemPc \cup {"keyed"} /\ x.secret # None)
          => enr[x.secret].user \in User
    /\ (x.pc \in RedeemPc /\ x.secret # None) => x.user = enr[x.secret].user

\* An epoch answered to iam is the epoch of the proof behind it; a mint past
\* its share-locking read carries the current one; a bump the next one.
SlotEpoch(x) ==
    /\ x.pc = "proved" => x.epoch = x.auth
    /\ x.pc = "minting" => x.auth = epoch[x.user]
    /\ x.pc \in BumpedPc => x.epoch = epoch[x.user] + 1

\* A transaction whose revoke and void have run.
RevokesAll(x) == x.pc = "voided" \/ (x.pc \in {"revoking", "written"} /\ x.revoking)

\* What it has read under the lock is still everything there is to revoke
\* and to void.
SlotCaptured(x) ==
    RevokesAll(x) => /\ LiveCreds(x.user) \subseteq x.creds
                     /\ OpenEnrs(x.user) \ {x.secret} \subseteq x.enrs

SlotOK(x) == SlotShape(x) /\ SlotEpoch(x) /\ SlotCaptured(x)

Slots == \A t \in Txn : SlotOK(txn[t])

\* InnoDB's record lock: an exclusive holder of a user row is alone on it.
Exclusion ==
    \A t, o \in Txn, u \in User :
        (t # o /\ HoldsX(t, u)) => ~HoldsX(o, u) /\ ~HoldsS(o, u)

\* A ledger row names a person, and a cutoff is an epoch that was reached.
StoreOK ==
    /\ \A k \in Key : ledger[k].secret # None => ledger[k].user \in User
    /\ \A u \in User : cutoff[u] <= epoch[u]

\* The inductive invariant.
IInv ==
    /\ TypeOK
    /\ Slots
    /\ Exclusion
    /\ StoreOK
    /\ NoCredentialOutlivesRevocation
    /\ NoEnrolmentOutlivesRevocation

-----------------------------------------------------------------------------
(* Redemptions, mints and the ledger.                                      *)

SpentPc == {"spent", "revoking", "written"}
TombPc == {"voided", "revoking", "written"}

\* A password hash that was current in an epoch: still, unless the epoch moved.
PasswordOfEpoch(u, e, p) == e <= epoch[u] /\ (e = epoch[u] => p = pw[u])

\* A secret nobody will redeem any more.
Dead(s) == /\ enr[s].user # None
           /\ enr[s].spent \/ enr[s].voided \/ enr[s].expired \/ row[enr[s].user] = "deleted"

\* What a proof is worth: the hash it verified is the one of its epoch.
SlotProof(x) ==
    /\ x.checked => x.pc \in {"minting", "zero"}
    /\ x.pc = "proved" => PasswordOfEpoch(x.user, x.epoch, x.pw)
    /\ (x.pc = "minting" /\ x.checked) => x.pw = pw[x.user]

\* What a statement found of the person stays so under its lock.
SlotPerson(x) ==
    /\ x.pc \in {"minting", "enrolling", "bumped"} => row[x.user] = "live"
    /\ x.pc \in {"locked", "voided"} => row[x.user] # "absent"
    /\ x.pc = "minting" => \E c \in Cred : x.creds = {c} /\ cred[c].user = None
    /\ x.pc = "enrolling" => /\ ~(x.demand /\ x.revoking)
                             /\ x.demand => ZeroCredentialAdmin(x.user)

\* What a redemption, or a revocation, is about to write is still to be
\* written, and nothing more than that.
SlotSpend(x) ==
    /\ x.pc \in SpentPc => Unspent(x.secret)
    /\ x.pc \in TombPc => /\ x.creds \subseteq LiveCreds(x.user)
                          /\ x.enrs \subseteq OpenEnrs(x.user) \ {x.secret}
    /\ x.pc \in {"revoking", "written"} =>
          /\ x.revoking = enr[x.secret].revoking
          /\ ~x.revoking => x.creds = {} /\ x.enrs = {}
    /\ (x.pc = "unspent" /\ x.secret # None) => Dead(x.secret)
    /\ x.pc = "written" => KeyFree(x.key)

\* A refusal is final: its key stands for another secret, or its secret is
\* dead and in nobody's hands.
SlotRefused(x) ==
    (x.pc = "done" /\ x.out \in Refusal /\ x.key # None /\ x.secret # None) =>
        /\ ledger[x.key].secret # x.secret
        /\ ledger[x.key].secret = None =>
              /\ Dead(x.secret)
              /\ \A o \in Txn : txn[o].pc \in SpentPc => txn[o].secret # x.secret

SlotUnderLock(x) == SlotProof(x) /\ SlotPerson(x) /\ SlotSpend(x)

RedeemSlots == \A t \in Txn : SlotUnderLock(txn[t]) /\ SlotRefused(txn[t])

\* Two calls under way never hold one minted id, nor one key's ledger row.
Apart ==
    \A t, o \in Txn : t # o =>
        /\ (txn[t].pc \in {"minting", "zero"} /\ txn[o].pc \in {"minting", "zero"})
              => txn[t].creds \cap txn[o].creds = {}
        /\ (txn[t].pc = "written" /\ txn[o].pc = "written" /\ txn[t].key = txn[o].key)
              => txn[t].key = None

\* A recorded epoch is one the recorded hash was current in; nobody was
\* enrolled before there was a row.
LedgerStore ==
    /\ SpentXorVoided
    /\ LedgerSound
    /\ \A k \in Key : ledger[k].secret # None =>
          PasswordOfEpoch(ledger[k].user, ledger[k].epoch, ledger[k].pw)
    /\ \A s \in Secret : enr[s].user # None => row[enr[s].user] # "absent"

\* The second inductive invariant, relative to the first.
RedeemInv == RedeemSlots /\ Apart /\ LedgerStore
=============================================================================
