--------------------------- MODULE AccountProofs ---------------------------
(***************************************************************************)
(* Theorems about Account, for every set of people, secrets, keys,         *)
(* credentials and slots and every bound on the epoch.                     *)
(***************************************************************************)
EXTENDS AccountInv, TLAPS

-----------------------------------------------------------------------------
(* Typing of the slots and of the tables' updates.                         *)

\* The empty slot is a well-typed record.
LEMMA IdleType == /\ Idle \in TxnRec
                  /\ Idle.pc = "idle" /\ Idle.secret = None /\ Idle.checked = FALSE
BY NoneAssumption DEF Idle, TxnRec, Pc, ServerPc, XPc, SPc, Out, Refusal

\* A slot that holds a proof.
LEMMA ProvedType ==
    ASSUME NEW u \in User, NEW e \in Nat, NEW a \in Nat, NEW p \in Nat
    PROVE  /\ Proved(u, e, a, p) \in TxnRec
           /\ Proved(u, e, a, p).pc = "proved"
           /\ Proved(u, e, a, p).user = u
           /\ Proved(u, e, a, p).epoch = e
           /\ Proved(u, e, a, p).auth = a
BY IdleType DEF Proved, TxnRec, Pc

\* A step of one slot changes that slot only, and keeps the type.
LEMMA GotoFrame ==
    ASSUME txn \in [Txn -> TxnRec], NEW t \in Txn, NEW r \in TxnRec, Goto(t, r)
    PROVE  /\ txn' \in [Txn -> TxnRec]
           /\ txn'[t] = r
           /\ \A o \in Txn : o # t => txn'[o] = txn[o]
BY DEF Goto

\* Tombstoning and voiding keep the tables' types.
LEMMA RevokedType ==
    ASSUME StoreTypeOK, NEW C PROVE Revoked(C) \in [Cred -> CredRow]
BY DEF StoreTypeOK, Revoked, CredRow

LEMMA VoidedType ==
    ASSUME StoreTypeOK, NEW S PROVE Voided(S) \in [Secret -> EnrRow]
BY DEF StoreTypeOK, Voided, EnrRow

-----------------------------------------------------------------------------
(* Locks.                                                                  *)

\* A slot that ends, or waits for the caller, holds nothing and promises
\* nothing.
LEMMA RestingSlot ==
    ASSUME NEW r \in TxnRec, r.pc \in {"idle", "done"}
    PROVE  SlotOK(r) /\ r.pc \notin XPc \cup SPc
BY DEF SlotOK, SlotShape, SlotEpoch, SlotCaptured, RevokesAll, UserPc, SecretPc,
       RedeemPc, BumpedPc, XPc, SPc

\* Whoever holds a user row could take it again.
LEMMA HolderMay ==
    ASSUME Exclusion, NEW t \in Txn, NEW u \in User
    PROVE  /\ HoldsX(t, u) => CanX(t, u)
           /\ HoldsS(t, u) => CanS(t, u)
BY DEF Exclusion, CanX, CanS

\* A step after which a slot holds only what it was allowed to take keeps the
\* exclusive locks exclusive.
LEMMA ExclusionFrame ==
    ASSUME TypeOK, Exclusion, NEW t \in Txn, NEW r \in TxnRec, Goto(t, r),
           (r.user \in User /\ r.pc \in XPc) => CanX(t, r.user),
           (r.user \in User /\ r.pc \in SPc) => CanS(t, r.user)
    PROVE  Exclusion'
<1>1. /\ txn'[t] = r
      /\ \A o \in Txn : o # t => txn'[o] = txn[o]
  BY GotoFrame DEF TypeOK
<1>2. XPc \cap SPc = {}
  BY DEF XPc, SPc
<1>3. SUFFICES ASSUME NEW a \in Txn, NEW o \in Txn, NEW u \in User,
                      a # o, HoldsX(a, u)'
               PROVE  ~HoldsX(o, u)' /\ ~HoldsS(o, u)'
  BY DEF Exclusion
<1>4. CASE a = t
  BY <1>1, <1>3, <1>4 DEF HoldsX, HoldsS, CanX
<1>5. CASE o = t
  BY <1>1, <1>2, <1>3, <1>5 DEF HoldsX, HoldsS, CanX, CanS
<1>6. CASE a # t /\ o # t
  BY <1>1, <1>3, <1>6 DEF HoldsX, HoldsS, Exclusion
<1> QED
  BY <1>4, <1>5, <1>6

\* A step that writes nothing needs only its own slot checked.
LEMMA QuietStep ==
    ASSUME IInv, UNCHANGED store, NEW t \in Txn, NEW r \in TxnRec, Goto(t, r),
           SlotOK(r),
           (r.user \in User /\ r.pc \in XPc) => CanX(t, r.user),
           (r.user \in User /\ r.pc \in SPc) => CanS(t, r.user)
    PROVE  IInv'
<1>1. /\ txn' \in [Txn -> TxnRec]
      /\ txn'[t] = r
      /\ \A o \in Txn : o # t => txn'[o] = txn[o]
  BY GotoFrame DEF IInv, TypeOK
<1>2. TypeOK'
  BY <1>1 DEF IInv, TypeOK, StoreTypeOK, store
<1>3. Exclusion'
  BY ExclusionFrame DEF IInv
<1>4. \A x : SlotOK(x)' <=> SlotOK(x)
  BY DEF store, SlotOK, SlotShape, SlotEpoch, SlotCaptured, LiveCreds, OpenEnrs
<1>5. Slots'
  BY <1>1, <1>4 DEF IInv, Slots
<1>6. StoreOK' /\ NoCredentialOutlivesRevocation' /\ NoEnrolmentOutlivesRevocation'
  BY DEF IInv, store, StoreOK, NoCredentialOutlivesRevocation,
         NoEnrolmentOutlivesRevocation, LiveCreds, OpenEnrs
<1> QED
  BY <1>2, <1>3, <1>5, <1>6 DEF IInv
-----------------------------------------------------------------------------
(* The actions that write nothing.                                         *)

\* The slot a step starts from is typed and satisfies the slot invariant.
LEMMA SlotFacts ==
    ASSUME IInv, NEW t \in Txn
    PROVE  txn[t] \in TxnRec /\ SlotOK(txn[t])
BY DEF IInv, TypeOK, Slots

\* Drop, and every answer.
LEMMA DropQuiet == ASSUME IInv, NEW t \in Txn, Drop(t) PROVE IInv'
BY IdleType, RestingSlot, QuietStep DEF Drop, XPc, SPc

LEMMA AnswerQuiet ==
    ASSUME IInv, UNCHANGED store, NEW t \in Txn, NEW out \in Out, Answer(t, out)
    PROVE  IInv'
<1> DEFINE r == [Idle EXCEPT !.pc = "done", !.out = out]
<1>1. r \in TxnRec /\ r.pc = "done"
  BY IdleType DEF TxnRec, Pc
<1>2. Goto(t, r)
  BY DEF Answer
<1> HIDE DEF r
<1> QED
  BY <1>1, <1>2, RestingSlot, QuietStep

LEMMA AnswerRedeemQuiet ==
    ASSUME IInv, UNCHANGED store, NEW t \in Txn, NEW out \in Out,
           NEW s \in Secret \cup {None}, NEW k \in Key \cup {None},
           AnswerRedeem(t, out, s, k)
    PROVE  IInv'
<1> DEFINE r == [Idle EXCEPT !.pc = "done", !.out = out, !.secret = s, !.key = k]
<1>1. r \in TxnRec /\ r.pc = "done"
  BY IdleType DEF TxnRec, Pc
<1>2. Goto(t, r)
  BY DEF AnswerRedeem
<1> HIDE DEF r
<1> QED
  BY <1>1, <1>2, RestingSlot, QuietStep

\* The slot AnswerCreated leaves.
LEMMA CreatedSlot ==
    ASSUME IInv, NEW t \in Txn
    PROVE  LET r == [Idle EXCEPT !.pc = "done", !.out = "OK", !.user = txn[t].user,
                         !.creds = txn[t].creds, !.enrs = txn[t].enrs]
           IN  r \in TxnRec /\ r.pc = "done"
BY IdleType, SlotFacts DEF TxnRec, Pc, Out

LEMMA AnswerCreatedQuiet ==
    ASSUME IInv, UNCHANGED store, NEW t \in Txn, AnswerCreated(t)
    PROVE  IInv'
<1> DEFINE r == [Idle EXCEPT !.pc = "done", !.out = "OK", !.user = txn[t].user,
                         !.creds = txn[t].creds, !.enrs = txn[t].enrs]
<1>1. r \in TxnRec /\ r.pc = "done"
  BY CreatedSlot
<1>2. Goto(t, r)
  BY DEF AnswerCreated
<1> HIDE DEF r
<1> QED
  BY <1>1, <1>2, RestingSlot, QuietStep

LEMMA RereadQuiet == ASSUME IInv, NEW t \in Txn, Reread(t) PROVE IInv'
<1>1. {"NOT_FOUND", "FAILED_PRECONDITION", "PERMISSION_DENIED"} \subseteq Out
  BY DEF Out, Refusal
<1> QED
  BY <1>1, AnswerQuiet, AnswerCreatedQuiet DEF Reread

\* A proof in hand: the epoch answered is the one the holder proved in.
LEMMA ProvedQuiet ==
    ASSUME IInv, UNCHANGED store, NEW t \in Txn, NEW u \in User, NEW e \in Nat,
           NEW p \in Nat, Goto(t, Proved(u, e, e, p))
    PROVE  IInv'
<1> DEFINE r == Proved(u, e, e, p)
<1>1. r \in TxnRec /\ r.pc = "proved" /\ r.user = u /\ r.epoch = r.auth
  BY ProvedType
<1>2. Goto(t, r)
  OBVIOUS
<1> HIDE DEF r
<1>3. SlotOK(r) /\ r.pc \notin XPc \cup SPc
  BY <1>1 DEF SlotOK, SlotShape, SlotEpoch, SlotCaptured, RevokesAll, UserPc,
              SecretPc, RedeemPc, BumpedPc, XPc, SPc
<1> QED
  BY <1>1, <1>2, <1>3, QuietStep

LEMMA GetPasswordHashQuiet ==
    ASSUME IInv, NEW t \in Txn, NEW u \in User, GetPasswordHash(t, u) PROVE IInv'
BY ProvedQuiet DEF GetPasswordHash, IInv, TypeOK, StoreTypeOK

\* The share-locking read of CreateCredential: when it matches, the proof's
\* epoch is the current one.
LEMMA MintReadQuiet ==
    ASSUME IInv, NEW t \in Txn, NEW r \in TxnRec, r.user \in User,
           r.checked => r.epoch = r.auth,
           ~r.checked => r.auth = epoch[r.user],
           MintRead(t, r)
    PROVE  IInv'
<1> DEFINE q == [r EXCEPT !.pc = IF MintMatches(r.user, r.checked, r.epoch)
                                 THEN "minting" ELSE "zero"]
<1>1. q \in TxnRec /\ q.pc \in {"minting", "zero"} /\ q.user = r.user
  BY DEF TxnRec, Pc, ServerPc, SPc
<1>2. q.pc = "minting" => q.auth = epoch[q.user]
  BY DEF TxnRec, MintMatches
<1>3. Goto(t, q) /\ CanS(t, q.user) /\ UNCHANGED store
  BY <1>1 DEF MintRead
<1> HIDE DEF q
<1>4. SlotOK(q) /\ q.pc \notin XPc
  BY <1>1, <1>2 DEF SlotOK, SlotShape, SlotEpoch, SlotCaptured, RevokesAll, UserPc,
              SecretPc, RedeemPc, BumpedPc, XPc
<1> QED
  BY <1>1, <1>3, <1>4, QuietStep

LEMMA UncheckedQuiet ==
    ASSUME IInv, NEW t \in Txn, NEW u \in User, NEW c \in Cred,
           CreateCredentialUnchecked(t, u, c)
    PROVE  IInv'
<1> DEFINE r == [Idle EXCEPT !.user = u, !.creds = {c}, !.auth = epoch[u]]
<1>1. epoch[u] \in Nat
  BY DEF IInv, TypeOK, StoreTypeOK
<1>2. r \in TxnRec /\ r.user = u /\ ~r.checked /\ r.auth = epoch[r.user]
  BY <1>1, IdleType DEF TxnRec
<1>3. MintRead(t, r)
  BY DEF CreateCredentialUnchecked
<1> HIDE DEF r
<1> QED
  BY <1>2, <1>3, MintReadQuiet

LEMMA CheckedQuiet ==
    ASSUME IInv, NEW t \in Txn, NEW c \in Cred, CreateCredentialChecked(t, c)
    PROVE  IInv'
<1> DEFINE r == [txn[t] EXCEPT !.creds = {c}, !.checked = TRUE]
<1>1. txn[t] \in TxnRec /\ txn[t].user \in User /\ txn[t].epoch = txn[t].auth
  BY SlotFacts DEF CreateCredentialChecked, SlotOK, SlotShape, SlotEpoch, UserPc
<1>2. r \in TxnRec /\ r.user \in User /\ r.checked /\ r.epoch = r.auth
  BY <1>1 DEF TxnRec
<1>3. MintRead(t, r)
  BY DEF CreateCredentialChecked
<1> HIDE DEF r
<1> QED
  BY <1>2, <1>3, MintReadQuiet

LEMMA RevokeAllLockQuiet ==
    ASSUME IInv, NEW t \in Txn, NEW u \in User, RevokeAllLock(t, u) PROVE IInv'
<1> DEFINE r == [Idle EXCEPT !.pc = "locked", !.user = u]
<1>1. r \in TxnRec /\ r.pc = "locked" /\ r.user = u /\ r.secret = None
  BY IdleType DEF TxnRec, Pc, ServerPc, XPc
<1>2. Goto(t, r) /\ CanX(t, r.user) /\ UNCHANGED store
  BY <1>1 DEF RevokeAllLock
<1> HIDE DEF r
<1>3. SlotOK(r) /\ r.pc \notin SPc
  BY <1>1 DEF SlotOK, SlotShape, SlotEpoch, SlotCaptured, RevokesAll, UserPc,
              SecretPc, RedeemPc, BumpedPc, SPc
<1> QED
  BY <1>1, <1>2, <1>3, QuietStep

\* What the statements select and the epoch they write are typed.
LEMMA ReadTypes ==
    ASSUME IInv, NEW u \in User
    PROVE  /\ LiveCreds(u) \in SUBSET Cred
           /\ OpenEnrs(u) \in SUBSET Secret
           /\ Bumped(u) \in Nat
BY DEF LiveCreds, OpenEnrs, Bumped, IInv, TypeOK, StoreTypeOK

LEMMA RevokeAllWriteQuiet ==
    ASSUME IInv, NEW t \in Txn, RevokeAllWrite(t) PROVE IInv'
<1> DEFINE u == txn[t].user
           r == [txn[t] EXCEPT !.pc = "voided", !.creds = LiveCreds(u),
                               !.enrs = OpenEnrs(u), !.epoch = Bumped(u)]
<1>1. /\ txn[t] \in TxnRec /\ txn[t].pc = "locked"
      /\ u \in User /\ txn[t].secret = None
  BY SlotFacts DEF RevokeAllWrite, SlotOK, SlotShape, UserPc
<1>2. /\ r \in TxnRec /\ r.pc = "voided" /\ r.user = u /\ r.secret = None
      /\ r.creds = LiveCreds(u) /\ r.enrs = OpenEnrs(u) /\ r.epoch = Bumped(u)
  BY <1>1, ReadTypes DEF TxnRec, Pc, ServerPc, XPc
<1>3. Goto(t, r) /\ UNCHANGED store
  BY DEF RevokeAllWrite
<1>4. CanX(t, u)
  BY <1>1, HolderMay DEF HoldsX, XPc, IInv
<1> HIDE DEF u, r
<1>5. SlotOK(r) /\ r.pc \notin SPc
  BY <1>1, <1>2 DEF SlotOK, SlotShape, SlotEpoch, SlotCaptured, RevokesAll, UserPc,
              SecretPc, RedeemPc, BumpedPc, SPc, Bumped
<1> QED
  BY <1>2, <1>3, <1>4, <1>5, QuietStep

LEMMA SetPasswordBumpQuiet ==
    ASSUME IInv, NEW t \in Txn, NEW u \in User, SetPasswordBump(t, u) PROVE IInv'
<1> DEFINE r == [Idle EXCEPT !.pc = "bumped", !.user = u, !.epoch = Bumped(u)]
<1>1. r \in TxnRec /\ r.pc = "bumped" /\ r.user = u /\ r.epoch = Bumped(u)
  BY IdleType, ReadTypes DEF TxnRec, Pc, ServerPc, XPc
<1>2. Goto(t, r) /\ CanX(t, r.user) /\ UNCHANGED store
  BY <1>1 DEF SetPasswordBump
<1> HIDE DEF r
<1>3. SlotOK(r) /\ r.pc \notin SPc
  BY <1>1 DEF SlotOK, SlotShape, SlotEpoch, SlotCaptured, RevokesAll, UserPc,
              SecretPc, RedeemPc, BumpedPc, SPc, Bumped
<1> QED
  BY <1>1, <1>2, <1>3, QuietStep

LEMMA CreateEnrolmentQuiet ==
    ASSUME IInv, NEW t \in Txn, NEW u \in User, NEW s \in Secret,
           NEW d \in BOOLEAN, NEW v \in BOOLEAN, CreateEnrolment(t, u, s, d, v)
    PROVE  IInv'
<1> DEFINE p == IF EnrolMatches(u, d) THEN "enrolling" ELSE "zero"
           r == [Idle EXCEPT !.pc = p, !.user = u, !.secret = s, !.enrs = {s},
                             !.demand = d, !.revoking = v]
<1>1. p \in {"enrolling", "zero"}
  OBVIOUS
<1>2. Goto(t, r) /\ CanS(t, u) /\ UNCHANGED store
  BY DEF CreateEnrolment
<1> HIDE DEF p
<1>3. r \in TxnRec /\ r.pc = p /\ r.user = u /\ r.secret = s
  BY <1>1, IdleType DEF TxnRec, Pc, ServerPc, SPc
<1> HIDE DEF r
<1>4. SlotOK(r) /\ r.pc \notin XPc
  BY <1>1, <1>3 DEF SlotOK, SlotShape, SlotEpoch, SlotCaptured, RevokesAll, UserPc,
              SecretPc, RedeemPc, BumpedPc, XPc
<1> QED
  BY <1>2, <1>3, <1>4, QuietStep

\* A replay answers the recorded epoch, which is the epoch of that proof; a
\* reused key is refused.
LEMMA ReplayQuiet ==
    ASSUME IInv, UNCHANGED store, NEW t \in Txn, NEW s \in Secret \cup {None},
           NEW k \in Key \cup {None}, ~KeyFree(k), Replay(t, s, k)
    PROVE  IInv'
<1>1. /\ k \in Key /\ ledger[k].user \in User
      /\ ledger[k].epoch \in Nat /\ ledger[k].pw \in Nat
  BY DEF KeyFree, IInv, StoreOK, TypeOK, StoreTypeOK, LedgerRow
<1>2. CASE ReplayAnswer(t, k)
  BY <1>1, <1>2, ProvedQuiet DEF ReplayAnswer, ReplayEpoch
<1>3. CASE Answer(t, "INVALID_ARGUMENT")
  BY <1>3, AnswerQuiet DEF Out
<1> QED
  BY <1>2, <1>3 DEF Replay

LEMMA RedeemBeginQuiet ==
    ASSUME IInv, NEW t \in Txn, NEW s \in Secret \cup {None},
           NEW k \in Key \cup {None}, RedeemBegin(t, s, k)
    PROVE  IInv'
<1> DEFINE r == [Idle EXCEPT !.pc = "keyed", !.secret = s, !.key = k]
<1>1. r \in TxnRec /\ r.pc = "keyed" /\ r.secret = s
  BY IdleType DEF TxnRec, Pc, ServerPc
<1>2. s # None => enr[s].user \in User
  BY DEF RedeemBegin, IInv, TypeOK, StoreTypeOK, EnrRow
<1>3. UNCHANGED store
  BY DEF RedeemBegin
<1>4. CASE ~KeyFree(k) /\ Replay(t, s, k)
  BY <1>3, <1>4, ReplayQuiet
<1>5. CASE Goto(t, r)
  <2> HIDE DEF r
  <2>1. SlotOK(r) /\ r.pc \notin XPc \cup SPc
    BY <1>1, <1>2 DEF SlotOK, SlotShape, SlotEpoch, SlotCaptured, RevokesAll,
                UserPc, SecretPc, RedeemPc, BumpedPc, XPc, SPc
  <2> QED
    BY <1>1, <1>3, <1>5, <2>1, QuietStep
<1>6. CASE Answer(t, "INVALID_ARGUMENT")
  BY <1>3, <1>6, AnswerQuiet DEF Out
<1> QED
  BY <1>4, <1>5, <1>6 DEF RedeemBegin

\* lock_owner takes the row of the enrolment's owner.
LEMMA RedeemLockQuiet == ASSUME IInv, NEW t \in Txn, RedeemLock(t) PROVE IInv'
<1> DEFINE s == txn[t].secret
           u == IF s = None THEN None ELSE enr[s].user
           r == [txn[t] EXCEPT !.pc = "owned", !.user = u]
<1>1. txn[t] \in TxnRec /\ txn[t].pc = "keyed" /\ SlotOK(txn[t])
  BY SlotFacts DEF RedeemLock
<1>2. /\ u \in User \cup {None}
      /\ s # None => u = enr[s].user /\ u \in User
  BY <1>1 DEF SlotOK, SlotShape
<1>3. Goto(t, r) /\ (u # None => CanX(t, u)) /\ UNCHANGED store
  BY DEF RedeemLock
<1> HIDE DEF u
<1>4. r \in TxnRec /\ r.pc = "owned" /\ r.user = u /\ r.secret = s
  BY <1>1, <1>2 DEF TxnRec, Pc, ServerPc, XPc
<1> HIDE DEF r, s
<1>5. SlotOK(r) /\ r.pc \notin SPc
  BY <1>2, <1>4 DEF SlotOK, SlotShape, SlotEpoch, SlotCaptured, RevokesAll,
              UserPc, SecretPc, RedeemPc, BumpedPc, SPc
<1>6. r.user \in User => CanX(t, r.user)
  BY <1>3, <1>4, NoneAssumption
<1> QED
  BY <1>3, <1>4, <1>5, <1>6, QuietStep

LEMMA RedeemSpendQuiet == ASSUME IInv, NEW t \in Txn, RedeemSpend(t) PROVE IInv'
<1> DEFINE p == IF SpendMatches(txn[t].secret) THEN "spent" ELSE "unspent"
           r == [txn[t] EXCEPT !.pc = p]
<1>1. txn[t] \in TxnRec /\ txn[t].pc = "owned" /\ SlotOK(txn[t])
  BY SlotFacts DEF RedeemSpend
<1>2. p \in {"spent", "unspent"} /\ (p = "spent" => txn[t].secret # None)
  BY DEF SpendMatches
<1>3. Goto(t, r) /\ UNCHANGED store
  BY DEF RedeemSpend
<1>4. \A u \in User : txn[t].user = u => CanX(t, u)
  BY <1>1, HolderMay DEF HoldsX, XPc, IInv
<1> HIDE DEF p
<1>5. /\ r \in TxnRec /\ r.pc = p /\ r.user = txn[t].user
      /\ r.secret = txn[t].secret
  BY <1>1, <1>2 DEF TxnRec, Pc, ServerPc, XPc
<1>6. txn[t].secret \in Secret \cup {None}
  BY <1>1 DEF TxnRec
<1> HIDE DEF r
<1>7. SlotOK(r) /\ r.pc \notin SPc
  BY <1>1, <1>2, <1>5, <1>6 DEF SlotOK, SlotShape, SlotEpoch, SlotCaptured,
              RevokesAll, UserPc, SecretPc, RedeemPc, BumpedPc, SPc
<1> QED
  BY <1>3, <1>4, <1>5, <1>7, QuietStep

LEMMA RedeemUnspentQuiet == ASSUME IInv, NEW t \in Txn, RedeemUnspent(t) PROVE IInv'
<1>1. txn[t].secret \in Secret \cup {None} /\ txn[t].key \in Key \cup {None}
  BY SlotFacts DEF TxnRec
<1>2. Unredeemable(txn[t].secret) \in Out
  BY DEF Unredeemable, Out, Refusal
<1>3. CASE AnswerRedeem(t, Unredeemable(txn[t].secret), txn[t].secret, txn[t].key)
  BY <1>1, <1>2, <1>3, AnswerRedeemQuiet DEF RedeemUnspent
<1>4. CASE ~KeyFree(txn[t].key) /\ Replay(t, txn[t].secret, txn[t].key)
  BY <1>1, <1>4, ReplayQuiet DEF RedeemUnspent
<1> QED
  BY <1>3, <1>4 DEF RedeemUnspent, SecondCheck

\* The owner and the enrolment of a redemption past its spend.
LEMMA SpentFacts ==
    ASSUME IInv, NEW t \in Txn, txn[t].pc \in {"spent", "revoking", "written"}
    PROVE  /\ txn[t] \in TxnRec /\ txn[t].secret \in Secret
           /\ txn[t].user \in User /\ txn[t].user = enr[txn[t].secret].user
           /\ CanX(t, txn[t].user)
<1>1. txn[t] \in TxnRec /\ SlotShape(txn[t])
  BY SlotFacts DEF SlotOK
<1>2. txn[t].secret \in Secret
  BY <1>1 DEF SlotShape, SecretPc
<1>3. txn[t].user \in User /\ txn[t].user = enr[txn[t].secret].user
  BY <1>1, <1>2, NoneAssumption DEF SlotShape, RedeemPc
<1>4. CanX(t, txn[t].user)
  BY <1>3, HolderMay DEF HoldsX, XPc, IInv
<1> QED
  BY <1>1, <1>2, <1>3, <1>4

LEMMA RedeemRevokeQuiet == ASSUME IInv, NEW t \in Txn, RedeemRevoke(t) PROVE IInv'
<1> DEFINE u == txn[t].user
           s == txn[t].secret
           all == enr[s].revoking
           C == IF all THEN LiveCreds(u) ELSE {}
           E == IF all THEN OpenEnrs(u) \ {s} ELSE {}
           r == [txn[t] EXCEPT !.pc = "revoking", !.revoking = all,
                               !.epoch = Bumped(u), !.creds = C, !.enrs = E]
<1>1. /\ txn[t] \in TxnRec /\ s \in Secret /\ u \in User /\ u = enr[s].user
      /\ CanX(t, u)
  BY SpentFacts DEF RedeemRevoke
<1>2. all \in BOOLEAN
  BY <1>1 DEF IInv, TypeOK, StoreTypeOK, EnrRow
<1>3. C \in SUBSET Cred /\ E \in SUBSET Secret /\ Bumped(u) \in Nat
  BY <1>1, ReadTypes
<1>4. all => C = LiveCreds(u) /\ E = OpenEnrs(u) \ {s}
  OBVIOUS
<1>5. Goto(t, r) /\ UNCHANGED store
  BY DEF RedeemRevoke
<1> HIDE DEF u, s, all, C, E
<1>6. /\ r \in TxnRec /\ r.pc = "revoking" /\ r.user = u /\ r.secret = s
      /\ r.creds = C /\ r.enrs = E /\ r.epoch = Bumped(u)
  BY <1>1, <1>2, <1>3 DEF u, s, TxnRec, Pc, ServerPc, XPc
<1>7. r.revoking = all
  BY <1>1, <1>2 DEF TxnRec
<1> HIDE DEF r
<1>8. SlotOK(r) /\ r.pc \notin SPc
  BY <1>1, <1>4, <1>6, <1>7 DEF SlotOK, SlotShape, SlotEpoch, SlotCaptured,
              RevokesAll, UserPc, SecretPc, RedeemPc, BumpedPc, SPc, Bumped
<1> QED
  BY <1>1, <1>5, <1>6, <1>8, QuietStep

LEMMA RedeemWriteQuiet == ASSUME IInv, NEW t \in Txn, RedeemWrite(t) PROVE IInv'
<1> DEFINE r == [txn[t] EXCEPT !.pc = "written"]
<1>1. txn[t].pc = "revoking" /\ UNCHANGED store
  BY DEF RedeemWrite
<1>2. /\ txn[t] \in TxnRec /\ SlotOK(txn[t]) /\ CanX(t, txn[t].user)
  BY <1>1, SpentFacts, SlotFacts
<1>3. CASE Goto(t, r)
  <2>1. /\ r \in TxnRec /\ r.pc = "written" /\ r.user = txn[t].user
        /\ r.secret = txn[t].secret /\ r.creds = txn[t].creds
        /\ r.enrs = txn[t].enrs /\ r.epoch = txn[t].epoch
    BY <1>2 DEF TxnRec, Pc, ServerPc, XPc
  <2>2. r.revoking = txn[t].revoking
    BY <1>2 DEF TxnRec
  <2> HIDE DEF r
  <2>3. SlotOK(r) /\ r.pc \notin SPc
    BY <1>1, <1>2, <2>1, <2>2 DEF SlotOK, SlotShape, SlotEpoch, SlotCaptured,
              RevokesAll, UserPc, SecretPc, RedeemPc, BumpedPc, SPc
  <2> QED
    BY <1>1, <1>2, <1>3, <2>1, <2>3, QuietStep
<1>4. CASE AnswerRedeem(t, "UNAVAILABLE", txn[t].secret, txn[t].key)
  <2>1. /\ txn[t].secret \in Secret \cup {None} /\ txn[t].key \in Key \cup {None}
        /\ "UNAVAILABLE" \in Out
    BY <1>2 DEF TxnRec, Out, Refusal
  <2> QED
    BY <1>1, <1>4, <2>1, AnswerRedeemQuiet
<1> QED
  BY <1>3, <1>4 DEF RedeemWrite

-----------------------------------------------------------------------------
(* The actions that write.                                                 *)

\* A slot keeps its invariant when nobody moves the epoch of the person it
\* has locked, adds a row to revoke or to void behind an exclusive lock, or
\* gives an enrolment another owner.
LEMMA SlotStable ==
    ASSUME NEW x \in TxnRec, SlotOK(x),
           (x.user \in User /\ x.pc \in XPc \cup SPc)
              => epoch'[x.user] = epoch[x.user],
           (x.user \in User /\ x.pc \in XPc)
              => LiveCreds(x.user)' \subseteq LiveCreds(x.user)
                 /\ OpenEnrs(x.user)' \subseteq OpenEnrs(x.user),
           \A s \in Secret : enr[s].user \in User => enr'[s].user = enr[s].user
    PROVE  SlotOK(x)'
<1>1. x.secret \in Secret \cup {None} /\ None \notin Secret
  BY NoneAssumption DEF TxnRec
<1>2. SlotShape(x)'
  BY <1>1 DEF SlotOK, SlotShape, RedeemPc, UserPc, SecretPc
<1>3. x.pc \in BumpedPc \cup {"minting"} => x.user \in User
  BY <1>1 DEF SlotOK, SlotShape, BumpedPc, RedeemPc, UserPc, SecretPc
<1>4. SlotEpoch(x)'
  BY <1>3 DEF SlotOK, SlotEpoch, BumpedPc, XPc, SPc
<1>5. SlotCaptured(x)'
  <2>1. RevokesAll(x) => x.user \in User /\ x.pc \in XPc
    BY <1>3 DEF RevokesAll, BumpedPc, XPc
  <2>2. RevokesAll(x)' <=> RevokesAll(x)
    BY DEF RevokesAll
  <2> QED
    BY <2>1, <2>2 DEF SlotOK, SlotCaptured
<1> QED
  BY <1>2, <1>4, <1>5 DEF SlotOK

\* Nobody else has locked the row an exclusive holder writes, and nobody has
\* exclusively locked the row a share holder inserts beside.
LEMMA AloneOnRow ==
    ASSUME IInv, NEW t \in Txn, NEW u \in User, NEW o \in Txn, o # t, txn[o].user = u
    PROVE  /\ HoldsX(t, u) => txn[o].pc \notin XPc \cup SPc
           /\ HoldsS(t, u) => txn[o].pc \notin XPc
BY DEF IInv, Exclusion, HoldsX, HoldsS

\* The commit of an exclusive holder of the row of u that moves only the
\* epoch of u, revokes and voids, and ends in a slot without locks.
LEMMA CommitFrame ==
    ASSUME IInv, NEW t \in Txn, NEW u \in User, HoldsX(t, u),
           NEW r \in TxnRec, Goto(t, r), SlotOK(r)', r.pc \notin XPc \cup SPc,
           \A v \in User : v # u => epoch'[v] = epoch[v],
           \A v \in User : /\ LiveCreds(v)' \subseteq LiveCreds(v)
                           /\ OpenEnrs(v)' \subseteq OpenEnrs(v),
           \A s \in Secret : enr'[s].user = enr[s].user
    PROVE  txn' \in [Txn -> TxnRec] /\ Slots' /\ Exclusion'
<1>1. /\ txn' \in [Txn -> TxnRec]
      /\ txn'[t] = r
      /\ \A o \in Txn : o # t => txn'[o] = txn[o]
  BY GotoFrame DEF IInv, TypeOK
<1>2. Exclusion'
  BY ExclusionFrame DEF IInv
<1>3. ASSUME NEW o \in Txn, o # t PROVE SlotOK(txn[o])'
  <2> DEFINE x == txn[o]
  <2>1. x \in TxnRec /\ SlotOK(x)
    BY SlotFacts
  <2>2. x.user = u => x.pc \notin XPc \cup SPc
    BY <1>3, AloneOnRow
  <2>3. PICK y \in TxnRec : y = x
    BY <2>1
  <2>4. SlotOK(y)'
    BY <2>1, <2>2, <2>3, SlotStable
  <2> QED
    BY <1>1, <1>3, <2>3, <2>4
<1>4. Slots'
  BY <1>1, <1>3 DEF Slots
<1> QED
  BY <1>1, <1>2, <1>4

\* revoke::all takes the tombstoned rows out of the live ones and leaves the
\* rest of every row alone; revoke::void likewise.
LEMMA RevokedShrinks ==
    ASSUME StoreTypeOK, NEW C, cred' = Revoked(C)
    PROVE  /\ \A v \in User : LiveCreds(v)' = LiveCreds(v) \ C
           /\ \A c \in Cred : cred'[c].auth = cred[c].auth
BY DEF StoreTypeOK, Revoked, CredRow, LiveCreds

LEMMA VoidedShrinks ==
    ASSUME StoreTypeOK, NEW S, enr' = Voided(S)
    PROVE  /\ \A v \in User : OpenEnrs(v)' = OpenEnrs(v) \ S
           /\ \A s \in Secret : enr'[s].at = enr[s].at /\ enr'[s].user = enr[s].user
BY DEF StoreTypeOK, Voided, EnrRow, OpenEnrs

\* What the two revocation invariants need of a commit that writes the row of
\* u: the cutoff moves only with everything below it revoked and voided.
LEMMA RevocationFrame ==
    ASSUME IInv, NEW u \in User,
           \A v \in User : v # u => cutoff'[v] = cutoff[v],
           cutoff'[u] = cutoff[u] \/ (LiveCreds(u)' = {} /\ OpenEnrs(u)' = {}),
           \A v \in User : /\ LiveCreds(v)' \subseteq LiveCreds(v)
                           /\ OpenEnrs(v)' \subseteq OpenEnrs(v),
           \A c \in Cred : cred'[c].auth = cred[c].auth,
           \A s \in Secret : enr'[s].at = enr[s].at
    PROVE  NoCredentialOutlivesRevocation' /\ NoEnrolmentOutlivesRevocation'
<1>1. \A v \in User : LiveCreds(v) \subseteq Cred /\ OpenEnrs(v) \subseteq Secret
  BY DEF LiveCreds, OpenEnrs
<1>2. NoCredentialOutlivesRevocation'
  <2>1. ASSUME NEW v \in User, NEW c \in LiveCreds(v)'
        PROVE  cred'[c].auth >= cutoff'[v]
    BY <1>1, <2>1 DEF IInv, NoCredentialOutlivesRevocation
  <2> QED
    BY <2>1 DEF NoCredentialOutlivesRevocation
<1>3. NoEnrolmentOutlivesRevocation'
  <2>1. ASSUME NEW v \in User, NEW s \in OpenEnrs(v)'
        PROVE  enr'[s].at >= cutoff'[v]
    BY <1>1, <2>1 DEF IInv, NoEnrolmentOutlivesRevocation
  <2> QED
    BY <2>1 DEF NoEnrolmentOutlivesRevocation
<1> QED
  BY <1>2, <1>3

LEMMA RevokeAllCommitLoud ==
    ASSUME IInv, NEW t \in Txn, RevokeAllCommit(t) PROVE IInv'
<1> DEFINE u == txn[t].user
           C == txn[t].creds
           E == txn[t].enrs
           e == txn[t].epoch
<1> USE DEF IInv
<1>1. txn[t] \in TxnRec /\ SlotOK(txn[t]) /\ txn[t].pc = "voided"
  BY SlotFacts DEF RevokeAllCommit
<1>2. /\ u \in User /\ e = epoch[u] + 1
      /\ LiveCreds(u) \subseteq C /\ OpenEnrs(u) \subseteq E
  BY <1>1, NoneAssumption DEF SlotOK, SlotShape, SlotEpoch, SlotCaptured, RevokesAll,
              UserPc, BumpedPc, OpenEnrs
<1>3. StoreTypeOK /\ epoch[u] \in Nat /\ e \in Nat
  BY <1>1, <1>2 DEF TypeOK, StoreTypeOK, TxnRec
<1>4. /\ cred' = Revoked(C) /\ enr' = Voided(E)
      /\ epoch' = [epoch EXCEPT ![u] = e] /\ cutoff' = [cutoff EXCEPT ![u] = e]
      /\ Goto(t, Idle) /\ UNCHANGED <<row, admin, pw, ledger>>
  BY DEF RevokeAllCommit
<1> HIDE DEF u, C, E, e
<1>5. /\ \A v \in User : LiveCreds(v)' = LiveCreds(v) \ C
      /\ \A v \in User : OpenEnrs(v)' = OpenEnrs(v) \ E
      /\ \A c \in Cred : cred'[c].auth = cred[c].auth
      /\ \A s \in Secret : enr'[s].at = enr[s].at /\ enr'[s].user = enr[s].user
  BY <1>3, <1>4, RevokedShrinks, VoidedShrinks
<1>6. HoldsX(t, u)
  BY <1>1 DEF HoldsX, u, XPc
<1>7. Idle \in TxnRec /\ SlotOK(Idle)' /\ Idle.pc \notin XPc \cup SPc
  BY IdleType DEF SlotOK, SlotShape, SlotEpoch, SlotCaptured, RevokesAll, UserPc,
              SecretPc, RedeemPc, BumpedPc, XPc, SPc
<1>8. \A v \in User : v # u => epoch'[v] = epoch[v] /\ cutoff'[v] = cutoff[v]
  BY <1>4 DEF TypeOK, StoreTypeOK
<1>9. txn' \in [Txn -> TxnRec] /\ Slots' /\ Exclusion'
  BY <1>2, <1>4, <1>5, <1>6, <1>7, <1>8, CommitFrame
<1>10. StoreTypeOK'
  <2>1. cred' \in [Cred -> CredRow] /\ enr' \in [Secret -> EnrRow]
    BY <1>3, <1>4, RevokedType, VoidedType
  <2> QED
    BY <1>2, <1>3, <1>4, <2>1 DEF StoreTypeOK
<1>11. StoreOK'
  BY <1>2, <1>3, <1>4, <1>8 DEF StoreOK, StoreTypeOK
<1>12. NoCredentialOutlivesRevocation' /\ NoEnrolmentOutlivesRevocation'
  BY <1>2, <1>5, <1>8, RevocationFrame
<1> QED
  BY <1>9, <1>10, <1>11, <1>12 DEF TypeOK

\* The empty slot promises nothing of any store.
LEMMA IdleSlot == Idle \in TxnRec /\ SlotOK(Idle)' /\ Idle.pc \notin XPc \cup SPc
BY IdleType DEF SlotOK, SlotShape, SlotEpoch, SlotCaptured, RevokesAll, UserPc,
                SecretPc, RedeemPc, BumpedPc, XPc, SPc

LEMMA SetPasswordCommitLoud ==
    ASSUME IInv, NEW t \in Txn, SetPasswordCommit(t) PROVE IInv'
<1> DEFINE u == txn[t].user
           e == txn[t].epoch
<1> USE DEF IInv
<1>1. txn[t] \in TxnRec /\ SlotOK(txn[t]) /\ txn[t].pc = "bumped"
  BY SlotFacts DEF SetPasswordCommit
<1>2. u \in User /\ e = epoch[u] + 1 /\ HoldsX(t, u)
  BY <1>1 DEF SlotOK, SlotShape, SlotEpoch, UserPc, BumpedPc, HoldsX, XPc
<1>3. StoreTypeOK /\ epoch[u] \in Nat /\ e \in Nat
  BY <1>1, <1>2 DEF TypeOK, StoreTypeOK, TxnRec
<1>4. /\ epoch' = [epoch EXCEPT ![u] = e] /\ pw' = [pw EXCEPT ![u] = @ + 1]
      /\ Goto(t, Idle) /\ UNCHANGED <<row, admin, enr, cred, ledger, cutoff>>
  BY DEF SetPasswordCommit
<1> HIDE DEF u, e
<1>5. \A v \in User : LiveCreds(v)' = LiveCreds(v) /\ OpenEnrs(v)' = OpenEnrs(v)
  BY <1>4 DEF LiveCreds, OpenEnrs
<1>6. \A v \in User : v # u => epoch'[v] = epoch[v]
  BY <1>4 DEF TypeOK, StoreTypeOK
<1>7. txn' \in [Txn -> TxnRec] /\ Slots' /\ Exclusion'
  BY <1>2, <1>4, <1>5, <1>6, IdleSlot, CommitFrame
<1>8. StoreTypeOK'
  BY <1>2, <1>3, <1>4 DEF StoreTypeOK
<1>9. StoreOK'
  BY <1>2, <1>3, <1>4, <1>6 DEF StoreOK, StoreTypeOK
<1>10. NoCredentialOutlivesRevocation' /\ NoEnrolmentOutlivesRevocation'
  BY <1>2, <1>4, <1>5, RevocationFrame
<1> QED
  BY <1>7, <1>8, <1>9, <1>10 DEF TypeOK

LEMMA RedeemCommitLoud ==
    ASSUME IInv, NEW t \in Txn, RedeemCommit(t) PROVE IInv'
<1> DEFINE u == txn[t].user
           s == txn[t].secret
           k == txn[t].key
           C == txn[t].creds
           E == txn[t].enrs
           e == txn[t].epoch
           r == Proved(u, e, e, pw[u] + 1)
<1> USE DEF IInv
<1>1. txn[t].pc = "written"
  BY DEF RedeemCommit
<1>2. txn[t] \in TxnRec /\ SlotOK(txn[t]) /\ u \in User /\ s \in Secret
  BY <1>1, SlotFacts, SpentFacts
<1>3. /\ e = epoch[u] + 1
      /\ HoldsX(t, u)
      /\ txn[t].revoking => LiveCreds(u) \subseteq C /\ OpenEnrs(u) \ {s} \subseteq E
  BY <1>1, <1>2 DEF SlotOK, SlotEpoch, SlotCaptured, RevokesAll, BumpedPc, HoldsX, XPc
<1>4. /\ StoreTypeOK /\ epoch[u] \in Nat /\ e \in Nat /\ pw[u] + 1 \in Nat
      /\ k \in Key \cup {None}
  BY <1>2 DEF TypeOK, StoreTypeOK, TxnRec
<1>5. /\ epoch' = [epoch EXCEPT ![u] = e] /\ pw' = [pw EXCEPT ![u] = @ + 1]
      /\ cred' = Revoked(C) /\ enr' = [Voided(E) EXCEPT ![s].spent = TRUE]
      /\ cutoff' = IF txn[t].revoking THEN [cutoff EXCEPT ![u] = e] ELSE cutoff
      /\ ledger' = IF k = None THEN ledger
                   ELSE [ledger EXCEPT ![k] = [secret |-> s, user |-> u,
                                               epoch |-> e, pw |-> pw[u] + 1]]
      /\ Goto(t, r) /\ UNCHANGED <<row, admin>>
  BY DEF RedeemCommit
<1>6. r \in TxnRec /\ r.pc = "proved" /\ r.user = u /\ r.epoch = r.auth
  BY <1>2, <1>4, ProvedType
<1> HIDE DEF u, s, k, C, E, e, r
<1>7. /\ \A v \in User : LiveCreds(v)' = LiveCreds(v) \ C
      /\ \A c \in Cred : cred'[c].auth = cred[c].auth
  BY <1>4, <1>5, RevokedShrinks
<1>8. /\ enr' \in [Secret -> EnrRow]
      /\ \A v \in User : OpenEnrs(v)' = OpenEnrs(v) \ (E \cup {s})
      /\ \A z \in Secret : enr'[z].at = enr[z].at /\ enr'[z].user = enr[z].user
  <2>1. Voided(E) \in [Secret -> EnrRow]
    BY <1>4, VoidedType
  <2>2. enr' \in [Secret -> EnrRow]
    BY <1>2, <1>5, <2>1 DEF EnrRow
  <2>3. \A z \in Secret : /\ enr'[z].user = enr[z].user /\ enr'[z].at = enr[z].at
                          /\ enr'[z].spent = (enr[z].spent \/ z = s)
                          /\ enr'[z].voided = (enr[z].voided \/ z \in E)
    BY <1>2, <1>4, <1>5, <2>1 DEF StoreTypeOK, EnrRow, Voided
  <2> QED
    BY <2>2, <2>3 DEF OpenEnrs
<1>9. \A v \in User : v # u => epoch'[v] = epoch[v] /\ cutoff'[v] = cutoff[v]
  BY <1>4, <1>5 DEF StoreTypeOK
<1>10. PICK q \in TxnRec : q = r
  BY <1>6
<1>11. SlotOK(q)' /\ q.pc \notin XPc \cup SPc
  BY <1>2, <1>6, <1>10 DEF SlotOK, SlotShape, SlotEpoch, SlotCaptured, RevokesAll,
              UserPc, SecretPc, RedeemPc, BumpedPc, XPc, SPc
<1>12. txn' \in [Txn -> TxnRec] /\ Slots' /\ Exclusion'
  <2>1. Goto(t, q)
    BY <1>5, <1>10
  <2> QED
    BY <1>2, <1>3, <1>7, <1>8, <1>9, <1>10, <1>11, <2>1, CommitFrame
<1>13. StoreTypeOK'
  <2>1. cred' \in [Cred -> CredRow]
    BY <1>4, <1>5, RevokedType
  <2>2. ledger' \in [Key -> LedgerRow]
    BY <1>2, <1>4, <1>5 DEF StoreTypeOK, LedgerRow
  <2> QED
    BY <1>2, <1>4, <1>5, <1>8, <2>1, <2>2 DEF StoreTypeOK
<1>14. StoreOK'
  <2>1. \A l \in Key : ledger'[l].secret # None => ledger'[l].user \in User
    BY <1>2, <1>4, <1>5 DEF StoreOK, StoreTypeOK
  <2>2. \A v \in User : cutoff'[v] <= epoch'[v]
    BY <1>2, <1>3, <1>4, <1>5, <1>9 DEF StoreOK, StoreTypeOK
  <2> QED
    BY <2>1, <2>2 DEF StoreOK
<1>15. NoCredentialOutlivesRevocation' /\ NoEnrolmentOutlivesRevocation'
  <2>1. PICK v \in User : v = u
    BY <1>2
  <2>2. cutoff'[v] = cutoff[v] \/ (LiveCreds(v)' = {} /\ OpenEnrs(v)' = {})
    BY <1>3, <1>5, <1>7, <1>8, <2>1
  <2>3. \A w \in User : w # v => cutoff'[w] = cutoff[w]
    BY <1>9, <2>1
  <2> QED
    BY <1>7, <1>8, <2>2, <2>3, RevocationFrame
<1> QED
  BY <1>12, <1>13, <1>14, <1>15 DEF TypeOK

\* CreateCredential's insert: the share lock has kept the epoch of the proof
\* current and every revoking transaction out.
LEMMA MintInsertLoud == ASSUME IInv, NEW t \in Txn, MintInsert(t) PROVE IInv'
<1> DEFINE r == [Idle EXCEPT !.pc = "done", !.out = "OK", !.user = txn[t].user,
                         !.creds = txn[t].creds, !.enrs = txn[t].enrs]
<1> USE DEF IInv
<1>1. txn[t] \in TxnRec /\ SlotOK(txn[t]) /\ txn[t].pc = "minting"
  BY SlotFacts DEF MintInsert
<1>2. PICK u \in User : u = txn[t].user
  BY <1>1 DEF SlotOK, SlotShape, UserPc
<1>3. txn[t].auth = epoch[u] /\ HoldsS(t, u) /\ epoch[u] \in Nat
  BY <1>1, <1>2 DEF SlotOK, SlotEpoch, HoldsS, SPc, TypeOK, StoreTypeOK
<1>4. r \in TxnRec /\ r.pc = "done" /\ Goto(t, r)
  BY CreatedSlot DEF MintInsert, AnswerCreated
<1>5. cred' = [c \in Cred |-> IF c \in txn[t].creds
                THEN [user |-> u, revoked |-> FALSE, auth |-> epoch[u]]
                ELSE cred[c]]
  BY <1>2, <1>3 DEF MintInsert
<1>6. UNCHANGED <<row, admin, epoch, pw, enr, ledger, cutoff>>
  BY DEF MintInsert
<1> HIDE DEF r
<1>7. PICK q \in TxnRec : q = r
  BY <1>4
<1>8. SlotOK(q)' /\ q.pc \notin XPc \cup SPc
  BY <1>4, <1>7 DEF SlotOK, SlotShape, SlotEpoch, SlotCaptured, RevokesAll, UserPc,
              SecretPc, RedeemPc, BumpedPc, XPc, SPc
<1>9. /\ txn' \in [Txn -> TxnRec]
      /\ txn'[t] = q
      /\ \A o \in Txn : o # t => txn'[o] = txn[o]
  BY <1>4, <1>7, GotoFrame DEF TypeOK
<1>10. Exclusion'
  BY <1>4, <1>7, <1>8, ExclusionFrame
<1>11. cred' \in [Cred -> CredRow]
  BY <1>3, <1>5 DEF TypeOK, StoreTypeOK, CredRow
<1>12. StoreTypeOK' /\ StoreOK'
  BY <1>6, <1>11 DEF TypeOK, StoreTypeOK, StoreOK
<1>13. \A v \in User : /\ v # u => LiveCreds(v)' \subseteq LiveCreds(v)
                       /\ OpenEnrs(v)' = OpenEnrs(v)
  BY <1>5, <1>6 DEF LiveCreds, OpenEnrs
<1>14. ASSUME NEW o \in Txn, o # t PROVE SlotOK(txn[o])'
  <2>1. PICK x \in TxnRec : x = txn[o] /\ SlotOK(x)
    BY SlotFacts
  <2>2. x.user = u => x.pc \notin XPc
    BY <1>3, <1>14, <2>1, AloneOnRow
  <2>3. SlotOK(x)'
    BY <1>6, <1>13, <2>1, <2>2, SlotStable
  <2> QED
    BY <1>9, <1>14, <2>1, <2>3
<1>15. Slots'
  BY <1>7, <1>8, <1>9, <1>14 DEF Slots
<1>16. NoCredentialOutlivesRevocation'
  <2>1. ASSUME NEW v \in User, NEW c \in LiveCreds(v)'
        PROVE  cred'[c].auth >= cutoff'[v]
    <3>1. c \in Cred /\ cred'[c].user = v /\ ~cred'[c].revoked
      BY <2>1 DEF LiveCreds
    <3>2. CASE c \in txn[t].creds
      BY <1>3, <1>5, <1>6, <3>1, <3>2 DEF StoreOK, TypeOK, StoreTypeOK
    <3>3. CASE c \notin txn[t].creds
      BY <1>5, <1>6, <3>1, <3>3 DEF NoCredentialOutlivesRevocation, LiveCreds
    <3> QED
      BY <3>2, <3>3
  <2> QED
    BY <2>1 DEF NoCredentialOutlivesRevocation
<1>17. NoEnrolmentOutlivesRevocation'
  BY <1>6 DEF NoEnrolmentOutlivesRevocation, OpenEnrs
<1> QED
  BY <1>9, <1>10, <1>12, <1>15, <1>16, <1>17 DEF TypeOK

\* CreateEnrolment's insert: under the share lock the row's epoch is the
\* current one.  A duplicate secret writes nothing.
LEMMA EnrolInsertLoud == ASSUME IInv, NEW t \in Txn, EnrolInsert(t) PROVE IInv'
<1> USE DEF IInv
<1>1. txn[t] \in TxnRec /\ SlotOK(txn[t]) /\ txn[t].pc = "enrolling"
  BY SlotFacts DEF EnrolInsert
<1>2. PICK u \in User : u = txn[t].user
  BY <1>1 DEF SlotOK, SlotShape, UserPc
<1>3. PICK s \in Secret : s = txn[t].secret
  BY <1>1 DEF SlotOK, SlotShape, SecretPc
<1>4. UNCHANGED <<row, admin, epoch, pw, cred, ledger, cutoff>>
  BY DEF EnrolInsert
<1>5. CASE Answer(t, "ALREADY_EXISTS") /\ UNCHANGED enr
  <2>1. "ALREADY_EXISTS" \in Out
    BY DEF Out
  <2> QED
    BY <1>4, <1>5, <2>1, AnswerQuiet DEF store
<1>6. CASE /\ enr[s].user = None
           /\ enr' = [enr EXCEPT ![s] = [NoEnr EXCEPT !.user = u, !.at = epoch[u],
                                                !.demand = txn[t].demand,
                                                !.revoking = txn[t].revoking]]
           /\ AnswerCreated(t)
  <2> DEFINE r == [Idle EXCEPT !.pc = "done", !.out = "OK", !.user = txn[t].user,
                         !.creds = txn[t].creds, !.enrs = txn[t].enrs]
             n == [NoEnr EXCEPT !.user = u, !.at = epoch[u],
                     !.demand = txn[t].demand, !.revoking = txn[t].revoking]
  <2>1. epoch[u] \in Nat /\ HoldsS(t, u)
    BY <1>1, <1>2 DEF TypeOK, StoreTypeOK, HoldsS, SPc
  <2>2. NoEnr \in EnrRow
    BY DEF NoEnr, EnrRow
  <2>3. n \in EnrRow /\ n.user = u /\ n.at = epoch[u]
    BY <1>1, <2>1, <2>2 DEF EnrRow, TxnRec
  <2>4. enr' = [enr EXCEPT ![s] = n]
    BY <1>6
  <2>5. r \in TxnRec /\ r.pc = "done" /\ Goto(t, r)
    BY <1>6, CreatedSlot DEF AnswerCreated
  <2> HIDE DEF r, n
  <2>6. PICK q \in TxnRec : q = r
    BY <2>5
  <2>7. SlotOK(q)' /\ q.pc \notin XPc \cup SPc
    BY <2>5, <2>6 DEF SlotOK, SlotShape, SlotEpoch, SlotCaptured, RevokesAll,
              UserPc, SecretPc, RedeemPc, BumpedPc, XPc, SPc
  <2>8. /\ txn' \in [Txn -> TxnRec]
        /\ txn'[t] = q
        /\ \A o \in Txn : o # t => txn'[o] = txn[o]
    BY <2>5, <2>6, GotoFrame DEF TypeOK
  <2>9. Exclusion'
    BY <2>5, <2>6, <2>7, ExclusionFrame
  <2>10. enr' \in [Secret -> EnrRow]
    BY <2>3, <2>4 DEF TypeOK, StoreTypeOK
  <2>11. StoreTypeOK' /\ StoreOK'
    BY <1>4, <2>10 DEF TypeOK, StoreTypeOK, StoreOK
  <2>12. enr'[s] = n /\ \A z \in Secret : z # s => enr'[z] = enr[z]
    BY <2>4 DEF TypeOK, StoreTypeOK
  <2>13. \A v \in User : /\ LiveCreds(v)' = LiveCreds(v)
                         /\ v # u => OpenEnrs(v)' \subseteq OpenEnrs(v)
    BY <1>4, <2>3, <2>12 DEF LiveCreds, OpenEnrs
  <2>14. ASSUME NEW o \in Txn, o # t PROVE SlotOK(txn[o])'
    <3>1. PICK x \in TxnRec : x = txn[o] /\ SlotOK(x)
      BY SlotFacts
    <3>2. x.user = u => x.pc \notin XPc
      BY <2>1, <2>14, <3>1, AloneOnRow
    <3>3. \A z \in Secret : enr[z].user \in User => enr'[z].user = enr[z].user
      BY <1>6, <2>12, NoneAssumption
    <3>4. SlotOK(x)'
      BY <1>4, <2>13, <3>1, <3>2, <3>3, SlotStable
    <3> QED
      BY <2>8, <2>14, <3>1, <3>4
  <2>15. Slots'
    BY <2>6, <2>7, <2>8, <2>14 DEF Slots
  <2>16. NoCredentialOutlivesRevocation'
    BY <1>4 DEF NoCredentialOutlivesRevocation, LiveCreds
  <2>17. NoEnrolmentOutlivesRevocation'
    <3>1. ASSUME NEW v \in User, NEW z \in OpenEnrs(v)'
          PROVE  enr'[z].at >= cutoff'[v]
      <4>1. z \in Secret /\ enr'[z].user = v /\ ~enr'[z].spent /\ ~enr'[z].voided
        BY <3>1 DEF OpenEnrs
      <4>2. CASE z = s
        BY <1>4, <2>1, <2>3, <2>12, <4>1, <4>2 DEF StoreOK, TypeOK, StoreTypeOK
      <4>3. CASE z # s
        BY <1>4, <2>12, <4>1, <4>3 DEF NoEnrolmentOutlivesRevocation, OpenEnrs
      <4> QED
        BY <4>2, <4>3
    <3> QED
      BY <3>1 DEF NoEnrolmentOutlivesRevocation
  <2> QED
    BY <2>8, <2>9, <2>11, <2>15, <2>16, <2>17 DEF TypeOK
<1> QED
  BY <1>2, <1>3, <1>5, <1>6 DEF EnrolInsert

\* A step outside the slots that moves no epoch and no cutoff and only ever
\* takes rows away from the live and the open ones.
LEMMA OutsideFrame ==
    ASSUME IInv, UNCHANGED <<epoch, ledger, cutoff, txn>>, StoreTypeOK',
           \A v \in User : /\ LiveCreds(v)' \subseteq LiveCreds(v)
                           /\ OpenEnrs(v)' \subseteq OpenEnrs(v),
           \A c \in Cred : cred'[c].auth = cred[c].auth,
           \A s \in Secret : enr'[s].at = enr[s].at /\ enr'[s].user = enr[s].user
    PROVE  IInv'
<1> USE DEF IInv
<1>1. TypeOK' /\ Exclusion' /\ StoreOK'
  BY DEF TypeOK, Exclusion, HoldsX, HoldsS, StoreOK
<1>2. ASSUME NEW o \in Txn PROVE SlotOK(txn[o])'
  <2>1. PICK x \in TxnRec : x = txn[o] /\ SlotOK(x)
    BY SlotFacts
  <2>2. SlotOK(x)'
    BY <2>1, SlotStable
  <2> QED
    BY <2>1, <2>2
<1>3. \A v \in User : LiveCreds(v) \subseteq Cred /\ OpenEnrs(v) \subseteq Secret
  BY DEF LiveCreds, OpenEnrs
<1>4. NoCredentialOutlivesRevocation' /\ NoEnrolmentOutlivesRevocation'
  BY <1>3 DEF NoCredentialOutlivesRevocation, NoEnrolmentOutlivesRevocation
<1> QED
  BY <1>1, <1>2, <1>4 DEF Slots

LEMMA RevokeOneLoud ==
    ASSUME IInv, NEW c \in Cred, NEW u \in User, RevokeOne(c, u) PROVE IInv'
<1>1. /\ StoreTypeOK /\ cred' = Revoked({c})
      /\ UNCHANGED <<row, admin, epoch, pw, enr, ledger, cutoff, txn>>
  BY DEF IInv, TypeOK, RevokeOne, RevokeCredential
<1>2. cred' \in [Cred -> CredRow]
  BY <1>1, RevokedType
<1>3. StoreTypeOK'
  BY <1>1, <1>2 DEF StoreTypeOK
<1>4. \A v \in User : LiveCreds(v)' \subseteq LiveCreds(v) /\ OpenEnrs(v)' = OpenEnrs(v)
  BY <1>1, RevokedShrinks DEF OpenEnrs
<1>5. \A d \in Cred : cred'[d].auth = cred[d].auth
  BY <1>1, RevokedShrinks
<1> QED
  BY <1>1, <1>3, <1>4, <1>5, OutsideFrame

LEMMA UserRowLoud ==
    ASSUME IInv, NEW u \in User,
           \/ Withdraw(u)
           \/ \E b \in BOOLEAN : NewUser(u, b) \/ SetAdmin(u, b)
    PROVE  IInv'
<1>1. UNCHANGED <<epoch, pw, enr, cred, ledger, cutoff, txn>>
  BY DEF Withdraw, NewUser, SetAdmin, SoftDelete, CreateUser, SetUserAdmin
<1>2. row' \in [User -> RowState] /\ admin' \in [User -> BOOLEAN]
  BY DEF Withdraw, NewUser, SetAdmin, SoftDelete, CreateUser, SetUserAdmin,
         IInv, TypeOK, StoreTypeOK, RowState
<1>3. StoreTypeOK'
  BY <1>1, <1>2 DEF IInv, TypeOK, StoreTypeOK
<1>4. \A v \in User : LiveCreds(v)' = LiveCreds(v) /\ OpenEnrs(v)' = OpenEnrs(v)
  BY <1>1 DEF LiveCreds, OpenEnrs
<1> QED
  BY <1>1, <1>3, <1>4, OutsideFrame

LEMMA TickLoud == ASSUME IInv, NEW s \in Secret, Tick(s) PROVE IInv'
<1>1. /\ enr' = [enr EXCEPT ![s].expired = TRUE]
      /\ UNCHANGED <<row, admin, epoch, pw, cred, ledger, cutoff, txn>>
  BY DEF Tick, Expire
<1>2. enr \in [Secret -> EnrRow]
  BY DEF IInv, TypeOK, StoreTypeOK
<1>3. enr' \in [Secret -> EnrRow]
  BY <1>1, <1>2 DEF EnrRow
<1>4. \A z \in Secret : /\ enr'[z].user = enr[z].user /\ enr'[z].at = enr[z].at
                        /\ enr'[z].spent = enr[z].spent
                        /\ enr'[z].voided = enr[z].voided
  BY <1>1, <1>2 DEF EnrRow
<1>5. \A v \in User : LiveCreds(v)' = LiveCreds(v) /\ OpenEnrs(v)' = OpenEnrs(v)
  BY <1>1, <1>4 DEF LiveCreds, OpenEnrs
<1>6. StoreTypeOK'
  BY <1>1, <1>3 DEF IInv, TypeOK, StoreTypeOK
<1> QED
  BY <1>1, <1>4, <1>5, <1>6, OutsideFrame

-----------------------------------------------------------------------------
(* The invariant, and what follows from it.                                *)

LEMMA InitIInv == ASSUME Init PROVE IInv
<1> USE DEF Init, StoreInit
<1>1. \A t \in Txn : txn[t] = Idle
  OBVIOUS
<1>2. NoEnr \in EnrRow /\ NoCred \in CredRow /\ NoRow \in LedgerRow
  BY DEF NoEnr, NoCred, NoRow, EnrRow, CredRow, LedgerRow
<1>3. TypeOK
  BY <1>2, IdleType DEF TypeOK, StoreTypeOK, RowState
<1>4. Slots
  BY <1>1, IdleType, RestingSlot DEF Slots
<1>5. Exclusion
  BY <1>1, IdleType DEF Exclusion, HoldsX, XPc
<1>6. StoreOK
  BY DEF StoreOK, NoRow
<1>7. \A u \in User : LiveCreds(u) = {} /\ OpenEnrs(u) = {}
  BY NoneAssumption DEF LiveCreds, OpenEnrs, NoCred, NoEnr
<1> QED
  BY <1>3, <1>4, <1>5, <1>6, <1>7 DEF IInv, NoCredentialOutlivesRevocation,
                                      NoEnrolmentOutlivesRevocation

LEMMA BeginIInv == ASSUME IInv, NEW t \in Txn, Begin(t) PROVE IInv'
<1>1. ASSUME NEW u \in User, NEW s \in Secret, NEW arm \in {"ordinary", "revoking", "demand"},
             CreateEnrolment(t, u, s, arm = "demand", arm = "revoking")
      PROVE  IInv'
  BY <1>1, CreateEnrolmentQuiet
<1> QED
  BY <1>1, GetPasswordHashQuiet, RevokeAllLockQuiet, SetPasswordBumpQuiet,
     UncheckedQuiet, CheckedQuiet, RedeemBeginQuiet DEF Begin

LEMMA StepIInv == ASSUME IInv, NEW t \in Txn, Step(t) PROVE IInv'
BY MintInsertLoud, RereadQuiet, EnrolInsertLoud, RevokeAllWriteQuiet,
   RevokeAllCommitLoud, SetPasswordCommitLoud, RedeemLockQuiet, RedeemSpendQuiet,
   RedeemUnspentQuiet, RedeemRevokeQuiet, RedeemWriteQuiet, RedeemCommitLoud
   DEF Step

LEMMA OthersIInv == ASSUME IInv, Others PROVE IInv'
BY UserRowLoud, RevokeOneLoud, TickLoud DEF Others

LEMMA StutterIInv == ASSUME IInv, UNCHANGED vars PROVE IInv'
<1>1. StoreTypeOK'
  BY DEF vars, IInv, TypeOK, StoreTypeOK
<1>2. \A v \in User : LiveCreds(v)' = LiveCreds(v) /\ OpenEnrs(v)' = OpenEnrs(v)
  BY DEF vars, LiveCreds, OpenEnrs
<1> QED
  BY <1>1, <1>2, OutsideFrame DEF vars

\* The lock discipline of every handler keeps the inductive invariant.
THEOREM Invariance == Spec => []IInv
<1>1. Init => IInv
  BY InitIInv
<1>2. IInv /\ [Next]_vars => IInv'
  BY BeginIInv, StepIInv, OthersIInv, DropQuiet, StutterIInv DEF Next
<1> QED
  BY <1>1, <1>2, PTL DEF Spec

\* Type correctness: the tables and the slots stay in their column and field
\* types, for any number of people, secrets, keys, credentials and callers.
THEOREM TypeCorrect == Spec => []TypeOK
<1>1. IInv => TypeOK
  BY DEF IInv
<1> QED
  BY <1>1, Invariance, PTL

\* RevokeAllCredentials and a revoking RedeemEnrolment are complete: once one
\* commits, no live credential rests on a proof given before it.
THEOREM RevocationEndsCredentials == Spec => []NoCredentialOutlivesRevocation
<1>1. IInv => NoCredentialOutlivesRevocation
  BY DEF IInv
<1> QED
  BY <1>1, Invariance, PTL

\* And no enrolment issued before it can still be redeemed.
THEOREM RevocationEndsEnrolments == Spec => []NoEnrolmentOutlivesRevocation
<1>1. IInv => NoEnrolmentOutlivesRevocation
  BY DEF IInv
<1> QED
  BY <1>1, Invariance, PTL

-----------------------------------------------------------------------------
(* The epoch.                                                              *)

\* The step of EveryResetBumps for one person.
EpochMove(u) ==
    LET reset == pw'[u] # pw[u] \/ cutoff'[u] # cutoff[u]
    IN  epoch'[u] = IF reset THEN epoch[u] + 1 ELSE epoch[u]

\* A step that leaves the three columns alone moves no epoch.
LEMMA EpochStill ==
    ASSUME UNCHANGED <<epoch, pw, cutoff>>, NEW u \in User PROVE EpochMove(u)
BY DEF EpochMove

\* Only three commits move an epoch, and each holds the row, so the epoch it
\* read is still the stored one.
LEMMA CommitMoves ==
    ASSUME IInv, NEW t \in Txn, NEW u \in User,
           RevokeAllCommit(t) \/ SetPasswordCommit(t) \/ RedeemCommit(t)
    PROVE  EpochMove(u)
<1>1. txn[t].pc \in {"voided", "bumped", "written"}
  BY DEF RevokeAllCommit, SetPasswordCommit, RedeemCommit
<1>2. txn[t].user \in User
  BY <1>1, SlotFacts, SpentFacts DEF SlotOK, SlotShape, UserPc
<1>3. txn[t].epoch = epoch[txn[t].user] + 1
  BY <1>1, SlotFacts DEF SlotOK, SlotEpoch, BumpedPc
<1>4. /\ epoch \in [User -> Nat] /\ pw \in [User -> Nat] /\ cutoff \in [User -> Nat]
      /\ cutoff[txn[t].user] <= epoch[txn[t].user]
  BY <1>2 DEF IInv, TypeOK, StoreTypeOK, StoreOK
<1>5. CASE RevokeAllCommit(t)
  BY <1>2, <1>3, <1>4, <1>5 DEF RevokeAllCommit, EpochMove
<1>6. CASE SetPasswordCommit(t)
  BY <1>2, <1>3, <1>4, <1>6 DEF SetPasswordCommit, EpochMove
<1>7. CASE RedeemCommit(t)
  <2>1. /\ epoch' = [epoch EXCEPT ![txn[t].user] = txn[t].epoch]
        /\ pw' = [pw EXCEPT ![txn[t].user] = @ + 1]
        /\ \A v \in User : v # txn[t].user => cutoff'[v] = cutoff[v]
    BY <1>4, <1>7 DEF RedeemCommit
  <2> QED
    BY <1>2, <1>3, <1>4, <2>1 DEF EpochMove
<1> QED
  BY <1>5, <1>6, <1>7

\* Every other step of a slot leaves them alone.
LEMMA QuietEpoch ==
    ASSUME NEW t \in Txn,
           \/ Begin(t) \/ Drop(t) \/ MintInsert(t) \/ Reread(t) \/ EnrolInsert(t)
           \/ RevokeAllWrite(t) \/ RedeemLock(t) \/ RedeemSpend(t)
           \/ RedeemUnspent(t) \/ RedeemRevoke(t) \/ RedeemWrite(t)
    PROVE  UNCHANGED <<epoch, pw, cutoff>>
BY DEF store, Begin, Drop, MintInsert, Reread, EnrolInsert, RevokeAllWrite, RedeemLock,
       RedeemSpend, RedeemUnspent, RedeemRevoke, RedeemWrite, GetPasswordHash,
       RevokeAllLock, SetPasswordBump, CreateCredentialUnchecked,
       CreateCredentialChecked, MintRead, CreateEnrolment, RedeemBegin

LEMMA OutsideEpoch == ASSUME Others PROVE UNCHANGED <<epoch, pw, cutoff>>
BY DEF Others, Withdraw, NewUser, SetAdmin, RevokeOne, Tick, SoftDelete, CreateUser,
       SetUserAdmin, RevokeCredential, Expire

\* Every password and every revocation moves the epoch by exactly one and
\* nothing else does, so two bumps in flight never merge.
THEOREM ResetsBump == Spec => EveryResetBumps
<1>1. ASSUME IInv, [Next]_vars, NEW u \in User PROVE EpochMove(u)
  <2>1. CASE UNCHANGED vars
    BY <2>1, EpochStill DEF vars
  <2>2. CASE Others
    BY <2>2, OutsideEpoch, EpochStill
  <2>3. ASSUME NEW t \in Txn, Begin(t) \/ Step(t) \/ Drop(t) PROVE EpochMove(u)
    BY <1>1, <2>3, CommitMoves, QuietEpoch, EpochStill DEF Step
  <2> QED
    BY <1>1, <2>1, <2>2, <2>3 DEF Next
<1>2. IInv /\ [Next]_vars => [\A u \in User : EpochMove(u)]_vars
  BY <1>1
<1>3. Spec => [][\A u \in User : EpochMove(u)]_vars
  BY <1>2, Invariance, PTL DEF Spec
<1> QED
  BY <1>3 DEF EveryResetBumps, EpochMove
=============================================================================
