------------------------ MODULE AccountLedgerProofs ------------------------
(***************************************************************************)
(* More theorems about Account, on top of the invariant of AccountProofs:  *)
(* redemptions happen once and are replayed, a mint rests on the current   *)
(* password, the demand arm on the absence of any credential, and every    *)
(* statement-level behaviour is one of AccountAtomic.                      *)
(***************************************************************************)
EXTENDS AccountProofs

-----------------------------------------------------------------------------
(* Steps that write nothing.                                               *)

\* The slot a step starts from.
LEMMA RedeemSlotFacts ==
    ASSUME IInv, RedeemInv, NEW t \in Txn
    PROVE  /\ txn[t] \in TxnRec /\ SlotOK(txn[t])
           /\ SlotUnderLock(txn[t]) /\ SlotRefused(txn[t])
BY SlotFacts DEF RedeemInv, RedeemSlots

\* A slot that ended has nothing to keep.
LEMMA RestingUnderLock ==
    ASSUME NEW r \in TxnRec, r.pc \in {"idle", "done"}, ~r.checked
    PROVE  SlotUnderLock(r) /\ r.pc \notin SpentPc \cup {"minting", "zero"}
BY DEF SlotUnderLock, SlotProof, SlotPerson, SlotSpend, SpentPc, TombPc

\* A step that writes nothing keeps the invariant if its own slot does, takes
\* no live secret out of a refusal's sight, and shares no id and no key.
LEMMA QuietRedeem ==
    ASSUME IInv, RedeemInv, UNCHANGED store, NEW t \in Txn, NEW r \in TxnRec, Goto(t, r),
           SlotUnderLock(r),
           (r.pc = "done" /\ r.out \in Refusal /\ r.key # None /\ r.secret # None) =>
              /\ ledger[r.key].secret # r.secret
              /\ ledger[r.key].secret = None =>
                    /\ Dead(r.secret)
                    /\ \A o \in Txn \ {t} : txn[o].pc \in SpentPc => txn[o].secret # r.secret,
           r.pc \in SpentPc => \/ txn[t].pc \in SpentPc /\ txn[t].secret = r.secret
                               \/ ~Dead(r.secret),
           r.pc = "written" => ~KeyHeld(t, r.key),
           r.pc \in {"minting", "zero"} =>
              \A o \in Txn \ {t} : txn[o].pc \in {"minting", "zero"}
                                      => r.creds \cap txn[o].creds = {}
    PROVE  RedeemInv'
<1>1. /\ txn' \in [Txn -> TxnRec]
      /\ txn'[t] = r
      /\ \A o \in Txn : o # t => txn'[o] = txn[o]
  BY GotoFrame DEF IInv, TypeOK
<1>2. \A x : /\ SlotUnderLock(x)' <=> SlotUnderLock(x)
             /\ Dead(x)' <=> Dead(x)
  BY DEF store, SlotUnderLock, SlotProof, SlotPerson, SlotSpend, Dead, PasswordOfEpoch,
         ZeroCredentialAdmin, Unspent, LiveCreds, OpenEnrs, KeyFree
<1>3. ledger' = ledger
  BY DEF store
<1>4. "done" \notin SpentPc
  BY DEF SpentPc
<1>5. ASSUME NEW o \in Txn, o # t PROVE SlotRefused(txn[o])'
  <2>1. SlotRefused(txn[o]) /\ txn'[o] = txn[o]
    BY <1>1, <1>5 DEF RedeemInv, RedeemSlots
  <2>2. ASSUME Dead(txn[o].secret), \A p \in Txn : txn[p].pc \in SpentPc => txn[p].secret # txn[o].secret
        PROVE  \A p \in Txn : txn'[p].pc \in SpentPc => txn'[p].secret # txn[o].secret
    BY <1>1, <2>2
  <2> QED
    BY <1>2, <1>3, <2>1, <2>2 DEF SlotRefused
<1>6. SlotRefused(txn[t])'
  BY <1>1, <1>2, <1>3, <1>4 DEF SlotRefused
<1>7. RedeemSlots'
  BY <1>1, <1>2, <1>5, <1>6 DEF RedeemInv, RedeemSlots
<1>8. Apart'
  BY <1>1 DEF RedeemInv, Apart, KeyHeld
<1>9. LedgerStore'
  BY DEF RedeemInv, LedgerStore, store, SpentXorVoided, LedgerSound, PasswordOfEpoch
<1> QED
  BY <1>7, <1>8, <1>9 DEF RedeemInv

LEMMA DropRedeem ==
    ASSUME IInv, RedeemInv, UNCHANGED store, NEW t \in Txn, Goto(t, Idle) PROVE RedeemInv'
<1>1. Idle \in TxnRec /\ Idle.pc = "idle" /\ ~Idle.checked
  BY IdleType
<1>2. "idle" # "done" /\ "idle" # "written" /\ "idle" \notin SpentPc
  BY DEF SpentPc
<1> QED
  BY <1>1, <1>2, RestingUnderLock, QuietRedeem

\* Answers without a secret and a key.
LEMMA AnswerPlain ==
    ASSUME IInv, RedeemInv, UNCHANGED store, NEW t \in Txn, NEW r \in TxnRec, Goto(t, r),
           r.pc = "done", ~r.checked, r.secret = None
    PROVE  RedeemInv'
<1>1. SlotUnderLock(r) /\ r.pc \notin SpentPc \cup {"minting", "zero"}
  BY RestingUnderLock
<1> QED
  BY <1>1, QuietRedeem

LEMMA AnswerRedeemInv ==
    ASSUME IInv, RedeemInv, UNCHANGED store, NEW t \in Txn, NEW out \in Out, Answer(t, out)
    PROVE  RedeemInv'
<1> DEFINE r == [Idle EXCEPT !.pc = "done", !.out = out]
<1>1. r \in TxnRec /\ r.pc = "done" /\ ~r.checked /\ r.secret = None
  BY IdleType DEF TxnRec, Pc
<1>2. Goto(t, r)
  BY DEF Answer
<1> HIDE DEF r
<1> QED
  BY <1>1, <1>2, AnswerPlain

LEMMA AnswerCreatedRedeem ==
    ASSUME IInv, RedeemInv, UNCHANGED store, NEW t \in Txn, AnswerCreated(t)
    PROVE  RedeemInv'
<1> DEFINE r == [Idle EXCEPT !.pc = "done", !.out = "OK", !.user = txn[t].user,
                         !.creds = txn[t].creds, !.enrs = txn[t].enrs]
<1>1. r \in TxnRec /\ r.pc = "done" /\ ~r.checked /\ r.secret = None
  BY IdleType, SlotFacts DEF TxnRec, Pc, Out
<1>2. Goto(t, r)
  BY DEF AnswerCreated
<1> HIDE DEF r
<1> QED
  BY <1>1, <1>2, AnswerPlain

LEMMA RereadRedeem ==
    ASSUME IInv, RedeemInv, NEW t \in Txn, Reread(t) PROVE RedeemInv'
<1>1. {"NOT_FOUND", "FAILED_PRECONDITION", "PERMISSION_DENIED"} \subseteq Out
  BY DEF Out, Refusal
<1> QED
  BY <1>1, AnswerRedeemInv, AnswerCreatedRedeem DEF Reread

\* A proof in hand: its hash was the current one in its epoch.
LEMMA ProvedRedeem ==
    ASSUME IInv, RedeemInv, UNCHANGED store, NEW t \in Txn, NEW u \in User, NEW e \in Nat,
           NEW p \in Nat, Goto(t, Proved(u, e, e, p)), PasswordOfEpoch(u, e, p)
    PROVE  RedeemInv'
<1> DEFINE r == Proved(u, e, e, p)
<1>1. /\ r \in TxnRec /\ r.pc = "proved" /\ r.user = u /\ r.epoch = e /\ r.pw = p
      /\ ~r.checked
  BY IdleType DEF Proved, TxnRec, Pc
<1>2. Goto(t, r)
  OBVIOUS
<1> HIDE DEF r
<1>3. SlotUnderLock(r) /\ r.pc \notin SpentPc \cup {"minting", "zero", "done"}
  BY <1>1 DEF SlotUnderLock, SlotProof, SlotPerson, SlotSpend, SpentPc, TombPc
<1> QED
  BY <1>1, <1>2, <1>3, QuietRedeem

LEMMA GetPasswordHashRedeem ==
    ASSUME IInv, RedeemInv, NEW t \in Txn, NEW u \in User, GetPasswordHash(t, u)
    PROVE  RedeemInv'
<1>1. epoch[u] \in Nat /\ pw[u] \in Nat
  BY DEF IInv, TypeOK, StoreTypeOK
<1> QED
  BY <1>1, ProvedRedeem DEF GetPasswordHash, PasswordOfEpoch

\* The share-locking read of CreateCredential, with a fresh id.
LEMMA MintReadRedeem ==
    ASSUME IInv, RedeemInv, NEW t \in Txn, NEW r \in TxnRec, r.user \in User,
           NEW c \in Cred, r.creds = {c}, FreshCred(c),
           r.checked => PasswordOfEpoch(r.user, r.epoch, r.pw),
           MintRead(t, r)
    PROVE  RedeemInv'
<1> DEFINE q == [r EXCEPT !.pc = IF MintMatches(r.user, r.checked, r.epoch)
                                 THEN "minting" ELSE "zero"]
<1>1. /\ q \in TxnRec /\ q.pc \in {"minting", "zero"} /\ q.user = r.user
      /\ q.creds = {c} /\ q.pw = r.pw
  BY DEF TxnRec, Pc, ServerPc, SPc
<1>2. q.checked = r.checked
  BY DEF TxnRec
<1>3. q.pc = "minting" => /\ row[q.user] = "live"
                          /\ q.checked => q.pw = pw[q.user]
  BY <1>2 DEF TxnRec, MintMatches, PasswordOfEpoch
<1>4. Goto(t, q) /\ UNCHANGED store
  BY DEF MintRead
<1> HIDE DEF q
<1>5. SlotUnderLock(q) /\ q.pc \notin SpentPc \cup {"done"}
  BY <1>1, <1>3 DEF SlotUnderLock, SlotProof, SlotPerson, SlotSpend, SpentPc, TombPc,
                    FreshCred
<1>6. \A o \in Txn : q.creds \cap txn[o].creds = {}
  BY <1>1 DEF FreshCred
<1> QED
  BY <1>1, <1>4, <1>5, <1>6, QuietRedeem

LEMMA UncheckedRedeem ==
    ASSUME IInv, RedeemInv, NEW t \in Txn, NEW u \in User, NEW c \in Cred,
           CreateCredentialUnchecked(t, u, c)
    PROVE  RedeemInv'
<1> DEFINE r == [Idle EXCEPT !.user = u, !.creds = {c}, !.auth = epoch[u]]
<1>1. epoch[u] \in Nat
  BY DEF IInv, TypeOK, StoreTypeOK
<1>2. r \in TxnRec /\ r.user = u /\ ~r.checked /\ r.creds = {c}
  BY <1>1, IdleType DEF TxnRec
<1>3. MintRead(t, r) /\ FreshCred(c)
  BY DEF CreateCredentialUnchecked
<1> HIDE DEF r
<1> QED
  BY <1>2, <1>3, MintReadRedeem

LEMMA CheckedRedeem ==
    ASSUME IInv, RedeemInv, NEW t \in Txn, NEW c \in Cred, CreateCredentialChecked(t, c)
    PROVE  RedeemInv'
<1> DEFINE r == [txn[t] EXCEPT !.creds = {c}, !.checked = TRUE]
<1>1. /\ txn[t] \in TxnRec /\ txn[t].user \in User
      /\ PasswordOfEpoch(txn[t].user, txn[t].epoch, txn[t].pw)
  BY RedeemSlotFacts DEF CreateCredentialChecked, SlotOK, SlotShape, SlotUnderLock,
     SlotProof, UserPc
<1>2. /\ r \in TxnRec /\ r.user = txn[t].user /\ r.epoch = txn[t].epoch
      /\ r.pw = txn[t].pw /\ r.creds = {c}
  BY <1>1 DEF TxnRec
<1>3. MintRead(t, r) /\ FreshCred(c)
  BY DEF CreateCredentialChecked
<1> HIDE DEF r
<1> QED
  BY <1>1, <1>2, <1>3, MintReadRedeem

LEMMA RevokeAllLockRedeem ==
    ASSUME IInv, RedeemInv, NEW t \in Txn, NEW u \in User, RevokeAllLock(t, u)
    PROVE  RedeemInv'
<1> DEFINE r == [Idle EXCEPT !.pc = "locked", !.user = u]
<1>1. r \in TxnRec /\ r.pc = "locked" /\ r.user = u /\ ~r.checked
  BY IdleType DEF TxnRec, Pc, ServerPc, XPc
<1>2. Goto(t, r) /\ row[u] # "absent" /\ UNCHANGED store
  BY <1>1 DEF RevokeAllLock
<1> HIDE DEF r
<1>3. SlotUnderLock(r) /\ r.pc \notin SpentPc \cup {"done", "minting", "zero"}
  BY <1>1, <1>2 DEF SlotUnderLock, SlotProof, SlotPerson, SlotSpend, SpentPc, TombPc
<1> QED
  BY <1>1, <1>2, <1>3, QuietRedeem

LEMMA RevokeAllWriteRedeem ==
    ASSUME IInv, RedeemInv, NEW t \in Txn, RevokeAllWrite(t) PROVE RedeemInv'
<1> DEFINE u == txn[t].user
           r == [txn[t] EXCEPT !.pc = "voided", !.creds = LiveCreds(u),
                               !.enrs = OpenEnrs(u), !.epoch = Bumped(u)]
<1>1. /\ txn[t] \in TxnRec /\ txn[t].pc = "locked"
      /\ u \in User /\ txn[t].secret = None
      /\ row[u] # "absent" /\ ~txn[t].checked
  BY RedeemSlotFacts DEF RevokeAllWrite, SlotOK, SlotShape, UserPc, SlotUnderLock,
     SlotPerson, SlotProof
<1>2. /\ r \in TxnRec /\ r.pc = "voided" /\ r.user = u /\ r.secret = None
      /\ r.creds = LiveCreds(u) /\ r.enrs = OpenEnrs(u)
  BY <1>1, ReadTypes DEF TxnRec, Pc, ServerPc, XPc
<1>3. r.checked = txn[t].checked
  BY <1>1 DEF TxnRec
<1>4. Goto(t, r) /\ UNCHANGED store
  BY DEF RevokeAllWrite
<1>5. OpenEnrs(u) \subseteq OpenEnrs(u) \ {None}
  BY NoneAssumption DEF OpenEnrs
<1> HIDE DEF u, r
<1>6. SlotUnderLock(r) /\ r.pc \notin SpentPc \cup {"done", "minting", "zero"}
  BY <1>1, <1>2, <1>3, <1>5 DEF SlotUnderLock, SlotProof, SlotPerson, SlotSpend, SpentPc,
                                TombPc
<1> QED
  BY <1>2, <1>4, <1>6, QuietRedeem

LEMMA SetPasswordBumpRedeem ==
    ASSUME IInv, RedeemInv, NEW t \in Txn, NEW u \in User, SetPasswordBump(t, u)
    PROVE  RedeemInv'
<1> DEFINE r == [Idle EXCEPT !.pc = "bumped", !.user = u, !.epoch = Bumped(u)]
<1>1. r \in TxnRec /\ r.pc = "bumped" /\ r.user = u /\ ~r.checked
  BY IdleType, ReadTypes DEF TxnRec, Pc, ServerPc, XPc
<1>2. Goto(t, r) /\ row[u] = "live" /\ UNCHANGED store
  BY <1>1 DEF SetPasswordBump
<1> HIDE DEF r
<1>3. SlotUnderLock(r) /\ r.pc \notin SpentPc \cup {"done", "minting", "zero"}
  BY <1>1, <1>2 DEF SlotUnderLock, SlotProof, SlotPerson, SlotSpend, SpentPc, TombPc
<1> QED
  BY <1>1, <1>2, <1>3, QuietRedeem

LEMMA CreateEnrolmentRedeem ==
    ASSUME IInv, RedeemInv, NEW t \in Txn, NEW u \in User, NEW s \in Secret,
           NEW d \in BOOLEAN, NEW v \in BOOLEAN, CreateEnrolment(t, u, s, d, v)
    PROVE  RedeemInv'
<1> DEFINE p == IF EnrolMatches(u, d) THEN "enrolling" ELSE "zero"
           r == [Idle EXCEPT !.pc = p, !.user = u, !.secret = s, !.enrs = {s},
                             !.demand = d, !.revoking = v]
<1>1. /\ p \in {"enrolling", "zero"}
      /\ p = "enrolling" => row[u] = "live" /\ (d => ZeroCredentialAdmin(u))
  BY DEF EnrolMatches
<1>2. Goto(t, r) /\ ~(d /\ v) /\ UNCHANGED store
  BY DEF CreateEnrolment
<1> HIDE DEF p
<1>3. r \in TxnRec /\ r.pc = p /\ r.user = u /\ r.creds = {} /\ ~r.checked
  BY <1>1, IdleType DEF TxnRec, Pc, ServerPc, SPc, Idle
<1>4. r.demand = d /\ r.revoking = v
  BY IdleType DEF TxnRec
<1> HIDE DEF r
<1>5. SlotUnderLock(r) /\ r.pc \notin SpentPc \cup {"done", "minting"}
  BY <1>1, <1>2, <1>3, <1>4 DEF SlotUnderLock, SlotProof, SlotPerson, SlotSpend, SpentPc,
                                TombPc
<1> QED
  BY <1>1, <1>2, <1>3, <1>5, QuietRedeem

\* A replay: the recorded hash was current in the recorded epoch.
LEMMA ReplayRedeem ==
    ASSUME IInv, RedeemInv, UNCHANGED store, NEW t \in Txn, NEW s \in Secret \cup {None},
           NEW k \in Key \cup {None}, ~KeyFree(k), Replay(t, s, k)
    PROVE  RedeemInv'
<1>1. /\ k \in Key /\ ledger[k].user \in User
      /\ ledger[k].epoch \in Nat /\ ledger[k].pw \in Nat
  BY DEF KeyFree, IInv, StoreOK, TypeOK, StoreTypeOK, LedgerRow
<1>2. PasswordOfEpoch(ledger[k].user, ledger[k].epoch, ledger[k].pw)
  BY <1>1 DEF KeyFree, RedeemInv, LedgerStore
<1>3. CASE ReplayAnswer(t, k)
  BY <1>1, <1>2, <1>3, ProvedRedeem DEF ReplayAnswer, ReplayEpoch
<1>4. CASE Answer(t, "INVALID_ARGUMENT")
  BY <1>4, AnswerRedeemInv DEF Out
<1> QED
  BY <1>3, <1>4 DEF Replay

LEMMA RedeemBeginRedeem ==
    ASSUME IInv, RedeemInv, NEW t \in Txn, NEW s \in Secret \cup {None},
           NEW k \in Key \cup {None}, RedeemBegin(t, s, k)
    PROVE  RedeemInv'
<1> DEFINE r == [Idle EXCEPT !.pc = "keyed", !.secret = s, !.key = k]
<1>1. r \in TxnRec /\ r.pc = "keyed" /\ ~r.checked
  BY IdleType DEF TxnRec, Pc, ServerPc
<1>2. UNCHANGED store
  BY DEF RedeemBegin
<1>3. CASE ~KeyFree(k) /\ Replay(t, s, k)
  BY <1>2, <1>3, ReplayRedeem
<1>4. CASE Goto(t, r)
  <2> HIDE DEF r
  <2>1. SlotUnderLock(r) /\ r.pc \notin SpentPc \cup {"done", "minting", "zero"}
    BY <1>1 DEF SlotUnderLock, SlotProof, SlotPerson, SlotSpend, SpentPc, TombPc
  <2> QED
    BY <1>1, <1>2, <1>4, <2>1, QuietRedeem
<1>5. CASE Answer(t, "INVALID_ARGUMENT")
  BY <1>2, <1>5, AnswerRedeemInv DEF Out
<1> QED
  BY <1>3, <1>4, <1>5 DEF RedeemBegin

LEMMA RedeemLockRedeem ==
    ASSUME IInv, RedeemInv, NEW t \in Txn, RedeemLock(t) PROVE RedeemInv'
<1> DEFINE s == txn[t].secret
           u == IF s = None THEN None ELSE enr[s].user
           r == [txn[t] EXCEPT !.pc = "owned", !.user = u]
<1>1. /\ txn[t] \in TxnRec /\ txn[t].pc = "keyed" /\ SlotOK(txn[t]) /\ ~txn[t].checked
  BY RedeemSlotFacts DEF RedeemLock, SlotUnderLock, SlotProof
<1>2. u \in User \cup {None}
  BY <1>1 DEF SlotOK, SlotShape
<1>3. Goto(t, r) /\ UNCHANGED store
  BY DEF RedeemLock
<1> HIDE DEF u
<1>4. r \in TxnRec /\ r.pc = "owned"
  BY <1>1, <1>2 DEF TxnRec, Pc, ServerPc, XPc
<1>5. r.checked = txn[t].checked
  BY <1>1 DEF TxnRec
<1> HIDE DEF r, s
<1>6. SlotUnderLock(r) /\ r.pc \notin SpentPc \cup {"done", "minting", "zero"}
  BY <1>1, <1>4, <1>5 DEF SlotUnderLock, SlotProof, SlotPerson, SlotSpend, SpentPc, TombPc
<1> QED
  BY <1>3, <1>4, <1>6, QuietRedeem

\* The spend finds its row unspent, or a secret that is dead for good.
LEMMA RedeemSpendRedeem ==
    ASSUME IInv, RedeemInv, NEW t \in Txn, RedeemSpend(t) PROVE RedeemInv'
<1> DEFINE s == txn[t].secret
           p == IF SpendMatches(s) THEN "spent" ELSE "unspent"
           r == [txn[t] EXCEPT !.pc = p]
<1>1. /\ txn[t] \in TxnRec /\ txn[t].pc = "owned" /\ SlotOK(txn[t]) /\ ~txn[t].checked
  BY RedeemSlotFacts DEF RedeemSpend, SlotUnderLock, SlotProof
<1>2. s \in Secret \cup {None} /\ (s # None => enr[s].user \in User)
  BY <1>1 DEF TxnRec, SlotOK, SlotShape, RedeemPc
<1>3. /\ p \in {"spent", "unspent"}
      /\ p = "spent" => Unspent(s) /\ ~Dead(s)
      /\ (p = "unspent" /\ s # None) => Dead(s)
  <2>1. s # None => row[enr[s].user] \in {"live", "deleted"} /\ enr[s].user # None
    BY <1>2, NoneAssumption DEF RedeemInv, LedgerStore, IInv, TypeOK, StoreTypeOK, RowState
  <2> QED
    BY <2>1 DEF SpendMatches, Unspent, Dead
<1>4. Goto(t, r) /\ UNCHANGED store
  BY DEF RedeemSpend
<1> HIDE DEF p
<1>5. r \in TxnRec /\ r.pc = p /\ r.secret = s
  BY <1>1, <1>3 DEF TxnRec, Pc, ServerPc, XPc
<1>6. r.checked = txn[t].checked
  BY <1>1 DEF TxnRec
<1> HIDE DEF r, s
<1>7. SlotUnderLock(r)
  BY <1>1, <1>3, <1>5, <1>6 DEF SlotUnderLock, SlotProof, SlotPerson, SlotSpend, SpentPc,
                                TombPc
<1> QED
  BY <1>3, <1>4, <1>5, <1>7, QuietRedeem DEF SpentPc

\* A refusal that keeps its secret and its key.
LEMMA AnswerRefused ==
    ASSUME IInv, RedeemInv, UNCHANGED store, NEW t \in Txn, NEW out \in Out,
           NEW s \in Secret \cup {None}, NEW k \in Key \cup {None},
           AnswerRedeem(t, out, s, k),
           (s # None /\ k # None) =>
              /\ ledger[k].secret # s
              /\ ledger[k].secret = None =>
                    /\ Dead(s)
                    /\ \A o \in Txn \ {t} : txn[o].pc \in SpentPc => txn[o].secret # s
    PROVE  RedeemInv'
<1> DEFINE r == [Idle EXCEPT !.pc = "done", !.out = out, !.secret = s, !.key = k]
<1>1. r \in TxnRec /\ r.pc = "done" /\ ~r.checked /\ r.secret = s /\ r.key = k
  BY IdleType DEF TxnRec, Pc
<1>2. Goto(t, r)
  BY DEF AnswerRedeem
<1> HIDE DEF r
<1>3. SlotUnderLock(r) /\ r.pc \notin SpentPc \cup {"minting", "zero"}
  BY <1>1, RestingUnderLock
<1> QED
  BY <1>1, <1>2, <1>3, QuietRedeem

\* Nobody else is spending the secret whose owner's row this slot has locked.
LEMMA AloneOnSecret ==
    ASSUME IInv, NEW t \in Txn, txn[t].pc \in RedeemPc, txn[t].secret # None,
           NEW o \in Txn \ {t}, txn[o].pc \in RedeemPc
    PROVE  txn[o].secret # txn[t].secret
<1>1. SlotShape(txn[t]) /\ SlotShape(txn[o])
  BY SlotFacts DEF SlotOK
<1>2. txn[t].user \in User /\ txn[t].user = enr[txn[t].secret].user
  BY <1>1 DEF SlotShape
<1>3. txn[o].secret = txn[t].secret => txn[o].user = txn[t].user
  BY <1>1, <1>2 DEF SlotShape
<1>4. RedeemPc \subseteq XPc
  BY DEF RedeemPc, XPc
<1> QED
  BY <1>2, <1>3, <1>4 DEF IInv, Exclusion, HoldsX

LEMMA RedeemUnspentRedeem ==
    ASSUME IInv, RedeemInv, NEW t \in Txn, RedeemUnspent(t) PROVE RedeemInv'
<1> DEFINE s == txn[t].secret
           k == txn[t].key
<1>1. /\ txn[t] \in TxnRec /\ s \in Secret \cup {None} /\ k \in Key \cup {None}
      /\ txn[t].pc = "unspent" /\ UNCHANGED store
  BY RedeemSlotFacts DEF RedeemUnspent, TxnRec
<1>2. Unredeemable(s) \in Out
  BY DEF Unredeemable, Out, Refusal
<1>3. CASE KeyFree(k) /\ AnswerRedeem(t, Unredeemable(s), s, k)
  <2>1. ASSUME s # None, k # None
        PROVE  /\ ledger[k].secret # s
               /\ Dead(s)
               /\ \A o \in Txn \ {t} : txn[o].pc \in SpentPc => txn[o].secret # s
    <3>1. Dead(s)
      BY <1>1, <2>1, RedeemSlotFacts DEF SlotUnderLock, SlotSpend
    <3>2. ledger[k].secret = None
      BY <1>1, <1>3, <2>1 DEF KeyFree
    <3>3. "unspent" \in RedeemPc /\ SpentPc \subseteq RedeemPc
      BY DEF RedeemPc, SpentPc
    <3> QED
      BY <1>1, <2>1, <3>1, <3>2, <3>3, AloneOnSecret
  <2> QED
    BY <1>1, <1>2, <1>3, <2>1, AnswerRefused
<1>4. CASE ~KeyFree(k) /\ Replay(t, s, k)
  BY <1>1, <1>4, ReplayRedeem
<1> QED
  BY <1>3, <1>4 DEF RedeemUnspent, SecondCheck

LEMMA RedeemRevokeRedeem ==
    ASSUME IInv, RedeemInv, NEW t \in Txn, RedeemRevoke(t) PROVE RedeemInv'
<1> DEFINE u == txn[t].user
           s == txn[t].secret
           all == enr[s].revoking
           C == IF all THEN LiveCreds(u) ELSE {}
           E == IF all THEN OpenEnrs(u) \ {s} ELSE {}
           r == [txn[t] EXCEPT !.pc = "revoking", !.revoking = all,
                               !.epoch = Bumped(u), !.creds = C, !.enrs = E]
<1>1. /\ txn[t] \in TxnRec /\ s \in Secret /\ u \in User /\ txn[t].pc = "spent"
      /\ Unspent(s) /\ ~txn[t].checked
  BY SpentFacts, RedeemSlotFacts DEF RedeemRevoke, SlotUnderLock, SlotSpend, SlotProof, SpentPc
<1>2. all \in BOOLEAN
  BY <1>1 DEF IInv, TypeOK, StoreTypeOK, EnrRow
<1>3. C \in SUBSET Cred /\ E \in SUBSET Secret /\ Bumped(u) \in Nat
  BY <1>1, ReadTypes
<1>4. /\ C \subseteq LiveCreds(u) /\ E \subseteq OpenEnrs(u) \ {s}
      /\ ~all => C = {} /\ E = {}
  OBVIOUS
<1>5. Goto(t, r) /\ UNCHANGED store
  BY DEF RedeemRevoke
<1> HIDE DEF u, s, all, C, E
<1>6. /\ r \in TxnRec /\ r.pc = "revoking" /\ r.user = u /\ r.secret = s
      /\ r.creds = C /\ r.enrs = E
  BY <1>1, <1>2, <1>3 DEF u, s, TxnRec, Pc, ServerPc, XPc
<1>7. r.revoking = all /\ r.checked = txn[t].checked
  BY <1>1, <1>2 DEF TxnRec
<1> HIDE DEF r
<1>8. SlotUnderLock(r)
  BY <1>1, <1>4, <1>6, <1>7 DEF SlotUnderLock, SlotProof, SlotPerson, SlotSpend, SpentPc,
                                TombPc, all
<1> QED
  BY <1>1, <1>5, <1>6, <1>8, QuietRedeem DEF SpentPc, s

LEMMA RedeemWriteRedeem ==
    ASSUME IInv, RedeemInv, NEW t \in Txn, RedeemWrite(t) PROVE RedeemInv'
<1> DEFINE r == [txn[t] EXCEPT !.pc = "written"]
           s == txn[t].secret
           k == txn[t].key
<1>1. txn[t].pc = "revoking" /\ UNCHANGED store /\ ~KeyHeld(t, k)
  BY DEF RedeemWrite
<1>2. /\ txn[t] \in TxnRec /\ s \in Secret /\ k \in Key \cup {None}
      /\ SlotUnderLock(txn[t]) /\ Unspent(s)
  BY <1>1, SpentFacts, RedeemSlotFacts DEF SlotUnderLock, SlotSpend, SpentPc, TxnRec
<1>3. CASE KeyFree(k) /\ Goto(t, r)
  <2>1. /\ r \in TxnRec /\ r.pc = "written" /\ r.user = txn[t].user
        /\ r.secret = txn[t].secret /\ r.creds = txn[t].creds
        /\ r.enrs = txn[t].enrs /\ r.key = txn[t].key
    BY <1>2 DEF TxnRec, Pc, ServerPc, XPc
  <2>2. r.revoking = txn[t].revoking /\ r.checked = txn[t].checked
    BY <1>2 DEF TxnRec
  <2> HIDE DEF r
  <2>3. SlotUnderLock(r)
    BY <1>1, <1>2, <1>3, <2>1, <2>2 DEF SlotUnderLock, SlotProof, SlotPerson, SlotSpend,
                                        SpentPc, TombPc
  <2> QED
    BY <1>1, <1>3, <2>1, <2>3, QuietRedeem DEF SpentPc
<1>4. CASE ~KeyFree(k) /\ AnswerRedeem(t, "UNAVAILABLE", s, k)
  <2>1. "UNAVAILABLE" \in Out
    BY DEF Out, Refusal
  <2>2. k \in Key /\ ledger[k].secret # None
    BY <1>4 DEF KeyFree
  <2>3. ledger[k].secret # s
    BY <1>2, <2>2 DEF RedeemInv, LedgerStore, LedgerSound, Unspent
  <2> QED
    BY <1>1, <1>2, <1>4, <2>1, <2>2, <2>3, AnswerRefused
<1> QED
  BY <1>3, <1>4 DEF RedeemWrite

-----------------------------------------------------------------------------
(* Steps that write.                                                       *)

\* A step that moves epochs by the rule of EveryResetBumps leaves a hash the
\* one of its epoch, or the epoch behind.
LEMMA PasswordKept ==
    ASSUME StoreTypeOK, StoreTypeOK', NEW u \in User, EpochMove(u), NEW e \in Nat,
           NEW p \in Nat, PasswordOfEpoch(u, e, p)
    PROVE  PasswordOfEpoch(u, e, p)'
<1>1. epoch[u] \in Nat /\ epoch'[u] \in Nat
  BY DEF StoreTypeOK
<1> QED
  BY <1>1 DEF PasswordOfEpoch, EpochMove

\* What a slot relies on under its locks, and what nobody may do to it.
LEMMA UnderLockStable ==
    ASSUME StoreTypeOK, StoreTypeOK', NEW x \in TxnRec, SlotOK(x), SlotUnderLock(x),
           \A u \in User : EpochMove(u),
           (x.user \in User /\ x.pc \in XPc \cup SPc) =>
              /\ row'[x.user] = row[x.user] /\ admin'[x.user] = admin[x.user]
              /\ pw'[x.user] = pw[x.user],
           x.pc = "minting" => \A c \in x.creds : cred'[c].user = cred[c].user,
           (x.pc = "enrolling" /\ x.demand) =>
              \A c \in Cred : cred'[c].user = x.user => cred[c].user = x.user,
           x.pc \in TombPc => \A c \in x.creds : cred'[c] = cred[c],
           (x.user \in User /\ x.pc \in XPc) =>
              \A s \in Secret : enr[s].user = x.user =>
                 /\ enr'[s].user = enr[s].user /\ enr'[s].revoking = enr[s].revoking
                 /\ enr'[s].spent = enr[s].spent /\ enr'[s].voided = enr[s].voided,
           \A s \in Secret : Dead(s) => Dead(s)',
           x.pc = "written" => KeyFree(x.key)'
    PROVE  SlotUnderLock(x)'
<1>1. /\ x.secret \in Secret \cup {None} /\ None \notin Secret /\ None \notin User
      /\ x.epoch \in Nat /\ x.pw \in Nat /\ x.creds \subseteq Cred /\ x.enrs \subseteq Secret
  BY NoneAssumption DEF TxnRec
<1>2. SlotProof(x)'
  <2>1. x.pc = "proved" => PasswordOfEpoch(x.user, x.epoch, x.pw)'
    BY <1>1, PasswordKept DEF SlotOK, SlotShape, UserPc, SlotUnderLock, SlotProof
  <2>2. x.pc = "minting" => pw'[x.user] = pw[x.user]
    BY DEF SlotOK, SlotShape, UserPc, SPc
  <2> QED
    BY <2>1, <2>2 DEF SlotUnderLock, SlotProof
<1>3. SlotPerson(x)'
  <2>1. x.pc \in {"minting", "enrolling", "bumped", "locked", "voided"}
           => x.user \in User /\ x.pc \in XPc \cup SPc
    BY DEF SlotOK, SlotShape, UserPc, XPc, SPc
  <2>2. x.pc = "minting" => \E c \in Cred : x.creds = {c} /\ cred'[c].user = None
    BY DEF SlotUnderLock, SlotPerson
  <2>3. (x.pc = "enrolling" /\ x.demand) => ZeroCredentialAdmin(x.user)'
    BY <2>1 DEF SlotUnderLock, SlotPerson, ZeroCredentialAdmin
  <2> QED
    BY <2>1, <2>2, <2>3 DEF SlotUnderLock, SlotPerson
<1>4. SlotSpend(x)'
  <2>1. /\ x.pc \in SpentPc \cup TombPc => x.user \in User /\ x.pc \in XPc
        /\ x.pc \in SpentPc => x.secret \in Secret /\ enr[x.secret].user = x.user
    BY <1>1 DEF SlotOK, SlotShape, UserPc, SecretPc, RedeemPc, XPc, SpentPc, TombPc
  <2>2. x.pc \in SpentPc => Unspent(x.secret)'
    BY <2>1 DEF SlotUnderLock, SlotSpend, Unspent
  <2>3. x.pc \in TombPc => /\ x.creds \subseteq LiveCreds(x.user)'
                           /\ x.enrs \subseteq OpenEnrs(x.user)' \ {x.secret}
    BY <1>1, <2>1 DEF SlotUnderLock, SlotSpend, LiveCreds, OpenEnrs
  <2>4. x.pc \in {"revoking", "written"} => enr'[x.secret].revoking = enr[x.secret].revoking
    BY <2>1 DEF SpentPc
  <2>5. (x.pc = "unspent" /\ x.secret # None) => Dead(x.secret)'
    BY <1>1 DEF SlotUnderLock, SlotSpend
  <2> QED
    BY <2>2, <2>3, <2>4, <2>5 DEF SlotUnderLock, SlotSpend
<1> QED
  BY <1>2, <1>3, <1>4 DEF SlotUnderLock

\* The slots after a step that writes: each is as it was, or at rest.
LEMMA LoudFrame ==
    ASSUME IInv, RedeemInv, txn' \in [Txn -> TxnRec],
           \A o \in Txn : \/ txn'[o] = txn[o]
                          \/ /\ txn'[o].pc \in {"idle", "done", "proved"}
                             /\ ~txn'[o].checked /\ txn'[o].secret = None
                             /\ txn'[o].pc = "proved" =>
                                   PasswordOfEpoch(txn[o].user, txn[o].epoch, txn[o].pw)',
           \A x \in TxnRec : \A o \in Txn : (x = txn[o] /\ txn'[o] = x) => SlotUnderLock(x)',
           \A k \in Key : \/ ledger'[k] = ledger[k]
                          \/ /\ ledger[k].secret = None
                             /\ \E o \in Txn : /\ txn[o].pc \in SpentPc
                                               /\ ledger'[k].secret = txn[o].secret,
           \A s \in Secret : Dead(s) => Dead(s)'
    PROVE  RedeemSlots' /\ Apart'
<1>1. {"idle", "done", "proved"} \cap (SpentPc \cup {"minting", "zero", "written"}) = {}
  BY DEF SpentPc
<1>2. Apart'
  BY <1>1 DEF RedeemInv, Apart
<1>3. ASSUME NEW o \in Txn PROVE SlotUnderLock(txn[o])'
  <2>1. CASE txn'[o] = txn[o]
    <3>1. PICK x \in TxnRec : x = txn[o]
      BY DEF IInv, TypeOK
    <3> QED
      BY <2>1, <3>1
  <2>2. CASE /\ txn'[o].pc \in {"idle", "done", "proved"} /\ ~txn'[o].checked
             /\ txn'[o].pc = "proved" => PasswordOfEpoch(txn[o].user, txn[o].epoch, txn[o].pw)'
    BY <2>2 DEF SlotUnderLock, SlotProof, SlotPerson, SlotSpend, SpentPc, TombPc
  <2> QED
    BY <2>1, <2>2
<1>4. ASSUME NEW o \in Txn PROVE SlotRefused(txn[o])'
  <2>1. CASE txn'[o] = txn[o]
    <3>1. SlotRefused(txn[o]) /\ txn[o].key \in Key \cup {None} /\ txn[o].secret \in Secret \cup {None}
      BY RedeemSlotFacts DEF TxnRec
    <3>2. SUFFICES ASSUME txn[o].pc = "done", txn[o].out \in Refusal, txn[o].key \in Key,
                          txn[o].secret \in Secret
                   PROVE  /\ ledger'[txn[o].key].secret # txn[o].secret
                          /\ ledger'[txn[o].key].secret = None =>
                                /\ Dead(txn[o].secret)'
                                /\ \A p \in Txn : txn'[p].pc \in SpentPc
                                                     => txn'[p].secret # txn[o].secret
      BY <2>1, <3>1 DEF SlotRefused
    <3>3. None \notin Key /\ None \notin Secret
      BY NoneAssumption
    <3>4. /\ ledger[txn[o].key].secret # txn[o].secret
          /\ ledger[txn[o].key].secret = None =>
                /\ Dead(txn[o].secret)
                /\ \A p \in Txn : txn[p].pc \in SpentPc => txn[p].secret # txn[o].secret
      BY <3>1, <3>2, <3>3 DEF SlotRefused
    <3>5. Dead(txn[o].secret) => Dead(txn[o].secret)'
      <4>1. PICK s \in Secret : s = txn[o].secret
        BY <3>2
      <4> QED
        BY <2>1, <4>1
    <3>6. CASE ledger'[txn[o].key] = ledger[txn[o].key]
      BY <1>1, <3>4, <3>5, <3>6
    <3>7. CASE ledger'[txn[o].key] # ledger[txn[o].key]
      <4>1. PICK p \in Txn : txn[p].pc \in SpentPc /\ ledger'[txn[o].key].secret = txn[p].secret
        BY <3>2, <3>7
      <4>2. ledger[txn[o].key].secret = None
        BY <3>2, <3>7
      <4>3. txn[p].secret \in Secret
        BY <4>1, SpentFacts DEF SpentPc
      <4> QED
        BY <3>3, <3>4, <4>1, <4>2, <4>3
    <3> QED
      BY <3>6, <3>7
  <2>2. CASE txn'[o].secret = None
    BY <2>2 DEF SlotRefused
  <2> QED
    BY <2>1, <2>2
<1> QED
  BY <1>2, <1>3, <1>4 DEF RedeemSlots

\* The commit of an exclusive holder of the row of u touches that person's
\* rows only, so it disturbs no other slot.
LEMMA CommitKeeps ==
    ASSUME IInv, RedeemInv, StoreTypeOK', NEW t \in Txn, NEW u \in User, HoldsX(t, u),
           \A v \in User : EpochMove(v),
           row' = row, admin' = admin,
           \A v \in User : v # u => pw'[v] = pw[v],
           \A c \in Cred : /\ cred'[c].user = cred[c].user
                           /\ cred[c].user # u => cred'[c] = cred[c],
           \A s \in Secret : /\ enr'[s].user = enr[s].user
                             /\ enr'[s].revoking = enr[s].revoking
                             /\ enr[s].user # u => enr'[s] = enr[s],
           \A s \in Secret : Dead(s) => Dead(s)',
           \A o \in Txn \ {t} : txn[o].pc = "written" =>
              \A k \in Key : k = txn[o].key => ledger'[k] = ledger[k],
           NEW o \in Txn, o # t, NEW x \in TxnRec, x = txn[o]
    PROVE  SlotUnderLock(x)'
<1>1. SlotOK(x) /\ SlotUnderLock(x)
  BY RedeemSlotFacts
<1>2. x.pc \in XPc \cup SPc => x.user # u
  BY AloneOnRow
<1>3. x.pc \in TombPc => x.user \in User /\ x.pc \in XPc /\ x.creds \subseteq LiveCreds(x.user)
  BY <1>1, NoneAssumption DEF SlotOK, SlotShape, UserPc, SecretPc, RedeemPc, XPc, TombPc,
                              SlotUnderLock, SlotSpend
<1>4. x.pc \in TombPc => \A c \in x.creds : cred'[c] = cred[c]
  BY <1>2, <1>3 DEF LiveCreds
<1>5. x.pc = "written" => KeyFree(x.key)'
  BY <1>1 DEF SlotUnderLock, SlotSpend, KeyFree
<1>6. x.creds \subseteq Cred
  BY DEF TxnRec
<1>7. StoreTypeOK
  BY DEF IInv, TypeOK
<1> QED
  BY <1>1, <1>2, <1>4, <1>5, <1>6, <1>7, UnderLockStable

\* The typed store after a step, and the epochs it moved.
LEMMA StepTypes ==
    ASSUME IInv, IInv' PROVE StoreTypeOK /\ StoreTypeOK' /\ txn' \in [Txn -> TxnRec]
BY DEF IInv, TypeOK

\* What a revocation tombstones and voids belongs to the person it locked.
LEMMA TombFacts ==
    ASSUME IInv, RedeemInv, NEW t \in Txn, txn[t].pc \in TombPc
    PROVE  /\ txn[t].user \in User /\ HoldsX(t, txn[t].user)
           /\ txn[t].creds \subseteq LiveCreds(txn[t].user)
           /\ txn[t].enrs \subseteq OpenEnrs(txn[t].user) \ {txn[t].secret}
<1>1. SlotOK(txn[t]) /\ SlotUnderLock(txn[t]) /\ txn[t] \in TxnRec
  BY RedeemSlotFacts
<1>2. txn[t].user \in User
  BY <1>1, NoneAssumption DEF SlotOK, SlotShape, UserPc, SecretPc, RedeemPc, TombPc
<1> QED
  BY <1>1, <1>2 DEF SlotUnderLock, SlotSpend, HoldsX, XPc, TombPc

\* The ledger is kept by every step that writes no row of it, unspends no
\* secret and gives no enrolment to another person.
LEMMA LedgerKept ==
    ASSUME IInv, IInv', RedeemInv, ledger' = ledger, \A v \in User : EpochMove(v),
           \A s \in Secret : enr[s].user # None => /\ enr'[s].user = enr[s].user
                                                   /\ enr[s].spent => enr'[s].spent,
           SpentXorVoided',
           \A s \in Secret : enr'[s].user # None => row'[enr'[s].user] # "absent"
    PROVE  LedgerStore'
<1>1. StoreTypeOK /\ StoreTypeOK'
  BY StepTypes
<1>2. \A k \in Key : ledger[k].secret # None =>
         /\ ledger[k].secret \in Secret /\ ledger[k].user \in User /\ ledger[k].user # None
         /\ ledger[k].epoch \in Nat /\ ledger[k].pw \in Nat
         /\ PasswordOfEpoch(ledger[k].user, ledger[k].epoch, ledger[k].pw)
  BY <1>1, NoneAssumption DEF IInv, StoreOK, RedeemInv, LedgerStore, StoreTypeOK, LedgerRow
<1>3. LedgerSound'
  BY <1>2 DEF RedeemInv, LedgerStore, LedgerSound
<1>4. ASSUME NEW k \in Key, ledger'[k].secret # None
      PROVE  PasswordOfEpoch(ledger[k].user, ledger[k].epoch, ledger[k].pw)'
  BY <1>1, <1>2, <1>4, PasswordKept
<1> QED
  BY <1>3, <1>4 DEF LedgerStore

LEMMA RevokeAllCommitRedeem ==
    ASSUME IInv, IInv', RedeemInv, NEW t \in Txn, RevokeAllCommit(t) PROVE RedeemInv'
<1> DEFINE u == txn[t].user
           C == txn[t].creds
           E == txn[t].enrs
<1>1. txn[t].pc = "voided"
  BY DEF RevokeAllCommit
<1>2. u \in User /\ HoldsX(t, u) /\ C \subseteq LiveCreds(u) /\ E \subseteq OpenEnrs(u)
  BY <1>1, TombFacts DEF TombPc
<1>3. /\ cred' = Revoked(C) /\ enr' = Voided(E)
      /\ Goto(t, Idle) /\ UNCHANGED <<row, admin, pw, ledger>>
  BY DEF RevokeAllCommit
<1>4. \A v \in User : EpochMove(v)
  BY CommitMoves
<1>5. StoreTypeOK /\ StoreTypeOK' /\ txn' \in [Txn -> TxnRec]
  BY StepTypes
<1> HIDE DEF u, C, E
<1>6. \A c \in Cred : /\ cred'[c].user = cred[c].user
                      /\ cred[c].user # u => cred'[c] = cred[c]
  BY <1>2, <1>3, <1>5 DEF Revoked, LiveCreds, StoreTypeOK, CredRow
<1>7. \A s \in Secret : /\ enr'[s].user = enr[s].user /\ enr'[s].revoking = enr[s].revoking
                        /\ enr'[s].expired = enr[s].expired /\ enr'[s].spent = enr[s].spent
                        /\ enr'[s].voided = (enr[s].voided \/ s \in E)
                        /\ enr[s].user # u => enr'[s] = enr[s]
  BY <1>2, <1>3, <1>5 DEF Voided, OpenEnrs, StoreTypeOK, EnrRow
<1>8. \A s \in Secret : Dead(s) => Dead(s)'
  BY <1>3, <1>7 DEF Dead
<1>9. \A x \in TxnRec : \A o \in Txn : (o # t /\ x = txn[o]) => SlotUnderLock(x)'
  BY <1>2, <1>3, <1>4, <1>5, <1>6, <1>7, <1>8, CommitKeeps
<1>10. txn'[t] = Idle /\ Idle.pc = "idle" /\ ~Idle.checked /\ Idle.secret = None
  BY <1>3, IdleType DEF Goto, IInv, TypeOK
<1>11. \A o \in Txn : o # t => txn'[o] = txn[o]
  BY <1>3 DEF Goto, IInv, TypeOK
<1>13. txn[t] # Idle
  BY <1>1, <1>10
<1>14. RedeemSlots' /\ Apart'
  BY <1>3, <1>5, <1>8, <1>9, <1>10, <1>11, <1>13, LoudFrame
<1>15. SpentXorVoided'
  BY <1>2, <1>7 DEF RedeemInv, LedgerStore, SpentXorVoided, OpenEnrs
<1>16. \A s \in Secret : enr'[s].user # None => row'[enr'[s].user] # "absent"
  BY <1>3, <1>7 DEF RedeemInv, LedgerStore
<1>17. LedgerStore'
  BY <1>3, <1>4, <1>7, <1>15, <1>16, LedgerKept
<1> QED
  BY <1>14, <1>17 DEF RedeemInv

LEMMA SetPasswordCommitRedeem ==
    ASSUME IInv, IInv', RedeemInv, NEW t \in Txn, SetPasswordCommit(t) PROVE RedeemInv'
<1> DEFINE u == txn[t].user
<1>1. txn[t].pc = "bumped"
  BY DEF SetPasswordCommit
<1>2. u \in User /\ HoldsX(t, u)
  BY <1>1, RedeemSlotFacts DEF SlotOK, SlotShape, UserPc, HoldsX, XPc
<1>3. /\ Goto(t, Idle) /\ UNCHANGED <<row, admin, enr, cred, ledger, cutoff>>
      /\ pw' = [pw EXCEPT ![u] = @ + 1]
  BY DEF SetPasswordCommit
<1>4. \A v \in User : EpochMove(v)
  BY CommitMoves
<1>5. StoreTypeOK /\ StoreTypeOK' /\ txn' \in [Txn -> TxnRec]
  BY StepTypes
<1> HIDE DEF u
<1>6. \A v \in User : v # u => pw'[v] = pw[v]
  BY <1>3, <1>5 DEF StoreTypeOK
<1>7. \A s \in Secret : Dead(s) => Dead(s)'
  BY <1>3 DEF Dead
<1>8. \A x \in TxnRec : \A o \in Txn : (o # t /\ x = txn[o]) => SlotUnderLock(x)'
  BY <1>2, <1>3, <1>4, <1>5, <1>6, <1>7, CommitKeeps
<1>9. txn'[t] = Idle /\ Idle.pc = "idle" /\ ~Idle.checked /\ Idle.secret = None
  BY <1>3, IdleType DEF Goto, IInv, TypeOK
<1>10. \A o \in Txn : o # t => txn'[o] = txn[o]
  BY <1>3 DEF Goto, IInv, TypeOK
<1>11. txn[t] # Idle
  BY <1>1, <1>9
<1>12. RedeemSlots' /\ Apart'
  BY <1>3, <1>5, <1>7, <1>8, <1>9, <1>10, <1>11, LoudFrame
<1>13. /\ SpentXorVoided'
       /\ \A s \in Secret : enr'[s].user # None => row'[enr'[s].user] # "absent"
  BY <1>3 DEF RedeemInv, LedgerStore, SpentXorVoided
<1>14. LedgerStore'
  BY <1>3, <1>4, <1>13, LedgerKept
<1> QED
  BY <1>12, <1>14 DEF RedeemInv

\* A redemption about to commit: its secret is spent by nobody yet, and its
\* key stands for nothing.
LEMMA WrittenFacts ==
    ASSUME IInv, RedeemInv, NEW t \in Txn, txn[t].pc = "written"
    PROVE  /\ txn[t].secret \in Secret /\ Unspent(txn[t].secret)
           /\ enr[txn[t].secret].user = txn[t].user
           /\ txn[t].key \in Key \cup {None} /\ KeyFree(txn[t].key)
           /\ txn[t].epoch = epoch[txn[t].user] + 1
           /\ \A k \in Key : ledger[k].secret # txn[t].secret
           /\ \A o \in Txn \ {t} : txn[o].pc = "written" =>
                 \A k \in Key : k = txn[o].key => k # txn[t].key
<1>1. txn[t] \in TxnRec /\ SlotOK(txn[t]) /\ SlotUnderLock(txn[t])
  BY RedeemSlotFacts
<1>2. /\ txn[t].secret \in Secret /\ Unspent(txn[t].secret)
      /\ enr[txn[t].secret].user = txn[t].user
      /\ txn[t].epoch = epoch[txn[t].user] + 1 /\ KeyFree(txn[t].key)
  BY <1>1, NoneAssumption DEF SlotOK, SlotShape, SecretPc, RedeemPc, SlotEpoch, BumpedPc,
                              SlotUnderLock, SlotSpend, SpentPc
<1>3. \A k \in Key : ledger[k].secret # txn[t].secret
  BY <1>2, NoneAssumption DEF RedeemInv, LedgerStore, LedgerSound, Unspent
<1>4. txn[t].key \in Key \cup {None}
  BY <1>1 DEF TxnRec
<1> QED
  BY <1>2, <1>3, <1>4, NoneAssumption DEF RedeemInv, Apart

LEMMA RedeemCommitRedeem ==
    ASSUME IInv, IInv', RedeemInv, NEW t \in Txn, RedeemCommit(t) PROVE RedeemInv'
<1> DEFINE u == txn[t].user
           C == txn[t].creds
           E == txn[t].enrs
           z == txn[t].secret
           k0 == txn[t].key
           e0 == txn[t].epoch
           p0 == pw[txn[t].user] + 1
<1>1. txn[t].pc = "written"
  BY DEF RedeemCommit
<1>2. u \in User /\ HoldsX(t, u) /\ C \subseteq LiveCreds(u) /\ E \subseteq OpenEnrs(u) \ {z}
  BY <1>1, TombFacts DEF TombPc
<1>3. /\ z \in Secret /\ Unspent(z) /\ enr[z].user = u
      /\ k0 \in Key \cup {None} /\ KeyFree(k0) /\ e0 = epoch[u] + 1
      /\ \A k \in Key : ledger[k].secret # z
      /\ \A o \in Txn \ {t} : txn[o].pc = "written" =>
            \A k \in Key : k = txn[o].key => k # k0
  BY <1>1, WrittenFacts
<1>4. /\ cred' = Revoked(C) /\ enr' = [Voided(E) EXCEPT ![z].spent = TRUE]
      /\ epoch' = [epoch EXCEPT ![u] = e0] /\ pw' = [pw EXCEPT ![u] = p0]
      /\ ledger' = IF k0 = None THEN ledger
                   ELSE [ledger EXCEPT ![k0] = [secret |-> z, user |-> u,
                                                epoch |-> e0, pw |-> p0]]
      /\ Goto(t, Proved(u, e0, e0, p0)) /\ UNCHANGED <<row, admin>>
  BY DEF RedeemCommit
<1>5. \A v \in User : EpochMove(v)
  BY CommitMoves
<1>6. StoreTypeOK /\ StoreTypeOK' /\ txn' \in [Txn -> TxnRec] /\ e0 \in Nat /\ p0 \in Nat
  BY <1>2, StepTypes, RedeemSlotFacts DEF StoreTypeOK, TxnRec
<1> HIDE DEF u, C, E, z, k0, e0, p0
<1>7. \A c \in Cred : /\ cred'[c].user = cred[c].user
                      /\ cred[c].user # u => cred'[c] = cred[c]
  BY <1>2, <1>4, <1>6 DEF Revoked, LiveCreds, StoreTypeOK, CredRow
<1>8. \A s \in Secret : /\ enr'[s].user = enr[s].user /\ enr'[s].revoking = enr[s].revoking
                        /\ enr'[s].expired = enr[s].expired
                        /\ s = z => enr'[s].spent
                        /\ s # z => enr'[s].spent = enr[s].spent
                        /\ s \in E => enr'[s].voided
                        /\ s \notin E => enr'[s].voided = enr[s].voided
                        /\ enr[s].user # u => enr'[s] = enr[s]
  <2>1. Voided(E) \in [Secret -> EnrRow]
    BY <1>6, VoidedType DEF StoreTypeOK
  <2>2. \A s \in Secret :
           /\ Voided(E)[s].user = enr[s].user /\ Voided(E)[s].revoking = enr[s].revoking
           /\ Voided(E)[s].expired = enr[s].expired /\ Voided(E)[s].spent = enr[s].spent
           /\ s \in E => Voided(E)[s].voided
           /\ s \notin E => Voided(E)[s].voided = enr[s].voided
           /\ enr[s].user # u => Voided(E)[s] = enr[s]
    <3>1. \A s \in Secret : enr[s].user # u => s \notin E
      BY <1>2 DEF OpenEnrs
    <3>2. \A s \in Secret : s \notin E => Voided(E)[s] = enr[s]
      BY DEF Voided
    <3>3. \A s \in E \cap Secret : Voided(E)[s] = [enr[s] EXCEPT !.voided = TRUE]
      BY DEF Voided
    <3>4. \A s \in Secret : enr[s] \in EnrRow
      BY <1>6 DEF StoreTypeOK
    <3>5. \A s \in E \cap Secret :
             /\ Voided(E)[s].user = enr[s].user /\ Voided(E)[s].revoking = enr[s].revoking
             /\ Voided(E)[s].expired = enr[s].expired /\ Voided(E)[s].spent = enr[s].spent
             /\ Voided(E)[s].voided
      BY <3>3, <3>4 DEF EnrRow
    <3> QED
      BY <3>1, <3>2, <3>5
  <2>3. \A s \in Secret : s # z => enr'[s] = Voided(E)[s]
    BY <1>4, <2>1
  <2>4. /\ enr'[z].user = Voided(E)[z].user /\ enr'[z].revoking = Voided(E)[z].revoking
        /\ enr'[z].expired = Voided(E)[z].expired /\ enr'[z].voided = Voided(E)[z].voided
        /\ enr'[z].spent = TRUE
    BY <1>3, <1>4, <2>1 DEF EnrRow
  <2> QED
    BY <1>3, <2>2, <2>3, <2>4
<1>9. \A s \in Secret : Dead(s) => Dead(s)'
  BY <1>4, <1>8 DEF Dead
<1>10. \A v \in User : v # u => pw'[v] = pw[v]
  BY <1>4, <1>6 DEF StoreTypeOK
<1>11. \A k \in Key : IF k = k0 THEN /\ ledger[k].secret = None /\ ledger'[k].secret = z
                                     /\ ledger'[k].user = u /\ ledger'[k].epoch = e0
                                     /\ ledger'[k].pw = p0
                     ELSE ledger'[k] = ledger[k]
  BY <1>3, <1>4, <1>6, NoneAssumption DEF StoreTypeOK, KeyFree
<1>12. \A o \in Txn \ {t} : txn[o].pc = "written" =>
          \A k \in Key : k = txn[o].key => ledger'[k] = ledger[k]
  BY <1>3, <1>11
<1>13. \A x \in TxnRec : \A o \in Txn : (o # t /\ x = txn[o]) => SlotUnderLock(x)'
  <2>1. row' = row /\ admin' = admin
    BY <1>4
  <2>2. \A s \in Secret : /\ enr'[s].user = enr[s].user
                          /\ enr'[s].revoking = enr[s].revoking
                          /\ enr[s].user # u => enr'[s] = enr[s]
    BY <1>8
  <2> QED
    BY <1>2, <1>5, <1>6, <1>7, <1>9, <1>10, <1>12, <2>1, <2>2, CommitKeeps
<1>14. epoch'[u] = e0 /\ pw'[u] = p0 /\ e0 <= e0
  BY <1>2, <1>4, <1>6 DEF StoreTypeOK
<1>15. /\ txn'[t].pc = "proved" /\ ~txn'[t].checked /\ txn'[t].secret = None
       /\ txn'[t].user = u /\ txn'[t].epoch = e0 /\ txn'[t].pw = p0
  BY <1>4, IdleType DEF Goto, Proved, IInv, TypeOK, TxnRec
<1>16. \A o \in Txn : o # t => txn'[o] = txn[o]
  BY <1>4 DEF Goto, IInv, TypeOK
<1>17. txn[t] # txn'[t]
  BY <1>1, <1>15
<1>18. PasswordOfEpoch(txn[t].user, txn[t].epoch, txn[t].pw)'
  BY <1>14, <1>15 DEF PasswordOfEpoch
<1>19. \A k \in Key : \/ ledger'[k] = ledger[k]
                      \/ /\ ledger[k].secret = None
                         /\ \E o \in Txn : /\ txn[o].pc \in SpentPc
                                           /\ ledger'[k].secret = txn[o].secret
  BY <1>1, <1>11 DEF SpentPc, z
<1>20. RedeemSlots' /\ Apart'
  BY <1>6, <1>9, <1>13, <1>15, <1>16, <1>17, <1>18, <1>19, LoudFrame
<1>21. SpentXorVoided'
  BY <1>2, <1>3, <1>8 DEF RedeemInv, LedgerStore, SpentXorVoided, OpenEnrs, Unspent
<1>22. \A k \in Key : ledger[k].secret # None =>
          /\ ledger[k].secret \in Secret /\ ledger[k].user \in User /\ ledger[k].user # None
          /\ ledger[k].epoch \in Nat /\ ledger[k].pw \in Nat
          /\ PasswordOfEpoch(ledger[k].user, ledger[k].epoch, ledger[k].pw)
  BY <1>6, NoneAssumption DEF IInv, StoreOK, RedeemInv, LedgerStore, StoreTypeOK, LedgerRow
<1>23. LedgerSound'
  <2>1. ASSUME NEW k \in Key, ledger'[k].secret # None
        PROVE  /\ enr'[ledger'[k].secret].spent
               /\ enr'[ledger'[k].secret].user = ledger'[k].user
    BY <1>3, <1>8, <1>11, <1>22, <2>1 DEF RedeemInv, LedgerStore, LedgerSound
  <2>2. ASSUME NEW k \in Key, NEW l \in Key, ledger'[k].secret # None,
               ledger'[l].secret = ledger'[k].secret
        PROVE  l = k
    BY <1>3, <1>11, <2>2 DEF RedeemInv, LedgerStore, LedgerSound
  <2> QED
    BY <2>1, <2>2 DEF LedgerSound
<1>24. ASSUME NEW k \in Key, ledger'[k].secret # None
       PROVE  PasswordOfEpoch(ledger[k].user, ledger[k].epoch, ledger[k].pw)'
  <2>1. CASE k = k0
    BY <1>11, <1>14, <2>1 DEF PasswordOfEpoch
  <2>2. CASE k # k0
    <3>1. PasswordOfEpoch(ledger[k].user, ledger[k].epoch, ledger[k].pw)
      BY <1>11, <1>22, <1>24, <2>2
    <3>2. ledger'[k] = ledger[k]
      BY <1>11, <2>2
    <3> QED
      BY <1>5, <1>6, <1>22, <1>24, <3>1, <3>2, PasswordKept
  <2> QED
    BY <2>1, <2>2
<1>25. \A s \in Secret : enr'[s].user # None => row'[enr'[s].user] # "absent"
  BY <1>4, <1>8 DEF RedeemInv, LedgerStore
<1> QED
  BY <1>20, <1>21, <1>23, <1>24, <1>25 DEF RedeemInv, LedgerStore

-----------------------------------------------------------------------------
(* The inserts.                                                            *)

LEMMA MintInsertRedeem ==
    ASSUME IInv, IInv', RedeemInv, NEW t \in Txn, MintInsert(t) PROVE RedeemInv'
<1>1. txn[t].pc = "minting" /\ ~GapLocked(t, txn[t].user)
  BY DEF MintInsert
<1>2. /\ AnswerCreated(t) /\ UNCHANGED <<row, admin, epoch, pw, enr, ledger, cutoff>>
      /\ \A c \in Cred : IF c \in txn[t].creds THEN cred'[c].user = txn[t].user
                                               ELSE cred'[c] = cred[c]
  BY DEF MintInsert
<1>3. StoreTypeOK /\ StoreTypeOK' /\ txn' \in [Txn -> TxnRec]
  BY StepTypes
<1>4. \A v \in User : EpochMove(v)
  BY <1>2, EpochStill
<1>5. PICK c0 \in Cred : txn[t].creds = {c0} /\ cred[c0].user = None
  BY <1>1, RedeemSlotFacts DEF SlotUnderLock, SlotPerson
<1>6. \A s : Dead(s)' <=> Dead(s)
  BY <1>2 DEF Dead
<1>7. \A x \in TxnRec : \A o \in Txn : (o # t /\ x = txn[o]) => SlotUnderLock(x)'
  <2>1. SUFFICES ASSUME NEW x \in TxnRec, NEW o \in Txn, o # t, x = txn[o]
                 PROVE  SlotUnderLock(x)'
    OBVIOUS
  <2>2. SlotOK(x) /\ SlotUnderLock(x)
    BY <2>1, RedeemSlotFacts
  <2>3. x.pc = "minting" => \A c \in x.creds : cred'[c].user = cred[c].user
    BY <1>1, <1>2, <2>1, RedeemSlotFacts DEF RedeemInv, Apart, TxnRec
  <2>4. (x.pc = "enrolling" /\ x.demand) => x.user # txn[t].user
    BY <1>1, <2>1 DEF GapLocked
  <2>5. (x.pc = "enrolling" /\ x.demand) =>
           \A c \in Cred : cred'[c].user = x.user => cred[c].user = x.user
    BY <1>2, <2>4
  <2>6. x.pc \in TombPc => x.user \in User /\ x.creds \subseteq LiveCreds(x.user)
    BY <2>1, TombFacts
  <2>7. x.pc \in TombPc => \A c \in x.creds : cred'[c] = cred[c]
    BY <1>2, <1>5, <2>6, NoneAssumption DEF LiveCreds
  <2>8. x.pc = "written" => KeyFree(x.key)'
    BY <1>2, <2>2 DEF SlotUnderLock, SlotSpend, KeyFree
  <2> QED
    BY <1>2, <1>3, <1>4, <1>6, <2>2, <2>3, <2>5, <2>7, <2>8, UnderLockStable
<1>8. txn'[t].pc = "done" /\ ~txn'[t].checked /\ txn'[t].secret = None
  BY <1>2, IdleType, SlotFacts DEF AnswerCreated, Goto, IInv, TypeOK, TxnRec
<1>9. \A o \in Txn : o # t => txn'[o] = txn[o]
  BY <1>2 DEF AnswerCreated, Goto, IInv, TypeOK
<1>10. txn[t] # txn'[t]
  BY <1>1, <1>8
<1>11. RedeemSlots' /\ Apart'
  BY <1>2, <1>3, <1>6, <1>7, <1>8, <1>9, <1>10, LoudFrame
<1>12. /\ SpentXorVoided'
       /\ \A s \in Secret : enr'[s].user # None => row'[enr'[s].user] # "absent"
  BY <1>2 DEF RedeemInv, LedgerStore, SpentXorVoided
<1>13. LedgerStore'
  BY <1>2, <1>4, <1>12, LedgerKept
<1> QED
  BY <1>11, <1>13 DEF RedeemInv

LEMMA EnrolInsertRedeem ==
    ASSUME IInv, IInv', RedeemInv, NEW t \in Txn, EnrolInsert(t) PROVE RedeemInv'
<1> DEFINE z == txn[t].secret
<1>1. txn[t].pc = "enrolling" /\ UNCHANGED <<row, admin, epoch, pw, cred, ledger, cutoff>>
  BY DEF EnrolInsert
<1>2. CASE UNCHANGED enr /\ Answer(t, "ALREADY_EXISTS")
  BY <1>1, <1>2, AnswerRedeemInv DEF store, Out
<1>3. ASSUME enr[z].user = None, AnswerCreated(t),
             enr' = [enr EXCEPT ![z] = [NoEnr EXCEPT !.user = txn[t].user,
                                          !.at = epoch[txn[t].user],
                                          !.demand = txn[t].demand,
                                          !.revoking = txn[t].revoking]]
      PROVE  RedeemInv'
  <2>1. StoreTypeOK /\ StoreTypeOK' /\ txn' \in [Txn -> TxnRec]
    BY StepTypes
  <2>2. z \in Secret /\ txn[t].user \in User /\ row[txn[t].user] = "live"
    BY <1>1, RedeemSlotFacts DEF SlotOK, SlotShape, SecretPc, UserPc, SlotUnderLock, SlotPerson
  <2>3. /\ \A s \in Secret : s # z => enr'[s] = enr[s]
        /\ enr'[z].user = txn[t].user /\ ~enr'[z].spent
    BY <1>3, <2>1, <2>2 DEF StoreTypeOK, NoEnr
  <2>4. \A v \in User : EpochMove(v)
    BY <1>1, EpochStill
  <2> HIDE DEF z
  <2>5. \A s \in Secret : enr[s].user # None => enr'[s] = enr[s]
    BY <1>3, <2>3
  <2>6. \A s \in Secret : Dead(s) => Dead(s)'
    BY <1>1, <2>5 DEF Dead
  <2>7. \A x \in TxnRec : \A o \in Txn : (o # t /\ x = txn[o]) => SlotUnderLock(x)'
    <3>1. SUFFICES ASSUME NEW x \in TxnRec, NEW o \in Txn, o # t, x = txn[o]
                   PROVE  SlotUnderLock(x)'
      OBVIOUS
    <3>2. SlotOK(x) /\ SlotUnderLock(x)
      BY <3>1, RedeemSlotFacts
    <3>3. x.user \in User =>
             \A s \in Secret : enr[s].user = x.user => enr'[s] = enr[s]
      BY <2>5, NoneAssumption
    <3>4. x.pc = "written" => KeyFree(x.key)'
      BY <1>1, <3>2 DEF SlotUnderLock, SlotSpend, KeyFree
    <3> QED
      BY <1>1, <2>1, <2>4, <2>6, <3>2, <3>3, <3>4, UnderLockStable
  <2>8. txn'[t].pc = "done" /\ ~txn'[t].checked /\ txn'[t].secret = None
    BY <1>3, IdleType, SlotFacts DEF AnswerCreated, Goto, IInv, TypeOK, TxnRec
  <2>9. \A o \in Txn : o # t => txn'[o] = txn[o]
    BY <1>3 DEF AnswerCreated, Goto, IInv, TypeOK
  <2>10. txn[t] # txn'[t]
    BY <1>1, <2>8
  <2>11. RedeemSlots' /\ Apart'
    BY <1>1, <2>1, <2>6, <2>7, <2>8, <2>9, <2>10, LoudFrame
  <2>12. /\ SpentXorVoided'
         /\ \A s \in Secret : enr'[s].user # None => row'[enr'[s].user] # "absent"
    BY <1>1, <2>2, <2>3 DEF RedeemInv, LedgerStore, SpentXorVoided
  <2>13. LedgerStore'
    BY <1>1, <2>4, <2>5, <2>12, LedgerKept
  <2> QED
    BY <2>11, <2>13 DEF RedeemInv
<1> QED
  BY <1>2, <1>3 DEF EnrolInsert

-----------------------------------------------------------------------------
(* The autocommit statements and the clock.                                *)

\* A step of nobody's slot keeps the invariant if it leaves alone what the
\* slots have locked.
LEMMA OutsideRedeem ==
    ASSUME IInv, IInv', RedeemInv, txn' = txn, ledger' = ledger,
           \A v \in User : EpochMove(v), pw' = pw,
           \A x \in TxnRec : \A o \in Txn : (x = txn[o] /\ x.pc \in XPc \cup SPc /\ x.user \in User)
              => row'[x.user] = row[x.user] /\ admin'[x.user] = admin[x.user],
           \A c \in Cred : cred'[c].user = cred[c].user,
           \A x \in TxnRec : \A o \in Txn : (x = txn[o] /\ x.pc \in TombPc)
              => \A c \in x.creds : cred'[c] = cred[c],
           \A s \in Secret : /\ enr'[s].user = enr[s].user /\ enr'[s].revoking = enr[s].revoking
                             /\ enr'[s].spent = enr[s].spent /\ enr'[s].voided = enr[s].voided,
           \A s \in Secret : Dead(s) => Dead(s)',
           \A v \in User : row[v] # "absent" => row'[v] # "absent"
    PROVE  RedeemInv'
<1>1. StoreTypeOK /\ StoreTypeOK' /\ txn' \in [Txn -> TxnRec]
  BY StepTypes
<1>2. \A x \in TxnRec : \A o \in Txn : (x = txn[o] /\ txn'[o] = x) => SlotUnderLock(x)'
  <2>1. SUFFICES ASSUME NEW x \in TxnRec, NEW o \in Txn, x = txn[o] PROVE SlotUnderLock(x)'
    OBVIOUS
  <2>2. SlotOK(x) /\ SlotUnderLock(x)
    BY <2>1, RedeemSlotFacts
  <2>3. x.pc = "written" => KeyFree(x.key)'
    BY <2>2 DEF SlotUnderLock, SlotSpend, KeyFree
  <2>4. x.creds \subseteq Cred
    BY DEF TxnRec
  <2> QED
    BY <1>1, <2>1, <2>2, <2>3, <2>4, UnderLockStable
<1>3. RedeemSlots' /\ Apart'
  BY <1>1, <1>2, LoudFrame
<1>4. SpentXorVoided'
  BY DEF RedeemInv, LedgerStore, SpentXorVoided
<1>5. \A s \in Secret : enr[s].user \in User \cup {None}
  BY <1>1 DEF StoreTypeOK, EnrRow
<1>6. \A s \in Secret : enr'[s].user # None => row'[enr'[s].user] # "absent"
  BY <1>5 DEF RedeemInv, LedgerStore
<1>7. LedgerStore'
  BY <1>4, <1>6, LedgerKept
<1> QED
  BY <1>3, <1>7 DEF RedeemInv

LEMMA RevokeOneRedeem ==
    ASSUME IInv, IInv', RedeemInv, NEW c \in Cred, NEW u \in User, RevokeOne(c, u)
    PROVE  RedeemInv'
<1>1. /\ cred' = Revoked({c}) /\ ~CredLocked(c)
      /\ UNCHANGED <<row, admin, epoch, pw, enr, ledger, cutoff, txn>>
  BY DEF RevokeOne, RevokeCredential
<1>2. StoreTypeOK
  BY StepTypes
<1>3. \A d \in Cred : cred'[d].user = cred[d].user /\ (d # c => cred'[d] = cred[d])
  BY <1>1, <1>2 DEF Revoked, StoreTypeOK, CredRow
<1>4. \A x \in TxnRec : \A o \in Txn : (x = txn[o] /\ x.pc \in TombPc)
         => \A d \in x.creds : cred'[d] = cred[d]
  BY <1>1, <1>3 DEF CredLocked, TombPc, TxnRec
<1>5. \A s \in Secret : Dead(s) => Dead(s)'
  BY <1>1 DEF Dead
<1>6. \A v \in User : EpochMove(v)
  BY <1>1, EpochStill
<1> QED
  BY <1>1, <1>3, <1>4, <1>5, <1>6, OutsideRedeem

LEMMA UserRowRedeem ==
    ASSUME IInv, IInv', RedeemInv, NEW u \in User,
           \/ Withdraw(u)
           \/ \E b \in BOOLEAN : NewUser(u, b) \/ SetAdmin(u, b)
    PROVE  RedeemInv'
<1>1. RowFree(u) /\ UNCHANGED <<epoch, pw, enr, cred, ledger, cutoff, txn>>
  BY DEF Withdraw, NewUser, SetAdmin, SoftDelete, CreateUser, SetUserAdmin
<1>2. StoreTypeOK
  BY StepTypes
<1>3. /\ \A v \in User : v # u => row'[v] = row[v] /\ admin'[v] = admin[v]
      /\ row[u] # "deleted" /\ (row[u] # "absent" => row'[u] # "absent")
  BY <1>2 DEF Withdraw, NewUser, SetAdmin, SoftDelete, CreateUser, SetUserAdmin, StoreTypeOK
<1>4. \A x \in TxnRec : \A o \in Txn : (x = txn[o] /\ x.pc \in XPc \cup SPc /\ x.user \in User)
         => row'[x.user] = row[x.user] /\ admin'[x.user] = admin[x.user]
  BY <1>1, <1>3 DEF RowFree, HoldsX, HoldsS
<1>5. \A s \in Secret : enr[s].user \in User \cup {None}
  BY <1>2 DEF StoreTypeOK, EnrRow
<1>6. \A s \in Secret : Dead(s) => Dead(s)'
  BY <1>1, <1>3, <1>5 DEF Dead
<1>7. \A v \in User : EpochMove(v)
  BY <1>1, EpochStill
<1> QED
  BY <1>1, <1>3, <1>4, <1>6, <1>7, OutsideRedeem

LEMMA TickRedeem ==
    ASSUME IInv, IInv', RedeemInv, NEW z \in Secret, Tick(z) PROVE RedeemInv'
<1>1. /\ enr' = [enr EXCEPT ![z].expired = TRUE]
      /\ UNCHANGED <<row, admin, epoch, pw, cred, ledger, cutoff, txn>>
  BY DEF Tick, Expire
<1>2. StoreTypeOK
  BY StepTypes
<1>3. \A s \in Secret : /\ enr'[s].user = enr[s].user /\ enr'[s].revoking = enr[s].revoking
                        /\ enr'[s].spent = enr[s].spent /\ enr'[s].voided = enr[s].voided
                        /\ enr[s].expired => enr'[s].expired
  BY <1>1, <1>2 DEF StoreTypeOK, EnrRow
<1>4. \A s \in Secret : Dead(s) => Dead(s)'
  BY <1>1, <1>3 DEF Dead
<1>5. \A v \in User : EpochMove(v)
  BY <1>1, EpochStill
<1> QED
  BY <1>1, <1>3, <1>4, <1>5, OutsideRedeem

LEMMA StutterRedeem ==
    ASSUME IInv, IInv', RedeemInv, UNCHANGED vars PROVE RedeemInv'
<1>1. \A s \in Secret : Dead(s) => Dead(s)'
  BY DEF vars, Dead
<1>2. \A v \in User : EpochMove(v)
  BY EpochStill DEF vars
<1> QED
  BY <1>1, <1>2, OutsideRedeem DEF vars

-----------------------------------------------------------------------------
(* The invariant, and what follows from it.                                *)

LEMMA InitRedeem == ASSUME Init PROVE RedeemInv
<1> USE DEF Init, StoreInit
<1>1. /\ \A t \in Txn : txn[t] = Idle
      /\ Idle \in TxnRec /\ Idle.pc = "idle" /\ ~Idle.checked
  BY IdleType
<1>2. RedeemSlots
  BY <1>1, RestingUnderLock DEF RedeemSlots, SlotRefused
<1>3. Apart
  BY <1>1 DEF Apart
<1>4. LedgerStore
  BY DEF LedgerStore, SpentXorVoided, LedgerSound, NoEnr, NoRow
<1> QED
  BY <1>2, <1>3, <1>4 DEF RedeemInv

LEMMA BeginRedeem == ASSUME IInv, RedeemInv, NEW t \in Txn, Begin(t) PROVE RedeemInv'
<1>1. ASSUME NEW u \in User, NEW s \in Secret, NEW arm \in {"ordinary", "revoking", "demand"},
             CreateEnrolment(t, u, s, arm = "demand", arm = "revoking")
      PROVE  RedeemInv'
  BY <1>1, CreateEnrolmentRedeem
<1> QED
  BY <1>1, GetPasswordHashRedeem, RevokeAllLockRedeem, SetPasswordBumpRedeem,
     UncheckedRedeem, CheckedRedeem, RedeemBeginRedeem DEF Begin

LEMMA StepRedeem == ASSUME IInv, IInv', RedeemInv, NEW t \in Txn, Step(t) PROVE RedeemInv'
BY MintInsertRedeem, RereadRedeem, EnrolInsertRedeem, RevokeAllWriteRedeem,
   RevokeAllCommitRedeem, SetPasswordCommitRedeem, RedeemLockRedeem, RedeemSpendRedeem,
   RedeemUnspentRedeem, RedeemRevokeRedeem, RedeemWriteRedeem, RedeemCommitRedeem
   DEF Step

LEMMA OthersRedeem == ASSUME IInv, IInv', RedeemInv, Others PROVE RedeemInv'
BY UserRowRedeem, RevokeOneRedeem, TickRedeem DEF Others

\* What every slot has read under its locks stays true until it commits, and
\* the ledger stands for the redemptions that happened.
THEOREM LedgerInvariance == Spec => []RedeemInv
<1>1. Init => RedeemInv
  BY InitRedeem
<1>2. IInv /\ IInv' /\ RedeemInv /\ [Next]_vars => RedeemInv'
  BY BeginRedeem, StepRedeem, OthersRedeem, DropRedeem, StutterRedeem DEF Next, Drop
<1> QED
  BY <1>1, <1>2, Invariance, PTL DEF Spec

\* The spend and the void never both mark one enrolment (ledger.rs): each
\* skips the other's rows and both hold the user row.
THEOREM SpendsApartFromVoids == Spec => []SpentXorVoided
<1>1. RedeemInv => SpentXorVoided
  BY DEF RedeemInv, LedgerStore
<1> QED
  BY <1>1, LedgerInvariance, PTL

\* A ledger row stands for one redemption that happened, of its person.
THEOREM LedgerIsSound == Spec => []LedgerSound
<1>1. RedeemInv => LedgerSound
  BY DEF RedeemInv, LedgerStore
<1> QED
  BY <1>1, LedgerInvariance, PTL

\* No delivery of a redemption that committed is refused, whichever delivery
\* commits and however many are in flight: D9.
THEOREM RetriesAreAnswered == Spec => []RetryNeverRefused
<1>1. RedeemInv => RetryNeverRefused
  BY DEF RedeemInv, RedeemSlots, SlotRefused, RetryNeverRefused
<1> QED
  BY <1>1, LedgerInvariance, PTL

-----------------------------------------------------------------------------
(* What the inserts rest on.                                               *)

\* Setting revoked_at, or voided_at and spent_at, gives no row to a person.
LEMMA OnlyInserts ==
    ASSUME IInv, NEW C, NEW E
    PROVE  /\ \A c \in Cred : Revoked(C)[c].user = cred[c].user
           /\ \A s \in Secret : Voided(E)[s].user = enr[s].user
           /\ \A z \in Secret, s \in Secret :
                 [Voided(E) EXCEPT ![z].spent = TRUE][s].user = enr[s].user
<1>1. StoreTypeOK
  BY DEF IInv, TypeOK
<1>2. \A c \in Cred : Revoked(C)[c].user = cred[c].user
  BY <1>1 DEF StoreTypeOK, Revoked, CredRow
<1>3. \A s \in Secret : Voided(E)[s].user = enr[s].user
  BY <1>1 DEF StoreTypeOK, Voided, EnrRow
<1>4. Voided(E) \in [Secret -> EnrRow]
  BY <1>1, VoidedType
<1>5. \A z \in Secret, s \in Secret : [Voided(E) EXCEPT ![z].spent = TRUE][s].user = Voided(E)[s].user
  BY <1>4 DEF EnrRow
<1> QED
  BY <1>2, <1>3, <1>5

\* A credential row appears in MintInsert only, an enrolment in EnrolInsert.
LEMMA InsertedBy ==
    ASSUME IInv, RedeemInv, [Next]_vars
    PROVE  /\ \A c \in Cred : (cred[c].user = None /\ cred'[c].user # None)
                 => \E t \in Txn : MintInsert(t) /\ c \in txn[t].creds
           /\ \A s \in Secret : (enr[s].user = None /\ enr'[s].user # None)
                 => \E t \in Txn : EnrolInsert(t) /\ s = txn[t].secret
<1> DEFINE Creds == \A c \in Cred : (cred[c].user = None /\ cred'[c].user # None)
                       => \E t \in Txn : MintInsert(t) /\ c \in txn[t].creds
           Enrs == \A s \in Secret : (enr[s].user = None /\ enr'[s].user # None)
                       => \E t \in Txn : EnrolInsert(t) /\ s = txn[t].secret
<1>1. CASE UNCHANGED <<enr, cred>>
  BY <1>1
<1>2. ASSUME NEW t \in Txn, MintInsert(t) PROVE Creds /\ Enrs
  BY <1>2 DEF MintInsert
<1>3. ASSUME NEW t \in Txn, EnrolInsert(t) PROVE Creds /\ Enrs
  BY <1>3 DEF EnrolInsert, IInv, TypeOK, StoreTypeOK
<1>4. ASSUME NEW t \in Txn, RevokeAllCommit(t) PROVE Creds /\ Enrs
  BY <1>4, OnlyInserts DEF RevokeAllCommit
<1>5. ASSUME NEW t \in Txn, RedeemCommit(t) PROVE Creds /\ Enrs
  <2>1. txn[t].secret \in Secret
    BY <1>5, WrittenFacts DEF RedeemCommit
  <2> QED
    BY <1>5, <2>1, OnlyInserts DEF RedeemCommit
<1>6. ASSUME NEW c \in Cred, NEW u \in User, RevokeOne(c, u) PROVE Creds /\ Enrs
  BY <1>6, OnlyInserts DEF RevokeOne, RevokeCredential
<1>7. ASSUME NEW z \in Secret, Tick(z) PROVE Creds /\ Enrs
  <2>1. \A s \in Secret : enr'[s].user = enr[s].user
    BY <1>7 DEF Tick, Expire, IInv, TypeOK, StoreTypeOK, EnrRow
  <2> QED
    BY <1>7, <2>1 DEF Tick, Expire
<1>8. ASSUME NEW u \in User, \/ Withdraw(u)
                              \/ \E b \in BOOLEAN : NewUser(u, b) \/ SetAdmin(u, b)
      PROVE  UNCHANGED <<enr, cred>>
  BY <1>8 DEF Withdraw, NewUser, SetAdmin, SoftDelete, CreateUser, SetUserAdmin
<1>9. ASSUME NEW t \in Txn, \/ Begin(t) \/ Drop(t) \/ Reread(t) \/ SetPasswordCommit(t)
                            \/ RevokeAllWrite(t) \/ RedeemLock(t) \/ RedeemSpend(t)
                            \/ RedeemUnspent(t) \/ RedeemRevoke(t) \/ RedeemWrite(t)
      PROVE  UNCHANGED <<enr, cred>>
  BY <1>9 DEF store, Begin, Drop, Reread, RevokeAllWrite, RedeemLock, SetPasswordCommit,
       RedeemSpend, RedeemUnspent, RedeemRevoke, RedeemWrite, GetPasswordHash,
       RevokeAllLock, SetPasswordBump, CreateCredentialUnchecked,
       CreateCredentialChecked, MintRead, CreateEnrolment, RedeemBegin
<1> QED
  <2>1. CASE UNCHANGED vars
    BY <1>1, <2>1 DEF vars
  <2>2. CASE Others
    BY <1>1, <1>6, <1>7, <1>8, <2>2 DEF Others
  <2>3. ASSUME NEW t \in Txn, Begin(t) \/ Step(t) \/ Drop(t) PROVE Creds /\ Enrs
    BY <1>1, <1>2, <1>3, <1>4, <1>5, <1>9, <2>3 DEF Step
  <2> QED
    BY <2>1, <2>2, <2>3 DEF Next

\* The step of MintOnCurrentPassword.
MintStep ==
    \A t \in Txn, c \in Cred :
       (/\ cred[c].user = None
        /\ cred'[c].user # None
        /\ c \in txn[t].creds
        /\ txn[t].checked) => txn[t].pw = pw[txn[t].user]

\* No checked credential is inserted once the password that was verified for
\* it has been replaced: the epoch the insert-select compares is enough.
THEOREM MintsOnCurrentPassword == Spec => MintOnCurrentPassword
<1>1. ASSUME IInv, RedeemInv, [Next]_vars PROVE MintStep
  <2>1. SUFFICES ASSUME NEW t \in Txn, NEW c \in Cred, cred[c].user = None,
                        cred'[c].user # None, c \in txn[t].creds, txn[t].checked
                 PROVE  txn[t].pw = pw[txn[t].user]
    BY DEF MintStep
  <2>2. PICK o \in Txn : MintInsert(o) /\ c \in txn[o].creds
    BY <1>1, <2>1, InsertedBy
  <2>3. txn[o].pc = "minting" /\ txn[t].pc \in {"minting", "zero"}
    BY <1>1, <2>1, <2>2, RedeemSlotFacts DEF MintInsert, SlotUnderLock, SlotProof
  <2>4. t = o
    BY <1>1, <2>1, <2>2, <2>3 DEF RedeemInv, Apart
  <2> QED
    BY <1>1, <2>1, <2>3, <2>4, RedeemSlotFacts DEF SlotUnderLock, SlotProof
<1>2. IInv /\ RedeemInv /\ [Next]_vars => [MintStep]_vars
  BY <1>1
<1>3. Spec => [][MintStep]_vars
  BY <1>2, Invariance, LedgerInvariance, PTL DEF Spec
<1> QED
  BY <1>3 DEF MintOnCurrentPassword, MintStep

\* The step of DemandOnlyBeforeFirstCredential.
DemandStep ==
    \A s \in Secret :
       (enr[s].user = None /\ enr'[s].user # None /\ enr'[s].demand) =>
          /\ pw[enr'[s].user] = 0
          /\ \A c \in Cred : cred[c].user # enr'[s].user

\* The demand arm's predicate, read before the insert, still holds at the
\* insert: no credential and no password slips in between (ADR-0656).
THEOREM DemandsComeFirst == Spec => DemandOnlyBeforeFirstCredential
<1>1. ASSUME IInv, RedeemInv, [Next]_vars PROVE DemandStep
  <2>1. SUFFICES ASSUME NEW s \in Secret, enr[s].user = None,
                        enr'[s].user # None, enr'[s].demand
                 PROVE  /\ pw[enr'[s].user] = 0
                        /\ \A c \in Cred : cred[c].user # enr'[s].user
    BY DEF DemandStep
  <2>2. PICK t \in Txn : EnrolInsert(t) /\ s = txn[t].secret
    BY <1>1, <2>1, InsertedBy
  <2>3. txn[t].pc = "enrolling" /\ enr'[s] = [NoEnr EXCEPT !.user = txn[t].user,
                                          !.at = epoch[txn[t].user],
                                          !.demand = txn[t].demand,
                                          !.revoking = txn[t].revoking]
    BY <1>1, <2>1, <2>2 DEF EnrolInsert, IInv, TypeOK, StoreTypeOK
  <2>4. enr'[s].user = txn[t].user /\ txn[t].demand
    BY <2>1, <2>3 DEF NoEnr
  <2> QED
    BY <1>1, <2>3, <2>4, RedeemSlotFacts DEF SlotUnderLock, SlotPerson, ZeroCredentialAdmin
<1>2. IInv /\ RedeemInv /\ [Next]_vars => [DemandStep]_vars
  BY <1>1
<1>3. Spec => [][DemandStep]_vars
  BY <1>2, Invariance, LedgerInvariance, PTL DEF Spec
<1> QED
  BY <1>3 DEF DemandOnlyBeforeFirstCredential, DemandStep

-----------------------------------------------------------------------------
(* The refinement: every commit is one step of AccountAtomic, taken on the *)
(* rows as they are at the commit, and every other statement a stutter.    *)

LEMMA MintIsAtomic ==
    ASSUME IInv, RedeemInv, NEW t \in Txn, MintInsert(t) PROVE Atomic!AtomicNext
<1>1. /\ txn[t].pc = "minting"
      /\ UNCHANGED <<row, admin, epoch, pw, enr, ledger, cutoff>>
      /\ cred' = [c \in Cred |-> IF c \in txn[t].creds
                                 THEN [user |-> txn[t].user, revoked |-> FALSE,
                                       auth |-> txn[t].auth]
                                 ELSE cred[c]]
  BY DEF MintInsert
<1>2. /\ txn[t].user \in User /\ row[txn[t].user] = "live"
      /\ txn[t].auth = epoch[txn[t].user]
  BY <1>1, RedeemSlotFacts DEF SlotOK, SlotShape, UserPc, SlotEpoch, SlotUnderLock, SlotPerson
<1>3. PICK c \in Cred : txn[t].creds = {c} /\ cred[c].user = None
  BY <1>1, RedeemSlotFacts DEF SlotUnderLock, SlotPerson
<1>4. cred \in [Cred -> CredRow]
  BY DEF IInv, TypeOK, StoreTypeOK
<1>5. cred' = [cred EXCEPT ![c] = [user |-> txn[t].user, revoked |-> FALSE,
                                   auth |-> epoch[txn[t].user]]]
  BY <1>1, <1>2, <1>3, <1>4
<1>6. Atomic!Mint(c, txn[t].user)
  BY <1>1, <1>2, <1>3, <1>5 DEF Atomic!Mint
<1> QED
  BY <1>2, <1>6 DEF Atomic!AtomicNext

LEMMA EnrolIsAtomic ==
    ASSUME IInv, RedeemInv, NEW t \in Txn, EnrolInsert(t)
    PROVE  Atomic!AtomicNext \/ UNCHANGED store
<1>1. txn[t].pc = "enrolling" /\ UNCHANGED <<row, admin, epoch, pw, cred, ledger, cutoff>>
  BY DEF EnrolInsert
<1>2. CASE UNCHANGED enr
  BY <1>1, <1>2 DEF store
<1>3. ASSUME enr[txn[t].secret].user = None,
             enr' = [enr EXCEPT ![txn[t].secret] =
                            [NoEnr EXCEPT !.user = txn[t].user,
                                          !.at = epoch[txn[t].user],
                                          !.demand = txn[t].demand,
                                          !.revoking = txn[t].revoking]]
      PROVE  Atomic!AtomicNext
  <2>1. /\ txn[t].user \in User /\ row[txn[t].user] = "live" /\ txn[t].secret \in Secret
        /\ txn[t].demand \in BOOLEAN /\ txn[t].revoking \in BOOLEAN
        /\ ~(txn[t].demand /\ txn[t].revoking)
        /\ txn[t].demand => ZeroCredentialAdmin(txn[t].user)
    BY <1>1, RedeemSlotFacts DEF SlotOK, SlotShape, UserPc, SecretPc, SlotUnderLock,
                                 SlotPerson, TxnRec
  <2>2. Atomic!Enrol(txn[t].secret, txn[t].user, txn[t].demand, txn[t].revoking)
    BY <1>1, <1>3, <2>1 DEF Atomic!Enrol, Atomic!NoEnr, NoEnr, ZeroCredentialAdmin,
                            Atomic!ZeroCredentialAdmin
  <2> QED
    BY <2>1, <2>2 DEF Atomic!AtomicNext
<1> QED
  BY <1>2, <1>3 DEF EnrolInsert

LEMMA SetPasswordIsAtomic ==
    ASSUME IInv, RedeemInv, NEW t \in Txn, SetPasswordCommit(t) PROVE Atomic!AtomicNext
<1>1. txn[t].pc = "bumped"
  BY DEF SetPasswordCommit
<1>2. /\ txn[t].user \in User /\ row[txn[t].user] = "live"
      /\ txn[t].epoch = epoch[txn[t].user] + 1
  BY <1>1, RedeemSlotFacts DEF SlotOK, SlotShape, UserPc, SlotEpoch, BumpedPc,
                               SlotUnderLock, SlotPerson
<1>3. Atomic!SetPassword(txn[t].user)
  BY <1>2 DEF SetPasswordCommit, Atomic!SetPassword
<1> QED
  BY <1>2, <1>3 DEF Atomic!AtomicNext

\* What a revocation read is exactly what there is at its commit.
LEMMA ReadsAll ==
    ASSUME IInv, RedeemInv, NEW t \in Txn, txn[t].pc \in TombPc, RevokesAll(txn[t])
    PROVE  /\ txn[t].creds = LiveCreds(txn[t].user)
           /\ txn[t].enrs = OpenEnrs(txn[t].user) \ {txn[t].secret}
BY RedeemSlotFacts, TombFacts DEF SlotOK, SlotCaptured

LEMMA RevokeAllIsAtomic ==
    ASSUME IInv, RedeemInv, NEW t \in Txn, RevokeAllCommit(t) PROVE Atomic!AtomicNext
<1> DEFINE u == txn[t].user
<1>1. txn[t].pc = "voided"
  BY DEF RevokeAllCommit
<1>2. /\ u \in User /\ row[u] # "absent" /\ txn[t].epoch = epoch[u] + 1
      /\ txn[t].secret = None
  BY <1>1, RedeemSlotFacts DEF SlotOK, SlotShape, UserPc, SlotEpoch, BumpedPc,
                               SlotUnderLock, SlotPerson
<1>3. txn[t].creds = LiveCreds(u) /\ txn[t].enrs = OpenEnrs(u)
  BY <1>1, <1>2, ReadsAll, NoneAssumption DEF TombPc, RevokesAll, OpenEnrs
<1>4. Atomic!RevokeAll(u)
  BY <1>2, <1>3 DEF RevokeAllCommit, Atomic!RevokeAll, Revoked, Voided, LiveCreds, OpenEnrs,
        Atomic!Revoked, Atomic!Voided, Atomic!LiveCreds, Atomic!OpenEnrs
<1> QED
  BY <1>2, <1>4 DEF Atomic!AtomicNext

LEMMA RedeemIsAtomic ==
    ASSUME IInv, RedeemInv, NEW t \in Txn, RedeemCommit(t) PROVE Atomic!AtomicNext
<1> DEFINE u == txn[t].user
           z == txn[t].secret
           k == txn[t].key
           all == enr[txn[t].secret].revoking
<1>1. txn[t].pc = "written"
  BY DEF RedeemCommit
<1>2. /\ u \in User /\ z \in Secret /\ Unspent(z) /\ enr[z].user = u
      /\ k \in Key \cup {None} /\ KeyFree(k) /\ txn[t].epoch = epoch[u] + 1
  BY <1>1, WrittenFacts, TombFacts DEF TombPc
<1>3. txn[t].revoking = all /\ (~txn[t].revoking => txn[t].creds = {} /\ txn[t].enrs = {})
  BY <1>1, RedeemSlotFacts DEF SlotUnderLock, SlotSpend
<1>4. txn[t].revoking => txn[t].creds = LiveCreds(u) /\ txn[t].enrs = OpenEnrs(u) \ {z}
  BY <1>1, ReadsAll DEF TombPc, RevokesAll
<1>5. cred \in [Cred -> CredRow] /\ Revoked({}) = cred
  BY DEF IInv, TypeOK, StoreTypeOK, Revoked
<1>6. Revoked(txn[t].creds) = IF all THEN Revoked(LiveCreds(u)) ELSE cred
  BY <1>3, <1>4, <1>5
<1>7. txn[t].enrs = IF all THEN OpenEnrs(u) \ {z} ELSE {}
  BY <1>3, <1>4
<1>8. /\ epoch' = [epoch EXCEPT ![u] = @ + 1]
      /\ pw' = [pw EXCEPT ![u] = @ + 1]
      /\ cred' = IF all THEN Revoked(LiveCreds(u)) ELSE cred
      /\ enr' = [Voided(IF all THEN OpenEnrs(u) \ {z} ELSE {})
                      EXCEPT ![z] = [@ EXCEPT !.spent = TRUE]]
      /\ cutoff' = IF all THEN [cutoff EXCEPT ![u] = epoch[u] + 1] ELSE cutoff
      /\ ledger' = IF k = None THEN ledger
                     ELSE [ledger EXCEPT ![k] = [secret |-> z, user |-> u,
                                                 epoch |-> epoch[u] + 1,
                                                 pw |-> pw[u] + 1]]
      /\ UNCHANGED <<row, admin>>
  BY <1>2, <1>3, <1>6, <1>7 DEF RedeemCommit
<1>9. Atomic!Redeem(z, k)
  BY <1>2, <1>8 DEF Atomic!Redeem, Revoked, Voided, LiveCreds, OpenEnrs, Unspent, KeyFree,
        Atomic!Revoked, Atomic!Voided, Atomic!LiveCreds, Atomic!OpenEnrs, Atomic!Unspent,
        Atomic!KeyFree
<1> QED
  BY <1>2, <1>9 DEF Atomic!AtomicNext

LEMMA OthersAreAtomic == ASSUME Others PROVE Atomic!AtomicNext
<1>1. ASSUME NEW u \in User, NEW b \in BOOLEAN, NewUser(u, b) PROVE Atomic!AtomicNext
  BY <1>1 DEF NewUser, CreateUser, Atomic!CreateUser, Atomic!AtomicNext
<1>2. ASSUME NEW u \in User, NEW b \in BOOLEAN, SetAdmin(u, b) PROVE Atomic!AtomicNext
  BY <1>2 DEF SetAdmin, SetUserAdmin, Atomic!SetUserAdmin, Atomic!AtomicNext
<1>3. ASSUME NEW u \in User, Withdraw(u) PROVE Atomic!AtomicNext
  BY <1>3 DEF Withdraw, SoftDelete, Atomic!SoftDelete, Atomic!AtomicNext
<1>4. ASSUME NEW u \in User, NEW c \in Cred, RevokeOne(c, u) PROVE Atomic!AtomicNext
  <2>1. Atomic!RevokeCredential(c, u)
    BY <1>4 DEF RevokeOne, RevokeCredential, Atomic!RevokeCredential, Revoked, LiveCreds,
                Atomic!Revoked, Atomic!LiveCreds
  <2> QED
    BY <2>1 DEF Atomic!AtomicNext
<1>5. ASSUME NEW s \in Secret, Tick(s) PROVE Atomic!AtomicNext
  BY <1>5 DEF Tick, Expire, Atomic!Expire, Atomic!AtomicNext
<1> QED
  BY <1>1, <1>2, <1>3, <1>4, <1>5 DEF Others

\* "One call, one transaction": the statements of the handlers, interleaved
\* and dropped anywhere, add up to calls that each take effect in one step on
\* the rows as they are at that step.
THEOREM StatementsImplementCalls == Spec => ImplementsAtomic
<1>1. Init => Atomic!StoreInit
  BY DEF Init, StoreInit, Atomic!StoreInit, NoEnr, NoCred, NoRow,
         Atomic!NoEnr, Atomic!NoCred, Atomic!NoRow
<1>2. ASSUME IInv, RedeemInv, [Next]_vars PROVE [Atomic!AtomicNext]_(Atomic!store)
  <2>1. Atomic!store = store /\ (Atomic!store)' = store'
    BY DEF store, Atomic!store
  <2>2. CASE UNCHANGED vars
    BY <2>1, <2>2 DEF vars, store
  <2>3. CASE Others
    BY <2>3, OthersAreAtomic
  <2>4. ASSUME NEW t \in Txn, \/ Begin(t) \/ Drop(t) \/ Reread(t)
                              \/ RevokeAllWrite(t) \/ RedeemLock(t) \/ RedeemSpend(t)
                              \/ RedeemUnspent(t) \/ RedeemRevoke(t) \/ RedeemWrite(t)
        PROVE  UNCHANGED store
    BY <2>4 DEF Begin, Drop, Reread, RevokeAllWrite, RedeemLock,
         RedeemSpend, RedeemUnspent, RedeemRevoke, RedeemWrite, GetPasswordHash,
         RevokeAllLock, SetPasswordBump, CreateCredentialUnchecked,
         CreateCredentialChecked, MintRead, CreateEnrolment, RedeemBegin
  <2>5. ASSUME NEW t \in Txn, Begin(t) \/ Step(t) \/ Drop(t)
        PROVE  Atomic!AtomicNext \/ UNCHANGED store
    BY <1>2, <2>4, <2>5, MintIsAtomic, EnrolIsAtomic, SetPasswordIsAtomic,
       RevokeAllIsAtomic, RedeemIsAtomic DEF Step
  <2> QED
    BY <1>2, <2>1, <2>2, <2>3, <2>5 DEF Next
<1> QED
  BY <1>1, <1>2, Invariance, LedgerInvariance, PTL
     DEF Spec, ImplementsAtomic, Atomic!AtomicSpec
=============================================================================
