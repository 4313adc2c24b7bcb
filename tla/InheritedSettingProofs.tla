----------------------- MODULE InheritedSettingProofs -----------------------
(***************************************************************************)
(* Theorems about InheritedSetting, for any number of teams, keys, calls   *)
(* in flight and requests on the wire: one key stands for one request, no  *)
(* override lands for a team that is not live, a delete is only ever an    *)
(* explicit one, and a retry is not refused.                               *)
(***************************************************************************)
EXTENDS InheritedSetting, TLAPS

\* A request in flight is one the validation admitted, and has no answer.
Checked(q) ==
    /\ q.pc \in Live => q.req \in Request /\ CheckInheritedSetting(q.req)
    /\ q.pc # "done" => q.out # "INVALID_ARGUMENT"

\* Nothing is written before its own statement, a value that was written is one
\* the columns admit, and its team is live for as long as the row is shared.
Written(q) ==
    /\ q.pc \in {"read", "gone", "absent"} => ~q.wrote
    /\ q.pc \in {"gone", "absent"} => q.req.scope = "TEAM" /\ ~q.req.clear
    /\ (q.pc \in Holding /\ q.wrote /\ ~q.req.clear) =>
          /\ q.req.value \in Value
          /\ q.req.scope = "TEAM" => team[q.req.team] = "live"

\* What the ledger holds for the key of a call, by how far the call has come.
Claims(q) ==
    /\ q.pc = "dup" => q.key \in Key /\ ledger[q.key] # Absent
    /\ (q.pc = "claimed" /\ q.key \in Key) => ledger[q.key] \in {Absent, q.req}
    /\ (q.out = "INVALID_ARGUMENT" /\ CheckInheritedSetting(q.req)) =>
          q.key \in Key /\ ledger[q.key] \notin {Absent, q.req}

\* One call at a time holds the claim of a key.
OneClaim == \A t, o \in Txn :
               (/\ t # o /\ txn[t].pc = "claimed" /\ txn[o].pc = "claimed"
                /\ txn[t].key \in Key) => txn[o].key # txn[t].key

\* The inductive invariant.
Inv == /\ TypeOK
       /\ \A t \in Txn : Checked(txn[t]) /\ Written(txn[t]) /\ Claims(txn[t])
       /\ OneClaim

-----------------------------------------------------------------------------
(* Records and frames.                                                     *)

\* What the validation leaves of a request.
LEMMA LegalRequest ==
    ASSUME NEW r \in Request, CheckInheritedSetting(r)
    PROVE  /\ LevelOf(r) \in Level /\ r.scope \in {"ORG", "TEAM"}
           /\ r.scope = "TEAM" => r.team \in Team /\ LevelOf(r) = r.team
           /\ r.scope = "ORG" => /\ LevelOf(r) = Org /\ ~r.clear
                                 /\ r.locked \in BOOLEAN /\ r.locked # Absent
           /\ r.clear => r.value = Absent
           /\ r.value = Absent => r.clear
<1>1. r \in Wire
  BY RequestAssumption
<1>2. /\ r.team \in Team \cup {Absent, "EMPTY"} /\ r.locked \in BOOLEAN \cup {Absent}
      /\ r.clear \in BOOLEAN
  BY <1>1 DEF Wire
<1>3. /\ r.scope \in {"ORG", "TEAM"}
      /\ r.scope = "ORG" => r.team = Absent /\ r.locked # Absent /\ ~r.clear
      /\ r.scope = "TEAM" => r.team \notin {Absent, "EMPTY"}
      /\ r.clear => r.value = Absent
      /\ r.value = Absent => r.clear
  BY DEF CheckInheritedSetting
<1> QED
  BY <1>2, <1>3 DEF LevelOf, Level

\* A request is not the absent one, and the null request is not a legal one.
LEMMA RequestFacts == /\ Absent \notin Value /\ Absent \notin Request
                      /\ ~CheckInheritedSetting(NoReq)
BY RequestAssumption DEF CheckInheritedSetting, NoReq

LEMMA IdleFacts == /\ Idle \in Slot /\ Idle.pc = "idle" /\ Idle.out = "none"
                   /\ Checked(Idle) /\ Written(Idle) /\ Claims(Idle)
BY DEF Idle, Slot, Checked, Written, Claims, Live, Holding

\* A call that moves on and leaves the store as it was.
LEMMA Moves ==
    ASSUME Inv, NEW t \in Txn, UNCHANGED Store,
           txn' \in [Txn -> Slot], \A o \in Txn : o # t => txn'[o] = txn[o],
           Checked(txn'[t]), Written(txn'[t]), Claims(txn'[t]),
           txn'[t].pc = "claimed" =>
              txn'[t].key = txn[t].key /\ (txn[t].key \in Key => ClaimFree(t, txn[t].key, {"claimed"}))
    PROVE  Inv'
<1>1. UNCHANGED <<team, stored, lock, ledger>>
  BY DEF Store
<1>2. TypeOK'
  BY <1>1 DEF Inv, TypeOK
<1>3. ASSUME NEW o \in Txn PROVE Checked(txn[o])' /\ Written(txn[o])' /\ Claims(txn[o])'
  <2>1. Checked(txn'[o]) /\ Written(txn'[o]) /\ Claims(txn'[o])
    BY DEF Inv
  <2> QED
    BY <1>1, <2>1 DEF Checked, Written, Claims
<1>4. OneClaim'
  BY DEF Inv, OneClaim, ClaimFree
<1> QED
  BY <1>2, <1>3, <1>4 DEF Inv

\* Writing the place of a call, and its answer.
LEMMA GotoMoves ==
    ASSUME txn \in [Txn -> Slot], NEW t \in Txn, NEW pc \in Live, Goto(t, pc)
    PROVE  /\ txn' \in [Txn -> Slot] /\ \A o \in Txn : o # t => txn'[o] = txn[o]
           /\ txn'[t].pc = pc /\ txn'[t].req = txn[t].req /\ txn'[t].key = txn[t].key
           /\ txn'[t].wrote <=> txn[t].wrote
           /\ txn'[t].out = txn[t].out
BY DEF Goto, Slot

LEMMA WroteMoves ==
    ASSUME txn \in [Txn -> Slot], NEW t \in Txn, NEW w \in BOOLEAN,
           txn' = [txn EXCEPT ![t].pc = "wrote", ![t].wrote = w]
    PROVE  /\ txn' \in [Txn -> Slot] /\ \A o \in Txn : o # t => txn'[o] = txn[o]
           /\ txn'[t].pc = "wrote" /\ txn'[t].req = txn[t].req /\ txn'[t].key = txn[t].key
           /\ txn'[t].wrote <=> w
           /\ txn'[t].out = txn[t].out
BY DEF Slot, Live

LEMMA AnswerMoves ==
    ASSUME txn \in [Txn -> Slot], NEW t \in Txn, NEW out \in {"OK", "INVALID_ARGUMENT", "NOT_FOUND", "UNAVAILABLE"},
           Answer(t, out)
    PROVE  /\ txn' \in [Txn -> Slot] /\ \A o \in Txn : o # t => txn'[o] = txn[o]
           /\ txn'[t].pc = "done" /\ txn'[t].req = txn[t].req /\ txn'[t].key = txn[t].key
           /\ txn'[t].wrote <=> txn[t].wrote
           /\ txn'[t].out = out
BY DEF Answer, Slot

\* An answer that is not a refusal.
LEMMA AnswerKeeps ==
    ASSUME Inv, NEW t \in Txn, NEW out \in {"OK", "NOT_FOUND", "UNAVAILABLE"}, Answer(t, out), UNCHANGED Store
    PROVE  Inv'
<1>1. txn \in [Txn -> Slot]
  BY DEF Inv, TypeOK
<1>2. /\ txn' \in [Txn -> Slot] /\ \A o \in Txn : o # t => txn'[o] = txn[o]
      /\ txn'[t].pc = "done" /\ txn'[t].out = out
  BY <1>1, AnswerMoves
<1>3. Checked(txn'[t]) /\ Written(txn'[t]) /\ Claims(txn'[t])
  BY <1>2 DEF Checked, Written, Claims, Live, Holding
<1> QED
  BY <1>2, <1>3, Moves

\* A slot that is given up.
LEMMA IdleKeeps ==
    ASSUME Inv, NEW t \in Txn, txn' = [txn EXCEPT ![t] = Idle], UNCHANGED Store
    PROVE  Inv'
<1>1. /\ txn' \in [Txn -> Slot] /\ \A o \in Txn : o # t => txn'[o] = txn[o]
      /\ txn'[t] = Idle
  BY IdleFacts DEF Inv, TypeOK
<1> QED
  BY <1>1, IdleFacts, Moves

-----------------------------------------------------------------------------
(* The statements.                                                         *)

LEMMA SetInheritedSettingKeeps ==
    ASSUME Inv, NEW t \in Txn, NEW r \in Request, NEW k \in Key \cup {Absent}, SetInheritedSetting(t, r, k)
    PROVE  Inv'
<1> DEFINE prior == IF k \in Key THEN ledger[k] ELSE Absent
           began(pc, out) == [Idle EXCEPT !.pc = pc, !.req = r, !.key = k, !.out = out]
<1>1. txn \in [Txn -> Slot] /\ UNCHANGED Store /\ txn[t].pc = "idle"
  BY DEF Inv, TypeOK, SetInheritedSetting
<1>2. CASE ~CheckInheritedSetting(r)
  <2> DEFINE q == [Idle EXCEPT !.pc = "done", !.out = "INVALID_ARGUMENT"]
  <2>1. txn' = [txn EXCEPT ![t] = q]
    BY <1>2 DEF SetInheritedSetting
  <2>2. q \in Slot /\ q.pc = "done" /\ q.req = NoReq
    BY DEF Idle, Slot
  <2> HIDE DEF q
  <2>3. Checked(q) /\ Written(q) /\ Claims(q)
    BY <2>2, RequestFacts DEF Checked, Written, Claims, Live, Holding
  <2> QED
    BY <1>1, <2>1, <2>2, <2>3, Moves
<1>3. CASE CheckInheritedSetting(r)
  <2>1. PICK q : /\ txn' = [txn EXCEPT ![t] = q]
                 /\ \/ q = began("read", "none") /\ prior = Absent
                    \/ q = began("done", "OK") /\ prior # Absent
                    \/ q = began("done", "INVALID_ARGUMENT") /\ prior \notin {Absent, r}
    BY <1>3 DEF SetInheritedSetting, AgreesWith
  <2>2. /\ q \in Slot /\ q.req = r /\ q.key = k /\ ~q.wrote
        /\ \/ q.pc = "read" /\ q.out = "none"
           \/ q.pc = "done" /\ q.out = "OK"
           \/ q.pc = "done" /\ q.out = "INVALID_ARGUMENT" /\ prior \notin {Absent, r}
    BY <2>1 DEF Idle, Slot, Live
  <2>3. Checked(q) /\ Written(q) /\ Claims(q)
    BY <1>3, <2>2 DEF Checked, Written, Claims, Live, Holding
  <2>4. q.pc # "claimed" /\ txn'[t] = q /\ txn' \in [Txn -> Slot]
        /\ \A o \in Txn : o # t => txn'[o] = txn[o]
    BY <1>1, <2>1, <2>2
  <2> QED
    BY <1>1, <2>3, <2>4, Moves
<1> QED
  BY <1>2, <1>3

LEMMA WriteOrgKeeps == ASSUME Inv, NEW t \in Txn, WriteOrg(t) PROVE Inv'
<1>1. /\ txn \in [Txn -> Slot] /\ UNCHANGED Store /\ txn[t].pc = "read" /\ txn[t].req.scope = "ORG"
      /\ Checked(txn[t]) /\ Claims(txn[t])
  BY DEF Inv, TypeOK, WriteOrg
<1>2. CASE txn[t].req.value \notin Value
  BY <1>1, <1>2, AnswerKeeps DEF WriteOrg
<1>3. CASE txn[t].req.value \in Value
  <2>1. /\ txn' \in [Txn -> Slot] /\ \A o \in Txn : o # t => txn'[o] = txn[o]
        /\ txn'[t].pc = "wrote" /\ txn'[t].req = txn[t].req /\ txn'[t].key = txn[t].key
        /\ txn'[t].wrote /\ txn'[t].out = txn[t].out
    BY <1>1, <1>3, WroteMoves DEF WriteOrg
  <2>2. Checked(txn'[t]) /\ Written(txn'[t]) /\ Claims(txn'[t])
    BY <1>1, <1>3, <2>1 DEF Checked, Written, Claims, Live, Holding
  <2> QED
    BY <1>1, <2>1, <2>2, Moves
<1> QED
  BY <1>2, <1>3

LEMMA ClearOverrideKeeps == ASSUME Inv, NEW t \in Txn, ClearOverride(t) PROVE Inv'
<1>1. /\ txn \in [Txn -> Slot] /\ UNCHANGED Store /\ txn[t].pc = "read" /\ txn[t].req.clear
      /\ Checked(txn[t]) /\ Claims(txn[t])
  BY DEF Inv, TypeOK, ClearOverride
<1>2. PICK w \in BOOLEAN : txn' = [txn EXCEPT ![t].pc = "wrote", ![t].wrote = w]
  BY DEF ClearOverride
<1>3. /\ txn' \in [Txn -> Slot] /\ \A o \in Txn : o # t => txn'[o] = txn[o]
      /\ txn'[t].pc = "wrote" /\ txn'[t].req = txn[t].req /\ txn'[t].key = txn[t].key
      /\ txn'[t].out = txn[t].out
  BY <1>1, <1>2, WroteMoves
<1>4. Checked(txn'[t]) /\ Written(txn'[t]) /\ Claims(txn'[t])
  BY <1>1, <1>3 DEF Checked, Written, Claims, Live, Holding
<1> QED
  BY <1>1, <1>3, <1>4, Moves

LEMMA SetTeamOverrideKeeps == ASSUME Inv, NEW t \in Txn, SetTeamOverride(t) PROVE Inv'
<1>1. /\ txn \in [Txn -> Slot] /\ UNCHANGED Store /\ txn[t].pc = "read" /\ txn[t].req.scope = "TEAM"
      /\ ~txn[t].req.clear /\ Checked(txn[t]) /\ Written(txn[t]) /\ Claims(txn[t])
  BY DEF Inv, TypeOK, SetTeamOverride
<1>2. txn[t].req.team \in Team
  <2>1. txn[t].req \in Request /\ CheckInheritedSetting(txn[t].req)
    BY <1>1 DEF Checked, Live
  <2> QED
    BY <1>1, <2>1, LegalRequest
<1>3. CASE team[txn[t].req.team] # "live"
  <2>1. PICK pc \in {"gone", "absent"} : Goto(t, pc)
    BY <1>2, <1>3 DEF SetTeamOverride, Inv, TypeOK
  <2>2. /\ txn' \in [Txn -> Slot] /\ \A o \in Txn : o # t => txn'[o] = txn[o]
        /\ txn'[t].pc = pc /\ txn'[t].req = txn[t].req /\ txn'[t].key = txn[t].key
        /\ txn'[t].wrote <=> txn[t].wrote
        /\ txn'[t].out = txn[t].out
    BY <1>1, <2>1, GotoMoves DEF Live
  <2>3. Checked(txn'[t]) /\ Written(txn'[t]) /\ Claims(txn'[t])
    BY <1>1, <2>2 DEF Checked, Written, Claims, Live, Holding
  <2> QED
    BY <1>1, <2>2, <2>3, Moves
<1>4. CASE team[txn[t].req.team] = "live" /\ txn[t].req.value \in Value
  <2>1. /\ txn' \in [Txn -> Slot] /\ \A o \in Txn : o # t => txn'[o] = txn[o]
        /\ txn'[t].pc = "wrote" /\ txn'[t].req = txn[t].req /\ txn'[t].key = txn[t].key
        /\ txn'[t].wrote /\ txn'[t].out = txn[t].out
    BY <1>1, <1>4, WroteMoves DEF SetTeamOverride
  <2>2. Checked(txn'[t]) /\ Written(txn'[t]) /\ Claims(txn'[t])
    BY <1>1, <1>4, <2>1 DEF Checked, Written, Claims, Live, Holding
  <2> QED
    BY <1>1, <2>1, <2>2, Moves
<1>5. CASE team[txn[t].req.team] = "live" /\ txn[t].req.value \notin Value
  BY <1>1, <1>5, AnswerKeeps DEF SetTeamOverride
<1> QED
  BY <1>3, <1>4, <1>5

LEMMA LiveTeamKeeps == ASSUME Inv, NEW t \in Txn, LiveTeam(t) PROVE Inv'
<1>1. /\ txn \in [Txn -> Slot] /\ UNCHANGED Store /\ txn[t].pc \in {"gone", "absent"}
      /\ Checked(txn[t]) /\ Written(txn[t]) /\ Claims(txn[t])
  BY DEF Inv, TypeOK, LiveTeam
<1>2. CASE team[txn[t].req.team] = "live"
  <2>1. /\ txn' \in [Txn -> Slot] /\ \A o \in Txn : o # t => txn'[o] = txn[o]
        /\ txn'[t].pc = "wrote" /\ txn'[t].req = txn[t].req /\ txn'[t].key = txn[t].key
        /\ txn'[t].wrote <=> txn[t].wrote
        /\ txn'[t].out = txn[t].out
    BY <1>1, <1>2, GotoMoves DEF LiveTeam, Live
  <2>2. Checked(txn'[t]) /\ Written(txn'[t]) /\ Claims(txn'[t])
    BY <1>1, <2>1 DEF Checked, Written, Claims, Live, Holding
  <2> QED
    BY <1>1, <2>1, <2>2, Moves
<1>3. CASE team[txn[t].req.team] # "live"
  BY <1>1, <1>3, AnswerKeeps DEF LiveTeam
<1> QED
  BY <1>2, <1>3

LEMMA RecordClaimKeeps == ASSUME Inv, NEW t \in Txn, RecordClaim(t) PROVE Inv'
<1> DEFINE k == txn[t].key
           pc == IF k \in Key /\ ledger[k] # Absent THEN "dup" ELSE "claimed"
<1>1. /\ txn \in [Txn -> Slot] /\ UNCHANGED Store /\ txn[t].pc = "wrote"
      /\ k \in Key => ClaimFree(t, k, {"claimed"})
      /\ Goto(t, pc)
      /\ Checked(txn[t]) /\ Written(txn[t]) /\ Claims(txn[t])
  BY DEF Inv, TypeOK, RecordClaim
<1>2. /\ txn' \in [Txn -> Slot] /\ \A o \in Txn : o # t => txn'[o] = txn[o]
      /\ txn'[t].pc = pc /\ txn'[t].req = txn[t].req /\ txn'[t].key = txn[t].key
      /\ txn'[t].wrote <=> txn[t].wrote
      /\ txn'[t].out = txn[t].out
  BY <1>1, GotoMoves DEF Live
<1>3. Checked(txn'[t]) /\ Written(txn'[t]) /\ Claims(txn'[t])
  BY <1>1, <1>2 DEF Checked, Written, Claims, Live, Holding
<1> QED
  BY <1>1, <1>2, <1>3, Moves

LEMMA RecheckKeeps == ASSUME Inv, NEW t \in Txn, Recheck(t) PROVE Inv'
<1>1. /\ txn \in [Txn -> Slot] /\ UNCHANGED Store /\ txn[t].pc = "dup"
      /\ ClaimFree(t, txn[t].key, {"claimed"})
      /\ Checked(txn[t]) /\ Written(txn[t]) /\ Claims(txn[t])
  BY DEF Inv, TypeOK, Recheck, ClaimFree
<1>2. txn[t].key \in Key /\ ledger[txn[t].key] # Absent
  BY <1>1 DEF Claims
<1>3. CASE txn[t].req = ledger[txn[t].key]
  <2>1. /\ txn' \in [Txn -> Slot] /\ \A o \in Txn : o # t => txn'[o] = txn[o]
        /\ txn'[t].pc = "claimed" /\ txn'[t].req = txn[t].req /\ txn'[t].key = txn[t].key
        /\ txn'[t].wrote <=> txn[t].wrote
        /\ txn'[t].out = txn[t].out
    BY <1>1, <1>3, GotoMoves DEF Recheck, AgreesWith, Live
  <2>2. Checked(txn'[t]) /\ Written(txn'[t]) /\ Claims(txn'[t])
    BY <1>1, <1>3, <2>1 DEF Checked, Written, Claims, Live, Holding
  <2> QED
    BY <1>1, <2>1, <2>2, Moves
<1>4. CASE txn[t].req # ledger[txn[t].key]
  <2>1. /\ txn' \in [Txn -> Slot] /\ \A o \in Txn : o # t => txn'[o] = txn[o]
        /\ txn'[t].pc = "done" /\ txn'[t].req = txn[t].req /\ txn'[t].key = txn[t].key
    BY <1>1, <1>4, AnswerMoves DEF Recheck, AgreesWith
  <2>2. Checked(txn'[t]) /\ Written(txn'[t]) /\ Claims(txn'[t])
    BY <1>1, <1>2, <1>4, <2>1 DEF Checked, Written, Claims, Live, Holding
  <2> QED
    BY <1>1, <2>1, <2>2, Moves
<1> QED
  BY <1>3, <1>4

-----------------------------------------------------------------------------
(* The commit.                                                             *)

\* What a commit writes: its level with a legal value or none, the lock with
\* the organisation's, and its own request under its key, where there was none
\* or the same.
LEMMA CommitWrites ==
    ASSUME Inv, NEW t \in Txn, txn[t].pc = "claimed", Commit(t)
    PROVE  /\ UNCHANGED team
           /\ stored' \in [Level -> Value \cup {Absent}] /\ stored'[Org] # Absent
           /\ lock' \in BOOLEAN
           /\ ledger' \in [Key -> Request \cup {Absent}]
           /\ \A k \in Key : \/ ledger'[k] = ledger[k]
                             \/ ledger[k] = Absent /\ txn[t].key = k /\ ledger'[k] = txn[t].req
           /\ txn[t].key \in Key => ledger'[txn[t].key] = txn[t].req
           /\ \A tm \in Team : stored'[tm] # stored[tm] =>
                 LET r == txn[t].req IN
                 /\ r.scope = "TEAM" /\ r.team = tm
                 /\ \/ r.clear /\ r.value = Absent /\ stored'[tm] = Absent
                    \/ ~r.clear /\ stored'[tm] \in Value /\ team[tm] = "live"
<1> DEFINE r == txn[t].req
           v == IF r.clear THEN Absent ELSE r.value
           l == LevelOf(r)
<1>1. /\ Checked(txn[t]) /\ Written(txn[t]) /\ Claims(txn[t]) /\ txn[t] \in Slot
      /\ stored \in [Level -> Value \cup {Absent}] /\ stored[Org] # Absent
      /\ lock \in BOOLEAN /\ ledger \in [Key -> Request \cup {Absent}]
  BY DEF Inv, TypeOK
<1>2. r \in Request /\ CheckInheritedSetting(r)
  BY <1>1 DEF Checked, Live
<1>3. /\ l \in Level /\ r.scope \in {"ORG", "TEAM"}
      /\ r.scope = "TEAM" => r.team \in Team /\ l = r.team
      /\ r.scope = "ORG" => l = Org /\ r.locked \in BOOLEAN /\ ~r.clear
      /\ r.clear => r.value = Absent
      /\ r # Absent /\ Absent \notin Value /\ Org \notin Team
  BY <1>2, LegalRequest, RequestFacts, LevelAssumption
<1>4. txn[t].wrote => v \in Value \cup {Absent} /\ (~r.clear => v \in Value)
                     /\ ((~r.clear /\ r.scope = "TEAM") => team[r.team] = "live")
  BY <1>1 DEF Written, Holding
<1>5. /\ stored' = IF txn[t].wrote THEN [stored EXCEPT ![l] = v] ELSE stored
      /\ lock' = IF txn[t].wrote /\ r.scope = "ORG" THEN r.locked ELSE lock
      /\ ledger' = IF txn[t].key \in Key /\ ledger[txn[t].key] = Absent
                   THEN [ledger EXCEPT ![txn[t].key] = r] ELSE ledger
      /\ UNCHANGED team
  BY DEF Commit
<1> HIDE DEF l, v
<1>6. /\ stored' \in [Level -> Value \cup {Absent}]
      /\ \A m \in Level : stored'[m] # stored[m] => txn[t].wrote /\ m = l /\ stored'[m] = v
      /\ stored'[Org] # Absent
  <2>1. CASE txn[t].wrote
    <3>1. stored' = [stored EXCEPT ![l] = v] /\ v \in Value \cup {Absent}
      BY <1>4, <1>5, <2>1
    <3>2. Org \in Level /\ (l = Org => v # Absent)
      BY <1>3, <1>4, <2>1 DEF Level
    <3> QED
      BY <1>1, <1>3, <2>1, <3>1, <3>2
  <2>2. CASE ~txn[t].wrote
    BY <1>1, <1>5, <2>2
  <2> QED
    BY <2>1, <2>2
<1>7. lock' \in BOOLEAN
  <2>1. (lock' = r.locked /\ r.locked \in BOOLEAN) \/ lock' = lock
    BY <1>3, <1>5
  <2> QED
    BY <1>1, <2>1, Zenon
<1>8. /\ ledger' \in [Key -> Request \cup {Absent}]
      /\ \A k \in Key : ledger'[k] = IF k = txn[t].key THEN r ELSE ledger[k]
  <2>1. txn[t].key \in Key => ledger[txn[t].key] \in {Absent, r}
    BY <1>1 DEF Claims
  <2> QED
    BY <1>1, <1>2, <1>5, <2>1
<1>9. ASSUME NEW k \in Key
      PROVE  \/ ledger'[k] = ledger[k]
             \/ ledger[k] = Absent /\ txn[t].key = k /\ ledger'[k] = txn[t].req
  BY <1>1, <1>8 DEF Claims
<1>10. ASSUME NEW tm \in Team, stored'[tm] # stored[tm]
       PROVE  /\ r.scope = "TEAM" /\ r.team = tm
              /\ \/ r.clear /\ r.value = Absent /\ stored'[tm] = Absent
                 \/ ~r.clear /\ stored'[tm] \in Value /\ team[tm] = "live"
  <2>1. txn[t].wrote /\ tm = l /\ stored'[tm] = v
    BY <1>6, <1>10 DEF Level
  <2>2. r.scope = "TEAM" /\ r.team = tm
    BY <1>3, <2>1
  <2> QED
    BY <1>3, <1>4, <2>1, <2>2 DEF v
<1>11. txn[t].key \in Key => ledger'[txn[t].key] = txn[t].req
  BY <1>8
<1>12. UNCHANGED team
  BY <1>5
<1> QED
  BY <1>6, <1>7, <1>8, <1>9, <1>10, <1>11, <1>12

\* The commit, whether or not its answer is seen.
LEMMA CommitKeeps ==
    ASSUME Inv, NEW t \in Txn, txn[t].pc = "claimed", Commit(t),
           txn' \in [Txn -> Slot], \A o \in Txn : o # t => txn'[o] = txn[o],
           txn'[t].pc \in {"done", "idle"}, txn'[t].out # "INVALID_ARGUMENT"
    PROVE  Inv'
<1>1. /\ UNCHANGED team
      /\ \A k \in Key : \/ ledger'[k] = ledger[k]
                        \/ ledger[k] = Absent /\ txn[t].key = k /\ ledger'[k] = txn[t].req
  BY CommitWrites
<1>2. TypeOK'
  BY CommitWrites DEF Inv, TypeOK
<1>3. txn[t].req # Absent
  <2>1. txn[t].req \in Request
    BY DEF Inv, Checked, Live
  <2> QED
    BY <2>1, RequestFacts
<1>4. ASSUME NEW o \in Txn PROVE Checked(txn[o])' /\ Written(txn[o])' /\ Claims(txn[o])'
  <2>1. CASE o = t
    BY <2>1 DEF Checked, Written, Claims, Live, Holding
  <2>2. CASE o # t
    <3>1. Checked(txn[o]) /\ Written(txn[o]) /\ Claims(txn[o]) /\ txn'[o] = txn[o]
      BY <2>2 DEF Inv
    <3>2. (txn[o].pc = "claimed" /\ txn[o].key \in Key) => txn[o].key # txn[t].key
      BY <2>2 DEF Inv, OneClaim
    <3>3. Claims(txn[o])'
      BY <1>1, <1>3, <3>1, <3>2 DEF Claims
    <3> QED
      BY <1>1, <3>1, <3>3 DEF Checked, Written
  <2> QED
    BY <2>1, <2>2
<1>5. OneClaim'
  BY DEF Inv, OneClaim
<1> QED
  BY <1>2, <1>4, <1>5 DEF Inv

LEMMA CommitSettingKeeps == ASSUME Inv, NEW t \in Txn, CommitSetting(t) PROVE Inv'
<1>1. /\ txn' \in [Txn -> Slot] /\ \A o \in Txn : o # t => txn'[o] = txn[o]
      /\ txn'[t].pc = "done" /\ txn'[t].out = "OK"
  BY AnswerMoves DEF Inv, TypeOK, CommitSetting
<1> QED
  BY <1>1, CommitKeeps DEF CommitSetting

LEMMA DropKeeps == ASSUME Inv, NEW t \in Txn, Drop(t) PROVE Inv'
<1>1. /\ txn' \in [Txn -> Slot] /\ \A o \in Txn : o # t => txn'[o] = txn[o]
      /\ txn'[t].pc = "idle" /\ txn'[t].out = "none"
  BY IdleFacts DEF Inv, TypeOK, Drop
<1>2. CASE UNCHANGED Store
  BY <1>2, IdleKeeps DEF Drop
<1>3. CASE txn[t].pc = "claimed" /\ Commit(t)
  BY <1>1, <1>3, CommitKeeps
<1> QED
  BY <1>2, <1>3 DEF Drop

\* SyncTeams waits for whoever shares a team's row.
LEMMA SyncTeamsKeeps == ASSUME Inv, NEW declared \in SUBSET Team, SyncTeams(declared) PROVE Inv'
<1>1. /\ UNCHANGED <<stored, lock, ledger, txn>>
      /\ team' \in [Team -> {"absent", "live", "gone"}]
      /\ \A tm \in Team : team'[tm] # team[tm] => \A t \in Txn : ~SharesTeam(t, tm)
  BY DEF SyncTeams, Inv, TypeOK
<1>2. TypeOK'
  BY <1>1 DEF Inv, TypeOK
<1>3. ASSUME NEW t \in Txn PROVE Checked(txn[t])' /\ Written(txn[t])' /\ Claims(txn[t])'
  <2>1. Checked(txn[t]) /\ Written(txn[t]) /\ Claims(txn[t])
    BY DEF Inv
  <2>2. Checked(txn[t])' /\ Claims(txn[t])'
    BY <1>1, <2>1 DEF Checked, Claims
  <2>3. ASSUME txn[t].pc \in Holding, txn[t].wrote, ~txn[t].req.clear, txn[t].req.scope = "TEAM"
        PROVE  team'[txn[t].req.team] = team[txn[t].req.team]
    <3>1. txn[t].req \in Request /\ CheckInheritedSetting(txn[t].req)
      BY <2>1, <2>3 DEF Checked, Live, Holding
    <3>2. txn[t].req.team \in Team
      BY <2>3, <3>1, LegalRequest
    <3>3. SharesTeam(t, txn[t].req.team)
      BY <2>3 DEF SharesTeam
    <3> QED
      BY <1>1, <3>2, <3>3
  <2>4. Written(txn[t])'
    BY <1>1, <2>1, <2>3 DEF Written
  <2> QED
    BY <2>2, <2>4
<1>4. OneClaim'
  BY <1>1 DEF Inv, OneClaim
<1> QED
  BY <1>2, <1>3, <1>4 DEF Inv

-----------------------------------------------------------------------------
(* The invariant.                                                          *)

\* Every statement of every call, the deadlock's victim, a dropped call whose
\* commit may have happened, and SyncTeams, keep it.
THEOREM SettingInvariance == Spec => []Inv
<1>1. Init => Inv
  <2>1. SUFFICES ASSUME Init PROVE Inv
    OBVIOUS
  <2>2. txn \in [Txn -> Slot] /\ \A t \in Txn : txn[t] = Idle
    BY <2>1, IdleFacts DEF Init
  <2>3. lock \in BOOLEAN
    BY <2>1, Zenon DEF Init
  <2>4. Org \in Level
    BY DEF Level
  <2>5. TypeOK
    BY <2>1, <2>2, <2>3, <2>4, RequestFacts DEF Init, TypeOK, Value
  <2>6. OneClaim
    BY <2>2, IdleFacts DEF OneClaim
  <2> QED
    BY <2>2, <2>5, <2>6, IdleFacts DEF Inv
<1>2. Inv /\ [Next]_vars => Inv'
  <2>1. SUFFICES ASSUME Inv, [Next]_vars PROVE Inv'
    OBVIOUS
  <2>2. CASE UNCHANGED vars
    <3>1. UNCHANGED <<team, stored, lock, ledger, txn>>
      BY <2>2 DEF vars
    <3>2. TypeOK'
      BY <2>1, <3>1 DEF Inv, TypeOK
    <3>3. \A t \in Txn : Checked(txn[t])' /\ Written(txn[t])' /\ Claims(txn[t])'
      BY <2>1, <3>1 DEF Inv, Checked, Written, Claims
    <3> QED
      BY <2>1, <3>1, <3>2, <3>3 DEF Inv, OneClaim
  <2>3. ASSUME NEW t \in Txn, Begin(t) PROVE Inv'
    BY <2>1, <2>3, SetInheritedSettingKeeps DEF Begin
  <2>4. ASSUME NEW t \in Txn, Step(t) PROVE Inv'
    <3>1. DeadlockVictim(t) => Inv'
      BY <2>1, AnswerKeeps DEF DeadlockVictim
    <3> QED
      BY <2>1, <2>4, <3>1, WriteOrgKeeps, ClearOverrideKeeps, SetTeamOverrideKeeps, LiveTeamKeeps,
         RecordClaimKeeps, RecheckKeeps, CommitSettingKeeps DEF Step
  <2>5. ASSUME NEW t \in Txn, Return(t) PROVE Inv'
    BY <2>1, <2>5, IdleKeeps DEF Return
  <2> QED
    BY <2>1, <2>2, <2>3, <2>4, <2>5, DropKeeps, SyncTeamsKeeps DEF Next
<1> QED
  BY <1>1, <1>2, PTL DEF Spec

\* The columns hold what their CHECKs admit, the organisation's row is never
\* deleted, and the ledger holds requests.
THEOREM SettingTypes == Spec => []TypeOK
<1>1. Inv => TypeOK
  BY DEF Inv
<1> QED
  BY <1>1, SettingInvariance, PTL

\* A reused key is refused only where it recorded another request: never the
\* retry of a commit that went unanswered or is still in flight.
THEOREM SettingRetries == Spec => []RetryNeverRefused
<1>1. Inv => RetryNeverRefused
  BY DEF Inv, Claims, RetryNeverRefused
<1> QED
  BY <1>1, SettingInvariance, PTL

\* The validation discharges every expect() of the write.
THEOREM ExpectsHold == Spec => []ExpectsDischarged
<1>1. Inv => ExpectsDischarged
  <2>1. SUFFICES ASSUME Inv, NEW t \in Txn, txn[t].pc = "read"
                 PROVE  LET r == txn[t].req IN
                        /\ r.scope = "ORG" => r.value # Absent /\ r.locked # Absent
                        /\ r.scope = "TEAM" => r.team \in Team /\ (r.clear \/ r.value # Absent)
    BY DEF ExpectsDischarged
  <2>2. txn[t].req \in Request /\ CheckInheritedSetting(txn[t].req)
    BY <2>1 DEF Inv, Checked, Live
  <2> QED
    BY <2>2, LegalRequest
<1> QED
  BY <1>1, SettingInvariance, PTL

-----------------------------------------------------------------------------
(* What a step may never do.                                               *)

\* Only the commit of a claimed call changes a level, the lock or the ledger.
LEMMA OnlyCommitsWrite ==
    ASSUME Inv, [Next]_vars, <<stored, lock, ledger>>' # <<stored, lock, ledger>>
    PROVE  \E t \in Txn : /\ txn[t].pc = "claimed" /\ Commit(t) /\ txn'[t].pc # "claimed"
                          /\ \A o \in Txn : o # t => txn'[o] = txn[o]
<1>1. PICK t \in Txn : CommitSetting(t) \/ (Drop(t) /\ txn[t].pc = "claimed" /\ Commit(t))
  BY DEF vars, Store, Next, Begin, SetInheritedSetting, Step, WriteOrg, ClearOverride, SetTeamOverride, LiveTeam,
         RecordClaim, Recheck, CommitSetting, DeadlockVictim, Drop, Return, SyncTeams
<1>2. CASE CommitSetting(t)
  BY <1>2, AnswerMoves DEF CommitSetting, Inv, TypeOK
<1>3. CASE Drop(t) /\ txn[t].pc = "claimed" /\ Commit(t)
  BY <1>3, IdleFacts DEF Drop, Inv, TypeOK
<1> QED
  BY <1>1, <1>2, <1>3

\* D9: whatever interleaving the deliveries of a key take, the record of the key
\* stands, and a level changes under the key only to what the record states.
THEOREM KeysStandForRequests == Spec => OneKeyOneRequest
<1> DEFINE One == /\ \A k \in Key : ledger[k] # Absent => ledger'[k] = ledger[k]
                  /\ \A t \in Txn :
                       (/\ txn[t].pc = "claimed" /\ txn[t].key # Absent
                        /\ <<stored, lock>>' # <<stored, lock>>
                        /\ txn'[t].pc # "claimed")
                           => ledger'[txn[t].key] = txn[t].req
<1>1. ASSUME Inv, [Next]_vars PROVE One
  <2>1. CASE UNCHANGED <<stored, lock, ledger>>
    BY <2>1
  <2>2. CASE <<stored, lock, ledger>>' # <<stored, lock, ledger>>
    <3>1. PICK t \in Txn : /\ txn[t].pc = "claimed" /\ Commit(t) /\ txn'[t].pc # "claimed"
                           /\ \A o \in Txn : o # t => txn'[o] = txn[o]
      BY <1>1, <2>2, OnlyCommitsWrite
    <3>2. /\ \A k \in Key : \/ ledger'[k] = ledger[k]
                            \/ ledger[k] = Absent
          /\ txn[t].key \in Key => ledger'[txn[t].key] = txn[t].req
      BY <1>1, <3>1, CommitWrites
    <3>3. txn[t].key \in Key \cup {Absent}
      BY <1>1 DEF Inv, TypeOK, Slot
    <3> QED
      BY <3>1, <3>2, <3>3
  <2> QED
    BY <2>1, <2>2
<1>2. Spec => [][One]_vars
  BY <1>1, SettingInvariance, PTL DEF Spec
<1> QED
  BY <1>2 DEF OneKeyOneRequest

\* Ledger 704: the team of an override that lands is live at that moment.
THEOREM OverridesLandOnLiveTeams == Spec => OverrideOnlyForLiveTeam
<1> DEFINE Lands == \A tm \in Team : (stored'[tm] # stored[tm] /\ stored'[tm] # Absent) => team[tm] = "live"
<1>1. ASSUME Inv, [Next]_vars PROVE Lands
  <2>1. SUFFICES ASSUME NEW tm \in Team, stored'[tm] # stored[tm], stored'[tm] # Absent
                 PROVE  team[tm] = "live"
    OBVIOUS
  <2>2. PICK t \in Txn : txn[t].pc = "claimed" /\ Commit(t)
    BY <1>1, <2>1, OnlyCommitsWrite
  <2> QED
    BY <1>1, <2>1, <2>2, CommitWrites
<1>2. Spec => [][Lands]_vars
  BY <1>1, SettingInvariance, PTL DEF Spec
<1> QED
  BY <1>2 DEF OverrideOnlyForLiveTeam

\* common.proto: what deletes an override is scope TEAM, clear set, no value.
THEOREM DeletionsAreExplicit == Spec => DeletionIsExplicit
<1> DEFINE Explicit == \A tm \in Team :
              (stored[tm] # Absent /\ stored'[tm] = Absent) =>
                 \E t \in Txn : LET r == txn[t].req IN
                    /\ txn[t].pc = "claimed" /\ txn'[t].pc # "claimed"
                    /\ r.scope = "TEAM" /\ r.team = tm /\ r.clear /\ r.value = Absent
<1>1. ASSUME Inv, [Next]_vars PROVE Explicit
  <2>1. SUFFICES ASSUME NEW tm \in Team, stored[tm] # Absent, stored'[tm] = Absent
                 PROVE  \E t \in Txn : LET r == txn[t].req IN
                           /\ txn[t].pc = "claimed" /\ txn'[t].pc # "claimed"
                           /\ r.scope = "TEAM" /\ r.team = tm /\ r.clear /\ r.value = Absent
    OBVIOUS
  <2>2. PICK t \in Txn : txn[t].pc = "claimed" /\ Commit(t) /\ txn'[t].pc # "claimed"
    BY <1>1, <2>1, OnlyCommitsWrite
  <2>3. LET r == txn[t].req IN r.scope = "TEAM" /\ r.team = tm /\ r.clear /\ r.value = Absent
    BY <1>1, <2>1, <2>2, CommitWrites, RequestFacts
  <2> QED
    BY <2>2, <2>3
<1>2. Spec => [][Explicit]_vars
  BY <1>1, SettingInvariance, PTL DEF Spec
<1> QED
  BY <1>2 DEF DeletionIsExplicit
=============================================================================
