-------------------------- MODULE InheritedSetting --------------------------
(***************************************************************************)
(* SetInheritedSetting (service/setting.rs): one READ COMMITTED            *)
(* transaction that reads the idempotency ledger, writes one level of the  *)
(* setting, records its claim in the ledger and commits.  A member of Txn  *)
(* is one request slot; what it has written stays in the slot until the    *)
(* commit, so a rollback loses it.  SyncTeams appears through what it      *)
(* commits to iam_team, which the team level is written against.           *)
(*                                                                         *)
(* The organisation row is the level named Org, a team's override is the   *)
(* level named by the team.  The setting's name has one legal member, so   *)
(* it is only a field of the request.  The read-back of the two levels     *)
(* changes nothing and its content is left out.                            *)
(***************************************************************************)
EXTENDS Naturals, FiniteSets

CONSTANTS
    Team,       \* team ids
    Key,        \* non-empty idempotency keys
    Txn,        \* request slots
    Request,    \* bound: the requests of this instance, legal or not
    Org,        \* the organisation's level
    Absent      \* an absent optional field, an absent row, no key

ASSUME LevelAssumption == Org \notin Team /\ Absent \notin Team \cup Key \cup {Org}

Value == {"OFF", "ON"}                    \* what the columns' CHECK admits
Level == Team \cup {Org}

\* SetInheritedSettingRequest as the wire can carry it: an open enum holds a
\* number the contract does not declare ("UNKNOWN"), a team id may be "".
Wire == [scope : {"UNSPECIFIED", "ORG", "TEAM", "UNKNOWN"},
         team  : Team \cup {Absent, "EMPTY"},
         name  : {"owner_reads_own_record", "other"},
         value : Value \cup {Absent, "UNSPECIFIED", "UNKNOWN"},
         locked: BOOLEAN \cup {Absent},
         clear : BOOLEAN]

ASSUME RequestAssumption == Request \subseteq Wire /\ Absent \notin Value /\ Absent \notin Request

VARIABLES
    team,       \* iam_team: "absent", "live" or "gone" (deleted_at set)
    stored,     \* iam_org_setting and iam_team_setting_override, by level
    lock,       \* iam_org_setting.locked
    ledger,     \* iam_inherited_setting_write: key -> request, or Absent
    txn

vars == <<team, stored, lock, ledger, txn>>

\* "read": the ledger holds nothing for the key; "gone", "absent": the team
\* insert-select matched nothing, its row archived or not there; "wrote": the
\* level is written; "dup": the claim's INSERT met the key; "claimed": nothing
\* left but the read-back and the commit.
Live == {"read", "gone", "absent", "wrote", "dup", "claimed"}

\* No request yet: the request of an idle slot.
NoReq == [scope |-> "UNSPECIFIED", team |-> Absent, name |-> "other",
          value |-> Absent, locked |-> Absent, clear |-> FALSE]

Idle == [pc |-> "idle", req |-> NoReq, key |-> Absent, wrote |-> FALSE, out |-> "none"]

Slot == [pc    : Live \cup {"idle", "done"},
         req   : Request \cup {NoReq},
         key   : Key \cup {Absent},
         wrote : BOOLEAN,                 \* the level's row was written
         out   : {"none", "OK", "INVALID_ARGUMENT", "NOT_FOUND", "UNAVAILABLE"}]

\* The type invariant: a stored value is one the CHECK constraints admit, the
\* organisation's row is never deleted, and the ledger holds requests.
TypeOK ==
    /\ team \in [Team -> {"absent", "live", "gone"}]
    /\ stored \in [Level -> Value \cup {Absent}]
    /\ stored[Org] # Absent
    /\ lock \in BOOLEAN
    /\ ledger \in [Key -> Request \cup {Absent}]
    /\ txn \in [Txn -> Slot]

\* Migration 12 seeds the organisation's row; a sync has declared any teams.
Init ==
    /\ team \in [Team -> {"absent", "live"}]
    /\ stored = [l \in Level |-> IF l = Org THEN "ON" ELSE Absent]
    /\ lock = TRUE
    /\ ledger = [k \in Key |-> Absent]
    /\ txn = [t \in Txn |-> Idle]

-----------------------------------------------------------------------------
(* check_inherited_setting and the comparison of two requests.             *)

\* Mutant: a request that states neither a value nor clear is admitted.
CheckOmitted(r) ==
    /\ r.scope \in {"ORG", "TEAM"}
    /\ r.scope = "ORG" => r.team = Absent /\ r.locked # Absent /\ ~r.clear
    /\ r.scope = "TEAM" => r.team \notin {Absent, "EMPTY"} /\ r.locked = Absent
    /\ r.value # "UNSPECIFIED"
    /\ r.clear => r.value = Absent
    /\ r.name = "owner_reads_own_record"

\* Mutant: clear wins over a value sent with it.
CheckContradicting(r) ==
    /\ r.scope \in {"ORG", "TEAM"}
    /\ r.scope = "ORG" => r.team = Absent /\ r.locked # Absent /\ ~r.clear
    /\ r.scope = "TEAM" => r.team \notin {Absent, "EMPTY"} /\ r.locked = Absent
    /\ r.value # "UNSPECIFIED"
    /\ r.value = Absent => r.clear
    /\ r.name = "owner_reads_own_record"

\* Whether every clause of the contract holds; each failure is
\* INVALID_ARGUMENT.  A value the enum does not declare passes.
CheckInheritedSetting(r) ==
    /\ r.scope \in {"ORG", "TEAM"}
    /\ r.scope = "ORG" => r.team = Absent /\ r.locked # Absent /\ ~r.clear
    /\ r.scope = "TEAM" => r.team \notin {Absent, "EMPTY"} /\ r.locked = Absent
    /\ r.value # "UNSPECIFIED"
    /\ r.value = Absent => r.clear
    /\ r.clear => r.value = Absent
    /\ r.name = "owner_reads_own_record"

\* Mutant: compared in SQL, where an absent value is NULL and equals nothing.
AgreesInSql(r, prior) == r = prior /\ r.value # Absent

\* Claim::agrees_with: every field but the key, presence included.
AgreesWith(r, prior) == r = prior

LevelOf(r) == IF r.scope = "ORG" THEN Org ELSE r.team

-----------------------------------------------------------------------------
(* Locks, read off the slots.                                              *)

Holding == {"wrote", "dup", "claimed"}

\* The row of a level is locked by who wrote it; deleting a row that is not
\* there locks nothing at READ COMMITTED.
RowFree(t, l) ==
    \A o \in Txn \ {t} :
        ~(txn[o].pc \in Holding /\ txn[o].wrote /\ LevelOf(txn[o].req) = l)

\* Mutant: the liveness check keeps no lock on the team.
SharesNothing(t, tm) == FALSE

\* LOCK IN SHARE MODE: the insert-select shares the team row it read, live or
\* gone, to the end of the transaction; an absent row has nothing to lock.
SharesTeam(t, tm) ==
    /\ txn[t].req.scope = "TEAM" /\ txn[t].req.team = tm
    /\ ~txn[t].req.clear
    /\ txn[t].pc = "gone" \/ (txn[t].pc \in Holding /\ txn[t].wrote)

\* The claim's row: exclusive for the transaction that inserted it or re-read
\* it FOR UPDATE, shared by one whose INSERT met a duplicate.
ClaimFree(t, k, pcs) == \A o \in Txn \ {t} : txn[o].key = k => txn[o].pc \notin pcs

Goto(t, pc) == txn' = [txn EXCEPT ![t].pc = pc]
Answer(t, out) == txn' = [txn EXCEPT ![t].pc = "done", ![t].out = out]
Store == <<team, stored, lock, ledger>>

-----------------------------------------------------------------------------
(* store_setting, statement by statement.                                  *)

\* The checks, the begin and the plain ledger read, which waits for nobody.
\* A key already recorded is compared; if it agrees nothing is written.
SetInheritedSetting(t, r, k) ==
    /\ txn[t].pc = "idle"
    /\ LET prior == IF k \in Key THEN ledger[k] ELSE Absent
           began(pc, out) == [Idle EXCEPT !.pc = pc, !.req = r, !.key = k, !.out = out]
       IN txn' = [txn EXCEPT ![t] =
             CASE ~CheckInheritedSetting(r) ->
                     [Idle EXCEPT !.pc = "done", !.out = "INVALID_ARGUMENT"]
               [] CheckInheritedSetting(r) /\ prior = Absent -> began("read", "none")
               [] OTHER -> began("done", IF AgreesWith(r, prior)
                                         THEN "OK" ELSE "INVALID_ARGUMENT")]
    /\ UNCHANGED Store

\* Mutant: the column has no CHECK constraint.
WriteOrgUnchecked(t) ==
    /\ txn[t].pc = "read" /\ txn[t].req.scope = "ORG"
    /\ RowFree(t, Org)
    /\ txn' = [txn EXCEPT ![t].pc = "wrote", ![t].wrote = TRUE]
    /\ UNCHANGED Store

\* The organisation's upsert.  The CHECK constraint refuses an undeclared
\* value, which db() renders UNAVAILABLE.
WriteOrg(t) ==
    LET r == txn[t].req IN
    /\ txn[t].pc = "read" /\ r.scope = "ORG"
    /\ RowFree(t, Org)
    /\ IF r.value \in Value
       THEN txn' = [txn EXCEPT ![t].pc = "wrote", ![t].wrote = TRUE]
       ELSE Answer(t, "UNAVAILABLE")
    /\ UNCHANGED Store

\* The withdrawal: a DELETE with no liveness check.
ClearOverride(t) ==
    LET r == txn[t].req IN
    /\ txn[t].pc = "read" /\ r.scope = "TEAM" /\ r.clear
    /\ RowFree(t, r.team)
    /\ txn' = [txn EXCEPT ![t].pc = "wrote", ![t].wrote = stored[r.team] # Absent]
    /\ UNCHANGED Store

\* set_team_override: the INSERT ... SELECT writes only against a live team.
SetTeamOverride(t) ==
    LET r == txn[t].req IN
    /\ txn[t].pc = "read" /\ r.scope = "TEAM" /\ ~r.clear
    /\ IF team[r.team] # "live" THEN Goto(t, team[r.team])
       ELSE /\ RowFree(t, r.team)
            /\ IF r.value \in Value
               THEN txn' = [txn EXCEPT ![t].pc = "wrote", ![t].wrote = TRUE]
               ELSE Answer(t, "UNAVAILABLE")
    /\ UNCHANGED Store

\* Zero rows: live_team names it, with a fresh read of the team.
LiveTeam(t) ==
    /\ txn[t].pc \in {"gone", "absent"}
    /\ IF team[txn[t].req.team] = "live" THEN Goto(t, "wrote") ELSE Answer(t, "NOT_FOUND")
    /\ UNCHANGED Store

\* Mutant: the ledger read is FOR UPDATE, so the deliveries of a key share a gap
\* lock that keeps each other's INSERT waiting (ADR-0513).
RecordClaimInGap(t) ==
    LET k == txn[t].key IN
    /\ txn[t].pc = "wrote"
    /\ k \in Key => ClaimFree(t, k, Live)
    /\ Goto(t, IF k \in Key /\ ledger[k] # Absent THEN "dup" ELSE "claimed")
    /\ UNCHANGED Store

\* Claim::record: the INSERT waits for whoever holds the key's row.
RecordClaim(t) ==
    LET k == txn[t].key IN
    /\ txn[t].pc = "wrote"
    /\ k \in Key => ClaimFree(t, k, {"claimed"})
    /\ k \in Key => ledger[k] # Absent \/ ClaimFree(t, k, {"dup"})
    /\ Goto(t, IF k \in Key /\ ledger[k] # Absent THEN "dup" ELSE "claimed")
    /\ UNCHANGED Store

\* Mutant: a duplicate key is taken for success without re-reading the row.
SkipRecheck(t) ==
    /\ txn[t].pc = "dup"
    /\ Goto(t, "claimed")
    /\ UNCHANGED Store

\* A duplicate: the re-read FOR UPDATE waits for the others that share the row.
Recheck(t) ==
    LET k == txn[t].key IN
    /\ txn[t].pc = "dup"
    /\ ClaimFree(t, k, {"dup", "claimed"})
    /\ IF AgreesWith(txn[t].req, ledger[k])
       THEN Goto(t, "claimed") ELSE Answer(t, "INVALID_ARGUMENT")
    /\ UNCHANGED Store

\* What a commit makes of the store.  On the duplicate's path the ledger keeps
\* the row it has.
Commit(t) ==
    LET r == txn[t].req  k == txn[t].key IN
    /\ stored' = IF txn[t].wrote
                 THEN [stored EXCEPT ![LevelOf(r)] = IF r.clear THEN Absent ELSE r.value]
                 ELSE stored
    /\ lock' = IF txn[t].wrote /\ r.scope = "ORG" THEN r.locked ELSE lock
    /\ ledger' = IF k \in Key /\ ledger[k] = Absent THEN [ledger EXCEPT ![k] = r] ELSE ledger
    /\ UNCHANGED team

\* answer: the read-back and the commit.
CommitSetting(t) ==
    /\ txn[t].pc = "claimed"
    /\ Commit(t)
    /\ Answer(t, "OK")

\* Two duplicates that share the row and both want it FOR UPDATE: the engine
\* ends one, which db() renders UNAVAILABLE.
DeadlockVictim(t) ==
    /\ txn[t].pc = "dup"
    /\ ~ClaimFree(t, txn[t].key, {"dup"})
    /\ Answer(t, "UNAVAILABLE")
    /\ UNCHANGED Store

\* The caller's deadline, a crash or a lost connection: before the commit the
\* work is rolled back; at the commit it may have happened, unanswered.
Drop(t) ==
    /\ txn[t].pc \in Live
    /\ txn' = [txn EXCEPT ![t] = Idle]
    /\ \/ UNCHANGED Store
       \/ txn[t].pc = "claimed" /\ Commit(t)

\* The answer is read and the slot is free for the next request.
Return(t) ==
    /\ txn[t].pc = "done"
    /\ txn' = [txn EXCEPT ![t] = Idle]
    /\ UNCHANGED Store

\* SyncTeams commits a declaration: declared teams are inserted or reactivated,
\* the others archived.  An UPDATE waits for whoever shares the row.  The
\* overrides are not touched.
SyncTeams(declared) ==
    LET synced == [tm \in Team |-> IF tm \in declared THEN "live"
                                   ELSE IF team[tm] = "live" THEN "gone" ELSE team[tm]]
    IN /\ \A tm \in Team : synced[tm] # team[tm] => \A t \in Txn : ~SharesTeam(t, tm)
       /\ team' = synced
       /\ UNCHANGED <<stored, lock, ledger, txn>>

Step(t) == \/ WriteOrg(t) \/ ClearOverride(t) \/ SetTeamOverride(t) \/ LiveTeam(t)
           \/ RecordClaim(t) \/ Recheck(t) \/ CommitSetting(t) \/ DeadlockVictim(t)

Begin(t) == \E r \in Request, k \in Key \cup {Absent} : SetInheritedSetting(t, r, k)

Next == \/ \E t \in Txn : Begin(t) \/ Step(t) \/ Drop(t) \/ Return(t)
        \/ \E declared \in SUBSET Team : SyncTeams(declared)

Spec == Init /\ [][Next]_vars

\* A waiting statement is queued by the engine and a runnable one runs.
FairSpec == Spec /\ \A t \in Txn : SF_vars(Step(t))

-----------------------------------------------------------------------------
(* Properties.                                                             *)

\* D9 as amended: one key stands for one request.  Whatever interleaving two
\* deliveries of a key take, a level changes under a recorded key only to what
\* the recorded request states, and the record itself never changes.
OneKeyOneRequest ==
    [][/\ \A k \in Key : ledger[k] # Absent => ledger'[k] = ledger[k]
       /\ \A t \in Txn :
            (/\ txn[t].pc = "claimed" /\ txn[t].key # Absent
             /\ <<stored, lock>>' # <<stored, lock>>
             /\ txn'[t].pc # "claimed")
                => ledger'[txn[t].key] = txn[t].req]_vars

\* Ledger 704: no override lands for a team that is not live at that moment,
\* although the liveness was read two statements before the commit.
OverrideOnlyForLiveTeam ==
    [][\A tm \in Team :
          (stored'[tm] # stored[tm] /\ stored'[tm] # Absent) => team[tm] = "live"]_vars

\* A caller is refused for a reused key only when the key really recorded
\* another request: the retry of a request whose commit went unanswered, or
\* whose first delivery is still in flight, never is.
RetryNeverRefused ==
    \A t \in Txn :
        (/\ txn[t].out = "INVALID_ARGUMENT"
         /\ CheckInheritedSetting(txn[t].req))
           => ledger[txn[t].key] \notin {Absent, txn[t].req}

\* common.proto: "the only way to delete anything is scope TEAM, clear SET and
\* value ABSENT", of everything the wire can carry.
DeletionIsExplicit ==
    [][\A tm \in Team :
          (stored[tm] # Absent /\ stored'[tm] = Absent) =>
             \E t \in Txn : LET r == txn[t].req IN
                /\ txn[t].pc = "claimed" /\ txn'[t].pc # "claimed"
                /\ r.scope = "TEAM" /\ r.team = tm /\ r.clear /\ r.value = Absent]_vars

\* Every expect() of the write is discharged by the validation: a panic there
\* would take the process down.
ExpectsDischarged ==
    \A t \in Txn : LET r == txn[t].req IN txn[t].pc = "read" =>
        /\ r.scope = "ORG" => r.value # Absent /\ r.locked # Absent
        /\ r.scope = "TEAM" => r.team \in Team /\ (r.clear \/ r.value # Absent)

\* No call waits for ever: row, team and claim locks are taken in one order,
\* and the one cycle two duplicates can form is broken by the engine.
Answered == \A t \in Txn : (txn[t].pc \in Live) ~> (txn[t].pc \notin Live)

\* What the request asked for is what is stored.
InForce(r) == /\ stored[LevelOf(r)] = IF r.clear THEN Absent ELSE r.value
              /\ r.scope = "ORG" => lock = r.locked

\* setting.rs, of a key already recorded: re-running the write "after somebody
\* else legitimately changed the level would UNDO their change and report
\* success, which is the silent overwrite the ledger exists to stop" - so what
\* another key's call has put in force survives an OK for a recorded key.
NoRedeliveryUndoes ==
    [][\A t \in Txn, l \in Key :
          LET r == txn[t].req  k == txn[t].key IN
          (/\ txn[t].pc = "claimed" /\ txn'[t].out = "OK"
           /\ k \in Key /\ ledger[k] = r
           /\ ledger[l] \notin {Absent, r} /\ LevelOf(ledger[l]) = LevelOf(r)
           /\ InForce(ledger[l]))
             => InForce(ledger[l])']_vars

\* Migration 11: clearing the override a soft-deleted team strands is the job
\* of the RPC that deletes the team - so an archived team has no override.
NoStrandedOverride ==
    \A tm \in Team : team[tm] = "gone" => stored[tm] = Absent
=============================================================================
