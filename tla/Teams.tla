------------------------------- MODULE Teams -------------------------------
(***************************************************************************)
(* Declared teams, statement by statement: SyncTeams, the F2 CreateUser    *)
(* that claims a declared administrator's id, the ordinary CreateUser and  *)
(* the declared arm of CreateEnrolment.  The three that read the           *)
(* administrators run at READ COMMITTED and lock that team's row first; a  *)
(* sync locks the sentinel row before it.  A transaction's writes are kept *)
(* in its slot and reach the tables at the commit.                         *)
(***************************************************************************)
CONSTANTS
    User,         \* the ids of people
    Team,         \* the ids of teams
    Admins,       \* yadgar:team:administrators
    PreMinted,    \* ids an operator minted before install (F2)
    Declaration,  \* bound: the declarations of this instance
    Txn,          \* request slots
    None          \* "no user"

ASSUME AdminsAssumption == Admins \in Team
ASSUME PreMintedAssumption == PreMinted \subseteq User
ASSUME NoneAssumption == None \notin User

VARIABLES
    row,       \* iam_user: "absent", "live" or "deleted" (deleted_at set)
    team,      \* iam_team: "absent", "live" or "archived" (deleted_at set)
    member,    \* iam_team_member: pairs <<team, user>>
    pending,   \* iam_team_member_pending, all of it for Admins
    enrolled,  \* people with an enrolment minted by the declared arm
    last,      \* HISTORY: the last committed declaration, and who existed
    txn

tables == <<row, team, member, pending, enrolled, last>>
vars == <<row, team, member, pending, enrolled, last, txn>>

\* What validate leaves of a request: no team and no member twice.
Declared == UNION {[S -> SUBSET User] : S \in SUBSET Team}

ASSUME DeclarationAssumption == Declaration \subseteq Declared

NoTeams == [a \in {} |-> {}]

SyncPc == {"sentinel", "counted", "written"}
Pc == SyncPc \cup {"idle", "claiming", "enrolling", "done"}
Out == {"none", "OK", "FAILED_PRECONDITION", "PERMISSION_DENIED", "ALREADY_EXISTS"}
Known == {"unread", "Absent", "SoftDeleted", "Live"}

TxnRec == [pc      : Pc,
           user    : User \cup {None},
           decl    : Declared,
           held    : BOOLEAN,          \* the administrators row is locked
           before  : BOOLEAN,          \* live_before > 0
           known   : [User -> Known],
           gone    : SUBSET (Team \X User),
           new     : SUBSET (Team \X User),
           pending : SUBSET User,
           changed : SUBSET User,      \* changed_user_ids
           out     : Out]

Idle == [pc |-> "idle", user |-> None, decl |-> NoTeams, held |-> FALSE,
         before |-> FALSE, known |-> [u \in User |-> "unread"], gone |-> {},
         new |-> {}, pending |-> {}, changed |-> {}, out |-> "none"]

\* The tables and the slots hold what their columns and variables can, and
\* every foreign key of the member and the pending table names a row.
TypeOK ==
    /\ row \in [User -> {"absent", "live", "deleted"}]
    /\ team \in [Team -> {"absent", "live", "archived"}]
    /\ member \subseteq {m \in Team \X User : team[m[1]] # "absent" /\ row[m[2]] # "absent"}
    /\ pending \subseteq User
    /\ pending # {} => team[Admins] # "absent"
    /\ enrolled \subseteq User
    /\ last \in [decl : Declared, exists : SUBSET User]
    /\ txn \in [Txn -> TxnRec]

Init ==
    /\ row = [u \in User |-> "absent"]
    /\ team = [a \in Team |-> "absent"]
    /\ member = {}
    /\ pending = {}
    /\ enrolled = {}
    /\ last = [decl |-> NoTeams, exists |-> {}]
    /\ txn = [t \in Txn |-> Idle]

-----------------------------------------------------------------------------
(* What the statements read.                                               *)

Exists == {u \in User : row[u] # "absent"}
MembersOf(a) == {u \in User : <<a, u>> \in member}

\* live_administrators: live people in the team, if the team is live.
LiveAdmins == {u \in MembersOf(Admins) : team[Admins] = "live" /\ row[u] = "live"}

\* What ResolveCredential reports of a person.
LiveTeams(u) == {a \in Team : team[a] = "live" /\ <<a, u>> \in member}

\* The declared administrators; none when the team is omitted.
Named(D) == IF Admins \in DOMAIN D THEN D[Admins] ELSE {}
MentionedIn(D) == UNION {D[a] : a \in DOMAIN D}

KnownAs(u) == CASE row[u] = "absent" -> "Absent"
                [] row[u] = "deleted" -> "SoftDeleted"
                [] OTHER -> "Live"

\* Mutant: the administrators are read without locking the row.
AdminsUnlocked(t) == txn[t].pc \in Pc

\* lock_administrators gets the row: nobody holds it, nor an uncommitted
\* insert of it.  An absent row locks nothing.
AdminsFree(t) == \A o \in Txn \ {t} : ~txn[o].held

\* Mutant: a member row is inserted without its foreign key's share lock, and
\* the declared arm reads its target without LOCK IN SHARE MODE.
SharesNobody(t, u) == txn[t].pc = "enrolling" /\ u = None

\* The user rows a transaction has share-locked: the foreign key of each
\* member row it inserts, or the declared arm's target.
SharesUser(t, u) == \/ txn[t].pc = "written" /\ \E a \in Team : <<a, u>> \in txn[t].new
                    \/ txn[t].pc = "enrolling" /\ txn[t].user = u

Goto(t, r) == txn' = [txn EXCEPT ![t] = r]
Answer(t, out) == Goto(t, [Idle EXCEPT !.pc = "done", !.out = out])

-----------------------------------------------------------------------------
(* SyncTeams.                                                              *)

\* The sentinel row, FOR UPDATE.  An operator names ids that were answered to
\* them or that they minted themselves.
SyncBegin(t, D) ==
    /\ txn[t].pc = "idle"
    /\ MentionedIn(D) \subseteq Exists \cup PreMinted
    /\ \A o \in Txn : txn[o].pc \notin SyncPc
    /\ Goto(t, [Idle EXCEPT !.pc = "sentinel", !.decl = D])
    /\ UNCHANGED tables

\* The administrators row, and live_before under it.
SyncCount(t) ==
    /\ txn[t].pc = "sentinel"
    /\ AdminsFree(t)
    /\ Goto(t, [txn[t] EXCEPT !.pc = "counted",
                              !.held = team[Admins] # "absent",
                              !.before = LiveAdmins # {}])
    /\ UNCHANGED tables

\* known_users: one plain read each.
SyncKnow(t, u) ==
    /\ txn[t].pc = "counted"
    /\ u \in MentionedIn(txn[t].decl)
    /\ txn[t].known[u] = "unread"
    /\ Goto(t, [txn[t] EXCEPT !.known[u] = KnownAs(u)])
    /\ UNCHANGED tables

\* live_after, by what known_users saw.
LiveAfter(t) == {u \in Named(txn[t].decl) : txn[t].known[u] = "Live"}

\* Mutant: the guard counts declared members, live or not.
LockedOutByCount(t) == txn[t].before /\ Named(txn[t].decl) = {}

\* THE LOCKOUT GUARD.
LockedOut(t) == txn[t].before /\ LiveAfter(t) = {}

\* The pending set, only while no administrator is live after this sync.
PendingOf(t) == IF LiveAfter(t) # {} THEN {}
                ELSE {u \in Named(txn[t].decl) : txn[t].known[u] = "Absent"}

\* write_members' desired set: the declared members with a user row.
Desired(t, a) == {u \in txn[t].decl[a] : txn[t].known[u] # "Absent"}

Archived(t) == {a \in Team : team[a] = "live" /\ a \notin DOMAIN txn[t].decl}
Reactivated(t) == {a \in DOMAIN txn[t].decl : team[a] = "archived"}

\* Member rows of declared teams that are deleted, and inserted.
Gone(t) == {m \in member : m[1] \in DOMAIN txn[t].decl /\ m[2] \notin Desired(t, m[1])}
New(t) == UNION {{a} \X (Desired(t, a) \ MembersOf(a)) : a \in DOMAIN txn[t].decl}

\* Mutant: the members of an archived team are not reported.
ChangedOfDeclared(t) ==
    (UNION {Desired(t, a) : a \in Reactivated(t)}) \cup {m[2] : m \in Gone(t) \cup New(t)}

\* Mutant: every member of every declared team is reported.
ChangedAll(t) ==
    (UNION {Desired(t, a) : a \in DOMAIN txn[t].decl}) \cup {m[2] : m \in Gone(t)}
        \cup (UNION {MembersOf(a) : a \in Archived(t)})

\* changed_user_ids: every member of an archived and of a reactivated team,
\* and every member removed or added.
Changed(t) ==
    (UNION {MembersOf(a) : a \in Archived(t)}) \cup (UNION {Desired(t, a) : a \in Reactivated(t)})
        \cup {m[2] : m \in Gone(t) \cup New(t)}

\* The guard, then write_teams, write_members and replace_pending.
SyncWrite(t) ==
    /\ txn[t].pc = "counted"
    /\ \A u \in MentionedIn(txn[t].decl) : txn[t].known[u] # "unread"
    /\ \/ LockedOut(t) /\ Answer(t, "FAILED_PRECONDITION")
       \/ /\ ~LockedOut(t)
          /\ Goto(t, [txn[t] EXCEPT !.pc = "written",
                                    !.held = @ \/ Admins \in DOMAIN txn[t].decl,
                                    !.gone = Gone(t), !.new = New(t),
                                    !.pending = PendingOf(t),
                                    !.changed = Changed(t)])
    /\ UNCHANGED tables

\* Mutant: write_members only adds.
MembersKept(t) == member \cup txn[t].new

\* The member rows once the sync's DELETEs and INSERTs are in force.
MembersWritten(t) == (member \ txn[t].gone) \cup txn[t].new

SyncCommit(t) ==
    /\ txn[t].pc = "written"
    /\ team' = [a \in Team |-> IF a \in DOMAIN txn[t].decl THEN "live"
                               ELSE IF team[a] = "live" THEN "archived" ELSE team[a]]
    /\ member' = MembersWritten(t)
    /\ pending' = txn[t].pending
    /\ last' = [decl |-> txn[t].decl, exists |-> Exists]
    /\ Goto(t, [Idle EXCEPT !.pc = "done", !.out = "OK", !.changed = txn[t].changed])
    /\ UNCHANGED <<row, enrolled>>

-----------------------------------------------------------------------------
(* CreateUser: the F2 arm and the ordinary one.                            *)

\* bootstrap.rs predicate, under the lock on the administrators row.
ClaimAnswer(u) ==
    IF team[Admins] # "live" \/ LiveAdmins # {} THEN "PERMISSION_DENIED"
    ELSE IF row[u] # "absent" THEN "ALREADY_EXISTS"
    ELSE IF u \notin pending THEN "PERMISSION_DENIED"
    ELSE "OK"

ClaimBegin(t, u) ==
    /\ txn[t].pc = "idle"
    /\ AdminsFree(t)
    /\ \/ /\ ClaimAnswer(u) = "OK"
          /\ Goto(t, [Idle EXCEPT !.pc = "claiming", !.user = u, !.held = TRUE])
       \/ ClaimAnswer(u) # "OK" /\ Answer(t, ClaimAnswer(u))
    /\ UNCHANGED tables

\* Mutant: the claim deletes its own pending row only.
PendingLessOne(u) == pending \ {u}

\* DELETE FROM iam_team_member_pending WHERE team_id = administrators.
PendingAfterClaim(u) == {}

\* The user, its member row, the pending rows; or another user has the
\* external id.
ClaimCommit(t) ==
    /\ txn[t].pc = "claiming"
    /\ \/ /\ row' = [row EXCEPT ![txn[t].user] = "live"]
          /\ member' = member \cup {<<Admins, txn[t].user>>}
          /\ pending' = PendingAfterClaim(txn[t].user)
          /\ Answer(t, "OK")
       \/ /\ Answer(t, "ALREADY_EXISTS")
          /\ UNCHANGED <<row, member, pending>>
    /\ UNCHANGED <<team, enrolled, last>>

\* The ordinary arm: one autocommit INSERT with a minted id.
NewUser(u) ==
    /\ u \notin PreMinted
    /\ row[u] = "absent"
    /\ row' = [row EXCEPT ![u] = "live"]
    /\ UNCHANGED <<team, member, pending, enrolled, last, txn>>

\* External: an operator sets deleted_at.
Withdraw(u) ==
    /\ row[u] = "live"
    /\ \A t \in Txn : ~SharesUser(t, u)
    /\ row' = [row EXCEPT ![u] = "deleted"]
    /\ UNCHANGED <<team, member, pending, enrolled, last, txn>>

-----------------------------------------------------------------------------
(* CreateEnrolment with the demand and admin_from_team: the declared arm.  *)

\* declared.rs predicate; is_admin and the credentials are not conditions.
Enrollable(u) == team[Admins] = "live" /\ row[u] = "live" /\ u \in MembersOf(Admins)

EnrolBegin(t, u) ==
    /\ txn[t].pc = "idle"
    /\ AdminsFree(t)
    /\ \/ Enrollable(u) /\ Goto(t, [Idle EXCEPT !.pc = "enrolling", !.user = u, !.held = TRUE])
       \/ ~Enrollable(u) /\ Answer(t, "PERMISSION_DENIED")
    /\ UNCHANGED tables

\* The insert and the commit, or a secret hash that is in use.
EnrolCommit(t) ==
    /\ txn[t].pc = "enrolling"
    /\ \/ enrolled' = enrolled \cup {txn[t].user} /\ Answer(t, "OK")
       \/ Answer(t, "ALREADY_EXISTS") /\ UNCHANGED enrolled
    /\ UNCHANGED <<row, team, member, pending, last>>

\* AddTeamMember and RemoveTeamMember: teams are declared.
Retired(t) ==
    /\ txn[t].pc = "idle"
    /\ Answer(t, "FAILED_PRECONDITION")
    /\ UNCHANGED tables

\* The answer is read; or the call is cancelled, its process dies or a
\* statement fails, and the transaction rolls back.
Drop(t) == txn[t].pc # "idle" /\ Goto(t, Idle) /\ UNCHANGED tables

Step(t) == \/ SyncCount(t) \/ SyncWrite(t) \/ SyncCommit(t)
           \/ ClaimCommit(t) \/ EnrolCommit(t)
           \/ \E u \in User : SyncKnow(t, u)

Begin(t) == \/ Retired(t)
            \/ \E D \in Declaration : SyncBegin(t, D)
            \/ \E u \in User : ClaimBegin(t, u) \/ EnrolBegin(t, u)

Next == \/ \E t \in Txn : Begin(t) \/ Step(t) \/ Drop(t)
        \/ \E u \in User : NewUser(u) \/ Withdraw(u)

Spec == Init /\ [][Next]_vars

-----------------------------------------------------------------------------
(* Properties.                                                             *)

\* ADR-0963 (6): no call leaves an installation that has a live administrator
\* without one.  The one exception is somebody withdrawn: in this step, or
\* since the sync that is committing saw them live.  Without the lock on the
\* administrators row a sync planned before the bootstrap would undo it.
NoLockout ==
    [][(LiveAdmins # {} /\ LiveAdmins' = {}) =>
          \E u \in User :
             /\ row'[u] = "deleted"
             /\ \/ row[u] = "live"
                \/ \E t \in Txn : /\ txn[t].pc = "written"
                                  /\ u \in LiveAfter(t)]_vars

\* A declared id is claimed only while nobody live administers, and only if
\* the last committed declaration names it: of two bootstraps in flight, or a
\* bootstrap and a sync, one loses.
ClaimOnlyWhenNone ==
    [][\A u \in PreMinted :
          (row[u] = "absent" /\ row'[u] = "live") =>
             LiveAdmins = {} /\ u \in Named(last.decl)]_vars

\* A pending row stands for an id that can still be claimed: while there is
\* one, nobody live administers and the id has no user row.
PendingMeansNone ==
    pending # {} => LiveAdmins = {} /\ pending \cap Exists = {}

\* The tables are sound in every state: TypeOK with its foreign keys, which a
\* sync that stored a declared id without a row would break, and
\* PendingMeansNone.
TeamsInv == TypeOK /\ PendingMeansNone

\* changed_user_ids misses nobody: whoever's live team set a committing sync
\* changes is in its answer, or iam would serve their cached teams on.
ChangedMissesNobody ==
    [][\A t \in Txn : \A u \in User :
          (txn[t].pc = "written" /\ txn'[t].out = "OK" /\ LiveTeams(u)' # LiveTeams(u))
             => u \in txn'[t].changed]_vars

\* sync.rs: "the same declaration twice changes nothing the second time",
\* unless somebody it names came to exist in between.
Converges ==
    [][\A t \in Txn :
          (/\ txn[t].pc = "written" /\ txn'[t].out = "OK"
           /\ txn[t].decl = last.decl
           /\ MentionedIn(last.decl) \cap Exists \subseteq last.exists)
             => /\ txn'[t].changed = {}
                /\ team' = team
                /\ \A u \in User : LiveTeams(u)' = LiveTeams(u)]_vars

\* The declared arm mints only for somebody who is a live administrator when
\* the enrolment appears, though its predicate ran statements earlier.
EnrolsAdministratorsOnly ==
    [][\A u \in User : u \in enrolled' \ enrolled => u \in LiveAdmins]_vars

\* Every statement-level behaviour is one of the declarations and claims that
\* TeamsAtomic allows, seen through the live team sets.
Promise == INSTANCE TeamsAtomic WITH
              person <- row,
              grants <- [u \in User |-> LiveTeams(u)],
              claimable <- pending
ImplementsPromise == Promise!AtomicSpec
=============================================================================
