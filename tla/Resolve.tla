------------------------------ MODULE Resolve ------------------------------
(***************************************************************************)
(* ResolveCredential and ListCredentials over the connections of ConnPool, *)
(* while other calls write what they read.  ResolveCredential runs five    *)
(* statements in one transaction at the session's level, which is          *)
(* REPEATABLE READ: the first fixes the snapshot the others read.  On a    *)
(* connection that carries a pending READ COMMITTED each would read what is*)
(* committed by then.  The writers are the RPCs that change one person's   *)
(* answer, each as the one commit it makes (their own interleavings are in *)
(* Account, Teams and InheritedSetting), over the same connections.        *)
(*                                                                         *)
(* Time is left to Serving: here a call ends, fails or is dropped.         *)
(***************************************************************************)
EXTENDS ConnPool, Sequences, FiniteSets

CONSTANTS
    Reader, Writer,   \* bound: the slots that read and those that write
    Cred,             \* the person's credential ids, in the column's order
    Write,            \* bound: the writes of this instance
    PageSize,         \* of ListCredentials
    MaxCommits        \* bound: how often the store changes

ASSUME CredAssumption == /\ Cred \subseteq Nat \ {0} /\ IsFiniteSet(Cred)
                         /\ PageSize \in Nat \ {0} /\ MaxCommits \in Nat
ASSUME RoleAssumption == Reader \subseteq Req /\ Writer \subseteq Req

\* A write is a pair of its RPC and its value.
NeedsLive == {"SetUserAdmin", "SetRateLimitOverride", "CreateCredential"}
Rpcs == NeedsLive \cup {"ClearRateLimitOverride", "RevokeCredential", "SyncTeams",
                        "SetOrg", "SetTeamOverride"}

ASSUME WriteAssumption ==
    \A w \in Write :
       /\ w[1] \in Rpcs
       /\ w[1] = "SetUserAdmin" => w[2] \in BOOLEAN
       /\ w[1] \in {"CreateCredential", "RevokeCredential"} => w[2] \in Cred
       /\ w[1] = "SyncTeams" => w[2] \subseteq {"administrators", "other"}
       /\ w[1] = "SetOrg" => w[2] \in {"on", "off"}
       /\ w[1] = "SetTeamOverride" => w[2] \in {None, "on", "off"}

VARIABLES
    hist,   \* the committed states of the store, the latest last
    call,   \* what the call of a slot is doing
    walk    \* a client's walk through ListCredentials

vars == <<connVars, hist, call, walk>>

\* What the store says of the person, and the setting every answer carries.
Store == [deleted : BOOLEAN, cred : [Cred -> {"none", "live", "ended"}], admin : BOOLEAN,
          teams : SUBSET {"administrators", "other"}, limit : {None, "set"},
          org : {"on", "off"}, over : {None, "on", "off"}]
Now == hist[Len(hist)]

Blank == [admin |-> FALSE, teams |-> {}, limit |-> None, org |-> "unset", over |-> None]
Nobody == [Blank EXCEPT !.org = "nobody"]

Reads == 5
CallRec == [op : {"none", "Resolve", "List", "Write"}, write : Write \cup {None},
            cred : Cred \cup {None}, fromTeam : BOOLEAN,
            at : 0..(Reads + 1),    \* the next statement
            from : Nat,             \* the commit the first statement saw
            part : [admin : BOOLEAN, teams : SUBSET {"administrators", "other"},
                    limit : {None, "set"}, org : {"unset", "on", "off", "nobody"},
                    over : {None, "on", "off"}]]
NoCall == [op |-> "none", write |-> None, cred |-> None, fromTeam |-> FALSE,
           at |-> 0, from |-> 0, part |-> Blank]

WalkRec == [pc : {"idle", "open", "ended"}, after : Cred \cup {0},
            from : Nat, upto : Nat, times : [Cred -> Nat]]

TypeOK == /\ ConnTypeOK
          /\ hist \in Seq(Store)
          /\ call \in [Req -> CallRec]
          /\ walk \in WalkRec

Init == /\ ConnInit
        /\ hist = << [deleted |-> FALSE, admin |-> TRUE, teams |-> {"administrators"},
                      cred |-> [k \in Cred |-> IF k = 2 THEN "none" ELSE "live"],
                      limit |-> None, org |-> "off", over |-> None] >>
        /\ call = [r \in Req |-> NoCall]
        /\ walk = [pc |-> "idle", after |-> 0, from |-> 0, upto |-> 0,
                   times |-> [k \in Cred |-> 0]]

Working(r) == req[r].pc = "working"
End(r) == call' = [call EXCEPT ![r] = NoCall]

-----------------------------------------------------------------------------
(* ResolveCredential.                                                      *)

Resolves(s, k) == ~s.deleted /\ s.cred[k] = "live"

\* teams_and_admin.
IsAdmin(fromTeam, teams, column) == IF fromTeam THEN "administrators" \in teams ELSE column

\* The answer one state of the store gives.
AnswerOf(s, k, fromTeam) ==
    IF ~Resolves(s, k) THEN Nobody
    ELSE [admin |-> IsAdmin(fromTeam, s.teams, s.admin), teams |-> s.teams,
          limit |-> s.limit, org |-> s.org, over |-> s.over]

\* The transaction each call asks for.
AsksOf(op) == CASE op = "Resolve" -> "default"
                [] op \in {"List", "plain"} -> "plain"
                [] OTHER -> "rc"

StartResolve(r, k, fromTeam) ==
    /\ r \in Reader
    /\ Arrive(r, "iam-caller", AsksOf("Resolve"), None)
    /\ call' = [call EXCEPT ![r] = [NoCall EXCEPT !.op = "Resolve", !.cred = k,
                                                  !.fromTeam = fromTeam, !.at = 1]]
    /\ UNCHANGED <<hist, walk>>

\* What a statement reads: the snapshot of the first, or what is committed.
View(r, first) == IF conn[req[r].on].tx = "default" THEN hist[first] ELSE Now

\* What the next statement adds to the answer: the row, the teams, the limit,
\* the organisation's setting, the override.
PartAfter(x, s) ==
    LET p == x.part IN
    CASE x.at = 1 -> [p EXCEPT !.admin = s.admin]
      [] x.at = 2 -> [p EXCEPT !.teams = s.teams,
                               !.admin = IsAdmin(x.fromTeam, s.teams, p.admin)]
      [] x.at = 3 -> [p EXCEPT !.limit = s.limit]
      [] x.at = 4 -> [p EXCEPT !.org = s.org]
      [] x.at = 5 -> [p EXCEPT !.over = s.over]

\* The next statement.  The first finds the live row or ends the call.
ReadNext(r) ==
    LET x == call[r]
        first == IF x.at = 1 THEN Len(hist) ELSE x.from
        s == View(r, first)
    IN  /\ Working(r) /\ x.op = "Resolve" /\ x.at \in 1..Reads
        /\ call' = [call EXCEPT ![r] =
              IF x.at = 1 /\ ~Resolves(s, x.cred)
              THEN [x EXCEPT !.at = Reads + 1, !.from = first, !.part = Nobody]
              ELSE [x EXCEPT !.at = x.at + 1, !.from = first, !.part = PartAfter(x, s)]]
        /\ UNCHANGED <<connVars, hist, walk>>

Answer(r) == /\ call[r].op = "Resolve" /\ call[r].at = Reads + 1
             /\ Finish(r, "OK") /\ End(r) /\ UNCHANGED <<hist, walk>>

-----------------------------------------------------------------------------
(* ListCredentials, a page to a call.                                      *)

Listed(s) == IF s.deleted THEN {} ELSE {k \in Cred : s.cred[k] = "live"}

FirstOf(n, S) == {k \in S : Cardinality({j \in S : j < k}) < n}

\* Mutant: OFFSET, by how many rows were listed.
PageByOffset(s) ==
    LET n == Cardinality({k \in Cred : walk.times[k] > 0})
    IN  FirstOf(n + PageSize, Listed(s)) \ FirstOf(n, Listed(s))

\* c.id > page_token ORDER BY c.id LIMIT page_size.
Page(s) == FirstOf(PageSize, {k \in Listed(s) : k > walk.after})

\* The client asks for a page when it has the token of the one before.
StartList(r) ==
    /\ r \in Reader /\ walk.pc # "ended" /\ \A o \in Req : call[o].op # "List"
    /\ Arrive(r, "iam-caller", AsksOf("List"), None)
    /\ call' = [call EXCEPT ![r] = [NoCall EXCEPT !.op = "List"]]
    /\ UNCHANGED <<hist, walk>>

\* A token only when the page filled.
ListPage(r) ==
    LET page == Page(Now)
        full == Cardinality(page) = PageSize
    IN  /\ Working(r) /\ call[r].op = "List"
        /\ walk' = [pc    |-> IF full THEN "open" ELSE "ended",
                    after |-> IF full THEN CHOOSE k \in page : \A j \in page : j <= k ELSE 0,
                    from  |-> IF walk.pc = "idle" THEN Len(hist) ELSE walk.from,
                    upto  |-> IF full THEN 0 ELSE Len(hist),
                    times |-> [k \in Cred |-> walk.times[k] + IF k \in page THEN 1 ELSE 0]]
        /\ Finish(r, "OK") /\ End(r) /\ UNCHANGED hist

-----------------------------------------------------------------------------
(* The writers.                                                            *)

\* Mutant: the liveness of the person is not part of the SET arm's statement.
AppliesUnguarded(w, s) == w[1] = "SetRateLimitOverride" \/ w[1] \notin NeedsLive \/ ~s.deleted

\* The predicate in each statement.
Applies(w, s) == w[1] \notin NeedsLive \/ ~s.deleted

\* Clearing a limit deletes its row.
Cleared == None

\* What the statements of each write store.
Apply(w, s) ==
    IF ~Applies(w, s) THEN s
    ELSE CASE w[1] = "SetUserAdmin"           -> [s EXCEPT !.admin = w[2]]
           [] w[1] = "SetRateLimitOverride"   -> [s EXCEPT !.limit = "set"]
           [] w[1] = "ClearRateLimitOverride" -> [s EXCEPT !.limit = Cleared]
           [] w[1] = "CreateCredential"       -> [s EXCEPT !.cred[w[2]] =
                                                    IF @ = "none" THEN "live" ELSE @]
           [] w[1] = "RevokeCredential"       -> [s EXCEPT !.cred[w[2]] =
                                                    IF @ = "live" THEN "ended" ELSE @]
           [] w[1] = "SyncTeams"              -> [s EXCEPT !.teams = w[2]]
           [] w[1] = "SetOrg"                 -> [s EXCEPT !.org = w[2]]
           [] w[1] = "SetTeamOverride"        -> [s EXCEPT !.over = w[2]]

AsksToWrite(w) == AsksOf(IF w[1] \in {"SyncTeams", "SetOrg", "SetTeamOverride"}
                         THEN "transaction" ELSE "plain")

StartWrite(r, w) ==
    /\ r \in Writer
    /\ Arrive(r, "iam-caller", AsksToWrite(w), None)
    /\ call' = [call EXCEPT ![r] = [NoCall EXCEPT !.op = "Write", !.write = w]]
    /\ UNCHANGED <<hist, walk>>

\* Clearing an override is two statements: live_user, and then the DELETE.
Checks(r) == call[r].write[1] = "ClearRateLimitOverride" /\ call[r].at = 0

CheckLive(r) ==
    /\ Working(r) /\ call[r].op = "Write" /\ Checks(r)
    /\ \/ Now.deleted /\ Finish(r, "FAILED") /\ End(r)
       \/ ~Now.deleted /\ call' = [call EXCEPT ![r].at = 1] /\ UNCHANGED connVars
    /\ UNCHANGED <<hist, walk>>

Commit(s) == hist' = IF s = Now THEN hist ELSE Append(hist, s)

\* A write lands and is answered, or its answer is lost with its call.
Land(r) ==
    /\ Working(r) /\ call[r].op = "Write" /\ ~Checks(r)
    /\ Len(hist) <= MaxCommits
    /\ Commit(Apply(call[r].write, Now))
    /\ Finish(r, IF Applies(call[r].write, Now) THEN "OK" ELSE "FAILED") \/ Cut(r)
    /\ End(r) /\ UNCHANGED walk

\* Nothing in the repository soft-deletes a person; an operator does.
SoftDelete == /\ Len(hist) <= MaxCommits /\ ~Now.deleted
              /\ Commit([Now EXCEPT !.deleted = TRUE])
              /\ UNCHANGED <<connVars, call, walk>>

-----------------------------------------------------------------------------
\* A call fails half-way, or is dropped wherever it is.
Fail(r) == /\ call[r].op # "none"
           /\ Finish(r, "FAILED") \/ BeginFails(r) \/ AcquireFails(r) \/ HangUp(r)
           /\ End(r) /\ UNCHANGED <<hist, walk>>

Connect(r) == /\ (\E c \in Conn : Acquire(r, c)) \/ Set(r) \/ Begin(r)
              /\ UNCHANGED <<hist, call, walk>>

Next == \/ SoftDelete
        \/ \E r \in Req :
              \/ \E k \in Cred, fromTeam \in BOOLEAN : StartResolve(r, k, fromTeam)
              \/ \E w \in Write : StartWrite(r, w)
              \/ StartList(r) \/ Connect(r) \/ ReadNext(r) \/ Answer(r) \/ ListPage(r)
              \/ CheckLive(r) \/ Land(r) \/ Fail(r)

Spec == Init /\ [][Next]_vars

-----------------------------------------------------------------------------
(* Properties.                                                             *)

\* credential.rs: the admin flag, the overrides and the setting "are read in
\* the SAME transaction as the credential".  The answer is the one some single
\* committed state of the store gives, current when the call read its row or
\* later; what it says of teams, limits and setting belongs together.
OnePointInTime ==
    \A r \in Req : (call[r].op = "Resolve" /\ call[r].at = Reads + 1) =>
       \E i \in call[r].from..Len(hist) :
          call[r].part = AnswerOf(hist[i], call[r].cred, call[r].fromTeam)

\* Types, and answers of one point in time on every connection that calls were
\* dropped on.
ResolveInv == TypeOK /\ OnePointInTime

\* credential.rs: a change between two pages cannot "make a row appear twice or
\* not at all".  A walk lists a credential that was live all the while once,
\* and none more than once.
ListingIsExact ==
    /\ \A k \in Cred : walk.times[k] <= 1
    /\ walk.pc = "ended" =>
          \A k \in Cred : (\A i \in walk.from..walk.upto : k \in Listed(hist[i]))
                             => walk.times[k] = 1

\* policy.rs: no limit is stored for a person soft-deleted meanwhile; the
\* "residual race" of the clearing arm only ever removes one.
LimitsOfTheDeletedOnlyGo ==
    [][Len(hist') > Len(hist) /\ Now.deleted => Now'.limit \in {Now.limit, None}]_vars
=============================================================================
