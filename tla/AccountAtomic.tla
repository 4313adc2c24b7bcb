--------------------------- MODULE AccountAtomic ---------------------------
(***************************************************************************)
(* What the account RPCs promise: "one call, one transaction".  Every call *)
(* takes effect in one step, on the rows as they are at that step.  No     *)
(* statement order, lock or isolation level appears here; Account has them *)
(* and implements this specification.                                      *)
(***************************************************************************)
EXTENDS AccountStore

\* CreateEnrolment, with each arm's predicate true of the rows it is
\* inserted beside.
Enrol(s, u, demand, revoking) ==
    /\ enr[s].user = None
    /\ row[u] = "live"
    /\ demand => ZeroCredentialAdmin(u) /\ ~revoking
    /\ enr' = [enr EXCEPT ![s] = [NoEnr EXCEPT !.user = u, !.at = epoch[u],
                                               !.demand = demand,
                                               !.revoking = revoking]]
    /\ UNCHANGED <<row, admin, epoch, pw, cred, ledger, cutoff>>

\* RedeemEnrolment: spend, bump, revoke and void, password, ledger row.
\* Expiry is judged by the clock when the spend runs, so it is not a
\* condition on the rows at the commit.
Redeem(s, k) ==
    LET u == enr[s].user
        all == enr[s].revoking
    IN  /\ Unspent(s)
        /\ KeyFree(k)
        /\ epoch' = [epoch EXCEPT ![u] = @ + 1]
        /\ pw' = [pw EXCEPT ![u] = @ + 1]
        /\ cred' = IF all THEN Revoked(LiveCreds(u)) ELSE cred
        /\ enr' = [Voided(IF all THEN OpenEnrs(u) \ {s} ELSE {})
                      EXCEPT ![s] = [@ EXCEPT !.spent = TRUE]]
        /\ cutoff' = IF all THEN [cutoff EXCEPT ![u] = epoch[u] + 1] ELSE cutoff
        /\ ledger' = IF k = None THEN ledger
                     ELSE [ledger EXCEPT ![k] = [secret |-> s, user |-> u,
                                                 epoch |-> epoch[u] + 1,
                                                 pw |-> pw[u] + 1]]
        /\ UNCHANGED <<row, admin>>

\* CreateCredential: only for somebody who proved who they are in the
\* current epoch.
Mint(c, u) ==
    /\ cred[c].user = None
    /\ row[u] = "live"
    /\ cred' = [cred EXCEPT ![c] = [user |-> u, revoked |-> FALSE,
                                    auth |-> epoch[u]]]
    /\ UNCHANGED <<row, admin, epoch, pw, enr, ledger, cutoff>>

\* RevokeAllCredentials, for a live or a soft-deleted person.
RevokeAll(u) ==
    /\ row[u] # "absent"
    /\ epoch' = [epoch EXCEPT ![u] = @ + 1]
    /\ cred' = Revoked(LiveCreds(u))
    /\ enr' = Voided(OpenEnrs(u))
    /\ cutoff' = [cutoff EXCEPT ![u] = epoch[u] + 1]
    /\ UNCHANGED <<row, admin, pw, ledger>>

\* SetPassword: the bump and the hash together.
SetPassword(u) ==
    /\ row[u] = "live"
    /\ epoch' = [epoch EXCEPT ![u] = @ + 1]
    /\ pw' = [pw EXCEPT ![u] = @ + 1]
    /\ UNCHANGED <<row, admin, enr, cred, ledger, cutoff>>

AtomicNext ==
    \/ \E u \in User : \/ \E b \in BOOLEAN : CreateUser(u, b) \/ SetUserAdmin(u, b)
                       \/ SoftDelete(u) \/ RevokeAll(u) \/ SetPassword(u)
                       \/ \E c \in Cred : Mint(c, u) \/ RevokeCredential(c, u)
                       \/ \E s \in Secret, d, r \in BOOLEAN : Enrol(s, u, d, r)
    \/ \E s \in Secret : Expire(s) \/ \E k \in Key \cup {None} : Redeem(s, k)

AtomicSpec == StoreInit /\ [][AtomicNext]_store
=============================================================================
