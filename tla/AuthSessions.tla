----------------------------- MODULE AuthSessions -----------------------------
(***************************************************************************)
(* Login sessions of the API and the UI: the rows of auth_sessions, the    *)
(* column users.token_version, and the JWTs that refer to both.            *)
(*                                                                         *)
(* A token is good as long as three things it does not contain agree with  *)
(* it: the account is active and has the token's version, the session is   *)
(* neither revoked nor expired, and, for a refresh, the session's          *)
(* refresh_jti is the token's.  Each handler reads them in separate        *)
(* statements and writes in a later one; other requests run in between.    *)
(*                                                                         *)
(* Left out: who may administer accounts, last_seen_at, ip and user agent, *)
(* the audit log, and the expiry of the JWTs themselves, which only makes  *)
(* a token useless earlier.                                                *)
(***************************************************************************)
EXTENDS Integers, FiniteSets

CONSTANTS
  Users,      \* accounts
  Sids,       \* session_uuid values
  Jtis,       \* refresh_jti values
  NoJti,      \* of a token that comes without a refresh token
  NoSid,
  NoUser,
  Clients,    \* requests the API serves at the same time
  Ops,        \* the operations in use
  Overlap,    \* subset of {"refresh", "version"}: may two refreshes of one session,
              \* two writers of one token_version run at once? (the code: both)
  MayCrash,   \* may a request die half way?
  MaxCuts     \* bound: password changes and revoke-alls of an account

AllOps == {"login", "ui_login", "refresh", "logout", "use", "revoke_all", "revoke_others",
           "revoke_single", "password", "put_password", "toggle", "put_active"}

ASSUME SentinelAssumption == NoJti \notin Jtis /\ NoSid \notin Sids /\ NoUser \notin Users
ASSUME SwitchAssumption == /\ Ops \subseteq AllOps /\ MayCrash \in BOOLEAN
                           /\ Overlap \subseteq {"refresh", "version"} /\ MaxCuts \in Nat

Account == [ver : Nat, active : BOOLEAN, cuts : Nat]
Session == [user : Users \cup {NoUser}, jti : Jtis \cup {NoJti},
            revoked : BOOLEAN, expired : BOOLEAN, since : Nat]
NoSession == [user |-> NoUser, jti |-> NoJti, revoked |-> FALSE, expired |-> FALSE, since |-> 0]
Token == [sid : Sids, ver : Nat, jti : Jtis \cup {NoJti}]
NoToken == [sid |-> NoSid, ver |-> 0, jti |-> NoJti]

PC == {"idle", "issue", "session", "rotate", "revoke", "target", "flush", "bulk", "commit"}

\* What a request holds between two statements: the account as it loaded it
\* (ver, since), the token presented, the session row it is going to write
\* (sid) and the rows its bulk UPDATE has found.
Request == [op : AllOps \cup {"none", "activate", "deactivate", "put_inactive"}, pc : PC,
            user : Users \cup {NoUser}, ver : Nat, since : Nat,
            tok : Token \cup {NoToken}, sid : Sids \cup {NoSid}, rows : SUBSET Sids]
Idle == [op |-> "none", pc |-> "idle", user |-> NoUser, ver |-> 0, since |-> 0,
         tok |-> NoToken, sid |-> NoSid, rows |-> {}]

VARIABLES
  account,   \* [Users -> Account]; cuts is a history: how many password changes
             \* and revoke-alls of the account have been committed
  sess,      \* auth_sessions: [Sids -> Session], NoSession before the INSERT; since is
             \* a history: cuts of the account when the login read it
  tokens,    \* tokens handed out; each may be presented again and again
  redeemed,  \* history: how many refreshes with this jti succeeded
  req        \* [Clients -> Request]

vars == <<account, sess, tokens, redeemed, req>>

TypeOK ==
  /\ account \in [Users -> Account]
  /\ sess \in [Sids -> Session]
  /\ tokens \subseteq Token
  /\ redeemed \in [Jtis -> Nat]
  /\ req \in [Clients -> Request]

Init ==
  /\ account = [u \in Users |-> [ver |-> 0, active |-> TRUE, cuts |-> 0]]
  /\ sess = [x \in Sids |-> NoSession]
  /\ tokens = {}
  /\ redeemed = [j \in Jtis |-> 0]
  /\ req = [s \in Clients |-> Idle]

Live(x) == sess[x].user # NoUser
SessionsOf(u) == {x \in Sids : Live(x) /\ sess[x].user = u}
FreshJtis == {j \in Jtis : \A x \in Sids : Live(x) => sess[x].jti # j}
                \cap {j \in Jtis : \A t \in tokens : t.jti # j}

\* What a request must find when it presents t.
AccountAdmits(t) == LET a == account[sess[t.sid].user] IN a.active /\ a.ver = t.ver
SessionAdmits(x) == ~sess[x].revoked /\ ~sess[x].expired

-----------------------------------------------------------------------------
(***************************************************************************)
(* Login.  The password is checked against the account as it was read; the *)
(* session is inserted later, and the token carries the version read.      *)
(***************************************************************************)
Start(s, r) ==
  /\ req[s].pc = "idle"
  /\ req' = [req EXCEPT ![s] = r]
  /\ UNCHANGED <<account, sess, tokens, redeemed>>

Login(s, u) ==
  \E op \in {"login", "ui_login"} \cap Ops :
    /\ account[u].active
    /\ Start(s, [Idle EXCEPT !.op = op, !.pc = "issue", !.user = u,
                             !.ver = account[u].ver, !.since = account[u].cuts])

IssuedVersionNow(s) == account[req[s].user].ver   \* mutant: read at the commit
IssuedVersion(s) == req[s].ver

\* The answer may be lost on its way to the client.
HandOut(t) == tokens' \in {tokens, tokens \cup {t}}

IssueTokens(s) ==
  /\ req[s].pc = "issue"
  /\ \E x \in Sids, j \in FreshJtis :
       /\ ~Live(x)
       /\ sess' = [sess EXCEPT ![x] = [user |-> req[s].user, jti |-> j, revoked |-> FALSE,
                                       expired |-> FALSE, since |-> req[s].since]]
       /\ HandOut([sid |-> x, ver |-> IssuedVersion(s),
                   jti |-> IF req[s].op = "login" THEN j ELSE NoJti])
  /\ req' = [req EXCEPT ![s] = Idle]
  /\ UNCHANGED <<account, redeemed>>

\* The model has no session or jti left.
IssueFails(s) ==
  /\ req[s].pc = "issue"
  /\ FreshJtis = {} \/ \A x \in Sids : Live(x)
  /\ req' = [req EXCEPT ![s] = Idle]
  /\ UNCHANGED <<account, sess, tokens, redeemed>>

-----------------------------------------------------------------------------
(***************************************************************************)
(* Requests that present a token: first the account is read, then the      *)
(* session.  A check that fails answers 401 or 403 and changes nothing.    *)
(***************************************************************************)
VersionOps == {"revoke_all", "password", "put_password"}

\* With "version" outside Overlap the environment serialises the requests that
\* write token_version of an account.
MayBump(s, u) ==
  /\ account[u].cuts
       + Cardinality({t \in Clients : req[t].user = u /\ req[t].op \in VersionOps}) < MaxCuts
  /\ \/ "version" \in Overlap
     \/ \A t \in Clients \ {s} : ~(req[t].user = u /\ req[t].op \in VersionOps)

MayRefresh(s, x) ==
  \/ "refresh" \in Overlap
  \/ \A t \in Clients \ {s} : ~(req[t].op = "refresh" /\ req[t].tok.sid = x)

Present(s, op, t) ==
  LET u == sess[t.sid].user
  IN  /\ op \in Ops
      /\ t \in tokens
      /\ AccountAdmits(t)
      /\ Start(s, [Idle EXCEPT !.op = op, !.pc = "session", !.user = u, !.tok = t,
                               !.ver = account[u].ver, !.since = account[u].cuts])

Refresh(s, t) == t.jti # NoJti /\ MayRefresh(s, t.sid) /\ Present(s, "refresh", t)
Use(s, t) == Present(s, "use", t)
RevokeOthers(s, t) == Present(s, "revoke_others", t)
RevokeSingle(s, t) == Present(s, "revoke_single", t)
RevokeAll(s, t) == MayBump(s, sess[t.sid].user) /\ Present(s, "revoke_all", t)

JtiUnchecked(x, t) == sess[x].expired   \* mutant: any token of the session will do
MustRevoke(x, t) == sess[x].expired \/ t.jti # sess[x].jti

\* Where the handler goes once it has read a session that is not revoked
AfterSession(s) ==
  LET x == req[s].tok.sid
      revoke == [req[s] EXCEPT !.pc = "revoke", !.sid = x]
  IN  CASE req[s].op = "refresh" ->
             IF MustRevoke(x, req[s].tok) THEN revoke
             ELSE [req[s] EXCEPT !.pc = "rotate", !.sid = x]
        [] sess[x].expired -> revoke
        [] req[s].op = "use" -> Idle
        [] req[s].op = "revoke_single" -> [req[s] EXCEPT !.pc = "target"]
        [] OTHER -> [req[s] EXCEPT !.pc = "bulk"]

LoadSession(s) ==
  /\ req[s].pc = "session"
  /\ req' = [req EXCEPT ![s] = IF sess[@.tok.sid].revoked THEN Idle ELSE AfterSession(s)]
  /\ UNCHANGED <<account, sess, tokens, redeemed>>

\* The commit writes refresh_jti and leaves is_revoked as it is by then.
RotatedWhole(r, j) == [r EXCEPT !.jti = j, !.revoked = FALSE]   \* mutant: writes the row
RotatedInPlace(r, j) == r   \* mutant: the new refresh_jti is not stored
Rotated(r, j) == [r EXCEPT !.jti = j]

Rotate(s) ==
  LET x == req[s].sid
  IN  /\ req[s].pc = "rotate"
      /\ \E j \in FreshJtis :
           /\ sess' = [sess EXCEPT ![x] = Rotated(@, j)]
           /\ HandOut([sid |-> x, ver |-> IssuedVersion(s), jti |-> j])
      /\ redeemed' = [redeemed EXCEPT ![req[s].tok.jti] = @ + 1]
      /\ req' = [req EXCEPT ![s] = Idle]
      /\ UNCHANGED account

\* The model has no jti left.
RotateFails(s) ==
  /\ req[s].pc = "rotate" /\ FreshJtis = {}
  /\ req' = [req EXCEPT ![s] = Idle]
  /\ UNCHANGED <<account, sess, tokens, redeemed>>

\* Logout takes any token of the session, spent or of an old version, and does
\* not look at the account.
Logout(s, t) ==
  /\ "logout" \in Ops
  /\ t \in tokens
  /\ ~sess[t.sid].revoked
  /\ Start(s, [Idle EXCEPT !.op = "logout", !.pc = "revoke", !.sid = t.sid])

\* revoke_single_session: another session of the same account
LoadTarget(s) ==
  /\ req[s].pc = "target"
  /\ \/ \E x \in SessionsOf(req[s].user) \ {req[s].tok.sid} :
          /\ ~sess[x].revoked
          /\ req' = [req EXCEPT ![s] = [@ EXCEPT !.pc = "revoke", !.sid = x]]
     \/ req' = [req EXCEPT ![s] = Idle]     \* 400, 404, or revoked already
  /\ UNCHANGED <<account, sess, tokens, redeemed>>

RevokeSession(s) ==
  /\ req[s].pc = "revoke"
  /\ sess' = [sess EXCEPT ![req[s].sid].revoked = TRUE]
  /\ req' = [req EXCEPT ![s] = Idle]
  /\ UNCHANGED <<account, tokens, redeemed>>

-----------------------------------------------------------------------------
(***************************************************************************)
(* Requests that write the account.  The new version is the one read plus  *)
(* one.  The UI's password change and deactivation flush the account, and  *)
(* so lock its row, before their bulk UPDATE; revoke-all does it after.    *)
(***************************************************************************)
Change(s, u, op, pc) ==
  Start(s, [Idle EXCEPT !.op = op, !.pc = pc, !.user = u,
                        !.ver = account[u].ver, !.since = account[u].cuts])

ChangePassword(s, u) == "password" \in Ops /\ MayBump(s, u) /\ Change(s, u, "password", "flush")
PutPassword(s, u) ==
  "put_password" \in Ops /\ MayBump(s, u) /\ Change(s, u, "put_password", "commit")
Toggle(s, u) ==
  /\ "toggle" \in Ops
  /\ IF account[u].active THEN Change(s, u, "deactivate", "flush")
                          ELSE Change(s, u, "activate", "commit")
\* PUT /users and the edit form change is_active and nothing else.
PutActive(s, u) ==
  /\ "put_active" \in Ops
  /\ Change(s, u, IF account[u].active THEN "put_inactive" ELSE "activate", "commit")

AccountLocked(s) ==
  \E t \in Clients \ {s} : /\ req[t].user = req[s].user
                           /\ req[t].op \in {"password", "deactivate"}
                           /\ req[t].pc \in {"bulk", "commit"}

FlushAccount(s) ==
  /\ req[s].pc = "flush"
  /\ ~AccountLocked(s)
  /\ req' = [req EXCEPT ![s].pc = "bulk"]
  /\ UNCHANGED <<account, sess, tokens, redeemed>>

BulkRevoke(s) ==
  LET spared == IF req[s].op = "revoke_others" THEN {req[s].tok.sid} ELSE {}
  IN  /\ req[s].pc = "bulk"
      /\ req' = [req EXCEPT ![s] =
                   [@ EXCEPT !.pc = "commit",
                             !.rows = {x \in SessionsOf(req[s].user) : ~sess[x].revoked} \ spared]]
      /\ UNCHANGED <<account, sess, tokens, redeemed>>

BumpedDown(a, r) ==   \* mutant: the version is counted down
  [a EXCEPT !.ver = r.ver - 1, !.cuts = @ + 1]
Bumped(a, r) == [a EXCEPT !.ver = r.ver + 1, !.cuts = @ + 1]

NewAccount(a, r) ==
  CASE r.op \in VersionOps -> Bumped(a, r)
    [] r.op \in {"deactivate", "put_inactive"} -> [a EXCEPT !.active = FALSE]
    [] r.op = "activate" -> [a EXCEPT !.active = TRUE]
    [] OTHER -> a

Commit(s) ==
  /\ req[s].pc = "commit"
  /\ req[s].op # "revoke_others" => ~AccountLocked(s)
  /\ sess' = [x \in Sids |-> IF x \in req[s].rows THEN [sess[x] EXCEPT !.revoked = TRUE]
                             ELSE sess[x]]
  /\ account' = [account EXCEPT ![req[s].user] = NewAccount(@, req[s])]
  /\ req' = [req EXCEPT ![s] = Idle]
  /\ UNCHANGED <<tokens, redeemed>>

-----------------------------------------------------------------------------
\* expires_at of a session passes; a refresh does not move it.
Expire(x) ==
  /\ Live(x) /\ ~sess[x].expired
  /\ sess' = [sess EXCEPT ![x].expired = TRUE]
  /\ UNCHANGED <<account, tokens, redeemed, req>>

\* The request dies, or PostgreSQL ends its transaction to break a deadlock
\* between a bulk UPDATE and a flush of the account.
Crash(s) ==
  /\ MayCrash
  /\ req[s].pc # "idle"
  /\ req' = [req EXCEPT ![s] = Idle]
  /\ UNCHANGED <<account, sess, tokens, redeemed>>

Begin(s) ==
  \/ \E u \in Users : \/ Login(s, u)
                      \/ ChangePassword(s, u)
                      \/ PutPassword(s, u)
                      \/ Toggle(s, u)
                      \/ PutActive(s, u)
  \/ \E t \in tokens : \/ Refresh(s, t)
                       \/ Use(s, t)
                       \/ RevokeOthers(s, t)
                       \/ RevokeSingle(s, t)
                       \/ RevokeAll(s, t)
                       \/ Logout(s, t)

Continue(s) ==
  \/ IssueTokens(s) \/ IssueFails(s)
  \/ LoadSession(s) \/ Rotate(s) \/ RotateFails(s)
  \/ LoadTarget(s) \/ RevokeSession(s)
  \/ FlushAccount(s) \/ BulkRevoke(s) \/ Commit(s)

Next ==
  \/ \E s \in Clients : Begin(s) \/ Continue(s) \/ Crash(s)
  \/ \E x \in Sids : Expire(x)

Spec == Init /\ [][Next]_vars

\* A handler whose statements are answered goes on; nobody has to send requests.
FairSpec == Spec /\ \A s \in Clients : WF_vars(Continue(s))

-----------------------------------------------------------------------------
(***************************************************************************)
(* Properties                                                              *)
(***************************************************************************)

\* The token opens the API: what get_current_user accepts.
Accepted(t) == AccountAdmits(t) /\ SessionAdmits(t.sid)

\* Whatever refreshes, logouts and bulk revocations are under way, a revoked
\* session never comes back: a refresh that read it before commits after the
\* revocation and does not undo it.
RevokedIsFinal ==
  [][\A x \in Sids : sess[x].revoked => sess'[x].revoked]_vars

\* A password change or revoke-all locks out every login that had read the
\* account before it, also one whose session is inserted later.
CutIsComplete ==
  \A t \in tokens : Accepted(t) => sess[t.sid].since = account[sess[t.sid].user].cuts

\* A refresh token is exchanged for new tokens at most once.  The code does not
\* keep this when two refreshes with one token overlap.
SingleRedemption == \A j \in Jtis : redeemed[j] <= 1

\* What it does keep, however refreshes overlap: once one of them has exchanged a
\* token and committed, none that reads the session afterwards is admitted with
\* that token, whichever of the overlapping ones commits last.  Only those that
\* had read the session before can still exchange it.
SpentTokenIsRefused ==
  [][\A s \in Clients, j \in Jtis :
       redeemed[j] > 0 /\ req[s].pc # "rotate" /\ req'[s].pc = "rotate"
         => req'[s].tok.jti # j]_vars

\* A spent refresh token that is presented again ends its session, also when
\* other refreshes of the session are under way; so of two overlapping exchanges
\* of one token only one leads on, and the token of the other ends the session.
ReuseRevokesSession ==
  \A s \in Clients, x \in Sids :
    (/\ req[s].op = "refresh" /\ req[s].pc = "session" /\ req[s].tok.sid = x
     /\ req[s].tok.jti # sess[x].jti) ~> sess[x].revoked
=============================================================================
