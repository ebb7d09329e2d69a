-------------------------- MODULE AuthSessionsProofs --------------------------
(***************************************************************************)
(* The safety properties of AuthSessions, for any number of accounts,      *)
(* sessions, requests and cuts.                                            *)
(*                                                                         *)
(* SessionInv holds whatever overlaps: tokens and requests refer to        *)
(* sessions that exist.  RedemptionInv, which holds whatever overlaps too, *)
(* says that an exchanged refresh token is dead; VersionInv needs the      *)
(* writers of one token_version to take turns.                             *)
(***************************************************************************)
EXTENDS AuthSessions, TLAPS

\* What a request holds is something that exists.
RequestOk(r) ==
  /\ r.pc = "issue" => r.user \in Users
  /\ r.pc \in {"session", "rotate"} => r.tok \in tokens /\ r.ver = r.tok.ver
  /\ r.pc = "rotate" => r.op = "refresh" /\ r.sid = r.tok.sid
  /\ r.pc = "revoke" => r.sid \in Sids /\ Live(r.sid)
  /\ r.op \in VersionOps => r.user \in Users
  /\ \A x \in r.rows : Live(x)

\* Tokens and requests refer to sessions that exist; the others are clean.
SessionInv ==
  /\ TypeOK
  /\ \A x \in Sids : ~Live(x) => ~sess[x].revoked
  /\ \A t \in tokens : Live(t.sid)
  /\ \A s \in Clients : RequestOk(req[s])

-----------------------------------------------------------------------------
(* Steps *)

\* What the first step of a request establishes.
LEMMA BeginFacts ==
  ASSUME SessionInv, NEW s \in Clients, Begin(s)
  PROVE  \E r \in Request :
           /\ Start(s, r) /\ RequestOk(r)
           /\ r.pc # "rotate"
           /\ r.pc = "issue" => r.ver = account[r.user].ver /\ r.since = account[r.user].cuts
           /\ r.op \in VersionOps => MayBump(s, r.user) /\ r.ver = account[r.user].ver
           /\ r.op = "refresh" => MayRefresh(s, r.tok.sid)
<1> DEFINE Account0(u, op, pc) == [Idle EXCEPT !.op = op, !.pc = pc, !.user = u,
                                     !.ver = account[u].ver, !.since = account[u].cuts]
           Token0(t, op) == [Idle EXCEPT !.op = op, !.pc = "session", !.user = sess[t.sid].user,
                               !.tok = t, !.ver = account[sess[t.sid].user].ver,
                               !.since = account[sess[t.sid].user].cuts]
<1>1. \A u \in Users : account[u] \in Account
  BY DEF SessionInv, TypeOK
<1>2. \A t \in tokens : /\ t \in Token /\ t.sid \in Sids /\ sess[t.sid].user \in Users
  BY DEF SessionInv, TypeOK, Token, Session, Live
<1>3. ASSUME NEW u \in Users, NEW op \in AllOps \cup {"activate", "deactivate", "put_inactive"},
             NEW pc \in {"issue", "flush", "commit"}
      PROVE  /\ Account0(u, op, pc) \in Request
             /\ RequestOk(Account0(u, op, pc))
             /\ Account0(u, op, pc).pc = pc
             /\ Account0(u, op, pc).op = op
             /\ Account0(u, op, pc).user = u
             /\ Account0(u, op, pc).ver = account[u].ver
             /\ Account0(u, op, pc).since = account[u].cuts
  <2>1. /\ Account0(u, op, pc).pc = pc
        /\ Account0(u, op, pc).op = op
        /\ Account0(u, op, pc).user = u
        /\ Account0(u, op, pc).ver = account[u].ver
        /\ Account0(u, op, pc).since = account[u].cuts
        /\ Account0(u, op, pc).rows = {}
    BY DEF Idle
  <2>2. Account0(u, op, pc) \in Request
    BY <1>1 DEF Request, Idle, NoToken, Account, PC
  <2> HIDE DEF Account0
  <2>4. RequestOk(Account0(u, op, pc))
    BY <2>1, <1>3 DEF RequestOk
  <2> QED
    BY <2>1, <2>2, <2>4
<1>4. ASSUME NEW t \in tokens, AccountAdmits(t), NEW op \in AllOps
      PROVE  /\ Token0(t, op) \in Request
             /\ RequestOk(Token0(t, op))
             /\ Token0(t, op).pc = "session"
             /\ Token0(t, op).op = op
             /\ Token0(t, op).user = sess[t.sid].user
             /\ Token0(t, op).tok = t
             /\ Token0(t, op).ver = account[sess[t.sid].user].ver
  BY <1>1, <1>2, <1>4 DEF Request, RequestOk, Idle, NoToken, Account, PC, VersionOps, AccountAdmits
<1>5. ASSUME NEW u \in Users, Login(s, u)
      PROVE  \E op \in {"login", "ui_login"} : Start(s, Account0(u, op, "issue"))
  BY <1>5 DEF Login
<1>6. ASSUME NEW u \in Users,
             ChangePassword(s, u) \/ PutPassword(s, u)
      PROVE  /\ MayBump(s, u)
             /\ \/ Start(s, Account0(u, "password", "flush"))
                \/ Start(s, Account0(u, "put_password", "commit"))
  BY <1>6 DEF ChangePassword, PutPassword, Change
<1>7. ASSUME NEW u \in Users, Toggle(s, u) \/ PutActive(s, u)
      PROVE  \E op \in {"activate", "deactivate", "put_inactive"}, pc \in {"flush", "commit"} :
               Start(s, Account0(u, op, pc))
  BY <1>7 DEF Toggle, PutActive, Change
<1>8. ASSUME NEW t \in tokens,
             \/ Use(s, t) \/ RevokeOthers(s, t) \/ RevokeSingle(s, t)
      PROVE  /\ AccountAdmits(t)
             /\ \E op \in {"use", "revoke_others", "revoke_single"} : Start(s, Token0(t, op))
  BY <1>8 DEF Use, RevokeOthers, RevokeSingle, Present
<1>9. ASSUME NEW t \in tokens, Refresh(s, t)
      PROVE  AccountAdmits(t) /\ MayRefresh(s, t.sid) /\ Start(s, Token0(t, "refresh"))
  BY <1>9 DEF Refresh, Present
<1>10. ASSUME NEW t \in tokens, RevokeAll(s, t)
       PROVE  AccountAdmits(t) /\ MayBump(s, sess[t.sid].user) /\ Start(s, Token0(t, "revoke_all"))
  BY <1>10 DEF RevokeAll, Present
<1>11. ASSUME NEW t \in tokens, Logout(s, t)
       PROVE  \E r \in Request : /\ Start(s, r) /\ RequestOk(r)
                                 /\ r.pc = "revoke" /\ r.op = "logout"
  <2> DEFINE r == [Idle EXCEPT !.op = "logout", !.pc = "revoke", !.sid = t.sid]
  <2>1. r \in Request /\ r.pc = "revoke" /\ r.op = "logout" /\ r.sid = t.sid /\ r.rows = {}
    BY <1>2 DEF Request, Idle, NoToken, PC, AllOps
  <2>2. RequestOk(r)
    BY <2>1, <1>2 DEF RequestOk, VersionOps, Live, SessionInv
  <2>3. Start(s, r)
    BY <1>11 DEF Logout
  <2> QED
    BY <2>1, <2>2, <2>3
<1> HIDE DEF Account0, Token0
<1>12. CASE \E u \in Users : Login(s, u)
  <2>1. PICK u \in Users, op \in {"login", "ui_login"} : Start(s, Account0(u, op, "issue"))
    BY <1>5, <1>12
  <2>2. op \in AllOps /\ op \notin VersionOps /\ op # "refresh"
    BY DEF AllOps, VersionOps
  <2> QED
    BY <1>3, <2>1, <2>2
<1>13. CASE \E u \in Users : ChangePassword(s, u) \/ PutPassword(s, u)
  BY <1>3, <1>6, <1>13 DEF AllOps, VersionOps
<1>14. CASE \E u \in Users : Toggle(s, u) \/ PutActive(s, u)
  BY <1>3, <1>7, <1>14 DEF AllOps, VersionOps
<1>15. CASE \E t \in tokens : Use(s, t) \/ RevokeOthers(s, t) \/ RevokeSingle(s, t)
  BY <1>4, <1>8, <1>15 DEF AllOps, VersionOps
<1>16. CASE \E t \in tokens : Refresh(s, t)
  BY <1>4, <1>9, <1>16 DEF AllOps, VersionOps
<1>17. CASE \E t \in tokens : RevokeAll(s, t)
  BY <1>4, <1>10, <1>17 DEF AllOps, VersionOps
<1>18. CASE \E t \in tokens : Logout(s, t)
  BY <1>11, <1>18 DEF VersionOps
<1> QED
  BY <1>12, <1>13, <1>14, <1>15, <1>16, <1>17, <1>18 DEF Begin

\* The session rows after a step: revoked ones stay revoked, live ones live.
SessionsKept ==
  \A x \in Sids : /\ Live(x) => Live(x)' /\ sess'[x].user = sess[x].user
                                /\ sess'[x].since = sess[x].since
                  /\ sess[x].revoked => sess'[x].revoked
                  /\ ~Live(x)' => ~sess'[x].revoked

\* One step of a request in progress.
LEMMA ContinueFacts ==
  ASSUME SessionInv, NEW s \in Clients, Continue(s) \/ Crash(s)
  PROVE  /\ account' \in [Users -> Account] /\ sess' \in [Sids -> Session]
         /\ tokens' \subseteq Token /\ redeemed' \in [Jtis -> Nat]
         /\ SessionsKept
         /\ tokens \subseteq tokens'
         /\ \A t \in tokens' \ tokens : Live(t.sid)'
         /\ \E r \in Request : /\ req' = [req EXCEPT ![s] = r]
                               /\ RequestOk(r)'
                               /\ r = Idle \/ (r.op = req[s].op /\ r.user = req[s].user
                                               /\ r.ver = req[s].ver /\ r.tok = req[s].tok
                                               /\ r.pc # "issue")
<1> DEFINE Goal == /\ account' \in [Users -> Account] /\ sess' \in [Sids -> Session]
                   /\ tokens' \subseteq Token /\ redeemed' \in [Jtis -> Nat]
                   /\ SessionsKept
                   /\ tokens \subseteq tokens'
                   /\ \A t \in tokens' \ tokens : Live(t.sid)'
                   /\ \E r \in Request :
                         /\ req' = [req EXCEPT ![s] = r]
                         /\ RequestOk(r)'
                         /\ r = Idle \/ (r.op = req[s].op /\ r.user = req[s].user
                                         /\ r.ver = req[s].ver /\ r.tok = req[s].tok
                                         /\ r.pc # "issue")
<1>1. /\ TypeOK /\ req[s] \in Request /\ RequestOk(req[s])
      /\ \A x \in Sids : sess[x] \in Session /\ (~Live(x) => ~sess[x].revoked)
  BY DEF SessionInv, TypeOK
<1>2. Idle \in Request /\ RequestOk(Idle)'
  BY DEF Request, RequestOk, Idle, NoToken, PC, VersionOps
<1>3. ASSUME UNCHANGED <<account, sess, tokens, redeemed>>, NEW r \in Request,
             req' = [req EXCEPT ![s] = r], RequestOk(r),
             r = Idle \/ (r.op = req[s].op /\ r.user = req[s].user /\ r.ver = req[s].ver
                          /\ r.tok = req[s].tok /\ r.pc # "issue")
      PROVE  Goal
  <2>1. RequestOk(r)' /\ SessionsKept
    BY <1>1, <1>3 DEF RequestOk, SessionsKept, Live
  <2> QED
    BY <1>1, <1>3, <2>1 DEF TypeOK
<1>4. RequestOk(Idle)
  BY DEF RequestOk, Idle, VersionOps
<1>5. CASE IssueFails(s) \/ RotateFails(s) \/ Crash(s)
  BY <1>2, <1>3, <1>4, <1>5 DEF IssueFails, RotateFails, Crash
<1>6. CASE LoadTarget(s)
  <2>1. CASE req' = [req EXCEPT ![s] = Idle]
    BY <1>2, <1>3, <1>4, <1>6, <2>1 DEF LoadTarget
  <2>2. CASE req' # [req EXCEPT ![s] = Idle]
    <3>1. PICK x \in Sids : /\ Live(x)
                            /\ req' = [req EXCEPT ![s] = [@ EXCEPT !.pc = "revoke", !.sid = x]]
      BY <1>6, <2>2 DEF LoadTarget, SessionsOf
    <3> DEFINE r == [req[s] EXCEPT !.pc = "revoke", !.sid = x]
    <3>2. /\ r \in Request /\ req' = [req EXCEPT ![s] = r]
          /\ r.pc = "revoke" /\ r.sid = x /\ r.op = req[s].op /\ r.user = req[s].user
          /\ r.ver = req[s].ver /\ r.tok = req[s].tok /\ r.rows = req[s].rows
      BY <1>1, <3>1 DEF Request, PC
    <3>3. RequestOk(r)
      BY <1>1, <3>1, <3>2 DEF RequestOk
    <3> QED
      BY <1>3, <1>6, <3>2, <3>3 DEF LoadTarget
  <2> QED
    BY <2>1, <2>2
<1>7. CASE FlushAccount(s)
  <2> DEFINE r == [req[s] EXCEPT !.pc = "bulk"]
  <2>1. /\ r \in Request /\ req' = [req EXCEPT ![s] = r]
        /\ r.pc = "bulk" /\ r.op = req[s].op /\ r.user = req[s].user
        /\ r.ver = req[s].ver /\ r.tok = req[s].tok /\ r.rows = req[s].rows
    BY <1>1, <1>7 DEF Request, PC, FlushAccount
  <2>2. RequestOk(r)
    BY <1>1, <2>1 DEF RequestOk
  <2> QED
    BY <1>3, <1>7, <2>1, <2>2 DEF FlushAccount
<1>8. CASE BulkRevoke(s)
  <2> DEFINE R == {x \in SessionsOf(req[s].user) : ~sess[x].revoked}
                    \ (IF req[s].op = "revoke_others" THEN {req[s].tok.sid} ELSE {})
             r == [req[s] EXCEPT !.pc = "commit", !.rows = R]
  <2>1. R \in SUBSET Sids /\ \A x \in R : Live(x)
    BY DEF SessionsOf
  <2>2. req' = [req EXCEPT ![s] = r]
    BY <1>8 DEF BulkRevoke
  <2> HIDE DEF R
  <2>3. /\ r \in Request
        /\ r.pc = "commit" /\ r.op = req[s].op /\ r.user = req[s].user
        /\ r.ver = req[s].ver /\ r.tok = req[s].tok /\ r.rows = R
    BY <1>1, <2>1 DEF Request, PC
  <2>4. RequestOk(r)
    BY <1>1, <2>1, <2>3 DEF RequestOk
  <2> QED
    BY <1>3, <1>8, <2>2, <2>3, <2>4 DEF BulkRevoke
<1>9. CASE LoadSession(s)
  <2> DEFINE r == IF sess[req[s].tok.sid].revoked THEN Idle ELSE AfterSession(s)
  <2>1. req' = [req EXCEPT ![s] = r]
    BY <1>9 DEF LoadSession
  <2>2. /\ req[s].pc = "session" /\ req[s].tok \in tokens /\ req[s].ver = req[s].tok.ver
        /\ req[s].tok.sid \in Sids /\ Live(req[s].tok.sid)
    BY <1>1, <1>9 DEF LoadSession, RequestOk, SessionInv, TypeOK, Token
  <2>3. \/ r = Idle
        \/ r = [req[s] EXCEPT !.pc = "revoke", !.sid = req[s].tok.sid]
        \/ /\ req[s].op = "refresh"
           /\ r = [req[s] EXCEPT !.pc = "rotate", !.sid = req[s].tok.sid]
        \/ r = [req[s] EXCEPT !.pc = "target"]
        \/ r = [req[s] EXCEPT !.pc = "bulk"]
    BY DEF AfterSession
  <2> HIDE DEF r
  <2>4. /\ r \in Request
        /\ r = Idle \/ (r.op = req[s].op /\ r.user = req[s].user /\ r.ver = req[s].ver
                        /\ r.tok = req[s].tok /\ r.pc # "issue")
    BY <1>1, <1>2, <2>2, <2>3 DEF Request, PC
  <2>5. CASE r = Idle
    BY <1>2, <1>3, <1>4, <1>9, <2>1, <2>5 DEF LoadSession
  <2>6. CASE r # Idle
    <3>1. /\ r.op = req[s].op /\ r.user = req[s].user /\ r.tok = req[s].tok
          /\ r.ver = req[s].ver /\ r.rows = req[s].rows
          /\ \/ r.pc = "revoke" /\ r.sid = req[s].tok.sid
             \/ r.pc = "rotate" /\ r.sid = req[s].tok.sid /\ req[s].op = "refresh"
             \/ r.pc \in {"target", "bulk"}
      BY <1>1, <2>3, <2>6 DEF Request
    <3>2. RequestOk(r)
      BY <1>1, <2>2, <3>1 DEF RequestOk
    <3> QED
      BY <1>3, <1>9, <2>1, <2>4, <3>2 DEF LoadSession
  <2> QED
    BY <2>5, <2>6
<1>10. CASE IssueTokens(s)
  <2>1. PICK x \in Sids, j \in FreshJtis :
          /\ ~Live(x)
          /\ sess' = [sess EXCEPT ![x] = [user |-> req[s].user, jti |-> j, revoked |-> FALSE,
                                          expired |-> FALSE, since |-> req[s].since]]
          /\ HandOut([sid |-> x, ver |-> IssuedVersion(s),
                      jti |-> IF req[s].op = "login" THEN j ELSE NoJti])
    BY <1>10 DEF IssueTokens
  <2>2. /\ req[s].user \in Users /\ req[s].since \in Nat /\ req[s].ver \in Nat /\ j \in Jtis
        /\ req' = [req EXCEPT ![s] = Idle] /\ UNCHANGED <<account, redeemed>>
    BY <1>1, <1>10 DEF IssueTokens, RequestOk, Request, FreshJtis
  <2>3. sess' \in [Sids -> Session] /\ SessionsKept /\ Live(x)'
    BY <1>1, <2>1, <2>2, SentinelAssumption DEF SessionsKept, Live, Session, TypeOK
  <2>4. /\ tokens \subseteq tokens' /\ tokens' \subseteq Token
        /\ \A t \in tokens' \ tokens : Live(t.sid)'
    BY <1>1, <2>1, <2>2, <2>3 DEF HandOut, Token, IssuedVersion, TypeOK
  <2> QED
    BY <1>1, <1>2, <2>2, <2>3, <2>4 DEF TypeOK
<1>11. CASE Rotate(s)
  <2>1. PICK x \in Sids, j \in Jtis :
          /\ x = req[s].sid /\ Live(x)
          /\ sess' = [sess EXCEPT ![x] = [sess[x] EXCEPT !.jti = j]]
          /\ HandOut([sid |-> x, ver |-> req[s].ver, jti |-> j])
    <3>1. req[s].sid \in Sids /\ Live(req[s].sid)
      BY <1>1, <1>11 DEF Rotate, RequestOk, SessionInv, TypeOK, Token
    <3>2. PICK j \in Jtis :
            /\ sess' = [sess EXCEPT ![req[s].sid] = Rotated(@, j)]
            /\ HandOut([sid |-> req[s].sid, ver |-> req[s].ver, jti |-> j])
      BY <1>11 DEF Rotate, FreshJtis, IssuedVersion
    <3> QED
      BY <1>1, <3>1, <3>2 DEF TypeOK, Rotated
  <2>2. /\ req[s].ver \in Nat
        /\ req' = [req EXCEPT ![s] = Idle] /\ UNCHANGED account
        /\ redeemed' = [redeemed EXCEPT ![req[s].tok.jti] = @ + 1]
        /\ sess \in [Sids -> Session] /\ redeemed \in [Jtis -> Nat]
    BY <1>1, <1>11 DEF Rotate, Request, TypeOK
  <2>3. sess' \in [Sids -> Session] /\ SessionsKept /\ Live(x)'
    <3>1. [sess[x] EXCEPT !.jti = j] \in Session
      BY <1>1, <2>1 DEF Session
    <3>2. sess' \in [Sids -> Session]
      BY <2>1, <2>2, <3>1
    <3>3. \A y \in Sids : /\ sess'[y].user = sess[y].user /\ sess'[y].since = sess[y].since
                          /\ sess'[y].revoked = sess[y].revoked
      BY <1>1, <2>1, <2>2 DEF Session
    <3> QED
      BY <1>1, <2>1, <3>2, <3>3 DEF SessionsKept, Live
  <2>4. /\ tokens \subseteq tokens' /\ tokens' \subseteq Token
        /\ \A t \in tokens' \ tokens : Live(t.sid)'
    <3> DEFINE new == [sid |-> x, ver |-> req[s].ver, jti |-> j]
    <3>1. new \in Token /\ new.sid = x
      BY <2>1, <2>2 DEF Token
    <3>2. tokens' \in {tokens, tokens \cup {new}} /\ tokens \subseteq Token
      BY <1>1, <2>1 DEF HandOut, TypeOK
    <3>3. \A t \in tokens' \ tokens : t = new
      BY <3>2
    <3>4. \A t \in tokens' \ tokens : t.sid = x
      BY <3>1, <3>3
    <3> QED
      BY <2>3, <3>1, <3>2, <3>4 DEF Live
  <2>5. redeemed' \in [Jtis -> Nat]
    <3>1. CASE req[s].tok.jti \in Jtis
      BY <2>2, <3>1
    <3>2. CASE req[s].tok.jti \notin Jtis
      BY <2>2, <3>2
    <3> QED
      BY <3>1, <3>2
  <2> QED
    BY <1>1, <1>2, <2>2, <2>3, <2>4, <2>5 DEF TypeOK
<1>12. CASE RevokeSession(s)
  <2>1. /\ req[s].sid \in Sids /\ Live(req[s].sid)
        /\ sess' = [sess EXCEPT ![req[s].sid].revoked = TRUE]
        /\ req' = [req EXCEPT ![s] = Idle] /\ UNCHANGED <<account, tokens, redeemed>>
    BY <1>1, <1>12 DEF RevokeSession, RequestOk
  <2>2. sess' \in [Sids -> Session] /\ SessionsKept
    BY <1>1, <2>1 DEF SessionsKept, Live, Session, TypeOK
  <2> QED
    BY <1>1, <1>2, <2>1, <2>2 DEF TypeOK
<1>13. CASE Commit(s)
  <2>1. /\ req' = [req EXCEPT ![s] = Idle] /\ UNCHANGED <<tokens, redeemed>>
        /\ sess' = [x \in Sids |-> IF x \in req[s].rows THEN [sess[x] EXCEPT !.revoked = TRUE]
                                   ELSE sess[x]]
        /\ account' = [account EXCEPT ![req[s].user] = NewAccount(@, req[s])]
        /\ \A x \in req[s].rows : Live(x)
    BY <1>1, <1>13 DEF Commit, RequestOk
  <2>2. sess' \in [Sids -> Session] /\ SessionsKept
    BY <1>1, <2>1 DEF SessionsKept, Live, Session, TypeOK
  <2>3. account' \in [Users -> Account]
    <3>1. ASSUME NEW a \in Account PROVE NewAccount(a, req[s]) \in Account
      <4>1. Bumped(a, req[s]) \in Account
        <5>1. req[s].ver + 1 \in Nat /\ a.cuts + 1 \in Nat
          BY <1>1, <3>1 DEF Account, Request
        <5> QED
          BY <3>1, <5>1 DEF Bumped, Account
      <4> QED
        BY <3>1, <4>1 DEF NewAccount, Account
    <3> QED
      BY <1>1, <2>1, <3>1 DEF TypeOK
  <2> QED
    BY <1>1, <1>2, <2>1, <2>2, <2>3 DEF TypeOK
<1> QED
  BY <1>5, <1>6, <1>7, <1>8, <1>9, <1>10, <1>11, <1>12, <1>13 DEF Continue

\* Expiry changes one column of one session.
LEMMA ExpireFacts ==
  ASSUME SessionInv, NEW x \in Sids, Expire(x)
  PROVE  /\ sess' \in [Sids -> Session] /\ SessionsKept
         /\ UNCHANGED <<account, tokens, redeemed, req>>
<1>1. /\ sess \in [Sids -> Session] /\ Live(x)
      /\ \A y \in Sids : ~Live(y) => ~sess[y].revoked
      /\ sess' = [sess EXCEPT ![x] = [sess[x] EXCEPT !.expired = TRUE]]
      /\ UNCHANGED <<account, tokens, redeemed, req>>
  BY DEF Expire, SessionInv, TypeOK
<1>2. [sess[x] EXCEPT !.expired = TRUE] \in Session
  BY <1>1 DEF Session
<1>3. sess' \in [Sids -> Session]
  BY <1>1, <1>2
<1>4. \A y \in Sids : /\ sess'[y].user = sess[y].user /\ sess'[y].since = sess[y].since
                      /\ sess'[y].revoked = sess[y].revoked
  BY <1>1 DEF Session
<1> QED
  BY <1>1, <1>3, <1>4 DEF SessionsKept, Live

\* There are no sessions, tokens or requests in the beginning.
LEMMA SessionInvHoldsInitially == Init => SessionInv
<1> SUFFICES ASSUME Init PROVE SessionInv
  OBVIOUS
<1>1. TypeOK
  BY DEF Init, TypeOK, Account, Session, NoSession, Request, Idle, NoToken, PC
<1>2. \A x \in Sids : ~sess[x].revoked
  BY DEF Init, NoSession
<1>3. \A s \in Clients : RequestOk(req[s])
  BY DEF Init, RequestOk, Idle, VersionOps
<1> QED
  BY <1>1, <1>2, <1>3 DEF SessionInv, Init

\* No step loses what tokens and requests refer to, or a revocation.
LEMMA SessionInvIsInductive ==
  ASSUME SessionInv, [Next]_vars
  PROVE  SessionInv' /\ (SessionsKept \/ UNCHANGED vars)
<1>1. ASSUME /\ account' \in [Users -> Account] /\ sess' \in [Sids -> Session]
             /\ tokens' \subseteq Token /\ redeemed' \in [Jtis -> Nat]
             /\ SessionsKept
             /\ tokens \subseteq tokens'
             /\ \A t \in tokens' \ tokens : Live(t.sid)',
             NEW s \in Clients, NEW r \in Request, RequestOk(r)',
             req' = [req EXCEPT ![s] = r]
      PROVE  SessionInv'
  <2>1. TypeOK'
    BY <1>1 DEF SessionInv, TypeOK
  <2>2. \A t \in tokens : t.sid \in Sids
    BY DEF SessionInv, TypeOK, Token
  <2>3. \A t \in tokens' : Live(t.sid)'
    BY <1>1, <2>2 DEF SessionInv, SessionsKept, Live
  <2>4. ASSUME NEW c \in Clients PROVE RequestOk(req[c])'
    <3>1. CASE c = s
      BY <1>1, <3>1 DEF SessionInv, TypeOK
    <3>2. CASE c # s
      <4>1. req'[c] = req[c] /\ req[c] \in Request /\ RequestOk(req[c])
        BY <1>1, <3>2 DEF SessionInv, TypeOK
      <4> QED
        BY <1>1, <4>1 DEF RequestOk, Request, SessionsKept, Live
    <3> QED
      BY <3>1, <3>2
  <2> QED
    BY <1>1, <2>1, <2>3, <2>4 DEF SessionInv, SessionsKept
<1>2. ASSUME NEW s \in Clients, Begin(s)
      PROVE  SessionInv' /\ SessionsKept
  <2>1. PICK r \in Request : Start(s, r) /\ RequestOk(r)
    BY <1>2, BeginFacts
  <2>2. /\ UNCHANGED <<account, sess, tokens, redeemed>>
        /\ req' = [req EXCEPT ![s] = r]
    BY <2>1 DEF Start
  <2>3. RequestOk(r)'
    BY <2>1, <2>2 DEF RequestOk, Live
  <2>4. SessionsKept
    BY <2>2 DEF SessionsKept, Live, SessionInv
  <2> QED
    BY <1>1, <2>2, <2>3, <2>4 DEF SessionInv, TypeOK
<1>3. ASSUME NEW s \in Clients, Continue(s) \/ Crash(s)
      PROVE  SessionInv' /\ SessionsKept
  BY <1>1, <1>3, ContinueFacts
<1>4. ASSUME NEW x \in Sids, Expire(x)
      PROVE  SessionInv' /\ SessionsKept
  <2>1. /\ sess' \in [Sids -> Session] /\ SessionsKept
        /\ UNCHANGED <<account, tokens, redeemed, req>>
    BY <1>4, ExpireFacts
  <2>2. \A t \in tokens : t.sid \in Sids
    BY DEF SessionInv, TypeOK, Token
  <2>3. ASSUME NEW c \in Clients PROVE RequestOk(req[c])'
    <3>1. req[c] \in Request /\ RequestOk(req[c])
      BY DEF SessionInv, TypeOK
    <3> QED
      BY <2>1, <3>1 DEF RequestOk, Request, SessionsKept, Live
  <2>4. TypeOK' /\ \A t \in tokens' : Live(t.sid)'
    BY <2>1, <2>2 DEF SessionInv, TypeOK, SessionsKept, Live
  <2> QED
    BY <2>1, <2>3, <2>4 DEF SessionInv, SessionsKept
<1>5. CASE UNCHANGED vars
  BY <1>5 DEF SessionInv, TypeOK, RequestOk, Live, vars
<1> QED
  BY <1>2, <1>3, <1>4, <1>5 DEF Next

\* Tokens and requests refer to sessions that exist, whatever overlaps.
THEOREM SessionInvariance == Spec => []SessionInv
<1>1. SessionInv /\ [Next]_vars => SessionInv'
  BY SessionInvIsInductive
<1> QED
  BY SessionInvHoldsInitially, <1>1, PTL DEF Spec

\* Every variable keeps its type, whatever overlaps and dies half way.
THEOREM TypeCorrect == Spec => []TypeOK
<1>1. SessionInv => TypeOK
  BY DEF SessionInv
<1> QED
  BY <1>1, SessionInvariance, PTL

\* No step of a login, refresh, logout, bulk revocation or account change, and
\* no interleaving of them, takes is_revoked back.
THEOREM RevocationIsFinal == Spec => RevokedIsFinal
<1>1. SessionInv /\ [Next]_vars => [\A x \in Sids : sess[x].revoked => sess'[x].revoked]_vars
  BY SessionInvIsInductive DEF SessionsKept, vars
<1> QED
  BY <1>1, SessionInvariance, PTL DEF Spec, RevokedIsFinal

-----------------------------------------------------------------------------
(* Versions, while writers of one token_version take turns *)

\* What turns give the writers: the version counts the cuts, tokens carry the one their
\* login had read, and a writer in progress has the current one.
VersionInv ==
  /\ SessionInv
  /\ \A u \in Users : account[u].ver = account[u].cuts
  /\ \A t \in tokens : sess[t.sid].since = t.ver
  /\ \A s \in Clients :
       /\ req[s].pc = "issue" => req[s].ver = req[s].since
       /\ req[s].op \in VersionOps => req[s].ver = account[req[s].user].ver
  /\ \A s, t \in Clients :
       s # t /\ req[s].op \in VersionOps /\ req[t].op \in VersionOps
         => req[s].user # req[t].user

\* A token is signed with the version its request had read, for a new session
\* or for the one of the token it replaces.
LEMMA NewTokenFacts ==
  ASSUME SessionInv, NEW s \in Clients, Continue(s) \/ Crash(s), NEW t \in tokens' \ tokens
  PROVE  /\ t.ver = req[s].ver
         /\ \/ req[s].pc = "issue" /\ sess'[t.sid].since = req[s].since
            \/ req[s].tok \in tokens /\ t.sid = req[s].tok.sid /\ t.ver = req[s].tok.ver
<1>1. sess \in [Sids -> Session] /\ RequestOk(req[s])
  BY DEF SessionInv, TypeOK
<1>2. IssueTokens(s) \/ Rotate(s)
  BY DEF Continue, Crash, IssueFails, LoadSession, RotateFails, LoadTarget, RevokeSession,
         FlushAccount, BulkRevoke, Commit
<1>3. CASE IssueTokens(s)
  <2>1. PICK x \in Sids, j \in FreshJtis :
          /\ sess' = [sess EXCEPT ![x] = [user |-> req[s].user, jti |-> j, revoked |-> FALSE,
                                          expired |-> FALSE, since |-> req[s].since]]
          /\ HandOut([sid |-> x, ver |-> IssuedVersion(s),
                      jti |-> IF req[s].op = "login" THEN j ELSE NoJti])
    BY <1>3 DEF IssueTokens
  <2>2. t = [sid |-> x, ver |-> req[s].ver, jti |-> IF req[s].op = "login" THEN j ELSE NoJti]
    BY <2>1 DEF HandOut, IssuedVersion
  <2>3. t.sid = x /\ t.ver = req[s].ver
    BY <2>2
  <2> QED
    BY <1>1, <1>3, <2>1, <2>3 DEF IssueTokens
<1>4. CASE Rotate(s)
  <2>1. PICK j \in FreshJtis :
          HandOut([sid |-> req[s].sid, ver |-> IssuedVersion(s), jti |-> j])
    BY <1>4 DEF Rotate
  <2>2. t = [sid |-> req[s].sid, ver |-> req[s].ver, jti |-> j]
    BY <2>1 DEF HandOut, IssuedVersion
  <2>3. t.sid = req[s].sid /\ t.ver = req[s].ver
    BY <2>2
  <2> QED
    BY <1>1, <1>4, <2>3 DEF Rotate, RequestOk
<1> QED
  BY <1>2, <1>3, <1>4

\* Only the commit of a request writes its account, and counts in both columns.
LEMMA AccountFacts ==
  ASSUME VersionInv, NEW s \in Clients, Continue(s) \/ Crash(s)
  PROVE  /\ \A u \in Users : account'[u].ver = account'[u].cuts
         /\ \A u \in Users : account'[u].ver # account[u].ver
                               => req[s].op \in VersionOps /\ req[s].user = u
<1>1. /\ account \in [Users -> Account] /\ req[s] \in Request
      /\ req[s].op \in VersionOps => /\ req[s].user \in Users
                                     /\ req[s].ver = account[req[s].user].ver
      /\ \A u \in Users : account[u].ver = account[u].cuts
  BY DEF VersionInv, SessionInv, TypeOK, RequestOk
<1>2. CASE UNCHANGED account
  BY <1>1, <1>2
<1>3. CASE Commit(s)
  <2>1. account' = [account EXCEPT ![req[s].user] = NewAccount(account[req[s].user], req[s])]
    BY <1>3 DEF Commit
  <2>2. ASSUME NEW u \in Users, u # req[s].user PROVE account'[u] = account[u]
    BY <1>1, <2>1, <2>2
  <2>3. CASE req[s].user \in Users
    <3> DEFINE a == account[req[s].user]
               b == NewAccount(a, req[s])
    <3>1. account'[req[s].user] = b
      BY <1>1, <2>1, <2>3
    <3>2. a \in Account /\ a.ver = a.cuts
      BY <1>1, <2>3
    <3>3. CASE req[s].op \in VersionOps
      <4>1. b = [a EXCEPT !.ver = req[s].ver + 1, !.cuts = a.cuts + 1]
        <5>1. b = Bumped(a, req[s])
          BY <3>3 DEF NewAccount, VersionOps
        <5> QED
          BY <5>1 DEF Bumped
      <4>2. b.ver = req[s].ver + 1 /\ b.cuts = a.cuts + 1
        BY <3>2, <4>1 DEF Account
      <4> QED
        BY <1>1, <2>2, <3>1, <3>2, <3>3, <4>2
    <3>4. CASE req[s].op \notin VersionOps
      <4>1. b.ver = a.ver /\ b.cuts = a.cuts
        BY <3>2, <3>4 DEF NewAccount, Account
      <4> QED
        BY <1>1, <2>2, <3>1, <3>2, <4>1
    <3> QED
      BY <3>3, <3>4
  <2> QED
    BY <1>1, <2>2, <2>3
<1> QED
  BY <1>2, <1>3 DEF Continue, Crash, IssueTokens, IssueFails, LoadSession, Rotate, RotateFails,
                    LoadTarget, RevokeSession, FlushAccount, BulkRevoke

\* With turns, the version counts the cuts and no writer of it is stale.
LEMMA VersionInvIsInductive ==
  ASSUME "version" \notin Overlap, VersionInv, [Next]_vars
  PROVE  VersionInv'
<1>1. SessionInv /\ SessionInv' /\ (SessionsKept \/ UNCHANGED vars)
  BY SessionInvIsInductive DEF VersionInv
<1>2. /\ req \in [Clients -> Request]
      /\ \A t \in tokens : t.sid \in Sids /\ Live(t.sid) /\ sess[t.sid].since = t.ver
      /\ \A s \in Clients : RequestOk(req[s])
  BY <1>1 DEF VersionInv, SessionInv, TypeOK, Token
<1>3. ASSUME NEW s \in Clients, Begin(s)
      PROVE  VersionInv'
  <2>1. PICK r \in Request :
          /\ Start(s, r) /\ RequestOk(r)
          /\ r.pc = "issue" => r.ver = account[r.user].ver /\ r.since = account[r.user].cuts
          /\ r.op \in VersionOps => MayBump(s, r.user) /\ r.ver = account[r.user].ver
    BY <1>1, <1>3, BeginFacts
  <2>2. /\ UNCHANGED <<account, sess, tokens, redeemed>>
        /\ req' = [req EXCEPT ![s] = r]
    BY <2>1 DEF Start
  <2>3. r.pc = "issue" => r.ver = r.since
    BY <2>1 DEF VersionInv, RequestOk
  <2>4. r.op \in VersionOps
          => \A t \in Clients \ {s} : ~(req[t].user = r.user /\ req[t].op \in VersionOps)
    BY <2>1 DEF MayBump
  <2> QED
    BY <1>1, <1>2, <2>1, <2>2, <2>3, <2>4 DEF VersionInv
<1>4. ASSUME NEW s \in Clients, Continue(s) \/ Crash(s)
      PROVE  VersionInv'
  <2>1. PICK r \in Request :
          /\ req' = [req EXCEPT ![s] = r]
          /\ r = Idle \/ (r.op = req[s].op /\ r.user = req[s].user
                          /\ r.ver = req[s].ver /\ r.tok = req[s].tok /\ r.pc # "issue")
    BY <1>1, <1>4, ContinueFacts
  <2>2. SessionsKept
    BY <1>1, <1>4, ContinueFacts
  <2>3. ASSUME NEW t \in tokens' PROVE sess'[t.sid].since = t.ver
    <3>1. CASE t \in tokens
      BY <1>2, <2>2, <3>1 DEF SessionsKept
    <3>2. CASE t \notin tokens
      <4>1. /\ t.ver = req[s].ver
            /\ \/ req[s].pc = "issue" /\ sess'[t.sid].since = req[s].since
               \/ req[s].tok \in tokens /\ t.sid = req[s].tok.sid /\ t.ver = req[s].tok.ver
        BY <1>1, <1>4, <3>2, NewTokenFacts
      <4>2. req[s].pc = "issue" => req[s].ver = req[s].since
        BY DEF VersionInv
      <4> QED
        BY <1>2, <2>2, <4>1, <4>2 DEF SessionsKept
    <3> QED
      BY <3>1, <3>2
  <2>4. /\ \A u \in Users : account'[u].ver = account'[u].cuts
        /\ \A u \in Users : account'[u].ver # account[u].ver
                              => req[s].op \in VersionOps /\ req[s].user = u
    BY <1>4, AccountFacts
  <2>5. Idle.pc # "issue" /\ Idle.op \notin VersionOps
    BY DEF Idle, VersionOps
  <2>6. \A c \in Clients : c # s => req'[c] = req[c]
    BY <1>2, <2>1
  <2>7. req'[s] = r
    BY <1>2, <2>1
  <2>8. CASE UNCHANGED account
    <3>1. ASSUME NEW c \in Clients
          PROVE  /\ req'[c].pc = "issue" => req'[c].ver = req'[c].since
                 /\ req'[c].op \in VersionOps => req'[c].ver = account'[req'[c].user].ver
                 /\ req'[c].op \in VersionOps
                      => req[c].op \in VersionOps /\ req'[c].user = req[c].user
      BY <2>1, <2>5, <2>6, <2>7, <2>8 DEF VersionInv
    <3> QED
      BY <1>1, <2>3, <2>4, <3>1 DEF VersionInv
  <2>9. CASE ~UNCHANGED account
    <3>1. Commit(s) /\ r = Idle
      BY <1>2, <1>4, <2>7, <2>9 DEF Continue, Crash, IssueTokens, IssueFails, LoadSession,
           Rotate, RotateFails, LoadTarget, RevokeSession, FlushAccount, BulkRevoke, Commit
    <3>2. ASSUME NEW c \in Clients, req'[c].op \in VersionOps
          PROVE  /\ c # s /\ req[c].op \in VersionOps /\ req'[c] = req[c]
                 /\ req'[c].ver = account'[req'[c].user].ver
      <4>1. c # s /\ req'[c] = req[c] /\ req[c].op \in VersionOps
        BY <2>5, <2>6, <2>7, <3>1, <3>2
      <4>2. req[c].user \in Users
        BY <1>2, <4>1 DEF RequestOk
      <4> QED
        BY <2>4, <4>1, <4>2 DEF VersionInv
    <3>3. ASSUME NEW c \in Clients, req'[c].pc = "issue"
          PROVE  req'[c].ver = req'[c].since
      BY <2>5, <2>6, <2>7, <3>1, <3>3 DEF VersionInv
    <3> QED
      BY <1>1, <2>3, <2>4, <3>2, <3>3 DEF VersionInv
  <2> QED
    BY <2>8, <2>9
<1>5. ASSUME NEW x \in Sids, Expire(x)
      PROVE  VersionInv'
  <2>1. SessionsKept /\ UNCHANGED <<account, tokens, redeemed, req>>
    BY <1>1, <1>5, ExpireFacts
  <2>2. \A t \in tokens : sess'[t.sid].since = t.ver
    BY <1>2, <2>1 DEF SessionsKept
  <2> QED
    BY <1>1, <2>1, <2>2 DEF VersionInv
<1>6. CASE UNCHANGED vars
  BY <1>1, <1>6 DEF VersionInv, vars
<1> QED
  BY <1>3, <1>4, <1>5, <1>6 DEF Next

\* While the requests that write one token_version take turns, no token of a
\* login that read the account before a password change or revoke-all is
\* accepted after it.
THEOREM CutsAreComplete ==
  ASSUME "version" \notin Overlap
  PROVE  Spec => []CutIsComplete
<1>1. Init => VersionInv
  BY SessionInvHoldsInitially DEF Init, VersionInv, Idle, VersionOps
<1>2. VersionInv /\ [Next]_vars => VersionInv'
  BY VersionInvIsInductive
<1>3. VersionInv => CutIsComplete
  <2> SUFFICES ASSUME VersionInv, NEW t \in tokens, Accepted(t)
               PROVE  sess[t.sid].since = account[sess[t.sid].user].cuts
    BY DEF CutIsComplete
  <2>1. sess[t.sid].user \in Users
    BY DEF VersionInv, SessionInv, TypeOK, Token, Session, Live
  <2> QED
    BY <2>1 DEF VersionInv, Accepted, AccountAdmits
<1> QED
  BY <1>1, <1>2, <1>3, PTL DEF Spec

-----------------------------------------------------------------------------
(* Refresh tokens, however refreshes overlap *)

\* An exchanged jti is spent: its token is out, so it is never drawn again, and
\* no session has it any more.  That a session's jti is in no other session's
\* token makes it so, also when two refreshes exchange one token.
RedemptionInv ==
  /\ SessionInv
  /\ \A j \in Jtis : redeemed[j] # 0 =>
       /\ \E t \in tokens : t.jti = j
       /\ \A x \in Sids : Live(x) => sess[x].jti # j
  /\ \A t \in tokens, x \in Sids :
       t.jti \in Jtis /\ Live(x) /\ sess[x].jti = t.jti => x = t.sid

\* A request that does not hand out tokens leaves every jti alone.
LEMMA JtiFrame ==
  ASSUME SessionInv, NEW s \in Clients, Continue(s) \/ Crash(s),
         ~IssueTokens(s), ~Rotate(s)
  PROVE  /\ UNCHANGED <<tokens, redeemed>>
         /\ \A x \in Sids : Live(x)' = Live(x) /\ sess'[x].jti = sess[x].jti
         /\ req'[s].pc = "rotate" => req'[s].tok.jti = sess[req'[s].sid].jti
<1>1. /\ sess \in [Sids -> Session] /\ req[s] \in Request /\ req \in [Clients -> Request]
      /\ \A x \in Sids : sess[x] \in Session
  BY DEF SessionInv, TypeOK
<1>2. Idle.pc # "rotate"
  BY DEF Idle
<1>3. CASE UNCHANGED sess
  <2>1. UNCHANGED <<tokens, redeemed>>
    BY <1>3 DEF Continue, Crash, IssueTokens, IssueFails, LoadSession, Rotate, RotateFails,
                LoadTarget, RevokeSession, FlushAccount, BulkRevoke, Commit
  <2>2. CASE LoadSession(s)
    <3>1. \/ req'[s] = Idle
          \/ req'[s] = AfterSession(s)
      BY <1>1, <2>2 DEF LoadSession
    <3>2. CASE req'[s] = AfterSession(s)
      <4>1. \/ AfterSession(s) = Idle
            \/ AfterSession(s) = [req[s] EXCEPT !.pc = "revoke", !.sid = req[s].tok.sid]
            \/ /\ ~MustRevoke(req[s].tok.sid, req[s].tok)
               /\ AfterSession(s) = [req[s] EXCEPT !.pc = "rotate", !.sid = req[s].tok.sid]
            \/ AfterSession(s) = [req[s] EXCEPT !.pc = "target"]
            \/ AfterSession(s) = [req[s] EXCEPT !.pc = "bulk"]
        BY DEF AfterSession
      <4>2. req'[s].pc = "rotate"
              => /\ ~MustRevoke(req[s].tok.sid, req[s].tok)
                 /\ req'[s].sid = req[s].tok.sid /\ req'[s].tok = req[s].tok
        BY <1>1, <1>2, <3>2, <4>1 DEF Request
      <4> QED
        BY <1>3, <2>1, <4>2 DEF MustRevoke, Live
    <3> QED
      BY <1>2, <1>3, <2>1, <3>1, <3>2 DEF Live
  <2>3. CASE ~LoadSession(s)
    <3>1. \/ req'[s] = Idle
          \/ \E x \in Sids : req'[s] = [req[s] EXCEPT !.pc = "revoke", !.sid = x]
          \/ req'[s] = [req[s] EXCEPT !.pc = "bulk"]
          \/ \E R \in SUBSET Sids : req'[s] = [req[s] EXCEPT !.pc = "commit", !.rows = R]
      <4>1. CASE BulkRevoke(s)
        <5> DEFINE R == {x \in SessionsOf(req[s].user) : ~sess[x].revoked}
                          \ (IF req[s].op = "revoke_others" THEN {req[s].tok.sid} ELSE {})
        <5>1. R \in SUBSET Sids
          BY DEF SessionsOf
        <5>2. req'[s] = [req[s] EXCEPT !.pc = "commit", !.rows = R]
          BY <1>1, <4>1 DEF BulkRevoke
        <5> QED
          BY <5>1, <5>2
      <4>2. CASE LoadTarget(s)
        BY <1>1, <4>2 DEF LoadTarget, SessionsOf
      <4>3. CASE FlushAccount(s)
        BY <1>1, <4>3 DEF FlushAccount
      <4> QED
        BY <1>1, <2>3, <4>1, <4>2, <4>3 DEF Continue, Crash, IssueFails, RotateFails,
           RevokeSession, Commit
    <3>2. req'[s].pc # "rotate"
      BY <1>1, <1>2, <3>1 DEF Request
    <3> QED
      BY <1>3, <2>1, <3>2 DEF Live
  <2> QED
    BY <2>2, <2>3
<1>4. CASE RevokeSession(s)
  <2>1. \A x \in Sids : sess'[x].user = sess[x].user /\ sess'[x].jti = sess[x].jti
    BY <1>1, <1>4 DEF RevokeSession, Session
  <2> QED
    BY <1>1, <1>2, <1>4, <2>1 DEF RevokeSession, Live
<1>5. CASE Commit(s)
  <2>1. \A x \in Sids : sess'[x].user = sess[x].user /\ sess'[x].jti = sess[x].jti
    BY <1>1, <1>5 DEF Commit, Session
  <2> QED
    BY <1>1, <1>2, <1>5, <2>1 DEF Commit, Live
<1> QED
  BY <1>3, <1>4, <1>5 DEF Continue, Crash, IssueFails, LoadSession, RotateFails, LoadTarget,
                          FlushAccount, BulkRevoke

\* A session is given a jti that no session and no token has, and the only new
\* token is its own.
LEMMA FreshJti ==
  ASSUME RedemptionInv, NEW x \in Sids, NEW j \in FreshJtis, NEW t \in Token,
         t.sid = x, tokens' \in {tokens, tokens \cup {t}},
         t.jti \in {j, NoJti}, Live(x)', sess'[x].jti = j,
         \A y \in Sids : y # x => sess'[y] = sess[y]
  PROVE  /\ \A u \in tokens', y \in Sids :
              u.jti \in Jtis /\ Live(y)' /\ sess'[y].jti = u.jti => y = u.sid
         /\ \A i \in Jtis : redeemed[i] # 0 =>
              /\ \E u \in tokens' : u.jti = i
              /\ \A y \in Sids : Live(y)' => sess'[y].jti # i
<1>1. /\ \A y \in Sids : Live(y) => sess[y].jti # j
      /\ \A u \in tokens : u.jti # j
  BY DEF FreshJtis
<1>2. \A y \in Sids : y # x => (Live(y)' <=> Live(y))
  BY DEF Live
<1>3. NoJti \notin Jtis
  BY SentinelAssumption
<1>4. ASSUME NEW u \in tokens', NEW y \in Sids,
             u.jti \in Jtis, Live(y)', sess'[y].jti = u.jti
      PROVE  y = u.sid
  <2>1. CASE u \in tokens
    BY <1>1, <1>2, <1>4, <2>1 DEF RedemptionInv
  <2>2. CASE u = t
    BY <1>1, <1>2, <1>3, <1>4, <2>2
  <2> QED
    BY <2>1, <2>2
<1>5. ASSUME NEW i \in Jtis, redeemed[i] # 0
      PROVE  /\ \E u \in tokens' : u.jti = i
             /\ \A y \in Sids : Live(y)' => sess'[y].jti # i
  BY <1>1, <1>2, <1>5 DEF RedemptionInv
<1> QED
  BY <1>4, <1>5

\* What a session's jti and its tokens have to do with each other survives every
\* step, the second exchange of a token included.
LEMMA RedemptionInvIsInductive ==
  ASSUME RedemptionInv, [Next]_vars
  PROVE  RedemptionInv'
<1>1. SessionInv /\ SessionInv'
  BY SessionInvIsInductive DEF RedemptionInv
<1>2. /\ req \in [Clients -> Request] /\ sess \in [Sids -> Session]
      /\ redeemed \in [Jtis -> Nat] /\ tokens \subseteq Token
      /\ \A s \in Clients : RequestOk(req[s])
  BY <1>1 DEF SessionInv, TypeOK
<1>3. ASSUME NEW s \in Clients, Begin(s)
      PROVE  RedemptionInv'
  <2>1. UNCHANGED <<account, sess, tokens, redeemed>>
    BY <1>1, <1>3, BeginFacts DEF Start
  <2> QED
    BY <1>1, <2>1 DEF RedemptionInv, Live
<1>4. ASSUME NEW s \in Clients, Continue(s) \/ Crash(s)
      PROVE  RedemptionInv'
  <2>1. CASE ~IssueTokens(s) /\ ~Rotate(s)
    <3>1. /\ UNCHANGED <<tokens, redeemed>>
          /\ \A x \in Sids : Live(x)' = Live(x) /\ sess'[x].jti = sess[x].jti
      BY <1>1, <1>4, <2>1, JtiFrame
    <3> QED
      BY <1>1, <3>1 DEF RedemptionInv
  <2>2. CASE IssueTokens(s)
    <3>1. PICK x \in Sids, j \in FreshJtis, t \in Token :
            /\ t.sid = x /\ t.jti \in {j, NoJti}
            /\ tokens' \in {tokens, tokens \cup {t}}
            /\ Live(x)' /\ sess'[x].jti = j
            /\ \A y \in Sids : y # x => sess'[y] = sess[y]
      <4>1. PICK x \in Sids, j \in FreshJtis :
              /\ sess' = [sess EXCEPT ![x] = [user |-> req[s].user, jti |-> j, revoked |-> FALSE,
                                              expired |-> FALSE, since |-> req[s].since]]
              /\ HandOut([sid |-> x, ver |-> IssuedVersion(s),
                          jti |-> IF req[s].op = "login" THEN j ELSE NoJti])
        BY <2>2 DEF IssueTokens
      <4>2. j \in Jtis /\ req[s].ver \in Nat /\ req[s].user \in Users
        BY <1>2, <2>2 DEF FreshJtis, Request, RequestOk, IssueTokens
      <4>3. [sid |-> x, ver |-> IssuedVersion(s),
             jti |-> IF req[s].op = "login" THEN j ELSE NoJti] \in Token
        BY <4>2 DEF Token, IssuedVersion
      <4>4. Live(x)'
        BY <1>2, <4>1, <4>2, SentinelAssumption DEF Live
      <4> QED
        BY <1>2, <4>1, <4>3, <4>4 DEF HandOut
    <3>2. UNCHANGED redeemed
      BY <2>2 DEF IssueTokens
    <3> QED
      BY <1>1, <3>1, <3>2, FreshJti DEF RedemptionInv
  <2>3. CASE Rotate(s)
    <3> DEFINE k == req[s].tok.jti
    <3>1. PICK x \in Sids :
            /\ x = req[s].sid /\ Live(x) /\ req[s].tok \in tokens /\ x = req[s].tok.sid
            /\ redeemed' = [redeemed EXCEPT ![k] = redeemed[k] + 1]
      BY <1>1, <1>2, <2>3 DEF Rotate, RequestOk, SessionInv, Token
    <3>2. PICK j \in FreshJtis :
            /\ sess' = [sess EXCEPT ![x] = [sess[x] EXCEPT !.jti = j]]
            /\ HandOut([sid |-> x, ver |-> IssuedVersion(s), jti |-> j])
      BY <1>2, <2>3, <3>1 DEF Rotate, Rotated
    <3>3. j \in Jtis /\ j # k /\ [sid |-> x, ver |-> IssuedVersion(s), jti |-> j] \in Token
      BY <1>2, <3>1 DEF FreshJtis, IssuedVersion, Request, Token
    <3>4. /\ sess'[x].jti = j /\ Live(x)'
          /\ \A y \in Sids : y # x => sess'[y] = sess[y]
      <4>1. sess[x] \in Session /\ sess'[x] = [sess[x] EXCEPT !.jti = j]
        BY <1>2, <3>1, <3>2
      <4>2. sess'[x].jti = j /\ sess'[x].user = sess[x].user
        BY <4>1 DEF Session
      <4> QED
        BY <1>2, <3>1, <3>2, <4>2 DEF Live
    <3>5. tokens \subseteq tokens'
      BY <3>2 DEF HandOut
    <3>6. /\ \A u \in tokens', y \in Sids :
               u.jti \in Jtis /\ Live(y)' /\ sess'[y].jti = u.jti => y = u.sid
          /\ \A i \in Jtis : redeemed[i] # 0 =>
               /\ \E u \in tokens' : u.jti = i
               /\ \A y \in Sids : Live(y)' => sess'[y].jti # i
      <4>1. PICK t \in Token : /\ t.sid = x /\ t.jti = j
                               /\ tokens' \in {tokens, tokens \cup {t}}
        BY <3>2, <3>3 DEF HandOut
      <4> QED
        BY <3>1, <3>2, <3>4, <4>1, FreshJti
    <3> HIDE DEF k
    <3>7. ASSUME NEW i \in Jtis, redeemed'[i] # 0
          PROVE  /\ \E u \in tokens' : u.jti = i
                 /\ \A y \in Sids : Live(y)' => sess'[y].jti # i
      <4>1. CASE i = k
        <5>1. req[s].tok \in tokens' /\ req[s].tok.jti = i
          BY <3>1, <3>5, <4>1 DEF k
        <5>2. ASSUME NEW y \in Sids, Live(y)', sess'[y].jti = i
              PROVE  FALSE
          <6>1. y = req[s].tok.sid
            BY <3>6, <5>1, <5>2
          <6> QED
            BY <3>1, <3>3, <3>4, <4>1, <5>2, <6>1
        <5> QED
          BY <5>1, <5>2
      <4>2. CASE i # k
        BY <1>2, <3>1, <3>6, <3>7, <4>2
      <4> QED
        BY <4>1, <4>2
    <3> QED
      BY <1>1, <3>6, <3>7 DEF RedemptionInv
  <2> QED
    BY <2>1, <2>2, <2>3
<1>5. ASSUME NEW x \in Sids, Expire(x)
      PROVE  RedemptionInv'
  <2>1. UNCHANGED <<tokens, redeemed>>
    BY <1>5 DEF Expire
  <2>2. \A y \in Sids : Live(y)' = Live(y) /\ sess'[y].jti = sess[y].jti
    BY <1>2, <1>5 DEF Expire, Live, Session
  <2> QED
    BY <1>1, <2>1, <2>2 DEF RedemptionInv
<1>6. CASE UNCHANGED vars
  BY <1>1, <1>6 DEF RedemptionInv, vars, Live
<1> QED
  BY <1>3, <1>4, <1>5, <1>6 DEF Next

\* A step takes a request to the exchange only with a token that is not spent.
LEMMA SpentTokenStep ==
  ASSUME RedemptionInv, [Next]_vars, NEW s \in Clients, NEW j \in Jtis,
         redeemed[j] > 0, req[s].pc # "rotate", req'[s].pc = "rotate"
  PROVE  req'[s].tok.jti # j
<1>1. SessionInv
  BY DEF RedemptionInv
<1>2. SessionInv'
  BY <1>1, SessionInvIsInductive
<1>3. /\ req \in [Clients -> Request] /\ \A t \in tokens : Live(t.sid) /\ t.sid \in Sids
  BY <1>1 DEF SessionInv, TypeOK, Token
<1>4. Idle.pc # "rotate"
  BY DEF Idle
<1>5. \A c \in Clients : Begin(c) => req'[s].pc # "rotate"
  <2> SUFFICES ASSUME NEW c \in Clients, Begin(c) PROVE req'[s].pc # "rotate"
    OBVIOUS
  <2>1. PICK r \in Request : Start(c, r) /\ r.pc # "rotate"
    BY <1>1, BeginFacts
  <2> QED
    BY <1>3, <2>1 DEF Start
<1>6. \A x \in Sids : ~Expire(x)
  BY DEF Expire
<1>7. PICK c \in Clients : Continue(c) \/ Crash(c)
  BY <1>5, <1>6 DEF Next, vars
<1>8. c = s
  BY <1>1, <1>3, <1>7, ContinueFacts
<1>9. ~IssueTokens(s) /\ ~Rotate(s)
  BY <1>3, <1>4 DEF IssueTokens, Rotate
<1>10. /\ UNCHANGED <<tokens, redeemed>>
       /\ \A x \in Sids : Live(x)' = Live(x) /\ sess'[x].jti = sess[x].jti
       /\ req'[s].tok.jti = sess[req'[s].sid].jti
  BY <1>1, <1>7, <1>8, <1>9, JtiFrame
<1>11. req'[s].sid \in Sids /\ Live(req'[s].sid)
  <2>1. RequestOk(req[s])' /\ \A t \in tokens' : t.sid \in Sids /\ Live(t.sid)'
    BY <1>2 DEF SessionInv, TypeOK, Token
  <2> QED
    BY <1>10, <2>1 DEF RequestOk
<1> QED
  BY <1>10, <1>11 DEF RedemptionInv, SessionInv, TypeOK

\* However many refreshes of one session overlap, also when requests die and
\* answers are lost: once a refresh token was exchanged, no refresh that reads
\* the session afterwards is admitted with it.
THEOREM SpentTokensAreRefused ==
  Spec => SpentTokenIsRefused
<1>1. Init => RedemptionInv
  BY SessionInvHoldsInitially DEF Init, RedemptionInv, Live, NoSession
<1>2. RedemptionInv /\ [Next]_vars => RedemptionInv'
  BY RedemptionInvIsInductive
<1>3. RedemptionInv /\ [Next]_vars
        => [\A s \in Clients, j \in Jtis :
              redeemed[j] > 0 /\ req[s].pc # "rotate" /\ req'[s].pc = "rotate"
                => req'[s].tok.jti # j]_vars
  BY SpentTokenStep
<1> QED
  BY <1>1, <1>2, <1>3, PTL DEF Spec, SpentTokenIsRefused
=============================================================================
