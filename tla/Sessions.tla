------------------------------ MODULE Sessions ------------------------------
(***************************************************************************)
(* The login sessions of the frontend server: frontend/lib/session.ts over *)
(* table sessions, as the proxy route, the server components and the login *)
(* and logout routes call it.  Every await is a step boundary, so several  *)
(* requests of one browser refresh the same session at once, and a login   *)
(* in one tab meets a login, or a logout, in another.                      *)
(*                                                                         *)
(* The identity provider is external.  Its n-th answer is grant n: an id   *)
(* token that ages, and perhaps a refresh token, which a provider that     *)
(* rotates accepts once.  Encryption is the number of the key in use.      *)
(***************************************************************************)
EXTENDS Naturals

CONSTANTS Sid,          \* session ids, never reused
          Flow,         \* logins that a browser may have under way
          Request,      \* concurrent requests of the browser
          MaxGrant,     \* bound on the provider's grants
          MaxKey,       \* bound on the values of APP_ENCRYPTION_KEY_B64
          None

ASSUME BoundsAreNat == MaxGrant \in Nat /\ MaxKey \in Nat \ {0}
ASSUME NoneIsNull == None \notin Sid \cup Flow \cup (1..MaxGrant)

VARIABLES rows,         \* Sid -> the row of table sessions
          cookie,       \* the browser's kbp_sid
          stateCookie,  \* its kbp_oidc_state: the login it began last
          flow,         \* Flow -> where the login is, and what it holds
          key,          \* the server's key
          req,          \* Request -> where it is, and what it holds
          age,          \* grant -> the age of its id token
          valid,        \* the grants whose refresh token is accepted
          cause         \* history: Sid -> why it may have ended

loginVars == <<stateCookie, flow>>
vars == <<rows, cookie, loginVars, key, req, age, valid, cause>>

Grant == 1..MaxGrant

(* idToken and refreshToken name the grants the two tokens came with.      *)
NoRow == [state |-> "unborn", idToken |-> None, refreshToken |-> None,
          key |-> None, over |-> FALSE]
Row == [state : {"unborn", "live", "gone"}, idToken : Grant \cup {None},
        refreshToken : Grant \cup {None}, key : (1..MaxKey) \cup {None},
        over : BOOLEAN]

Idle == [pc |-> "idle", sid |-> None, idToken |-> None, refreshToken |-> None]
Req == [pc : {"idle", "select", "check", "grant", "store", "drop", "logout",
              "clear"},
        sid : Sid \cup {None}, idToken : Grant \cup {None},
        refreshToken : Grant \cup {None}]

(* excused: the login's state cookie may be gone, by another's doing or    *)
(* because it has run out.                                                 *)
Out == [pc |-> "out", sid |-> None, excused |-> FALSE]
Login == [pc : {"out", "provider", "exchange", "respond"},
          sid : Sid \cup {None}, excused : BOOLEAN]

TypeOK ==
  /\ rows \in [Sid -> Row]
  /\ cookie \in Sid \cup {None}
  /\ stateCookie \in Flow \cup {None}
  /\ flow \in [Flow -> Login]
  /\ key \in 1..MaxKey
  /\ req \in [Request -> Req]
  /\ age \in [Grant -> {"future", "fresh", "near"}]
  /\ valid \subseteq Grant
  /\ cause \in [Sid -> SUBSET {"wanted", "fault"}]

Init ==
  /\ rows = [s \in Sid |-> NoRow]
  /\ cookie = None
  /\ stateCookie = None
  /\ flow = [f \in Flow |-> Out]
  /\ key = 1
  /\ req = [r \in Request |-> Idle]
  /\ age = [g \in Grant |-> "future"]
  /\ valid = {}
  /\ cause = [s \in Sid |-> {}]

-----------------------------------------------------------------------------
(* Statements on table sessions.                                           *)
Readable(s) == rows[s].state = "live" /\ ~rows[s].over

Upsert(s, id, refresh) ==             \* mutant: INSERT ... ON CONFLICT
  rows' = [rows EXCEPT ![s] = [state |-> "live", idToken |-> id,
             refreshToken |-> refresh, key |-> key, over |-> FALSE]]

(* UPDATE sessions ... WHERE id = s; no row is not an error.               *)
UpdateRow(s, id, refresh) ==
  rows' = IF rows[s].state = "live"
          THEN [rows EXCEPT ![s].idToken = id, ![s].refreshToken = refresh,
                            ![s].key = key]
          ELSE rows

DeleteRow(s) ==
  rows' = [rows EXCEPT ![s].state = IF @ = "live" THEN "gone" ELSE @]

Goto(r, pc) == req' = [req EXCEPT ![r].pc = pc]
Answer(r) == req' = [req EXCEPT ![r] = Idle]
Blame(s, c) == cause' = [cause EXCEPT ![s] = @ \cup {c}]
BlameOverlap(r, pcs) ==               \* two requests may refresh at once
  IF \E d \in Request \ {r} : req[d].sid = req[r].sid /\ req[d].pc \in pcs
  THEN Blame(req[r].sid, "fault") ELSE UNCHANGED cause

(* The provider's next grant, and what becomes of the refresh token it was *)
(* asked with: a provider that rotates replaces it.                        *)
Issue(g) ==
  /\ age[g] = "future" /\ \A h \in Grant : h < g => age[h] # "future"
  /\ age' = [age EXCEPT ![g] = "fresh"]

-----------------------------------------------------------------------------
(* The login route sets the state cookie and sends the browser to the      *)
(* provider; the cookie of a login that another tab began is overwritten.  *)
ExcuseOthers(f) == [h \in Flow |->
  [flow[h] EXCEPT !.excused = @ \/ (h # f /\ flow[h].pc = "provider")]]

BeginLogin(f) ==
  /\ flow[f] = Out
  /\ stateCookie' = f
  /\ flow' = [ExcuseOthers(f) EXCEPT ![f].pc = "provider"]
  /\ UNCHANGED <<rows, cookie, key, req, age, valid, cause>>

(* The browser is back at the callback route, with the state cookie that   *)
(* it has by now: none is a 400, and authorizationCodeGrant throws on      *)
(* another login's state.                                                  *)
Callback(f) ==
  /\ flow[f].pc = "provider" /\ stateCookie = f
  /\ flow' = [flow EXCEPT ![f] = [Out EXCEPT !.pc = "exchange"]]
  /\ UNCHANGED <<rows, cookie, stateCookie, key, req, age, valid, cause>>

CallbackRefused(f) ==
  /\ flow[f].pc = "provider" /\ stateCookie # f
  /\ flow' = [flow EXCEPT ![f] = Out]
  /\ UNCHANGED <<rows, cookie, stateCookie, key, req, age, valid, cause>>

(* The exchange of the code, the user's row, which no statement of ours    *)
(* reads, and createSession: nothing that others write is read between     *)
(* these, and when one fails the grant is not used by anyone.              *)
CreateSession(f, s, g) ==
  /\ flow[f].pc = "exchange" /\ rows[s].state = "unborn"
  /\ Issue(g)
  /\ \E refresh \in {g, None} :
       /\ rows' = [rows EXCEPT ![s] = [state |-> "live", idToken |-> g,
                     refreshToken |-> refresh, key |-> key, over |-> FALSE]]
       /\ valid' = valid \cup ({refresh} \ {None})
  /\ flow' = [flow EXCEPT ![f] = [Out EXCEPT !.pc = "respond", !.sid = s]]
  /\ UNCHANGED <<cookie, stateCookie, key, req, cause>>

(* The response sets one cookie and deletes the other, whichever login the *)
(* other belongs to by now.                                                *)
LoginAnswered(f) ==
  /\ flow[f].pc = "respond"
  /\ cookie' = flow[f].sid
  /\ stateCookie' = None
  /\ flow' = [ExcuseOthers(f) EXCEPT ![f] = Out]
  /\ UNCHANGED <<rows, key, req, age, valid, cause>>

(* The exchange, a statement or the response fails.                        *)
LoginFails(f) ==
  /\ flow[f].pc \in {"exchange", "respond"}
  /\ flow' = [flow EXCEPT ![f] = Out]
  /\ UNCHANGED <<rows, cookie, stateCookie, key, req, age, valid, cause>>

(* maxAge: ten minutes at the provider.                                    *)
StateCookieExpires ==
  /\ stateCookie # None
  /\ stateCookie' = None
  /\ flow' = ExcuseOthers(None)
  /\ UNCHANGED <<rows, cookie, key, req, age, valid, cause>>

(* A request for the API, and one to log out, arrive with the cookie.      *)
Arrive(r, pc) ==
  /\ req[r] = Idle /\ cookie # None
  /\ req' = [req EXCEPT ![r].pc = pc, ![r].sid = cookie]
  /\ UNCHANGED <<rows, cookie, loginVars, key, age, valid, cause>>

(* getSession.                                                             *)
Select(r) ==
  LET s == req[r].sid IN
  /\ req[r].pc = "select" /\ Readable(s) /\ rows[s].key = key
  /\ req' = [req EXCEPT ![r].pc = "check", ![r].idToken = rows[s].idToken,
                        ![r].refreshToken = rows[s].refreshToken]
  /\ BlameOverlap(r, {"grant", "store", "drop"})
  /\ UNCHANGED <<rows, cookie, loginVars, key, age, valid>>

SelectNothing(r) ==
  /\ req[r].pc = "select" /\ ~Readable(req[r].sid)
  /\ Answer(r)
  /\ UNCHANGED <<rows, cookie, loginVars, key, age, valid, cause>>

(* decrypt throws: the row was written under another key.                  *)
SelectUnreadable(r) ==
  LET s == req[r].sid IN
  /\ req[r].pc = "select" /\ Readable(s) /\ rows[s].key # key
  /\ Goto(r, "drop")
  /\ Blame(s, "wanted")
  /\ UNCHANGED <<rows, cookie, loginVars, key, age, valid>>

(* getValidToken.  A token that is not about to expire is returned; a      *)
(* session without a refresh token has nothing else to offer.              *)
RefreshAlways(q) == age[q.idToken] # "fresh"  \* mutant: no !session.refreshToken
NeedsRefresh(q) == age[q.idToken] # "fresh" /\ q.refreshToken # None

AnswerAtOnce(r) ==
  /\ req[r].pc = "check" /\ ~NeedsRefresh(req[r])
  /\ Answer(r)
  /\ UNCHANGED <<rows, cookie, loginVars, key, age, valid, cause>>

Refresh(r) ==
  LET q == req[r] IN
  /\ q.pc = "check" /\ NeedsRefresh(q)
  /\ Goto(r, "grant")
  /\ BlameOverlap(r, {"check", "grant", "store", "drop"})
  /\ UNCHANGED <<rows, cookie, loginVars, key, age, valid>>

(* tokens.refresh_token ?? session.refreshToken                            *)
KeepRefreshToken(q, issued) == q.refreshToken            \* mutant
NextRefreshToken(q, issued) == IF issued # None THEN issued ELSE q.refreshToken

Granted(r, g) ==
  LET q == req[r] IN
  /\ q.pc = "grant" /\ q.refreshToken \in valid
  /\ Issue(g)
  /\ \E issued \in {g, None} :
       /\ valid' = IF issued = g THEN (valid \ {q.refreshToken}) \cup {g} ELSE valid
       /\ req' = [req EXCEPT ![r].pc = "store", ![r].idToken = g,
                             ![r].refreshToken = NextRefreshToken(q, issued)]
  /\ UNCHANGED <<rows, cookie, loginVars, key, cause>>

(* The provider refuses a refresh token that is spent or unknown.          *)
Refused(r) ==
  /\ req[r].pc = "grant" /\ req[r].refreshToken \notin valid
  /\ Goto(r, "drop")
  /\ UNCHANGED <<rows, cookie, loginVars, key, age, valid, cause>>

(* The call fails, or its answer is lost; the refresh token may be spent    *)
(* all the same.                                                           *)
GrantLost(r) ==
  LET q == req[r] IN
  /\ q.pc = "grant"
  /\ valid' \in {valid, valid \ {q.refreshToken}}
  /\ Goto(r, "drop")
  /\ Blame(q.sid, "fault")
  /\ UNCHANGED <<rows, cookie, loginVars, key, age>>

(* The answer holds no id token: null, and the session is left as it is.   *)
GrantWithoutIdToken(r) ==
  LET q == req[r] IN
  /\ q.pc = "grant" /\ q.refreshToken \in valid
  /\ valid' \in {valid, valid \ {q.refreshToken}}
  /\ Answer(r)
  /\ Blame(q.sid, "fault")
  /\ UNCHANGED <<rows, cookie, loginVars, key, age>>

(* updateSessionTokens, and the answer.                                    *)
Store(r) ==
  LET q == req[r] IN
  /\ q.pc = "store"
  /\ UpdateRow(q.sid, q.idToken, q.refreshToken)
  /\ Answer(r)
  /\ UNCHANGED <<cookie, loginVars, key, age, valid, cause>>

StoreFails(r) ==
  LET q == req[r] IN
  /\ q.pc = "store"
  /\ UpdateRow(q.sid, q.idToken, q.refreshToken) \/ UNCHANGED rows
  /\ Goto(r, "drop")
  /\ Blame(q.sid, "fault")
  /\ UNCHANGED <<cookie, loginVars, key, age, valid>>

(* The DELETE of either catch block, of the row as it is by then.          *)
Drop(r) ==
  /\ req[r].pc = "drop"
  /\ DeleteRow(req[r].sid)
  /\ Answer(r)
  /\ UNCHANGED <<cookie, loginVars, key, age, valid, cause>>

DropFails(r) ==
  /\ req[r].pc = "drop"
  /\ Answer(r)
  /\ Blame(req[r].sid, "fault")
  /\ UNCHANGED <<rows, cookie, loginVars, key, age, valid>>

(* destroySession: the row, then in the response the cookie.               *)
Logout(r) ==
  LET s == req[r].sid IN
  /\ req[r].pc = "logout"
  /\ DeleteRow(s)
  /\ Goto(r, "clear")
  /\ Blame(s, "wanted")
  /\ UNCHANGED <<cookie, loginVars, key, age, valid>>

ClearAll == stateCookie' = None        \* mutant: every cookie of ours
ClearsState == UNCHANGED stateCookie

ClearCookie(r) ==
  /\ req[r].pc = "clear"
  /\ cookie' = None /\ ClearsState
  /\ Answer(r)
  /\ UNCHANGED <<rows, flow, key, age, valid, cause>>

-----------------------------------------------------------------------------
(* Time: a token comes within 60 s of its end, a session reaches its 24    *)
(* hours.  That a token expires makes no further difference here.          *)
Age(g) ==
  /\ age[g] = "fresh"
  /\ age' = [age EXCEPT ![g] = "near"]
  /\ UNCHANGED <<rows, cookie, loginVars, key, req, valid, cause>>

Expire(s) ==
  /\ Readable(s)
  /\ rows' = [rows EXCEPT ![s].over = TRUE]
  /\ UNCHANGED <<cookie, loginVars, key, req, age, valid, cause>>

(* The server restarts, with the same key or a new one; requests in flight *)
(* are lost.                                                               *)
Restart ==
  /\ key' \in {key, key + 1} \cap (1..MaxKey)
  /\ \/ \E r \in Request : req[r] # Idle
     \/ \E f \in Flow : flow[f].pc \notin {"out", "provider"}
  /\ req' = [r \in Request |-> Idle]
  /\ cause' = [s \in Sid |->
       IF \E r \in Request : req[r].sid = s THEN cause[s] \cup {"fault"} ELSE cause[s]]
  /\ flow' = [f \in Flow |-> IF flow[f].pc = "provider" THEN flow[f] ELSE Out]
  /\ UNCHANGED <<rows, cookie, stateCookie, age, valid>>

Step(r) ==
  \/ Arrive(r, "select") \/ Select(r) \/ SelectNothing(r) \/ SelectUnreadable(r)
  \/ AnswerAtOnce(r) \/ Refresh(r)
  \/ \E g \in Grant : Granted(r, g)
  \/ Refused(r) \/ GrantLost(r) \/ GrantWithoutIdToken(r)
  \/ Store(r) \/ StoreFails(r) \/ Drop(r) \/ DropFails(r)
  \/ Arrive(r, "logout") \/ Logout(r) \/ ClearCookie(r)

Next ==
  \/ \E r \in Request : Step(r)
  \/ \E f \in Flow :
       \/ BeginLogin(f) \/ Callback(f) \/ CallbackRefused(f)
       \/ \E s \in Sid, g \in Grant : CreateSession(f, s, g)
       \/ LoginAnswered(f) \/ LoginFails(f)
  \/ StateCookieExpires
  \/ \E g \in Grant : Age(g)
  \/ \E s \in Sid : Expire(s)
  \/ Restart

Spec == Init /\ [][Next]_vars

-----------------------------------------------------------------------------
(* Properties.                                                             *)

Busy(s) == \E r \in Request : req[r].sid = s

(* A session that ended never comes back: a refresh that was in flight     *)
(* when the user logged out does not store its tokens in a new row.        *)
EndedIsFinal ==
  [][\A s \in Sid : rows[s].state = "gone" => rows'[s] = rows[s]]_vars

(* Between requests a session holds a refresh token that the provider will *)
(* accept, however often it was rotated, unless a call was lost or two     *)
(* requests refreshed at once.                                             *)
RefreshTokenIsGood ==
  \A s \in Sid :
    rows[s].state = "live" /\ ~Busy(s) /\ "fault" \notin cause[s]
      => rows[s].refreshToken \in valid \cup {None}

(* A user is logged out for a reason: he asked for it, a call failed, the  *)
(* key changed, or two requests refreshed at once.  In particular no       *)
(* session ends because its token expired while nothing went wrong.        *)
EndsForAReason == \A s \in Sid : rows[s].state = "gone" => cause[s] # {}

(* Whoever comes back from the provider is let in, unless another login    *)
(* was begun or ended in the same browser meanwhile, or he took too long:  *)
(* neither a logout in another tab nor a restart of the server makes the   *)
(* callback refuse him.                                                    *)
RefusedForAReason ==
  [][\A f \in Flow : flow[f].pc = "provider" /\ flow'[f].pc = "out"
       => flow[f].excused]_vars
=============================================================================
