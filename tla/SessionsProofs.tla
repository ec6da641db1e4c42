---------------------------- MODULE SessionsProofs ----------------------------
(* Theorems of Sessions, for any number of sessions, requests, logins,      *)
(* grants and keys.  The inductive invariant IInv follows a refresh token   *)
(* from the grant it came with through the request that holds it to the     *)
(* row: no two sessions ever hold the same, a request that refreshes alone  *)
(* holds the one of the row, and what it is about to store is accepted.     *)
EXTENDS Sessions, TLAPS

NoFault(s) == "fault" \notin cause[s]
At(r, s, pcs) == req[r].sid = s /\ req[r].pc \in pcs

(* What a request holds at each of its calls.                               *)
RequestsHold ==
  \A r \in Request :
    /\ req[r].pc # "idle" => req[r].sid \in Sid
    /\ req[r].pc = "idle" => req[r] = Idle
    /\ req[r].pc \in {"grant", "store"} => req[r].refreshToken \in Grant

(* A session that is not created yet is known to nobody.                    *)
UnbornIsUnknown ==
  \A s \in Sid : rows[s].state = "unborn" =>
    /\ cookie # s /\ rows[s].refreshToken = None
    /\ \A f \in Flow : flow[f].sid # s
    /\ \A r \in Request : req[r].sid # s

HeldBy(s, g) ==
  \/ rows[s].refreshToken = g
  \/ \E r \in Request : req[r].sid = s /\ req[r].refreshToken = g

HeldOnce == \A s, u \in Sid, g \in Grant : HeldBy(s, g) /\ HeldBy(u, g) => s = u

HeldIsIssued ==
  \A g \in Grant : age[g] = "future" => g \notin valid /\ \A s \in Sid : ~HeldBy(s, g)

(* Without a fault one request refreshes a session at a time.               *)
RefreshesAlone(s) ==
  NoFault(s) => \A r, d \in Request :
    r # d /\ At(r, s, {"grant", "store"}) => ~At(d, s, {"check", "grant", "store"})

TokensAreGood(s) ==
  rows[s].state = "live" /\ NoFault(s) =>
    /\ (\A r \in Request : ~At(r, s, {"store"})) => rows[s].refreshToken \in valid \cup {None}
    /\ \A r \in Request :
         /\ At(r, s, {"check", "grant"}) => req[r].refreshToken = rows[s].refreshToken
         /\ At(r, s, {"store"}) => req[r].refreshToken \in valid

(* A row is dropped, or was, for a reason.                                  *)
DropsAreBlamed(s) ==
  /\ rows[s].state = "gone" => cause[s] # {}
  /\ \A r \in Request : At(r, s, {"drop"}) => cause[s] # {}

SessionInv(s) == RefreshesAlone(s) /\ TokensAreGood(s) /\ DropsAreBlamed(s)

TokenInv ==
  /\ RequestsHold /\ UnbornIsUnknown /\ HeldOnce /\ HeldIsIssued
  /\ \A s \in Sid : SessionInv(s)

IInv == TypeOK /\ TokenInv

(* A login that is at the provider has its cookie, or an excuse.            *)
CookieOrExcuse ==
  \A f \in Flow : flow[f].pc = "provider" => stateCookie = f \/ flow[f].excused
-----------------------------------------------------------------------------
LEMMA NoneIsNoGrant == None \notin Grant /\ None \notin Sid /\ None \notin Flow
BY NoneIsNull DEF Grant

(* The types.                                                               *)
LEMMA TypeInit == Init => TypeOK
BY BoundsAreNat DEF Init, TypeOK, NoRow, Row, Idle, Req, Out, Login

(* A request goes on, with what it had or with other tokens.                *)
LEMMA ReqTypes ==
  /\ Idle \in Req
  /\ \A q \in Req :
       /\ \A pc \in {"idle", "select", "check", "grant", "store", "drop", "logout", "clear"} :
            [q EXCEPT !.pc = pc] \in Req
       /\ \A pc \in {"select", "logout"}, s \in Sid : [q EXCEPT !.pc = pc, !.sid = s] \in Req
       /\ \A pc \in {"check", "store"}, i, t \in Grant \cup {None} :
            [q EXCEPT !.pc = pc, !.idToken = i, !.refreshToken = t] \in Req
BY DEF Idle, Req

LEMMA LoginTypes ==
  /\ Out \in Login
  /\ \A l \in Login, b \in BOOLEAN :
       [l EXCEPT !.excused = b] \in Login /\ [l EXCEPT !.pc = "provider"] \in Login
BY DEF Out, Login

LEMMA ExcusedType == TypeOK => \A f : ExcuseOthers(f) \in [Flow -> Login]
<1> SUFFICES ASSUME TypeOK, NEW f, NEW h \in Flow
             PROVE  [flow[h] EXCEPT !.excused = @ \/ (h # f /\ flow[h].pc = "provider")] \in Login
  BY DEF ExcuseOthers
<1>1. flow[h] \in Login
  BY DEF TypeOK
<1>2. (flow[h].excused \/ (h # f /\ flow[h].pc = "provider")) \in BOOLEAN
  OBVIOUS
<1>3. QED
  BY <1>1, <1>2, LoginTypes

LEMMA RowTypes ==
  /\ \A w \in Row : [w EXCEPT !.state = IF @ = "live" THEN "gone" ELSE @] \in Row
  /\ \A w \in Row : [w EXCEPT !.over = TRUE] \in Row
  /\ \A w \in Row, i, t \in Grant \cup {None}, k \in 1..MaxKey :
       /\ [w EXCEPT !.idToken = i, !.refreshToken = t, !.key = k] \in Row
       /\ [state |-> "live", idToken |-> i, refreshToken |-> t, key |-> k, over |-> FALSE] \in Row
BY DEF Row

(* The statements on a row, what they do to its type, and to its fields.    *)
RowStays(s) ==
  /\ rows' \in [Sid -> Row]
  /\ \A u \in Sid \ {s} : rows'[u] = rows[u]
  /\ rows[s].state = "unborn" <=> rows'[s].state = "unborn"
  /\ rows'[s].state = "live" => rows[s].state = "live"

LEMMA Updated ==
  ASSUME TypeOK, NEW s \in Sid, NEW i \in Grant \cup {None}, NEW t \in Grant \cup {None},
         UpdateRow(s, i, t)
  PROVE  /\ RowStays(s) /\ rows'[s].state = rows[s].state
         /\ rows[s].state = "live" => rows'[s].refreshToken = t
         /\ rows[s].state # "live" => rows'[s] = rows[s]
<1>1. CASE rows[s].state = "live"
  <2> DEFINE w == [rows[s] EXCEPT !.idToken = i, !.refreshToken = t, !.key = key]
  <2>1. w \in Row /\ w.state = rows[s].state /\ w.refreshToken = t
    BY DEF TypeOK, Row
  <2>2. rows' = [rows EXCEPT ![s] = w]
    BY <1>1 DEF UpdateRow, TypeOK, Row
  <2> HIDE DEF w
  <2>3. QED
    BY <1>1, <2>1, <2>2 DEF TypeOK, RowStays
<1>2. CASE rows[s].state # "live"
  BY <1>2 DEF UpdateRow, TypeOK, RowStays
<1>3. QED
  BY <1>1, <1>2

LEMMA Deleted ==
  ASSUME TypeOK, NEW s \in Sid, DeleteRow(s)
  PROVE  /\ RowStays(s) /\ rows'[s].state # "live"
         /\ rows'[s].refreshToken = rows[s].refreshToken
         /\ rows[s].state # "live" => rows'[s] = rows[s]
<1> DEFINE w == [rows[s] EXCEPT !.state = IF rows[s].state = "live" THEN "gone" ELSE rows[s].state]
<1>1. /\ w \in Row /\ w.refreshToken = rows[s].refreshToken
      /\ w.state = IF rows[s].state = "live" THEN "gone" ELSE rows[s].state
      /\ rows[s].state # "live" => w = rows[s]
  BY DEF TypeOK, Row
<1>2. rows' = [rows EXCEPT ![s] = w]
  BY DEF DeleteRow, TypeOK, Row
<1> HIDE DEF w
<1>3. QED
  BY <1>1, <1>2 DEF TypeOK, RowStays

LEMMA CauseTypes ==
  ASSUME TypeOK, NEW s \in Sid, NEW c \in {"wanted", "fault"}, Blame(s, c)
  PROVE  /\ cause' \in [Sid -> SUBSET {"wanted", "fault"}]
         /\ c \in cause'[s] /\ cause'[s] = cause[s] \cup {c}
         /\ \A u \in Sid \ {s} : cause'[u] = cause[u]
BY DEF Blame, TypeOK

(* The request r goes on to q, and no other request does.                   *)
LEMMA ReqAfter ==
  ASSUME TypeOK, NEW r \in Request, NEW q \in Req, req' = [req EXCEPT ![r] = q]
  PROVE  req' \in [Request -> Req] /\ req'[r] = q /\ \A d \in Request \ {r} : req'[d] = req[d]
BY DEF TypeOK
(* Tokens that nobody held, or holds no more, leave the others apart.       *)
LEMMA Narrows ==
  ASSUME HeldOnce, HeldIsIssued,
         \A s \in Sid, g \in Grant : HeldBy(s, g)' => HeldBy(s, g),
         valid' \subseteq valid, \A g \in Grant : age'[g] = "future" => age[g] = "future"
  PROVE  HeldOnce' /\ HeldIsIssued'
BY DEF HeldOnce, HeldIsIssued

(* What another session needs is not touched.                               *)
LEMMA OtherSession ==
  ASSUME IInv, NEW r \in Request, NEW s \in Sid, NEW u \in Sid, u # s,
         req[r].sid = s, req'[r].sid \in {s, None},
         \A d \in Request \ {r} : req'[d] = req[d],
         rows'[u] = rows[u], cause'[u] = cause[u],
         valid \ {req[r].refreshToken} \subseteq valid'
  PROVE  SessionInv(u)'
<1>1. SessionInv(u)
  BY DEF IInv, TokenInv
<1>2. \A d \in Request : /\ req'[d].sid = u <=> req[d].sid = u
                         /\ req[d].sid = u => req'[d] = req[d]
  BY NoneIsNoGrant
<1>3. \A d \in Request : req[d].sid = u => req[d].refreshToken # req[r].refreshToken \/ req[d].refreshToken \notin Grant
  BY DEF IInv, TokenInv, HeldOnce, HeldBy
<1>4. rows[u].refreshToken # req[r].refreshToken \/ rows[u].refreshToken \notin Grant
  BY DEF IInv, TokenInv, HeldOnce, HeldBy
<1>5. valid \subseteq Grant
  BY DEF IInv, TypeOK
<1>6. RefreshesAlone(u)' /\ DropsAreBlamed(u)'
  BY <1>1, <1>2 DEF SessionInv, RefreshesAlone, DropsAreBlamed, NoFault, At
<1>7. TokensAreGood(u)'
  <2> SUFFICES ASSUME rows'[u].state = "live", NoFault(u)'
               PROVE  /\ (\A d \in Request : ~At(d, u, {"store"})') =>
                           rows'[u].refreshToken \in valid' \cup {None}
                      /\ \A d \in Request :
                           /\ At(d, u, {"check", "grant"})' =>
                                req'[d].refreshToken = rows'[u].refreshToken
                           /\ At(d, u, {"store"})' => req'[d].refreshToken \in valid'
    BY DEF TokensAreGood
  <2>1. rows[u].state = "live" /\ NoFault(u)
    BY DEF NoFault
  <2>2. ASSUME \A d \in Request : ~At(d, u, {"store"})'
        PROVE  rows'[u].refreshToken \in valid' \cup {None}
    <3>1. rows[u].refreshToken \in valid \cup {None}
      BY <1>1, <1>2, <2>1, <2>2 DEF SessionInv, TokensAreGood, At
    <3>2. QED
      BY <1>4, <1>5, <3>1
  <2>3. ASSUME NEW d \in Request, At(d, u, {"check", "grant"})'
        PROVE  req'[d].refreshToken = rows'[u].refreshToken
    <3>1. At(d, u, {"check", "grant"}) /\ req'[d] = req[d]
      BY <1>2, <2>3 DEF At
    <3>2. QED
      BY <1>1, <2>1, <3>1 DEF SessionInv, TokensAreGood
  <2>4. ASSUME NEW d \in Request, At(d, u, {"store"})'
        PROVE  req'[d].refreshToken \in valid'
    <3>1. At(d, u, {"store"}) /\ req'[d] = req[d]
      BY <1>2, <2>4 DEF At
    <3>2. req[d].refreshToken \in valid
      BY <1>1, <2>1, <3>1 DEF SessionInv, TokensAreGood
    <3>3. req[d].sid = u
      BY <3>1 DEF At
    <3>4. QED
      BY <1>3, <1>5, <3>1, <3>2, <3>3
  <2>5. QED
    BY <2>2, <2>3, <2>4
<1>8. QED
  BY <1>6, <1>7 DEF SessionInv
(* A step of the request r, from one of its calls to the next.  What is     *)
(* left to show of each is SessionInv for the request's own session.        *)
Goes(r, s, q) ==
  /\ req' = [req EXCEPT ![r] = q] /\ q \in Req
  /\ q = Idle \/ (q.sid = s /\ q.pc # "idle")
  /\ q.pc \in {"grant", "store"} => q.refreshToken \in Grant
  /\ q.refreshToken \in {None, req[r].refreshToken, rows[s].refreshToken}
  /\ RowStays(s)
  /\ rows'[s].refreshToken \in {rows[s].refreshToken, req[r].refreshToken}
  /\ cause' \in [Sid -> SUBSET {"wanted", "fault"}]
  /\ \A u \in Sid \ {s} : cause'[u] = cause[u]
  /\ valid' \in {valid, valid \ {req[r].refreshToken}}
  /\ cookie' \in {cookie, None}
  /\ UNCHANGED <<loginVars, key, age>>

LEMMA RequestGoes ==
  ASSUME IInv, NEW r \in Request, NEW s \in Sid, req[r].sid = s, NEW q, Goes(r, s, q),
         SessionInv(s)'
  PROVE  IInv'
<1>1. /\ req' \in [Request -> Req] /\ req'[r] = q
      /\ \A d \in Request \ {r} : req'[d] = req[d]
  BY ReqAfter DEF IInv, Goes
<1>2. q.sid \in {s, None}
  BY DEF Goes, Idle
<1>3. TypeOK'
  BY <1>1 DEF IInv, TypeOK, Goes, RowStays, loginVars
<1>4. RequestsHold'
  <2>1. /\ q.pc # "idle" => q.sid \in Sid
        /\ q.pc = "idle" => q = Idle
        /\ q.pc \in {"grant", "store"} => q.refreshToken \in Grant
    BY DEF Goes, Idle
  <2>2. QED
    BY <1>1, <2>1 DEF IInv, TokenInv, RequestsHold
<1>5. UnbornIsUnknown'
  <2>1. \A u \in Sid : rows'[u].state = "unborn" => rows[u].state = "unborn" /\ u # s
    BY DEF IInv, TokenInv, UnbornIsUnknown, Goes, RowStays
  <2>2. \A u \in Sid : rows'[u].state = "unborn" => rows'[u] = rows[u]
    BY <2>1 DEF Goes, RowStays
  <2>3. QED
    BY <1>1, <1>2, <2>1, <2>2, NoneIsNoGrant
       DEF IInv, TokenInv, UnbornIsUnknown, Goes, loginVars
<1>6. HeldOnce' /\ HeldIsIssued'
  <2>1. ASSUME NEW u \in Sid, NEW g \in Grant, HeldBy(u, g)' PROVE HeldBy(u, g)
    <3>1. CASE u = s
      <4>1. q.refreshToken = g => HeldBy(s, g)
        BY NoneIsNoGrant DEF Goes, HeldBy
      <4>2. rows'[s].refreshToken = g => HeldBy(s, g)
        BY DEF Goes, HeldBy
      <4>3. \A d \in Request \ {r} : req'[d].sid = s /\ req'[d].refreshToken = g => HeldBy(s, g)
        BY <1>1 DEF HeldBy
      <4>4. QED
        BY <1>1, <2>1, <3>1, <4>1, <4>2, <4>3 DEF HeldBy
    <3>2. CASE u # s
      <4>1. rows'[u] = rows[u] /\ req'[r].sid # u
        BY <1>1, <1>2, <3>2, NoneIsNoGrant DEF Goes, RowStays
      <4>2. QED
        BY <1>1, <2>1, <4>1 DEF HeldBy
    <3>3. QED
      BY <3>1, <3>2
  <2>2. valid' \subseteq valid /\ age' = age
    BY DEF Goes
  <2>3. QED
    BY <2>1, <2>2, Narrows DEF IInv, TokenInv
<1>7. ASSUME NEW u \in Sid PROVE SessionInv(u)'
  <2>1. CASE u # s
    <3>1. /\ rows'[u] = rows[u] /\ cause'[u] = cause[u]
          /\ valid \ {req[r].refreshToken} \subseteq valid'
      BY <2>1 DEF Goes, RowStays
    <3>2. QED
      BY <1>1, <1>2, <2>1, <3>1, OtherSession
  <2>2. QED
    BY <2>1
<1>8. QED
  BY <1>3, <1>4, <1>5, <1>6, <1>7 DEF IInv, TokenInv
(* The request refreshes no more: it failed and the session is blamed for   *)
(* it, or it was not about to store, or it has stored what it held.         *)
LEMMA Leaves ==
  ASSUME IInv, NEW r \in Request, NEW s \in Sid, req[r].sid = s, NEW q, Goes(r, s, q),
         q.pc \notin {"check", "grant", "store"},
         cause[s] \subseteq cause'[s],
         q.pc = "drop" \/ (rows'[s].state = "gone" /\ rows[s].state # "gone")
           => cause'[s] # {},
         NoFault(s)' =>
           /\ valid' = valid
           /\ IF req[r].pc = "store"
              THEN rows[s].state = "live" => rows'[s].refreshToken = req[r].refreshToken
              ELSE rows'[s].refreshToken = rows[s].refreshToken
  PROVE  IInv'
<1>1. /\ req'[r] = q /\ \A d \in Request \ {r} : req'[d] = req[d]
  BY ReqAfter DEF IInv, Goes
<1>2. SessionInv(s)
  BY DEF IInv, TokenInv
<1>3. \A pcs : \A d \in Request : At(d, s, pcs)' => (d = r /\ q.pc \in pcs) \/ (d # r /\ At(d, s, pcs))
  BY <1>1 DEF At
<1>4. \A d \in Request : ~(d = r /\ At(d, s, {"check", "grant", "store"})')
  BY <1>1 DEF At
<1>5. RefreshesAlone(s)'
  <2> SUFFICES ASSUME NoFault(s)', NEW d \in Request, NEW e \in Request, d # e,
                      At(d, s, {"grant", "store"})', At(e, s, {"check", "grant", "store"})'
               PROVE  FALSE
    BY DEF RefreshesAlone
  <2>1. NoFault(s)
    BY DEF NoFault
  <2>2. At(d, s, {"grant", "store"}) /\ At(e, s, {"check", "grant", "store"})
    BY <1>3
  <2>3. QED
    BY <1>2, <2>1, <2>2 DEF SessionInv, RefreshesAlone
<1>6. TokensAreGood(s)'
  <2> SUFFICES ASSUME rows'[s].state = "live", NoFault(s)'
               PROVE  /\ (\A d \in Request : ~At(d, s, {"store"})') =>
                           rows'[s].refreshToken \in valid' \cup {None}
                      /\ \A d \in Request :
                           /\ At(d, s, {"check", "grant"})' =>
                                req'[d].refreshToken = rows'[s].refreshToken
                           /\ At(d, s, {"store"})' => req'[d].refreshToken \in valid'
    BY DEF TokensAreGood
  <2>1. rows[s].state = "live" /\ NoFault(s) /\ valid' = valid
    BY DEF NoFault, Goes, RowStays
  <2>2. /\ (\A d \in Request : ~At(d, s, {"store"})) => rows[s].refreshToken \in valid \cup {None}
        /\ \A d \in Request :
             /\ At(d, s, {"check", "grant"}) => req[d].refreshToken = rows[s].refreshToken
             /\ At(d, s, {"store"}) => req[d].refreshToken \in valid
    BY <1>2, <2>1 DEF SessionInv, TokensAreGood
  <2>3. CASE req[r].pc = "store"
    <3>1. At(r, s, {"store"}) /\ At(r, s, {"grant", "store"})
      BY <2>3 DEF At
    <3>2. rows'[s].refreshToken \in valid'
      BY <2>1, <2>2, <2>3, <3>1
    <3>3. \A d \in Request : d # r => ~At(d, s, {"check", "grant", "store"})
      BY <1>2, <2>1, <3>1 DEF SessionInv, RefreshesAlone
    <3>4. \A d \in Request : ~At(d, s, {"check", "grant"})' /\ ~At(d, s, {"store"})'
      BY <1>1, <1>4, <3>3 DEF At
    <3>5. QED
      BY <3>2, <3>4
  <2>4. CASE req[r].pc # "store"
    <3>1. ~At(r, s, {"store"})
      BY <2>4 DEF At
    <3>2. (\A d \in Request : ~At(d, s, {"store"})') => \A d \in Request : ~At(d, s, {"store"})
      BY <1>1, <3>1 DEF At
    <3>3. \A d \in Request :
            /\ At(d, s, {"check", "grant"})' => At(d, s, {"check", "grant"}) /\ d # r
            /\ At(d, s, {"store"})' => At(d, s, {"store"}) /\ d # r
      BY <1>1 DEF At
    <3>4. rows'[s].refreshToken = rows[s].refreshToken
      BY <2>4
    <3>5. QED
      BY <1>1, <2>1, <2>2, <3>2, <3>3, <3>4
  <2>5. QED
    BY <2>3, <2>4
<1>7. DropsAreBlamed(s)'
  <2>1. rows'[s].state = "gone" => cause'[s] # {}
    BY <1>2 DEF SessionInv, DropsAreBlamed
  <2>2. \A d \in Request : At(d, s, {"drop"})' => cause'[s] # {}
    <3> SUFFICES ASSUME NEW d \in Request, At(d, s, {"drop"})' PROVE cause'[s] # {}
      OBVIOUS
    <3>1. CASE d = r
      BY <1>1, <3>1 DEF At
    <3>2. CASE d # r
      BY <1>2, <1>3, <3>2 DEF SessionInv, DropsAreBlamed
    <3>3. QED
      BY <3>1, <3>2
  <2>3. QED
    BY <2>1, <2>2 DEF DropsAreBlamed
<1>8. SessionInv(s)'
  BY <1>5, <1>6, <1>7 DEF SessionInv
<1>9. QED
  BY <1>8, RequestGoes

(* The calls that end a request, or send it to the DELETE of a catch block. *)
LEMMA InvLeaves ==
  ASSUME IInv, NEW r \in Request,
         \/ SelectNothing(r) \/ SelectUnreadable(r) \/ AnswerAtOnce(r)
         \/ Refused(r) \/ GrantLost(r) \/ GrantWithoutIdToken(r)
         \/ Store(r) \/ StoreFails(r) \/ Drop(r) \/ DropFails(r)
         \/ Logout(r) \/ ClearCookie(r)
  PROVE  IInv'
<1>1. PICK s \in Sid : s = req[r].sid
  BY DEF IInv, TokenInv, RequestsHold, SelectNothing, SelectUnreadable, AnswerAtOnce,
     Refused, GrantLost, GrantWithoutIdToken, Store, StoreFails, Drop, DropFails,
     Logout, ClearCookie
<1>2. /\ TypeOK /\ req[r] \in Req /\ cause[s] \in SUBSET {"wanted", "fault"}
      /\ Idle \in Req /\ Idle.pc = "idle" /\ Idle.refreshToken = None
      /\ SessionInv(s)
  BY ReqTypes DEF IInv, TypeOK, Idle, TokenInv
<1> DEFINE q(pc) == [req[r] EXCEPT !.pc = pc]
<1>3. \A pc \in {"drop", "clear"} :
        /\ q(pc) \in Req /\ q(pc).sid = s /\ q(pc).pc = pc
        /\ q(pc).refreshToken = req[r].refreshToken
        /\ Goto(r, pc) => req' = [req EXCEPT ![r] = q(pc)]
  <2> SUFFICES ASSUME NEW pc \in {"drop", "clear"}
               PROVE  /\ q(pc) \in Req /\ q(pc).sid = s /\ q(pc).pc = pc
                      /\ q(pc).refreshToken = req[r].refreshToken
                      /\ Goto(r, pc) => req' = [req EXCEPT ![r] = q(pc)]
    OBVIOUS
  <2>1. q(pc) \in Req
    BY <1>2, ReqTypes
  <2>2. q(pc).sid = s /\ q(pc).pc = pc /\ q(pc).refreshToken = req[r].refreshToken
    BY <1>1, <1>2 DEF Req
  <2>3. Goto(r, pc) => req' = [req EXCEPT ![r] = q(pc)]
    BY <1>2 DEF Goto, TypeOK, Req
  <2>4. QED
    BY <2>1, <2>2, <2>3
<1> HIDE DEF q
<1>4. /\ UNCHANGED rows => RowStays(s) /\ rows'[s] = rows[s]
      /\ UNCHANGED cause => /\ cause' \in [Sid -> SUBSET {"wanted", "fault"}]
                            /\ \A u \in Sid : cause'[u] = cause[u]
  BY <1>2 DEF RowStays, TypeOK
<1>5. CASE SelectNothing(r) \/ AnswerAtOnce(r) \/ ClearCookie(r)
  <2>1. /\ Goes(r, s, Idle) /\ UNCHANGED <<rows, cause, valid>> /\ req[r].pc # "store"
    BY <1>2, <1>4, <1>5 DEF SelectNothing, AnswerAtOnce, ClearCookie, ClearsState, Answer,
       Goes, loginVars
  <2>2. QED
    BY <1>1, <1>2, <2>1, Leaves
<1>6. CASE SelectUnreadable(r)
  <2>1. /\ cause' \in [Sid -> SUBSET {"wanted", "fault"}] /\ cause'[s] = cause[s] \cup {"wanted"}
        /\ \A u \in Sid \ {s} : cause'[u] = cause[u]
    BY <1>1, <1>2, <1>6, CauseTypes DEF SelectUnreadable
  <2>2. /\ Goes(r, s, q("drop")) /\ UNCHANGED <<rows, valid>> /\ req[r].pc = "select"
    BY <1>3, <1>4, <1>6, <2>1 DEF SelectUnreadable, Goes, loginVars
  <2>3. QED
    BY <1>1, <1>3, <1>4, <2>1, <2>2, Leaves
<1>7. CASE Refused(r)
  <2>1. /\ Goes(r, s, q("drop")) /\ UNCHANGED <<rows, cause, valid>> /\ req[r].pc = "grant"
    BY <1>3, <1>4, <1>7 DEF Refused, Goes, loginVars
  <2>2. cause[s] # {}
    <3> SUFFICES ASSUME cause[s] = {} PROVE FALSE
      OBVIOUS
    <3>1. NoFault(s) /\ At(r, s, {"check", "grant"}) /\ At(r, s, {"grant", "store"})
      BY <1>1, <2>1 DEF NoFault, At
    <3>2. rows[s].state = "live"
      <4>1. rows[s].state \in {"unborn", "live", "gone"}
        BY <1>2 DEF TypeOK, Row
      <4>2. rows[s].state # "unborn"
        BY <1>1 DEF IInv, TokenInv, UnbornIsUnknown
      <4>3. rows[s].state # "gone"
        BY <1>2 DEF SessionInv, DropsAreBlamed
      <4>4. QED
        BY <4>1, <4>2, <4>3
    <3>3. \A d \in Request : ~At(d, s, {"store"})
      <4>1. \A d \in Request : d # r => ~At(d, s, {"check", "grant", "store"})
        BY <1>2, <3>1 DEF SessionInv, RefreshesAlone
      <4>2. QED
        BY <2>1, <4>1 DEF At
    <3>4. req[r].refreshToken \in valid \cup {None}
      BY <1>2, <3>1, <3>2, <3>3 DEF SessionInv, TokensAreGood
    <3>5. req[r].refreshToken \in Grant
      BY <2>1 DEF IInv, TokenInv, RequestsHold
    <3>6. QED
      BY <1>7, <3>4, <3>5, NoneIsNoGrant DEF Refused
  <2>3. QED
    BY <1>1, <1>3, <1>4, <2>1, <2>2, Leaves
<1>8. CASE GrantLost(r)
  <2>1. /\ cause' \in [Sid -> SUBSET {"wanted", "fault"}] /\ cause'[s] = cause[s] \cup {"fault"}
        /\ \A u \in Sid \ {s} : cause'[u] = cause[u]
    BY <1>1, <1>2, <1>8, CauseTypes DEF GrantLost
  <2>2. Goes(r, s, q("drop")) /\ UNCHANGED rows
    BY <1>3, <1>4, <1>8, <2>1 DEF GrantLost, Goes, loginVars
  <2>3. ~NoFault(s)'
    BY <2>1 DEF NoFault
  <2>4. QED
    BY <1>1, <1>3, <1>4, <2>1, <2>2, <2>3, Leaves
<1>9. CASE GrantWithoutIdToken(r)
  <2>1. /\ cause' \in [Sid -> SUBSET {"wanted", "fault"}] /\ cause'[s] = cause[s] \cup {"fault"}
        /\ \A u \in Sid \ {s} : cause'[u] = cause[u]
    BY <1>1, <1>2, <1>9, CauseTypes DEF GrantWithoutIdToken
  <2>2. Goes(r, s, Idle) /\ UNCHANGED rows
    BY <1>2, <1>4, <1>9, <2>1 DEF GrantWithoutIdToken, Answer, Goes, loginVars
  <2>3. ~NoFault(s)'
    BY <2>1 DEF NoFault
  <2>4. QED
    BY <1>1, <1>2, <1>4, <2>1, <2>2, <2>3, Leaves
<1>10. CASE Store(r)
  <2>1. req[r].idToken \in Grant \cup {None} /\ req[r].refreshToken \in Grant \cup {None}
    BY <1>2 DEF Req
  <2>2. /\ RowStays(s) /\ rows'[s].state = rows[s].state
        /\ rows[s].state = "live" => rows'[s].refreshToken = req[r].refreshToken
        /\ rows[s].state # "live" => rows'[s] = rows[s]
    BY <1>1, <1>2, <1>10, <2>1, Updated DEF Store
  <2>3. Goes(r, s, Idle) /\ UNCHANGED <<cause, valid>> /\ req[r].pc = "store"
    BY <1>2, <1>4, <1>10, <2>2 DEF Store, Answer, Goes, loginVars
  <2>4. QED
    BY <1>1, <1>2, <1>4, <2>2, <2>3, Leaves
<1>11. CASE StoreFails(r)
  <2>1. req[r].idToken \in Grant \cup {None} /\ req[r].refreshToken \in Grant \cup {None}
    BY <1>2 DEF Req
  <2>2. /\ RowStays(s) /\ rows'[s].state = rows[s].state
        /\ rows'[s].refreshToken \in {rows[s].refreshToken, req[r].refreshToken}
    BY <1>1, <1>2, <1>4, <1>11, <2>1, Updated DEF StoreFails
  <2>3. /\ cause' \in [Sid -> SUBSET {"wanted", "fault"}] /\ cause'[s] = cause[s] \cup {"fault"}
        /\ \A u \in Sid \ {s} : cause'[u] = cause[u]
    BY <1>1, <1>2, <1>11, CauseTypes DEF StoreFails
  <2>4. Goes(r, s, q("drop"))
    BY <1>3, <1>11, <2>2, <2>3 DEF StoreFails, Goes, loginVars
  <2>5. ~NoFault(s)'
    BY <2>3 DEF NoFault
  <2>6. QED
    BY <1>1, <1>3, <2>2, <2>3, <2>4, <2>5, Leaves
<1>12. CASE Drop(r)
  <2>1. /\ RowStays(s) /\ rows'[s].refreshToken = rows[s].refreshToken
    BY <1>1, <1>2, <1>12, Deleted DEF Drop
  <2>2. Goes(r, s, Idle) /\ UNCHANGED <<cause, valid>> /\ req[r].pc = "drop"
    BY <1>2, <1>4, <1>12, <2>1 DEF Drop, Answer, Goes, loginVars
  <2>3. cause[s] # {}
    BY <1>1, <1>2, <2>2 DEF SessionInv, DropsAreBlamed, At
  <2>4. QED
    BY <1>1, <1>2, <1>4, <2>1, <2>2, <2>3, Leaves
<1>13. CASE DropFails(r)
  <2>1. /\ cause' \in [Sid -> SUBSET {"wanted", "fault"}] /\ cause'[s] = cause[s] \cup {"fault"}
        /\ \A u \in Sid \ {s} : cause'[u] = cause[u]
    BY <1>1, <1>2, <1>13, CauseTypes DEF DropFails
  <2>2. Goes(r, s, Idle) /\ UNCHANGED rows
    BY <1>2, <1>4, <1>13, <2>1 DEF DropFails, Answer, Goes, loginVars
  <2>3. ~NoFault(s)'
    BY <2>1 DEF NoFault
  <2>4. QED
    BY <1>1, <1>2, <1>4, <2>1, <2>2, <2>3, Leaves
<1>14. CASE Logout(r)
  <2>1. /\ RowStays(s) /\ rows'[s].refreshToken = rows[s].refreshToken
    BY <1>1, <1>2, <1>14, Deleted DEF Logout
  <2>2. /\ cause' \in [Sid -> SUBSET {"wanted", "fault"}] /\ cause'[s] = cause[s] \cup {"wanted"}
        /\ \A u \in Sid \ {s} : cause'[u] = cause[u]
    BY <1>1, <1>2, <1>14, CauseTypes DEF Logout
  <2>3. Goes(r, s, q("clear")) /\ UNCHANGED valid /\ req[r].pc = "logout"
    BY <1>3, <1>14, <2>1, <2>2 DEF Logout, Goes, loginVars
  <2>4. QED
    BY <1>1, <1>3, <2>1, <2>2, <2>3, Leaves
<1>15. QED
  BY <1>5, <1>6, <1>7, <1>8, <1>9, <1>10, <1>11, <1>12, <1>13, <1>14
-----------------------------------------------------------------------------
(* A request that meets another of its session at one of the calls pcs is a *)
(* fault of the session.                                                    *)
LEMMA Overlap ==
  ASSUME TypeOK, NEW r \in Request, NEW s \in Sid, req[r].sid = s,
         NEW pcs, BlameOverlap(r, pcs)
  PROVE  /\ cause' \in [Sid -> SUBSET {"wanted", "fault"}] /\ cause[s] \subseteq cause'[s]
         /\ \A u \in Sid \ {s} : cause'[u] = cause[u]
         /\ NoFault(s)' => \A d \in Request \ {r} : req[d].sid = s => req[d].pc \notin pcs
<1>1. CASE \E d \in Request \ {r} : req[d].sid = req[r].sid /\ req[d].pc \in pcs
  <2>1. Blame(s, "fault")
    BY <1>1 DEF BlameOverlap
  <2>2. QED
    BY <2>1, CauseTypes DEF NoFault
<1>2. CASE ~\E d \in Request \ {r} : req[d].sid = req[r].sid /\ req[d].pc \in pcs
  BY <1>2 DEF BlameOverlap, TypeOK
<1>3. QED
  BY <1>1, <1>2

LEMMA InvSelect == ASSUME IInv, NEW r \in Request, Select(r) PROVE IInv'
<1>1. PICK s \in Sid : s = req[r].sid
  BY DEF IInv, TokenInv, RequestsHold, Select
<1>2. /\ TypeOK /\ req[r] \in Req /\ rows[s] \in Row /\ SessionInv(s)
  BY DEF IInv, TypeOK, TokenInv
<1>3. PICK q \in Req :
        /\ req' = [req EXCEPT ![r] = q] /\ q.pc = "check" /\ q.sid = s
        /\ q.refreshToken = rows[s].refreshToken
  <2> DEFINE q == [req[r] EXCEPT !.pc = "check", !.idToken = rows[s].idToken,
                                 !.refreshToken = rows[s].refreshToken]
  <2>1. q \in Req /\ q.pc = "check" /\ q.sid = s /\ q.refreshToken = rows[s].refreshToken
    BY <1>1, <1>2 DEF Req, Row
  <2>2. req' = [req EXCEPT ![r] = q]
    BY <1>1, <1>2 DEF Select, TypeOK, Req
  <2> HIDE DEF q
  <2>3. QED
    BY <2>1, <2>2
<1>4. /\ cause' \in [Sid -> SUBSET {"wanted", "fault"}] /\ cause[s] \subseteq cause'[s]
      /\ \A u \in Sid \ {s} : cause'[u] = cause[u]
      /\ NoFault(s)' => \A d \in Request \ {r} : req[d].sid = s =>
                           req[d].pc \notin {"grant", "store", "drop"}
  <2>1. BlameOverlap(r, {"grant", "store", "drop"})
    BY DEF Select
  <2>2. QED
    BY <1>1, <1>2, <2>1, Overlap
<1>5. /\ UNCHANGED <<rows, cookie, loginVars, key, age, valid>>
      /\ rows[s].state = "live" /\ req[r].pc = "select"
  BY <1>1 DEF Select, Readable
<1>6. Goes(r, s, q)
  BY <1>2, <1>3, <1>4, <1>5 DEF Goes, RowStays, TypeOK
<1>7. /\ req'[r] = q /\ \A d \in Request \ {r} : req'[d] = req[d]
  BY <1>2, <1>3, ReqAfter
<1>8. RefreshesAlone(s)'
  BY <1>3, <1>4, <1>7 DEF RefreshesAlone, At
<1>9. TokensAreGood(s)'
  <2> SUFFICES ASSUME NoFault(s)'
               PROVE  /\ rows'[s].refreshToken \in valid' \cup {None}
                      /\ \A d \in Request :
                           /\ At(d, s, {"check", "grant"})' =>
                                req'[d].refreshToken = rows'[s].refreshToken
                           /\ ~At(d, s, {"store"})'
    BY DEF TokensAreGood
  <2>1. NoFault(s)
    BY <1>4 DEF NoFault
  <2>2. \A d \in Request : ~At(d, s, {"store"}) /\ ~At(d, s, {"store"})'
    BY <1>3, <1>4, <1>5, <1>7 DEF At
  <2>3. /\ rows[s].refreshToken \in valid \cup {None}
        /\ \A d \in Request : At(d, s, {"check", "grant"}) => req[d].refreshToken = rows[s].refreshToken
    BY <1>2, <1>5, <2>1, <2>2 DEF SessionInv, TokensAreGood
  <2>4. QED
    BY <1>3, <1>5, <1>7, <2>2, <2>3 DEF At
<1>10. DropsAreBlamed(s)'
  BY <1>2, <1>3, <1>4, <1>5, <1>7 DEF SessionInv, DropsAreBlamed, At
<1>11. QED
  BY <1>1, <1>6, <1>8, <1>9, <1>10, RequestGoes DEF SessionInv

LEMMA InvRefresh == ASSUME IInv, NEW r \in Request, Refresh(r) PROVE IInv'
<1>1. PICK s \in Sid : s = req[r].sid
  BY DEF IInv, TokenInv, RequestsHold, Refresh
<1>2. /\ TypeOK /\ req[r] \in Req /\ rows[s] \in Row /\ SessionInv(s)
  BY DEF IInv, TypeOK, TokenInv
<1>3. PICK q \in Req :
        /\ req' = [req EXCEPT ![r] = q] /\ q.pc = "grant" /\ q.sid = s
        /\ q.refreshToken = req[r].refreshToken
  <2> DEFINE q == [req[r] EXCEPT !.pc = "grant"]
  <2>1. q \in Req /\ q.pc = "grant" /\ q.sid = s /\ q.refreshToken = req[r].refreshToken
    BY <1>1, <1>2 DEF Req
  <2>2. req' = [req EXCEPT ![r] = q]
    BY <1>2 DEF Refresh, Goto, TypeOK, Req
  <2> HIDE DEF q
  <2>3. QED
    BY <2>1, <2>2
<1>4. /\ cause' \in [Sid -> SUBSET {"wanted", "fault"}] /\ cause[s] \subseteq cause'[s]
      /\ \A u \in Sid \ {s} : cause'[u] = cause[u]
      /\ NoFault(s)' => \A d \in Request \ {r} : req[d].sid = s =>
                           req[d].pc \notin {"check", "grant", "store", "drop"}
  <2>1. BlameOverlap(r, {"check", "grant", "store", "drop"})
    BY DEF Refresh
  <2>2. QED
    BY <1>1, <1>2, <2>1, Overlap
<1>5. /\ UNCHANGED <<rows, cookie, loginVars, key, age, valid>>
      /\ req[r].pc = "check" /\ req[r].refreshToken \in Grant
  BY <1>2 DEF Refresh, NeedsRefresh, Req
<1>6. Goes(r, s, q)
  BY <1>2, <1>3, <1>4, <1>5 DEF Goes, RowStays, TypeOK
<1>7. /\ req'[r] = q /\ \A d \in Request \ {r} : req'[d] = req[d]
  BY <1>2, <1>3, ReqAfter
<1>8. RefreshesAlone(s)'
  BY <1>3, <1>4, <1>7 DEF RefreshesAlone, At
<1>9. TokensAreGood(s)'
  <2> SUFFICES ASSUME rows'[s].state = "live", NoFault(s)'
               PROVE  /\ rows'[s].refreshToken \in valid' \cup {None}
                      /\ \A d \in Request :
                           /\ At(d, s, {"check", "grant"})' =>
                                req'[d].refreshToken = rows'[s].refreshToken
                           /\ ~At(d, s, {"store"})'
    BY DEF TokensAreGood
  <2>1. NoFault(s)
    BY <1>4 DEF NoFault
  <2>2. \A d \in Request : ~At(d, s, {"store"}) /\ ~At(d, s, {"store"})'
    BY <1>3, <1>4, <1>5, <1>7 DEF At
  <2>3. /\ rows[s].refreshToken \in valid \cup {None}
        /\ \A d \in Request : At(d, s, {"check", "grant"}) => req[d].refreshToken = rows[s].refreshToken
    BY <1>2, <1>5, <2>1, <2>2 DEF SessionInv, TokensAreGood
  <2>4. req[r].refreshToken = rows[s].refreshToken
    BY <1>1, <1>5, <2>3 DEF At
  <2>5. QED
    BY <1>3, <1>5, <1>7, <2>2, <2>3, <2>4 DEF At
<1>10. DropsAreBlamed(s)'
  BY <1>2, <1>3, <1>4, <1>5, <1>7 DEF SessionInv, DropsAreBlamed, At
<1>11. QED
  BY <1>1, <1>6, <1>8, <1>9, <1>10, RequestGoes DEF SessionInv

(* The provider's answer: the new refresh token is nobody's yet, and the    *)
(* one it may replace is no other session's.                                *)
LEMMA InvGranted == ASSUME IInv, NEW r \in Request, NEW g \in Grant, Granted(r, g) PROVE IInv'
<1>1. PICK s \in Sid : s = req[r].sid
  BY DEF IInv, TokenInv, RequestsHold, Granted
<1>2. /\ TypeOK /\ req[r] \in Req /\ rows[s] \in Row /\ SessionInv(s)
      /\ req[r].refreshToken \in Grant /\ req[r].refreshToken \in valid /\ req[r].pc = "grant"
  BY DEF IInv, TypeOK, TokenInv, RequestsHold, Granted
<1>3. PICK q \in Req :
        /\ req' = [req EXCEPT ![r] = q] /\ q.pc = "store" /\ q.sid = s
        /\ \/ q.refreshToken = g /\ valid' = (valid \ {req[r].refreshToken}) \cup {g}
           \/ q.refreshToken = req[r].refreshToken /\ valid' = valid
  <2>1. PICK issued \in {g, None} :
          /\ valid' = IF issued = g THEN (valid \ {req[r].refreshToken}) \cup {g} ELSE valid
          /\ req' = [req EXCEPT ![r].pc = "store", ![r].idToken = g,
                       ![r].refreshToken = NextRefreshToken(req[r], issued)]
    BY DEF Granted
  <2>2. PICK t \in Grant : t = NextRefreshToken(req[r], issued)
    BY <1>2, <2>1 DEF NextRefreshToken
  <2> DEFINE q == [req[r] EXCEPT !.pc = "store", !.idToken = g, !.refreshToken = t]
  <2>3. q \in Req /\ q.pc = "store" /\ q.sid = s /\ q.refreshToken = t
    BY <1>1, <1>2 DEF Req
  <2>4. req' = [req EXCEPT ![r] = q]
    BY <1>2, <2>1, <2>2 DEF TypeOK, Req
  <2>5. \/ t = g /\ valid' = (valid \ {req[r].refreshToken}) \cup {g}
        \/ t = req[r].refreshToken /\ valid' = valid
    BY <2>1, <2>2, NoneIsNoGrant DEF NextRefreshToken
  <2> HIDE DEF q
  <2>6. QED
    BY <2>3, <2>4, <2>5
<1>4. /\ UNCHANGED <<rows, cookie, loginVars, key, cause>>
      /\ age[g] = "future" /\ age' = [age EXCEPT ![g] = "fresh"]
  BY DEF Granted, Issue
<1>5. /\ req' \in [Request -> Req] /\ req'[r] = q /\ \A d \in Request \ {r} : req'[d] = req[d]
  BY <1>2, <1>3, ReqAfter
<1>6. q.refreshToken \in Grant
  BY <1>2, <1>3
<1>7. TypeOK'
  BY <1>2, <1>3, <1>4, <1>5 DEF TypeOK, loginVars
<1>8. RequestsHold'
  BY <1>3, <1>5, <1>6 DEF IInv, TokenInv, RequestsHold
<1>9. UnbornIsUnknown'
  <2>1. rows[s].state # "unborn"
    BY <1>1 DEF IInv, TokenInv, UnbornIsUnknown
  <2>2. QED
    BY <1>3, <1>4, <1>5, <2>1 DEF IInv, TokenInv, UnbornIsUnknown, loginVars
<1>10. \A u \in Sid, h \in Grant : HeldBy(u, h)' => HeldBy(u, h) \/ (u = s /\ h = g)
  BY <1>1, <1>3, <1>4, <1>5 DEF HeldBy
<1>11. \A u \in Sid : ~HeldBy(u, g)
  BY <1>4 DEF IInv, TokenInv, HeldIsIssued
<1>12. HeldOnce'
  BY <1>10, <1>11 DEF IInv, TokenInv, HeldOnce
<1>13. HeldIsIssued'
  <2>1. \A h \in Grant : age'[h] = "future" => age[h] = "future" /\ h # g
    BY <1>2, <1>4 DEF TypeOK
  <2>2. QED
    BY <1>3, <1>10, <2>1 DEF IInv, TokenInv, HeldIsIssued
<1>14. ASSUME NEW u \in Sid, u # s PROVE SessionInv(u)'
  BY <1>1, <1>3, <1>4, <1>5, <1>14, OtherSession
<1>15. RefreshesAlone(s)'
  <2> SUFFICES ASSUME NoFault(s)', NEW d \in Request, NEW e \in Request, d # e,
                      At(d, s, {"grant", "store"})', At(e, s, {"check", "grant", "store"})'
               PROVE  FALSE
    BY DEF RefreshesAlone
  <2>1. NoFault(s)
    BY <1>4 DEF NoFault
  <2>2. At(r, s, {"grant", "store"}) /\ At(r, s, {"check", "grant", "store"})
    BY <1>1, <1>2 DEF At
  <2>3. \A f \in Request : At(f, s, {"grant", "store"})' => At(f, s, {"grant", "store"})
    BY <1>5, <2>2 DEF At
  <2>4. \A f \in Request : At(f, s, {"check", "grant", "store"})' => At(f, s, {"check", "grant", "store"})
    BY <1>5, <2>2 DEF At
  <2>5. QED
    BY <1>2, <2>1, <2>3, <2>4 DEF SessionInv, RefreshesAlone
<1>16. TokensAreGood(s)'
  <2> SUFFICES ASSUME NoFault(s)'
               PROVE  /\ At(r, s, {"store"})' /\ req'[r].refreshToken \in valid'
                      /\ \A d \in Request \ {r} : ~At(d, s, {"check", "grant", "store"})'
    BY <1>3, <1>5 DEF TokensAreGood, At
  <2>1. At(r, s, {"grant", "store"}) /\ NoFault(s)
    BY <1>1, <1>2, <1>4 DEF At, NoFault
  <2>2. \A d \in Request \ {r} : ~At(d, s, {"check", "grant", "store"})
    BY <1>2, <2>1 DEF SessionInv, RefreshesAlone
  <2>3. QED
    BY <1>2, <1>3, <1>5, <2>2 DEF At
<1>17. DropsAreBlamed(s)'
  BY <1>2, <1>3, <1>4, <1>5 DEF SessionInv, DropsAreBlamed, At
<1>18. \A u \in Sid : SessionInv(u)'
  BY <1>14, <1>15, <1>16, <1>17 DEF SessionInv
<1>19. QED
  BY <1>7, <1>8, <1>9, <1>12, <1>13, <1>18 DEF IInv, TokenInv
-----------------------------------------------------------------------------
(* The steps of the browser, the login and time: what a session's requests  *)
(* rely on stays.                                                           *)
LEMMA SessionStays ==
  ASSUME IInv, NEW s \in Sid,
         rows'[s].state = rows[s].state, rows'[s].refreshToken = rows[s].refreshToken,
         cause'[s] = cause[s], valid \subseteq valid',
         \A d \in Request :
           \/ req'[d] = req[d]
           \/ req[d] = Idle /\ req'[d].pc \in {"select", "logout"}
  PROVE  SessionInv(s)'
<1>1. SessionInv(s)
  BY DEF IInv, TokenInv
<1>2. \A d \in Request : req'[d].sid = s /\ req'[d].pc \in {"check", "grant", "store", "drop"}
                            => req'[d] = req[d]
  OBVIOUS
<1>3. \A d \in Request : req[d].sid = s => req'[d] = req[d]
  BY NoneIsNoGrant DEF Idle
<1>4. RefreshesAlone(s)'
  BY <1>1, <1>2 DEF SessionInv, RefreshesAlone, NoFault, At
<1>5. TokensAreGood(s)'
  <2> SUFFICES ASSUME rows'[s].state = "live", NoFault(s)'
               PROVE  /\ (\A d \in Request : ~At(d, s, {"store"})') =>
                           rows'[s].refreshToken \in valid' \cup {None}
                      /\ \A d \in Request :
                           /\ At(d, s, {"check", "grant"})' =>
                                req'[d].refreshToken = rows'[s].refreshToken
                           /\ At(d, s, {"store"})' => req'[d].refreshToken \in valid'
    BY DEF TokensAreGood
  <2>1. rows[s].state = "live" /\ NoFault(s)
    BY DEF NoFault
  <2>2. (\A d \in Request : ~At(d, s, {"store"})') => \A d \in Request : ~At(d, s, {"store"})
    BY <1>3 DEF At
  <2>3. QED
    BY <1>1, <1>2, <2>1, <2>2 DEF SessionInv, TokensAreGood, At
<1>6. DropsAreBlamed(s)'
  BY <1>1, <1>2 DEF SessionInv, DropsAreBlamed, At
<1>7. QED
  BY <1>4, <1>5, <1>6 DEF SessionInv

LEMMA InvArrive ==
  ASSUME IInv, NEW r \in Request, NEW pc \in {"select", "logout"}, Arrive(r, pc)
  PROVE  IInv'
<1>1. /\ TypeOK /\ req[r] = Idle /\ cookie \in Sid
      /\ UNCHANGED <<rows, cookie, loginVars, key, age, valid, cause>>
  BY DEF IInv, TypeOK, Arrive
<1>2. PICK q \in Req :
        /\ req' = [req EXCEPT ![r] = q]
        /\ q.pc = pc /\ q.sid = cookie /\ q.refreshToken = None
  <2> DEFINE q == [Idle EXCEPT !.pc = pc, !.sid = cookie]
  <2>1. q \in Req /\ q.pc = pc /\ q.sid = cookie /\ q.refreshToken = None
    BY <1>1 DEF Idle, Req
  <2>2. req' = [req EXCEPT ![r] = q]
    BY <1>1 DEF Arrive, TypeOK, Req
  <2> HIDE DEF q
  <2>3. QED
    BY <2>1, <2>2
<1>3. /\ req' \in [Request -> Req] /\ req'[r] = q /\ \A d \in Request \ {r} : req'[d] = req[d]
  BY <1>1, <1>2, ReqAfter
<1>4. TypeOK'
  BY <1>1, <1>3 DEF TypeOK, loginVars
<1>5. RequestsHold'
  BY <1>1, <1>2, <1>3 DEF IInv, TokenInv, RequestsHold
<1>6. UnbornIsUnknown'
  BY <1>1, <1>2, <1>3 DEF IInv, TokenInv, UnbornIsUnknown, loginVars
<1>7. HeldOnce' /\ HeldIsIssued'
  <2>1. \A u \in Sid, g \in Grant : HeldBy(u, g)' => HeldBy(u, g)
    BY <1>1, <1>2, <1>3, NoneIsNoGrant DEF HeldBy
  <2>2. QED
    BY <1>1, <2>1, Narrows DEF IInv, TokenInv
<1>8. \A u \in Sid : SessionInv(u)'
  BY <1>1, <1>2, <1>3, SessionStays
<1>9. QED
  BY <1>4, <1>5, <1>6, <1>7, <1>8 DEF IInv, TokenInv

(* A new session's refresh token is a new grant's.                          *)
LEMMA InvCreate ==
  ASSUME IInv, NEW f \in Flow, NEW s \in Sid, NEW g \in Grant, CreateSession(f, s, g)
  PROVE  IInv'
<1>1. /\ TypeOK /\ rows[s].state = "unborn"
      /\ age[g] = "future" /\ age' = [age EXCEPT ![g] = "fresh"]
      /\ UNCHANGED <<cookie, stateCookie, key, req, cause>>
  BY DEF IInv, CreateSession, Issue
<1>2. PICK t \in {g, None} :
        /\ rows' = [rows EXCEPT ![s] = [state |-> "live", idToken |-> g,
                      refreshToken |-> t, key |-> key, over |-> FALSE]]
        /\ valid' = valid \cup ({t} \ {None})
  BY DEF CreateSession
<1>3. /\ rows' \in [Sid -> Row] /\ \A u \in Sid \ {s} : rows'[u] = rows[u]
      /\ rows'[s].state = "live" /\ rows'[s].refreshToken = t
  BY <1>1, <1>2, RowTypes DEF TypeOK
<1>4. flow' \in [Flow -> Login] /\ \A h \in Flow : flow'[h] = flow[h] \/ flow'[h].sid = s
  BY <1>1 DEF CreateSession, TypeOK, Login, Out
<1>5. TypeOK'
  <2>1. valid' \subseteq Grant /\ age' \in [Grant -> {"future", "fresh", "near"}]
    BY <1>1, <1>2 DEF TypeOK
  <2>2. QED
    BY <1>1, <1>3, <1>4, <2>1 DEF TypeOK
<1>6. RequestsHold'
  BY <1>1 DEF IInv, TokenInv, RequestsHold
<1>7. UnbornIsUnknown'
  <2>1. \A u \in Sid : rows'[u].state = "unborn" => u # s /\ rows'[u] = rows[u]
    BY <1>3
  <2>2. QED
    BY <1>1, <1>4, <2>1 DEF IInv, TokenInv, UnbornIsUnknown
<1>8. \A u \in Sid, h \in Grant : HeldBy(u, h)' => HeldBy(u, h) \/ (u = s /\ h = g)
  BY <1>1, <1>3, NoneIsNoGrant DEF HeldBy
<1>9. \A u \in Sid : ~HeldBy(u, g)
  BY <1>1 DEF IInv, TokenInv, HeldIsIssued
<1>10. HeldOnce'
  BY <1>8, <1>9 DEF IInv, TokenInv, HeldOnce
<1>11. HeldIsIssued'
  <2>1. \A h \in Grant : age'[h] = "future" => age[h] = "future" /\ h # g
    BY <1>1 DEF TypeOK
  <2>2. QED
    BY <1>2, <1>8, <2>1 DEF IInv, TokenInv, HeldIsIssued
<1>12. ASSUME NEW u \in Sid, u # s PROVE SessionInv(u)'
  BY <1>1, <1>2, <1>3, <1>12, SessionStays
<1>13. SessionInv(s)'
  <2>1. \A d \in Request : req'[d].sid # s
    BY <1>1 DEF IInv, TokenInv, UnbornIsUnknown
  <2>2. RefreshesAlone(s)' /\ DropsAreBlamed(s)'
    BY <1>3, <2>1 DEF RefreshesAlone, DropsAreBlamed, At
  <2>3. t \in valid' \cup {None}
    BY <1>2
  <2>4. TokensAreGood(s)'
    BY <1>3, <2>1, <2>3 DEF TokensAreGood, At
  <2>5. QED
    BY <2>2, <2>4 DEF SessionInv
<1>14. QED
  BY <1>5, <1>6, <1>7, <1>10, <1>11, <1>12, <1>13 DEF IInv, TokenInv

(* The other steps of a login, and time, touch no token.                    *)
LEMMA InvLogin ==
  ASSUME IInv,
         \/ \E f \in Flow : \/ BeginLogin(f) \/ Callback(f) \/ CallbackRefused(f)
                             \/ LoginAnswered(f) \/ LoginFails(f)
         \/ StateCookieExpires
         \/ \E g \in Grant : Age(g)
         \/ \E s \in Sid : Expire(s)
  PROVE  IInv'
<1>1. TypeOK /\ \A f : ExcuseOthers(f) \in [Flow -> Login]
  BY ExcusedType DEF IInv
<1>2. \A f : \A h \in Flow : ExcuseOthers(f)[h].sid = flow[h].sid
  BY <1>1 DEF ExcuseOthers, TypeOK, Login
<1>3. /\ UNCHANGED <<key, req, valid, cause>>
      /\ rows' \in [Sid -> Row] /\ age' \in [Grant -> {"future", "fresh", "near"}]
      /\ \A s \in Sid : /\ rows'[s].state = rows[s].state
                        /\ rows'[s].refreshToken = rows[s].refreshToken
      /\ \A g \in Grant : age'[g] = "future" => age[g] = "future"
      /\ flow' \in [Flow -> Login] /\ stateCookie' \in Flow \cup {None}
      /\ \A f \in Flow : flow'[f].sid \in {flow[f].sid, None}
      /\ \/ cookie' = cookie
         \/ \E f \in Flow : cookie' = flow[f].sid
  <2>1. ASSUME NEW f \in Flow, BeginLogin(f)
        PROVE  /\ UNCHANGED <<rows, cookie, key, req, age, valid, cause>>
               /\ flow' \in [Flow -> Login] /\ stateCookie' \in Flow \cup {None}
               /\ \A h \in Flow : flow'[h].sid = flow[h].sid
    <3>1. ExcuseOthers(f) \in [Flow -> Login]
      BY <1>1
    <3>2. flow' = [ExcuseOthers(f) EXCEPT ![f].pc = "provider"]
      BY <2>1 DEF BeginLogin
    <3>3. /\ flow' \in [Flow -> Login]
          /\ \A h \in Flow : flow'[h].sid = ExcuseOthers(f)[h].sid
      BY <3>1, <3>2 DEF Login
    <3>4. QED
      BY <1>2, <2>1, <3>3 DEF BeginLogin
  <2>2. ASSUME NEW f \in Flow, Callback(f) \/ CallbackRefused(f) \/ LoginFails(f)
        PROVE  /\ UNCHANGED <<rows, cookie, stateCookie, key, req, age, valid, cause>>
               /\ flow' \in [Flow -> Login]
               /\ \A h \in Flow : flow'[h].sid \in {flow[h].sid, None}
    <3>1. PICK l \in Login : l.sid = None /\ flow' = [flow EXCEPT ![f] = l]
      <4>1. /\ Out \in Login /\ Out.sid = None
            /\ [Out EXCEPT !.pc = "exchange"] \in Login /\ [Out EXCEPT !.pc = "exchange"].sid = None
        BY DEF Out, Login
      <4>2. flow' \in {[flow EXCEPT ![f] = Out], [flow EXCEPT ![f] = [Out EXCEPT !.pc = "exchange"]]}
        BY <2>2 DEF Callback, CallbackRefused, LoginFails
      <4>3. QED
        BY <4>1, <4>2
    <3>2. /\ flow' \in [Flow -> Login]
          /\ \A h \in Flow : flow'[h].sid \in {flow[h].sid, None}
      BY <1>1, <3>1 DEF TypeOK
    <3>3. QED
      BY <2>2, <3>2 DEF Callback, CallbackRefused, LoginFails
  <2>3. ASSUME NEW f \in Flow, LoginAnswered(f)
        PROVE  /\ UNCHANGED <<rows, key, req, age, valid, cause>>
               /\ cookie' = flow[f].sid /\ stateCookie' = None
               /\ flow' \in [Flow -> Login]
               /\ \A h \in Flow : flow'[h].sid \in {flow[h].sid, None}
    <3>1. ExcuseOthers(f) \in [Flow -> Login] /\ Out \in Login /\ Out.sid = None
      BY <1>1, LoginTypes DEF Out
    <3>2. flow' = [ExcuseOthers(f) EXCEPT ![f] = Out]
      BY <2>3 DEF LoginAnswered
    <3>3. /\ flow' \in [Flow -> Login]
          /\ \A h \in Flow : flow'[h].sid \in {ExcuseOthers(f)[h].sid, None}
      BY <3>1, <3>2
    <3>4. QED
      BY <1>2, <2>3, <3>3 DEF LoginAnswered
  <2>4. CASE StateCookieExpires
    BY <1>1, <1>2, <2>4 DEF StateCookieExpires, TypeOK
  <2>5. ASSUME NEW g \in Grant, Age(g)
        PROVE  /\ UNCHANGED <<rows, cookie, loginVars, key, req, valid, cause>>
               /\ age' \in [Grant -> {"future", "fresh", "near"}]
               /\ \A h \in Grant : age'[h] = "future" => age[h] = "future"
    BY <1>1, <2>5 DEF Age, TypeOK
  <2>6. ASSUME NEW s \in Sid, Expire(s)
        PROVE  /\ UNCHANGED <<cookie, loginVars, key, req, age, valid, cause>>
               /\ rows' \in [Sid -> Row]
               /\ \A u \in Sid : /\ rows'[u].state = rows[u].state
                                 /\ rows'[u].refreshToken = rows[u].refreshToken
    <3>1. PICK w \in Row : /\ rows' = [rows EXCEPT ![s] = w]
                          /\ w.state = rows[s].state /\ w.refreshToken = rows[s].refreshToken
      <4> DEFINE w == [rows[s] EXCEPT !.over = TRUE]
      <4>1. w \in Row /\ w.state = rows[s].state /\ w.refreshToken = rows[s].refreshToken
        BY <1>1 DEF TypeOK, Row
      <4>2. rows' = [rows EXCEPT ![s] = w]
        BY <1>1, <2>6 DEF Expire, TypeOK, Row
      <4> HIDE DEF w
      <4>3. QED
        BY <4>1, <4>2
    <3>2. UNCHANGED <<cookie, loginVars, key, req, age, valid, cause>>
      BY <2>6 DEF Expire
    <3>3. rows \in [Sid -> Row]
      BY <1>1 DEF TypeOK
    <3>4. rows' \in [Sid -> Row]
      BY <3>1, <3>3
    <3>5. ASSUME NEW u \in Sid
          PROVE  rows'[u].state = rows[u].state /\ rows'[u].refreshToken = rows[u].refreshToken
      BY <3>1, <3>3
    <3>6. QED
      BY <3>2, <3>4, <3>5
  <2>7. CASE \E f \in Flow : \/ BeginLogin(f) \/ Callback(f) \/ CallbackRefused(f)
                              \/ LoginAnswered(f) \/ LoginFails(f)
    BY <1>1, <2>1, <2>2, <2>3, <2>7 DEF TypeOK
  <2>8. CASE (\E g \in Grant : Age(g)) \/ \E s \in Sid : Expire(s)
    BY <1>1, <2>5, <2>6, <2>8 DEF TypeOK, loginVars
  <2>9. CASE StateCookieExpires
    BY <1>1, <1>2, <2>4, <2>9 DEF StateCookieExpires, TypeOK
  <2>10. QED
    BY <2>7, <2>8, <2>9
<1>4. cookie' \in Sid \cup {None}
  BY <1>1, <1>3 DEF TypeOK, Login
<1>5. TypeOK'
  BY <1>1, <1>3, <1>4 DEF TypeOK
<1>6. RequestsHold'
  BY <1>3 DEF IInv, TokenInv, RequestsHold
<1>7. UnbornIsUnknown'
  BY <1>3, NoneIsNoGrant DEF IInv, TokenInv, UnbornIsUnknown
<1>8. HeldOnce' /\ HeldIsIssued'
  <2>1. \A u \in Sid, g \in Grant : HeldBy(u, g)' => HeldBy(u, g)
    BY <1>3 DEF HeldBy
  <2>2. QED
    BY <1>3, <2>1, Narrows DEF IInv, TokenInv
<1>9. \A u \in Sid : SessionInv(u)'
  BY <1>3, SessionStays
<1>10. QED
  BY <1>5, <1>6, <1>7, <1>8, <1>9 DEF IInv, TokenInv

(* A restart loses the requests, and blames their sessions.                 *)
LEMMA InvRestart == ASSUME IInv, Restart PROVE IInv'
<1>1. /\ TypeOK /\ Idle \in Req /\ Idle.pc = "idle" /\ Idle.sid = None /\ Idle.refreshToken = None
      /\ UNCHANGED <<rows, cookie, stateCookie, age, valid>>
      /\ \A d \in Request : req'[d] = Idle
  BY ReqTypes DEF IInv, Idle, Restart
<1>2. \A s \in Sid : /\ cause[s] \subseteq cause'[s]
                     /\ NoFault(s)' => NoFault(s) /\ \A d \in Request : req[d].sid # s
  BY DEF Restart, NoFault
<1>3. TypeOK'
  <2>1. key' \in 1..MaxKey
    BY DEF Restart
  <2>2. req' \in [Request -> Req]
    BY <1>1 DEF Restart
  <2>3. cause' \in [Sid -> SUBSET {"wanted", "fault"}]
    BY <1>1 DEF Restart, TypeOK
  <2>4. flow' \in [Flow -> Login]
    BY <1>1, LoginTypes DEF Restart, TypeOK
  <2>5. QED
    BY <1>1, <2>1, <2>2, <2>3, <2>4 DEF TypeOK
<1>4. RequestsHold'
  BY <1>1 DEF RequestsHold
<1>5. UnbornIsUnknown'
  <2>1. \A f \in Flow : flow'[f].sid \in {flow[f].sid, None}
    BY <1>1 DEF Restart, Out
  <2>2. QED
    BY <1>1, <2>1, NoneIsNoGrant DEF IInv, TokenInv, UnbornIsUnknown
<1>6. HeldOnce' /\ HeldIsIssued'
  <2>1. \A u \in Sid, g \in Grant : HeldBy(u, g)' => HeldBy(u, g)
    BY <1>1, NoneIsNoGrant DEF HeldBy
  <2>2. QED
    BY <1>1, <2>1, Narrows DEF IInv, TokenInv
<1>7. ASSUME NEW s \in Sid PROVE SessionInv(s)'
  <2>1. SessionInv(s)
    BY DEF IInv, TokenInv
  <2>2. \A d \in Request : req'[d].sid # s
    BY <1>1, NoneIsNoGrant
  <2>3. RefreshesAlone(s)' /\ DropsAreBlamed(s)'
    BY <1>1, <1>2, <2>1, <2>2 DEF SessionInv, RefreshesAlone, DropsAreBlamed, At
  <2>4. TokensAreGood(s)'
    <3> SUFFICES ASSUME rows'[s].state = "live", NoFault(s)'
                 PROVE  rows'[s].refreshToken \in valid' \cup {None}
      BY <2>2 DEF TokensAreGood, At
    <3>1. NoFault(s) /\ \A d \in Request : ~At(d, s, {"store"})
      BY <1>2 DEF At
    <3>2. QED
      BY <1>1, <2>1, <3>1 DEF SessionInv, TokensAreGood
  <2>5. QED
    BY <2>3, <2>4 DEF SessionInv
<1>8. QED
  BY <1>3, <1>4, <1>5, <1>6, <1>7 DEF IInv, TokenInv
-----------------------------------------------------------------------------
LEMMA InvInit == Init => IInv
<1> SUFFICES ASSUME Init PROVE IInv
  OBVIOUS
<1>1. /\ \A s \in Sid : rows[s].state = "unborn" /\ rows[s].refreshToken = None
      /\ \A r \in Request : req[r] = Idle /\ req[r].pc = "idle" /\ req[r].sid = None
      /\ \A f \in Flow : flow[f].sid = None
      /\ cookie = None /\ valid = {}
  BY DEF Init, NoRow, Idle, Out
<1>2. RequestsHold /\ UnbornIsUnknown
  BY <1>1, NoneIsNoGrant DEF RequestsHold, UnbornIsUnknown
<1>3. \A s \in Sid, g \in Grant : ~HeldBy(s, g)
  BY <1>1, NoneIsNoGrant DEF HeldBy
<1>4. HeldOnce /\ HeldIsIssued
  BY <1>1, <1>3 DEF HeldOnce, HeldIsIssued
<1>5. \A s \in Sid : SessionInv(s)
  BY <1>1 DEF SessionInv, RefreshesAlone, TokensAreGood, DropsAreBlamed, At
<1>6. QED
  BY <1>2, <1>4, <1>5, TypeInit DEF IInv, TokenInv

LEMMA Inductive == IInv /\ [Next]_vars => IInv'
<1> SUFFICES ASSUME IInv, [Next]_vars PROVE IInv'
  OBVIOUS
<1>1. CASE UNCHANGED vars
  <2>1. UNCHANGED <<rows, cookie, stateCookie, flow, key, req, age, valid, cause>>
    BY <1>1 DEF vars, loginVars
  <2>2. TypeOK' /\ RequestsHold' /\ UnbornIsUnknown'
    BY <2>1 DEF IInv, TypeOK, TokenInv, RequestsHold, UnbornIsUnknown
  <2>3. HeldOnce' /\ HeldIsIssued'
    BY <2>1, Narrows DEF IInv, TokenInv, HeldBy
  <2>4. \A s \in Sid : SessionInv(s)'
    BY <2>1, SessionStays
  <2>5. QED
    BY <2>2, <2>3, <2>4 DEF IInv, TokenInv
<1>2. ASSUME NEW r \in Request, Step(r) PROVE IInv'
  BY <1>2, InvArrive, InvSelect, InvRefresh, InvGranted, InvLeaves DEF Step
<1>3. ASSUME NEW f \in Flow,
             \/ BeginLogin(f) \/ Callback(f) \/ CallbackRefused(f)
             \/ \E s \in Sid, g \in Grant : CreateSession(f, s, g)
             \/ LoginAnswered(f) \/ LoginFails(f)
      PROVE  IInv'
  BY <1>3, InvCreate, InvLogin
<1>4. CASE StateCookieExpires \/ (\E g \in Grant : Age(g)) \/ \E s \in Sid : Expire(s)
  BY <1>4, InvLogin
<1>5. CASE Restart
  BY <1>5, InvRestart
<1>6. QED
  BY <1>1, <1>2, <1>3, <1>4, <1>5 DEF Next

LEMMA Invariance == Spec => []IInv
BY InvInit, Inductive, PTL DEF Spec

(* The table, the cookies and what the requests hold keep their types.      *)
THEOREM TypeCorrect == Spec => []TypeOK
<1>1. IInv => TypeOK
  BY DEF IInv
<1>2. QED
  BY <1>1, Invariance, PTL

(* The refresh token that getValidToken leaves in an idle session's row is  *)
(* one the provider accepts, through any number of rotations, restarts and  *)
(* concurrent requests, unless a call was lost or two requests refreshed at *)
(* once.                                                                    *)
THEOREM RefreshTokensCorrect == Spec => []RefreshTokenIsGood
<1>1. IInv => RefreshTokenIsGood
  BY DEF IInv, TokenInv, SessionInv, TokensAreGood, RefreshTokenIsGood, Busy, NoFault, At
<1>2. QED
  BY <1>1, Invariance, PTL

(* Neither catch block of getValidToken deletes a session without a reason. *)
THEOREM EndsCorrect == Spec => []EndsForAReason
<1>1. IInv => EndsForAReason
  BY DEF IInv, TokenInv, SessionInv, DropsAreBlamed, EndsForAReason
<1>2. QED
  BY <1>1, Invariance, PTL

(* A row that was deleted is not written again: updateSessionTokens of a    *)
(* refresh in flight during a logout finds no row and brings none back.     *)
THEOREM EndedForGood == Spec => EndedIsFinal
<1>1. TypeOK /\ [Next]_vars =>
        [\A s \in Sid : rows[s].state = "gone" => rows'[s] = rows[s]]_vars
  <2> SUFFICES ASSUME TypeOK, Next, NEW s \in Sid, rows[s].state = "gone"
               PROVE  rows'[s] = rows[s]
    BY DEF vars
  <2>1. ASSUME NEW u \in Sid, NEW i \in Grant \cup {None}, NEW t \in Grant \cup {None},
               \/ UpdateRow(u, i, t) \/ DeleteRow(u) \/ UNCHANGED rows
        PROVE  rows'[s] = rows[s]
    BY <2>1, Updated, Deleted DEF RowStays
  <2>2. ASSUME NEW r \in Request, Step(r) PROVE rows'[s] = rows[s]
    <3>1. CASE \/ Store(r) \/ StoreFails(r) \/ Drop(r) \/ Logout(r)
      <4>1. req[r].idToken \in Grant \cup {None} /\ req[r].refreshToken \in Grant \cup {None}
        BY DEF TypeOK, Req
      <4>2. CASE req[r].sid = s
        BY <2>1, <3>1, <4>1, <4>2 DEF Store, StoreFails, Drop, Logout
      <4>3. CASE req[r].sid # s
        BY <3>1, <4>3 DEF Store, StoreFails, Drop, Logout, UpdateRow, DeleteRow, TypeOK
      <4>4. QED
        BY <4>2, <4>3
    <3>2. CASE ~(Store(r) \/ StoreFails(r) \/ Drop(r) \/ Logout(r))
      BY <2>2, <3>2 DEF Step, Arrive, Select, SelectNothing, SelectUnreadable, AnswerAtOnce,
         Refresh, Granted, Refused, GrantLost, GrantWithoutIdToken, DropFails, ClearCookie
    <3>3. QED
      BY <3>1, <3>2
  <2>3. ASSUME NEW f \in Flow, NEW u \in Sid, NEW g \in Grant, CreateSession(f, u, g)
        PROVE  rows'[s] = rows[s]
    BY <2>3 DEF CreateSession, TypeOK
  <2>4. ASSUME NEW u \in Sid, Expire(u) PROVE rows'[s] = rows[s]
    BY <2>4 DEF Expire, Readable, TypeOK
  <2>5. QED
    BY <2>2, <2>3, <2>4 DEF Next, BeginLogin, Callback, CallbackRefused, LoginAnswered,
       LoginFails, StateCookieExpires, Age, Restart
<1>2. QED
  BY <1>1, TypeCorrect, PTL DEF Spec, EndedIsFinal

(* A login that is at the provider has its cookie, or an excuse.            *)
LEMMA CookieInit == Init => CookieOrExcuse
BY DEF Init, CookieOrExcuse, Out

LEMMA CookieInductive == TypeOK /\ CookieOrExcuse /\ [Next]_vars => CookieOrExcuse'
<1> SUFFICES ASSUME TypeOK, CookieOrExcuse, [Next]_vars, NEW h \in Flow, flow'[h].pc = "provider"
             PROVE  stateCookie' = h \/ flow'[h].excused
  BY DEF CookieOrExcuse
<1>1. flow \in [Flow -> Login] /\ \A f : ExcuseOthers(f) \in [Flow -> Login]
  BY ExcusedType DEF TypeOK
<1>2. \A f : /\ ExcuseOthers(f)[h].pc = flow[h].pc
             /\ h # f /\ flow[h].pc = "provider" => ExcuseOthers(f)[h].excused
             /\ flow[h].excused => ExcuseOthers(f)[h].excused
  BY <1>1 DEF ExcuseOthers, Login
<1>3. CASE UNCHANGED <<flow, stateCookie>>
  BY <1>3 DEF CookieOrExcuse
<1>4. ASSUME NEW f \in Flow, BeginLogin(f) PROVE stateCookie' = h \/ flow'[h].excused
  <2>1. CASE h = f
    BY <1>4, <2>1 DEF BeginLogin
  <2>2. CASE h # f
    BY <1>1, <1>2, <1>4, <2>2 DEF BeginLogin
  <2>3. QED
    BY <2>1, <2>2
<1>5. ASSUME NEW f \in Flow, Callback(f) \/ CallbackRefused(f) \/ LoginFails(f)
      PROVE  stateCookie' = h \/ flow'[h].excused
  <2>1. flow'[f].pc # "provider"
    BY <1>1, <1>5 DEF Callback, CallbackRefused, LoginFails, Out
  <2>2. h # f /\ flow'[h] = flow[h] /\ stateCookie' = stateCookie
    BY <1>1, <1>5, <2>1 DEF Callback, CallbackRefused, LoginFails
  <2>3. QED
    BY <2>2 DEF CookieOrExcuse
<1>6. ASSUME NEW f \in Flow, NEW s \in Sid, NEW g \in Grant, CreateSession(f, s, g)
      PROVE  stateCookie' = h \/ flow'[h].excused
  <2>1. flow'[f].pc # "provider"
    BY <1>1, <1>6 DEF CreateSession, Out
  <2>2. h # f /\ flow'[h] = flow[h] /\ stateCookie' = stateCookie
    BY <1>1, <1>6, <2>1 DEF CreateSession
  <2>3. QED
    BY <2>2 DEF CookieOrExcuse
<1>7. ASSUME NEW f \in Flow, LoginAnswered(f) PROVE stateCookie' = h \/ flow'[h].excused
  <2>1. h # f
    BY <1>1, <1>7 DEF LoginAnswered, Out
  <2>2. flow'[h] = ExcuseOthers(f)[h]
    BY <1>1, <1>7, <2>1 DEF LoginAnswered
  <2>3. QED
    BY <1>2, <2>1, <2>2
<1>8. CASE StateCookieExpires
  BY <1>2, <1>8, NoneIsNoGrant DEF StateCookieExpires
<1>9. CASE Restart
  <2>1. flow'[h] = flow[h] /\ stateCookie' = stateCookie
    BY <1>1, <1>9 DEF Restart, Out
  <2>2. QED
    BY <2>1 DEF CookieOrExcuse
<1>10. ASSUME NEW r \in Request, Step(r) PROVE UNCHANGED <<flow, stateCookie>>
  BY <1>10 DEF Step, Arrive, Select, SelectNothing, SelectUnreadable, AnswerAtOnce,
     Refresh, Granted, Refused, GrantLost, GrantWithoutIdToken, Store, StoreFails, Drop,
     DropFails, Logout, ClearCookie, ClearsState, loginVars
<1>11. QED
  BY <1>3, <1>4, <1>5, <1>6, <1>7, <1>8, <1>9, <1>10 DEF Next, Age, Expire, vars, loginVars

(* The callback route refuses nobody whose login was the last that the      *)
(* browser began and did not take too long.                                 *)
THEOREM RefusalsCorrect == Spec => RefusedForAReason
<1>1. TypeOK /\ CookieOrExcuse /\ [Next]_vars =>
        [\A f \in Flow : flow[f].pc = "provider" /\ flow'[f].pc = "out" => flow[f].excused]_vars
  <2> SUFFICES ASSUME TypeOK, CookieOrExcuse, Next, NEW h \in Flow,
                      flow[h].pc = "provider", flow'[h].pc = "out"
               PROVE  flow[h].excused
    BY DEF vars
  <2>1. flow \in [Flow -> Login] /\ \A f : ExcuseOthers(f) \in [Flow -> Login]
    BY ExcusedType DEF TypeOK
  <2>2. \A f : ExcuseOthers(f)[h].pc = flow[h].pc
    BY <2>1 DEF ExcuseOthers, Login
  <2>3. ASSUME NEW f \in Flow, CallbackRefused(f) PROVE flow[h].excused
    BY <2>1, <2>3 DEF CallbackRefused, CookieOrExcuse
  <2>4. ASSUME NEW f \in Flow, \/ BeginLogin(f) \/ Callback(f) \/ LoginAnswered(f)
                               \/ LoginFails(f)
                               \/ \E s \in Sid, g \in Grant : CreateSession(f, s, g)
        PROVE  FALSE
    <3>1. CASE BeginLogin(f)
      BY <2>1, <2>2, <3>1 DEF BeginLogin, Login
    <3>2. CASE Callback(f) \/ LoginFails(f)
      BY <2>1, <3>2 DEF Callback, LoginFails, Out
    <3>3. CASE LoginAnswered(f)
      BY <2>1, <2>2, <3>3 DEF LoginAnswered
    <3>4. CASE \E s \in Sid, g \in Grant : CreateSession(f, s, g)
      BY <2>1, <3>4 DEF CreateSession, Out
    <3>5. QED
      BY <2>4, <3>1, <3>2, <3>3, <3>4
  <2>5. CASE StateCookieExpires \/ Restart
    BY <2>1, <2>2, <2>5 DEF StateCookieExpires, Restart
  <2>6. ASSUME UNCHANGED flow PROVE FALSE
    BY <2>6
  <2>7. ASSUME NEW r \in Request, Step(r) PROVE UNCHANGED flow
    BY <2>7 DEF Step, Arrive, Select, SelectNothing, SelectUnreadable, AnswerAtOnce,
       Refresh, Granted, Refused, GrantLost, GrantWithoutIdToken, Store, StoreFails, Drop,
       DropFails, Logout, ClearCookie, loginVars
  <2>8. QED
    BY <2>3, <2>4, <2>5, <2>6, <2>7 DEF Next, Age, Expire, loginVars
<1>2. Spec => []CookieOrExcuse
  BY CookieInit, CookieInductive, TypeCorrect, PTL DEF Spec
<1>3. QED
  BY <1>1, <1>2, TypeCorrect, PTL DEF Spec, RefusedForAReason
=============================================================================
