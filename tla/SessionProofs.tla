--------------------------- MODULE SessionProofs ---------------------------
(***************************************************************************)
(* The proofs about the sessions of an account: SessionInv is inductive,   *)
(* for any number of tokens, requests, tabs, operations and lookups, and   *)
(* with it Sessions implements Logins and keeps the properties about       *)
(* steps.                                                                  *)
(***************************************************************************)
EXTENDS SessionHistory, TLAPS

-----------------------------------------------------------------------------
(* Types.                                                                  *)

LEMMA RestTyped == Rest \in Request /\ NoRow \in Row
  BY DEF Rest, Request, Pcs, NoRow, Row

\* The requests, whatever a step does to them, are requests.
LEMMA RequestsTyped ==
    ASSUME TypeOK, RequestInv, Next
    PROVE  req' \in [Reqs -> Request]
<1> USE RestTyped
<1>1. ASSUME NEW r \in Reqs, RequestStep(r)
      PROVE  req' \in [Reqs -> Request]
  <2>1. CASE \/ \E tab \in Tabs : StartRefresh(r, tab)
             \/ StartLogin(r) \/ StartLogout(r) \/ StartAnonymousLogout(r)
    <3>1. \A tab \in Tabs, t \in Tokens :
            [Rest EXCEPT !.op = "refresh", !.pc = "read", !.tab = tab, !.token = t] \in Request
      BY DEF Rest, Request, Pcs
    <3>2. \A v \in Versions, a \in BOOLEAN :
            [Rest EXCEPT !.op = "login", !.pc = "create", !.version = v, !.admin = a] \in Request
      BY DEF Rest, Request, Pcs
    <3>3. /\ [Rest EXCEPT !.op = "logout", !.pc = "revoke"] \in Request
          /\ [Rest EXCEPT !.op = "logout", !.pc = "answer"] \in Request
      BY DEF Rest, Request, Pcs
    <3>4. account.version \in Versions /\ account.admin \in BOOLEAN /\ req \in [Reqs -> Request]
          /\ cookie \in Tokens \cup {None}
      BY DEF TypeOK
    <3>5. \A new \in Request : [req EXCEPT ![r] = new] \in [Reqs -> Request]
      BY <3>4
    <3>6. CASE \E tab \in Tabs : StartRefresh(r, tab)
      <4>1. PICK tab \in Tabs : StartRefresh(r, tab)
        BY <3>6
      <4>2. cookie \in Tokens
        BY <3>4, <4>1 DEF StartRefresh
      <4>3. [Rest EXCEPT !.op = "refresh", !.pc = "read", !.tab = tab, !.token = cookie] \in Request
        BY <3>1, <4>2
      <4> QED
        BY <3>5, <4>1, <4>3 DEF StartRefresh
    <3>7. CASE StartLogin(r)
      BY <3>2, <3>4, <3>5, <3>7 DEF StartLogin
    <3>8. CASE StartLogout(r) \/ StartAnonymousLogout(r)
      BY <3>3, <3>5, <3>8 DEF StartLogout, StartAnonymousLogout
    <3> QED
      BY <2>1, <3>6, <3>7, <3>8
  <2>2. req \in [Reqs -> Request] /\ req[r] \in Request
    BY DEF TypeOK
  <2>3. ASSUME Ends(r) PROVE req' \in [Reqs -> Request]
    BY <2>2, <2>3 DEF Ends
  <2>4. ASSUME NEW pc \in Pcs, Goes(r, pc) PROVE req' \in [Reqs -> Request]
    <3>1. [req[r] EXCEPT !.pc = pc] \in Request
      BY <2>2 DEF Request
    <3> QED
      BY <2>2, <2>4, <3>1 DEF Goes
  <2>5. CASE Replayed(r) \/ Rejected(r) \/ Rotate(r) \/ LoseRotation(r) \/ RequestRevokes(r)
    <3>1. Ends(r) \/ \E pc \in Pcs : Goes(r, pc)
      BY <2>5 DEF Replayed, Rejected, Rotate, LoseRotation, RequestRevokes, Pcs
    <3> QED
      BY <2>3, <2>4, <3>1
  <2>6. CASE \/ LogoutIncrements(r) \/ LogoutInvalidates(r)
             \/ RequestFails(r) \/ Deliver(r) \/ Lose(r)
    <3>1. Ends(r) \/ \E pc \in Pcs : Goes(r, pc)
      BY <2>6 DEF LogoutIncrements, LogoutInvalidates, RequestFails, Deliver, Lose, Pcs
    <3> QED
      BY <2>3, <2>4, <3>1
  <2>7. CASE ReadToken(r)
    <3>1. [req[r] EXCEPT !.pc = "rotate", !.version = account.version, !.admin = account.admin]
            \in Request
      BY <2>2 DEF TypeOK, Request, Pcs
    <3> QED
      BY <2>2, <2>7, <3>1 DEF ReadToken
  <2>8. ASSUME NEW t \in Tokens, CreateToken(r, t) PROVE req' \in [Reqs -> Request]
    <3>1. [req[r] EXCEPT !.pc = "answer", !.heir = t] \in Request
      BY <2>2 DEF Request, Pcs
    <3> QED
      BY <2>2, <2>8, <3>1 DEF CreateToken
  <2>9. CASE GiveUp(r)
    <3>1. [req[r] EXCEPT !.tab = None] \in Request
      BY <2>2 DEF Request
    <3> QED
      BY <2>2, <2>9, <3>1 DEF GiveUp
  <2> QED
    BY <1>1, <2>1, <2>5, <2>6, <2>7, <2>8, <2>9 DEF RequestStep
<1>2. CASE Restart
  BY <1>2 DEF TypeOK, Restart
<1>3. ASSUME NEW s \in Staff, StaffStep(s)
      PROVE  req' = req
  BY <1>3 DEF StaffStep, StaffWrite, ResetPassword, ToggleTwoFactor, StaffIncrements, StaffInvalidates, StaffRevokes, StaffFails
<1>4. CASE (\E active \in BOOLEAN : SetActive(active)) \/ (\E k \in Checks : LookUp(k) \/ Store(k)) \/ Lapse \/ \E t \in Tokens : Expire(t) \/ Prune(t)
  BY <1>4 DEF TypeOK, SetActive, LookUp, Store, Lapse, Expire, Prune
<1> QED
  BY <1>1, <1>2, <1>3, <1>4 DEF Next, TypeOK

-----------------------------------------------------------------------------
(* What the steps do to the requests and to the tokens.                    *)

\* A new request.
Starts(r) == \/ \E tab \in Tabs : StartRefresh(r, tab)
             \/ StartLogin(r) \/ StartLogout(r) \/ StartAnonymousLogout(r)

\* A request goes on: only its pc, the claims it has read and its heir may change.
GoesOn(r) == \/ Replayed(r) \/ Rejected(r) \/ ReadToken(r) \/ Rotate(r) \/ LoseRotation(r)
             \/ RequestRevokes(r) \/ \E t \in Tokens : CreateToken(r, t)
             \/ LogoutIncrements(r) \/ LogoutInvalidates(r)
             \/ RequestFails(r) \/ Deliver(r) \/ Lose(r) \/ GiveUp(r)

\* The steps of the others.
Elsewhere == \/ \E s \in Staff : StaffStep(s)
             \/ \E active \in BOOLEAN : SetActive(active)
             \/ \E k \in Checks : LookUp(k) \/ Store(k)
             \/ Lapse
             \/ \E t \in Tokens : Expire(t) \/ Prune(t)

LEMMA Kinds ==
    ASSUME Next
    PROVE  (\E r \in Reqs : Starts(r) \/ GoesOn(r)) \/ Elsewhere \/ Restart
  BY DEF Next, RequestStep, Starts, GoesOn, Elsewhere

LEMMA ElsewhereFrame ==
    ASSUME Elsewhere
    PROVE  UNCHANGED <<req, jwts, cookie>>
<1>1. ASSUME NEW s \in Staff, StaffStep(s)
      PROVE  UNCHANGED <<req, jwts, cookie>>
  BY <1>1 DEF StaffStep, StaffWrite, ResetPassword, ToggleTwoFactor, StaffIncrements,
     StaffInvalidates, StaffRevokes, StaffFails
<1> QED
  BY <1>1 DEF Elsewhere, SetActive, LookUp, Store, Lapse, Expire, Prune

\* A request that starts changes nothing else.
LEMMA StartFrame ==
    ASSUME TypeOK, NEW r \in Reqs, Starts(r)
    PROVE  /\ UNCHANGED <<account, token, jwts, cache, fill, staff, cookie>>
           /\ req[r] = Rest /\ req'[r] \in Request /\ req' = [req EXCEPT ![r] = req'[r]]
           /\ req'[r].heir = None
           /\ req'[r].pc \in {"read", "create", "revoke", "answer"}
           /\ req'[r].pc = "read" => req'[r].op = "refresh" /\ req'[r].token = cookie /\ cookie # None
           /\ req'[r].pc # "read" => req'[r].op \in {"login", "logout"} /\ req'[r].token = None
           /\ req'[r].pc = "answer" => req'[r].op = "logout"
           /\ IF req'[r].pc = "create"
              THEN /\ req'[r].op = "login" /\ account.active
                   /\ req'[r].version = account.version /\ req'[r].admin = account.admin
              ELSE req'[r].version = None
<1>1. cookie \in Tokens \cup {None} /\ req \in [Reqs -> Request]
      /\ account.version \in Versions /\ account.admin \in BOOLEAN
  BY DEF TypeOK
<1>2. CASE \E tab \in Tabs : StartRefresh(r, tab)
  <2>1. PICK tab \in Tabs : StartRefresh(r, tab)
    BY <1>2
  <2> DEFINE new == [Rest EXCEPT !.op = "refresh", !.pc = "read", !.tab = tab, !.token = cookie]
  <2>2. /\ new \in Request /\ new.op = "refresh" /\ new.pc = "read" /\ new.token = cookie
        /\ new.heir = None /\ new.version = None
    BY <1>1 DEF Rest, Request, Pcs
  <2>3. req' = [req EXCEPT ![r] = new] /\ req'[r] = new /\ req[r] = Rest /\ cookie # None
    BY <1>1, <2>1 DEF StartRefresh
  <2> QED
    BY <2>1, <2>2, <2>3 DEF StartRefresh
<1>3. CASE StartLogin(r)
  BY <1>1, <1>3 DEF StartLogin, Rest, Request, Pcs
<1>4. CASE StartLogout(r) \/ StartAnonymousLogout(r)
  <2>1. PICK pc \in {"revoke", "answer"} :
            req' = [req EXCEPT ![r] = [Rest EXCEPT !.op = "logout", !.pc = pc]]
    BY <1>4 DEF StartLogout, StartAnonymousLogout
  <2> DEFINE new == [Rest EXCEPT !.op = "logout", !.pc = pc]
  <2>2. /\ new \in Request /\ new.op = "logout" /\ new.pc = pc /\ new.token = None
        /\ new.heir = None /\ new.version = None
    BY DEF Rest, Request, Pcs
  <2>3. req'[r] = new
    BY <1>1, <2>1
  <2> QED
    BY <1>4, <2>1, <2>2, <2>3 DEF StartLogout, StartAnonymousLogout
<1> QED
  BY <1>2, <1>3, <1>4 DEF Starts

\* A request that goes on presents the same token to the end.
LEMMA GoesOnFrame ==
    ASSUME TypeOK, RequestInv, NEW r \in Reqs, GoesOn(r)
    PROVE  /\ req' = [req EXCEPT ![r] = req'[r]]
           /\ \/ req'[r] = Rest
              \/ /\ req'[r] \in Request
                 /\ req'[r].op = req[r].op /\ req'[r].token = req[r].token
                 /\ req[r].pc # "idle"
           /\ req'[r].heir # req[r].heir /\ req'[r] # Rest =>
                \E t \in Tokens : CreateToken(r, t) /\ req'[r].heir = t
<1>1. req \in [Reqs -> Request] /\ req[r] \in Request
  BY DEF TypeOK
<1>2. CASE Replayed(r) \/ Rejected(r) \/ ReadToken(r) \/ Rotate(r) \/ LoseRotation(r)
  BY <1>1, <1>2 DEF TypeOK, Replayed, Rejected, ReadToken, Rotate, LoseRotation, Goes, Ends, Request, Pcs
<1>3. CASE RequestRevokes(r) \/ (\E t \in Tokens : CreateToken(r, t)) \/ LogoutIncrements(r) \/ LogoutInvalidates(r)
  BY <1>1, <1>3 DEF TypeOK, RequestRevokes, CreateToken, LogoutIncrements, LogoutInvalidates, Goes, Ends, Request, Pcs
<1>4. CASE RequestFails(r) \/ Deliver(r) \/ Lose(r)
  BY <1>1, <1>4 DEF TypeOK, RequestFails, Deliver, Lose, Goes, Ends, Request, Pcs
<1>5. CASE GiveUp(r)
  <2>1. req[r].pc # "idle"
    BY <1>5 DEF GiveUp, RequestInv, Rest
  <2> QED
    BY <1>1, <1>5, <2>1 DEF GiveUp, Request, Pcs
<1> QED
  BY <1>2, <1>3, <1>4, <1>5 DEF GoesOn

LEMMA RequestInvStep ==
    ASSUME TypeOK, RequestInv, Next
    PROVE  RequestInv'
<1>1. req \in [Reqs -> Request] /\ req' \in [Reqs -> Request]
  BY RequestsTyped DEF TypeOK
<1> DEFINE Good(r) ==
        /\ req[r].pc = "idle" => req[r] = Rest
        /\ req[r].pc \in {"read", "rotate"} => req[r].op = "refresh"
        /\ req[r].pc = "create" => req[r].op \in {"login", "refresh"}
        /\ req[r].pc \in {"increment", "invalidate"} => req[r].op = "logout"
        /\ IF req[r].op = "refresh" THEN req[r].token \in Tokens ELSE req[r].token = None
        /\ req[r].op = "none" => req[r] = Rest
        /\ req[r].pc \in {"rotate", "create"} => req[r].version \in Versions
<1>2. \A r \in Reqs : Good(r)
  BY DEF RequestInv
<1>3. SUFFICES \A r \in Reqs : Good(r)'
  BY DEF RequestInv
<1>4. ASSUME NEW r \in Reqs, req'[r] = Rest
      PROVE  Good(r)'
  BY <1>4 DEF Rest
<1>5. ASSUME NEW r \in Reqs, Starts(r)
      PROVE  Good(r)'
  BY <1>1, <1>5, StartFrame DEF TypeOK, Request
<1>6. ASSUME NEW r \in Reqs, GoesOn(r)
      PROVE  Good(r)'
  <2>1. CASE Replayed(r) \/ Rejected(r) \/ ReadToken(r) \/ Rotate(r) \/ LoseRotation(r)
    BY <1>1, <1>2, <2>1 DEF TypeOK, Replayed, Rejected, ReadToken, Rotate, LoseRotation, Goes,
       Ends, Request, Rest
  <2>2. CASE RequestRevokes(r) \/ LogoutIncrements(r) \/ LogoutInvalidates(r)
    BY <1>1, <1>2, <2>2 DEF RequestRevokes, LogoutIncrements, LogoutInvalidates, Goes, Ends,
       Request, Rest
  <2>3. CASE \E t \in Tokens : CreateToken(r, t)
    BY <1>1, <1>2, <2>3 DEF CreateToken, Request
  <2>4. CASE RequestFails(r) \/ Deliver(r) \/ Lose(r)
    BY <1>1, <1>2, <2>4 DEF RequestFails, Deliver, Lose, Goes, Ends, Request, Rest
  <2>5. CASE GiveUp(r)
    BY <1>1, <1>2, <2>5 DEF GiveUp, Request, Rest
  <2> QED
    BY <1>6, <2>1, <2>2, <2>3, <2>4, <2>5 DEF GoesOn
<1>7. ASSUME NEW r \in Reqs, Starts(r) \/ GoesOn(r)
      PROVE  \A q \in Reqs : Good(q)'
  <2>1. \A q \in Reqs \ {r} : req'[q] = req[q]
    BY <1>1, <1>7, StartFrame, GoesOnFrame
  <2> QED
    BY <1>2, <1>5, <1>6, <1>7, <2>1
<1>8. CASE Elsewhere
  BY <1>2, <1>8, ElsewhereFrame
<1>9. CASE Restart
  BY <1>4, <1>9 DEF Restart
<1> QED
  BY <1>7, <1>8, <1>9, Kinds

\* The tokens, whatever a step does to them: the sorts of their changes.
TokenMoves == \/ UNCHANGED token
              \/ \E r \in Reqs : Rotate(r) \/ \E t \in Tokens : CreateToken(r, t)
              \/ RevokeAll
              \/ \E t \in Tokens : Expire(t) \/ Prune(t)

LEMMA TokenKinds ==
    ASSUME Next
    PROVE  TokenMoves
<1>1. ASSUME NEW r \in Reqs, Starts(r) \/ GoesOn(r)
      PROVE  TokenMoves
  BY <1>1 DEF TokenMoves, Starts, GoesOn, StartRefresh, StartLogin, StartLogout,
     StartAnonymousLogout, Replayed, Rejected, ReadToken, LoseRotation, RequestRevokes,
     LogoutIncrements, LogoutInvalidates, RequestFails, Deliver, Lose, GiveUp
<1>2. ASSUME NEW s \in Staff, StaffStep(s)
      PROVE  TokenMoves
  BY <1>2 DEF TokenMoves, StaffStep, StaffWrite, ResetPassword, ToggleTwoFactor, StaffIncrements,
     StaffInvalidates, StaffRevokes, StaffFails
<1> QED
  BY <1>1, <1>2, Kinds DEF Elsewhere, TokenMoves, SetActive, LookUp, Store, Lapse, Restart

\* A status never goes back, and a family is for good.
LEMMA TokenStep ==
    ASSUME TypeOK, RequestInv, Next
    PROVE  /\ token' \in [Tokens -> Row]
           /\ \A t \in Tokens :
                /\ token[t].status # "none" =>
                        token'[t].family = token[t].family /\ token'[t].status # "none"
                /\ token[t].status = "rotated" => token'[t].status \in {"rotated", "gone"}
                /\ token[t].status \in Dead \cup {"gone"} => token'[t].status \in Dead \cup {"gone"}
                /\ token'[t].status \in Unrevoked =>
                        \/ token[t].status \in Unrevoked /\ token'[t].family = token[t].family
                        \/ \E r \in Reqs : CreateToken(r, t)
                /\ token'[t].status = "rotated" /\ token[t].status # "rotated" =>
                        \E r \in Reqs : Rotate(r) /\ req[r].token = t
                /\ token'[t].status = "gone" /\ token[t].status # "gone" => Prune(t)
<1> USE DEF Row, Dead, Unrevoked
<1>1. token \in [Tokens -> Row]
  BY DEF TypeOK
<1>2. CASE UNCHANGED token
  BY <1>1, <1>2
<1>3. ASSUME NEW r \in Reqs, Rotate(r)
      PROVE  /\ req[r].token \in Tokens /\ token[req[r].token].status \in Unrevoked
             /\ token' = [token EXCEPT ![req[r].token].status = "rotated"]
  BY <1>3 DEF Rotate, Rotatable, RequestInv
<1>4. CASE \E r \in Reqs : Rotate(r)
  <2>1. PICK r \in Reqs : Rotate(r)
    BY <1>4
  <2> DEFINE t == req[r].token
  <2>2. t \in Tokens /\ token[t].status \in {"live", "expired"}
    BY <1>3, <2>1
  <2>3. \A u \in Tokens \ {t} : token'[u] = token[u]
    BY <1>1, <1>3, <2>1
  <2>4. token'[t] = [token[t] EXCEPT !.status = "rotated"] /\ token'[t].status = "rotated"
        /\ token'[t].family = token[t].family
    BY <1>1, <1>3, <2>1, <2>2
  <2>5. token' \in [Tokens -> Row]
    <3>1. token[t] \in Row /\ token' = [token EXCEPT ![t].status = "rotated"]
      BY <1>1, <1>3, <2>1, <2>2
    <3>2. [token[t] EXCEPT !.status = "rotated"] \in Row
      BY <3>1
    <3> QED
      BY <1>1, <2>2, <3>1, <3>2
  <2>6. \E r0 \in Reqs : Rotate(r0) /\ req[r0].token = t
    BY <2>1
  <2> HIDE DEF t
  <2> QED
    BY <1>1, <2>2, <2>3, <2>4, <2>5, <2>6
<1>5. ASSUME NEW r \in Reqs, NEW t \in Tokens, CreateToken(r, t)
      PROVE  /\ token[t] = NoRow
             /\ \E f \in Tokens \cup {None} :
                    token' = [token EXCEPT ![t] = [status |-> "live", family |-> f]]
  <2>1. req[r].op # "login" => token[req[r].token].family \in Tokens \cup {None}
    BY <1>1, <1>5 DEF CreateToken, RequestInv
  <2> QED
    BY <1>5, <2>1 DEF CreateToken
<1>6. CASE \E r \in Reqs, t \in Tokens : CreateToken(r, t)
  <2>1. PICK r \in Reqs, t \in Tokens : CreateToken(r, t)
    BY <1>6
  <2>2. PICK f \in Tokens \cup {None} :
            token' = [token EXCEPT ![t] = [status |-> "live", family |-> f]]
    BY <1>5, <2>1
  <2>3. token[t].status = "none"
    BY <1>5, <2>1 DEF NoRow
  <2>4. \A u \in Tokens \ {t} : token'[u] = token[u]
    BY <1>1, <2>2
  <2>5. token'[t] = [status |-> "live", family |-> f]
    BY <1>1, <2>2
  <2> QED
    BY <1>1, <2>1, <2>2, <2>3, <2>4, <2>5
<1>7. CASE RevokeAll
  BY <1>1, <1>7 DEF RevokeAll
<1>8. CASE \E t \in Tokens : Expire(t) \/ Prune(t)
  BY <1>1, <1>8 DEF Expire, Prune
<1> QED
  BY <1>2, <1>4, <1>6, <1>7, <1>8, TokenKinds DEF TokenMoves

\* The variables of the operations and of the versions.
LEMMA PlainTypes ==
    ASSUME TypeOK, RequestInv, Next
    PROVE  /\ account' \in [active : BOOLEAN, admin : BOOLEAN, version : Versions]
           /\ account'.version \in {account.version, account.version + 1}
           /\ staff' \in [Staff -> [pc : {"idle", "increment", "invalidate", "revoke"},
                                    revokes : BOOLEAN]]
           /\ cache' \in Versions \cup {None}
           /\ fill' \in [Checks -> Versions \cup {None}]
           /\ started' \in 0 .. MaxStarted
<1> DEFINE Writes == \E s \in Staff, field \in {"active", "admin"}, value \in BOOLEAN :
                        StaffWrite(s, field, value)
\* What the steps do, without the types.
<1>1. ASSUME NEW r \in Reqs, Starts(r)
      PROVE  UNCHANGED <<account, staff, cache, fill>> /\ Begins
  BY <1>1 DEF Starts, StartRefresh, StartLogin, StartLogout, StartAnonymousLogout
<1>2. ASSUME NEW r \in Reqs, GoesOn(r)
      PROVE  /\ UNCHANGED <<fill, staff, started>> /\ cache' \in {cache, None}
             /\ UNCHANGED account \/ Increment
  <2>1. CASE LogoutIncrements(r)
    BY <2>1 DEF LogoutIncrements
  <2>2. CASE LogoutInvalidates(r)
    BY <2>2 DEF LogoutInvalidates
  <2> QED
    BY <1>2, <2>1, <2>2 DEF GoesOn, Replayed, Rejected, ReadToken, LoseRotation, RequestRevokes,
       Rotate, CreateToken, RequestFails, Deliver, Lose, GiveUp
<1>3. ASSUME NEW s \in Staff, StaffStep(s)
      PROVE  /\ UNCHANGED fill /\ cache' \in {cache, None}
             /\ UNCHANGED started \/ Begins
             /\ UNCHANGED account \/ Increment \/ Writes
             /\ \/ UNCHANGED staff
                \/ \E pc \in {"idle", "increment", "invalidate", "revoke"} :
                        Proceeds(s, pc, TRUE) \/ Proceeds(s, pc, FALSE) \/ Proceeds(s, pc, staff[s].revokes)
  <2>1. CASE \E field \in {"active", "admin"}, value \in BOOLEAN : StaffWrite(s, field, value)
    BY <2>1 DEF StaffWrite
  <2>2. CASE ResetPassword(s)
    BY <2>2 DEF ResetPassword
  <2>3. CASE ToggleTwoFactor(s)
    BY <2>3 DEF ToggleTwoFactor
  <2>4. CASE StaffIncrements(s)
    BY <2>4 DEF StaffIncrements
  <2>5. CASE StaffInvalidates(s)
    BY <2>5 DEF StaffInvalidates, Invalidated
  <2>6. CASE StaffRevokes(s)
    BY <2>6 DEF StaffRevokes
  <2>7. CASE StaffFails(s)
    BY <2>7 DEF StaffFails
  <2> QED
    BY <1>3, <2>1, <2>2, <2>3, <2>4, <2>5, <2>6, <2>7 DEF StaffStep
<1> HIDE DEF Writes
\* What that does to the types.
<1>4. UNCHANGED started \/ Begins => started' \in 0 .. MaxStarted
  BY BoundsAssumption DEF Begins, TypeOK
<1>5. Increment => /\ account' \in [active : BOOLEAN, admin : BOOLEAN, version : Versions]
                   /\ account'.version = account.version + 1
  BY BoundsAssumption DEF Increment, TypeOK, Versions
<1>6. Writes => /\ account' \in [active : BOOLEAN, admin : BOOLEAN, version : Versions]
                /\ account'.version = account.version
  BY DEF Writes, StaffWrite, TypeOK
<1>7. CASE \E s \in Staff : StaffStep(s)
  <2>1. staff' \in [Staff -> [pc : {"idle", "increment", "invalidate", "revoke"},
                             revokes : BOOLEAN]]
    <3>1. PICK s \in Staff : StaffStep(s)
      BY <1>7
    <3>2. staff[s].revokes \in BOOLEAN
      BY DEF TypeOK
    <3>3. \A pc \in {"idle", "increment", "invalidate", "revoke"}, b \in BOOLEAN :
            Proceeds(s, pc, b) =>
                staff' \in [Staff -> [pc : {"idle", "increment", "invalidate", "revoke"},
                                     revokes : BOOLEAN]]
      BY DEF Proceeds, TypeOK
    <3> QED
      BY <1>3, <3>1, <3>2, <3>3 DEF TypeOK
  <2> QED
    BY <1>3, <1>4, <1>5, <1>6, <1>7, <2>1 DEF TypeOK
<1>8. ASSUME NEW active \in BOOLEAN, SetActive(active)
      PROVE  /\ account' \in [active : BOOLEAN, admin : BOOLEAN, version : Versions]
             /\ account'.version = account.version
             /\ UNCHANGED <<staff, cache, fill>> /\ Begins
  BY <1>8 DEF SetActive, TypeOK
<1>9. CASE \E k \in Checks : LookUp(k) \/ Store(k)
  BY <1>4, <1>9 DEF LookUp, Store, TypeOK
<1>10. CASE Lapse \/ \E t \in Tokens : Expire(t) \/ Prune(t)
  BY <1>10 DEF Lapse, Expire, Prune, TypeOK
<1>11. CASE Restart
  BY <1>11 DEF Restart, TypeOK
<1>12. CASE \E active \in BOOLEAN : SetActive(active)
  BY <1>4, <1>8, <1>12 DEF TypeOK
<1>13. CASE \E r \in Reqs : Starts(r)
  BY <1>1, <1>4, <1>13 DEF TypeOK
<1>14. CASE \E r \in Reqs : GoesOn(r)
  BY <1>2, <1>5, <1>14 DEF TypeOK
<1> QED
  BY <1>7, <1>9, <1>10, <1>11, <1>12, <1>13, <1>14, Kinds DEF Elsewhere

LEMMA TypeStep ==
    ASSUME TypeOK, RequestInv, Next, Record
    PROVE  TypeOK'
<1>1. jwts' \subseteq Claims
  <2>1. ASSUME NEW r \in Reqs, NEW t \in Tokens, CreateToken(r, t)
        PROVE  jwts' \subseteq Claims
    <3>1. req[r].version \in Versions /\ req[r].admin \in BOOLEAN
      BY <2>1 DEF CreateToken, RequestInv, TypeOK, Request
    <3> QED
      BY <2>1, <3>1 DEF CreateToken, TypeOK, Claims
  <2>2. ASSUME NEW r \in Reqs, GoesOn(r), ~\E t \in Tokens : CreateToken(r, t)
        PROVE  jwts' = jwts
    BY <2>2 DEF GoesOn, Replayed, Rejected, ReadToken, LoseRotation, RequestRevokes, Rotate,
       LogoutIncrements, LogoutInvalidates, RequestFails, Deliver, Lose, GiveUp
  <2> QED
    BY <2>1, <2>2, StartFrame, ElsewhereFrame, Kinds DEF Restart, TypeOK
<1>2. cookie' \in Tokens \cup {None}
  <2>1. ASSUME NEW r \in Reqs, GoesOn(r)
        PROVE  cookie' = cookie \/ Deliver(r)
    BY <2>1 DEF GoesOn, Replayed, Rejected, ReadToken, LoseRotation, RequestRevokes, Rotate,
       CreateToken, LogoutIncrements, LogoutInvalidates, RequestFails, Lose, GiveUp
  <2>2. ASSUME NEW r \in Reqs, Deliver(r)
        PROVE  cookie' \in Tokens \cup {None}
    <3>1. req[r].heir \in Tokens \cup {None} /\ req[r].op \in {"login", "refresh", "logout"}
      BY <2>2 DEF Deliver, TypeOK, Request, RequestInv, Rest
    <3> QED
      BY <2>2, <3>1 DEF Deliver, CookieAfter
  <2> QED
    BY <2>1, <2>2, StartFrame, ElsewhereFrame, Kinds DEF Restart, TypeOK
<1>3. /\ raced' \subseteq Tokens /\ lost' \subseteq Tokens
      /\ bygone' \subseteq Reqs /\ straggling' \subseteq Reqs
      /\ unversioned' \in BOOLEAN /\ late' \in BOOLEAN
  BY DEF Record, TypeOK, InFlight
<1> QED
  BY <1>1, <1>2, <1>3, PlainTypes, RequestsTyped, TokenStep DEF TypeOK

-----------------------------------------------------------------------------
(* Tokens and who holds them.                                              *)

\* A refresh holds an heir because it has just rotated, or already did.
LEMMA HoldingStep ==
    ASSUME TypeOK, RequestInv, Next, NEW r \in Reqs, Holding(r)'
    PROVE  /\ req'[r].op = "refresh" /\ req'[r].token = req[r].token /\ req[r].op = "refresh"
           /\ Holding(r) \/ Rotate(r)
           /\ req'[r].pc = "create" => req[r].pc = "create" \/ Rotate(r)
<1>1. req \in [Reqs -> Request] /\ req'[r] # Rest
  BY DEF TypeOK, Holding, Rest
<1>2. CASE req'[r] = req[r]
  BY <1>2 DEF Holding
<1>3. ASSUME GoesOn(r)
      PROVE  /\ req'[r].op = "refresh" /\ req'[r].token = req[r].token /\ req[r].op = "refresh"
             /\ Holding(r) \/ Rotate(r)
             /\ req'[r].pc = "create" => req[r].pc = "create" \/ Rotate(r)
  <2>1. req'[r].op = req[r].op /\ req'[r].token = req[r].token /\ req[r].op = "refresh"
    BY <1>1, <1>3, GoesOnFrame DEF Holding
  <2>2. req[r].pc \notin {"increment", "invalidate"}
    BY <2>1 DEF RequestInv
  <2>3. ~Replayed(r) /\ ~Rejected(r) /\ ~ReadToken(r) /\ ~LoseRotation(r)
    <3>1. req[r] \in Request /\ req'[r].pc \notin {"revoke", "rotate"}
      BY <1>1 DEF Holding
    <3> QED
      BY <1>1, <3>1 DEF Replayed, Rejected, ReadToken, LoseRotation, Goes, Ends, Request
  <2>4. ~LogoutIncrements(r) /\ ~LogoutInvalidates(r)
    BY <2>2 DEF LogoutIncrements, LogoutInvalidates
  <2>5. ~RequestRevokes(r) /\ ~RequestFails(r)
    BY <1>1, <2>1 DEF RequestRevokes, RequestFails, Ends
  <2>6. CASE \E t \in Tokens : CreateToken(r, t)
    BY <1>1, <2>1, <2>6 DEF CreateToken, Holding
  <2>7. CASE Deliver(r) \/ Lose(r)
    BY <1>1, <2>7 DEF Deliver, Lose, Ends
  <2>8. CASE GiveUp(r)
    BY <1>1, <2>8 DEF GiveUp, Holding
  <2> QED
    BY <1>3, <2>1, <2>3, <2>4, <2>6, <2>7, <2>8, <2>5 DEF GoesOn
<1>4. ~Starts(r)
  BY StartFrame DEF Holding
<1>5. ASSUME NEW q \in Reqs, q # r, Starts(q) \/ GoesOn(q)
      PROVE  req'[r] = req[r]
  BY <1>1, <1>5, StartFrame, GoesOnFrame
<1> QED
  BY <1>1, <1>2, <1>3, <1>4, <1>5, ElsewhereFrame, Kinds DEF Restart

\* An heir is held by the request that has created it, until its answer.
LEMMA HeirStep ==
    ASSUME TypeOK, RequestInv, TokenInv, Next, NEW r \in Reqs, req'[r].heir # None
    PROVE  /\ req'[r].heir \in Tokens
           /\ req'[r].pc = "answer"
           /\ \/ req'[r].heir = req[r].heir
              \/ CreateToken(r, req'[r].heir)
<1>1. req \in [Reqs -> Request] /\ req'[r] # Rest /\ req' \in [Reqs -> Request]
  BY RequestsTyped DEF TypeOK, Rest
<1>2. req[r].heir # None => req[r].pc = "answer"
  BY DEF TokenInv
<1>3. req'[r].heir \in Tokens
  BY <1>1 DEF Request
<1>4. CASE req'[r] = req[r]
  BY <1>2, <1>3, <1>4
<1>5. CASE GoesOn(r)
  <2>1. CASE \E t \in Tokens : CreateToken(r, t)
    BY <1>1, <1>3, <2>1 DEF CreateToken
  <2>2. ASSUME ~\E t \in Tokens : CreateToken(r, t)
        PROVE  req'[r].heir = req[r].heir /\ req[r].pc = "answer"
    BY <1>1, <1>2, <1>5, <2>2, GoesOnFrame
  <2>3. CASE req[r].pc = "answer" /\ req'[r].heir = req[r].heir
    <3>1. ~Deliver(r) /\ ~Lose(r) /\ ~GiveUp(r)
      BY <1>1, <2>3 DEF Deliver, Lose, GiveUp, Ends
    <3> QED
      BY <1>5, <2>3, <3>1 DEF GoesOn, Replayed, Rejected, ReadToken, Rotate, LoseRotation,
         RequestRevokes, CreateToken, LogoutIncrements, LogoutInvalidates, RequestFails
  <2> QED
    BY <2>1, <2>2, <2>3
<1>6. ~Starts(r)
  BY StartFrame
<1>7. ASSUME NEW q \in Reqs, q # r, Starts(q) \/ GoesOn(q)
      PROVE  req'[r] = req[r]
  BY <1>1, <1>7, StartFrame, GoesOnFrame
<1> QED
  BY <1>1, <1>4, <1>5, <1>6, <1>7, ElsewhereFrame, Kinds DEF Restart

\* A step presents what was presented before, or the cookie.
LEMMA PresentStep ==
    ASSUME TypeOK, RequestInv, Next, NEW r \in Reqs, req'[r].op = "refresh"
    PROVE  \/ req[r].op = "refresh" /\ req'[r].token = req[r].token
           \/ /\ Starts(r) /\ req'[r].token = cookie /\ cookie # None /\ req'[r].pc = "read"
<1>1. req \in [Reqs -> Request] /\ req'[r] # Rest
  BY DEF TypeOK, Rest
<1>2. CASE Starts(r)
  BY <1>2, StartFrame
<1>3. CASE GoesOn(r)
  BY <1>1, <1>3, GoesOnFrame
<1>4. ASSUME NEW q \in Reqs, q # r, Starts(q) \/ GoesOn(q)
      PROVE  req'[r] = req[r]
  BY <1>1, <1>4, StartFrame, GoesOnFrame
<1> QED
  BY <1>1, <1>2, <1>3, <1>4, ElsewhereFrame, Kinds DEF Restart

\* The cookie is the heir of an answer that was delivered, or as before.
LEMMA CookieStep ==
    ASSUME TypeOK, RequestInv, TokenInv, Next, cookie' # None
    PROVE  \/ cookie' = cookie
           \/ \E r \in Reqs : Deliver(r) /\ cookie' = req[r].heir /\ req[r].heir \in Tokens
<1>1. ASSUME NEW r \in Reqs, GoesOn(r)
      PROVE  cookie' = cookie \/ Deliver(r)
  BY <1>1 DEF GoesOn, Replayed, Rejected, ReadToken, LoseRotation, RequestRevokes, Rotate,
     CreateToken, LogoutIncrements, LogoutInvalidates, RequestFails, Lose, GiveUp
<1>2. ASSUME NEW r \in Reqs, Deliver(r)
      PROVE  cookie' = req[r].heir /\ req[r].heir \in Tokens
  <2>1. req[r].op \in {"login", "refresh", "logout"} /\ req[r].heir \in Tokens \cup {None}
    BY <1>2 DEF Deliver, TypeOK, Request, RequestInv, Rest
  <2> QED
    BY <1>2, <2>1 DEF Deliver, CookieAfter
<1> QED
  BY <1>1, <1>2, StartFrame, ElsewhereFrame, Kinds DEF Restart

\* Whose requests a step leaves alone.
LEMMA OthersStep ==
    ASSUME TypeOK, RequestInv, NEW r \in Reqs, Starts(r) \/ GoesOn(r)
    PROVE  \A q \in Reqs \ {r} : req'[q] = req[q]
  BY StartFrame, GoesOnFrame DEF TypeOK

\* A new row is created by a request.
LEMMA FreshStep ==
    ASSUME TypeOK, RequestInv, TokenInv, Next, NEW t \in Tokens, token[t].status = "none"
    PROVE  token'[t] = token[t] \/ \E r \in Reqs : CreateToken(r, t)
<1>1. token \in [Tokens -> Row]
  BY DEF TypeOK
<1>2. ASSUME NEW r \in Reqs, Rotate(r)
      PROVE  token'[t] = token[t]
  <2>1. req[r].token \in Tokens /\ req[r].token # t
    BY <1>2 DEF Rotate, RequestInv, TokenInv
  <2> QED
    BY <1>1, <1>2, <2>1 DEF Rotate
<1>3. ASSUME NEW r \in Reqs, NEW u \in Tokens, CreateToken(r, u), u # t
      PROVE  token'[t] = token[t]
  BY <1>1, <1>3 DEF CreateToken
<1>4. RevokeAll => token'[t] = token[t]
  BY <1>1 DEF RevokeAll, Unrevoked
<1>5. ASSUME NEW u \in Tokens, Expire(u) \/ Prune(u)
      PROVE  token'[t] = token[t]
  BY <1>1, <1>5 DEF Expire, Prune, Dead
<1> QED
  BY <1>2, <1>3, <1>4, <1>5, TokenKinds DEF TokenMoves

\* What a creation writes.
LEMMA CreateStep ==
    ASSUME TypeOK, RequestInv, TokenInv, NEW r \in Reqs, NEW t \in Tokens, CreateToken(r, t)
    PROVE  /\ token[t].status = "none" /\ token[t].family = None
           /\ \A u \in Tokens \ {t} : token'[u] = token[u]
           /\ token'[t].status = "live"
           /\ req[r].pc = "create"
           /\ \/ req[r].op = "login" /\ token'[t].family = t
              \/ /\ req[r].op = "refresh" /\ req[r].token \in Tokens
                 /\ token'[t].family = token[req[r].token].family
           /\ UNCHANGED cookie
           /\ \A q \in Reqs \ {r} : req'[q] = req[q]
<1>1. token \in [Tokens -> Row] /\ req \in [Reqs -> Request]
  BY DEF TypeOK
<1> DEFINE f == IF req[r].op = "login" THEN t ELSE token[req[r].token].family
<1>2. token' = [token EXCEPT ![t] = [status |-> "live", family |-> f]]
  BY DEF CreateToken
<1>3. token'[t] = [status |-> "live", family |-> f]
  BY <1>1, <1>2
<1>4. token'[t].status = "live" /\ token'[t].family = f
  BY <1>3
<1>5. req[r].op \in {"login", "refresh"} /\ req[r].pc = "create"
  BY DEF CreateToken, RequestInv
<1>6. req[r].op = "refresh" => req[r].token \in Tokens
  BY DEF RequestInv
<1>7. token[t].status = "none" /\ token[t].family = None
  BY DEF CreateToken, NoRow
<1>8. \A q \in Reqs \ {r} : req'[q] = req[q]
  BY <1>1 DEF CreateToken
<1>9. UNCHANGED cookie
  BY DEF CreateToken
<1>10. \A u \in Tokens \ {t} : token'[u] = token[u]
  BY <1>1, <1>2
<1> QED
  BY <1>4, <1>5, <1>6, <1>7, <1>8, <1>9, <1>10

LEMMA TokenInvStep ==
    ASSUME TypeOK, RequestInv, TokenInv, Next
    PROVE  TokenInv'
<1>1. token \in [Tokens -> Row] /\ req \in [Reqs -> Request] /\ cookie \in Tokens \cup {None}
  BY DEF TypeOK
<1>2. None \notin Tokens
  BY NamesAssumption
<1>3. \A t \in Tokens : token[t].status # "none" =>
            token'[t].status # "none" /\ token'[t].family = token[t].family
  BY TokenStep
<1>4. ASSUME NEW t \in Tokens
      PROVE  /\ token'[t].status = "none" <=> token'[t].family = None
             /\ token'[t].family # None => token'[token'[t].family].status # "none"
  <2>1. token[t].family \in Tokens \cup {None}
    BY <1>1 DEF Row
  <2>2. CASE token[t].status # "none"
    BY <1>3, <2>1, <2>2 DEF TokenInv
  <2>3. CASE token'[t] = token[t]
    BY <1>3, <2>1, <2>3 DEF TokenInv
  <2>4. CASE \E r \in Reqs : CreateToken(r, t)
    <3>1. PICK r \in Reqs : CreateToken(r, t)
      BY <2>4
    <3>2. token'[t].status = "live"
      BY <3>1, CreateStep
    <3>3. CASE token'[t].family = t
      BY <1>2, <3>2, <3>3
    <3>4. CASE req[r].op = "refresh" /\ token'[t].family = token[req[r].token].family
      <4>1. req[r].token \in Tokens /\ token[req[r].token].status # "none"
        BY <3>4 DEF RequestInv, TokenInv
      <4>2. token[req[r].token].family \in Tokens
        BY <1>1, <4>1 DEF TokenInv, Row
      <4>3. token[token[req[r].token].family].status # "none"
        BY <1>2, <4>1, <4>2 DEF TokenInv
      <4> QED
        BY <1>2, <1>3, <3>2, <3>4, <4>2, <4>3
    <3> QED
      BY <3>1, <3>3, <3>4, CreateStep
  <2> QED
    BY <2>2, <2>3, <2>4, FreshStep
<1>5. ASSUME cookie' # None
      PROVE  token'[cookie'].status # "none"
  <2>1. CASE cookie' = cookie
    BY <1>1, <1>3, <1>5, <2>1 DEF TokenInv
  <2>2. ASSUME NEW r \in Reqs, Deliver(r), cookie' = req[r].heir, req[r].heir \in Tokens
        PROVE  token'[cookie'].status # "none"
    BY <1>2, <1>3, <2>2 DEF TokenInv
  <2> QED
    BY <1>5, <2>1, <2>2, CookieStep
<1>6. ASSUME NEW r \in Reqs, req'[r].op = "refresh"
      PROVE  token'[req'[r].token].status # "none"
  <2>1. CASE req[r].op = "refresh" /\ req'[r].token = req[r].token
    BY <1>3, <2>1 DEF TokenInv, RequestInv
  <2>2. CASE req'[r].token = cookie /\ cookie # None
    BY <1>1, <1>3, <2>2 DEF TokenInv
  <2> QED
    BY <1>6, <2>1, <2>2, PresentStep
<1>7. ASSUME NEW r \in Reqs, Holding(r)'
      PROVE  token'[req'[r].token].status = "rotated"
  <2>1. req'[r].token = req[r].token /\ req[r].token \in Tokens
    BY <1>7, HoldingStep DEF RequestInv
  <2>2. CASE Holding(r)
    <3>1. token[req[r].token].status = "rotated"
      BY <2>2 DEF TokenInv
    <3>2. ~Prune(req[r].token)
      BY DEF Prune
    <3> QED
      BY <2>1, <3>1, <3>2, TokenStep
  <2>3. CASE Rotate(r)
    <3>1. token[req[r].token] \in Row
      BY <1>1, <2>1
    <3> QED
      BY <1>1, <2>1, <2>3, <3>1 DEF Rotate, Row
  <2> QED
    BY <1>7, <2>2, <2>3, HoldingStep
<1>8. ASSUME NEW r \in Reqs, req'[r].heir # None
      PROVE  /\ token'[req'[r].heir].status \notin {"none", "rotated"}
             /\ cookie' # req'[r].heir
             /\ \A q \in Reqs : req'[q].token # req'[r].heir
             /\ \A q \in Reqs \ {r} : req'[q].heir # req'[r].heir
  <2> DEFINE h == req'[r].heir
  <2>1. h \in Tokens
    BY <1>8, HeirStep
  <2>2. CASE CreateToken(r, h)
    <3>1. /\ token[h].status = "none" /\ token'[h].status = "live" /\ cookie' = cookie
          /\ \A q \in Reqs \ {r} : req'[q] = req[q]
      BY <2>1, <2>2, CreateStep
    <3>2. cookie # h
      BY <1>1, <1>2, <2>1, <3>1 DEF TokenInv
    <3>3. ASSUME NEW q \in Reqs
          PROVE  req[q].token # h /\ req[q].heir # h
      <4>1. req[q].op = "refresh" => req[q].token # h
        BY <3>1 DEF TokenInv
      <4>2. req[q].op # "refresh" => req[q].token = None
        BY DEF RequestInv
      <4>3. req[q].heir # None => req[q].heir # h
        BY <3>1 DEF TokenInv
      <4> QED
        BY <1>2, <2>1, <4>1, <4>2, <4>3
    <3>4. req'[r].token = req[r].token
      BY <1>1, <2>2 DEF CreateToken, Request
    <3> QED
      BY <3>1, <3>2, <3>3, <3>4
  <2>3. CASE h = req[r].heir
    <3>1. /\ token[h].status \notin {"none", "rotated"}
          /\ cookie # h
          /\ \A q \in Reqs : req[q].token # h
          /\ \A q \in Reqs \ {r} : req[q].heir # h
      BY <1>8, <2>3 DEF TokenInv
    <3>2. token'[h].status \notin {"none", "rotated"}
      <4>1. token'[h].status # "none"
        BY <1>3, <2>1, <3>1
      <4>2. token'[h].status # "rotated"
        BY <2>1, <3>1, TokenStep
      <4> QED
        BY <4>1, <4>2
    <3>3. cookie' # h
      <4>1. ASSUME NEW q \in Reqs, Deliver(q), cookie' = req[q].heir
            PROVE  q # r
        <5>1. req'[q] = Rest
          BY <1>1, <4>1 DEF Deliver, Ends
        <5> QED
          BY <1>8, <5>1 DEF Rest
      <4> QED
        BY <1>2, <2>1, <3>1, <4>1, CookieStep
    <3>4. \A q \in Reqs : req'[q].token # h
      <4>1. ASSUME NEW q \in Reqs, req'[q].op = "refresh"
            PROVE  req'[q].token # h
        BY <3>1, <4>1, PresentStep
      <4>2. ASSUME NEW q \in Reqs, req'[q].op # "refresh"
            PROVE  req'[q].token = None
        BY <4>2, RequestInvStep DEF RequestInv
      <4> QED
        BY <1>2, <2>1, <4>1, <4>2
    <3>5. ASSUME NEW q \in Reqs \ {r}
          PROVE  req'[q].heir # h
      <4>1. CASE req'[q].heir = req[q].heir
        BY <3>1, <4>1
      <4>2. CASE CreateToken(q, req'[q].heir) /\ req'[q].heir \in Tokens
        BY <3>1, <4>2, CreateStep
      <4>3. CASE req'[q].heir = None
        BY <1>2, <2>1, <4>3
      <4> QED
        BY <4>1, <4>2, <4>3, HeirStep
    <3> QED
      BY <3>2, <3>3, <3>4, <3>5
  <2> QED
    BY <1>8, <2>2, <2>3, HeirStep
<1>9. ASSUME NEW r \in Reqs, req'[r].pc = "answer", req'[r].op # "logout"
      PROVE  req'[r].heir # None
  <2>1. CASE req'[r] = req[r]
    BY <1>9, <2>1 DEF TokenInv
  <2>2. ~Starts(r)
    BY <1>9, StartFrame
  <2>3. CASE \E t \in Tokens : CreateToken(r, t)
    BY <1>1, <1>2, <2>3 DEF CreateToken
  <2>4. CASE GoesOn(r) /\ ~\E t \in Tokens : CreateToken(r, t)
    <3>1. req'[r] # Rest
      BY <1>9 DEF Rest
    <3>2. req'[r].op = req[r].op /\ req'[r].heir = req[r].heir
      BY <2>4, <3>1, GoesOnFrame
    <3>3. req[r].pc = "answer"
      <4>1. req[r] \in Request
        BY <1>1
      <4>2. ~Replayed(r) /\ ~Rejected(r) /\ ~ReadToken(r) /\ ~Rotate(r) /\ ~LoseRotation(r)
        BY <1>1, <1>9, <4>1 DEF Replayed, Rejected, ReadToken, Rotate, LoseRotation, Goes, Ends,
           Request, Rest
      <4>3. ~RequestRevokes(r) /\ ~LogoutIncrements(r) /\ ~RequestFails(r)
        BY <1>1, <1>9, <3>1, <3>2, <4>1 DEF RequestRevokes, LogoutIncrements, RequestFails, Goes, Ends,
           Request
      <4>4. ~LogoutInvalidates(r)
        BY <1>9, <3>2 DEF LogoutInvalidates, RequestInv
      <4>5. GiveUp(r) => req'[r].pc = req[r].pc
        BY <1>1, <4>1 DEF GiveUp, Request
      <4> QED
        BY <1>9, <2>4, <4>2, <4>3, <4>4, <4>5 DEF GoesOn, Deliver, Lose
    <3> QED
      BY <1>9, <3>2, <3>3 DEF TokenInv
  <2>5. ASSUME NEW q \in Reqs, q # r, Starts(q) \/ GoesOn(q)
        PROVE  req'[r] = req[r]
    BY <2>5, OthersStep
  <2>6. CASE Restart
    BY <1>9, <2>6 DEF Restart, Rest
  <2> QED
    BY <2>1, <2>2, <2>3, <2>4, <2>5, <2>6, ElsewhereFrame, Kinds
<1>10. \A r \in Reqs : req'[r].heir # None => req'[r].pc = "answer"
  BY HeirStep
<1> QED
  BY <1>4, <1>5, <1>6, <1>7, <1>8, <1>9, <1>10 DEF TokenInv

\* An unrevoked token was one before, or is the heir of a request.
LEMMA UnrevokedStep ==
    ASSUME TypeOK, RequestInv, TokenInv, Next, NEW t \in Tokens, token'[t].status \in Unrevoked
    PROVE  \/ /\ token[t].status \in Unrevoked /\ token'[t].family = token[t].family
              /\ \A r \in Reqs : Rotate(r) => req[r].token # t
           \/ \E r \in Reqs : CreateToken(r, t)
<1>1. \A r \in Reqs : Rotate(r) => token'[req[r].token].status = "rotated"
  <2>1. ASSUME NEW r \in Reqs, Rotate(r)
        PROVE  token'[req[r].token].status = "rotated"
    <3>1. req[r].token \in Tokens /\ token \in [Tokens -> Row]
      BY <2>1 DEF Rotate, RequestInv, TypeOK
    <3>2. token[req[r].token] \in Row
      BY <3>1
    <3> QED
      BY <2>1, <3>1, <3>2 DEF Rotate, Row
  <2> QED
    BY <2>1
<1> QED
  BY <1>1, TokenStep DEF Unrevoked

\* The family of the token a refresh is about to replace.
LEMMA CreatingStep ==
    ASSUME TypeOK, RequestInv, TokenInv, Next, NEW r \in Reqs,
           req'[r].op = "refresh", req'[r].pc = "create"
    PROVE  /\ req[r].op = "refresh" /\ req'[r].token = req[r].token /\ req[r].token \in Tokens
           /\ token'[req[r].token].family = token[req[r].token].family
           /\ \/ req[r].pc = "create" /\ \A t \in Tokens : ~CreateToken(r, t)
              \/ Rotate(r) /\ token[req[r].token].status \in Unrevoked
<1>1. Holding(r)'
  BY DEF Holding
<1>2. /\ req[r].op = "refresh" /\ req'[r].token = req[r].token
      /\ req[r].pc = "create" \/ Rotate(r)
  BY <1>1, HoldingStep
<1>3. req[r].token \in Tokens /\ token[req[r].token].status # "none"
  BY <1>2 DEF RequestInv, TokenInv
<1>4. \A t \in Tokens : ~CreateToken(r, t)
  <2>1. req \in [Reqs -> Request] /\ req[r] \in Request
    BY DEF TypeOK
  <2> QED
    BY <2>1 DEF CreateToken, Request
<1>5. Rotate(r) => token[req[r].token].status \in Unrevoked
  BY DEF Rotate, Rotatable
<1> QED
  BY <1>2, <1>3, <1>4, <1>5, TokenStep

LEMMA LinearStep ==
    ASSUME TypeOK, RequestInv, TokenInv, LinearChain, Next
    PROVE  LinearChain'
<1>1. token \in [Tokens -> Row] /\ None \notin Tokens
  BY NamesAssumption DEF TypeOK
\* The family of a token that was just created has no other unrevoked token.
<1>2. ASSUME NEW r \in Reqs, NEW t \in Tokens, NEW u \in Tokens, CreateToken(r, t),
             u # t, token[u].status \in Unrevoked, token'[u].family = token'[t].family
      PROVE  FALSE
  <2>1. token'[u] = token[u] /\ token[u].status # "none" /\ token[u].family # None
    BY <1>2, CreateStep DEF Unrevoked, TokenInv
  <2>2. CASE req[r].op = "login" /\ token'[t].family = t
    <3>1. token[u].family = t /\ token[t].status = "none"
      BY <1>2, <2>1, <2>2, CreateStep
    <3> QED
      BY <2>1, <3>1 DEF TokenInv
  <2>3. CASE req[r].op = "refresh" /\ token'[t].family = token[req[r].token].family
    BY <1>2, <2>1, <2>3, CreateStep DEF LinearChain
  <2> QED
    BY <1>2, <2>2, <2>3, CreateStep
<1>3. ASSUME NEW t \in Tokens, NEW u \in Tokens,
             token'[t].status \in Unrevoked, token'[u].status \in Unrevoked,
             token'[t].family = token'[u].family
      PROVE  t = u
  <2>1. ASSUME NEW r \in Reqs, CreateToken(r, t), t # u
        PROVE  FALSE
    <3>1. token'[u] = token[u]
      BY <2>1, CreateStep
    <3> QED
      BY <1>2, <1>3, <2>1, <3>1
  <2>2. ASSUME NEW r \in Reqs, CreateToken(r, u), t # u
        PROVE  FALSE
    <3>1. token'[t] = token[t]
      BY <2>2, CreateStep
    <3> QED
      BY <1>2, <1>3, <2>2, <3>1
  <2> QED
    BY <1>3, <2>1, <2>2, UnrevokedStep DEF LinearChain
<1>4. ASSUME NEW q \in Reqs, NEW r \in Reqs,
             req'[q].op = "refresh", req'[q].pc = "create",
             req'[r].op = "refresh", req'[r].pc = "create",
             token'[req'[q].token].family = token'[req'[r].token].family
      PROVE  q = r
  <2>1. token[req[q].token].family = token[req[r].token].family
    BY <1>4, CreatingStep
  <2>2. /\ req[q].op = "refresh" /\ req[q].token \in Tokens
        /\ req[q].pc = "create" \/ (Rotate(q) /\ token[req[q].token].status \in Unrevoked)
    BY <1>4, CreatingStep
  <2>3. /\ req[r].op = "refresh" /\ req[r].token \in Tokens
        /\ req[r].pc = "create" \/ (Rotate(r) /\ token[req[r].token].status \in Unrevoked)
    BY <1>4, CreatingStep
  <2>4. CASE req[q].pc = "create" /\ req[r].pc = "create"
    BY <2>1, <2>2, <2>3, <2>4 DEF LinearChain
  <2>5. CASE req[q].pc = "create" /\ token[req[r].token].status \in Unrevoked
    BY <2>1, <2>2, <2>3, <2>5 DEF LinearChain
  <2>6. CASE req[r].pc = "create" /\ token[req[q].token].status \in Unrevoked
    BY <2>1, <2>2, <2>3, <2>6 DEF LinearChain
  <2>7. CASE Rotate(q) /\ Rotate(r)
    <3>1. q # r => req'[r] = req[r]
      BY <2>7 DEF Rotate, Goes, TypeOK
    <3>2. req[r].pc = "rotate"
      BY <2>7 DEF Rotate
    <3> QED
      BY <1>4, <3>1, <3>2
  <2> QED
    BY <2>2, <2>3, <2>4, <2>5, <2>6, <2>7
<1>5. ASSUME NEW r \in Reqs, NEW t \in Tokens,
             req'[r].op = "refresh", req'[r].pc = "create",
             token'[req'[r].token].family = token'[t].family,
             token'[t].status \in Unrevoked
      PROVE  FALSE
  <2> DEFINE p == req[r].token
  <2>1. /\ p \in Tokens /\ token'[t].family = token[p].family /\ req[r].op = "refresh"
        /\ \/ req[r].pc = "create" /\ \A u \in Tokens : ~CreateToken(r, u)
           \/ Rotate(r) /\ token[p].status \in Unrevoked
    BY <1>5, CreatingStep
  <2>2. CASE \E q \in Reqs : CreateToken(q, t)
    <3>1. PICK q \in Reqs : CreateToken(q, t)
      BY <2>2
    <3>2. token[p].status # "none" /\ token[p].family # None /\ token[t].status = "none"
      BY <2>1, <3>1, CreateStep DEF TokenInv
    <3>3. CASE q = r
      <4>1. req[r].pc = "create"
        BY <3>1, <3>3, CreateStep
      <4>2. ~Rotate(r)
        BY <4>1 DEF Rotate
      <4> QED
        BY <2>1, <3>1, <3>3, <4>2
    <3>4. CASE q # r
      <4>1. req'[r] = req[r]
        BY <3>1, <3>4, CreateStep
      <4>2. req[r].pc = "create"
        BY <1>5, <4>1
      <4>3. CASE req[q].op = "login" /\ token'[t].family = t
        <5>1. token[token[p].family].status # "none"
          BY <2>1, <3>2 DEF TokenInv
        <5>2. token[p].family = t
          BY <2>1, <4>3
        <5> QED
          BY <3>2, <5>1, <5>2
      <4>4. CASE req[q].op = "refresh" /\ token'[t].family = token[req[q].token].family
        BY <2>1, <3>1, <3>4, <4>2, <4>4, CreateStep DEF LinearChain
      <4> QED
        BY <3>1, <4>3, <4>4, CreateStep
    <3> QED
      BY <3>3, <3>4
  <2>3. CASE /\ token[t].status \in Unrevoked /\ token'[t].family = token[t].family
             /\ \A q \in Reqs : Rotate(q) => req[q].token # t
    BY <2>1, <2>3 DEF LinearChain
  <2> QED
    BY <1>5, <2>2, <2>3, UnrevokedStep
<1> QED
  BY <1>3, <1>4, <1>5 DEF LinearChain

-----------------------------------------------------------------------------
(* The cookie, the alarm and the revocations.                              *)

\* A request has not decided yet: it did not before, or it starts.
LEMMA EarlyStep ==
    ASSUME TypeOK, RequestInv, Next, NEW r \in Reqs, req'[r].pc \in {"read", "rotate"}
    PROVE  /\ req'[r].op = "refresh"
           /\ \/ Starts(r) /\ req'[r].token = cookie /\ cookie # None
              \/ /\ req[r].pc \in {"read", "rotate"} /\ req[r].op = "refresh"
                 /\ req'[r].token = req[r].token /\ req[r].token \in Tokens
<1>1. req \in [Reqs -> Request] /\ req[r] \in Request /\ req'[r] # Rest
  BY DEF TypeOK, Rest
<1>2. req'[r].op = "refresh"
  BY RequestInvStep DEF RequestInv
<1>3. req[r].pc \in {"read", "rotate"} => req[r].op = "refresh" /\ req[r].token \in Tokens
  BY DEF RequestInv
<1>4. CASE req'[r] = req[r]
  BY <1>2, <1>3, <1>4
<1>5. CASE Starts(r)
  BY <1>2, <1>5, StartFrame
<1>6. CASE GoesOn(r)
  <2>1. ~Replayed(r) /\ ~Rejected(r) /\ ~Rotate(r) /\ ~LoseRotation(r) /\ ~\E t \in Tokens : CreateToken(r, t)
    BY <1>1 DEF Replayed, Rejected, Rotate, LoseRotation, CreateToken, Goes, Ends, Request
  <2>2. ~RequestRevokes(r) /\ ~LogoutIncrements(r) /\ ~LogoutInvalidates(r) /\ ~RequestFails(r)
    BY <1>1 DEF RequestRevokes, LogoutIncrements, LogoutInvalidates, RequestFails, Goes, Ends, Request
  <2>3. ~Deliver(r) /\ ~Lose(r)
    BY <1>1 DEF Deliver, Lose, Ends
  <2>4. ReadToken(r) => req[r].pc = "read"
    BY DEF ReadToken
  <2>5. GiveUp(r) => req'[r].pc = req[r].pc
    BY <1>1 DEF GiveUp, Request
  <2>6. req'[r].token = req[r].token
    BY <1>1, <1>6, GoesOnFrame
  <2> QED
    BY <1>2, <1>3, <1>6, <2>1, <2>2, <2>3, <2>4, <2>5, <2>6 DEF GoesOn
<1>7. ASSUME NEW q \in Reqs, q # r, Starts(q) \/ GoesOn(q)
      PROVE  req'[r] = req[r]
  BY <1>7, OthersStep
<1> QED
  BY <1>1, <1>4, <1>5, <1>6, <1>7, ElsewhereFrame, Kinds DEF Restart

LEMMA CookieInvStep ==
    ASSUME TypeOK, RequestInv, TokenInv, CookieInv, Next, Record
    PROVE  CookieInv'
<1> SUFFICES ASSUME cookie' # None, token'[cookie'].status = "rotated"
             PROVE  cookie' \in lost' \/ \E r \in Reqs : Presents(r, cookie)' /\ Holding(r)'
  BY DEF CookieInv, Presents, Holding
<1>1. None \notin Tokens /\ cookie \in Tokens \cup {None} /\ lost \subseteq lost'
  BY NamesAssumption DEF TypeOK, Record
<1>2. cookie' = cookie
  <2>1. ASSUME NEW r \in Reqs, Deliver(r), cookie' = req[r].heir, req[r].heir \in Tokens
        PROVE  FALSE
    <3>1. token[req[r].heir].status # "rotated" /\ \A q \in Reqs : req[q].token # req[r].heir
      BY <1>1, <2>1 DEF TokenInv
    <3> QED
      BY <2>1, <3>1, TokenStep
  <2> QED
    BY <2>1, CookieStep
<1>3. CASE token[cookie].status = "rotated"
  <2>1. CASE cookie \in lost
    BY <1>1, <1>2, <2>1
  <2>2. ASSUME NEW r \in Reqs, Presents(r, cookie), Holding(r)
        PROVE  cookie \in lost' \/ (Presents(r, cookie)' /\ Holding(r)')
    <3>1. CASE Holding(r)'
      BY <1>2, <2>2, <3>1, HoldingStep DEF Presents
    <3>2. ~Deliver(r)
      <4>1. ASSUME Deliver(r)
            PROVE  cookie' = req[r].heir /\ req[r].heir # None /\ cookie # req[r].heir
        BY <2>2, <4>1 DEF Deliver, CookieAfter, Presents, TokenInv
      <4> QED
        BY <1>2, <4>1
    <3>3. CASE ~Holding(r)'
      BY <1>1, <1>2, <2>2, <3>2, <3>3 DEF Record
    <3> QED
      BY <3>1, <3>3
  <2> QED
    BY <1>2, <1>3, <2>1, <2>2 DEF CookieInv
<1>4. CASE token[cookie].status # "rotated"
  <2>1. PICK r \in Reqs : Rotate(r) /\ req[r].token = cookie
    BY <1>1, <1>2, <1>4, TokenStep
  <2>2. req[r] \in Request /\ req[r].op = "refresh" /\ req \in [Reqs -> Request]
    BY <2>1 DEF TypeOK, Rotate, RequestInv
  <2>3. req'[r].op = "refresh" /\ req'[r].token = cookie /\ req'[r].pc = "create"
    BY <2>1, <2>2 DEF Rotate, Goes, Request
  <2> QED
    BY <1>2, <2>3 DEF Presents, Holding
<1> QED
  BY <1>3, <1>4

LEMMA AlarmInvStep ==
    ASSUME TypeOK, RequestInv, TokenInv, CookieInv, AlarmInv, Next, Record
    PROVE  AlarmInv'
<1>1. raced \subseteq raced' /\ lost \subseteq lost'
      /\ \A q, r \in Reqs, t \in Tokens : q # r /\ Presents(q, t)' /\ Presents(r, t)' => t \in raced'
  BY DEF Record
<1>2. ASSUME NEW r \in Reqs, req'[r].pc \in {"read", "rotate"},
             token'[req'[r].token].status = "rotated"
      PROVE  req'[r].token \in raced' \cup lost'
  <2>1. CASE Starts(r) /\ req'[r].token = cookie /\ cookie # None
    <3>1. cookie \in Tokens /\ token[cookie].status = "rotated" /\ req[r] = Rest
          /\ req'[r].op = "refresh"
      BY <1>2, <2>1, StartFrame, EarlyStep DEF TypeOK
    <3>2. CASE cookie \in lost
      BY <1>1, <2>1, <3>2
    <3>3. ASSUME NEW q \in Reqs, Presents(q, cookie), Holding(q)
          PROVE  cookie \in raced'
      <4>1. q # r
        BY <3>1, <3>3 DEF Presents, Rest
      <4>2. req'[q] = req[q]
        BY <2>1, <4>1, OthersStep
      <4>3. Presents(q, cookie)' /\ Presents(r, cookie)'
        BY <2>1, <3>1, <3>3, <4>2, StartFrame DEF Presents
      <4> QED
        BY <1>1, <3>1, <4>1, <4>3, StartFrame, <2>1 DEF Presents
    <3> QED
      BY <2>1, <3>1, <3>2, <3>3 DEF CookieInv
  <2>2. CASE /\ req[r].pc \in {"read", "rotate"} /\ req[r].op = "refresh"
             /\ req'[r].token = req[r].token /\ req[r].token \in Tokens
    <3>1. CASE token[req[r].token].status = "rotated"
      BY <1>1, <2>2, <3>1 DEF AlarmInv
    <3>2. CASE token[req[r].token].status # "rotated"
      <4>1. PICK q \in Reqs : Rotate(q) /\ req[q].token = req[r].token
        BY <1>2, <2>2, <3>2, TokenStep
      <4>2. req[q] \in Request /\ req[q].op = "refresh" /\ req \in [Reqs -> Request]
        BY <4>1 DEF TypeOK, Rotate, RequestInv
      <4>3. req'[q].pc = "create"
        BY <4>1, <4>2 DEF Rotate, Goes, Request
      <4>4. q # r
        BY <1>2, <4>3
      <4> QED
        BY <1>1, <2>2, <4>1, <4>2, <4>4 DEF AlarmInv, Presents
    <3> QED
      BY <3>1, <3>2
  <2> QED
    BY <1>2, <2>1, <2>2, EarlyStep
<1> QED
  BY <1>1, <1>2 DEF AlarmInv, Presents

\* What a revocation leaves of the tokens and of the requests.
LEMMA RevokesStep ==
    ASSUME TypeOK, RequestInv, TokenInv, Next, Revokes
    PROVE  /\ \A t \in Tokens : token[t].status # "none" => token'[t].status \in Dead \cup {"gone"}
           /\ \A r \in Reqs : ~Starts(r)
           /\ \A r \in Reqs : req'[r].pc = "create" => req[r].pc = "create"
<1>1. token \in [Tokens -> Row] /\ req \in [Reqs -> Request]
  BY DEF TypeOK
<1>2. RevokeAll
  BY DEF Revokes, RequestRevokes, StaffRevokes
<1>3. ASSUME NEW t \in Tokens, token[t].status # "none"
      PROVE  token'[t].status \in Dead \cup {"gone"}
  <2>1. token[t] \in Row
    BY <1>1
  <2>2. CASE token[t].status \in Unrevoked
    <3>1. token'[t] = [token[t] EXCEPT !.status = "revoked"]
      BY <1>2, <2>2 DEF RevokeAll
    <3> QED
      BY <2>1, <3>1 DEF Row, Dead
  <2>3. CASE token[t].status \notin Unrevoked
    <3>1. token'[t] = token[t]
      BY <1>2, <2>3 DEF RevokeAll
    <3> QED
      BY <1>3, <2>1, <2>3, <3>1 DEF Row, Unrevoked, Dead
  <2> QED
    BY <2>2, <2>3
<1>4. CASE \E q \in Reqs : RequestRevokes(q)
  <2>1. PICK q \in Reqs : RequestRevokes(q)
    BY <1>4
  <2>2. req[q] \in Request /\ req[q] # Rest /\ req[q].pc = "revoke"
    BY <1>1, <2>1 DEF RequestRevokes, Rest
  <2>3. req'[q].pc # "create" /\ \A r \in Reqs \ {q} : req'[r] = req[r]
    BY <1>1, <2>1, <2>2 DEF RequestRevokes, Goes, Ends, Request, Rest
  <2>4. ASSUME NEW r \in Reqs, Starts(r)
        PROVE  FALSE
    <3>1. r # q
      BY <2>2, <2>4, StartFrame
    <3>2. req'[q] = req[q]
      BY <2>4, <3>1, OthersStep
    <3>3. req'[q].pc # "revoke"
      BY <1>1, <2>1, <2>2 DEF RequestRevokes, Goes, Ends, Request, Rest
    <3> QED
      BY <2>2, <3>2, <3>3
  <2> QED
    BY <1>3, <2>3, <2>4
<1>5. CASE \E s \in Staff : StaffRevokes(s)
  <2>1. req' = req
    BY <1>5 DEF StaffRevokes
  <2>2. ASSUME NEW r \in Reqs, Starts(r)
        PROVE  FALSE
    <3>1. req[r] = Rest /\ req'[r].pc # "idle"
      BY <2>2, StartFrame
    <3> QED
      BY <2>1, <3>1 DEF Rest
  <2> QED
    BY <1>3, <2>1, <2>2
<1> QED
  BY <1>4, <1>5 DEF Revokes

\* Where a request that is about to create a token, or to rotate, comes from.
LEMMA LaterStep ==
    ASSUME TypeOK, RequestInv, Next, NEW r \in Reqs, req'[r].pc \in {"rotate", "create"}
    PROVE  \/ Starts(r) /\ req'[r].pc = "create"
           \/ ReadToken(r) /\ req'[r].version = account.version /\ req'[r].admin = account.admin
           \/ /\ req[r].pc \in {"rotate", "create"}
              /\ req'[r].version = req[r].version /\ req'[r].admin = req[r].admin
              /\ req'[r].pc = "create" => req[r].pc = "create" \/ Rotate(r)
<1>1. req \in [Reqs -> Request] /\ req[r] \in Request /\ req'[r] # Rest
  BY DEF TypeOK, Rest
<1>2. CASE req'[r] = req[r]
  BY <1>2
<1>3. CASE Starts(r)
  BY <1>3, StartFrame
<1>4. CASE GoesOn(r)
  <2>1. ~Replayed(r) /\ ~Rejected(r) /\ ~LoseRotation(r) /\ ~\E t \in Tokens : CreateToken(r, t)
    BY <1>1 DEF Replayed, Rejected, LoseRotation, CreateToken, Goes, Ends, Request
  <2>2. ~RequestRevokes(r) /\ ~LogoutIncrements(r) /\ ~LogoutInvalidates(r) /\ ~RequestFails(r)
    BY <1>1 DEF RequestRevokes, LogoutIncrements, LogoutInvalidates, RequestFails, Goes, Ends, Request
  <2>3. ~Deliver(r) /\ ~Lose(r)
    BY <1>1 DEF Deliver, Lose, Ends
  <2>4. ReadToken(r) => req'[r].version = account.version /\ req'[r].admin = account.admin
    BY <1>1 DEF ReadToken, Request
  <2>5. Rotate(r) => req[r].pc = "rotate" /\ req'[r].version = req[r].version /\ req'[r].admin = req[r].admin
    BY <1>1 DEF Rotate, Goes, Request
  <2>6. GiveUp(r) => /\ req'[r].pc = req[r].pc
                     /\ req'[r].version = req[r].version /\ req'[r].admin = req[r].admin
    BY <1>1 DEF GiveUp, Request
  <2> QED
    BY <1>4, <2>1, <2>2, <2>3, <2>4, <2>5, <2>6 DEF GoesOn
<1>5. ASSUME NEW q \in Reqs, q # r, Starts(q) \/ GoesOn(q)
      PROVE  req'[r] = req[r]
  BY <1>5, OthersStep
<1> QED
  BY <1>1, <1>2, <1>3, <1>4, <1>5, ElsewhereFrame, Kinds DEF Restart

LEMMA RevocationInvStep ==
    ASSUME TypeOK, RequestInv, TokenInv, RevocationInv, Next, Record
    PROVE  RevocationInv'
<1> SUFFICES ASSUME NEW r \in bygone'
             PROVE  /\ req'[r] # Rest
                    /\ req'[r].pc \in {"read", "rotate"} =>
                            token'[req'[r].token].status \in Dead \cup {"gone"}
                    /\ req'[r].pc = "create" => r \in straggling'
  BY DEF RevocationInv
<1>1. r \in Reqs /\ req'[r] # Rest
  BY DEF Record, TypeOK, InFlight
<1>2. CASE Revokes
  <2>1. req[r] # Rest
    BY <1>2 DEF Record, InFlight
  <2>2. ASSUME req'[r].pc \in {"read", "rotate"}
        PROVE  token'[req'[r].token].status \in Dead \cup {"gone"}
    <3>1. /\ req[r].op = "refresh" /\ req'[r].token = req[r].token /\ req[r].token \in Tokens
      BY <1>1, <1>2, <2>2, EarlyStep, RevokesStep
    <3>2. token[req[r].token].status # "none"
      BY <1>1, <3>1 DEF TokenInv
    <3> QED
      BY <1>2, <3>1, <3>2, RevokesStep
  <2>3. ASSUME req'[r].pc = "create"
        PROVE  r \in straggling'
    <3>1. req[r].pc = "create"
      BY <1>1, <1>2, <2>3, RevokesStep
    <3> QED
      BY <1>1, <1>2, <3>1 DEF Record
  <2> QED
    BY <1>1, <2>2, <2>3
<1>3. CASE ~Revokes
  <2>1. r \in bygone /\ req[r] # Rest
    BY <1>3 DEF Record, RevocationInv
  <2>2. ~Starts(r)
    BY <1>1, <2>1, StartFrame
  <2>3. ASSUME req'[r].pc \in {"read", "rotate"}
        PROVE  token'[req'[r].token].status \in Dead \cup {"gone"}
    <3>1. /\ req[r].pc \in {"read", "rotate"}
          /\ req'[r].token = req[r].token /\ req[r].token \in Tokens
      BY <1>1, <2>2, <2>3, EarlyStep
    <3>2. token[req[r].token].status \in Dead \cup {"gone"}
      BY <2>1, <3>1 DEF RevocationInv
    <3> QED
      BY <3>1, <3>2, TokenStep
  <2>4. ASSUME req'[r].pc = "create"
        PROVE  r \in straggling'
    <3>1. req[r].pc = "create" \/ Rotate(r)
      <4>1. ~ReadToken(r)
        <5>1. req[r] \in Request /\ req \in [Reqs -> Request]
          BY <1>1 DEF TypeOK
        <5> QED
          BY <1>1, <2>4, <5>1 DEF ReadToken, Request
      <4> QED
        BY <1>1, <2>2, <2>4, <4>1, LaterStep
    <3>2. ~Rotate(r)
      BY <2>1 DEF Rotate, Rotatable, RevocationInv, Dead, Unrevoked
    <3>3. r \in straggling
      BY <2>1, <3>1, <3>2 DEF RevocationInv
    <3> QED
      BY <1>1, <1>3, <3>3 DEF Record
  <2> QED
    BY <1>1, <2>3, <2>4
<1> QED
  BY <1>2, <1>3

-----------------------------------------------------------------------------
(* The claims and the cache.                                               *)

\* What a step does to the row of the user.
LEMMA AccountStep ==
    ASSUME TypeOK, RequestInv, Next
    PROVE  \/ account'.version = account.version + 1
           \/ account' = account
           \/ /\ account'.version = account.version
              /\ \/ Pending'
                 \/ SetActive(FALSE)
                 \/ account'.active /\ account'.admin = account.admin
<1>1. account \in [active : BOOLEAN, admin : BOOLEAN, version : Versions]
      /\ staff \in [Staff -> [pc : {"idle", "increment", "invalidate", "revoke"}, revokes : BOOLEAN]]
  BY DEF TypeOK
<1>2. Increment => account'.version = account.version + 1
  BY <1>1 DEF Increment
<1>3. ASSUME NEW r \in Reqs, Starts(r) \/ GoesOn(r)
      PROVE  account' = account \/ Increment
  BY <1>3, StartFrame DEF GoesOn, Replayed, Rejected, ReadToken, LoseRotation, RequestRevokes,
     Rotate, CreateToken, LogoutIncrements, LogoutInvalidates, RequestFails, Deliver, Lose, GiveUp
<1>4. ASSUME NEW s \in Staff, NEW field \in {"active", "admin"}, NEW value \in BOOLEAN,
             StaffWrite(s, field, value)
      PROVE  account'.version = account.version /\ Pending'
  <2>1. account'.version = account.version
    BY <1>1, <1>4 DEF StaffWrite
  <2>2. staff'[s].pc = "increment"
    BY <1>1, <1>4 DEF StaffWrite, Versioned, Proceeds
  <2> QED
    BY <2>1, <2>2 DEF Pending
<1>5. ASSUME NEW s \in Staff, StaffStep(s)
      PROVE  \/ account' = account \/ Increment
             \/ account'.version = account.version /\ Pending'
  BY <1>4, <1>5 DEF StaffStep, ResetPassword, ToggleTwoFactor, StaffIncrements,
     StaffInvalidates, StaffRevokes, StaffFails
<1>6. ASSUME NEW active \in BOOLEAN, SetActive(active)
      PROVE  /\ account'.version = account.version /\ account'.admin = account.admin
             /\ account'.active = active
  BY <1>1, <1>6 DEF SetActive
<1> QED
  BY <1>2, <1>3, <1>5, <1>6, Kinds DEF Elsewhere, LookUp, Store, Lapse, Expire, Prune, Restart

\* What a token of this version may claim.
Granted(version, admin) ==
    version = account.version =>
        \/ account.active /\ (admin => account.admin)
        \/ unversioned \/ Pending

\* ... and after the step.
GrantedAfter(version, admin) ==
    /\ version <= account'.version
    /\ version = account'.version =>
        \/ account'.active /\ (admin => account'.admin)
        \/ unversioned' \/ Pending'

LEMMA GrantedStep ==
    ASSUME TypeOK, RequestInv, Next, Record, NEW v \in Int, NEW a \in BOOLEAN,
           v <= account.version, Granted(v, a)
    PROVE  GrantedAfter(v, a)
<1>1. account.version \in Int /\ account.version + 1 \in Int /\ v <= account'.version
      /\ v < account.version + 1
  BY PlainTypes DEF TypeOK, Versions
<1>2. CASE account'.version = account.version + 1
  BY <1>1, <1>2 DEF GrantedAfter
<1>3. CASE account'.version = account.version /\ (unversioned \/ Pending)
  <2>1. Pending' \/ unversioned'
    BY <1>3 DEF Record
  <2> QED
    BY <1>1, <2>1 DEF GrantedAfter
<1>4. CASE account' = account
  BY <1>1, <1>3, <1>4 DEF Granted, GrantedAfter
<1>5. CASE /\ account'.version = account.version
           /\ \/ Pending'
              \/ SetActive(FALSE)
              \/ account'.active /\ account'.admin = account.admin
  <2>1. SetActive(FALSE) => unversioned'
    BY <1>5 DEF Record
  <2> QED
    BY <1>1, <1>3, <1>5, <2>1 DEF Granted, GrantedAfter
<1> QED
  BY <1>2, <1>4, <1>5, AccountStep

LEMMA ClaimsStep ==
    ASSUME TypeOK, RequestInv, ReadInv, ClaimsAreTrue, Next, Record
    PROVE  ClaimsAreTrue' /\ ReadInv'
<1>1. /\ account.version \in Versions /\ account.admin \in BOOLEAN
      /\ jwts \subseteq Claims /\ fill \in [Checks -> Versions \cup {None}]
      /\ cache \in Versions \cup {None} /\ req \in [Reqs -> Request]
  BY DEF TypeOK
<1>2. account.version \in Int /\ account'.version \in Int /\ account.version <= account'.version
      /\ Versions \subseteq Int /\ None \in Int /\ \A v \in Versions : None <= v
  BY <1>1, PlainTypes DEF Versions, None
<1>3. \A v \in Int, a \in BOOLEAN : v <= account.version /\ Granted(v, a) => GrantedAfter(v, a)
  BY GrantedStep
\* A request that has read the row: now, when it started, or before.
<1>4. ASSUME NEW r \in Reqs, req[r].pc \in {"rotate", "create"}
      PROVE  GrantedAfter(req[r].version, req[r].admin)
  <2>1. req[r].version \in Int /\ req[r].admin \in BOOLEAN
    BY <1>1, <1>2, <1>4 DEF Request
  <2>2. req[r].version <= account.version /\ Granted(req[r].version, req[r].admin)
    BY <1>4 DEF ReadInv, Granted
  <2> QED
    BY <1>3, <2>1, <2>2
<1>5. account.active => GrantedAfter(account.version, account.admin)
  BY <1>1, <1>2, <1>3 DEF Granted
<1>6. ASSUME NEW j \in jwts'
      PROVE  GrantedAfter(j.version, j.admin)
  <2>1. CASE j \in jwts
    <3>1. j.version \in Int /\ j.admin \in BOOLEAN
      BY <1>1, <1>2, <2>1 DEF Claims
    <3> QED
      BY <1>3, <2>1, <3>1 DEF ReadInv, ClaimsAreTrue, Granted
  <2>2. ASSUME NEW r \in Reqs, NEW t \in Tokens, CreateToken(r, t), j \notin jwts
        PROVE  GrantedAfter(j.version, j.admin)
    <3>1. j.version = req[r].version /\ j.admin = req[r].admin /\ req[r].pc = "create"
      BY <2>2 DEF CreateToken
    <3> QED
      BY <1>4, <3>1
  <2>3. ASSUME NEW r \in Reqs, GoesOn(r), ~\E t \in Tokens : CreateToken(r, t)
        PROVE  jwts' = jwts
    BY <2>3 DEF GoesOn, Replayed, Rejected, ReadToken, LoseRotation, RequestRevokes, Rotate,
       LogoutIncrements, LogoutInvalidates, RequestFails, Deliver, Lose, GiveUp
  <2> QED
    BY <1>6, <2>1, <2>2, <2>3, StartFrame, ElsewhereFrame, Kinds DEF Restart
<1>7. ASSUME NEW r \in Reqs, req'[r].pc \in {"rotate", "create"}
      PROVE  GrantedAfter(req'[r].version, req'[r].admin)
  <2>1. CASE Starts(r) /\ req'[r].pc = "create"
    BY <1>5, <2>1, StartFrame
  <2>2. CASE ReadToken(r) /\ req'[r].version = account.version /\ req'[r].admin = account.admin
    BY <1>5, <2>2 DEF ReadToken
  <2>3. CASE /\ req[r].pc \in {"rotate", "create"}
             /\ req'[r].version = req[r].version /\ req'[r].admin = req[r].admin
    BY <1>4, <2>3
  <2> QED
    BY <1>7, <2>1, <2>2, <2>3, LaterStep
<1>8. ASSUME NEW r \in Reqs
      PROVE  req'[r].version <= account'.version
  <2>1. req[r].version \in Int /\ req[r].version <= account'.version
    <3>1. req[r] \in Request /\ req[r].version <= account.version
      BY <1>1 DEF ReadInv
    <3>2. req[r].version \in Int
      BY <1>2, <3>1 DEF Request
    <3> QED
      BY <1>2, <3>1, <3>2
  <2>2. CASE req'[r] = Rest
    BY <1>1, <1>2, <2>2 DEF Rest
  <2>3. CASE Starts(r)
    BY <1>1, <1>2, <2>3, StartFrame
  <2>4. CASE GoesOn(r) /\ req'[r] # Rest
    <3>1. req'[r].version \in {req[r].version, account.version}
      <4>1. req[r] \in Request
        BY <1>1
      <4>2. CASE Replayed(r) \/ Rejected(r) \/ ReadToken(r) \/ Rotate(r) \/ LoseRotation(r)
        BY <1>1, <2>4, <4>1, <4>2 DEF Replayed, Rejected, ReadToken, Rotate, LoseRotation, Goes,
           Ends, Request
      <4>3. CASE \/ RequestRevokes(r) \/ LogoutIncrements(r) \/ LogoutInvalidates(r)
                 \/ RequestFails(r) \/ Deliver(r) \/ Lose(r)
        BY <1>1, <2>4, <4>1, <4>3 DEF RequestRevokes, LogoutIncrements, LogoutInvalidates,
           RequestFails, Deliver, Lose, Goes, Ends, Request
      <4>4. CASE GiveUp(r) \/ \E t \in Tokens : CreateToken(r, t)
        BY <1>1, <4>1, <4>4 DEF GiveUp, CreateToken, Request
      <4> QED
        BY <2>4, <4>2, <4>3, <4>4 DEF GoesOn
    <3> QED
      BY <1>2, <2>1, <3>1
  <2>5. ASSUME NEW q \in Reqs, q # r, Starts(q) \/ GoesOn(q)
        PROVE  req'[r] = req[r]
    BY <2>5, OthersStep
  <2>6. CASE req'[r] = req[r]
    BY <2>1, <2>6
  <2> QED
    BY <2>2, <2>3, <2>4, <2>5, <2>6, ElsewhereFrame, Kinds DEF Restart
<1>9. ASSUME NEW k \in Checks
      PROVE  fill[k] \in Int /\ fill[k] <= account'.version
  <2>1. fill[k] \in Int /\ fill[k] <= account.version
    BY <1>1, <1>2 DEF ReadInv
  <2> QED
    BY <1>2, <2>1
<1>10. cache \in Int /\ cache <= account'.version
  BY <1>1, <1>2 DEF ReadInv
<1>11. /\ \A k \in Checks : fill'[k] \in {fill[k], account.version, None}
       /\ cache' \in {cache, None} \/ \E k \in Checks : cache' = fill[k]
  <2>1. ASSUME NEW r \in Reqs, GoesOn(r)
        PROVE  UNCHANGED fill /\ cache' \in {cache, None}
    BY <2>1 DEF GoesOn, Replayed, Rejected, ReadToken, LoseRotation, RequestRevokes,
       Rotate, CreateToken, LogoutIncrements, LogoutInvalidates, RequestFails, Deliver, Lose, GiveUp
  <2>2. ASSUME NEW s \in Staff, StaffStep(s)
        PROVE  UNCHANGED fill /\ cache' \in {cache, None}
    BY <2>2 DEF StaffStep, StaffWrite, ResetPassword, ToggleTwoFactor, StaffIncrements,
       StaffInvalidates, Invalidated, StaffRevokes, StaffFails
  <2>3. ASSUME NEW k \in Checks, LookUp(k) \/ Store(k)
        PROVE  /\ \A c \in Checks : fill'[c] \in {fill[c], account.version, None}
               /\ cache' \in {cache, None} \/ cache' = fill[k]
    BY <1>1, <2>3 DEF LookUp, Store
  <2> QED
    BY <2>1, <2>2, <2>3, StartFrame, Kinds DEF Elsewhere, SetActive, Lapse, Expire, Prune, Restart
<1>12. /\ \A k \in Checks : fill'[k] <= account'.version
       /\ cache' <= account'.version
  BY <1>1, <1>2, <1>9, <1>10, <1>11
<1> QED
  BY <1>6, <1>7, <1>8, <1>12 DEF ClaimsAreTrue, ReadInv, GrantedAfter

\* A new version is followed by an invalidation, and that empties the cache.
LEMMA InvalidatingStep ==
    ASSUME TypeOK, RequestInv, Next
    PROVE  /\ account'.version # account.version => Invalidating'
           /\ Invalidating => Invalidating' \/ cache' = None
           /\ \/ cache' \in {cache, None}
              \/ \E k \in Checks : Store(k)
<1>1. /\ staff \in [Staff -> [pc : {"idle", "increment", "invalidate", "revoke"}, revokes : BOOLEAN]]
      /\ req \in [Reqs -> Request]
      /\ account \in [active : BOOLEAN, admin : BOOLEAN, version : Versions]
  BY DEF TypeOK
<1>2. ASSUME NEW r \in Reqs, Starts(r)
      PROVE  UNCHANGED <<account, staff, cache>> /\ (Invalidating => Invalidating')
  <2>1. \A q \in Reqs : req[q].pc = "invalidate" => req'[q] = req[q]
    BY <1>2, OthersStep, StartFrame DEF Rest
  <2> QED
    BY <1>2, <2>1, StartFrame DEF Invalidating
<1>3. ASSUME NEW r \in Reqs, GoesOn(r)
      PROVE  /\ account'.version # account.version => Invalidating'
             /\ Invalidating => Invalidating' \/ cache' = None
             /\ cache' \in {cache, None}
  <2>1. req[r] \in Request /\ \A q \in Reqs \ {r} : req'[q] = req[q]
    BY <1>1, <1>3, OthersStep
  <2>2. CASE LogoutIncrements(r)
    BY <1>1, <2>1, <2>2 DEF LogoutIncrements, Goes, Request, Invalidating
  <2>3. CASE LogoutInvalidates(r)
    BY <2>3 DEF LogoutInvalidates
  <2>4. CASE ~LogoutIncrements(r) /\ ~LogoutInvalidates(r)
    <3>1. UNCHANGED <<account, staff, cache>>
      BY <1>3, <2>4 DEF GoesOn, Replayed, Rejected, ReadToken, LoseRotation, RequestRevokes,
         Rotate, CreateToken, RequestFails, Deliver, Lose, GiveUp
    <3>2. req[r].pc = "invalidate" => req'[r].pc = "invalidate"
      <4>1. GiveUp(r) => req'[r].pc = req[r].pc
        BY <1>1, <2>1 DEF GiveUp, Request
      <4> QED
        BY <1>3, <2>4, <4>1 DEF GoesOn, Replayed, Rejected, ReadToken, LoseRotation,
           RequestRevokes, Rotate, CreateToken, RequestFails, Deliver, Lose
    <3> QED
      BY <2>1, <3>1, <3>2 DEF Invalidating
  <2> QED
    BY <2>2, <2>3, <2>4
<1>4. ASSUME NEW s \in Staff, StaffStep(s)
      PROVE  /\ account'.version # account.version => Invalidating'
             /\ Invalidating => Invalidating' \/ cache' = None
             /\ cache' \in {cache, None}
  <2>1. CASE ResetPassword(s) \/ StaffIncrements(s)
    <3>1. staff'[s].pc = "invalidate" /\ UNCHANGED cache
      BY <1>1, <2>1 DEF ResetPassword, StaffIncrements, Proceeds
    <3> QED
      BY <3>1 DEF Invalidating
  <2>2. CASE StaffInvalidates(s)
    BY <2>2 DEF StaffInvalidates, Invalidated
  <2>3. CASE \/ \E field \in {"active", "admin"}, value \in BOOLEAN : StaffWrite(s, field, value)
             \/ ToggleTwoFactor(s) \/ StaffRevokes(s) \/ StaffFails(s)
    <3>1. account'.version = account.version /\ UNCHANGED <<req, cache>>
      BY <1>1, <2>3 DEF StaffWrite, ToggleTwoFactor, StaffRevokes, StaffFails
    <3>2. \A q \in Staff : staff[q].pc = "invalidate" => staff'[q] = staff[q]
      BY <1>1, <2>3 DEF StaffWrite, ToggleTwoFactor, StaffRevokes, StaffFails, Proceeds
    <3> QED
      BY <3>1, <3>2 DEF Invalidating
  <2> QED
    BY <1>4, <2>1, <2>2, <2>3 DEF StaffStep
<1>5. CASE (\E active \in BOOLEAN : SetActive(active)) \/ (\E k \in Checks : LookUp(k) \/ Store(k))
  <2>1. account'.version = account.version /\ UNCHANGED <<req, staff>>
    BY <1>1, <1>5 DEF SetActive, LookUp, Store
  <2> QED
    BY <1>5, <2>1 DEF Invalidating, SetActive, LookUp
<1>6. CASE Lapse \/ Restart \/ \E t \in Tokens : Expire(t) \/ Prune(t)
  BY <1>6 DEF Lapse, Restart, Expire, Prune, Invalidating
<1> QED
  BY <1>2, <1>3, <1>4, <1>5, <1>6, Kinds DEF Elsewhere

LEMMA CacheInvStep ==
    ASSUME TypeOK, RequestInv, CacheInv, Next, Record
    PROVE  CacheInv'
<1> SUFFICES ASSUME cache' # None, cache' # account'.version, ~Invalidating'
             PROVE  late'
  BY DEF CacheInv
<1>1. account'.version = account.version /\ ~Invalidating
  BY InvalidatingStep
<1>2. CASE \E k \in Checks : Store(k)
  BY <1>1, <1>2 DEF Record
<1>3. CASE cache' = cache /\ ~\E k \in Checks : Store(k)
  BY <1>1, <1>3 DEF CacheInv, Record
<1> QED
  BY <1>2, <1>3, InvalidatingStep

-----------------------------------------------------------------------------
(* Sessions implements Logins: the steps in terms of families.             *)

Families == [t \in Tokens |-> token[t].family]

CurrentTokens == {t \in Tokens : token[t].status \in Unrevoked}

Renewals == {token[req[r].token].family : r \in {q \in Reqs : Creating(q)}}

\* Which steps touch the tokens.
LEMMA TokenChanges ==
    ASSUME Next
    PROVE  \/ UNCHANGED token
           \/ Revokes
           \/ \E r \in Reqs : Rotate(r) \/ \E t \in Tokens : CreateToken(r, t)
           \/ \E t \in Tokens : Expire(t) \/ Prune(t)
<1>1. ASSUME NEW r \in Reqs, Starts(r) \/ GoesOn(r), ~Rotate(r), ~RequestRevokes(r),
             ~\E t \in Tokens : CreateToken(r, t)
      PROVE  UNCHANGED token
  BY <1>1 DEF Starts, GoesOn, StartRefresh, StartLogin, StartLogout, StartAnonymousLogout,
     Replayed, Rejected, ReadToken, LoseRotation, LogoutIncrements, LogoutInvalidates,
     RequestFails, Deliver, Lose, GiveUp
<1>2. ASSUME NEW s \in Staff, StaffStep(s), ~StaffRevokes(s)
      PROVE  UNCHANGED token
  BY <1>2 DEF StaffStep, StaffWrite, ResetPassword, ToggleTwoFactor, StaffIncrements,
     StaffInvalidates, StaffFails
<1> QED
  BY <1>1, <1>2, Kinds DEF Elsewhere, SetActive, LookUp, Store, Lapse, Restart, Revokes

\* The family of a request that creates an heir does not change meanwhile, and
\* a request begins to create one by rotating.
LEMMA RenewalStep ==
    ASSUME TypeOK, RequestInv, TokenInv, Next, NEW r \in Reqs, Creating(r)'
    PROVE  /\ req[r].token \in Tokens
           /\ token'[req'[r].token].family = token[req[r].token].family
           /\ Creating(r) \/ Rotate(r)
  BY CreatingStep DEF Creating

LEMMA RenewalsAreLogins ==
    ASSUME TypeOK, RequestInv, TokenInv
    PROVE  Renewals \subseteq Tokens
<1>1. ASSUME NEW r \in Reqs, Creating(r)
      PROVE  token[req[r].token].family \in Tokens
  <2>1. req[r].token \in Tokens /\ token[req[r].token].status # "none"
    BY <1>1 DEF Creating, RequestInv, TokenInv
  <2>2. token[req[r].token].family \in Tokens \cup {None} /\ token[req[r].token].family # None
    BY <2>1 DEF TypeOK, Row, TokenInv
  <2> QED
    BY <2>2
<1> QED
  BY <1>1 DEF Renewals

\* Renewals after a step that no request begins to create by.
LEMMA RenewalsShrink ==
    ASSUME TypeOK, RequestInv, TokenInv, Next, \A r \in Reqs : Creating(r)' => Creating(r)
    PROVE  /\ Renewals' \subseteq Renewals
           /\ (\A r \in Reqs : Creating(r) => Creating(r)') => Renewals' = Renewals
<1>1. \A r \in Reqs : Creating(r)' =>
            token'[req'[r].token].family = token[req[r].token].family
  BY RenewalStep
<1> QED
  BY <1>1 DEF Renewals

\* A family changes only with the creation of the token.
LEMMA FamiliesStep ==
    ASSUME TypeOK, RequestInv, TokenInv, Next, \A r \in Reqs, t \in Tokens : ~CreateToken(r, t)
    PROVE  Families' = Families
<1>1. ASSUME NEW t \in Tokens
      PROVE  token'[t].family = token[t].family
  BY TokenStep, FreshStep
<1> QED
  BY <1>1 DEF Families

LEMMA SpendStep ==
    ASSUME TypeOK, RequestInv, TokenInv, LinearChain, Next, NEW r \in Reqs, Rotate(r),
           NEW t \in Tokens, req[r].token = t
    PROVE  Login!Spend(t)
<1>1. /\ t \in Tokens /\ token[t].status \in Unrevoked /\ req[r].op = "refresh"
      /\ token \in [Tokens -> Row] /\ req \in [Reqs -> Request] /\ token[t] \in Row
  BY DEF Rotate, Rotatable, RequestInv, TypeOK
<1>2. token'[t].status = "rotated" /\ \A u \in Tokens \ {t} : token'[u] = token[u]
  BY <1>1 DEF Rotate, Row
<1>3. CurrentTokens' = CurrentTokens \ {t}
  BY <1>1, <1>2 DEF CurrentTokens, Unrevoked
<1>4. \A q \in Reqs \ {r} : req'[q] = req[q]
  BY <1>1 DEF Rotate, Goes
<1>5. Creating(r)' /\ ~Creating(r) /\ req'[r].token = t
  BY <1>1 DEF Rotate, Goes, Creating, Request
<1>6. Families' = Families
  <2>1. \A q \in Reqs, u \in Tokens : ~CreateToken(q, u)
    <3>1. ASSUME NEW q \in Reqs, NEW u \in Tokens, CreateToken(q, u)
          PROVE  FALSE
      <4>1. token[u].status = "none" /\ token'[u].status = "live"
        BY <3>1, CreateStep
      <4> QED
        BY <1>1, <1>2, <4>1 DEF Unrevoked
    <3> QED
      BY <3>1
  <2> QED
    BY <2>1, FamiliesStep
<1>7. \A q \in Reqs \ {r} : Creating(q)' <=> Creating(q)
  BY <1>4 DEF Creating
<1>8. \A q \in Reqs : Creating(q)' => token'[req'[q].token].family = token[req[q].token].family
  BY RenewalStep
<1>9. Renewals' = Renewals \cup {token[t].family}
  BY <1>5, <1>7, <1>8 DEF Renewals
<1>10. token[t].family \notin Renewals
  <2>1. \A q \in Reqs : Creating(q) => token[req[q].token].family # token[t].family
    BY <1>1 DEF Creating, LinearChain
  <2> QED
    BY <2>1 DEF Renewals
<1>11. t \in CurrentTokens /\ Families[t] = token[t].family
  BY <1>1 DEF CurrentTokens, Families
<1> QED
  BY <1>1, <1>3, <1>6, <1>9, <1>10, <1>11 DEF Login!Spend, Families, CurrentTokens, Renewals

LEMMA OpenOrRenewStep ==
    ASSUME TypeOK, RequestInv, TokenInv, LinearChain, Next, NEW r \in Reqs, NEW t \in Tokens,
           CreateToken(r, t)
    PROVE  Login!Open(t) \/ \E l \in Tokens : Login!Renew(l, t)
<1>1. /\ token[t].status = "none" /\ token[t].family = None
      /\ \A u \in Tokens \ {t} : token'[u] = token[u]
      /\ token'[t].status = "live"
      /\ \A q \in Reqs \ {r} : req'[q] = req[q]
  BY CreateStep
<1>2. req \in [Reqs -> Request] /\ req[r] \in Request /\ None \notin Tokens
  BY NamesAssumption DEF TypeOK
<1>3. CurrentTokens' = CurrentTokens \cup {t} /\ t \notin CurrentTokens
  BY <1>1 DEF CurrentTokens, Unrevoked
<1>4. Families' = [Families EXCEPT ![t] = token'[t].family] /\ Families[t] = None
  BY <1>1 DEF Families
<1>5. \A q \in Reqs \ {r} : Creating(q)' <=> Creating(q)
  BY <1>1 DEF Creating
<1>6. ~Creating(r)'
  BY <1>2 DEF CreateToken, Creating, Request
<1>7. CASE req[r].op = "login" /\ token'[t].family = t
  <2>1. Renewals' = Renewals
    BY <1>5, <1>6, <1>7, RenewalsShrink DEF Creating
  <2> QED
    BY <1>3, <1>4, <1>7, <2>1 DEF Login!Open, Families, CurrentTokens, Renewals
<1>8. CASE req[r].op = "refresh" /\ token'[t].family = token[req[r].token].family
  <2> DEFINE l == token[req[r].token].family
  <2>1. Creating(r)
    BY <1>8, CreateStep DEF Creating
  <2>2. l \in Renewals /\ l \in Tokens
    BY <2>1, RenewalsAreLogins DEF Renewals
  <2>3. \A q \in Reqs \ {r} : Creating(q) => token[req[q].token].family # l
    BY <2>1 DEF Creating, LinearChain
  <2>4. \A q \in Reqs : Creating(q)' => token'[req'[q].token].family = token[req[q].token].family
    BY RenewalStep
  <2>5. Renewals' = Renewals \ {l}
    BY <1>5, <1>6, <2>1, <2>3, <2>4 DEF Renewals
  <2>6. \A u \in CurrentTokens : Families[u] # l
    BY <2>1 DEF CurrentTokens, Families, Creating, LinearChain
  <2>7. Families' = [Families EXCEPT ![t] = l]
    BY <1>4, <1>8
  <2> HIDE DEF l
  <2>8. Login!Renew(l, t)
    BY <1>3, <1>4, <2>2, <2>5, <2>6, <2>7 DEF Login!Renew, Families, CurrentTokens, Renewals
  <2> QED
    BY <2>2, <2>8
<1> QED
  BY <1>7, <1>8, CreateStep

LEMMA LoginStep ==
    ASSUME TypeOK, RequestInv, TokenInv, LinearChain, Next
    PROVE  [Login!Next]_Login!vars
<1>1. /\ token \in [Tokens -> Row] /\ req \in [Reqs -> Request] /\ token' \in [Tokens -> Row]
      /\ Renewals \subseteq Tokens
  BY TokenStep, RenewalsAreLogins DEF TypeOK
<1>2. CASE \E r \in Reqs : Rotate(r)
  <2>1. PICK r \in Reqs : Rotate(r)
    BY <1>2
  <2>2. PICK t \in Tokens : req[r].token = t
    BY <2>1 DEF Rotate, RequestInv
  <2>3. Login!Spend(t)
    BY <2>1, <2>2, SpendStep
  <2> QED
    BY <2>3 DEF Login!Next
<1>3. CASE \E r \in Reqs, t \in Tokens : CreateToken(r, t)
  BY <1>3, OpenOrRenewStep DEF Login!Next
<1> DEFINE Quiet == /\ \A r \in Reqs : ~Rotate(r)
                    /\ \A r \in Reqs, t \in Tokens : ~CreateToken(r, t)
<1>4. Quiet => /\ Families' = Families
               /\ Renewals' \subseteq Renewals
               /\ (\A r \in Reqs : Creating(r) => Creating(r)') => Renewals' = Renewals
  BY FamiliesStep, RenewalStep, RenewalsShrink
<1>5. CASE Quiet /\ UNCHANGED token
  <2>1. CurrentTokens' = CurrentTokens
    BY <1>5 DEF CurrentTokens
  <2>2. PICK unmet \in SUBSET Tokens : unmet = Renewals \ Renewals'
    BY <1>1
  <2>3. Renewals' = Renewals \ unmet
    BY <1>4, <1>5, <2>2
  <2>4. Login!Abandon(unmet)
    BY <1>4, <1>5, <2>1, <2>3 DEF Login!Abandon, Families, CurrentTokens, Renewals
  <2> QED
    BY <2>4 DEF Login!Next
<1>6. CASE Quiet /\ Revokes
  <2>1. CurrentTokens' = {}
    <3>1. \A t \in Tokens : token'[t].status \notin Unrevoked
      <4>1. RevokeAll
        BY <1>6 DEF Revokes, RequestRevokes, StaffRevokes
      <4> QED
        BY <1>1, <4>1 DEF RevokeAll, Unrevoked, Row
    <3> QED
      BY <3>1 DEF CurrentTokens
  <2>2. \A r \in Reqs : Creating(r) => Creating(r)'
    <3>1. ASSUME NEW q \in Reqs, RequestRevokes(q), NEW r \in Reqs, Creating(r)
          PROVE  Creating(r)'
      <4>1. q # r
        BY <3>1 DEF RequestRevokes, Creating
      <4>2. req'[r] = req[r]
        BY <1>1, <3>1, <4>1 DEF RequestRevokes, Goes, Ends
      <4> QED
        BY <3>1, <4>2 DEF Creating
    <3>2. (\E s \in Staff : StaffRevokes(s)) => req' = req
      BY DEF StaffRevokes
    <3> QED
      BY <1>6, <3>1, <3>2 DEF Revokes, Creating
  <2> QED
    BY <1>4, <1>6, <2>1, <2>2 DEF Login!Next, Login!RevokeAll, Families, CurrentTokens, Renewals
<1>7. ASSUME Quiet, NEW t \in Tokens, Expire(t) \/ Prune(t)
      PROVE  Login!Forget(t) \/ UNCHANGED <<Families, CurrentTokens, Renewals>>
  <2>1. Renewals' = Renewals
    BY <1>4, <1>7 DEF Expire, Prune, Creating
  <2>2. \A u \in Tokens \ {t} : token'[u] = token[u]
    BY <1>1, <1>7 DEF Expire, Prune
  <2>3. CASE Expire(t)
    <3>1. token[t].status \in Unrevoked /\ token'[t].status \in Unrevoked
      BY <1>1, <2>3 DEF Expire, Unrevoked, Row
    <3>2. CurrentTokens' = CurrentTokens
      BY <2>2, <3>1 DEF CurrentTokens
    <3> QED
      BY <1>4, <1>7, <2>1, <3>2
  <2>4. CASE Prune(t)
    <3>1. token'[t].status \notin Unrevoked
      BY <1>1, <2>4 DEF Prune, Unrevoked, Row
    <3>2. CurrentTokens' = CurrentTokens \ {t}
      BY <2>2, <3>1 DEF CurrentTokens
    <3> QED
      BY <1>4, <1>7, <2>1, <3>2 DEF Login!Forget, Families, CurrentTokens, Renewals
  <2> QED
    BY <1>7, <2>3, <2>4
<1>8. CASE Quiet /\ \E t \in Tokens : Expire(t) \/ Prune(t)
  <2>1. PICK t \in Tokens : Expire(t) \/ Prune(t)
    BY <1>8
  <2>2. CASE Login!Forget(t)
    BY <2>2 DEF Login!Next
  <2>3. CASE UNCHANGED <<Families, CurrentTokens, Renewals>>
    BY <2>3 DEF Login!vars, Families, CurrentTokens, Renewals
  <2> QED
    BY <1>7, <1>8, <2>1, <2>2, <2>3
<1> QED
  BY <1>2, <1>3, <1>5, <1>6, <1>8, TokenChanges

\* A login that is over gets no usable token and no heir.
LEMMA OverStep ==
    ASSUME TypeOK, RequestInv, TokenInv, Next, NEW l \in Tokens, Over(l)
    PROVE  Over(l)'
<1>1. PICK u \in Tokens : token[u].family = l
  BY DEF Over
<1>2. token[u].status # "none" /\ token[l].status # "none" /\ l # None
  BY <1>1, NamesAssumption DEF TokenInv
<1>3. token'[u].family = l
  BY <1>1, <1>2, TokenStep
<1>4. ASSUME NEW t \in Tokens, token'[t].family = l, token'[t].status \in Unrevoked
      PROVE  FALSE
  <2>1. CASE token[t].status \in Unrevoked /\ token'[t].family = token[t].family
    BY <1>4, <2>1 DEF Over
  <2>2. CASE \E r \in Reqs : CreateToken(r, t)
    <3>1. PICK r \in Reqs : CreateToken(r, t)
      BY <2>2
    <3>2. CASE req[r].op = "login" /\ token'[t].family = t
      BY <1>2, <1>4, <3>1, <3>2, CreateStep
    <3>3. CASE req[r].op = "refresh" /\ token'[t].family = token[req[r].token].family
      BY <1>4, <3>1, <3>3, CreateStep DEF Over, Creating
    <3> QED
      BY <3>1, <3>2, <3>3, CreateStep
  <2> QED
    BY <1>4, <2>1, <2>2, UnrevokedStep
<1>5. ASSUME NEW r \in Reqs, Creating(r)', token'[req'[r].token].family = l
      PROVE  FALSE
  <2>1. req[r].token \in Tokens /\ token[req[r].token].family = l /\ (Creating(r) \/ Rotate(r))
    BY <1>5, RenewalStep
  <2> QED
    BY <2>1 DEF Over, Rotate, Rotatable
<1> QED
  BY <1>1, <1>3, <1>4, <1>5 DEF Over

-----------------------------------------------------------------------------
(* The theorems.                                                           *)

LEMMA SessionInvInit ==
    ASSUME Init, HistoryInit
    PROVE  SessionInv
<1>1. TypeOK
  <2>1. req \in [Reqs -> Request] /\ token \in [Tokens -> Row]
    BY RestTyped DEF Init
  <2>2. 0 \in Versions /\ 0 \in 0 .. MaxStarted
    BY BoundsAssumption DEF Versions
  <2>3. account \in [active : BOOLEAN, admin : BOOLEAN, version : Versions]
    <3>1. account \in [active : {TRUE}, admin : BOOLEAN, version : {0}]
      BY DEF Init
    <3> QED
      BY <2>2, <3>1
  <2>4. /\ jwts \subseteq Claims /\ cache \in Versions \cup {None}
        /\ fill \in [Checks -> Versions \cup {None}] /\ cookie \in Tokens \cup {None}
        /\ staff \in [Staff -> [pc : {"idle", "increment", "invalidate", "revoke"}, revokes : BOOLEAN]]
    BY DEF Init
  <2> QED
    BY <2>1, <2>2, <2>3, <2>4 DEF Init, HistoryInit, TypeOK
<1>2. RequestInv
  BY DEF Init, RequestInv, Rest
<1>3. TokenInv
  BY DEF Init, TokenInv, Rest, NoRow, Holding
<1>4. LinearChain
  BY DEF Init, LinearChain, Rest, NoRow, Unrevoked
<1>5. CookieInv /\ AlarmInv /\ RevocationInv /\ CacheInv
  BY DEF Init, HistoryInit, CookieInv, AlarmInv, RevocationInv, CacheInv, Presents, Rest
<1>6. ReadInv /\ ClaimsAreTrue
  BY DEF Init, ReadInv, ClaimsAreTrue, Rest, None
<1> QED
  BY <1>1, <1>2, <1>5, <1>6, <1>3, <1>4 DEF SessionInv

LEMMA SessionInvNext ==
    ASSUME SessionInv, Next, Record
    PROVE  SessionInv'
<1> USE DEF SessionInv
<1>1. TypeOK' /\ RequestInv'
  BY TypeStep, RequestInvStep
<1>2. TokenInv' /\ LinearChain'
  BY TokenInvStep, LinearStep
<1>3. CookieInv' /\ AlarmInv' /\ RevocationInv'
  BY CookieInvStep, AlarmInvStep, RevocationInvStep
<1>4. ReadInv' /\ ClaimsAreTrue' /\ CacheInv'
  BY ClaimsStep, CacheInvStep
<1> QED
  BY <1>1, <1>2, <1>3, <1>4

LEMMA SessionInvStutter ==
    ASSUME SessionInv, UNCHANGED <<vars, history>>
    PROVE  SessionInv'
<1> USE DEF vars, history, SessionInv
<1>1. TypeOK' /\ RequestInv'
  BY DEF TypeOK, RequestInv
<1>2. TokenInv' /\ LinearChain'
  BY DEF TokenInv, LinearChain, Holding
<1>3. CookieInv' /\ AlarmInv' /\ RevocationInv' /\ CacheInv'
  BY DEF CookieInv, AlarmInv, RevocationInv, CacheInv, Presents, Holding, Invalidating
<1>4. ReadInv' /\ ClaimsAreTrue'
  BY DEF ReadInv, ClaimsAreTrue, Pending
<1> QED
  BY <1>1, <1>2, <1>3, <1>4

\* The invariant, for any number of tokens, requests, tabs and operations:
\* among others, one unrevoked token per login and a cache that is behind the
\* row only in two known windows.
THEOREM SessionInvariant == HistorySpec => []SessionInv
<1>1. Init /\ HistoryInit => SessionInv
  BY SessionInvInit
<1>2. SessionInv /\ [Next /\ Record]_<<vars, history>> => SessionInv'
  BY SessionInvNext, SessionInvStutter
<1> QED
  BY <1>1, <1>2, PTL DEF HistorySpec

\* The version that validateTokenVersion answers from its cache is behind the row
\* only until an invalidation that is under way, or for an entry stored after it
\* (token-version.ts).
THEOREM CacheIsFresh == HistorySpec => []CacheInv
<1>1. SessionInv => CacheInv
  BY DEF SessionInv
<1> QED
  BY <1>1, SessionInvariant, PTL

\* Of the tokens of one login at most one is unrevoked (refresh-token.service.ts).
THEOREM ChainIsLinear == HistorySpec => []LinearChain
<1>1. SessionInv => LinearChain
  BY DEF SessionInv
<1> QED
  BY <1>1, SessionInvariant, PTL

\* An access token of the current version claims no right that the row denies,
\* apart from the windows named in ClaimsAreTrue.
THEOREM TrueClaims == HistorySpec => []ClaimsAreTrue
<1>1. SessionInv => ClaimsAreTrue
  BY DEF SessionInv
<1> QED
  BY <1>1, SessionInvariant, PTL

\* The replay alarm is never raised by a browser that gets its answers.
THEOREM AlarmsAreTrue == HistorySpec => NoFalseAlarm
<1>1. SessionInv /\ [Next /\ Record]_<<vars, history>>
        => [\A r \in Reqs :
                /\ Replayed(r) \/ LoseRotation(r)
                /\ token[req[r].token].status = "rotated"
                => req[r].token \in raced \cup lost]_<<vars, history>>
  <2>1. SessionInv => \A r \in Reqs :
                /\ Replayed(r) \/ LoseRotation(r)
                /\ token[req[r].token].status = "rotated"
                => req[r].token \in raced \cup lost
    BY DEF SessionInv, AlarmInv, Replayed, LoseRotation
  <2> QED
    BY <2>1
<1> QED
  BY <1>1, SessionInvariant, PTL DEF HistorySpec, NoFalseAlarm

\* A refresh that began before a revocation creates a token after it only when
\* it was past its last check.
THEOREM RevocationsHold == HistorySpec => NothingOutlivesRevocation
<1>1. SessionInv /\ [Next /\ Record]_<<vars, history>>
        => [\A r \in bygone, t \in Tokens : CreateToken(r, t) => r \in straggling]_<<vars, history>>
  <2>1. SessionInv =>
            \A r \in bygone, t \in Tokens : CreateToken(r, t) => r \in straggling
    BY DEF SessionInv, RevocationInv, CreateToken
  <2> QED
    BY <2>1
<1> QED
  BY <1>1, SessionInvariant, PTL DEF HistorySpec, NothingOutlivesRevocation

\* A refresh rotates, whatever overlaps: the sessions of an account are logins
\* with one current token each (refresh-token.service.ts).
THEOREM SessionsImplementLogins == HistorySpec => SessionsAreLogins
<1>1. Init => Login!Init
  BY DEF Init, Login!Init, NoRow, Rest, Unrevoked, Creating
<1>2. SessionInv /\ [Next /\ Record]_<<vars, history>> => [Login!Next]_Login!vars
  <2>1. ASSUME SessionInv, Next
        PROVE  [Login!Next]_Login!vars
    BY <2>1, LoginStep DEF SessionInv
  <2>2. ASSUME UNCHANGED <<vars, history>>
        PROVE  UNCHANGED Login!vars
    BY <2>2 DEF vars, Login!vars, Creating
  <2> QED
    BY <2>1, <2>2
<1> QED
  BY <1>1, <1>2, SessionInvariant, PTL DEF HistorySpec, SessionsAreLogins, Login!Spec

\* A login that is over stays over: no refresh that is still in flight, no other
\* login and no crash gives it a usable token again.
THEOREM LoginsEnd == HistorySpec => OverIsForGood
<1>1. SessionInv /\ [Next /\ Record]_<<vars, history>>
        => [\A l \in Tokens : Over(l) => Over(l)']_<<vars, history>>
  BY OverStep DEF SessionInv
<1> QED
  BY <1>1, SessionInvariant, PTL DEF HistorySpec, OverIsForGood
=============================================================================
