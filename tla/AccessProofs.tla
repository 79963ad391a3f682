------------------------------ MODULE AccessProofs ------------------------------
(***************************************************************************)
(* Theorems about Access for any sets of requests, users and calls and any *)
(* lifetimes of the tokens: Access only adds to Sessions, whose theorems   *)
(* it inherits, and the access of a client ends in time.                   *)
(***************************************************************************)
EXTENDS Access, SessionsProofs

USE DEF request, history, ParseRefresh, Created, calls, time, ending

-----------------------------------------------------------------------------
(* Access implements Sessions *)

LEMMA CallKeepsSessions ==
    ASSUME NEW c \in Calls, Call(c)
    PROVE  UNCHANGED <<vars, time, ending>>
BY DEF Call, Preflight, CallCleared, Authenticate, RequireRole, FindUser, Serve,
       Reply, Pass

LEMMA AccessStepIsStep == [AccessNext]_accessVars => [Next]_vars
<1> SUFFICES ASSUME [AccessNext]_accessVars
             PROVE  [Next]_vars
  OBVIOUS
<1>1. ASSUME NEW r \in Requests, AccessStep(r) PROVE Next
  BY <1>1 DEF AccessStep, ArriveInTime, Refused, Renew, RevokeAll, InsertPair,
              EndAccount, ExpireOnTime, Next, Step, LookUp
<1>2. ASSUME NEW c \in Calls, Call(c) PROVE UNCHANGED vars
  BY <1>2, CallKeepsSessions
<1>3. CASE Tick
  BY <1>3 DEF Tick
<1>4. CASE AllOver \/ UNCHANGED accessVars
  BY <1>4 DEF AllOver, accessVars
<1> QED
  BY <1>1, <1>2, <1>3, <1>4 DEF AccessNext

\* Whatever is proved of Sessions holds with time, access tokens and calls too.
THEOREM AccessIsSessions == AccessSpec => Spec
<1>1. AccessInit => Init
  BY DEF AccessInit
<1> QED
  BY <1>1, AccessStepIsStep, PTL DEF AccessSpec, Spec

\* Seen through access control, sessions are still the slots they are without it.
THEOREM AccessImplementsSlots == AccessSpec => SlotSpec
BY AccessIsSessions, ImplementsSlots, PTL

-----------------------------------------------------------------------------
(* Type correctness *)

AccessTypes ==
    /\ clock \in Nat
    /\ issuedAt \in [Requests -> Nat]
    /\ at \in [Calls -> {"idle"} \cup Replies \cup Running]
    /\ carries \in [Calls -> Requests \cup {NoToken}]
    /\ \A c \in Calls : carries[c] # NoToken <=> at[c] \in Running
    /\ ended \in [Users -> Nat]
    /\ heirs \in [Users -> SUBSET Requests]

LEMMA ReplyTypes ==
    ASSUME AccessTypes, NEW c \in Calls, NEW code \in Replies, Reply(c, code)
    PROVE  AccessTypes'
<1>1. code \notin Running
  BY DEF Replies, Running, NotFound, Unauthorized, Forbidden, Internal
<1> QED
  BY <1>1 DEF AccessTypes, Reply

LEMMA PassTypes ==
    ASSUME AccessTypes, NEW c \in Calls, NEW pair \in Requests,
           NEW label \in Running, Pass(c, pair, label)
    PROVE  AccessTypes'
BY SessionRequests DEF AccessTypes, Pass

LEMMA CallTypes ==
    ASSUME TypeOK, AccessTypes, NEW c \in Calls, Call(c)
    PROVE  AccessTypes'
<1>0. /\ {"200", "204", NotFound, Unauthorized, Forbidden, Internal, "dropped"}
             \subseteq Replies
      /\ {"findUser", "serve"} \subseteq Running
  BY DEF Replies, Running
<1>1. CASE Preflight(c) \/ CallCleared(c) \/ Serve(c)
  BY <1>0, <1>1, ReplyTypes DEF Preflight, CallCleared, Serve
<1>2. CASE Authenticate(c)
  <2>1. PICK cookie \in Cookies : \/ Reply(c, Unauthorized)
                                  \/ Reply(c, Forbidden)
                                  \/ Pass(c, cookie.pair, "findUser")
                                  \/ Pass(c, cookie.pair, "serve")
    BY <1>2 DEF Authenticate, RequireRole
  <2>2. cookie.pair \in Requests
    BY DEF Cookies, TypeOK
  <2> QED
    BY <1>0, <2>1, <2>2, ReplyTypes, PassTypes
<1>3. CASE FindUser(c)
  <2>1. carries[c] \in Requests
    BY <1>3, SessionRequests DEF FindUser, AccessTypes, Running
  <2> QED
    BY <1>0, <1>3, <2>1, ReplyTypes, PassTypes DEF FindUser
<1> QED
  BY <1>1, <1>2, <1>3 DEF Call

LEMMA EndTypes ==
    ASSUME AccessTypes, NEW u \in Users, NEW labels, EndSessions(u, labels)
    PROVE  ended' \in [Users -> Nat] /\ heirs' \in [Users -> SUBSET Requests]
BY DEF AccessTypes, EndSessions, RequestsOf

LEMMA AccessTypeStep ==
    TypeOK /\ AccessTypes /\ [AccessNext]_accessVars => AccessTypes'
<1> SUFFICES ASSUME TypeOK, AccessTypes, [AccessNext]_accessVars
             PROVE  AccessTypes'
  OBVIOUS
<1>1. ASSUME NEW r \in Requests,
             \/ ArriveInTime(r) \/ Refused(r) \/ InsertPair(r) \/ ExpireOnTime(r)
      PROVE  AccessTypes'
  BY <1>1 DEF ArriveInTime, Refused, InsertPair, ExpireOnTime, AccessTypes
<1>2. ASSUME NEW r \in Requests, Renew(r)
      PROVE  AccessTypes'
  <2>1. issuedAt' \in [Requests -> Nat]
    BY <1>2 DEF Renew, NewPair, AccessTypes
  <2>2. heirs' \in [Users -> SUBSET Requests]
    BY <1>2, SessionOwners DEF Renew, AccessTypes
  <2> QED
    BY <1>2, <2>1, <2>2 DEF Renew, AccessTypes
<1>3. ASSUME NEW r \in Requests, RevokeAll(r) \/ EndAccount(r)
      PROVE  AccessTypes'
  <2>1. UserOf[r] \in Users
    BY SessionOwners
  <2>2. ended' \in [Users -> Nat] /\ heirs' \in [Users -> SUBSET Requests]
    BY <1>3, <2>1, EndTypes DEF RevokeAll, EndAccount, AccessTypes
  <2> QED
    BY <1>3, <2>2 DEF RevokeAll, EndAccount, AccessTypes
<1>4. CASE Tick
  BY <1>4 DEF Tick, AccessTypes
<1>5. CASE AllOver \/ UNCHANGED accessVars
  BY <1>5 DEF AllOver, accessVars, AccessTypes
<1> QED
  BY <1>1, <1>2, <1>3, <1>4, <1>5, CallTypes DEF AccessNext, AccessStep

\* The variables of Access keep their types: a call carries a pair exactly while
\* it is on its way.
THEOREM AccessTypeCorrect == AccessSpec => []AccessTypeOK
<1>1. AccessInit => AccessTypes
  BY DEF AccessInit, AccessTypes, Running, RequestsOf
<1>2. TypeOK /\ AccessTypes => AccessTypeOK
  BY DEF AccessTypes, AccessTypeOK
<1> QED
  BY <1>1, <1>2, AccessTypeStep, AccessIsSessions, TypeCorrect, PTL DEF AccessSpec

-----------------------------------------------------------------------------
(* The end of access *)

\* No time stamp lies in the future.
Stamped == /\ \A r \in Requests : issuedAt[r] <= clock
           /\ \A u \in Users : ended[u] <= clock

\* The way a request takes depends on its kind; what it presents is of its own
\* user, and a pair that was delivered is no longer in the making.
OnPath(r) ==
    /\ r \in delivered => pc[r] = "done"
    /\ presents[r] # NoToken => UserOf[presents[r]] = UserOf[r]
    /\ pc[r] = "lookUp" /\ kind[r] = "refresh" => presents[r] # NoToken
    /\ pc[r] = "getToken" => kind[r] = "refresh" /\ presents[r] # NoToken
    /\ pc[r] = "revoke" => kind[r] \in {"login", "refresh", "logout"}
    /\ pc[r] = "insert" => kind[r] \in {"login", "refresh"}

OnPaths == \A r \in Requests : OnPath(r)

\* What a pair is that is not an heir of its user: made before the end, not in
\* the making, not renewable unless the account is gone.
Outsider(r) ==
    /\ issuedAt[r] <= ended[UserOf[r]]
    /\ pc[r] \in {"revoke", "insert"} => kind[r] = "logout"
    /\ token[r] = "active" => UserOf[r] \in deleted
    /\ pc[r] = "getToken" => \/ presents[r] \in heirs[UserOf[r]]
                             \/ token[presents[r]] # "active"

Outsiders == \A r \in Requests : r \notin heirs[UserOf[r]] => Outsider(r)

LEMMA PathStep == TypeOK /\ OnPaths /\ [Next]_vars => OnPaths'
<1> SUFFICES ASSUME TypeOK, OnPaths, [Next]_vars, NEW s \in Requests
             PROVE  OnPath(s)'
  BY DEF OnPaths
<1> USE SessionRequests DEF TypeOK, OnPath, Goto
<1>0. OnPath(s)
  BY DEF OnPaths
<1>1. ASSUME NEW r \in Requests, Arrive(r) PROVE OnPath(s)'
  <2>1. PICK k \in Kinds, t \in delivered \cup {NoToken} :
            /\ k = "refresh" <=> t # NoToken
            /\ k = "refresh" => UserOf[t] = UserOf[r]
            /\ kind' = [kind EXCEPT ![r] = k]
            /\ presents' = [presents EXCEPT ![r] = t]
    BY <1>1 DEF Arrive
  <2>2. pc[r] = "idle" /\ pc' = [pc EXCEPT ![r] = "lookUp"]
        /\ delivered' = delivered
    BY <1>1 DEF Arrive
  <2>3. CASE r = s
    BY <1>0, <2>1, <2>2, <2>3
  <2>4. CASE r # s
    BY <1>0, <2>1, <2>2, <2>4
  <2> QED
    BY <2>3, <2>4
<1>2. ASSUME NEW r \in Requests, LookUp(r) PROVE OnPath(s)'
  BY <1>0, <1>2 DEF LookUp, FindLogin, FindClient, FindOwner
<1>3. ASSUME NEW r \in Requests, GetToken(r) PROVE OnPath(s)'
  BY <1>0, <1>3 DEF GetToken
<1>4. ASSUME NEW r \in Requests, Revoke(r) PROVE OnPath(s)'
  BY <1>0, <1>4 DEF Revoke
<1>5. ASSUME NEW r \in Requests, Insert(r) \/ InsertAnswerLost(r)
      PROVE  OnPath(s)'
  BY <1>0, <1>5 DEF Insert, InsertAnswerLost
<1>6. ASSUME NEW r \in Requests, DeleteUser(r) \/ CallFails(r)
      PROVE  OnPath(s)'
  BY <1>0, <1>6 DEF DeleteUser, CallFails
<1>7. CASE (\E t \in Requests : Expire(t)) \/ UNCHANGED vars
  BY <1>0, <1>7 DEF Expire, vars
<1> QED
  BY <1>1, <1>2, <1>3, <1>4, <1>5, <1>6, <1>7 DEF Next, Step, Quiet

LEMMA StampedStep ==
    AccessTypes /\ Stamped /\ [AccessNext]_accessVars => Stamped'
<1> SUFFICES ASSUME AccessTypes, Stamped, [AccessNext]_accessVars
             PROVE  Stamped'
  OBVIOUS
<1> USE DEF AccessTypes, Stamped
<1>1. ASSUME NEW r \in Requests,
             \/ ArriveInTime(r) \/ Refused(r) \/ InsertPair(r) \/ ExpireOnTime(r)
      PROVE  Stamped'
  BY <1>1 DEF ArriveInTime, Refused, InsertPair, ExpireOnTime
<1>2. ASSUME NEW r \in Requests, Renew(r) PROVE Stamped'
  BY <1>2 DEF Renew, NewPair
<1>3. ASSUME NEW r \in Requests, RevokeAll(r) \/ EndAccount(r) PROVE Stamped'
  BY <1>3 DEF RevokeAll, EndAccount, EndSessions
<1>4. ASSUME NEW c \in Calls, Call(c) PROVE Stamped'
  BY <1>4, CallKeepsSessions
<1>5. CASE Tick
  BY <1>5 DEF Tick
<1>6. CASE AllOver \/ UNCHANGED accessVars
  BY <1>6 DEF AllOver, accessVars
<1> QED
  BY <1>1, <1>2, <1>3, <1>4, <1>5, <1>6 DEF AccessNext, AccessStep

LEMMA OutsidersStep ==
    TypeOK /\ AccessTypes /\ TokenFollowsRequest /\ Stamped /\ OnPaths
        /\ Outsiders /\ [AccessNext]_accessVars => Outsiders'
<1> SUFFICES ASSUME TypeOK, AccessTypes, TokenFollowsRequest, Stamped, OnPaths,
                    Outsiders, [AccessNext]_accessVars,
                    NEW s \in Requests, s \notin heirs'[UserOf[s]]
             PROVE  Outsider(s)'
  BY DEF Outsiders
<1> USE SessionRequests, SessionOwners DEF TypeOK, AccessTypes, Stamped, Goto
<1>0. /\ UserOf[s] \in Users
      /\ s \notin heirs[UserOf[s]] => Outsider(s)
      /\ OnPath(s)
  BY DEF Outsiders, OnPaths
<1>1. ASSUME NEW r \in Requests, ArriveInTime(r) PROVE Outsider(s)'
  BY <1>0, <1>1 DEF ArriveInTime, Arrive, Outsider
<1>2. ASSUME NEW r \in Requests, Refused(r) PROVE Outsider(s)'
  <2>1. Outsider(s)
    BY <1>0, <1>2 DEF Refused
  <2>2. CASE FindClient(r) \/ CallFails(r)
    BY <1>2, <2>1, <2>2 DEF Refused, FindClient, CallFails, Outsider
  <2>3. CASE FindOwner(r)
    <3>1. /\ heirs' = heirs /\ token' = token /\ deleted' = deleted
          /\ presents' = presents /\ kind' = kind /\ issuedAt' = issuedAt
          /\ ended' = ended
      BY <1>2, <2>3 DEF Refused, FindOwner
    <3>2. pc'[s] = "getToken" /\ r = s =>
              \/ presents[s] \in heirs[UserOf[s]]
              \/ token[presents[s]] # "active"
      <4> SUFFICES ASSUME pc'[s] = "getToken", r = s,
                          presents[s] \notin heirs[UserOf[s]]
                   PROVE  token[presents[s]] # "active"
        OBVIOUS
      <4>1. /\ UserOf[s] \notin deleted /\ presents[s] \in Requests
            /\ UserOf[presents[s]] = UserOf[s]
        BY <1>0, <2>3 DEF FindOwner, OnPath
      <4> QED
        BY <4>1 DEF Outsiders, Outsider
    <3> QED
      BY <2>1, <2>3, <3>1, <3>2 DEF FindOwner, Outsider
  <2> QED
    BY <1>2, <2>2, <2>3 DEF Refused
<1>3. ASSUME NEW r \in Requests, Renew(r) PROVE Outsider(s)'
  <2>1. /\ token' = token /\ deleted' = deleted /\ presents' = presents
        /\ kind' = kind /\ ended' = ended
        /\ heirs[UserOf[s]] \subseteq heirs'[UserOf[s]]
    BY <1>3 DEF Renew, FindLogin, GetToken
  <2>2. Outsider(s)
    BY <1>0, <2>1
  <2>3. CASE r # s
    <3>1. pc'[s] = pc[s] /\ issuedAt'[s] = issuedAt[s]
      BY <1>3, <2>3 DEF Renew, FindLogin, GetToken, NewPair
    <3> QED
      BY <2>1, <2>2, <3>1 DEF Outsider
  <2>4. CASE r = s
    <3>1. pc'[s] # "revoke"
      <4> SUFFICES ASSUME pc'[s] = "revoke" PROVE FALSE
        OBVIOUS
      <4>1. kind[s] # "login" /\ presents[s] \notin heirs[UserOf[s]]
        BY <1>0, <1>3, <2>4 DEF Renew
      <4>2. GetToken(s) /\ Usable(presents[s])
        BY <1>3, <2>4, <4>1 DEF Renew, FindLogin, GetToken
      <4> QED
        BY <2>2, <4>1, <4>2 DEF GetToken, Usable, Outsider
    <3>2. pc'[s] = "done" /\ issuedAt' = issuedAt
      BY <1>3, <2>4, <3>1 DEF Renew, FindLogin, GetToken
    <3> QED
      BY <2>1, <2>2, <3>2 DEF Outsider
  <2> QED
    BY <2>3, <2>4
<1>4. ASSUME NEW r \in Requests, RevokeAll(r) PROVE Outsider(s)'
  <2>1. /\ issuedAt' = issuedAt /\ kind' = kind /\ deleted' = deleted
        /\ presents' = presents
        /\ \A t \in Requests : token'[t] = "active" =>
               token[t] = "active" /\ UserOf[t] # UserOf[r]
    BY <1>4 DEF RevokeAll, Revoke, Revoked, Active, RequestsOf
  <2>2. CASE kind[r] = "logout" /\ UserOf[s] = UserOf[r]
    <3>1. /\ ended'[UserOf[s]] = clock
          /\ pc[s] \in {"revoke", "insert"} =>
                 kind[s] \notin {"login", "refresh"}
      BY <1>0, <1>4, <2>2 DEF RevokeAll, EndSessions, RequestsOf
    <3>2. pc'[s] = pc[s] \/ (r = s /\ pc'[s] = "done")
      BY <1>4, <2>2 DEF RevokeAll, Revoke
    <3>3. pc'[s] \in {"revoke", "insert"} => kind'[s] = "logout"
      BY <1>0, <2>1, <3>1, <3>2 DEF OnPath
    <3>4. pc'[s] = "getToken" => token'[presents[s]] # "active"
      BY <1>0, <2>1, <2>2, <3>2 DEF OnPath
    <3> QED
      BY <2>1, <2>2, <3>1, <3>3, <3>4 DEF Outsider
  <2>3. CASE ~(kind[r] = "logout" /\ UserOf[s] = UserOf[r])
    <3>1. heirs'[UserOf[s]] = heirs[UserOf[s]] /\ ended'[UserOf[s]] = ended[UserOf[s]]
      BY <1>0, <1>4, <2>3 DEF RevokeAll, EndSessions
    <3>2. Outsider(s)
      BY <1>0, <3>1
    <3>3. pc'[s] = pc[s] \/ (r = s /\ pc[s] = "revoke")
      BY <1>4 DEF RevokeAll, Revoke
    <3>4. r = s => kind[r] = "logout"
      BY <1>4, <3>2 DEF RevokeAll, Revoke, Outsider
    <3> QED
      BY <1>0, <2>1, <2>3, <3>1, <3>2, <3>3, <3>4 DEF Outsider, OnPath
  <2> QED
    BY <2>2, <2>3
<1>5. ASSUME NEW r \in Requests, InsertPair(r) PROVE Outsider(s)'
  <2>1. Outsider(s)
    BY <1>0, <1>5 DEF InsertPair
  <2>2. r # s
    BY <1>0, <1>5, <2>1 DEF InsertPair, Insert, InsertAnswerLost, Outsider, OnPath
  <2>3. pc[s] = "getToken" => presents[s] # r
    BY <1>5 DEF InsertPair, Insert, InsertAnswerLost, TokenFollowsRequest
  <2> QED
    BY <1>0, <1>5, <2>1, <2>2, <2>3
       DEF InsertPair, Insert, InsertAnswerLost, Outsider, OnPath
<1>6. ASSUME NEW r \in Requests, EndAccount(r) PROVE Outsider(s)'
  <2>1. /\ issuedAt' = issuedAt /\ kind' = kind /\ token' = token
        /\ presents' = presents /\ deleted' = deleted \cup {UserOf[r]}
        /\ \A q \in Requests : pc'[q] = pc[q] \/ (r = q /\ pc'[q] = "done")
    BY <1>6 DEF EndAccount, DeleteUser
  <2>2. CASE UserOf[s] = UserOf[r]
    <3>1. /\ ended'[UserOf[s]] = clock
          /\ pc[s] \in {"getToken", "revoke", "insert"} =>
                 kind[s] \notin {"login", "refresh"}
      BY <1>0, <1>6, <2>2 DEF EndAccount, EndSessions, RequestsOf
    <3>2. /\ pc'[s] \in {"revoke", "insert"} => kind'[s] = "logout"
          /\ pc'[s] # "getToken"
      BY <1>0, <2>1, <3>1 DEF OnPath
    <3> QED
      BY <2>1, <2>2, <3>1, <3>2 DEF Outsider
  <2>3. CASE UserOf[s] # UserOf[r]
    <3>1. heirs'[UserOf[s]] = heirs[UserOf[s]] /\ ended'[UserOf[s]] = ended[UserOf[s]]
      BY <1>0, <1>6, <2>3 DEF EndAccount, EndSessions
    <3> QED
      BY <1>0, <2>1, <3>1 DEF Outsider
  <2> QED
    BY <2>2, <2>3
<1>7. ASSUME NEW t \in Requests, ExpireOnTime(t) PROVE Outsider(s)'
  BY <1>0, <1>7 DEF ExpireOnTime, Expire, Outsider
<1>8. ASSUME NEW c \in Calls, Call(c) PROVE Outsider(s)'
  BY <1>0, <1>8, CallKeepsSessions DEF vars, Outsider
<1>9. CASE Tick \/ AllOver \/ UNCHANGED accessVars
  BY <1>0, <1>9 DEF Tick, AllOver, accessVars, vars, Outsider
<1> QED
  BY <1>1, <1>2, <1>3, <1>4, <1>5, <1>6, <1>7, <1>8, <1>9
     DEF AccessNext, AccessStep

LEMMA FadesStep ==
    ASSUME TypeOK, AccessTypes, Stamped, Outsiders, AccessTTL \in Nat,
           [AccessNext]_accessVars, NEW c \in Calls,
           Admitted(c)
    PROVE  StillDue(carries'[c])
<1> USE DEF Admitted, StillDue
<1>1. PICK d \in Calls : Call(d)
  BY DEF AccessNext, AccessStep, ArriveInTime, Refused, Renew, RevokeAll,
         InsertPair, EndAccount, ExpireOnTime, Tick, AllOver, accessVars
<1>2. d = c
  BY <1>1 DEF Call, Preflight, CallCleared, Authenticate, RequireRole, FindUser,
              Serve, Reply, Pass, AccessTypes
<1>3. Authenticate(c)
  BY <1>1, <1>2 DEF Call, Preflight, CallCleared, FindUser, Serve, Reply,
                    Unauthorized, AccessTypes, Running
<1>4. PICK cookie \in Cookies :
          ParseAccess(cookie) /\ \E label : Pass(c, cookie.pair, label)
  BY <1>3 DEF Authenticate, RequireRole, Reply, Unauthorized, Forbidden,
              AccessTypes, Running
<1>5. /\ carries'[c] = cookie.pair /\ cookie.pair \in Requests
      /\ clock < issuedAt[cookie.pair] + AccessTTL
  BY <1>4 DEF Pass, ParseAccess, AccessExpiry, Cookies, AccessTypes, TypeOK
<1>6. CASE cookie.pair \notin heirs[UserOf[cookie.pair]]
  <2>1. issuedAt[cookie.pair] <= ended[UserOf[cookie.pair]]
    BY <1>5, <1>6 DEF Outsiders, Outsider
  <2>2. /\ issuedAt[cookie.pair] \in Nat /\ clock \in Nat
        /\ ended[UserOf[cookie.pair]] \in Nat
    BY <1>5, SessionOwners DEF AccessTypes
  <2> QED
    BY <1>5, <2>1, <2>2
<1> QED
  BY <1>5, <1>6

\* A logout or a deletion ends the access of the client within the lifetime of
\* an access token on every route, but for the pairs that were being made at
\* that moment and what is renewed from them.
THEOREM AccessFades == AccessSpec => FadesOut
<1>1. AccessInit => Stamped /\ OnPaths /\ Outsiders
  BY SessionRequests, SessionOwners
     DEF AccessInit, Init, Stamped, OnPaths, OnPath, Outsiders, Outsider, RequestsOf
<1>2. AccessInit => AccessTypes
  BY DEF AccessInit, AccessTypes, Running, RequestsOf
<1>3. TypeOK /\ AccessTypes /\ Stamped /\ Outsiders /\ [AccessNext]_accessVars =>
          \A c \in Calls : Admitted(c) => StillDue(carries'[c])
  BY FadesStep, AccessLifetimes
<1>4. AccessSpec => [](TypeOK /\ TokenFollowsRequest)
  BY AccessIsSessions, TypeCorrect, TokensFollowRequests, PTL
<1>5. AccessSpec => [](AccessTypes /\ Stamped /\ OnPaths /\ Outsiders)
  BY <1>1, <1>2, <1>4, AccessStepIsStep, AccessTypeStep, StampedStep, PathStep,
     OutsidersStep, PTL DEF AccessSpec
<1> QED
  BY <1>3, <1>4, <1>5, PTL DEF AccessSpec, FadesOut
=============================================================================
