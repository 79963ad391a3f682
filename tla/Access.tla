--------------------------------- MODULE Access ---------------------------------
(***************************************************************************)
(* Sessions with time and access tokens: who passes authMiddleware         *)
(* (internal/api/router.go, user.go, cookies.go, internal/rbac and         *)
(* internal/auth/jwt.go).                                                  *)
(*                                                                         *)
(* An access token is valid by its signature until it expires: neither a   *)
(* logout nor the deletion of the account is looked up, and the routes     *)
(* /predictions and /admin do not look the user up either.  So what ends   *)
(* the access of a client is time alone, and the refusal to renew.         *)
(*                                                                         *)
(* Every action of Sessions is an action here, with what it does to the    *)
(* new variables.  A call is a request on a route behind authMiddleware;   *)
(* of a call only its way through the middleware is followed.              *)
(*                                                                         *)
(* Never used, each a slip in the operator that follows it:                *)
(* RefreshLifetime, ParseAnyAge, CallClearedGoesOn.                        *)
(***************************************************************************)
EXTENDS Sessions, Errlocal

CONSTANTS Calls,       \* clients that call the routes
          RoleOf,      \* users.role, which no statement changes
          AccessTTL,   \* access_token_ttl
          RefreshTTL,  \* refresh_token_ttl
          MaxTime      \* bound: ticks of the clock

ASSUME AccessRoles == RoleOf \in [Users -> {"admin", "user"}]
ASSUME AccessLifetimes == /\ AccessTTL \in Nat
                          /\ RefreshTTL \in Nat
                          /\ MaxTime \in Nat

VARIABLES clock,
          issuedAt,  \* iat of the tokens of a pair
          at,        \* where a call is, or how it was answered
          carries,   \* the pair whose access token a running call carries
          ended,     \* history: when a user last logged out or was deleted
          heirs      \* history: pairs that need not have ended then

calls == <<at, carries>>
time == <<clock, issuedAt>>
ending == <<ended, heirs>>
accessVars == <<vars, time, calls, ending>>

Routes == {"me", "predictions", "admin"}

Replies == {"200", "204", NotFound, Unauthorized, Forbidden, Internal, "dropped"}
Running == {"findUser", "serve"}

AccessInit == /\ Init
              /\ clock = 0
              /\ issuedAt = [r \in Requests |-> 0]
              /\ at = [c \in Calls |-> "idle"]
              /\ carries = [c \in Calls |-> NoToken]
              /\ ended = [u \in Users |-> 0]
              /\ heirs = [u \in Users |-> RequestsOf(u)]

-----------------------------------------------------------------------------
(* Tokens *)

\* newPair stamps both tokens of the pair with the time it runs at.
NewPair(r) == issuedAt' = [issuedAt EXCEPT ![r] = clock]

RefreshLifetime(t) == issuedAt[t] + RefreshTTL
\* exp of the access token, and of the refresh token with its row.
AccessExpiry(t) == issuedAt[t] + AccessTTL
RefreshExpiry(t) == issuedAt[t] + RefreshTTL

ParseAnyAge(cookie) == cookie.type = "access"
\* parseAccess: an access token, and not yet expired.
ParseAccess(cookie) == /\ cookie.type = "access"
                       /\ clock < AccessExpiry(cookie.pair)

\* setAuthCookies: what a client that was given a pair may send as its cookie.
Cookies == [type : {"access", "refresh"}, pair : delivered]

-----------------------------------------------------------------------------
(* The requests of Sessions *)

\* Logout and deletion pass authMiddleware.
ArriveInTime(r) ==
    /\ Arrive(r)
    /\ kind'[r] \in {"logout", "deleteUser"} =>
           \E cookie \in Cookies : /\ UserOf[cookie.pair] = UserOf[r]
                                   /\ ParseAccess(cookie)
    /\ UNCHANGED <<time, calls, ending>>

Refused(r) == /\ FindClient(r) \/ FindOwner(r) \/ CallFails(r)
              /\ UNCHANGED <<time, calls, ending>>

\* The password matched or the refresh token was found: the pair is made before
\* the next call of the store.  It is an heir if the user logged in anew, or if
\* it was renewed with an heir.
Renew(r) ==
    /\ FindLogin(r) \/ GetToken(r)
    /\ IF pc'[r] = "revoke"
       THEN /\ NewPair(r)
            /\ heirs' = IF kind[r] = "login" \/ presents[r] \in heirs[UserOf[r]]
                        THEN [heirs EXCEPT ![UserOf[r]] = @ \cup {r}] ELSE heirs
       ELSE UNCHANGED <<issuedAt, heirs>>
    /\ UNCHANGED <<clock, calls, ended>>

\* What is left after the end of the sessions of u: pairs in the making.
EndSessions(u, labels) ==
    /\ ended' = [ended EXCEPT ![u] = clock]
    /\ heirs' = [heirs EXCEPT ![u] =
                    {r \in RequestsOf(u) : /\ pc[r] \in labels
                                           /\ kind[r] \in {"login", "refresh"}}]

RevokeAll(r) == /\ Revoke(r)
                /\ IF kind[r] = "logout"
                   THEN EndSessions(UserOf[r], {"revoke", "insert"})
                   ELSE UNCHANGED ending
                /\ UNCHANGED <<time, calls>>

InsertPair(r) == /\ Insert(r) \/ InsertAnswerLost(r)
                 /\ UNCHANGED <<time, calls, ending>>

\* The refresh tokens stay, but their user is no longer found.
EndAccount(r) == /\ DeleteUser(r)
                 /\ EndSessions(UserOf[r], {"getToken", "revoke", "insert"})
                 /\ UNCHANGED <<time, calls>>

\* expires_at passes.
ExpireOnTime(t) == /\ Expire(t)
                   /\ clock >= RefreshExpiry(t)
                   /\ UNCHANGED <<time, calls, ending>>

\* No refresh token outlives its expires_at by a tick.
Tick == /\ clock < MaxTime
        /\ \A t \in Requests :
              token[t] = "active" /\ clock >= RefreshExpiry(t) => t \in expired
        /\ clock' = clock + 1
        /\ UNCHANGED <<vars, issuedAt, calls, ending>>

-----------------------------------------------------------------------------
(* Calls *)

Reply(c, code) == /\ at' = [at EXCEPT ![c] = code]
                  /\ carries' = [carries EXCEPT ![c] = NoToken]
                  /\ UNCHANGED <<vars, time, ending>>

Pass(c, pair, label) == /\ at' = [at EXCEPT ![c] = label]
                        /\ carries' = [carries EXCEPT ![c] = pair]
                        /\ UNCHANGED <<vars, time, ending>>

Waiting(c) == at[c] = "idle"

\* OPTIONS is answered before any route is matched.
Preflight(c) == Waiting(c) /\ Reply(c, "204")

CallClearedGoesOn(c) == /\ Waiting(c)
                        /\ Reply(c, Unauthorized) \/ Pass(c, NoToken, "serve")
\* After clearAuthCookies the client sends no cookie, or one with no value, on
\* which authMiddleware takes the message of an error that is nil: the handler
\* panics and the connection is dropped.
CallCleared(c) == /\ Waiting(c)
                  /\ \/ Reply(c, Unauthorized)
                     \/ Reply(c, "dropped")

\* rbac.RequireRole goes by the role in the claims.
RequireRole(c, pair) == IF RoleOf[UserOf[pair]] = "admin"
                        THEN Pass(c, pair, "serve")
                        ELSE Reply(c, Forbidden)

\* authMiddleware and what the route puts behind it.
Authenticate(c) ==
    /\ Waiting(c)
    /\ \E cookie \in Cookies, route \in Routes :
          \/ ~ParseAccess(cookie) /\ Reply(c, Unauthorized)
          \/ /\ ParseAccess(cookie)
             /\ \/ route = "me" /\ Pass(c, cookie.pair, "findUser")
                \/ route = "predictions" /\ Pass(c, cookie.pair, "serve")
                \/ route = "admin" /\ RequireRole(c, cookie.pair)

\* userMiddleware.
FindUser(c) ==
    /\ at[c] = "findUser"
    /\ \/ UserOf[carries[c]] \notin deleted /\ Pass(c, carries[c], "serve")
       \/ UserOf[carries[c]] \in deleted /\ Reply(c, NotFound)
       \/ Reply(c, Internal)

\* The handler answers.
Serve(c) == at[c] = "serve" /\ (Reply(c, "200") \/ Reply(c, Internal))

AccessStep(r) == \/ ArriveInTime(r)
                 \/ Refused(r)
                 \/ Renew(r)
                 \/ RevokeAll(r)
                 \/ InsertPair(r)
                 \/ EndAccount(r)
                 \/ ExpireOnTime(r)

Call(c) == \/ Preflight(c)
           \/ CallCleared(c)
           \/ Authenticate(c)
           \/ FindUser(c)
           \/ Serve(c)

AllOver == /\ \A r \in Requests : pc[r] = "done"
           /\ \A c \in Calls : at[c] \in Replies
           /\ UNCHANGED accessVars

AccessNext == \/ \E r \in Requests : AccessStep(r)
              \/ \E c \in Calls : Call(c)
              \/ Tick
              \/ AllOver

AccessSpec == AccessInit /\ [][AccessNext]_accessVars

-----------------------------------------------------------------------------
AccessTypeOK ==
    /\ TypeOK
    /\ clock \in Nat
    /\ issuedAt \in [Requests -> Nat]
    /\ at \in [Calls -> {"idle"} \cup Replies \cup Running]
    /\ carries \in [Calls -> Requests \cup {NoToken}]
    /\ \A c \in Calls : carries[c] # NoToken <=> at[c] \in Running
    /\ ended \in [Users -> Nat]
    /\ heirs \in [Users -> SUBSET Requests]

\* The call passes authMiddleware.
Admitted(c) == at[c] \notin Running /\ at'[c] \in Running

\* Pairs of clients whose sessions have not ended for the life of a token.
StillDue(pair) == \/ clock < ended[UserOf[pair]] + AccessTTL
                  \/ pair \in heirs[UserOf[pair]]

\* A logout or a deletion ends all access of the user within the lifetime of an
\* access token, on every route, also on those that never look the user up:
\* afterwards a call passes authMiddleware only with a pair of a later login,
\* of a request that was making its pair at that moment, or renewed from one of
\* these.
FadesOut == [][\A c \in Calls : Admitted(c) => StillDue(carries'[c])]_accessVars
=============================================================================
