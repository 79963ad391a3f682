-------------------------------- MODULE Sessions --------------------------------
(***************************************************************************)
(* Refresh tokens: internal/auth/manager.go and the handlers that use it   *)
(* (login, refresh, logout, deletion of the account).                      *)
(*                                                                         *)
(* A pair of tokens is named by the request that made it: newPair gives    *)
(* every token an ID of its own.  A request runs a few store calls and     *)
(* requests interleave between them; the revocation of the old tokens and  *)
(* the insertion of the new one are two such calls, not one transaction.   *)
(* Only what decides about refresh tokens is kept: an access token is      *)
(* valid by its signature until it expires, so any request of a client     *)
(* that was once given a pair may pass authMiddleware.                     *)
(*                                                                         *)
(* Never used, each a slip in the operator that follows it: GetTokenAny,   *)
(* RevokeEverybody, RevokeNobody, InsertThenRevoke.                        *)
(***************************************************************************)
EXTENDS Integers, FiniteSets

CONSTANTS Requests,   \* calls of the API
          Users,
          UserOf,     \* the account a request is about
          NoToken,    \* what a request presents that presents no token
          MaxFaults   \* bound: store failures in a behaviour

ASSUME SessionRequests == IsFiniteSet(Requests) /\ NoToken \notin Requests
ASSUME SessionOwners == UserOf \in [Requests -> Users]
ASSUME SessionBounds == MaxFaults \in Nat

VARIABLES pc,         \* store call a request makes next
          kind,       \* the handler that serves the request
          presents,   \* the refresh token in the request's cookie
          token,      \* refresh_tokens: "none", "active" or "revoked"
          expired,    \* tokens past expires_at
          deleted,    \* soft-deleted users
          delivered,  \* requests whose pair reached the client
          faults,     \* store failures so far
          late,       \* history: requests hopeless when they arrived
          overlap,    \* history: users two of whose pairs were made at once
          before      \* history: requests a user's last logout came after

vars == <<pc, kind, presents, token, expired, deleted, delivered, faults, late,
          overlap, before>>
request == <<kind, presents>>
history == <<late, overlap, before>>

Kinds == {"login", "refresh", "logout", "deleteUser"}
PC == {"idle", "lookUp", "getToken", "revoke", "insert", "delete", "done"}

RequestsOf(u) == {r \in Requests : UserOf[r] = u}
Active(u) == {r \in RequestsOf(u) : token[r] = "active"}
Clients == {UserOf[r] : r \in delivered}

Init == /\ pc = [r \in Requests |-> "idle"]
        /\ kind = [r \in Requests |-> "login"]
        /\ presents = [r \in Requests |-> NoToken]
        /\ token = [r \in Requests |-> "none"]
        /\ expired = {}
        /\ deleted = {}
        /\ delivered = {}
        /\ faults = 0
        /\ late = {}
        /\ overlap = {}
        /\ before = [u \in Users |-> {}]

Goto(r, label) == pc' = [pc EXCEPT ![r] = label]

\* GetRefreshTokenByHash finds rows neither revoked nor expired.
Usable(t) == token[t] = "active" /\ t \notin expired

\* jwtGenerator.parseRefresh fails on a token past its exp, which is expires_at.
ParseRefresh(t) == t \notin expired

\* A refresh carries a token the client was given, for the token's own user;
\* logout and deletion need a client that was given a pair.
Arrive(r) ==
    /\ pc[r] = "idle"
    /\ \E k \in Kinds, t \in delivered \cup {NoToken} :
          /\ k = "refresh" <=> t # NoToken
          /\ k = "refresh" => UserOf[t] = UserOf[r]
          /\ k \in {"logout", "deleteUser"} => UserOf[r] \in Clients
          /\ kind' = [kind EXCEPT ![r] = k]
          /\ presents' = [presents EXCEPT ![r] = t]
          /\ late' = IF \/ UserOf[r] \in deleted
                        \/ k = "refresh" /\ ~Usable(t)
                     THEN late \cup {r} ELSE late
    /\ Goto(r, "lookUp")
    /\ UNCHANGED <<token, expired, deleted, delivered, faults, overlap, before>>

\* loginMiddleware and the comparison of the password, which may refuse; a
\* deleted user is not found.
FindLogin(r) ==
    /\ pc[r] = "lookUp"
    /\ kind[r] = "login"
    /\ \/ UserOf[r] \notin deleted /\ Goto(r, "revoke")
       \/ Goto(r, "done")
    /\ UNCHANGED <<request, token, expired, deleted, delivered, faults, history>>

\* userMiddleware before logout and deletion.
FindClient(r) ==
    /\ pc[r] = "lookUp"
    /\ kind[r] \in {"logout", "deleteUser"}
    /\ Goto(r, IF UserOf[r] \in deleted THEN "done"
               ELSE IF kind[r] = "logout" THEN "revoke" ELSE "delete")
    /\ UNCHANGED <<request, token, expired, deleted, delivered, faults, history>>

\* parseRefresh, then GetUser for the subject of the token.
FindOwner(r) ==
    /\ pc[r] = "lookUp"
    /\ kind[r] = "refresh"
    /\ Goto(r, IF ParseRefresh(presents[r]) /\ UserOf[r] \notin deleted
               THEN "getToken" ELSE "done")
    /\ UNCHANGED <<request, token, expired, deleted, delivered, faults, history>>

LookUp(r) == FindLogin(r) \/ FindClient(r) \/ FindOwner(r)

GetTokenAny(r) ==
    /\ pc[r] = "getToken"
    /\ Goto(r, IF token[presents[r]] # "none" /\ presents[r] \notin expired
               THEN "revoke" ELSE "done")
    /\ UNCHANGED <<request, token, expired, deleted, delivered, faults, history>>

\* What Refresh makes of the row, or of its absence.
GetToken(r) ==
    /\ pc[r] = "getToken"
    /\ Goto(r, IF Usable(presents[r]) THEN "revoke" ELSE "done")
    /\ UNCHANGED <<request, token, expired, deleted, delivered, faults, history>>

RevokeEverybody(u) == [t \in Requests |-> IF token[t] = "active"
                                          THEN "revoked" ELSE token[t]]
RevokeNobody(u) == token

\* One UPDATE: every active token of the user.
Revoked(u) == [t \in Requests |-> IF t \in Active(u) THEN "revoked" ELSE token[t]]

\* RevokeAllUserTokens; a logout ends here.
Revoke(r) ==
    /\ pc[r] = "revoke"
    /\ token' = Revoked(UserOf[r])
    /\ IF kind[r] = "logout"
       THEN /\ Goto(r, "done")
            /\ before' = [before EXCEPT ![UserOf[r]] =
                             {s \in RequestsOf(UserOf[r]) : pc[s] # "idle"}]
            /\ UNCHANGED overlap
       ELSE /\ Goto(r, "insert")
            /\ overlap' = IF \E s \in RequestsOf(UserOf[r]) : pc[s] = "insert"
                          THEN overlap \cup {UserOf[r]} ELSE overlap
            /\ UNCHANGED before
    /\ UNCHANGED <<request, expired, deleted, delivered, faults, late>>

\* One INSERT.
Created(r) == [token EXCEPT ![r] = "active"]

InsertThenRevoke(r) ==
    /\ pc[r] = "insert"
    /\ token' = [[t \in Requests |-> IF t \in Active(UserOf[r]) THEN "revoked"
                                     ELSE token[t]] EXCEPT ![r] = "revoked"]
    /\ delivered' = delivered \cup {r}
    /\ Goto(r, "done")
    /\ UNCHANGED <<request, expired, deleted, faults, history>>

\* InsertRefreshToken, and the pair goes to the client.
Insert(r) == /\ pc[r] = "insert"
             /\ token' = Created(r)
             /\ delivered' = delivered \cup {r}
             /\ Goto(r, "done")
             /\ UNCHANGED <<request, expired, deleted, faults, history>>

DeleteUser(r) == /\ pc[r] = "delete"
                 /\ deleted' = deleted \cup {UserOf[r]}
                 /\ Goto(r, "done")
                 /\ UNCHANGED <<request, token, expired, delivered, faults, history>>

\* The store call fails and the handler answers with an error.
CallFails(r) == /\ pc[r] \notin {"idle", "done"}
                /\ faults < MaxFaults
                /\ faults' = faults + 1
                /\ Goto(r, "done")
                /\ UNCHANGED <<request, token, expired, deleted, delivered, history>>

\* The server inserted the token, its answer never reached the caller.
InsertAnswerLost(r) == /\ pc[r] = "insert"
                       /\ faults < MaxFaults
                       /\ faults' = faults + 1
                       /\ token' = Created(r)
                       /\ Goto(r, "done")
                       /\ UNCHANGED <<request, expired, deleted, delivered, history>>

\* expires_at of a token passes.
Expire(t) == /\ token[t] = "active"
             /\ t \notin expired
             /\ expired' = expired \cup {t}
             /\ UNCHANGED <<pc, request, token, deleted, delivered, faults, history>>

Quiet == /\ \A r \in Requests : pc[r] = "done"
         /\ UNCHANGED vars

Step(r) == \/ Arrive(r)
           \/ LookUp(r)
           \/ GetToken(r)
           \/ Revoke(r)
           \/ Insert(r)
           \/ DeleteUser(r)
           \/ CallFails(r)
           \/ InsertAnswerLost(r)

Next == \/ \E r \in Requests : Step(r)
        \/ \E t \in Requests : Expire(t)
        \/ Quiet

Spec == Init /\ [][Next]_vars

-----------------------------------------------------------------------------
TypeOK == /\ pc \in [Requests -> PC]
          /\ kind \in [Requests -> Kinds]
          /\ presents \in [Requests -> Requests \cup {NoToken}]
          /\ token \in [Requests -> {"none", "active", "revoked"}]
          /\ expired \subseteq Requests
          /\ deleted \subseteq Users
          /\ delivered \subseteq Requests
          /\ faults \in Nat
          /\ late \subseteq Requests
          /\ overlap \subseteq Users
          /\ before \in [Users -> SUBSET Requests]

\* A request that arrives for a deleted account, or with a refresh token already
\* revoked or expired, never makes a token, whatever runs beside it.
LateNeverIssues == \A r \in late : token[r] = "none"

\* Two refresh tokens of one user are active only if the user's pairs were made at
\* the same time: the revocation of one between the revocation and the insertion
\* of another.
SingleUnlessOverlap ==
    \A u \in Users \ overlap : Cardinality(Active(u)) <= 1

\* Making pairs never leaves a client with nothing: as long as no store call
\* failed and no logout revoked, a user who was given a pair has an active
\* refresh token or one about to be inserted.
SessionSurvives ==
    \A u \in Clients :
        faults = 0 /\ before[u] = {} =>
            \/ Active(u) # {}
            \/ \E r \in RequestsOf(u) : pc[r] = "insert"

\* The tokens of a user change only by a step of a request about that user, and a
\* revoked token stays revoked.
Isolation ==
    [][\A t \in Requests : token'[t] # token[t] =>
          /\ token[t] # "revoked"
          /\ \E r \in RequestsOf(UserOf[t]) : pc'[r] # pc[r]]_vars

\* The abstract promise: Sessions implements SessionSlots.  The slot of a user
\* holds the active tokens, and it is crowded when two pairs were made at once;
\* the revocation that precedes an insertion is a step of its own.
Slots == INSTANCE SessionSlots
         WITH Tokens <- Requests, OwnerOf <- UserOf,
              life <- token, held <- delivered, crowded <- overlap
SlotSpec == Slots!Spec
=============================================================================
