----------------------------- MODULE SessionsProofs -----------------------------
(***************************************************************************)
(* Theorems about Sessions for any set of requests and users and any       *)
(* number of store failures.                                               *)
(***************************************************************************)
EXTENDS Sessions, FiniteSetTheorems, TLAPS

USE DEF request, history, ParseRefresh, Created

-----------------------------------------------------------------------------
(* Type correctness *)

LEMMA TypeInit == Init => TypeOK
BY SessionRequests DEF Init, TypeOK, PC, Kinds

LEMMA TypeStep == TypeOK /\ [Next]_vars => TypeOK'
<1> SUFFICES ASSUME TypeOK, [Next]_vars
             PROVE  TypeOK'
  OBVIOUS
<1> USE SessionOwners DEF TypeOK, Goto, PC
<1>1. ASSUME NEW r \in Requests, Arrive(r) PROVE TypeOK'
  BY <1>1 DEF Arrive
<1>2. ASSUME NEW r \in Requests, LookUp(r) PROVE TypeOK'
  BY <1>2 DEF LookUp, FindLogin, FindClient, FindOwner, Kinds
<1>3. ASSUME NEW r \in Requests, GetToken(r) PROVE TypeOK'
  BY <1>3 DEF GetToken
<1>4. ASSUME NEW r \in Requests, Revoke(r) PROVE TypeOK'
  <2>1. token' \in [Requests -> {"none", "active", "revoked"}]
    BY <1>4 DEF Revoke, Revoked
  <2>2. before' \in [Users -> SUBSET Requests]
    BY <1>4 DEF Revoke, RequestsOf
  <2> QED
    BY <1>4, <2>1, <2>2 DEF Revoke
<1>5. ASSUME NEW r \in Requests, Insert(r) \/ InsertAnswerLost(r) PROVE TypeOK'
  BY <1>5 DEF Insert, InsertAnswerLost
<1>6. ASSUME NEW r \in Requests, DeleteUser(r) \/ CallFails(r) PROVE TypeOK'
  BY <1>6 DEF DeleteUser, CallFails
<1>7. ASSUME NEW t \in Requests, Expire(t) PROVE TypeOK'
  BY <1>7 DEF Expire
<1>8. CASE UNCHANGED vars
  BY <1>8 DEF vars
<1> QED
  BY <1>1, <1>2, <1>3, <1>4, <1>5, <1>6, <1>7, <1>8 DEF Next, Step, Quiet

\* The variables keep their types: a token's row is one of the known ones.
THEOREM TypeCorrect == Spec => []TypeOK
BY TypeInit, TypeStep, PTL DEF Spec

-----------------------------------------------------------------------------
(* Tokens and the requests that make them *)

\* A request that is not over has made no token, and what the client holds or
\* presents was inserted.
TokenFollowsRequest ==
    \A r \in Requests :
        /\ pc[r] # "done" => token[r] = "none"
        /\ r \in delivered => token[r] # "none"
        /\ presents[r] # NoToken => presents[r] \in delivered

LEMMA TokenStep ==
    TypeOK /\ TokenFollowsRequest /\ [Next]_vars => TokenFollowsRequest'
<1> SUFFICES ASSUME TypeOK, TokenFollowsRequest, [Next]_vars
             PROVE  TokenFollowsRequest'
  OBVIOUS
<1> USE DEF TypeOK, TokenFollowsRequest, Goto
<1>1. ASSUME NEW r \in Requests, Arrive(r) PROVE TokenFollowsRequest'
  BY <1>1 DEF Arrive
<1>2. ASSUME NEW r \in Requests, LookUp(r) \/ GetToken(r)
      PROVE  TokenFollowsRequest'
  BY <1>2 DEF LookUp, FindLogin, FindClient, FindOwner, GetToken
<1>3. ASSUME NEW r \in Requests, Revoke(r) PROVE TokenFollowsRequest'
  BY <1>3 DEF Revoke, Revoked, Active
<1>4. ASSUME NEW r \in Requests, Insert(r) \/ InsertAnswerLost(r)
      PROVE  TokenFollowsRequest'
  BY <1>4 DEF Insert, InsertAnswerLost
<1>5. ASSUME NEW r \in Requests, DeleteUser(r) \/ CallFails(r)
      PROVE  TokenFollowsRequest'
  BY <1>5 DEF DeleteUser, CallFails
<1>6. CASE (\E t \in Requests : Expire(t)) \/ UNCHANGED vars
  BY <1>6 DEF Expire, vars
<1> QED
  BY <1>1, <1>2, <1>3, <1>4, <1>5, <1>6 DEF Next, Step, Quiet

LEMMA TokenInit == Init => TokenFollowsRequest
BY DEF Init, TokenFollowsRequest

\* Every token was made by the request that names it, once the request was over.
THEOREM TokensFollowRequests == Spec => []TokenFollowsRequest
BY TypeInit, TypeStep, TokenInit, TokenStep, PTL DEF Spec

-----------------------------------------------------------------------------
(* Isolation *)

LEMMA IsolationStep ==
    TypeOK /\ TokenFollowsRequest /\ [Next]_vars =>
        \A t \in Requests : token'[t] # token[t] =>
            /\ token[t] # "revoked"
            /\ \E r \in RequestsOf(UserOf[t]) : pc'[r] # pc[r]
<1> SUFFICES ASSUME TypeOK, TokenFollowsRequest, [Next]_vars,
                    NEW t \in Requests, token'[t] # token[t]
             PROVE  /\ token[t] # "revoked"
                    /\ \E r \in RequestsOf(UserOf[t]) : pc'[r] # pc[r]
  OBVIOUS
<1> USE DEF TypeOK, Goto, RequestsOf
<1>1. ASSUME NEW r \in Requests, Revoke(r)
      PROVE  /\ token[t] = "active"
             /\ UserOf[r] = UserOf[t] /\ pc'[r] # pc[r]
  BY <1>1 DEF Revoke, Revoked, Active
<1>2. ASSUME NEW r \in Requests, Insert(r) \/ InsertAnswerLost(r)
      PROVE  /\ token[t] = "none"
             /\ UserOf[r] = UserOf[t] /\ pc'[r] # pc[r]
  BY <1>2 DEF Insert, InsertAnswerLost, TokenFollowsRequest
<1>3. ASSUME NEW r \in Requests, Step(r),
             ~(Revoke(r) \/ Insert(r) \/ InsertAnswerLost(r))
      PROVE  token' = token
  BY <1>3 DEF Step, Arrive, LookUp, FindLogin, FindClient, FindOwner,
              GetToken, DeleteUser, CallFails
<1>4. CASE (\E s \in Requests : Expire(s)) \/ UNCHANGED vars
  BY <1>4 DEF Expire, vars
<1> QED
  BY <1>1, <1>2, <1>3, <1>4 DEF Next, Quiet

\* No request touches the tokens of another user, and revocation is final.
THEOREM TokensIsolated == Spec => Isolation
BY TypeCorrect, TokensFollowRequests, IsolationStep, PTL DEF Spec, Isolation

-----------------------------------------------------------------------------
(* Hopeless requests *)

\* Why a late request is hopeless, which nothing can undo: its account is
\* deleted and it has not passed the look-up, or its token is dead and it has
\* not passed the check of the token.
Hopeless(r) ==
    \/ pc[r] = "done"
    \/ pc[r] = "lookUp" /\ UserOf[r] \in deleted
    \/ /\ pc[r] \in {"lookUp", "getToken"}
       /\ kind[r] = "refresh"
       /\ presents[r] \in Requests
       /\ presents[r] \in expired \/ token[presents[r]] = "revoked"

LateInv == \A r \in late : Hopeless(r) /\ token[r] = "none"

\* A token that is dead stays so.
LEMMA DeadStaysDead ==
    ASSUME TypeOK, TokenFollowsRequest, [Next]_vars, NEW t \in Requests,
           t \in expired \/ token[t] = "revoked"
    PROVE  t \in expired' \/ token'[t] = "revoked"
<1>1. expired \subseteq expired'
  BY DEF Next, Step, Quiet, Arrive, LookUp, FindLogin, FindClient, FindOwner,
         GetToken, Revoke, Insert, DeleteUser, CallFails, InsertAnswerLost,
         Expire, vars
<1>2. token[t] = "revoked" => token'[t] = "revoked"
  BY IsolationStep
<1> QED
  BY <1>1, <1>2

LEMMA DeletedStaysDeleted == [Next]_vars => deleted \subseteq deleted'
BY DEF Next, Step, Quiet, Arrive, LookUp, FindLogin, FindClient, FindOwner,
       GetToken, Revoke, Insert, DeleteUser, CallFails, InsertAnswerLost,
       Expire, vars

\* A request that does not move keeps its reasons.
LEMMA HopelessKept ==
    ASSUME TypeOK, TokenFollowsRequest, [Next]_vars, NEW r \in Requests,
           Hopeless(r), token[r] = "none", pc'[r] = pc[r], kind'[r] = kind[r],
           presents'[r] = presents[r], token'[r] = token[r]
    PROVE  Hopeless(r)' /\ token'[r] = "none"
<1>1. presents[r] \in Requests =>
          (presents[r] \in expired \/ token[presents[r]] = "revoked" =>
           presents[r] \in expired' \/ token'[presents[r]] = "revoked")
  BY DeadStaysDead
<1>2. deleted \subseteq deleted'
  BY DeletedStaysDeleted
<1> QED
  BY <1>1, <1>2 DEF Hopeless

LEMMA LateStep ==
    TypeOK /\ TokenFollowsRequest /\ LateInv /\ [Next]_vars => LateInv'
<1> SUFFICES ASSUME TypeOK, TokenFollowsRequest, LateInv, [Next]_vars,
                    NEW s \in late'
             PROVE  Hopeless(s)' /\ token'[s] = "none"
  BY DEF LateInv
<1> USE DEF TypeOK, Goto
<1>0. s \in Requests
  BY TypeStep
<1>1. ASSUME NEW r \in Requests, Arrive(r), r = s
      PROVE  Hopeless(s)' /\ token'[s] = "none"
  <2>1. s \notin late
    BY <1>1 DEF Arrive, LateInv, Hopeless
  <2>2. PICK k \in Kinds, t \in delivered \cup {NoToken} :
          /\ k = "refresh" <=> t # NoToken
          /\ kind' = [kind EXCEPT ![r] = k]
          /\ presents' = [presents EXCEPT ![r] = t]
          /\ late' = IF \/ UserOf[r] \in deleted
                        \/ k = "refresh" /\ ~Usable(t)
                     THEN late \cup {r} ELSE late
    BY <1>1 DEF Arrive
  <2>3. pc'[s] = "lookUp" /\ deleted' = deleted /\ token' = token /\ expired' = expired
    BY <1>1 DEF Arrive
  <2>4. CASE UserOf[s] \in deleted
    BY <1>1, <2>3, <2>4 DEF Hopeless, TokenFollowsRequest, Arrive
  <2>5. CASE k = "refresh" /\ ~Usable(t)
    <3>1. t \in Requests /\ token[t] # "none"
      BY <2>2, <2>5 DEF TokenFollowsRequest
    <3>2. t \in expired \/ token[t] = "revoked"
      BY <2>5, <3>1 DEF Usable
    <3>3. kind'[s] = "refresh" /\ presents'[s] = t
      BY <1>1, <2>2, <2>5, SessionRequests
    <3> QED
      BY <1>1, <2>3, <3>1, <3>2, <3>3 DEF Hopeless, TokenFollowsRequest, Arrive
  <2> QED
    BY <1>1, <2>1, <2>2, <2>4, <2>5
<1>2. ASSUME NEW r \in Requests, Step(r), r # s
      PROVE  Hopeless(s)' /\ token'[s] = "none"
  <2>1. /\ s \in late /\ pc'[s] = pc[s] /\ kind'[s] = kind[s]
        /\ presents'[s] = presents[s]
    BY <1>0, <1>2 DEF Step, Arrive, LookUp, FindLogin, FindClient, FindOwner,
                      GetToken, Revoke, Insert, DeleteUser, CallFails,
                      InsertAnswerLost
  <2>2. token'[s] = token[s]
    <3>1. token[s] = "none"
      BY <2>1 DEF LateInv
    <3> QED
      BY <1>0, <1>2, <3>1 DEF Step, Arrive, LookUp, FindLogin, FindClient,
                              FindOwner, GetToken, Revoke, Revoked, Active,
                              Insert, DeleteUser, CallFails, InsertAnswerLost
  <2> QED
    BY <1>0, <2>1, <2>2, HopelessKept DEF LateInv
<1>3. ASSUME Step(s), ~Arrive(s)
      PROVE  Hopeless(s)' /\ token'[s] = "none"
  <2>1. s \in late
    BY <1>3 DEF Step, LookUp, FindLogin, FindClient, FindOwner, GetToken,
                Revoke, Insert, DeleteUser, CallFails, InsertAnswerLost
  <2>2. Hopeless(s) /\ token[s] = "none"
    BY <2>1 DEF LateInv
  <2>3. CASE LookUp(s)
    BY <1>0, <2>2, <2>3 DEF LookUp, FindLogin, FindClient, FindOwner, Hopeless
  <2>4. CASE GetToken(s)
    BY <1>0, <2>2, <2>4 DEF GetToken, Hopeless, Usable
  <2>5. CASE CallFails(s)
    BY <1>0, <2>2, <2>5 DEF CallFails, Hopeless
  <2> QED
    BY <1>3, <2>2, <2>3, <2>4, <2>5
       DEF Step, Hopeless, Revoke, Insert, DeleteUser, InsertAnswerLost
<1>4. CASE (\E t \in Requests : Expire(t)) \/ UNCHANGED vars
  <2>1. /\ s \in late /\ pc' = pc /\ kind' = kind /\ presents' = presents
        /\ token' = token
    BY <1>4 DEF Expire, vars
  <2> QED
    BY <1>0, <2>1, HopelessKept DEF LateInv
<1> QED
  BY <1>0, <1>1, <1>2, <1>3, <1>4 DEF Next, Quiet

\* A request that came with a dead token, or for a deleted account, never makes a
\* token, however the other requests interleave with it.
THEOREM LateRefused == Spec => []LateNeverIssues
<1>1. Init => LateInv
  BY DEF Init, LateInv
<1>2. LateInv => LateNeverIssues
  BY DEF LateInv, LateNeverIssues
<1> QED
  BY <1>1, <1>2, LateStep, TypeCorrect, TokensFollowRequests, PTL DEF Spec

-----------------------------------------------------------------------------
(* How many tokens of a user are active *)

\* As long as no two pairs of u were made at once, at most one request is between
\* its revocation and its insertion, nothing is active while it is there, and at
\* most one token is active otherwise.
OneAtATime(u) ==
    /\ \A r, s \in RequestsOf(u) : pc[r] = "insert" /\ pc[s] = "insert" => r = s
    /\ (\E r \in RequestsOf(u) : pc[r] = "insert") => Active(u) = {}
    /\ \A r, s \in Active(u) : r = s

OverlapInv == \A u \in Users \ overlap : OneAtATime(u)

LEMMA OverlapStep ==
    TypeOK /\ TokenFollowsRequest /\ OverlapInv /\ [Next]_vars => OverlapInv'
<1> SUFFICES ASSUME TypeOK, TokenFollowsRequest, OverlapInv, [Next]_vars,
                    NEW u \in Users \ overlap'
             PROVE  OneAtATime(u)'
  BY DEF OverlapInv
<1>1. u \notin overlap /\ OneAtATime(u)
  BY DEF OverlapInv, Next, Step, Quiet, Arrive, LookUp, FindLogin, FindClient,
         FindOwner, GetToken, Revoke, Insert, DeleteUser, CallFails,
         InsertAnswerLost, Expire, vars
<1> USE DEF TypeOK, Goto, OneAtATime, RequestsOf, Active
<1>2. ASSUME NEW r \in Requests, Arrive(r) \/ LookUp(r) \/ GetToken(r)
      PROVE  OneAtATime(u)'
  <2>1. token' = token /\ \E label \in PC \ {"insert"} : Goto(r, label)
    BY <1>2 DEF Arrive, LookUp, FindLogin, FindClient, FindOwner, GetToken,
                PC, Kinds
  <2> QED
    BY <1>1, <2>1
<1>3. ASSUME NEW r \in Requests, Revoke(r)
      PROVE  OneAtATime(u)'
  <2>1. CASE UserOf[r] # u
    BY <1>1, <1>3, <2>1 DEF Revoke, Revoked
  <2>2. CASE UserOf[r] = u
    <3>1. Active(u)' = {}
      BY <1>3, <2>2 DEF Revoke, Revoked
    <3>2. CASE kind[r] = "logout"
      BY <1>1, <1>3, <3>1, <3>2 DEF Revoke
    <3>3. CASE kind[r] # "logout"
      <4>1. \A s \in RequestsOf(u) : pc[s] # "insert"
        BY <1>1, <1>3, <2>2, <3>3 DEF Revoke
      <4>2. Goto(r, "insert")
        BY <1>3, <3>3 DEF Revoke
      <4> QED
        BY <3>1, <4>1, <4>2
    <3> QED
      BY <3>2, <3>3
  <2> QED
    BY <2>1, <2>2
<1>4. ASSUME NEW r \in Requests, Insert(r) \/ InsertAnswerLost(r)
      PROVE  OneAtATime(u)'
  <2>1. /\ pc[r] = "insert" /\ Goto(r, "done")
        /\ token' = [token EXCEPT ![r] = "active"]
    BY <1>4 DEF Insert, InsertAnswerLost
  <2>2. CASE UserOf[r] # u
    BY <1>1, <2>1, <2>2
  <2>3. CASE UserOf[r] = u
    <3>1. Active(u) = {} /\ \A s \in RequestsOf(u) : pc[s] = "insert" => s = r
      BY <1>1, <2>1, <2>3
    <3> QED
      BY <2>1, <3>1
  <2> QED
    BY <2>2, <2>3
<1>5. ASSUME NEW r \in Requests, DeleteUser(r) \/ CallFails(r)
      PROVE  OneAtATime(u)'
  BY <1>1, <1>5 DEF DeleteUser, CallFails
<1>6. CASE (\E t \in Requests : Expire(t)) \/ UNCHANGED vars
  BY <1>1, <1>6 DEF Expire, vars
<1> QED
  BY <1>2, <1>3, <1>4, <1>5, <1>6 DEF Next, Step, Quiet

LEMMA AlwaysOneAtATime == Spec => []OverlapInv
<1>1. Init => OverlapInv
  BY DEF Init, OverlapInv, OneAtATime, Active, RequestsOf
<1> QED
  BY <1>1, OverlapStep, TypeCorrect, TokensFollowRequests, PTL DEF Spec

\* A set whose elements are all equal has at most one.
LEMMA AtMostOne ==
    ASSUME NEW S, \A x, y \in S : x = y
    PROVE  Cardinality(S) <= 1
<1>1. CASE S = {}
  BY <1>1, FS_EmptySet
<1>2. CASE \E x : S = {x}
  BY <1>2, FS_Singleton
<1> QED
  BY <1>1, <1>2

\* Unless the making of two pairs overlapped, a user has one active refresh token.
THEOREM OneSession == Spec => []SingleUnlessOverlap
<1>1. OverlapInv => SingleUnlessOverlap
  BY AtMostOne DEF OverlapInv, OneAtATime, SingleUnlessOverlap
<1> QED
  BY <1>1, AlwaysOneAtATime, PTL

LEMMA SurvivesStep ==
    TypeOK /\ TokenFollowsRequest /\ SessionSurvives /\ [Next]_vars
        => SessionSurvives'
<1> SUFFICES ASSUME TypeOK, TokenFollowsRequest, SessionSurvives, [Next]_vars,
                    NEW u \in Clients', faults' = 0, before'[u] = {}
             PROVE  \/ Active(u)' # {}
                    \/ \E r \in RequestsOf(u) : pc'[r] = "insert"
  BY DEF SessionSurvives, RequestsOf
<1> USE DEF TypeOK, Goto, RequestsOf
<1>0. ASSUME u \in Clients, faults = 0, before[u] = {}
      PROVE  Active(u) # {} \/ \E r \in RequestsOf(u) : pc[r] = "insert"
  BY <1>0 DEF SessionSurvives
<1>1. ASSUME NEW r \in Requests, Arrive(r) \/ LookUp(r) \/ GetToken(r)
      PROVE  Active(u)' # {} \/ \E s \in RequestsOf(u) : pc'[s] = "insert"
  <2>1. /\ u \in Clients /\ faults = 0 /\ before[u] = {} /\ Active(u)' = Active(u)
        /\ \A s \in Requests : pc[s] = "insert" => pc'[s] = "insert"
    BY <1>1 DEF Arrive, LookUp, FindLogin, FindClient, FindOwner, GetToken,
                Clients, Active
  <2> QED
    BY <1>0, <2>1
<1>2. ASSUME NEW r \in Requests, Revoke(r)
      PROVE  Active(u)' # {} \/ \E s \in RequestsOf(u) : pc'[s] = "insert"
  <2>1. u \in Clients /\ u \in Users /\ faults = 0
    BY <1>2, SessionOwners DEF Revoke, Clients
  <2>2. CASE UserOf[r] = u
    <3>1. CASE kind[r] = "logout"
      <4>1. r \in before'[u]
        BY <1>2, <2>1, <2>2, <3>1 DEF Revoke
      <4> QED
        BY <4>1
    <3>2. CASE kind[r] # "logout"
      BY <1>2, <2>2, <3>2 DEF Revoke
    <3> QED
      BY <3>1, <3>2
  <2>3. CASE UserOf[r] # u
    <3>1. /\ before'[u] = before[u] /\ Active(u)' = Active(u)
          /\ \A s \in RequestsOf(u) : pc'[s] = pc[s]
      BY <1>2, <2>1, <2>3 DEF Revoke, Revoked, Active
    <3> QED
      BY <1>0, <2>1, <3>1
  <2> QED
    BY <2>2, <2>3
<1>3. ASSUME NEW r \in Requests, Insert(r)
      PROVE  Active(u)' # {} \/ \E s \in RequestsOf(u) : pc'[s] = "insert"
  <2>1. CASE UserOf[r] = u
    <3>1. r \in Active(u)'
      BY <1>3, <2>1 DEF Insert, Active
    <3> QED
      BY <3>1
  <2>2. CASE UserOf[r] # u
    <3>1. /\ u \in Clients /\ faults = 0 /\ before[u] = {}
          /\ Active(u)' = Active(u) /\ \A s \in RequestsOf(u) : pc'[s] = pc[s]
      BY <1>3, <2>2 DEF Insert, Clients, Active
    <3> QED
      BY <1>0, <3>1
  <2> QED
    BY <2>1, <2>2
<1>4. ASSUME NEW r \in Requests, DeleteUser(r)
      PROVE  Active(u)' # {} \/ \E s \in RequestsOf(u) : pc'[s] = "insert"
  <2>1. /\ u \in Clients /\ faults = 0 /\ before[u] = {} /\ Active(u)' = Active(u)
        /\ \A s \in Requests : pc[s] = "insert" => pc'[s] = "insert"
    BY <1>4 DEF DeleteUser, Clients, Active
  <2> QED
    BY <1>0, <2>1
<1>5. ASSUME NEW r \in Requests, CallFails(r) \/ InsertAnswerLost(r)
      PROVE  FALSE
  BY <1>5 DEF CallFails, InsertAnswerLost
<1>6. CASE (\E t \in Requests : Expire(t)) \/ UNCHANGED vars
  <2>1. /\ u \in Clients /\ faults = 0 /\ before[u] = {} /\ Active(u)' = Active(u)
        /\ pc' = pc
    BY <1>6 DEF Expire, vars, Clients, Active
  <2> QED
    BY <1>0, <2>1
<1> QED
  BY <1>1, <1>2, <1>3, <1>4, <1>5, <1>6 DEF Next, Step, Quiet

\* Unless a store call failed or a logout revoked, a client that was given a pair
\* has an active refresh token or one about to be inserted.
THEOREM NobodyLockedOut == Spec => []SessionSurvives
<1>1. Init => SessionSurvives
  BY DEF Init, SessionSurvives, Clients
<1> QED
  BY <1>1, SurvivesStep, TypeCorrect, TokensFollowRequests, PTL DEF Spec

-----------------------------------------------------------------------------
(* Sessions implements SessionSlots *)

LEMMA SlotIsActive == \A u : Slots!Slot(u) = Active(u)
BY DEF Slots!Slot, Active, RequestsOf

LEMMA SlotStep ==
    TypeOK /\ TokenFollowsRequest /\ OverlapInv /\ [Next]_vars
        => [Slots!Next]_(Slots!slotVars)
<1> SUFFICES ASSUME TypeOK, TokenFollowsRequest, OverlapInv, [Next]_vars
             PROVE  Slots!Next \/ UNCHANGED <<token, delivered, overlap>>
  BY DEF Slots!slotVars
<1>1. ASSUME NEW r \in Requests, Insert(r) \/ InsertAnswerLost(r)
      PROVE  Slots!Next
  <2>1. /\ pc[r] = "insert" /\ token[r] = "none"
        /\ token' = [token EXCEPT ![r] = "active"]
        /\ delivered' \in {delivered, delivered \cup {r}}
        /\ overlap' = overlap
    BY <1>1 DEF Insert, InsertAnswerLost, TokenFollowsRequest
  <2>2. Active(UserOf[r]) = {} \/ UserOf[r] \in overlap
    BY <2>1, SessionOwners DEF OverlapInv, OneAtATime, RequestsOf
  <2>3. Slots!Open(r)
    BY <2>1, <2>2, SlotIsActive DEF Slots!Open
  <2> QED
    BY <2>3 DEF Slots!Next
<1>2. ASSUME NEW r \in Requests, Revoke(r)
      PROVE  Slots!Next
  <2>1. Slots!Clear(UserOf[r])
    BY <1>2, SlotIsActive DEF Revoke, Revoked, Slots!Clear
  <2> QED
    BY <2>1, SessionOwners DEF Slots!Next
<1>3. ASSUME NEW r \in Requests, Step(r),
             ~(Revoke(r) \/ Insert(r) \/ InsertAnswerLost(r))
      PROVE  UNCHANGED <<token, delivered, overlap>>
  BY <1>3 DEF Step, Arrive, LookUp, FindLogin, FindClient, FindOwner,
              GetToken, DeleteUser, CallFails
<1>4. CASE (\E t \in Requests : Expire(t)) \/ UNCHANGED vars
  BY <1>4 DEF Expire, vars
<1> QED
  BY <1>1, <1>2, <1>3, <1>4 DEF Next, Quiet

\* Login, refresh and logout amount to two operations on the slot of one user:
\* revoke everything in it, and open a token in it when it is empty, unless two
\* pairs of the user were made at once.  Failures, lost answers, expiry and
\* deletions change nothing of this.
THEOREM ImplementsSlots == Spec => SlotSpec
<1>1. Init => Slots!Init
  BY DEF Init, Slots!Init
<1> QED
  BY <1>1, SlotStep, TypeCorrect, TokensFollowRequests, AlwaysOneAtATime, PTL
     DEF Spec, SlotSpec, Slots!Spec

LEMMA SlotInvariants ==
    ASSUME TypeOK, Slots!OneSession, Slots!HeldWereOpened,
           [Slots!Next]_(Slots!slotVars)
    PROVE  Slots!OneSession' /\ Slots!HeldWereOpened'
<1> USE SessionOwners
    DEF TypeOK, Slots!OneSession, Slots!HeldWereOpened, Slots!Slot
<1>1. ASSUME NEW t \in Requests, Slots!Open(t)
      PROVE  Slots!OneSession' /\ Slots!HeldWereOpened'
  BY <1>1 DEF Slots!Open
<1>2. ASSUME NEW u \in Users, Slots!Clear(u)
      PROVE  Slots!OneSession' /\ Slots!HeldWereOpened'
  BY <1>2 DEF Slots!Clear
<1>3. CASE UNCHANGED Slots!slotVars
  BY <1>3 DEF Slots!slotVars
<1> QED
  BY <1>1, <1>2, <1>3 DEF Slots!Next

\* Inherited from the slots: a slot that was never crowded holds one token, and
\* every token a client was given had been inserted.
THEOREM SlotsHold == Spec => [](Slots!OneSession /\ Slots!HeldWereOpened)
<1>1. Init => Slots!OneSession /\ Slots!HeldWereOpened
  BY DEF Init, Slots!OneSession, Slots!HeldWereOpened
<1> QED
  BY <1>1, SlotStep, SlotInvariants, TypeCorrect, TokensFollowRequests,
     AlwaysOneAtATime, PTL DEF Spec
=============================================================================
