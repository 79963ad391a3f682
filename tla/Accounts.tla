-------------------------------- MODULE Accounts --------------------------------
(***************************************************************************)
(* Accounts and their passwords: register (internal/api/auth.go), the      *)
(* administrator's createUser (internal/api/admin.go), updateUser,         *)
(* changePassword and deleteUser (internal/api/user.go), over              *)
(* internal/store/user.go.                                                 *)
(*                                                                         *)
(* An account is named by the request that inserted it.  No two store      *)
(* calls of a request share a transaction, so what a request has read may  *)
(* be stale when it writes: the login that was free, the user that         *)
(* userMiddleware loaded.  The name of a user is left out: no property     *)
(* depends on it.  A stored hash is named by the password it matches.      *)
(*                                                                         *)
(* Never used, each a slip in the operator that follows it: CheckForgotten,*)
(* HashReportsError, SaveWholeUser, CallFailsRestores.                     *)
(***************************************************************************)
EXTENDS Naturals

CONSTANTS Requests,   \* calls of the handlers above
          Logins,
          LoginOf,    \* the login a request registers
          Passwords,
          TooLong,    \* passwords of over 72 bytes, which bcrypt refuses
          NoHash,     \* the empty string where a hash should be
          NoPassword  \* no password was confirmed

ASSUME AccountLogins == LoginOf \in [Requests -> Logins]
ASSUME AccountPasswords == /\ TooLong \subseteq Passwords
                           /\ NoHash \notin Passwords
                           /\ NoPassword \notin Passwords

VARIABLES pc,         \* store call a request makes next
          target,     \* the account a request is about
          pass,       \* the password a request sets
          seen,       \* the user as userMiddleware read it: the hash
          account,    \* users: "none", "active" or "deleted"
          hash,       \* users.hashed_password
          confirmed,  \* history: the password last confirmed to the owner
          raced,      \* history: logins two requests found free at once
          unsure,     \* history: accounts whose owner cannot tell
          follows,    \* history: what was over about the account when a change began
          overruled   \* history: requests an answered change followed

vars == <<pc, target, pass, seen, account, hash, confirmed, raced, unsure, follows,
          overruled>>
request == <<target, pass, seen>>
users == <<account, hash>>
history == <<confirmed, raced, unsure, follows, overruled>>

PC == {"idle", "check", "insert", "update", "rename", "delete", "answer", "done"}

\* Requests that are about to set or to confirm a password of account a.
Setting(a) == {r \in Requests :
                  target[r] = a /\ pc[r] \in {"update", "answer"}}

Finished(a) == {r \in Requests : target[r] = a /\ pc[r] = "done"}

Init == /\ pc = [r \in Requests |-> "idle"]
        /\ target = [r \in Requests |-> r]
        /\ pass = [r \in Requests |-> NoPassword]
        /\ seen = [r \in Requests |-> NoHash]
        /\ account = [r \in Requests |-> "none"]
        /\ hash = [r \in Requests |-> NoHash]
        /\ confirmed = [r \in Requests |-> NoPassword]
        /\ raced = {}
        /\ unsure = {}
        /\ follows = [r \in Requests |-> {}]
        /\ overruled = {}

Goto(r, label) == pc' = [pc EXCEPT ![r] = label]

\* The statements on users (internal/database/sqlc/db/users.sql.go).
CreateUser(a, h) == /\ account' = [account EXCEPT ![a] = "active"]
                    /\ hash' = [hash EXCEPT ![a] = h]
GetUserByID(a) == account[a] = "active"
GetUserByLogin(a, l) == LoginOf[a] = l /\ account[a] = "active"
UpdateUser(a) == UNCHANGED users
UpdateUserPassword(a, h) == /\ hash' = [hash EXCEPT ![a] = h]
                            /\ UNCHANGED account
SoftDelete(a) == /\ account' = [account EXCEPT ![a] = "deleted"]
                 /\ UNCHANGED hash

Taken(l) == \E a \in Requests : GetUserByLogin(a, l)

HashReportsError(p) == IF p \in TooLong THEN "password too long" ELSE p
\* utils.HashPass, the error of which its callers ignore.
HashOf(p) == IF p \in TooLong THEN NoHash ELSE p

-----------------------------------------------------------------------------
(* New accounts *)

\* loginMiddleware and register up to the call of CreateUser.
Register(r) ==
    /\ pc[r] = "idle"
    /\ \E p \in Passwords : pass' = [pass EXCEPT ![r] = p]
    /\ Goto(r, IF Taken(LoginOf[r]) THEN "done" ELSE "check")
    /\ UNCHANGED <<target, seen, users, history>>

\* The administrator's createUser calls CreateUser at once.
CreateByAdmin(r) ==
    /\ pc[r] = "idle"
    /\ \E p \in Passwords : pass' = [pass EXCEPT ![r] = p]
    /\ Goto(r, "check")
    /\ UNCHANGED <<target, seen, users, history>>

CheckForgotten(r) ==
    /\ pc[r] = "check"
    /\ Goto(r, "insert")
    /\ raced' = IF \E s \in Requests : pc[s] = "insert" /\ LoginOf[s] = LoginOf[r]
                THEN raced \cup {LoginOf[r]} ELSE raced
    /\ UNCHANGED <<request, users, confirmed, unsure, follows, overruled>>

\* The first statement of store.CreateUser.
CheckLogin(r) ==
    /\ pc[r] = "check"
    /\ IF Taken(LoginOf[r])
       THEN Goto(r, "done") /\ UNCHANGED raced
       ELSE /\ Goto(r, "insert")
            /\ raced' = IF \E s \in Requests :
                              pc[s] = "insert" /\ LoginOf[s] = LoginOf[r]
                        THEN raced \cup {LoginOf[r]} ELSE raced
    /\ UNCHANGED <<request, users, confirmed, unsure, follows, overruled>>

\* The second: nothing in the migrated database keeps logins apart.
InsertUser(r) ==
    /\ pc[r] = "insert"
    /\ CreateUser(r, HashOf(pass[r]))
    /\ Goto(r, "answer")
    /\ UNCHANGED <<request, history>>

-----------------------------------------------------------------------------
(* Changes by the owner, after userMiddleware loaded the user *)

\* changePassword compares the old password with the hash it loaded, and the new
\* password differs from the old one.
ChangePassword(r) ==
    /\ pc[r] = "idle"
    /\ \E a \in Requests, p \in Passwords :
          /\ GetUserByID(a)
          /\ hash[a] \in Passwords \ {p}
          /\ target' = [target EXCEPT ![r] = a]
          /\ pass' = [pass EXCEPT ![r] = p]
          /\ seen' = [seen EXCEPT ![r] = hash[a]]
          /\ unsure' = IF Setting(a) = {} THEN unsure ELSE unsure \cup {a}
          /\ follows' = [follows EXCEPT ![r] = Finished(a)]
    /\ Goto(r, "update")
    /\ UNCHANGED <<users, confirmed, raced, overruled>>

SavePassword(r) ==
    /\ pc[r] = "update"
    /\ UpdateUserPassword(target[r], HashOf(pass[r]))
    /\ Goto(r, "answer")
    /\ UNCHANGED <<request, history>>

\* updateUser and deleteUser load the user and write one column of it later.
LoadUser(r) ==
    /\ pc[r] = "idle"
    /\ \E a \in Requests :
          /\ GetUserByID(a)
          /\ target' = [target EXCEPT ![r] = a]
          /\ seen' = [seen EXCEPT ![r] = hash[a]]
    /\ \E label \in {"rename", "delete"} : Goto(r, label)
    /\ UNCHANGED <<pass, users, history>>

SaveWholeUser(r) ==
    /\ pc[r] = "rename"
    /\ account' = [account EXCEPT ![target[r]] = "active"]
    /\ hash' = [hash EXCEPT ![target[r]] = seen[r]]
    /\ Goto(r, "done")
    /\ UNCHANGED <<request, history>>

\* store.UpdateUser writes the name and nothing else of the user it was given.
SaveName(r) == /\ pc[r] = "rename"
               /\ UpdateUser(target[r])
               /\ Goto(r, "done")
               /\ UNCHANGED <<request, history>>

DeleteUser(r) == /\ pc[r] = "delete"
                 /\ SoftDelete(target[r])
                 /\ Goto(r, "done")
                 /\ UNCHANGED <<request, history>>

-----------------------------------------------------------------------------
\* 201 or 202: the password is confirmed.
Answer(r) == /\ pc[r] = "answer"
             /\ confirmed' = [confirmed EXCEPT ![target[r]] = pass[r]]
             /\ overruled' = overruled \cup follows[r]
             /\ Goto(r, "done")
             /\ UNCHANGED <<request, users, raced, unsure, follows>>

CallFailsRestores(r) ==
    /\ pc[r] \notin {"idle", "done"}
    /\ IF pc[r] = "answer" /\ target[r] # r
       THEN UpdateUserPassword(target[r], seen[r]) ELSE UNCHANGED users
    /\ unsure' = IF pc[r] = "answer" THEN unsure \cup {target[r]} ELSE unsure
    /\ Goto(r, "done")
    /\ UNCHANGED <<request, confirmed, raced, follows, overruled>>

\* The request ends before its next call: the call fails or the process stops.
\* After the write this also stands for a lost answer, and for a register
\* whose tokens could not be made.
CallFails(r) ==
    /\ pc[r] \notin {"idle", "done"}
    /\ unsure' = IF pc[r] = "answer" THEN unsure \cup {target[r]} ELSE unsure
    /\ Goto(r, "done")
    /\ UNCHANGED <<request, users, confirmed, raced, follows, overruled>>

Quiet == /\ \A r \in Requests : pc[r] = "done"
         /\ UNCHANGED vars

Step(r) == \/ Register(r)
           \/ CreateByAdmin(r)
           \/ CheckLogin(r)
           \/ InsertUser(r)
           \/ ChangePassword(r)
           \/ SavePassword(r)
           \/ LoadUser(r)
           \/ SaveName(r)
           \/ DeleteUser(r)
           \/ Answer(r)
           \/ CallFails(r)

Next == (\E r \in Requests : Step(r)) \/ Quiet

Spec == Init /\ [][Next]_vars

-----------------------------------------------------------------------------
Hashes == Passwords \cup {NoHash}

TypeOK == /\ pc \in [Requests -> PC]
          /\ target \in [Requests -> Requests]
          /\ pass \in [Requests -> Passwords \cup {NoPassword}]
          /\ seen \in [Requests -> Hashes]
          /\ account \in [Requests -> {"none", "active", "deleted"}]
          /\ hash \in [Requests -> Hashes]
          /\ confirmed \in [Requests -> Passwords \cup {NoPassword}]
          /\ raced \subseteq Logins
          /\ unsure \subseteq Requests
          /\ follows \in [Requests -> SUBSET Requests]
          /\ overruled \subseteq Requests

\* Two active accounts have one login only if two requests found it free at the
\* same time, although register, the administrator's createUser and deletions
\* interleave at every call.
UniqueUnlessRaced ==
    \A a, b \in Requests :
        /\ account[a] = "active"
        /\ account[b] = "active"
        /\ LoginOf[a] = LoginOf[b]
        /\ LoginOf[a] \notin raced
        => a = b

\* The password last confirmed to the owner is the one the account has, until
\* another change is about to be confirmed: requests that loaded the user
\* before a change and write after it do not undo it.  Excepted are two
\* changes at once, and changes that were never answered.
PasswordKept ==
    \A a \in Requests :
        confirmed[a] # NoPassword /\ a \notin unsure =>
            \/ hash[a] = HashOf(confirmed[a])
            \/ \E r \in Setting(a) : pc[r] = "answer"

\* Changes at once may land in either order, and one that was never answered may
\* land or not, but a change that was answered is not undone by what was over
\* when it began: the hash of an account is that of a request about it which no
\* answered change has followed.
LaterChangeStands ==
    \A a \in Requests : account[a] # "none" =>
        \E w \in Requests \ overruled : /\ target[w] = a
                                       /\ pc[w] \in {"answer", "done"}
                                       /\ hash[a] = HashOf(pass[w])

\* An account that was deleted stays so, also when a request that loaded it
\* before writes it afterwards.
DeletedForever ==
    [][\A a \in Requests : account[a] = "deleted" => account'[a] = "deleted"]_vars

\* What is stored for the password an owner was told last, while nothing is about
\* to be confirmed.
Known(a) == IF a \in unsure \/ (\E r \in Setting(a) : pc[r] = "answer")
               \/ confirmed[a] = NoPassword
            THEN NoPassword ELSE HashOf(confirmed[a])

\* The abstract promise: Accounts implements AccountBook.  The look-up of a login
\* and the insertion are two steps of which only the second opens an account, and
\* a password is known between its confirmation and the next change.
Book == INSTANCE AccountBook
        WITH Accounts <- Requests, Secrets <- Hashes, Nothing <- NoPassword,
             secret <- hash, contested <- raced,
             known <- [a \in Requests |-> Known(a)]
BookSpec == Book!Spec

(* What the schema and the documentation say, and the code refutes *)

\* users.login is UNIQUE: two active accounts never have one login.
UniqueLogin ==
    \A a, b \in Requests :
        account[a] = "active" /\ account[b] = "active" /\ LoginOf[a] = LoginOf[b]
            => a = b

\* "Password changed successfully": an account whose password was confirmed has
\* a hash some password matches.
PasswordUsable ==
    \A a \in Requests : confirmed[a] # NoPassword => hash[a] # NoHash
=============================================================================
