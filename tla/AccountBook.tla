------------------------------ MODULE AccountBook ------------------------------
(***************************************************************************)
(* What the server promises the owner of an account: the abstract          *)
(* specification that Accounts implements.                                 *)
(*                                                                         *)
(* An account is opened once, under a login no active account has, and     *)
(* closed for good.  What the owner knows is the secret of now or nothing: *)
(* a change of the secret takes the knowledge away until it is confirmed.  *)
(* A login is contested when two owners found it free at the same time,    *)
(* and then it may be given to both.                                       *)
(***************************************************************************)
CONSTANTS Accounts,
          Logins,
          LoginOf,    \* the login of an account
          Secrets,    \* what can be stored for a password
          Nothing     \* what an owner knows who was told nothing

VARIABLES account,    \* "none", "active" or "deleted"
          secret,     \* what is stored for the password
          known,      \* what its owner was told is stored, or Nothing
          contested   \* logins that two owners found free at once

bookVars == <<account, secret, known, contested>>

Init == /\ account = [a \in Accounts |-> "none"]
        /\ secret \in [Accounts -> Secrets]
        /\ known = [a \in Accounts |-> Nothing]
        /\ contested = {}

Free(l) == \A a \in Accounts : account[a] = "active" => LoginOf[a] # l

Open(a) == /\ account[a] = "none"
           /\ Free(LoginOf[a]) \/ LoginOf[a] \in contested
           /\ account' = [account EXCEPT ![a] = "active"]
           /\ \E s \in Secrets : secret' = [secret EXCEPT ![a] = s]
           /\ known' = [known EXCEPT ![a] = Nothing]
           /\ UNCHANGED contested

\* A change that was begun before the account was closed may end after it.
Change(a) == /\ account[a] # "none"
             /\ \E s \in Secrets : secret' = [secret EXCEPT ![a] = s]
             /\ known' = [known EXCEPT ![a] = Nothing]
             /\ UNCHANGED <<account, contested>>

Confirm(a) == /\ account[a] # "none"
              /\ known' = [known EXCEPT ![a] = secret[a]]
              /\ UNCHANGED <<account, secret, contested>>

\* The owner can no longer tell.
Doubt(a) == /\ known' = [known EXCEPT ![a] = Nothing]
            /\ UNCHANGED <<account, secret, contested>>

Close(a) == /\ account[a] # "none"
            /\ account' = [account EXCEPT ![a] = "deleted"]
            /\ UNCHANGED <<secret, known, contested>>

Contest(l) == /\ contested' = contested \cup {l}
              /\ UNCHANGED <<account, secret, known>>

Next == \/ \E a \in Accounts : \/ Open(a)
                               \/ Change(a)
                               \/ Confirm(a)
                               \/ Doubt(a)
                               \/ Close(a)
        \/ \E l \in Logins : Contest(l)

Spec == Init /\ [][Next]_bookVars

-----------------------------------------------------------------------------
\* A login that was never contested has one active account at most.
OneAccountPerLogin ==
    \A a, b \in Accounts :
        /\ account[a] = "active"
        /\ account[b] = "active"
        /\ LoginOf[a] = LoginOf[b]
        /\ LoginOf[a] \notin contested
        => a = b

\* What the owner knows opens the account.
KnownOpens == \A a \in Accounts : known[a] \in {secret[a], Nothing}
=============================================================================
