----------------------------- MODULE AccountsProofs -----------------------------
(***************************************************************************)
(* Theorems about Accounts for any sets of requests, logins and passwords. *)
(***************************************************************************)
EXTENDS Accounts, TLAPS

\* The groups of variables and the statements are transparent in every proof below.
USE DEF request, users, history, CreateUser, GetUserByID, GetUserByLogin,
        UpdateUser, UpdateUserPassword, SoftDelete

-----------------------------------------------------------------------------
(* Type correctness *)

LEMMA HashType == ASSUME NEW p \in Passwords PROVE HashOf(p) \in Hashes
BY AccountPasswords DEF HashOf, Hashes

\* A request in one of these labels carries a password.
PassChosen ==
    \A r \in Requests : pc[r] \in {"check", "insert", "update", "answer"} =>
                            pass[r] \in Passwords

Typed == TypeOK /\ PassChosen

LEMMA TypeInit == Init => Typed
BY DEF Init, Typed, TypeOK, PassChosen, PC, Hashes

LEMMA TypeStep == Typed /\ [Next]_vars => Typed'
<1> SUFFICES ASSUME Typed, [Next]_vars PROVE Typed'
  OBVIOUS
<1> USE AccountLogins DEF Typed, TypeOK, PassChosen, PC, Goto
<1>1. ASSUME NEW r \in Requests, Register(r) PROVE Typed'
  BY <1>1 DEF Register
<1>2. ASSUME NEW r \in Requests, CreateByAdmin(r) PROVE Typed'
  BY <1>2 DEF CreateByAdmin
<1>3. ASSUME NEW r \in Requests, CheckLogin(r) PROVE Typed'
  BY <1>3 DEF CheckLogin
<1>4. ASSUME NEW r \in Requests, InsertUser(r) PROVE Typed'
  <2>1. HashOf(pass[r]) \in Hashes
    BY <1>4, HashType DEF InsertUser
  <2> QED
    BY <1>4, <2>1 DEF InsertUser
<1>5. ASSUME NEW r \in Requests, ChangePassword(r) PROVE Typed'
  <2>1. \A a \in Requests : Finished(a) \subseteq Requests
    BY DEF Finished
  <2> QED
    BY <1>5, <2>1 DEF ChangePassword
<1>6. ASSUME NEW r \in Requests, SavePassword(r) PROVE Typed'
  <2>1. HashOf(pass[r]) \in Hashes
    BY <1>6, HashType DEF SavePassword
  <2> QED
    BY <1>6, <2>1 DEF SavePassword
<1>7. ASSUME NEW r \in Requests, LoadUser(r) PROVE Typed'
  BY <1>7 DEF LoadUser
<1>8. ASSUME NEW r \in Requests, SaveName(r) \/ DeleteUser(r) PROVE Typed'
  BY <1>8 DEF SaveName, DeleteUser
<1>9. ASSUME NEW r \in Requests, Answer(r) \/ CallFails(r) PROVE Typed'
  BY <1>9 DEF Answer, CallFails
<1>10. CASE UNCHANGED vars
  BY <1>10 DEF vars
<1> QED
  BY <1>1, <1>2, <1>3, <1>4, <1>5, <1>6, <1>7, <1>8, <1>9, <1>10
     DEF Next, Step, Quiet

LEMMA AlwaysTyped == Spec => []Typed
BY TypeInit, TypeStep, PTL DEF Spec

\* The variables keep their types: every stored hash is that of a password or
\* the empty string.
THEOREM TypeCorrect == Spec => []TypeOK
BY AlwaysTyped, PTL DEF Typed

-----------------------------------------------------------------------------
(* One account per login *)

\* While a request that found its login free is about to insert it, there is no
\* account of that login and no other such request, unless the login is raced.
UniqueInv ==
    /\ UniqueUnlessRaced
    /\ \A r \in Requests :
           pc[r] = "insert" /\ LoginOf[r] \notin raced =>
               /\ ~Taken(LoginOf[r])
               /\ \A s \in Requests :
                      pc[s] = "insert" /\ LoginOf[s] = LoginOf[r] => s = r

LEMMA UniqueStep == Typed /\ UniqueInv /\ [Next]_vars => UniqueInv'
<1> SUFFICES ASSUME Typed, UniqueInv, [Next]_vars PROVE UniqueInv'
  OBVIOUS
<1> USE DEF Typed, TypeOK, UniqueInv, UniqueUnlessRaced, Taken, Goto
<1>1. ASSUME NEW r \in Requests, Register(r) \/ CreateByAdmin(r)
      PROVE  UniqueInv'
  BY <1>1 DEF Register, CreateByAdmin
<1>2. ASSUME NEW r \in Requests, CheckLogin(r) PROVE UniqueInv'
  BY <1>2 DEF CheckLogin
<1>3. ASSUME NEW r \in Requests, InsertUser(r) PROVE UniqueInv'
  BY <1>3 DEF InsertUser
<1>4. ASSUME NEW r \in Requests, ChangePassword(r) \/ LoadUser(r)
      PROVE  UniqueInv'
  BY <1>4 DEF ChangePassword, LoadUser
<1>5. ASSUME NEW r \in Requests, SavePassword(r) \/ SaveName(r) \/ Answer(r)
      PROVE  UniqueInv'
  BY <1>5 DEF SavePassword, SaveName, Answer
<1>6. ASSUME NEW r \in Requests, DeleteUser(r) \/ CallFails(r)
      PROVE  UniqueInv'
  BY <1>6 DEF DeleteUser, CallFails
<1>7. CASE UNCHANGED vars
  BY <1>7 DEF vars
<1> QED
  BY <1>1, <1>2, <1>3, <1>4, <1>5, <1>6, <1>7 DEF Next, Step, Quiet

LEMMA UniqueInit == Init => UniqueInv
BY DEF Init, UniqueInv, UniqueUnlessRaced

\* Without a UNIQUE constraint, a login has two active accounts only if two
\* requests found it free at the same time.
THEOREM LoginsUnique == Spec => []UniqueUnlessRaced
BY AlwaysTyped, UniqueInit, UniqueStep, PTL DEF Spec, UniqueInv

-----------------------------------------------------------------------------
(* The confirmed password *)

\* An account does not exist before the request that makes it inserts it, and
\* nobody else is about to set its password until then; what is about to be
\* confirmed is the password of an account that exists.
Ownership ==
    \A r \in Requests :
        /\ pc[r] \in {"idle", "check", "insert"} =>
               target[r] = r /\ account[r] = "none"
        /\ target[r] # r => account[target[r]] # "none"
        /\ pc[r] \in {"update", "rename", "delete"} => target[r] # r
        /\ pc[r] = "answer" => account[target[r]] # "none"

\* One request at a time sets the password of an account whose owner is not
\* unsure, and when it is about to confirm, what it confirms is stored.
KeptInv ==
    /\ Ownership
    /\ PasswordKept
    /\ \A r, s \in Requests :
           /\ pc[r] \in {"update", "answer"}
           /\ pc[s] \in {"update", "answer"}
           /\ target[r] = target[s]
           /\ target[r] \notin unsure
           => r = s
    /\ \A r \in Requests :
           pc[r] = "answer" /\ target[r] \notin unsure =>
               hash[target[r]] = HashOf(pass[r])

LEMMA OwnershipStep == Typed /\ Ownership /\ [Next]_vars => Ownership'
<1> SUFFICES ASSUME Typed, Ownership, [Next]_vars PROVE Ownership'
  OBVIOUS
<1> USE DEF Typed, TypeOK, Ownership, Goto
<1>1. ASSUME NEW r \in Requests, Register(r) \/ CreateByAdmin(r) \/ CheckLogin(r)
      PROVE  Ownership'
  BY <1>1 DEF Register, CreateByAdmin, CheckLogin
<1>2. ASSUME NEW r \in Requests, InsertUser(r) PROVE Ownership'
  BY <1>2 DEF InsertUser
<1>3. ASSUME NEW r \in Requests, ChangePassword(r) \/ LoadUser(r)
      PROVE  Ownership'
  BY <1>3 DEF ChangePassword, LoadUser
<1>4. ASSUME NEW r \in Requests, SavePassword(r) \/ SaveName(r) \/ DeleteUser(r)
      PROVE  Ownership'
  BY <1>4 DEF SavePassword, SaveName, DeleteUser
<1>5. ASSUME NEW r \in Requests, Answer(r) \/ CallFails(r) PROVE Ownership'
  BY <1>5 DEF Answer, CallFails
<1>6. CASE UNCHANGED vars
  BY <1>6 DEF vars
<1> QED
  BY <1>1, <1>2, <1>3, <1>4, <1>5, <1>6 DEF Next, Step, Quiet

LEMMA KeptStep == Typed /\ KeptInv /\ [Next]_vars => KeptInv'
<1> SUFFICES ASSUME Typed, KeptInv, [Next]_vars PROVE KeptInv'
  OBVIOUS
<1>1. Ownership'
  BY OwnershipStep DEF KeptInv
<1> USE <1>1 DEF Typed, TypeOK, KeptInv, Ownership, PasswordKept, Setting, Goto
<1>2. ASSUME NEW r \in Requests,
             \/ Register(r) \/ CreateByAdmin(r) \/ CheckLogin(r) \/ LoadUser(r)
      PROVE  KeptInv'
  BY <1>2 DEF Register, CreateByAdmin, CheckLogin, LoadUser
<1>3. ASSUME NEW r \in Requests, InsertUser(r) PROVE KeptInv'
  BY <1>3 DEF InsertUser
<1>4. ASSUME NEW r \in Requests, ChangePassword(r) PROVE KeptInv'
  BY <1>4 DEF ChangePassword
<1>5. ASSUME NEW r \in Requests, SavePassword(r) PROVE KeptInv'
  BY <1>5 DEF SavePassword
<1>6. ASSUME NEW r \in Requests, SaveName(r) \/ DeleteUser(r) PROVE KeptInv'
  BY <1>6 DEF SaveName, DeleteUser
<1>7. ASSUME NEW r \in Requests, Answer(r) PROVE KeptInv'
  BY <1>7 DEF Answer
<1>8. ASSUME NEW r \in Requests, CallFails(r) PROVE KeptInv'
  BY <1>8 DEF CallFails
<1>9. CASE UNCHANGED vars
  BY <1>9 DEF vars
<1> QED
  BY <1>2, <1>3, <1>4, <1>5, <1>6, <1>7, <1>8, <1>9 DEF Next, Step, Quiet

LEMMA KeptInit == Init => KeptInv
BY DEF Init, KeptInv, Ownership, PasswordKept

\* No request that loaded the user before a change of the password undoes the
\* change: the owner's confirmed password stays the one that is stored.
THEOREM ConfirmedPasswordKept == Spec => []PasswordKept
BY AlwaysTyped, KeptInit, KeptStep, PTL DEF Spec, KeptInv

-----------------------------------------------------------------------------
(* Changes at once *)

\* What a change follows is over, and about the same account; a request that has
\* not begun follows nothing.
Followed ==
    /\ \A r \in Requests :
          /\ \A q \in follows[r] : pc[q] = "done" /\ target[q] = target[r]
          /\ pc[r] = "idle" => follows[r] = {}
    /\ \A q \in overruled : pc[q] = "done"

\* Request w, which no answered change followed, stored the hash of account a,
\* and nothing is about to be answered that followed it.
Stands(a, w) ==
    /\ target[w] = a
    /\ pc[w] \in {"answer", "done"}
    /\ hash[a] = HashOf(pass[w])
    /\ w \notin overruled
    /\ \A s \in Requests : pc[s] = "answer" => w \notin follows[s]

StandsInv ==
    /\ Followed
    /\ \A a \in Requests : account[a] # "none" => \E w \in Requests : Stands(a, w)

\* No request forgets its account or begins anew.
LEMMA OnceBegun ==
    ASSUME Typed, [Next]_vars
    PROVE  \A q \in Requests : pc[q] # "idle" =>
               /\ target'[q] = target[q]
               /\ pc'[q] # "idle"
               /\ pc[q] = "done" => pc'[q] = "done"
BY DEF Typed, TypeOK, Goto, Next, Step, Quiet, vars, Register, CreateByAdmin,
       CheckLogin, InsertUser, ChangePassword, SavePassword, LoadUser, SaveName,
       DeleteUser, Answer, CallFails

LEMMA FollowedStep == Typed /\ Followed /\ [Next]_vars => Followed'
<1> SUFFICES ASSUME Typed, Followed, [Next]_vars PROVE Followed'
  OBVIOUS
<1> USE DEF Typed, TypeOK, Followed, Goto
<1>1. ASSUME NEW r \in Requests, NEW q \in follows[r]
      PROVE  pc'[q] = "done" /\ target'[q] = target'[r]
  <2>1. q \in Requests /\ pc[q] = "done" /\ target[q] = target[r] /\ pc[r] # "idle"
    BY <1>1
  <2> QED
    BY <1>1, <2>1, OnceBegun
<1>2. ASSUME NEW q \in overruled PROVE pc'[q] = "done"
  <2>1. q \in Requests /\ pc[q] = "done"
    BY <1>2
  <2> QED
    BY <2>1, OnceBegun
<1>3. ASSUME NEW r \in Requests, ChangePassword(r) PROVE Followed'
  <2>1. PICK a \in Requests : /\ target' = [target EXCEPT ![r] = a]
                              /\ follows' = [follows EXCEPT ![r] = Finished(a)]
    BY <1>3 DEF ChangePassword
  <2>2. pc[r] = "idle" /\ pc' = [pc EXCEPT ![r] = "update"] /\ overruled' = overruled
    BY <1>3 DEF ChangePassword
  <2>3. \A q \in follows'[r] : pc'[q] = "done" /\ target'[q] = target'[r]
    BY <2>1, <2>2 DEF Finished
  <2>4. \A s \in Requests \ {r} : follows'[s] = follows[s] /\ pc'[s] = pc[s]
    BY <2>1, <2>2
  <2> QED
    BY <1>1, <1>2, <2>2, <2>3, <2>4
<1>4. ASSUME NEW r \in Requests, Answer(r) PROVE Followed'
  <2>1. follows' = follows /\ overruled' = overruled \cup follows[r]
    BY <1>4 DEF Answer
  <2>2. \A s \in Requests : pc'[s] = "idle" => pc[s] = "idle"
    BY <1>4 DEF Answer
  <2> QED
    BY <1>1, <1>2, <2>1, <2>2
<1>5. CASE UNCHANGED <<follows, overruled>>
  <2>1. \A s \in Requests : pc'[s] = "idle" => pc[s] = "idle"
    BY OnceBegun
  <2> QED
    BY <1>1, <1>2, <1>5, <2>1
<1> QED
  BY <1>3, <1>4, <1>5 DEF Next, Step, Quiet, vars, Register, CreateByAdmin,
     CheckLogin, InsertUser, SavePassword, LoadUser, SaveName, DeleteUser, CallFails

\* Who has just stored the hash stands.
LEMMA WriterStands ==
    ASSUME Typed, StandsInv, Ownership,
           NEW r \in Requests, InsertUser(r) \/ SavePassword(r)
    PROVE  \A a \in Requests : account'[a] # "none" => \E w \in Requests : Stands(a, w)'
<1> USE DEF Typed, TypeOK, StandsInv, Followed, Goto
<1>1. /\ pc[r] \in {"insert", "update"} /\ pc' = [pc EXCEPT ![r] = "answer"]
      /\ hash' = [hash EXCEPT ![target[r]] = HashOf(pass[r])]
      /\ \A a \in Requests \ {target[r]} : account'[a] = account[a]
      /\ UNCHANGED <<target, pass, follows, overruled>>
  BY DEF InsertUser, SavePassword, Ownership
<1>2. Stands(target[r], r)'
  <2>1. /\ target'[r] = target[r] /\ pc'[r] = "answer"
        /\ hash'[target[r]] = HashOf(pass'[r])
    BY <1>1
  <2>2. r \notin overruled'
    BY <1>1
  <2>3. \A s \in Requests : r \notin follows'[s]
    BY <1>1
  <2> QED
    BY <2>1, <2>2, <2>3 DEF Stands
<1>3. ASSUME NEW a \in Requests, a # target[r], NEW w \in Requests, Stands(a, w)
      PROVE  Stands(a, w)'
  <2>1. target[w] = a /\ pc[w] \in {"answer", "done"} /\ hash[a] = HashOf(pass[w])
    BY <1>3 DEF Stands
  <2>2. w # r /\ pc'[w] = pc[w] /\ hash'[a] = hash[a]
    BY <1>1, <1>3, <2>1
  <2>3. w \notin follows[r]
    BY <1>3, <2>1
  <2> QED
    BY <1>1, <1>3, <2>1, <2>2, <2>3 DEF Stands
<1> QED
  BY <1>1, <1>2, <1>3

\* Who stands goes on standing when nothing is stored: an answer overrules only
\* what its request followed.
LEMMA StandingStays ==
    ASSUME Typed, StandsInv, Ownership, [Next]_vars,
           ~ \E r \in Requests : InsertUser(r) \/ SavePassword(r)
    PROVE  \A a \in Requests : account'[a] # "none" => \E w \in Requests : Stands(a, w)'
<1> USE DEF Typed, TypeOK, Followed, Goto
<1>1. \A a, w \in Requests : Stands(a, w) => Stands(a, w)'
  <2> SUFFICES ASSUME NEW a \in Requests, NEW w \in Requests, Stands(a, w)
               PROVE  Stands(a, w)'
    OBVIOUS
  <2> USE DEF Stands
  <2>1. ASSUME NEW r \in Requests,
               Register(r) \/ CreateByAdmin(r) \/ CheckLogin(r) \/ LoadUser(r)
        PROVE  Stands(a, w)'
    BY <2>1 DEF Register, CreateByAdmin, CheckLogin, LoadUser
  <2>2. ASSUME NEW r \in Requests, ChangePassword(r) PROVE Stands(a, w)'
    BY <2>2 DEF ChangePassword
  <2>3. ASSUME NEW r \in Requests, SaveName(r) \/ DeleteUser(r) \/ CallFails(r)
        PROVE  Stands(a, w)'
    BY <2>3 DEF SaveName, DeleteUser, CallFails
  <2>4. ASSUME NEW r \in Requests, Answer(r) PROVE Stands(a, w)'
    BY <2>4 DEF Answer
  <2>5. CASE UNCHANGED vars
    BY <2>5 DEF vars
  <2> QED
    BY <2>1, <2>2, <2>3, <2>4, <2>5 DEF Next, Step, Quiet
<1>2. \A a \in Requests : account'[a] # "none" => account[a] # "none"
  BY DEF Ownership, Next, Step, Quiet, vars, Register, CreateByAdmin, CheckLogin,
         ChangePassword, LoadUser, SaveName, DeleteUser, Answer, CallFails
<1> QED
  BY <1>1, <1>2 DEF StandsInv

LEMMA StandsStep == Typed /\ Ownership /\ StandsInv /\ [Next]_vars => StandsInv'
BY FollowedStep, WriterStands, StandingStays DEF StandsInv

LEMMA StandsInit == Init => Ownership /\ StandsInv
BY DEF Init, Ownership, StandsInv, Followed

\* However changes of one password overlap, fail and lose their answers, a change
\* that was answered is not undone by one that was over when it began.
THEOREM AnsweredChangeStands == Spec => []LaterChangeStands
<1>1. StandsInv => LaterChangeStands
  BY DEF StandsInv, Stands, LaterChangeStands
<1> QED
  BY <1>1, AlwaysTyped, StandsInit, OwnershipStep, StandsStep, PTL DEF Spec

-----------------------------------------------------------------------------
(* Deletion *)

\* Deletion is final, under every interleaving of the handlers.
THEOREM DeletionFinal == Spec => DeletedForever
<1>1. Typed /\ Ownership /\ [Next]_vars =>
          [\A a \in Requests :
              account[a] = "deleted" => account'[a] = "deleted"]_vars
  BY DEF Typed, TypeOK, Ownership, Next, Step, Quiet, vars, Register,
         CreateByAdmin, CheckLogin, InsertUser, ChangePassword, SavePassword,
         LoadUser, SaveName, DeleteUser, Answer, CallFails
<1>2. Init => Ownership
  BY DEF Init, Ownership
<1> QED
  BY <1>1, <1>2, AlwaysTyped, OwnershipStep, PTL DEF Spec, DeletedForever

-----------------------------------------------------------------------------
(* Accounts implements AccountBook *)

\* What the owners know.
Knowledge == [a \in Requests |-> Known(a)]

LEMMA KnowledgeMapped == Book!bookVars = <<account, hash, Knowledge, raced>>
BY DEF Book!bookVars, Knowledge

\* A step that confirms nothing and neither begins nor ends a confirmation.
LEMMA KnowledgeKept ==
    ASSUME confirmed' = confirmed, unsure' = unsure,
           \A r \in Requests : /\ pc[r] = "answer" <=> pc'[r] = "answer"
                               /\ pc[r] = "answer" => target'[r] = target[r]
    PROVE  Knowledge' = Knowledge
<1>1. \A a \in Requests : Known(a)' = Known(a)
  <2> SUFFICES ASSUME NEW a \in Requests PROVE Known(a)' = Known(a)
    OBVIOUS
  <2>1. (\E r \in Setting(a) : pc[r] = "answer")'
            <=> \E r \in Setting(a) : pc[r] = "answer"
    BY DEF Setting
  <2> QED
    BY <2>1 DEF Known
<1> QED
  BY <1>1 DEF Knowledge

\* The owner of one account comes to know something else.
LEMMA KnowledgeMoves ==
    ASSUME NEW a \in Requests, NEW k, Known(a)' = k,
           \A b \in Requests : b # a => Known(b)' = Known(b)
    PROVE  Knowledge' = [Knowledge EXCEPT ![a] = k]
BY DEF Knowledge

\* What the requests of other accounts do is nothing to an owner.
LEMMA OthersKept ==
    ASSUME Typed, NEW a \in Requests, NEW b \in Requests, b # a, NEW r \in Requests,
           target[r] = a, target' = target, Goto(r, "answer") \/ Goto(r, "done"),
           confirmed'[b] = confirmed[b], b \in unsure' <=> b \in unsure
    PROVE  Known(b)' = Known(b)
<1>1. (\E s \in Setting(b) : pc[s] = "answer")'
          <=> \E s \in Setting(b) : pc[s] = "answer"
  BY DEF Setting, Goto, Typed, TypeOK
<1> QED
  BY <1>1 DEF Known

LEMMA BookStep ==
    Typed /\ UniqueInv /\ KeptInv /\ [Next]_vars => [Book!Next]_(Book!bookVars)
<1> SUFFICES ASSUME Typed, UniqueInv, KeptInv, [Next]_vars
             PROVE  Book!Next \/ UNCHANGED <<account, hash, Knowledge, raced>>
  BY KnowledgeMapped DEF Book!bookVars, Knowledge
<1> USE DEF Typed, TypeOK, Goto
<1>1. ASSUME NEW r \in Requests,
             Register(r) \/ CreateByAdmin(r) \/ LoadUser(r) \/ SaveName(r)
      PROVE  UNCHANGED <<account, hash, Knowledge, raced>>
  <2>1. Knowledge' = Knowledge
    BY <1>1, KnowledgeKept DEF Register, CreateByAdmin, LoadUser, SaveName
  <2> QED
    BY <1>1, <2>1 DEF Register, CreateByAdmin, LoadUser, SaveName
<1>2. ASSUME NEW r \in Requests, CheckLogin(r)
      PROVE  Book!Next \/ UNCHANGED <<account, hash, Knowledge, raced>>
  <2>1. Knowledge' = Knowledge
    BY <1>2, KnowledgeKept DEF CheckLogin
  <2>2. raced' = raced \/ raced' = raced \cup {LoginOf[r]}
    BY <1>2 DEF CheckLogin
  <2>3. account' = account /\ hash' = hash
    BY <1>2 DEF CheckLogin
  <2>4. LoginOf[r] \in Logins
    BY AccountLogins
  <2> QED
    BY <2>1, <2>2, <2>3, <2>4 DEF Book!Next, Book!Contest, Knowledge
<1>3. ASSUME NEW r \in Requests, InsertUser(r)
      PROVE  Book!Next
  <2>1. target[r] = r /\ account[r] = "none"
    BY <1>3 DEF InsertUser, KeptInv, Ownership
  <2>2. Known(r)' = NoPassword
    <3>1. r \in Setting(r)' /\ pc'[r] = "answer"
      BY <1>3, <2>1 DEF InsertUser, Setting
    <3> QED
      BY <3>1 DEF Known
  <2>3. \A b \in Requests : b # r => Known(b)' = Known(b)
    BY <1>3, <2>1, OthersKept DEF InsertUser
  <2>4. Knowledge' = [Knowledge EXCEPT ![r] = NoPassword]
    BY <2>2, <2>3, KnowledgeMoves
  <2>5. Book!Free(LoginOf[r]) \/ LoginOf[r] \in raced
    BY <1>3 DEF InsertUser, UniqueInv, Taken, Book!Free
  <2>6. HashOf(pass[r]) \in Hashes
    BY <1>3, HashType DEF InsertUser, PassChosen
  <2>7. Book!Open(r)
    BY <1>3, <2>1, <2>4, <2>5, <2>6 DEF InsertUser, Book!Open, Knowledge
  <2> QED
    BY <2>7 DEF Book!Next
<1>4. ASSUME NEW r \in Requests, ChangePassword(r)
      PROVE  Book!Next \/ UNCHANGED <<account, hash, Knowledge, raced>>
  <2>1. PICK a \in Requests :
          /\ target' = [target EXCEPT ![r] = a]
          /\ unsure' = IF Setting(a) = {} THEN unsure ELSE unsure \cup {a}
    BY <1>4 DEF ChangePassword
  <2>2. /\ pc[r] = "idle" /\ pc' = [pc EXCEPT ![r] = "update"]
        /\ confirmed' = confirmed /\ account' = account /\ hash' = hash
        /\ raced' = raced
    BY <1>4 DEF ChangePassword
  <2>3. CASE unsure' = unsure
    <3>1. Knowledge' = Knowledge
      BY <2>1, <2>2, <2>3, KnowledgeKept
    <3> QED
      BY <2>2, <3>1
  <2>4. CASE unsure' = unsure \cup {a}
    <3>1. Known(a)' = NoPassword
      BY <2>4 DEF Known
    <3>2. \A b \in Requests : b # a => Known(b)' = Known(b)
      <4> SUFFICES ASSUME NEW b \in Requests, b # a PROVE Known(b)' = Known(b)
        OBVIOUS
      <4>1. (\E s \in Setting(b) : pc[s] = "answer")'
                <=> \E s \in Setting(b) : pc[s] = "answer"
        BY <2>1, <2>2 DEF Setting
      <4> QED
        BY <2>2, <2>4, <4>1 DEF Known
    <3>3. Knowledge' = [Knowledge EXCEPT ![a] = NoPassword]
      BY <3>1, <3>2, KnowledgeMoves
    <3>4. Book!Doubt(a)
      BY <2>2, <3>3 DEF Book!Doubt, Knowledge
    <3> QED
      BY <3>4 DEF Book!Next
  <2> QED
    BY <2>1, <2>3, <2>4
<1>5. ASSUME NEW r \in Requests, SavePassword(r)
      PROVE  Book!Next
  <2>1. PICK a \in Requests : a = target[r] /\ account[a] # "none"
    BY <1>5 DEF SavePassword, KeptInv, Ownership
  <2>2. Known(a)' = NoPassword
    <3>1. r \in Setting(a)' /\ pc'[r] = "answer"
      BY <1>5, <2>1 DEF SavePassword, Setting
    <3> QED
      BY <3>1 DEF Known
  <2>3. \A b \in Requests : b # a => Known(b)' = Known(b)
    BY <1>5, <2>1, OthersKept DEF SavePassword
  <2>4. Knowledge' = [Knowledge EXCEPT ![a] = NoPassword]
    BY <2>1, <2>2, <2>3, KnowledgeMoves
  <2>5. HashOf(pass[r]) \in Hashes
    BY <1>5, HashType DEF SavePassword, PassChosen
  <2>6. Book!Change(a)
    BY <1>5, <2>1, <2>4, <2>5 DEF SavePassword, Book!Change, Knowledge
  <2> QED
    BY <2>1, <2>6 DEF Book!Next
<1>6. ASSUME NEW r \in Requests, DeleteUser(r)
      PROVE  Book!Next
  <2>1. Knowledge' = Knowledge
    BY <1>6, KnowledgeKept DEF DeleteUser
  <2>2. target[r] \in Requests /\ account[target[r]] # "none"
    BY <1>6 DEF DeleteUser, KeptInv, Ownership
  <2>3. Book!Close(target[r])
    BY <1>6, <2>1, <2>2 DEF DeleteUser, Book!Close, Knowledge
  <2> QED
    BY <2>2, <2>3 DEF Book!Next
<1>7. ASSUME NEW r \in Requests, Answer(r)
      PROVE  Book!Next
  <2>1. PICK a \in Requests : a = target[r] /\ account[a] # "none"
    BY <1>7 DEF Answer, KeptInv, Ownership
  <2>2. \A b \in Requests : b # a => Known(b)' = Known(b)
    BY <1>7, <2>1, OthersKept DEF Answer
  <2>3. CASE a \in unsure
    <3>1. Known(a)' = NoPassword
      BY <1>7, <2>3 DEF Answer, Known
    <3>2. Book!Doubt(a)
      BY <1>7, <2>1, <2>2, <3>1, KnowledgeMoves DEF Answer, Book!Doubt, Knowledge
    <3> QED
      BY <2>1, <3>2 DEF Book!Next
  <2>4. CASE a \notin unsure
    <3>1. hash[a] = HashOf(pass[r])
      BY <1>7, <2>1, <2>4 DEF Answer, KeptInv
    <3>2. ~(\E s \in Setting(a) : pc[s] = "answer")'
      BY <1>7, <2>1, <2>4 DEF Answer, Setting, KeptInv
    <3>3. pass[r] \in Passwords /\ pass[r] # NoPassword
      BY <1>7, AccountPasswords DEF Answer, PassChosen
    <3>4. Known(a)' = hash[a]
      BY <1>7, <2>1, <2>4, <3>1, <3>2, <3>3 DEF Answer, Known, HashOf
    <3>5. Book!Confirm(a)
      BY <1>7, <2>1, <2>2, <3>4, KnowledgeMoves
         DEF Answer, Book!Confirm, Knowledge
    <3> QED
      BY <2>1, <3>5 DEF Book!Next
  <2> QED
    BY <2>3, <2>4
<1>8. ASSUME NEW r \in Requests, CallFails(r)
      PROVE  UNCHANGED <<account, hash, Knowledge, raced>>
  <2>1. CASE pc[r] = "answer"
    <3>1. Known(target[r])' = NoPassword /\ Known(target[r]) = NoPassword
      BY <1>8, <2>1 DEF CallFails, Known, Setting
    <3>2. \A b \in Requests : b # target[r] => Known(b)' = Known(b)
      BY <1>8, <2>1, OthersKept DEF CallFails
    <3> QED
      BY <1>8, <3>1, <3>2 DEF CallFails, Knowledge
  <2>2. CASE pc[r] # "answer"
    <3>1. Knowledge' = Knowledge
      BY <1>8, <2>2, KnowledgeKept DEF CallFails
    <3> QED
      BY <1>8, <3>1 DEF CallFails
  <2> QED
    BY <2>1, <2>2
<1>9. CASE UNCHANGED vars
  BY <1>9 DEF vars, Knowledge, Known, Setting
<1> QED
  BY <1>1, <1>2, <1>3, <1>4, <1>5, <1>6, <1>7, <1>8, <1>9 DEF Next, Step, Quiet

\* Registrations, changes, renames and deletions that interleave at every store
\* call amount to opening an account under a free login (unless it was
\* contested), changing its secret, confirming what is stored, and closing it for
\* good: nothing a request read before another wrote makes anything else happen.
THEOREM ImplementsBook == Spec => BookSpec
<1>1. Init => Book!Init
  BY DEF Init, Book!Init, Hashes, Known
<1> QED
  BY <1>1, BookStep, AlwaysTyped, UniqueInit, UniqueStep, KeptInit, KeptStep, PTL
     DEF Spec, BookSpec, Book!Spec

LEMMA BookInvariants ==
    ASSUME Typed, Book!OneAccountPerLogin, Book!KnownOpens,
           [Book!Next]_(Book!bookVars)
    PROVE  Book!OneAccountPerLogin' /\ Book!KnownOpens'
<1> USE DEF Typed, TypeOK, Book!OneAccountPerLogin, Book!KnownOpens
<1>1. ASSUME NEW a \in Requests, Book!Open(a)
      PROVE  Book!OneAccountPerLogin' /\ Book!KnownOpens'
  BY <1>1 DEF Book!Open, Book!Free
<1>2. ASSUME NEW a \in Requests, Book!Change(a)
      PROVE  Book!OneAccountPerLogin' /\ Book!KnownOpens'
  BY <1>2 DEF Book!Change
<1>3. ASSUME NEW a \in Requests, Book!Confirm(a) \/ Book!Doubt(a)
      PROVE  Book!OneAccountPerLogin' /\ Book!KnownOpens'
  BY <1>3 DEF Book!Confirm, Book!Doubt
<1>4. ASSUME NEW a \in Requests, Book!Close(a)
      PROVE  Book!OneAccountPerLogin' /\ Book!KnownOpens'
  BY <1>4 DEF Book!Close
<1>5. ASSUME NEW l \in Logins, Book!Contest(l)
      PROVE  Book!OneAccountPerLogin' /\ Book!KnownOpens'
  BY <1>5 DEF Book!Contest
<1>6. CASE UNCHANGED Book!bookVars
  BY <1>6 DEF Book!bookVars
<1> QED
  BY <1>1, <1>2, <1>3, <1>4, <1>5, <1>6 DEF Book!Next

\* Inherited from the book: a login that was never contested has one active
\* account, and what an owner was told opens the account.
THEOREM BookHolds == Spec => [](Book!OneAccountPerLogin /\ Book!KnownOpens)
<1>1. Init => Book!OneAccountPerLogin /\ Book!KnownOpens
  BY DEF Init, Book!OneAccountPerLogin, Book!KnownOpens, Known
<1> QED
  BY <1>1, BookStep, BookInvariants, AlwaysTyped, UniqueInit, UniqueStep,
     KeptInit, KeptStep, PTL DEF Spec

-----------------------------------------------------------------------------
(* What UniqueLogin lacks: the look-up and the insertion are two statements *)

\* No two requests with login l stand between them at once.
InTurn(l) ==
    \A r, s \in Requests :
        /\ pc[r] = "insert" /\ pc[s] = "insert"
        /\ LoginOf[r] = l /\ LoginOf[s] = l
        => r = s

UniqueFor(l) ==
    \A a, b \in Requests :
        /\ account[a] = "active" /\ account[b] = "active"
        /\ LoginOf[a] = l /\ LoginOf[b] = l
        => a = b

Unraced(l) == l \notin raced

LEMMA UnracedStep ==
    ASSUME NEW l \in Logins
    PROVE  Typed /\ Unraced(l) /\ InTurn(l)' /\ [Next]_vars => Unraced(l)'
<1> SUFFICES ASSUME Typed, Unraced(l), InTurn(l)', [Next]_vars
             PROVE  Unraced(l)'
  OBVIOUS
<1>1. ASSUME NEW r \in Requests, CheckLogin(r) PROVE Unraced(l)'
  <2>1. CASE raced' = raced
    BY <2>1 DEF Unraced
  <2>2. CASE raced' # raced
    <3>1. /\ raced' = raced \cup {LoginOf[r]}
          /\ pc[r] = "check" /\ Goto(r, "insert")
      BY <1>1, <2>2 DEF CheckLogin
    <3>2. PICK s \in Requests : pc[s] = "insert" /\ LoginOf[s] = LoginOf[r]
      BY <1>1, <2>2 DEF CheckLogin
    <3>3. pc'[r] = "insert" /\ pc'[s] = "insert" /\ r # s
      BY <3>1, <3>2 DEF Goto, Typed, TypeOK
    <3>4. LoginOf[r] # l
      BY <3>2, <3>3 DEF InTurn
    <3> QED
      BY <3>1, <3>4 DEF Unraced
  <2> QED
    BY <2>1, <2>2
<1>2. raced' = raced \/ \E r \in Requests : CheckLogin(r)
  BY DEF Next, Step, Quiet, vars, Register, CreateByAdmin, InsertUser,
         ChangePassword, SavePassword, LoadUser, SaveName, DeleteUser, Answer,
         CallFails
<1> QED
  BY <1>1, <1>2 DEF Unraced

\* A login whose registrations pass the two statements one at a time has one
\* active account, although no constraint of the database says so, and whatever
\* is deleted, fails or is registered for other logins meanwhile.
THEOREM LoginsUniqueInTurn ==
    ASSUME NEW l \in Logins
    PROVE  Spec /\ []InTurn(l) => []UniqueFor(l)
<1>1. Init => Unraced(l)
  BY DEF Init, Unraced
<1>2. Typed /\ Unraced(l) /\ InTurn(l)' /\ [Next]_vars => Unraced(l)'
  BY UnracedStep
<1>3. UniqueUnlessRaced /\ Unraced(l) => UniqueFor(l)
  BY DEF UniqueUnlessRaced, Unraced, UniqueFor
<1> QED
  BY <1>1, <1>2, <1>3, AlwaysTyped, LoginsUnique, PTL DEF Spec

-----------------------------------------------------------------------------
(* What PasswordUsable lacks: a password may be refused by bcrypt *)

NoneTooLong == \A r \in Requests : pass[r] \notin TooLong

\* An account has a hash that a password matches from its insertion on, and
\* nothing is confirmed before.
UsableInv ==
    \A a \in Requests :
        /\ account[a] # "none" => hash[a] # NoHash
        /\ confirmed[a] # NoPassword => account[a] # "none"

LEMMA UsableStep ==
    Typed /\ Ownership /\ NoneTooLong /\ UsableInv /\ [Next]_vars => UsableInv'
<1> SUFFICES ASSUME Typed, Ownership, NoneTooLong, UsableInv, [Next]_vars
             PROVE  UsableInv'
  OBVIOUS
<1> USE DEF Typed, TypeOK, UsableInv, Goto
<1>1. ASSUME NEW r \in Requests, InsertUser(r) \/ SavePassword(r)
      PROVE  UsableInv'
  <2>1. pass[r] \in Passwords /\ pass[r] \notin TooLong
    BY <1>1 DEF InsertUser, SavePassword, PassChosen, NoneTooLong
  <2>2. HashOf(pass[r]) # NoHash
    BY <2>1, AccountPasswords DEF HashOf
  <2> QED
    BY <1>1, <2>2 DEF InsertUser, SavePassword
<1>2. ASSUME NEW r \in Requests, DeleteUser(r) PROVE UsableInv'
  BY <1>2 DEF DeleteUser, Ownership
<1>3. ASSUME NEW r \in Requests, Answer(r) PROVE UsableInv'
  BY <1>3 DEF Answer, Ownership
<1>4. CASE UNCHANGED <<users, confirmed>>
  BY <1>4
<1> QED
  BY <1>1, <1>2, <1>3, <1>4 DEF Next, Step, Quiet, vars, Register, CreateByAdmin,
     CheckLogin, ChangePassword, LoadUser, SaveName, CallFails

\* A confirmed password leaves an account that can be opened as long as nobody
\* chooses a password of over 72 bytes: the ignored error of HashPass is the
\* only way to an empty hash.
THEOREM PasswordsUsable == Spec /\ []NoneTooLong => []PasswordUsable
<1>1. Init => Ownership /\ UsableInv
  BY DEF Init, Ownership, UsableInv
<1>2. UsableInv => PasswordUsable
  BY DEF UsableInv, PasswordUsable
<1> QED
  BY <1>1, <1>2, AlwaysTyped, OwnershipStep, UsableStep, PTL DEF Spec
=============================================================================
