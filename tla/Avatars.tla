-------------------------------- MODULE Avatars --------------------------------
(***************************************************************************)
(* The avatar of one user: an object in the bucket and the column of users *)
(* that names it (setAvatar and deleteAvatar in internal/api/user.go,      *)
(* internal/filestore/filestore.go).                                       *)
(*                                                                         *)
(* Bucket and database share no transaction.  A request reads the column   *)
(* once, in userMiddleware, removes the object it read there, uploads its  *)
(* own and writes the column; other requests of the user run between these *)
(* calls, and each call may fail with or without having had its effect.    *)
(* The key of an object ends in the file name the client chose, so two     *)
(* requests may well upload under one key; the keys of two users differ.   *)
(*                                                                         *)
(* Never used, each a slip in the operator that follows it:                *)
(* RemoveForgotten, RemoveCurrent, SaveEmpty.                              *)
(***************************************************************************)
EXTENDS Naturals

CONSTANTS Requests,   \* calls of setAvatar and deleteAvatar
          Keys,       \* object keys
          KeysOf,     \* the keys a request may upload under
          NoAvatar    \* the column is NULL

ASSUME AvatarKeys == KeysOf \in [Requests -> SUBSET Keys] /\ NoAvatar \notin Keys

VARIABLES pc,         \* call a request makes next
          kind,       \* the handler that serves the request
          key,        \* the key the request uploads under
          had,        \* the avatar the request read
          column,     \* users.avatar
          objects,    \* keys present in the bucket
          beside      \* history: the requests a request found running when it began

vars == <<pc, kind, key, had, column, objects, beside>>

Kinds == {"set", "delete"}
Running == {"remove", "put", "save"}
PC == {"idle"} \cup Running \cup {"done", "failed"}

Init == /\ pc = [r \in Requests |-> "idle"]
        /\ kind = [r \in Requests |-> "set"]
        /\ key = [r \in Requests |-> NoAvatar]
        /\ had = [r \in Requests |-> NoAvatar]
        /\ column = NoAvatar
        /\ objects = {}
        /\ beside = [r \in Requests |-> {}]

Goto(r, label) == pc' = [pc EXCEPT ![r] = label]

InFlight == {s \in Requests : pc[s] \in Running}

Meet(r) == beside' = [beside EXCEPT ![r] = InFlight]

-----------------------------------------------------------------------------
\* setAvatar after userMiddleware read the user.
SetAvatar(r) ==
    /\ pc[r] = "idle"
    /\ \E k \in KeysOf[r] : key' = [key EXCEPT ![r] = k]
    /\ had' = [had EXCEPT ![r] = column]
    /\ Goto(r, IF column = NoAvatar THEN "put" ELSE "remove")
    /\ Meet(r)
    /\ UNCHANGED <<kind, column, objects>>

\* deleteAvatar after userMiddleware read the user: with no avatar it refuses.
DeleteAvatar(r) ==
    /\ pc[r] = "idle"
    /\ kind' = [kind EXCEPT ![r] = "delete"]
    /\ had' = [had EXCEPT ![r] = column]
    /\ IF column = NoAvatar
       THEN Goto(r, "done") /\ UNCHANGED beside
       ELSE Goto(r, "remove") /\ Meet(r)
    /\ UNCHANGED <<key, column, objects>>

RemoveForgotten(r) == UNCHANGED objects
RemoveCurrent(r) == objects' = objects \ {column}
\* RemoveObject of the avatar the request read; a missing one is no error.
RemoveObject(r) == objects' = objects \ {had[r]}

Remove(r) == /\ pc[r] = "remove"
             /\ RemoveObject(r)
             /\ Goto(r, IF kind[r] = "set" THEN "put" ELSE "save")
             /\ UNCHANGED <<kind, key, had, column, beside>>

\* PutObject under the request's own key, over what is there.
PutObject(r) == objects' = objects \cup {key[r]}

Put(r) == /\ pc[r] = "put"
          /\ PutObject(r)
          /\ Goto(r, "save")
          /\ UNCHANGED <<kind, key, had, column, beside>>

UpdateUserAvatar(avatar) == column' = avatar

SaveEmpty(r) == column' = IF kind[r] = "set" THEN key[r] ELSE ""
\* store.UpdateAvatar writes the user's avatar as the handler left it.
SaveColumn(r) == UpdateUserAvatar(IF kind[r] = "set" THEN key[r] ELSE NoAvatar)

Save(r) == /\ pc[r] = "save"
           /\ SaveColumn(r)
           /\ Goto(r, "done")
           /\ UNCHANGED <<kind, key, had, objects, beside>>

\* The call of a running request fails, or the process stops before it.
CallFails(r) == /\ pc[r] \in Running
                /\ Goto(r, "failed")
                /\ UNCHANGED <<kind, key, had, column, objects, beside>>

\* The call had its effect and its answer was lost: a timeout, a cancelled
\* request, or the process stopped after it.
AnswerLost(r) ==
    /\ Goto(r, "failed")
    /\ \/ pc[r] = "remove" /\ RemoveObject(r) /\ UNCHANGED column
       \/ pc[r] = "put" /\ PutObject(r) /\ UNCHANGED column
       \/ pc[r] = "save" /\ SaveColumn(r) /\ UNCHANGED objects
    /\ UNCHANGED <<kind, key, had, beside>>

Over == \A r \in Requests : pc[r] \in {"done", "failed"}
Quiet == Over /\ UNCHANGED vars

Step(r) == \/ SetAvatar(r)
           \/ DeleteAvatar(r)
           \/ Remove(r)
           \/ Put(r)
           \/ Save(r)
           \/ CallFails(r)
           \/ AnswerLost(r)

Next == (\E r \in Requests : Step(r)) \/ Quiet

Spec == Init /\ [][Next]_vars

-----------------------------------------------------------------------------
MaybeKey == Keys \cup {NoAvatar}

TypeOK == /\ pc \in [Requests -> PC]
          /\ kind \in [Requests -> Kinds]
          /\ key \in [Requests -> MaybeKey]
          /\ had \in [Requests -> MaybeKey]
          /\ column \in MaybeKey
          /\ objects \subseteq Keys
          /\ beside \in [Requests -> SUBSET Requests]

\* Two requests ran at once for a while.
Together(r, s) == r \in beside[s] \/ s \in beside[r]

Overlapped(r) == \E s \in Requests : Together(r, s)

\* No object is left behind by requests of a user that come one after another
\* and succeed: an object the column does not name was uploaded by a request
\* that has yet to write the column, failed, or ran beside another one.
StrayExplained ==
    \A k \in objects \ {column} :
        \E r \in Requests : /\ key[r] = k
                            /\ pc[r] \in {"save", "failed"} \/ Overlapped(r)

\* The column names a missing object only behind a request that set out from
\* this very avatar and removed it: one that has not yet replaced it, or failed
\* there, or ran together with the upload of the same name by another request,
\* so that it removed the new object in place of the old.  In particular updates
\* under different names never lose an avatar, nor do updates one after another
\* that succeed, also when a new avatar has the name of the old one.
DanglingExplained ==
    column \notin objects \cup {NoAvatar} =>
        \E r \in Requests :
            /\ had[r] = column
            /\ \/ pc[r] \in {"put", "save", "failed"}
               \/ \E s \in Requests : key[s] = column /\ Together(r, s)
=============================================================================
