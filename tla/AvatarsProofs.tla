----------------------------- MODULE AvatarsProofs -----------------------------
(***************************************************************************)
(* Theorems about Avatars for any number of requests and any file names.   *)
(***************************************************************************)
EXTENDS Avatars, TLAPS

USE DEF UpdateUserAvatar

-----------------------------------------------------------------------------
(* Type correctness *)

\* A request that has not begun has read and met nothing; only setAvatar carries
\* a key, and every request of it that has begun does.
KeyChosen ==
    \A r \in Requests :
        /\ pc[r] = "idle" => /\ kind[r] = "set"
                             /\ key[r] = NoAvatar
                             /\ had[r] = NoAvatar
                             /\ beside[r] = {}
        /\ kind[r] = "delete" => pc[r] # "put" /\ key[r] = NoAvatar
        /\ kind[r] = "set" /\ pc[r] # "idle" => key[r] \in KeysOf[r]

Typed == TypeOK /\ KeyChosen

LEMMA TypeInit == Init => Typed
BY DEF Init, Typed, TypeOK, KeyChosen, PC, Kinds, MaybeKey

LEMMA ChosenKeys == \A r \in Requests : KeysOf[r] \subseteq Keys
BY AvatarKeys

LEMMA TypeStep == Typed /\ [Next]_vars => Typed'
<1> SUFFICES ASSUME Typed, [Next]_vars PROVE Typed'
  OBVIOUS
<1> USE ChosenKeys
    DEF Typed, TypeOK, KeyChosen, PC, Running, Kinds, MaybeKey, Goto
<1>1. ASSUME NEW r \in Requests, SetAvatar(r) PROVE Typed'
  BY <1>1 DEF SetAvatar, Meet, InFlight
<1>2. ASSUME NEW r \in Requests, DeleteAvatar(r) PROVE Typed'
  BY <1>2 DEF DeleteAvatar, Meet, InFlight
<1>3. ASSUME NEW r \in Requests, Remove(r) PROVE Typed'
  BY <1>3 DEF Remove, RemoveObject
<1>4. ASSUME NEW r \in Requests, Put(r) PROVE Typed'
  <2>1. key[r] \in Keys
    BY <1>4 DEF Put
  <2> QED
    BY <1>4, <2>1 DEF Put, PutObject
<1>5. ASSUME NEW r \in Requests, Save(r) PROVE Typed'
  BY <1>5 DEF Save, SaveColumn
<1>6. ASSUME NEW r \in Requests, CallFails(r) PROVE Typed'
  BY <1>6 DEF CallFails
<1>7. ASSUME NEW r \in Requests, AnswerLost(r) PROVE Typed'
  <2>1. pc[r] = "put" => key[r] \in Keys
    BY <1>7 DEF AnswerLost
  <2> QED
    BY <1>7, <2>1 DEF AnswerLost, RemoveObject, PutObject, SaveColumn
<1>8. CASE UNCHANGED vars
  BY <1>8 DEF vars
<1> QED
  BY <1>1, <1>2, <1>3, <1>4, <1>5, <1>6, <1>7, <1>8 DEF Next, Step, Quiet

LEMMA AlwaysTyped == Spec => []Typed
BY TypeInit, TypeStep, PTL DEF Spec

\* The variables keep their types; in particular the bucket and the column hold
\* nothing but keys some request chose.
THEOREM TypeCorrect == Spec => []TypeOK
BY AlwaysTyped, PTL DEF Typed

-----------------------------------------------------------------------------
(* Requests that ran at once *)

LEMMA BesideGrows ==
    ASSUME Typed, NEW r \in Requests, SetAvatar(r) \/ DeleteAvatar(r)
    PROVE  /\ \A q \in Requests : beside[q] \subseteq beside'[q]
           /\ \A q, s \in Requests : Together(q, s) => Together(q, s)'
           /\ \A q \in Requests : Overlapped(q) => Overlapped(q)'
<1>1. \A q \in Requests : beside[q] \subseteq beside'[q]
  BY DEF SetAvatar, DeleteAvatar, Meet, Typed, TypeOK, KeyChosen
<1>2. \A q, s \in Requests : Together(q, s) => Together(q, s)'
  BY <1>1 DEF Together
<1> QED
  BY <1>1, <1>2 DEF Overlapped

-----------------------------------------------------------------------------
(* Objects left behind *)

\* Two running requests have met.
Met == \A r, s \in Requests :
           r # s /\ pc[r] \in Running /\ pc[s] \in Running => Together(r, s)

\* The uploader of k is already excused for leaving it behind.
Excused(k) ==
    \E q \in Requests : key[q] = k /\ (pc[q] = "failed" \/ Overlapped(q))

\* The object the column names is the one request r set out to remove, the one
\* it has uploaded itself, or one whose uploader is excused: r may therefore
\* write the column.
Replaceable(r) ==
    \/ column \notin objects
    \/ pc[r] = "remove" /\ had[r] = column
    \/ pc[r] = "save" /\ key[r] = column
    \/ Excused(column)

StrayInv == /\ Met
            /\ StrayExplained
            /\ \A r \in Requests : pc[r] \in Running => Replaceable(r)

LEMMA MetStep == Typed /\ Met /\ [Next]_vars => Met'
<1> SUFFICES ASSUME Typed, Met, [Next]_vars PROVE Met'
  OBVIOUS
<1> USE DEF Typed, TypeOK, Met, Running, Goto, Together
<1>1. ASSUME NEW r \in Requests, SetAvatar(r) PROVE Met'
  BY <1>1 DEF SetAvatar, Meet, InFlight
<1>2. ASSUME NEW r \in Requests, DeleteAvatar(r) PROVE Met'
  BY <1>2 DEF DeleteAvatar, Meet, InFlight
<1>3. ASSUME NEW r \in Requests, Remove(r) PROVE Met'
  BY <1>3 DEF Remove
<1>4. ASSUME NEW r \in Requests, Put(r) \/ Save(r) PROVE Met'
  BY <1>4 DEF Put, Save
<1>5. ASSUME NEW r \in Requests, CallFails(r) \/ AnswerLost(r) PROVE Met'
  BY <1>5 DEF CallFails, AnswerLost
<1>6. CASE UNCHANGED vars
  BY <1>6 DEF vars
<1> QED
  BY <1>1, <1>2, <1>3, <1>4, <1>5, <1>6 DEF Next, Step, Quiet

\* Steps that begin a request change neither the bucket nor the column.
LEMMA StrayBegin ==
    ASSUME Typed, StrayInv, NEW r \in Requests, SetAvatar(r) \/ DeleteAvatar(r)
    PROVE  (StrayExplained /\ \A s \in Requests :
                pc[s] \in Running => Replaceable(s))'
<1> USE DEF Typed, TypeOK, KeyChosen, Goto, Running, StrayInv
<1>1. pc[r] = "idle" /\ key[r] = NoAvatar /\ UNCHANGED <<column, objects>>
  BY DEF SetAvatar, DeleteAvatar
<1>2. \A q \in Requests \ {r} : key'[q] = key[q] /\ pc'[q] = pc[q] /\ had'[q] = had[q]
  BY DEF SetAvatar, DeleteAvatar
<1>3. \A q \in Requests : Overlapped(q) => Overlapped(q)'
  BY BesideGrows
<1>4. \A k \in objects : k # NoAvatar
  BY AvatarKeys
<1>5. ASSUME NEW k \in objects, Excused(k) PROVE Excused(k)'
  BY <1>1, <1>2, <1>3, <1>4, <1>5 DEF Excused
<1>6. StrayExplained'
  BY <1>1, <1>2, <1>3, <1>4 DEF StrayExplained
<1>7. ASSUME NEW s \in Requests, pc'[s] \in Running PROVE Replaceable(s)'
  <2>1. CASE s # r
    BY <1>1, <1>2, <1>5, <1>7, <2>1 DEF Replaceable
  <2>2. CASE s = r /\ column = NoAvatar
    BY <1>1, <1>4, <2>2 DEF Replaceable
  <2>3. CASE s = r /\ column # NoAvatar
    <3>1. pc'[r] = "remove" /\ had'[r] = column
      BY <1>7, <2>3 DEF SetAvatar, DeleteAvatar
    <3> QED
      BY <1>1, <2>3, <3>1 DEF Replaceable
  <2> QED
    BY <2>1, <2>2, <2>3
<1> QED
  BY <1>6, <1>7

\* A step of a running request changes only where that request is.
LEMMA WorkFrame ==
    ASSUME Typed, NEW r \in Requests,
           \/ Remove(r) \/ Put(r) \/ Save(r) \/ CallFails(r) \/ AnswerLost(r)
    PROVE  /\ pc[r] \in Running
           /\ UNCHANGED <<kind, key, had, beside>>
           /\ \A q \in Requests \ {r} : pc'[q] = pc[q]
BY DEF Typed, TypeOK, Running, Goto, Remove, Put, Save, CallFails, AnswerLost

\* What the step does to the bucket and to the column, and where it leads.
LEMMA WorkEffect ==
    ASSUME Typed, NEW r \in Requests,
           \/ Remove(r) \/ Put(r) \/ Save(r) \/ CallFails(r) \/ AnswerLost(r)
    PROVE  \/ /\ UNCHANGED <<column, objects>>
              /\ pc'[r] = "failed"
           \/ /\ pc[r] = "remove"
              /\ UNCHANGED column
              /\ objects' = objects \ {had[r]}
              /\ pc'[r] \in {"put", "save", "failed"}
           \/ /\ pc[r] = "put"
              /\ UNCHANGED column
              /\ objects' = objects \cup {key[r]}
              /\ pc'[r] \in {"save", "failed"}
           \/ /\ pc[r] = "save"
              /\ UNCHANGED objects
              /\ column' = IF kind[r] = "set" THEN key[r] ELSE NoAvatar
              /\ pc'[r] \in {"done", "failed"}
BY DEF Typed, TypeOK, Goto, Remove, Put, Save, CallFails, AnswerLost,
       RemoveObject, PutObject, SaveColumn, Running

\* setAvatar uploads between the removal and the column.
LEMMA SetRemovesThenPuts ==
    ASSUME Typed, NEW r \in Requests, pc[r] = "remove", kind[r] = "set",
           \/ Remove(r) \/ Put(r) \/ Save(r) \/ CallFails(r) \/ AnswerLost(r)
    PROVE  pc'[r] \in {"put", "failed"}
BY DEF Typed, TypeOK, Goto, Remove, Put, Save, CallFails, AnswerLost

LEMMA StrayWork ==
    ASSUME Typed, StrayInv, NEW r \in Requests,
           \/ Remove(r) \/ Put(r) \/ Save(r) \/ CallFails(r) \/ AnswerLost(r)
    PROVE  (StrayExplained /\ \A s \in Requests :
                pc[s] \in Running => Replaceable(s))'
<1> USE DEF StrayInv
<1>1. /\ pc[r] \in Running
      /\ UNCHANGED <<kind, key, had, beside>>
      /\ \A q \in Requests \ {r} : pc'[q] = pc[q]
  BY WorkFrame
<1>0. \A q \in Requests : Overlapped(q)' <=> Overlapped(q)
  BY <1>1 DEF Overlapped, Together
<1>2. pc \in [Requests -> PC] /\ pc[r] # "failed"
  BY <1>1 DEF Typed, TypeOK, Running
<1>3. \A k \in objects : k # NoAvatar
  BY AvatarKeys DEF Typed, TypeOK
<1>4. ASSUME NEW k, Excused(k) PROVE Excused(k)'
  BY <1>0, <1>1, <1>2, <1>4 DEF Excused
\* Another running request excuses r.
<1>5. ASSUME NEW s \in Requests \ {r}, pc[s] \in Running
      PROVE  Excused(key[r])'
  BY <1>0, <1>1, <1>5 DEF Excused, Met, Overlapped
<1>6. CASE UNCHANGED <<column, objects>> /\ pc'[r] = "failed"
  <2>1. StrayExplained'
    BY <1>0, <1>1, <1>6 DEF StrayExplained
  <2>2. ASSUME NEW s \in Requests, pc'[s] \in Running PROVE Replaceable(s)'
    <3>1. s # r
      BY <1>6, <2>2 DEF Running
    <3> QED
      BY <1>1, <1>4, <1>6, <2>2, <3>1 DEF Replaceable
  <2> QED
    BY <2>1, <2>2
<1>7. CASE /\ pc[r] = "remove"
           /\ UNCHANGED column
           /\ objects' = objects \ {had[r]}
           /\ pc'[r] \in {"put", "save", "failed"}
  <2>1. StrayExplained'
    BY <1>0, <1>1, <1>7 DEF StrayExplained
  <2>2. ASSUME NEW s \in Requests, pc'[s] \in Running PROVE Replaceable(s)'
    <3>1. Replaceable(s)
      BY <1>1, <2>2
    <3> QED
      BY <1>1, <1>4, <1>7, <3>1 DEF Replaceable
  <2> QED
    BY <2>1, <2>2
<1>8. CASE /\ pc[r] = "put"
           /\ UNCHANGED column
           /\ objects' = objects \cup {key[r]}
           /\ pc'[r] \in {"save", "failed"}
  <2>1. StrayExplained'
    BY <1>0, <1>1, <1>8 DEF StrayExplained
  <2>2. ASSUME NEW s \in Requests, pc'[s] \in Running PROVE Replaceable(s)'
    <3>1. Replaceable(s) /\ pc[s] \in Running
      BY <1>1, <2>2
    <3>2. CASE column = key[r] /\ s # r
      BY <1>5, <1>8, <3>1, <3>2, <1>1 DEF Replaceable
    <3>3. CASE column = key[r] /\ s = r
      BY <1>1, <1>8, <2>2, <3>3 DEF Replaceable, Running
    <3>4. CASE column # key[r]
      BY <1>1, <1>4, <1>8, <3>1, <3>4 DEF Replaceable
    <3> QED
      BY <3>2, <3>3, <3>4
  <2> QED
    BY <2>1, <2>2
<1>9. CASE /\ pc[r] = "save"
           /\ UNCHANGED objects
           /\ column' = IF kind[r] = "set" THEN key[r] ELSE NoAvatar
           /\ pc'[r] \in {"done", "failed"}
  <2>1. column' = key[r]
    BY <1>2, <1>9 DEF Typed, TypeOK, KeyChosen, Kinds
  <2>2. ASSUME NEW k \in objects \ {key[r]}
        PROVE  \E q \in Requests : /\ key'[q] = k
                                   /\ pc'[q] \in {"save", "failed"} \/ Overlapped(q)'
    <3>1. CASE k = column
      <4>1. Excused(k)
        BY <1>1, <1>9, <2>2, <3>1 DEF Replaceable
      <4> QED
        BY <1>4, <4>1 DEF Excused
    <3>2. CASE k # column
      <4>1. PICK q \in Requests : /\ key[q] = k
                                  /\ pc[q] \in {"save", "failed"} \/ Overlapped(q)
        BY <2>2, <3>2 DEF StrayExplained
      <4> QED
        BY <1>0, <1>1, <2>2, <4>1
    <3> QED
      BY <3>1, <3>2
  <2>3. StrayExplained'
    BY <1>9, <2>1, <2>2 DEF StrayExplained
  <2>4. ASSUME NEW s \in Requests, pc'[s] \in Running PROVE Replaceable(s)'
    <3>1. s # r /\ pc[s] \in Running
      BY <1>1, <1>9, <2>4 DEF Running
    <3> QED
      BY <1>1, <1>5, <2>1, <3>1 DEF Replaceable, Excused
  <2> QED
    BY <2>3, <2>4
<1> QED
  BY <1>6, <1>7, <1>8, <1>9, WorkEffect

LEMMA StrayStep == Typed /\ StrayInv /\ [Next]_vars => StrayInv'
<1> SUFFICES ASSUME Typed, StrayInv, [Next]_vars PROVE StrayInv'
  OBVIOUS
<1>1. Met'
  BY MetStep DEF StrayInv
<1>2. CASE UNCHANGED vars
  BY <1>1, <1>2 DEF vars, StrayInv, StrayExplained, Replaceable, Excused,
     Overlapped, Together
<1> QED
  BY <1>1, <1>2, StrayBegin, StrayWork DEF StrayInv, Next, Step, Quiet

LEMMA StrayInit == Init => StrayInv
BY DEF Init, StrayInv, Met, StrayExplained, Running

\* Whatever file names the clients choose, an object is left behind only by a
\* request that failed or ran beside another one of the same user.
THEOREM NoStrayObjects == Spec => []StrayExplained
BY AlwaysTyped, StrayInit, StrayStep, PTL DEF Spec, StrayInv

-----------------------------------------------------------------------------
(* An avatar that resolves *)

\* Some request set out from the avatar k beside the upload of k by s, and may
\* have removed what s uploaded.
Snatched(s) == \E r \in Requests : had[r] = key[s] /\ Together(r, s)

\* What a request has uploaded waits in the bucket, unless snatched, until the
\* request names it in the column.
DanglingInv ==
    /\ DanglingExplained
    /\ \A s \in Requests :
           pc[s] = "save" /\ kind[s] = "set" => key[s] \in objects \/ Snatched(s)

\* A request that begins was no excuse before.
LEMMA DanglingBegin ==
    ASSUME Typed, DanglingInv, NEW r \in Requests, SetAvatar(r) \/ DeleteAvatar(r)
    PROVE  DanglingInv'
<1> USE DEF Typed, TypeOK, KeyChosen, Goto, DanglingInv
<1>1. /\ pc[r] = "idle" /\ key[r] = NoAvatar /\ had[r] = NoAvatar
      /\ UNCHANGED <<column, objects>>
  BY DEF SetAvatar, DeleteAvatar
<1>2. /\ \A q \in Requests \ {r} : /\ pc'[q] = pc[q]
                                   /\ kind'[q] = kind[q]
                                   /\ key'[q] = key[q]
                                   /\ had'[q] = had[q]
      /\ pc'[r] # "save"
  BY DEF SetAvatar, DeleteAvatar
<1>3. \A q, s \in Requests : Together(q, s) => Together(q, s)'
  BY BesideGrows
<1>4. DanglingExplained'
  BY <1>1, <1>2, <1>3 DEF DanglingExplained
<1>5. ASSUME NEW s \in Requests, pc'[s] = "save", kind'[s] = "set"
      PROVE  key'[s] \in objects' \/ Snatched(s)'
  <2>1. s # r /\ key[s] \in Keys /\ key[s] # NoAvatar
    BY <1>2, <1>5, AvatarKeys
  <2>2. key[s] \in objects \/ Snatched(s)
    BY <1>2, <1>5, <2>1
  <2>3. ASSUME NEW q \in Requests, had[q] = key[s], Together(q, s)
        PROVE  had'[q] = key'[s] /\ Together(q, s)'
    BY <1>1, <1>2, <1>3, <2>1, <2>3
  <2> QED
    BY <1>1, <1>2, <2>1, <2>2, <2>3 DEF Snatched
<1> QED
  BY <1>4, <1>5

LEMMA DanglingWork ==
    ASSUME Typed, Met, DanglingInv, NEW r \in Requests,
           \/ Remove(r) \/ Put(r) \/ Save(r) \/ CallFails(r) \/ AnswerLost(r)
    PROVE  DanglingInv'
<1> USE DEF DanglingInv
<1>1. /\ pc[r] \in Running
      /\ UNCHANGED <<kind, key, had, beside>>
      /\ \A q \in Requests \ {r} : pc'[q] = pc[q]
  BY WorkFrame
<1>2. /\ \A q, s \in Requests : Together(q, s)' <=> Together(q, s)
      /\ \A s \in Requests : Snatched(s)' <=> Snatched(s)
  BY <1>1 DEF Together, Snatched
<1>3. CASE UNCHANGED <<column, objects>> /\ pc'[r] = "failed"
  BY <1>1, <1>2, <1>3 DEF DanglingExplained
<1>4. CASE /\ pc[r] = "remove"
           /\ UNCHANGED column
           /\ objects' = objects \ {had[r]}
           /\ pc'[r] \in {"put", "save", "failed"}
  <2>1. DanglingExplained'
    BY <1>1, <1>2, <1>4 DEF DanglingExplained
  <2>2. ASSUME NEW s \in Requests, pc'[s] = "save", kind'[s] = "set"
        PROVE  key'[s] \in objects' \/ Snatched(s)'
    <3>1. s # r
      BY <1>1, <1>4, <2>2, SetRemovesThenPuts
    <3>2. pc[s] = "save" /\ kind[s] = "set" /\ Together(r, s)
      BY <1>1, <1>4, <2>2, <3>1 DEF Met, Running
    <3>3. CASE had[r] = key[s]
      BY <1>2, <3>2, <3>3 DEF Snatched
    <3>4. CASE had[r] # key[s]
      BY <1>1, <1>2, <1>4, <3>2, <3>4
    <3> QED
      BY <3>3, <3>4
  <2> QED
    BY <2>1, <2>2
<1>5. CASE /\ pc[r] = "put"
           /\ UNCHANGED column
           /\ objects' = objects \cup {key[r]}
           /\ pc'[r] \in {"save", "failed"}
  BY <1>1, <1>2, <1>5 DEF DanglingExplained
<1>6. CASE /\ pc[r] = "save"
           /\ UNCHANGED objects
           /\ column' = IF kind[r] = "set" THEN key[r] ELSE NoAvatar
           /\ pc'[r] \in {"done", "failed"}
  <2>1. \/ column' \in objects' \cup {NoAvatar}
        \/ column' = key[r] /\ Snatched(r)
    BY <1>1, <1>6
  <2>2. DanglingExplained'
    BY <1>1, <1>2, <2>1 DEF DanglingExplained, Snatched
  <2>3. \A s \in Requests : pc'[s] = "save" /\ kind'[s] = "set"
            => key'[s] \in objects' \/ Snatched(s)'
    BY <1>1, <1>2, <1>6
  <2> QED
    BY <2>2, <2>3
<1> QED
  BY <1>3, <1>4, <1>5, <1>6, WorkEffect

LEMMA DanglingStep == Typed /\ Met /\ DanglingInv /\ [Next]_vars => DanglingInv'
<1> SUFFICES ASSUME Typed, Met, DanglingInv, [Next]_vars PROVE DanglingInv'
  OBVIOUS
<1>1. CASE UNCHANGED vars
  BY <1>1 DEF vars, DanglingInv, DanglingExplained, Snatched, Together
<1> QED
  BY <1>1, DanglingBegin, DanglingWork DEF Next, Step, Quiet

LEMMA DanglingInit == Init => Met /\ DanglingInv
BY DEF Init, Met, Running, DanglingInv, DanglingExplained

\* Whatever file names the clients choose and however their requests interleave
\* and fail, the column names a missing object only behind a request that set
\* out from this avatar and did not get as far as replacing it, or removed it
\* beside another upload of the same name.
THEOREM DanglingAccounted == Spec => []DanglingExplained
BY AlwaysTyped, DanglingInit, MetStep, DanglingStep, PTL DEF Spec, DanglingInv

SerialResolves ==
    (\A r \in Requests : pc[r] \in {"idle", "done"} /\ ~Overlapped(r))
        => column \in objects \cup {NoAvatar}

\* Requests one after another that succeed leave an avatar that is in the bucket,
\* also when the new avatar has the name of the old one.
COROLLARY SerialAvatarResolves == Spec => []SerialResolves
<1>1. DanglingExplained => SerialResolves
  BY DEF DanglingExplained, SerialResolves, Overlapped
<1> QED
  BY <1>1, DanglingAccounted, PTL
=============================================================================
