-------------------------------- MODULE Paging ---------------------------------
(***************************************************************************)
(* Lists read page by page with LIMIT and OFFSET, newest row first, while  *)
(* other requests write the table: GetLoginHistory, which loops over the   *)
(* pages itself, and the lists of predictions and of users, whose pages a  *)
(* client asks for one after another (internal/store/login_history.go,     *)
(* predictions.go and admin.go, and the handlers of internal/api).         *)
(*                                                                         *)
(* Every page is a statement of its own and sees what is committed then.   *)
(* The column a list is ordered by is now(), the time at which the writing *)
(* transaction began, and shows when it commits: rows appear out of order. *)
(* Rows of login_history and users keep that time (created_at); a          *)
(* prediction moves to the front when it is completed (updated_at).  Two   *)
(* transactions never begin at the same time.                              *)
(*                                                                         *)
(* Never used, each a slip in the operator that follows it:                *)
(* PageOldestFirst, AdvanceShort, CountBefore.                             *)
(***************************************************************************)
EXTENDS Integers, FiniteSets

CONSTANTS Rows,      \* rows of the table that belong to the list
          PageSize,  \* defaultQueryLimit, or the limit of the client
          Lists,     \* the lists read: some of "logins", "predictions", "users"
          MaxTime    \* bound: transactions that begin in a behaviour

ASSUME PagingRows == IsFiniteSet(Rows)
ASSUME PagingSizes == PageSize \in Nat \ {0} /\ MaxTime \in Nat

VARIABLES list,     \* the list the table holds
          clock,    \* transactions begun so far
          begun,    \* when the transaction writing a row began, 0 for none
          stamp,    \* the committed created_at or updated_at of a row
          visible,  \* rows that are committed
          pc,       \* statement the reader executes next
          offset,   \* the OFFSET of that statement
          times,    \* how often a row is in what the reader has collected
          reached,  \* rows up to the end of the last page of users
          total,    \* the count of users that went with that page
          atStart,  \* history: rows committed when the reader began
          moved     \* history: rows written since

vars == <<list, clock, begun, stamp, visible, pc, offset, times, reached, total,
          atStart, moved>>
table == <<list, clock, begun, stamp, visible>>
reader == <<pc, offset, times, reached, total>>
history == <<atStart, moved>>

PC == {"idle", "page", "count", "done", "failed"}

Init == /\ list \in Lists
        /\ clock = 0
        /\ begun = [r \in Rows |-> 0]
        /\ stamp = [r \in Rows |-> 0]
        /\ visible = {}
        /\ pc = "idle"
        /\ offset = 0
        /\ times = [r \in Rows |-> 0]
        /\ reached = 0
        /\ total = 0
        /\ atStart = {}
        /\ moved = {}

-----------------------------------------------------------------------------
(* Writers *)

\* An INSERT, or the UPDATE of a prediction; a row has one writer at a time.
BeginWrite(r) ==
    /\ begun[r] = 0
    /\ r \in visible => list = "predictions"
    /\ clock < MaxTime
    /\ clock' = clock + 1
    /\ begun' = [begun EXCEPT ![r] = clock + 1]
    /\ UNCHANGED <<list, stamp, visible, reader, history>>

CommitWrite(r) ==
    /\ begun[r] # 0
    /\ stamp' = [stamp EXCEPT ![r] = begun[r]]
    /\ begun' = [begun EXCEPT ![r] = 0]
    /\ visible' = visible \cup {r}
    /\ moved' = IF pc = "idle" THEN moved ELSE moved \cup {r}
    /\ UNCHANGED <<list, clock, reader, atStart>>

\* The statement fails, times out or its request is cancelled.
AbortWrite(r) ==
    /\ begun[r] # 0
    /\ begun' = [begun EXCEPT ![r] = 0]
    /\ UNCHANGED <<list, clock, stamp, visible, reader, history>>

Write(r) == BeginWrite(r) \/ CommitWrite(r) \/ AbortWrite(r)

-----------------------------------------------------------------------------
(* The reader *)

\* Rows that come before r in ORDER BY ... DESC.
Ahead(r) == {s \in visible : stamp[s] > stamp[r]}
Rank(r) == Cardinality(Ahead(r))

PageOldestFirst ==
    {r \in visible :
        Cardinality({s \in visible : stamp[s] < stamp[r]})
            \in offset .. offset + PageSize - 1}

\* LIMIT PageSize OFFSET offset.
Page == {r \in visible : Rank(r) \in offset .. offset + PageSize - 1}

BeginList == /\ pc = "idle"
             /\ pc' = "page"
             /\ atStart' = visible
             /\ UNCHANGED <<table, offset, times, reached, total, moved>>

AdvanceShort == offset' = offset + PageSize - 1
Advance == offset' = offset + PageSize

\* A page that is not full is the last one.
Turn(size) == IF size < PageSize THEN pc' = "done" /\ UNCHANGED offset
                                 ELSE pc' = "page" /\ Advance

Collect == times' = [r \in Rows |-> IF r \in Page THEN times[r] + 1 ELSE times[r]]

\* One turn of the loop of GetLoginHistory.
ReadLogins == /\ pc = "page" /\ list = "logins"
              /\ Collect
              /\ Turn(Cardinality(Page))
              /\ UNCHANGED <<table, reached, total, history>>

\* One request of the client.
ReadPredictions == /\ pc = "page" /\ list = "predictions"
                   /\ Collect
                   /\ Turn(Cardinality(Page))
                   /\ UNCHANGED <<table, reached, total, history>>

\* The users are counted before the next page can be asked for.
ReadUsers == /\ pc = "page" /\ list = "users"
             /\ Collect
             /\ pc' = "count"
             /\ reached' = offset + Cardinality(Page)
             /\ UNCHANGED <<table, offset, total, history>>

ReadPage == ReadLogins \/ ReadPredictions \/ ReadUsers

CountBefore == total' = Cardinality(atStart)
\* CountUsers, a second statement after the page.
CountUsers == total' = Cardinality(visible)

ReadCount == /\ pc = "count"
             /\ CountUsers
             /\ Turn(reached - offset)
             /\ UNCHANGED <<table, times, reached, history>>

\* The statement fails and nothing that was collected is returned.
ReadFails == /\ pc \in {"page", "count"}
             /\ pc' = "failed"
             /\ UNCHANGED <<table, offset, times, reached, total, history>>

Quiet == /\ pc \in {"done", "failed"}
         /\ \A r \in Rows : begun[r] = 0
         /\ UNCHANGED vars

Next == \/ \E r \in Rows : Write(r)
        \/ BeginList
        \/ ReadPage
        \/ ReadCount
        \/ ReadFails
        \/ Quiet

Spec == Init /\ [][Next]_vars

-----------------------------------------------------------------------------
TypeOK == /\ list \in Lists
          /\ clock \in Nat
          /\ begun \in [Rows -> Nat]
          /\ stamp \in [Rows -> Nat]
          /\ visible \subseteq Rows
          /\ pc \in PC
          /\ \E n \in 0 .. offset : offset = n * PageSize
          /\ times \in [Rows -> Nat]
          /\ reached \in Nat
          /\ total \in Nat
          /\ atStart \subseteq Rows
          /\ moved \subseteq Rows

\* A list read to its end has every row that was there when the reading began
\* and was not written meanwhile, however many rows were inserted or moved to
\* the front between its pages.  (A prediction completed meanwhile may be
\* missed: it moves in front of the pages still to be read.)
NoneMissed ==
    pc = "done" => \A r \in atStart \ moved : times[r] > 0

\* A row is listed twice only if another row was written during the reading.
TwiceExplained ==
    \A r \in Rows : times[r] > 1 => moved \ {r} # {}

\* "total_count": the users a client has gone through, page after page, are
\* never more than the count that comes with the page, although page and count
\* are read from two snapshots.
ListWithinCount ==
    list = "users" /\ pc \in {"page", "done"} => reached <= total
=============================================================================
