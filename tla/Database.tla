------------------------------- MODULE Database -------------------------------
(***************************************************************************)
(* The tasks that the threads of a DB::Thread work on, each with a Base of *)
(* its own: a pending query for a list of values                           *)
(* (Thread::process_query), a callback that uses the Base, and a row       *)
(* deleted together with all that depends on it (Delete_Row_Helper,        *)
(* Database/db_delete_row.cpp), which is a sequence of statements without  *)
(* a transaction.                                                          *)
(***************************************************************************)
EXTENDS DbBase, DbThread

CONSTANTS Infos,           \* the Delete_Row_Info objects, childs after their parent
          RowId,           \* the key of the row to delete
          NewRows,         \* rows that are inserted, as a sequence
          Leaf             \* a table that is truncated

VARIABLE work              \* worker -> the task it is in

vars == <<rows, base, threadVars, work>>

Root == 1
Indices == DOMAIN Infos

(* A table that refers to itself, and whose reference is set to null by a  *)
(* clause of its own in del_impl, is left out.                             *)
ASSUME InfosAssumption ==
    /\ Infos \in Seq([table : Tables, parent : Nat, set_null : BOOLEAN]) /\ Infos # <<>>
    /\ \A i \in Indices \ {Root} :
        /\ Infos[i].parent \in 1 .. i - 1
        /\ Infos[Infos[i].parent].table = Parent[Infos[i].table]
        /\ Infos[i].set_null => Infos[i].table # Infos[Infos[i].parent].table

Keys == {r.id : r \in FirstRows \cup Range(NewRows)} \cup {RowId}
Row == [table : Tables, id : Keys, ref : Keys \cup {Null}]

ASSUME RowsAssumption ==
    /\ FirstRows \subseteq Row /\ Intact(FirstRows)
    /\ NewRows \in Seq(Row) /\ NewRows # <<>>
    /\ Null \notin Keys /\ Null \notin Tables

Nothing == [job |-> "none", task |-> Null, done |-> {}, values |-> <<>>]

Init ==
    /\ BaseInit(Workers) /\ ThreadInit
    /\ work = [w \in Workers |-> Nothing]

-----------------------------------------------------------------------------
(* Delete_Row_Helper *)

Childs(i) == {j \in Indices \ {Root} : Infos[j].parent = i}

(* The child of the root that an info is under, or is.                     *)
TopLevel[i \in Indices] ==
    IF i = Root \/ Infos[i].parent = Root THEN i ELSE TopLevel[Infos[i].parent]

(* del does not look at the childs of a child that is set to null.         *)
Skipped(i) == TopLevel[i] # i /\ Infos[TopLevel[i]].set_null

(* Mutant of NextInfo: a parent before its childs.                         *)
NextInfo_ParentFirst(done) ==
    CHOOSE i \in Indices \ done : ~Skipped(i) /\ \A j \in Indices \ done : Skipped(j) \/ i <= j

(* del and del_impl: the childs of an info before the info, one child      *)
(* after the other.                                                        *)
NextInfo(done) ==
    LET Ready == {i \in Indices \ done :
                    /\ ~Skipped(i)
                    /\ \A j \in Childs(i) : j \in done \/ Skipped(j)}
    IN CHOOSE i \in Ready : \A j \in Ready : i <= j

(* Mutant of Where: a nested child is selected like a child of the root.   *)
Where_Direct(i) ==
    IF i = Root THEN [by |-> "id", id |-> RowId] ELSE [by |-> "ref", id |-> RowId]

(* By the key, by the reference to it, or, in del_impl, by a reference to  *)
(* a row of the parent's table that has that reference.                    *)
Where(i) ==
    CASE i = Root -> [by |-> "id", id |-> RowId]
      [] i # Root /\ Infos[i].parent = Root -> [by |-> "ref", id |-> RowId]
      [] OTHER -> [by |-> "ref in", of |-> Infos[Infos[i].parent].table, id |-> RowId]

Statement(i) ==
    IF Infos[i].set_null /\ i # Root
      THEN update_query(Infos[i].table, Where(i), TRUE)
      ELSE del_query(Infos[i].table, Where(i), TRUE)

(* What a caller of del must see to with the infos it gives: no child of a *)
(* child has childs, every table that refers to rows that are deleted is   *)
(* named, and a table is never both deleted from and set to null; and      *)
(* nobody inserts the row that is deleted.                                 *)
TwoLevels ==
    \A i \in Indices \ {Root} : Infos[i].parent = Root \/ Infos[Infos[i].parent].parent = Root
NamesAll ==
    \A i \in Indices : ~Skipped(i) /\ (i = Root \/ ~Infos[i].set_null) =>
        \A t \in Tables : Parent[t] = Infos[i].table => \E j \in Childs(i) : Infos[j].table = t
KeptTables == {Infos[i].table : i \in {j \in Indices : Infos[j].set_null}}
KeptAreKept == \A i \in Indices : Infos[i].table \in KeptTables => Infos[i].set_null /\ i # Root
NotInsertedAgain ==
    \A r \in Range(NewRows) : ~(r.table = Infos[Root].table /\ r.id = RowId)

-----------------------------------------------------------------------------
(* The statement a task calls exec with next.                              *)
NextSql(t) ==
    CASE t.job = "delete" -> Statement(NextInfo(t.done))
      [] t.job = "pending" /\ t.values # <<>> -> insert_query(Head(t.values), TRUE)
      [] OTHER -> select_query(TRUE)

Returned(w, job) == pc[w] = "task" /\ work[w].job = job /\ Idle(w)

GoesOn(w, t) ==
    /\ work' = [work EXCEPT ![w] = t]
    /\ base' = [base EXCEPT ![w] = Called(@, NextSql(t))]
    /\ UNCHANGED <<rows, threadVars>>

Ends(w, how) ==
    /\ task_ends(w, work[w].task, how)
    /\ work' = [work EXCEPT ![w] = Nothing]
    /\ base' = [base EXCEPT ![w] = Released(@)]
    /\ UNCHANGED rows

(* The next statement of a cascade; del_impl and del throw at the first    *)
(* one that fails, and del catches that and returns false.                 *)
del_goes_on(w) ==
    /\ Returned(w, "delete") /\ base[w].active /\ NextInfo(work[w].done) # Root
    /\ GoesOn(w, [work[w] EXCEPT !.done = @ \cup {NextInfo(@)}])
RootDeleted(w) == Returned(w, "delete") /\ base[w].active /\ NextInfo(work[w].done) = Root
del_returns_true(w) == RootDeleted(w) /\ Ends(w, "ready")
del_returns_false(w) ==
    /\ Returned(w, "delete") /\ ~base[w].active
    /\ Ends(w, "ready")

(* process_query: one statement without values, or one for every element   *)
(* of values_list, whether or not the one before has failed.               *)
process_query(w) ==
    /\ Returned(w, "pending")
    /\ IF Len(work[w].values) > 1 THEN GoesOn(w, [work[w] EXCEPT !.values = Tail(@)])
                                  ELSE Ends(w, "ready")

(* The callback may throw, as the callback of a pending query may.         *)
callback_returns(w) == Returned(w, "callback") /\ Ends(w, "ready")
callback_throws(w) ==
    /\ Returned(w, "callback") \/ Returned(w, "pending")
    /\ Ends(w, "exception")

-----------------------------------------------------------------------------
(* run: a task is taken off the queue and called.  add_pending_query ...   *)
Take(w, t) ==
    /\ take_task(w)
    /\ work' = [work EXCEPT ![w] = t]
    /\ UNCHANGED rows
TakeQuery(w) ==
    \E n \in {0, Len(NewRows)}, job \in {"delete", "pending"} :
        /\ job = "delete" => n = 0
        /\ data_queue # <<>>
        /\ LET t == [Nothing EXCEPT !.job = job, !.task = Head(data_queue),
                                    !.values = SubSeq(NewRows, 1, n)]
           IN Take(w, t) /\ base' = [base EXCEPT ![w] = Called(@, NextSql(t))]

(* ... and add, add_query: a callback that uses its Base once.             *)
Operations ==
    {create_table(fits) : fits \in BOOLEAN}
        \cup {select_query(fits) : fits \in BOOLEAN} \cup {row_count(fits) : fits \in BOOLEAN}
        \cup {replace(NewRows[1], fits) : fits \in BOOLEAN} \cup {truncate_query(Leaf)}
TakeCallback(w) ==
    /\ data_queue # <<>>
    /\ Take(w, [Nothing EXCEPT !.job = "callback", !.task = Head(data_queue)])
    /\ \/ \E sql \in Operations : base' = [base EXCEPT ![w] = Called(@, sql)]
       \/ base' = [base EXCEPT ![w] = set_connection_info(@)]

(* A thread that ends takes its Base with it.                              *)
Loop(w) ==
    /\ test_break_flag(w) \/ wait(w)
    /\ base' = [base EXCEPT ![w] = IF pc'[w] = "ended" THEN NewBase ELSE @]
    /\ UNCHANGED <<rows, work>>

Execute(w) == Attempt(w) /\ UNCHANGED <<threadVars, work>>

Worker(w) ==
    \/ Loop(w) \/ TakeQuery(w) \/ TakeCallback(w) \/ Execute(w)
    \/ del_goes_on(w) \/ del_returns_true(w) \/ del_returns_false(w)
    \/ process_query(w) \/ callback_returns(w) \/ callback_throws(w)

Caller ==
    /\ stop \/ destroy \/ destroyed \/ \E t \in Tasks : add_task(t) \/ add_nothing(t)
    /\ UNCHANGED <<rows, base, work>>

Next == Caller \/ \E w \in Workers : Worker(w)

(* Threads run, and the database answers; nobody has to call anything.     *)
Fairness ==
    /\ \A w \in Workers : WF_vars(Worker(w))
    /\ WF_vars(destroyed /\ UNCHANGED <<rows, base, work>>)

Spec == Init /\ [][Next]_vars /\ Fairness

-----------------------------------------------------------------------------
Deleting(w) == work[w].job = "delete"

(* With one thread, whatever statement of it fails or is repeated, a       *)
(* cascade never asks for what would leave a reference without its row.    *)
CascadeInOrder ==
    Cardinality(threads) = 1 =>
        \A w \in threads : Deleting(w) /\ ~Idle(w) => Accepted(base[w].sql)

(* The rows that depend on the one to delete, itself included.             *)
RootRow == {r \in rows : r.table = Infos[Root].table /\ r.id = RowId}
Dependents(S) == {r \in rows : \E p \in S : Parent[r.table] = p.table /\ r.ref = p.id}
Own ==
    LET Referring == {r \in rows : r.ref # Null}
        Closed == {S \in {RootRow \cup T : T \in SUBSET Referring} : Dependents(S) \subseteq S}
    IN {r \in rows : \A S \in Closed : r \in S}

(* A cascade touches nothing but the rows that depend on its row, keeps    *)
(* those it is to keep, and when it says so its row is gone.               *)
HasKey(rs, r) == \E q \in rs : q.table = r.table /\ q.id = r.id
CascadeExact ==
    [][\A w \in Workers : Deleting(w) =>
          /\ rows' # rows /\ base'[w] # base[w] =>
                /\ rows \ rows' \subseteq Own
                /\ \A r \in rows \ rows' : r.table \in KeptTables => HasKey(rows', r)
          /\ RootDeleted(w) => RootRow = {}]_vars

(* Whoever holds a future is not left waiting for ever: the task is run,   *)
(* or its promise is broken when the Thread is destroyed.  After stop()    *)
(* that takes as long as the owner keeps the Thread.                       *)
FuturesResolve ==
    \A t \in Tasks : future[t] \in {"queued", "running"} ~>
        \/ future[t] \in {"ready", "exception", "broken"}
        \/ break_flag /\ owner = "using"

(* The destructor returns.                                                 *)
DestroyEnds == owner = "joining" ~> owner = "gone"
=============================================================================
