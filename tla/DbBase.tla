-------------------------------- MODULE DbBase --------------------------------
(***************************************************************************)
(* DB::Base (Database/db_base.cpp, db_connection_info.cpp): every user     *)
(* has one, with a connection of its own to the database they share.       *)
(* exec() gives a statement up to three attempts; an error closes the      *)
(* connection, and may reach the caller after the database did what it was *)
(* asked.  An attempt is one step.                                         *)
(*                                                                         *)
(* A row has a key and one reference; the database keeps references intact *)
(* and keys unique, and rejects a statement that would not.  SQL text is   *)
(* abstracted to what it does.                                             *)
(***************************************************************************)
EXTENDS Naturals, FiniteSets

CONSTANTS Null,            \* no reference
          Parent,          \* table -> the table its reference is to, or Null
          FirstRows        \* the rows at first

Tables == DOMAIN Parent

ASSUME ParentAssumption == \A t \in Tables : Parent[t] \in Tables \cup {Null}

VARIABLES rows,            \* the database: records of table, id, ref
          base             \* user -> its Base, and the exec() it is in

NoSql == [op |-> "none"]

(* Base::Base: the connection is made by the first statement.              *)
NewBase == [open |-> FALSE, sql |-> NoSql, left |-> 0, active |-> FALSE]

BaseInit(users) ==
    /\ rows = FirstRows
    /\ base = [u \in users |-> NewBase]

-----------------------------------------------------------------------------
(* The statements.  A query whose values do not fit its fields, or without *)
(* a table, is empty.                                                      *)
Query(fits, sql) == IF fits THEN sql ELSE NoSql

create_table(fits) == Query(fits, [op |-> "read"])
select_query(fits) == Query(fits, [op |-> "read"])
row_count(fits) == Query(fits, [op |-> "read"])
insert_query(row, fits) == Query(fits, [op |-> "insert", row |-> row])
replace(row, fits) == Query(fits, [op |-> "replace", row |-> row])
update_query(table, where, fits) ==
    Query(fits, [op |-> "null", table |-> table, where |-> where])
del_query(table, where, fits) ==
    Query(fits, [op |-> "delete", table |-> table, where |-> where])
truncate_query(table) == [op |-> "delete", table |-> table, where |-> [by |-> "all"]]

(* The rows a where clause selects: all, those with a key, those with a    *)
(* reference, or with a reference to one of the rows of another table that *)
(* have that reference themselves.                                         *)
Selected(table, where) ==
    {r \in rows : r.table = table
        /\ CASE where.by = "all" -> TRUE
             [] where.by = "id" -> r.id = where.id
             [] where.by = "ref" -> r.ref = where.id
             [] where.by = "ref in" ->
                  \E p \in rows : p.table = where.of /\ p.ref = where.id /\ r.ref = p.id}

SameKey(row) == {r \in rows : r.table = row.table /\ r.id = row.id}

Effect(sql) ==
    CASE sql.op = "insert" -> rows \cup {sql.row}
      [] sql.op = "replace" -> (rows \ SameKey(sql.row)) \cup {sql.row}
      [] sql.op = "delete" -> rows \ Selected(sql.table, sql.where)
      [] sql.op = "null" -> LET s == Selected(sql.table, sql.where) IN
                            (rows \ s) \cup {[r EXCEPT !.ref = Null] : r \in s}
      [] OTHER -> rows

(* No row refers to one that is not there.                                 *)
Intact(rs) ==
    \A r \in rs : r.ref # Null => \E p \in rs : p.table = Parent[r.table] /\ p.id = r.ref

Accepted(sql) ==
    /\ sql.op = "insert" => SameKey(sql.row) = {}
    /\ Intact(Effect(sql))

-----------------------------------------------------------------------------
(* The attempts left; none once exec() has returned.                       *)
Idle(u) == base[u].left = 0

(* Base::exec is called.  Empty sql: an inactive query at once.            *)
Called(b, sql) ==
    [b EXCEPT !.sql = sql, !.active = FALSE, !.left = IF sql = NoSql THEN 0 ELSE 3]

(* The caller is done with the QSqlQuery.                                  *)
Released(b) == [b EXCEPT !.sql = NoSql, !.active = FALSE, !.left = 0]

(* exec: not open, and create_connection fails.                            *)
create_connection_fails(u) ==
    /\ ~Idle(u) /\ ~base[u].open
    /\ base' = [base EXCEPT ![u].left = @ - 1]
    /\ UNCHANGED rows

(* exec: open, or opened by create_connection, and the query is executed.  *)
query_exec(u) ==
    /\ ~Idle(u) /\ Accepted(base[u].sql)
    /\ rows' = Effect(base[u].sql)
    /\ base' = [base EXCEPT ![u].open = TRUE, ![u].active = TRUE, ![u].left = 0]

MaybeExecuted(sql) == UNCHANGED rows \/ (Accepted(sql) /\ rows' = Effect(sql))

close(b) == [b EXCEPT !.open = FALSE]

(* set_connection_info, set_connection_name.                               *)
set_connection_info(b) == close(b)

(* exec: an error, whether or not the statement was carried out: close().  *)
query_error(u) ==
    /\ ~Idle(u)
    /\ MaybeExecuted(base[u].sql)
    /\ base' = [base EXCEPT ![u] = [close(base[u]) EXCEPT !.left = @ - 1]]

Attempt(u) == create_connection_fails(u) \/ query_exec(u) \/ query_error(u)
=============================================================================
