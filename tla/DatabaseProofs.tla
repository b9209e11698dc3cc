---------------------------- MODULE DatabaseProofs ----------------------------
(***************************************************************************)
(* Theorems about Database, for any tables, rows, threads and tasks; those *)
(* about a cascade have as hypotheses what a caller of del must see to.    *)
(*                                                                         *)
(* ThreadInv keeps the account of the tasks: each is in the queue, or with *)
(* one worker, or its future is settled.  DataInv is about the rows: with  *)
(* one thread, the infos of a cascade that are done select no row any more *)
(* (CascadeInv), since no later statement of it makes them select one      *)
(* (GoneStays), and a statement that is carried out again does no harm.    *)
(***************************************************************************)
EXTENDS Database, FiniteSetTheorems, WellFoundedInduction, TLAPS

-----------------------------------------------------------------------------
(* The infos. *)

LEMMA InfosAre ==
    /\ Root \in Indices /\ Indices \in SUBSET Nat
    /\ \A i \in Indices : Infos[i].table \in Tables /\ Infos[i].set_null \in BOOLEAN
    /\ \A i \in Indices \ {Root} :
         /\ Infos[i].parent \in Indices /\ Infos[i].parent < i /\ Infos[i].parent # i
         /\ Parent[Infos[i].table] = Infos[Infos[i].parent].table
  <1>1. Len(Infos) \in Nat \ {0} /\ Indices = 1 .. Len(Infos)
    BY InfosAssumption DEF Indices
  <1>2. \A i \in Indices : Infos[i] \in [table : Tables, parent : Nat, set_null : BOOLEAN]
    <2> DEFINE R == [table : Tables, parent : Nat, set_null : BOOLEAN]
    <2>1. Infos \in Seq(R)
      BY InfosAssumption
    <2> HIDE DEF R
    <2>2. \A i \in 1 .. Len(Infos) : Infos[i] \in R
      BY <2>1
    <2> QED BY <1>1, <2>2 DEF R
  <1> QED BY <1>1, <1>2, InfosAssumption DEF Root

(* The recursion ends after one step.                                      *)
LEMMA TopLevelIs ==
    ASSUME TwoLevels, NEW i \in Indices
    PROVE  TopLevel[i] = IF i = Root \/ Infos[i].parent = Root THEN i ELSE Infos[i].parent
  <1> DEFINE Top(j) == j = Root \/ Infos[j].parent = Root
             Eq(f) == f = [j \in Indices |-> IF Top(j) THEN j ELSE f[Infos[j].parent]]
             g == [j \in Indices |-> IF Top(j) THEN j ELSE Infos[j].parent]
  <1>1. ASSUME NEW j \in Indices, ~Top(j) PROVE Infos[j].parent \in Indices /\ Top(Infos[j].parent)
    BY <1>1, InfosAre DEF TwoLevels
  <1>2. Eq(g)
    BY <1>1, Zenon
  <1>3. TopLevel = CHOOSE f : Eq(f)
    BY Zenon DEF TopLevel
  <1>4. Eq(TopLevel)
    <2> HIDE DEF Eq, g
    <2> QED BY <1>2, <1>3, Zenon
  <1>5. \A j \in Indices : TopLevel[j] = IF Top(j) THEN j ELSE TopLevel[Infos[j].parent]
    BY <1>4, Zenon
  <1> HIDE DEF Top, Eq, g
  <1>6. Top(i) => TopLevel[i] = i
    BY <1>5
  <1>7. ~Top(i) => TopLevel[i] = Infos[i].parent
    BY <1>1, <1>5
  <1> QED BY <1>6, <1>7 DEF Top

LEMMA SkippedIs ==
    ASSUME TwoLevels
    PROVE  /\ \A i \in Indices : i = Root \/ Infos[i].parent = Root => ~Skipped(i)
           /\ \A i \in Indices : ~(i = Root \/ Infos[i].parent = Root) =>
                /\ Skipped(i) <=> Infos[Infos[i].parent].set_null
                /\ Infos[Infos[i].parent].parent = Root
                /\ Childs(i) = {}
  <1>1. ASSUME NEW i \in Indices, i = Root \/ Infos[i].parent = Root PROVE ~Skipped(i)
    BY <1>1, TopLevelIs DEF Skipped
  <1>2. ASSUME NEW i \in Indices, ~(i = Root \/ Infos[i].parent = Root)
        PROVE  /\ Skipped(i) <=> Infos[Infos[i].parent].set_null
               /\ Infos[Infos[i].parent].parent = Root
               /\ Childs(i) = {}
    <2>1. TopLevel[i] = Infos[i].parent /\ Infos[i].parent # i
      BY <1>2, TopLevelIs, InfosAre
    <2>2. ASSUME NEW j \in Childs(i) PROVE FALSE
      BY <1>2, <2>2, InfosAre DEF Childs, TwoLevels
    <2> QED BY <1>2, <2>1, <2>2 DEF Skipped, TwoLevels
  <1> QED BY <1>1, <1>2

LEMMA LeastIs ==
    ASSUME NEW S \in SUBSET Nat, S # {}
    PROVE  (CHOOSE i \in S : \A j \in S : i <= j) \in S
  <1>1. PICK x \in S : \A y \in S : ~(<<y, x>> \in OpToRel(<, Nat))
    BY WFMin, NatLessThanWellFounded
  <1>2. ASSUME NEW y \in S PROVE x <= y
    <2>1. y < x => <<y, x>> \in OpToRel(<, Nat)
      BY Zenon DEF OpToRel
    <2>2. ~(y < x) /\ x \in Nat /\ y \in Nat
      BY <1>1, <2>1
    <2> QED BY <2>2
  <1> QED BY <1>2

(* del finds an info until the root is done.                               *)
LEMMA NextInfoIs ==
    ASSUME TwoLevels, NEW done \in SUBSET Indices, Root \notin done
    PROVE  /\ NextInfo(done) \in Indices \ done
           /\ ~Skipped(NextInfo(done))
           /\ \A j \in Childs(NextInfo(done)) : j \in done \/ Skipped(j)
  <1> DEFINE Ready == {i \in Indices \ done :
                         ~Skipped(i) /\ \A j \in Childs(i) : j \in done \/ Skipped(j)}
  <1>1. Ready # {}
    <2>1. CASE Root \in Ready
      BY <2>1
    <2>2. CASE Root \notin Ready
      <3>1. ~Skipped(Root)
        BY SkippedIs, InfosAre
      <3>2. PICK i \in Childs(Root) : i \notin done /\ ~Skipped(i)
        BY <2>2, <3>1, InfosAre
      <3>3. CASE i \in Ready
        BY <3>3
      <3>4. CASE i \notin Ready
        <4>1. PICK j \in Childs(i) : j \notin done /\ ~Skipped(j)
          BY <3>2, <3>4 DEF Childs
        <4>2. j \in Indices /\ j # Root /\ Infos[j].parent = i /\ i # Root
          BY <3>2, <4>1 DEF Childs
        <4>3. Childs(j) = {}
          BY <4>2, SkippedIs
        <4>4. j \in Ready
          BY <4>1, <4>2, <4>3
        <4> QED BY <4>4
      <3> QED BY <3>3, <3>4
    <2> QED BY <2>1, <2>2
  <1>2. Ready \in SUBSET Nat
    BY InfosAre
  <1>3. NextInfo(done) = CHOOSE i \in Ready : \A j \in Ready : i <= j
    BY DEF NextInfo
  <1>4. NextInfo(done) \in Ready
    <2> HIDE DEF Ready
    <2> QED BY <1>1, <1>2, <1>3, LeastIs
  <1> QED BY <1>4

-----------------------------------------------------------------------------
(* The statements of a cascade, as functions of the rows. *)

Selects(rs, i) ==
    {r \in rs : r.table = Infos[i].table
        /\ \/ i = Root /\ r.id = RowId
           \/ i # Root /\ Infos[i].parent = Root /\ r.ref = RowId
           \/ i # Root /\ Infos[i].parent # Root /\
                \E p \in rs : p.table = Infos[Infos[i].parent].table /\ p.ref = RowId /\ r.ref = p.id}

SetsNull(i) == Infos[i].set_null /\ i # Root

After(rs, i) ==
    (rs \ Selects(rs, i))
        \cup (IF SetsNull(i) THEN {[r EXCEPT !.ref = Null] : r \in Selects(rs, i)} ELSE {})

LEMMA WhereIs ==
    ASSUME NEW i \in Indices
    PROVE  /\ i = Root => Where(i).by = "id" /\ Where(i).id = RowId
           /\ i # Root /\ Infos[i].parent = Root => Where(i).by = "ref" /\ Where(i).id = RowId
           /\ i # Root /\ Infos[i].parent # Root =>
                /\ Where(i).by = "ref in" /\ Where(i).id = RowId
                /\ Where(i).of = Infos[Infos[i].parent].table
  BY DEF Where

LEMMA SelectsIs ==
    ASSUME NEW i \in Indices
    PROVE  /\ Selected(Infos[i].table, Where(i)) = Selects(rows, i)
           /\ Selected(Infos[i].table, Where(i))' = Selects(rows', i)
  <1>1. CASE i = Root
    BY <1>1, WhereIs DEF Selected, Selects
  <1>2. CASE i # Root /\ Infos[i].parent = Root
    BY <1>2, WhereIs DEF Selected, Selects
  <1>3. CASE i # Root /\ Infos[i].parent # Root
    <2>1. /\ Where(i).by = "ref in" /\ Where(i).id = RowId
          /\ Where(i).of = Infos[Infos[i].parent].table
      BY <1>3, WhereIs
    <2>2. ASSUME NEW r
          PROVE  r \in Selected(Infos[i].table, Where(i)) <=> r \in Selects(rows, i)
      BY <1>3, <2>1 DEF Selected, Selects
    <2>3. ASSUME NEW r
          PROVE  r \in Selected(Infos[i].table, Where(i))' <=> r \in Selects(rows', i)
      BY <1>3, <2>1 DEF Selected, Selects
    <2> QED BY <2>2, <2>3
  <1> QED BY <1>1, <1>2, <1>3

LEMMA StatementIs ==
    ASSUME NEW i \in Indices
    PROVE  /\ Statement(i).op = IF SetsNull(i) THEN "null" ELSE "delete"
           /\ Statement(i).table = Infos[i].table /\ Statement(i).where = Where(i)
           /\ Statement(i) # NoSql
  <1>1. CASE SetsNull(i)
    <2>1. Statement(i) = [op |-> "null", table |-> Infos[i].table, where |-> Where(i)]
      BY <1>1 DEF Statement, update_query, Query, SetsNull
    <2> QED BY <1>1, <2>1 DEF NoSql
  <1>2. CASE ~SetsNull(i)
    <2>1. Statement(i) = [op |-> "delete", table |-> Infos[i].table, where |-> Where(i)]
      BY <1>2 DEF Statement, del_query, Query, SetsNull
    <2> QED BY <1>2, <2>1 DEF NoSql
  <1> QED BY <1>1, <1>2

LEMMA AfterIs ==
    ASSUME NEW i \in Indices
    PROVE  Effect(Statement(i)) = After(rows, i)
  <1>1. CASE SetsNull(i)
    BY <1>1, StatementIs, SelectsIs DEF Effect, After
  <1>2. CASE ~SetsNull(i)
    BY <1>2, StatementIs, SelectsIs DEF Effect, After
  <1> QED BY <1>1, <1>2

LEMMA RowIs ==
    ASSUME NEW r \in Row
    PROVE  /\ r.table \in Tables /\ r.id \in Keys /\ r.id # Null /\ r.ref \in Keys \cup {Null}
           /\ [r EXCEPT !.ref = Null] \in Row
           /\ [r EXCEPT !.ref = Null].ref = Null
           /\ [r EXCEPT !.ref = Null].table = r.table /\ [r EXCEPT !.ref = Null].id = r.id
  BY RowsAssumption DEF Row

LEMMA RowIdIs == RowId # Null
  BY RowsAssumption DEF Keys

(* A row that is left and refers to something was there and not selected;  *)
(* and no key is new.                                                      *)
LEMMA Survivors ==
    ASSUME NEW rs \in SUBSET Row, NEW i \in Indices, NEW r \in After(rs, i)
    PROVE  /\ r \in Row
           /\ r.ref # Null => r \in rs \ Selects(rs, i)
           /\ ~SetsNull(i) => r \in rs \ Selects(rs, i)
           /\ \E q \in rs : q.table = r.table /\ q.id = r.id
  <1>1. CASE r \in rs \ Selects(rs, i)
    BY <1>1
  <1>2. CASE r \notin rs \ Selects(rs, i)
    <2>1. SetsNull(i) /\ \E q \in Selects(rs, i) : r = [q EXCEPT !.ref = Null]
      BY <1>2 DEF After
    <2>2. PICK q \in Selects(rs, i) : r = [q EXCEPT !.ref = Null]
      BY <2>1
    <2>3. q \in rs /\ q \in Row
      BY DEF Selects
    <2> QED BY <2>1, <2>2, <2>3, RowIs
  <1> QED BY <1>1, <1>2

LEMMA SelectsFewer ==
    ASSUME NEW rs \in SUBSET Row, NEW i \in Indices, NEW j \in Indices,
           NEW r \in Selects(After(rs, i), j)
    PROVE  j = Root \/ r \in Selects(rs, j)
  <1>1. r \in After(rs, i) /\ r.table = Infos[j].table
    BY DEF Selects
  <1>2. CASE j # Root /\ Infos[j].parent = Root
    <2>1. r.ref = RowId
      BY <1>2 DEF Selects
    <2> QED BY <1>1, <1>2, <2>1, RowIdIs, Survivors DEF Selects
  <1>3. CASE j # Root /\ Infos[j].parent # Root
    <2>1. PICK p \in After(rs, i) :
            p.table = Infos[Infos[j].parent].table /\ p.ref = RowId /\ r.ref = p.id
      BY <1>3 DEF Selects
    <2>2. p \in rs
      BY <2>1, RowIdIs, Survivors
    <2>3. r \in rs
      BY <1>1, <2>1, <2>2, RowIs, Survivors
    <2> QED BY <1>1, <1>3, <2>1, <2>2, <2>3 DEF Selects
  <1> QED BY <1>2, <1>3

(* What selects nothing goes on selecting nothing.                         *)
LEMMA GoneStays ==
    ASSUME NEW rs \in SUBSET Row, NEW i \in Indices, NEW j \in Indices, Selects(rs, j) = {}
    PROVE  Selects(After(rs, i), j) = {}
  <1>1. CASE j = Root
    <2>1. ASSUME NEW r \in Selects(After(rs, i), j) PROVE FALSE
      <3>1. r \in After(rs, i) /\ r.table = Infos[j].table /\ r.id = RowId
        BY <1>1 DEF Selects
      <3>2. PICK q \in rs : q.table = r.table /\ q.id = r.id
        BY <3>1, Survivors
      <3>3. q \in Selects(rs, j)
        BY <1>1, <3>1, <3>2 DEF Selects
      <3> QED BY <3>3
    <2> QED BY <2>1
  <1>2. CASE j # Root
    BY <1>2, SelectsFewer
  <1> QED BY <1>1, <1>2

(* A statement that was carried out would select nothing now.              *)
LEMMA GoneAfter ==
    ASSUME NEW rs \in SUBSET Row, NEW i \in Indices
    PROVE  Selects(After(rs, i), i) = {}
  <1>1. ASSUME NEW r \in Selects(After(rs, i), i) PROVE FALSE
    <2>1. r \in After(rs, i)
      BY DEF Selects
    <2>2. CASE i = Root
      <3>1. r \in rs \ Selects(rs, i)
        BY <2>1, <2>2, Survivors DEF SetsNull
      <3>2. r \in Selects(rs, i)
        BY <2>2, <3>1 DEF Selects
      <3> QED BY <3>1, <3>2
    <2>3. CASE i # Root
      <3>1. r \in Selects(rs, i)
        BY <2>3, SelectsFewer
      <3>2. r.ref # Null
        <4>1. CASE Infos[i].parent = Root
          BY <2>3, <4>1, RowIdIs DEF Selects
        <4>2. CASE Infos[i].parent # Root
          <5>1. PICK p \in rs : r.ref = p.id
            BY <2>3, <3>1, <4>2 DEF Selects
          <5> QED BY <5>1, RowIs
        <4> QED BY <4>1, <4>2
      <3> QED BY <2>1, <3>1, <3>2, Survivors
    <2> QED BY <2>2, <2>3
  <1> QED BY <1>1

-----------------------------------------------------------------------------
(* The threads and the tasks. *)

Places == {"none", "test", "wait", "sleep", "task", "ended"}
Outcomes == {"none", "queued", "running", "invalid", "ready", "exception", "broken"}
Fields == {"job", "task", "done", "values"}

ThreadTypes ==
    /\ threads \in SUBSET Workers
    /\ pc \in [Workers -> Places]
    /\ data_queue \in Seq(Tasks)
    /\ break_flag \in BOOLEAN
    /\ future \in [Tasks -> Outcomes]
    /\ owner \in {"using", "joining", "gone"}
    /\ DOMAIN work = Workers /\ \A w \in Workers : DOMAIN work[w] = Fields

PlacesInv ==
    /\ \A w \in Workers : w \in threads <=> pc[w] # "none"
    /\ \A w \in Workers : pc[w] # "task" => work[w] = Nothing
    /\ owner = "gone" => data_queue = <<>> /\ \A w \in Workers : pc[w] \in {"none", "ended"}

QueueInv ==
    /\ \A i, j \in DOMAIN data_queue : data_queue[i] = data_queue[j] => i = j
    /\ \A t \in Tasks : future[t] = "queued" <=> \E i \in DOMAIN data_queue : data_queue[i] = t

RunningInv ==
    /\ \A w \in Workers : pc[w] = "task" => work[w].task \in Tasks /\ future[work[w].task] = "running"
    /\ \A v, w \in Workers : pc[v] = "task" /\ pc[w] = "task" /\ work[v].task = work[w].task => v = w
    /\ \A t \in Tasks : future[t] = "running" => \E w \in Workers : pc[w] = "task" /\ work[w].task = t

ThreadInv == ThreadTypes /\ PlacesInv /\ QueueInv /\ RunningInv

USE DEF ThreadInv

LEMMA QueueIs ==
    ASSUME NEW S, NEW q \in Seq(S)
    PROVE  /\ DOMAIN q = 1 .. Len(q) /\ Len(q) \in Nat
           /\ q # <<>> =>
                /\ Len(q) # 0 /\ Head(q) = q[1] /\ q[1] \in S
                /\ Tail(q) \in Seq(S) /\ DOMAIN Tail(q) = 1 .. Len(q) - 1
                /\ \A i \in 1 .. Len(q) - 1 : Tail(q)[i] = q[i + 1]
           /\ \A x \in S :
                /\ Append(q, x) \in Seq(S) /\ DOMAIN Append(q, x) = 1 .. Len(q) + 1
                /\ \A i \in 1 .. Len(q) : Append(q, x)[i] = q[i]
                /\ Append(q, x)[Len(q) + 1] = x
  OBVIOUS

LEMMA NothingIs ==
    /\ DOMAIN Nothing = Fields /\ Nothing.job = "none" /\ Nothing.done = {} /\ Nothing.values = <<>>
  BY DEF Nothing, Fields

LEMMA ThreadInitInv == ASSUME Init PROVE ThreadInv
  <1>1. ThreadTypes
    <2>1. threads \in SUBSET Workers
      BY ThreadAssumption DEF Init, ThreadInit, Workers
    <2>2. pc \in [Workers -> Places] /\ future \in [Tasks -> Outcomes]
      BY DEF Init, ThreadInit, Places, Outcomes
    <2>3. data_queue = <<>> /\ break_flag = FALSE /\ owner = "using"
      BY DEF Init, ThreadInit
    <2>4. data_queue \in Seq(Tasks)
      BY <2>3
    <2>5. break_flag \in BOOLEAN
      BY <2>3
    <2>6. DOMAIN work = Workers /\ \A w \in Workers : DOMAIN work[w] = Fields
      BY NothingIs DEF Init
    <2> QED BY <2>1, <2>2, <2>3, <2>4, <2>5, <2>6, Zenon DEF ThreadTypes
  <1>2. PlacesInv
    BY DEF Init, ThreadInit, PlacesInv, Workers
  <1>3. QueueInv /\ RunningInv
    BY DEF Init, ThreadInit, QueueInv, RunningInv, Workers, Tasks
  <1> QED BY <1>1, <1>2, <1>3

(* Those asleep are woken: nobody leaves or enters a task.                 *)
LEMMA Woken ==
    ASSUME ThreadTypes, NotifyOne \/ pc' = NotifyAll
    PROVE  /\ pc' \in [Workers -> Places]
           /\ \A w \in Workers :
                /\ pc'[w] = "task" <=> pc[w] = "task"
                /\ pc'[w] = "none" <=> pc[w] = "none"
  BY DEF ThreadTypes, NotifyOne, NotifyAll, Sleeping, Places

(* Steps that neither touch a task that is queued or running nor take a    *)
(* thread into a task or out of one.                                       *)
LEMMA TasksStay ==
    ASSUME ThreadInv,
           pc' \in [Workers -> Places], UNCHANGED <<threads, work, data_queue, future>>,
           \A w \in Workers : /\ pc'[w] = "task" <=> pc[w] = "task"
                              /\ pc'[w] = "none" <=> pc[w] = "none",
           break_flag' \in BOOLEAN, owner' \in {"using", "joining"}
    PROVE  ThreadInv'
  <1>1. ThreadTypes'
    BY DEF ThreadTypes
  <1>2. PlacesInv'
    BY DEF PlacesInv, ThreadTypes
  <1>3. QueueInv'
    BY DEF QueueInv
  <1>4. RunningInv'
    BY DEF RunningInv
  <1> QED BY <1>1, <1>2, <1>3, <1>4

LEMMA AddTask ==
    ASSUME ThreadInv, NEW t \in Tasks, add_task(t), UNCHANGED work
    PROVE  ThreadInv'
  <1>1. /\ pc' \in [Workers -> Places]
        /\ \A w \in Workers : /\ pc'[w] = "task" <=> pc[w] = "task"
                              /\ pc'[w] = "none" <=> pc[w] = "none"
    BY Woken DEF add_task
  <1>2. /\ owner = "using" /\ future[t] = "none" /\ data_queue' = Append(data_queue, t)
        /\ future' = [future EXCEPT ![t] = "queued"] /\ UNCHANGED <<threads, break_flag, owner>>
    BY DEF add_task, IsNew
  <1>3. data_queue \in Seq(Tasks)
    BY DEF ThreadTypes
  <1>4. ThreadTypes'
    BY <1>1, <1>2, <1>3, QueueIs DEF ThreadTypes, Outcomes
  <1>5. PlacesInv'
    BY <1>1, <1>2 DEF PlacesInv, ThreadTypes
  <1>6. QueueInv'
    <2>1. \A i \in DOMAIN data_queue : data_queue[i] # t /\ data_queue[i] \in Tasks
      BY <1>2, <1>3 DEF QueueInv, ThreadTypes
    <2>2. DOMAIN data_queue = 1 .. Len(data_queue) /\ Len(data_queue) \in Nat
          /\ DOMAIN data_queue' = 1 .. Len(data_queue) + 1
          /\ data_queue'[Len(data_queue) + 1] = t
          /\ \A i \in DOMAIN data_queue : data_queue'[i] = data_queue[i]
      BY <1>2, <1>3, QueueIs
    <2>3. \A s \in Tasks : future'[s] = IF s = t THEN "queued" ELSE future[s]
      BY <1>2 DEF ThreadTypes
    <2>4. ASSUME NEW i \in DOMAIN data_queue', NEW j \in DOMAIN data_queue',
                 data_queue'[i] = data_queue'[j]
          PROVE  i = j
      BY <2>1, <2>2, <2>4 DEF QueueInv
    <2>5. ASSUME NEW s \in Tasks
          PROVE  future'[s] = "queued" <=> \E i \in DOMAIN data_queue' : data_queue'[i] = s
      BY <2>1, <2>2, <2>3 DEF QueueInv
    <2> QED BY <2>4, <2>5 DEF QueueInv
  <1>7. RunningInv'
    BY <1>1, <1>2 DEF RunningInv, ThreadTypes
  <1> QED BY <1>4, <1>5, <1>6, <1>7

LEMMA AddNothing ==
    ASSUME ThreadInv, NEW t \in Tasks, add_nothing(t), UNCHANGED work
    PROVE  ThreadInv'
  <1>1. /\ owner = "using" /\ future[t] = "none" /\ future' = [future EXCEPT ![t] = "invalid"]
        /\ UNCHANGED <<threads, pc, data_queue, break_flag, owner>>
    BY DEF add_nothing, IsNew
  <1>2. ThreadTypes'
    BY <1>1 DEF ThreadTypes, Outcomes
  <1>3. PlacesInv'
    BY <1>1 DEF PlacesInv, ThreadTypes
  <1>4. QueueInv'
    BY <1>1 DEF QueueInv, ThreadTypes
  <1>5. RunningInv'
    BY <1>1 DEF RunningInv, ThreadTypes
  <1> QED BY <1>2, <1>3, <1>4, <1>5

LEMMA Destroyed ==
    ASSUME ThreadInv, destroyed, UNCHANGED work
    PROVE  ThreadInv'
  <1>1. /\ \A w \in threads : pc[w] = "ended"
        /\ owner' = "gone" /\ data_queue' = <<>> /\ UNCHANGED <<threads, pc, break_flag>>
        /\ future' = [t \in Tasks |->
                        IF \E i \in DOMAIN data_queue : data_queue[i] = t THEN "broken" ELSE future[t]]
    BY DEF destroyed, Range
  <1>2. ThreadTypes'
    BY <1>1 DEF ThreadTypes, Outcomes
  <1>3. PlacesInv'
    BY <1>1 DEF PlacesInv, ThreadTypes
  <1>4. \A t \in Tasks : future'[t] # "queued"
    BY <1>1 DEF QueueInv
  <1>5. QueueInv'
    BY <1>1, <1>4 DEF QueueInv
  <1>6. RunningInv'
    BY <1>1, <1>3 DEF RunningInv, PlacesInv, ThreadTypes
  <1> QED BY <1>2, <1>3, <1>5, <1>6

LEMMA Takes ==
    ASSUME ThreadInv, NEW w \in Workers, NEW t, take_task(w), work' = [work EXCEPT ![w] = t],
           DOMAIN t = Fields, t.task = Head(data_queue)
    PROVE  ThreadInv'
  <1>1. /\ pc[w] = "wait" /\ ~break_flag /\ data_queue # <<>>
        /\ pc' = [pc EXCEPT ![w] = "task"]
        /\ future' = [future EXCEPT ![Head(data_queue)] = "running"]
        /\ data_queue' = Tail(data_queue) /\ UNCHANGED <<threads, break_flag, owner>>
    BY DEF take_task
  <1>2. /\ data_queue \in Seq(Tasks) /\ DOMAIN data_queue = 1 .. Len(data_queue)
        /\ Len(data_queue) \in Nat \ {0}
        /\ Head(data_queue) = data_queue[1] /\ data_queue[1] \in Tasks
        /\ data_queue' \in Seq(Tasks) /\ DOMAIN data_queue' = 1 .. Len(data_queue) - 1
        /\ \A i \in 1 .. Len(data_queue) - 1 : data_queue'[i] = data_queue[i + 1]
    <2>1. data_queue \in Seq(Tasks)
      BY DEF ThreadTypes
    <2> QED BY <1>1, <2>1, QueueIs
  <1>3. future[t.task] = "queued" /\ t.task \in Tasks /\ t.task = data_queue[1]
    BY <1>2 DEF QueueInv
  <1>4. /\ \A s \in Tasks : future'[s] = IF s = t.task THEN "running" ELSE future[s]
        /\ \A v \in Workers : pc'[v] = IF v = w THEN "task" ELSE pc[v]
        /\ \A v \in Workers : work'[v] = IF v = w THEN t ELSE work[v]
    BY <1>1, <1>2, <1>3 DEF ThreadTypes
  <1>5. ThreadTypes'
    BY <1>1, <1>2, <1>3 DEF ThreadTypes, Places, Outcomes
  <1>6. PlacesInv'
    BY <1>1, <1>4 DEF PlacesInv
  <1>7. QueueInv'
    <2>1. ASSUME NEW i \in DOMAIN data_queue', NEW j \in DOMAIN data_queue',
                 data_queue'[i] = data_queue'[j]
          PROVE  i = j
      <3>1. i + 1 \in DOMAIN data_queue /\ j + 1 \in DOMAIN data_queue
        BY <1>2
      <3>2. i + 1 = j + 1
        BY <1>2, <2>1, <3>1 DEF QueueInv
      <3> QED BY <1>2, <3>2
    <2>2. ASSUME NEW s \in Tasks, future'[s] = "queued"
          PROVE  \E i \in DOMAIN data_queue' : data_queue'[i] = s
      <3>1. s # t.task /\ future[s] = "queued"
        BY <1>4, <2>2
      <3>2. PICK i \in DOMAIN data_queue : data_queue[i] = s
        BY <3>1 DEF QueueInv
      <3>3. i # 1 /\ i - 1 \in DOMAIN data_queue' /\ data_queue'[i - 1] = data_queue[i]
        BY <1>2, <1>3, <3>1, <3>2
      <3> QED BY <3>2, <3>3
    <2>3. ASSUME NEW s \in Tasks, NEW i \in DOMAIN data_queue', data_queue'[i] = s
          PROVE  future'[s] = "queued"
      <3>1. i + 1 \in DOMAIN data_queue /\ data_queue[i + 1] = s /\ i + 1 # 1 /\ 1 \in DOMAIN data_queue
        BY <1>2, <2>3
      <3>2. s # t.task /\ future[s] = "queued"
        BY <1>3, <3>1 DEF QueueInv
      <3> QED BY <1>4, <3>2
    <2> QED BY <2>1, <2>2, <2>3 DEF QueueInv
  <1>8. RunningInv'
    <2>1. \A v \in Workers : pc[v] = "task" => work[v].task # t.task
      BY <1>3 DEF RunningInv
    <2>2. \A v \in Workers : pc'[v] = "task" => work'[v].task \in Tasks /\ future'[work'[v].task] = "running"
      BY <1>3, <1>4, <2>1 DEF RunningInv
    <2>3. ASSUME NEW u \in Workers, NEW v \in Workers,
                 pc'[u] = "task", pc'[v] = "task", work'[u].task = work'[v].task
          PROVE  u = v
      BY <1>4, <2>1, <2>3 DEF RunningInv
    <2>4. \A s \in Tasks : future'[s] = "running" => \E v \in Workers : pc'[v] = "task" /\ work'[v].task = s
      <3>1. pc'[w] = "task" /\ work'[w].task = t.task
        BY <1>4
      <3>2. ASSUME NEW s \in Tasks, s # t.task, future[s] = "running"
            PROVE  \E v \in Workers : pc'[v] = "task" /\ work'[v].task = s
        <4>1. PICK v \in Workers : pc[v] = "task" /\ work[v].task = s
          BY <3>2 DEF RunningInv
        <4>2. v # w
          BY <1>1, <4>1
        <4> QED BY <1>4, <4>1, <4>2
      <3> QED BY <1>4, <3>1, <3>2
    <2> QED BY <2>2, <2>3, <2>4 DEF RunningInv
  <1> QED BY <1>5, <1>6, <1>7, <1>8

(* The task a thread is in goes on.                                        *)
LEMMA TaskGoesOn ==
    ASSUME ThreadInv, NEW w \in Workers, NEW t, work' = [work EXCEPT ![w] = t],
           pc[w] = "task", DOMAIN t = Fields, t.task = work[w].task, UNCHANGED threadVars
    PROVE  ThreadInv'
  <1>1. /\ UNCHANGED <<threads, pc, data_queue, break_flag, future, owner>>
        /\ \A v \in Workers : work'[v] = IF v = w THEN t ELSE work[v]
    BY DEF threadVars, ThreadTypes
  <1>2. ThreadTypes'
    BY <1>1 DEF ThreadTypes
  <1>3. PlacesInv'
    BY <1>1 DEF PlacesInv
  <1>4. QueueInv'
    BY <1>1 DEF QueueInv
  <1>5. \A v \in Workers : work'[v].task = work[v].task
    BY <1>1
  <1>6. RunningInv'
    BY <1>1, <1>5 DEF RunningInv
  <1> QED BY <1>2, <1>3, <1>4, <1>6

LEMMA TaskEnds ==
    ASSUME ThreadInv, NEW w \in Workers, NEW how \in {"ready", "exception"},
           pc[w] = "task", Ends(w, how)
    PROVE  ThreadInv'
  <1> DEFINE t == work[w].task
  <1>1. /\ pc' = [pc EXCEPT ![w] = "test"] /\ future' = [future EXCEPT ![t] = how]
        /\ UNCHANGED <<threads, data_queue, break_flag, owner>>
        /\ work' = [work EXCEPT ![w] = Nothing]
    BY DEF Ends, task_ends
  <1>2. t \in Tasks /\ future[t] = "running"
    BY DEF RunningInv
  <1> HIDE DEF t
  <1>3. /\ \A s \in Tasks : future'[s] = IF s = t THEN how ELSE future[s]
        /\ \A v \in Workers : pc'[v] = IF v = w THEN "test" ELSE pc[v]
        /\ \A v \in Workers : work'[v] = IF v = w THEN Nothing ELSE work[v]
    BY <1>1, <1>2 DEF ThreadTypes
  <1>4. ThreadTypes'
    BY <1>1, <1>2, NothingIs DEF ThreadTypes, Places, Outcomes
  <1>5. PlacesInv'
    BY <1>1, <1>3 DEF PlacesInv
  <1>6. QueueInv'
    BY <1>1, <1>2, <1>3 DEF QueueInv
  <1>7. RunningInv'
    <2>1. \A v \in Workers : v # w /\ pc[v] = "task" => work[v].task # t
      BY DEF RunningInv, t
    <2>2. \A v \in Workers : pc'[v] = "task" => work'[v].task \in Tasks /\ future'[work'[v].task] = "running"
      BY <1>3, <2>1 DEF RunningInv
    <2>3. ASSUME NEW u \in Workers, NEW v \in Workers,
                 pc'[u] = "task", pc'[v] = "task", work'[u].task = work'[v].task
          PROVE  u = v
      BY <1>3, <2>3 DEF RunningInv
    <2>4. ASSUME NEW s \in Tasks, future'[s] = "running"
          PROVE  \E v \in Workers : pc'[v] = "task" /\ work'[v].task = s
      <3>1. s # t /\ future[s] = "running"
        BY <1>3, <2>4
      <3>2. PICK v \in Workers : pc[v] = "task" /\ work[v].task = s
        BY <3>1 DEF RunningInv
      <3>3. v # w
        BY <3>1, <3>2 DEF t
      <3> QED BY <1>3, <3>2, <3>3
    <2> QED BY <2>2, <2>3, <2>4 DEF RunningInv
  <1> QED BY <1>4, <1>5, <1>6, <1>7

LEMMA ThreadSame == ASSUME ThreadInv, UNCHANGED <<threadVars, work>> PROVE ThreadInv'
  <1>1. UNCHANGED <<threads, pc, data_queue, break_flag, future, owner, work>>
    BY DEF threadVars
  <1>2. ThreadTypes' /\ PlacesInv'
    BY <1>1 DEF ThreadTypes, PlacesInv
  <1>3. QueueInv' /\ RunningInv'
    BY <1>1 DEF QueueInv, RunningInv
  <1> QED BY <1>2, <1>3

LEMMA CallerThreadInv == ASSUME ThreadInv, Caller PROVE ThreadInv'
  <1>1. UNCHANGED work
    BY DEF Caller
  <1>2. CASE stop
    <2>1. /\ break_flag' = TRUE /\ owner' = "using" /\ pc' = NotifyAll
          /\ UNCHANGED <<threads, data_queue, future>>
      BY <1>2 DEF stop, StopWakes
    <2>2. /\ pc' \in [Workers -> Places]
          /\ \A w \in Workers : /\ pc'[w] = "task" <=> pc[w] = "task"
                                /\ pc'[w] = "none" <=> pc[w] = "none"
      BY <2>1, Woken
    <2> QED BY <1>1, <2>1, <2>2, TasksStay
  <1>3. CASE destroy
    <2>1. /\ break_flag' = TRUE /\ owner' = "joining" /\ pc' = NotifyAll
          /\ UNCHANGED <<threads, data_queue, future>>
      BY <1>3 DEF destroy, StopWakes
    <2>2. /\ pc' \in [Workers -> Places]
          /\ \A w \in Workers : /\ pc'[w] = "task" <=> pc[w] = "task"
                                /\ pc'[w] = "none" <=> pc[w] = "none"
      BY <2>1, Woken
    <2> QED BY <1>1, <2>1, <2>2, TasksStay
  <1>4. CASE destroyed
    BY <1>1, <1>4, Destroyed
  <1>5. ASSUME NEW t \in Tasks, add_task(t) \/ add_nothing(t) PROVE ThreadInv'
    BY <1>1, <1>5, AddTask, AddNothing
  <1> QED BY <1>2, <1>3, <1>4, <1>5 DEF Caller

LEMMA LoopThreadInv == ASSUME ThreadInv, NEW w \in Workers, Loop(w) PROVE ThreadInv'
  <1>1. /\ pc[w] \in {"test", "wait"}
        /\ \E p \in {"ended", "wait", "sleep"} : pc' = [pc EXCEPT ![w] = p]
        /\ UNCHANGED <<threads, data_queue, break_flag, future, owner, work>>
    BY DEF Loop, test_break_flag, wait
  <1>2. owner # "gone"
    BY <1>1 DEF PlacesInv
  <1>3. /\ pc' \in [Workers -> Places]
        /\ \A v \in Workers : /\ pc'[v] = "task" <=> pc[v] = "task"
                              /\ pc'[v] = "none" <=> pc[v] = "none"
    BY <1>1 DEF ThreadTypes, Places
  <1>4. break_flag' \in BOOLEAN /\ owner' \in {"using", "joining"}
    BY <1>1, <1>2 DEF ThreadTypes
  <1> QED BY <1>1, <1>3, <1>4, TasksStay

(* The task a worker begins with.                                          *)
LEMMA TakenIs ==
    ASSUME NEW job, NEW t, NEW values
    PROVE  LET x == [Nothing EXCEPT !.job = job, !.task = t, !.values = values]
           IN DOMAIN x = Fields /\ x.job = job /\ x.task = t /\ x.values = values /\ x.done = {}
  BY DEF Nothing, Fields

LEMMA TakeThreadInv ==
    ASSUME ThreadInv, NEW w \in Workers, TakeQuery(w) \/ TakeCallback(w)
    PROVE  ThreadInv'
  <1>1. CASE TakeQuery(w)
    <2>1. PICK n \in {0, Len(NewRows)}, job \in {"delete", "pending"} :
            Take(w, [Nothing EXCEPT !.job = job, !.task = Head(data_queue),
                                    !.values = SubSeq(NewRows, 1, n)])
      BY <1>1 DEF TakeQuery
    <2> DEFINE t == [Nothing EXCEPT !.job = job, !.task = Head(data_queue),
                                    !.values = SubSeq(NewRows, 1, n)]
    <2>2. DOMAIN t = Fields /\ t.task = Head(data_queue)
      BY TakenIs
    <2>3. take_task(w) /\ work' = [work EXCEPT ![w] = t]
      BY <2>1 DEF Take
    <2> HIDE DEF t
    <2> QED BY <2>2, <2>3, Takes
  <1>2. CASE TakeCallback(w)
    <2> DEFINE t == [Nothing EXCEPT !.job = "callback", !.task = Head(data_queue)]
    <2>1. DOMAIN t = Fields /\ t.task = Head(data_queue)
      BY DEF Nothing, Fields
    <2>2. take_task(w) /\ work' = [work EXCEPT ![w] = t]
      BY <1>2 DEF TakeCallback, Take
    <2> HIDE DEF t
    <2> QED BY <2>1, <2>2, Takes
  <1> QED BY <1>1, <1>2

LEMMA WorkerThreadInv == ASSUME ThreadInv, NEW w \in Workers, Worker(w) PROVE ThreadInv'
  <1>1. CASE Loop(w)
    BY <1>1, LoopThreadInv
  <1>2. CASE TakeQuery(w) \/ TakeCallback(w)
    BY <1>2, TakeThreadInv
  <1>3. CASE Execute(w)
    BY <1>3, ThreadSame DEF Execute
  <1>4. CASE del_goes_on(w)
    <2> DEFINE t == [work[w] EXCEPT !.done = @ \cup {NextInfo(@)}]
    <2>1. pc[w] = "task" /\ work' = [work EXCEPT ![w] = t] /\ UNCHANGED threadVars
      BY <1>4 DEF del_goes_on, Returned, GoesOn
    <2>2. DOMAIN t = Fields /\ t.task = work[w].task
      BY DEF ThreadTypes, Fields
    <2> HIDE DEF t
    <2> QED BY <2>1, <2>2, TaskGoesOn
  <1>5. CASE del_returns_true(w) \/ del_returns_false(w) \/ callback_returns(w) \/ callback_throws(w)
    <2>1. pc[w] = "task" /\ \E how \in {"ready", "exception"} : Ends(w, how)
      BY <1>5 DEF del_returns_true, RootDeleted, del_returns_false, callback_returns,
                  callback_throws, Returned
    <2> QED BY <2>1, TaskEnds
  <1>6. CASE process_query(w)
    <2> DEFINE t == [work[w] EXCEPT !.values = Tail(@)]
    <2>1. pc[w] = "task"
      BY <1>6 DEF process_query, Returned
    <2>2. CASE Ends(w, "ready")
      BY <2>1, <2>2, TaskEnds
    <2>3. CASE GoesOn(w, t)
      <3>1. work' = [work EXCEPT ![w] = t] /\ UNCHANGED threadVars
        BY <2>3 DEF GoesOn
      <3>2. DOMAIN t = Fields /\ t.task = work[w].task
        BY DEF ThreadTypes, Fields
      <3> HIDE DEF t
      <3> QED BY <2>1, <3>1, <3>2, TaskGoesOn
    <2> QED BY <1>6, <2>2, <2>3 DEF process_query
  <1> QED BY <1>1, <1>2, <1>3, <1>4, <1>5, <1>6 DEF Worker

LEMMA ThreadNextInv == ASSUME ThreadInv, [Next]_vars PROVE ThreadInv'
  <1>1. CASE UNCHANGED vars
    BY <1>1, ThreadSame DEF vars
  <1>2. CASE Caller
    BY <1>2, CallerThreadInv
  <1>3. ASSUME NEW w \in Workers, Worker(w) PROVE ThreadInv'
    BY <1>3, WorkerThreadInv
  <1> QED BY <1>1, <1>2, <1>3 DEF Next

(* The account of the tasks of a DB::Thread: a task waits in the queue, or *)
(* one thread is in it, or its future is settled; and a thread that is not *)
(* in a task has left nothing of the last one behind.                      *)
THEOREM TasksAccountedFor == Spec => []ThreadInv
  <1>1. Init => ThreadInv
    BY ThreadInitInv
  <1>2. ThreadInv /\ [Next]_vars => ThreadInv'
    BY ThreadNextInv
  <1> QED BY <1>1, <1>2, PTL DEF Spec

NoneWaits == owner = "gone" => \A t \in Tasks : future[t] \notin {"queued", "running"}

(* Once the destructor of the Thread has returned nobody waits: no future  *)
(* is left whose task is queued or running.                                *)
THEOREM NoneLeftWaiting == Spec => []NoneWaits
  <1>1. ThreadInv => NoneWaits
    BY DEF NoneWaits, PlacesInv, QueueInv, RunningInv
  <1> QED BY <1>1, TasksAccountedFor, PTL

-----------------------------------------------------------------------------
(* The rows and the statements. *)

Sql ==
    {NoSql, [op |-> "read"], truncate_query(Leaf)}
        \cup {[op |-> "insert", row |-> r] : r \in Range(NewRows)}
        \cup {[op |-> "replace", row |-> r] : r \in Range(NewRows)}
        \cup {Statement(i) : i \in Indices}
BaseRecord == [open : BOOLEAN, sql : Sql, left : 0 .. 3, active : BOOLEAN]

DataTypes ==
    /\ rows \in SUBSET Row
    /\ base \in [Workers -> BaseRecord]
    /\ \A w \in Workers : /\ work[w].done \in SUBSET Indices
                          /\ work[w].values \in Seq(Range(NewRows))

IdleInv ==
    \A w \in Workers : /\ pc[w] # "task" => base[w].left = 0
                       /\ base[w].left # 0 => ~base[w].active

CascadeAt(w) ==
    Deleting(w) =>
        /\ Root \notin work[w].done
        /\ base[w].sql = Statement(NextInfo(work[w].done))
        /\ Cardinality(threads) = 1 =>
             /\ \A j \in work[w].done : Selects(rows, j) = {}
             /\ base[w].active => Selects(rows, NextInfo(work[w].done)) = {}
CascadeInv == \A w \in Workers : CascadeAt(w)

DataInv == DataTypes /\ IdleInv /\ Intact(rows) /\ CascadeInv

LEMMA NewRowsAre ==
    /\ NewRows[1] \in Range(NewRows) /\ Range(NewRows) \in SUBSET Row
    /\ NewRows \in Seq(Range(NewRows))
  <1>1. NewRows \in Seq(Row) /\ NewRows # <<>>
    BY RowsAssumption
  <1>2. DOMAIN NewRows = 1 .. Len(NewRows) /\ Len(NewRows) \in Nat \ {0}
        /\ \A i \in DOMAIN NewRows : NewRows[i] \in Row
    <2> DEFINE R == Row
    <2>1. NewRows \in Seq(R)
      BY <1>1
    <2> HIDE DEF R
    <2>2. DOMAIN NewRows = 1 .. Len(NewRows) /\ Len(NewRows) \in Nat \ {0}
          /\ \A i \in DOMAIN NewRows : NewRows[i] \in R
      BY <1>1, <2>1
    <2> QED BY <2>2 DEF R
  <1> QED BY <1>1, <1>2 DEF Range

LEMMA NextSqlIs ==
    ASSUME TwoLevels, NEW t, t.done \in SUBSET Indices, t.values \in Seq(Range(NewRows)),
           t.job = "delete" => Root \notin t.done
    PROVE  /\ NextSql(t) \in Sql
           /\ t.job = "delete" => NextSql(t) = Statement(NextInfo(t.done))
  <1>1. CASE t.job = "delete"
    <2>1. NextInfo(t.done) \in Indices
      BY <1>1, NextInfoIs
    <2> QED BY <1>1, <2>1 DEF NextSql, Sql
  <1>2. CASE t.job = "pending" /\ t.values # <<>>
    <2>1. Head(t.values) \in Range(NewRows)
      BY <1>2
    <2>2. NextSql(t) = [op |-> "insert", row |-> Head(t.values)]
      BY <1>2 DEF NextSql, insert_query, Query
    <2> QED BY <1>2, <2>1, <2>2 DEF Sql
  <1>3. CASE t.job # "delete" /\ ~(t.job = "pending" /\ t.values # <<>>)
    <2>1. NextSql(t) = [op |-> "read"]
      BY <1>3 DEF NextSql, select_query, Query
    <2> QED BY <1>3, <2>1 DEF Sql
  <1> QED BY <1>1, <1>2, <1>3

LEMMA OperationsAre == Operations \in SUBSET Sql
  <1>1. ASSUME NEW sql \in Operations PROVE sql \in Sql
    <2>1. \/ sql \in {NoSql, [op |-> "read"], truncate_query(Leaf)}
          \/ sql = [op |-> "replace", row |-> NewRows[1]]
      BY DEF Operations, create_table, select_query, row_count, replace, Query
    <2> QED BY <2>1, NewRowsAre DEF Sql
  <1> QED BY <1>1

LEMMA CalledIs ==
    ASSUME NEW b \in BaseRecord, NEW sql \in Sql
    PROVE  /\ Called(b, sql) \in BaseRecord /\ Called(b, sql).sql = sql /\ ~Called(b, sql).active
           /\ Released(b) \in BaseRecord /\ Released(b).left = 0
           /\ NewBase \in BaseRecord /\ NewBase.left = 0
           /\ close(b) \in BaseRecord /\ close(b).left = b.left /\ close(b).sql = b.sql
           /\ close(b).active = b.active
  <1>1. NoSql \in Sql
    BY DEF Sql
  <1>2. NewBase \in BaseRecord /\ NewBase.left = 0
    BY <1>1 DEF BaseRecord, NewBase
  <1>3. ASSUME NEW s \in Sql, NEW n \in 0 .. 3
        PROVE  LET c == [b EXCEPT !.sql = s, !.active = FALSE, !.left = n]
               IN c \in BaseRecord /\ c.sql = s /\ c.active = FALSE /\ c.left = n
    BY DEF BaseRecord
  <1>4. Released(b) \in BaseRecord /\ Released(b).left = 0
    <2> DEFINE c == [b EXCEPT !.sql = NoSql, !.active = FALSE, !.left = 0]
    <2>1. 0 \in 0 .. 3
      OBVIOUS
    <2>2. c \in BaseRecord /\ c.left = 0
      BY <1>1, <1>3, <2>1, Zenon
    <2> QED BY <2>2, Zenon DEF Released
  <1>5. Called(b, sql) \in BaseRecord /\ Called(b, sql).sql = sql /\ Called(b, sql).active = FALSE
    <2>1. (IF sql = NoSql THEN 0 ELSE 3) \in 0 .. 3
      OBVIOUS
    <2> QED BY <1>3, <2>1 DEF Called
  <1>6. close(b) \in BaseRecord /\ close(b).left = b.left /\ close(b).sql = b.sql
        /\ close(b).active = b.active
    BY DEF BaseRecord, close
  <1> QED BY <1>2, <1>4, <1>5, <1>6

(* What the database can be asked for leaves rows.                         *)
LEMMA EffectIs ==
    ASSUME rows \in SUBSET Row, NEW sql \in Sql
    PROVE  Effect(sql) \in SUBSET Row
  <1>1. CASE sql \in {NoSql, [op |-> "read"]}
    BY <1>1 DEF Effect, NoSql
  <1>2. CASE sql = truncate_query(Leaf)
    BY <1>2 DEF Effect, truncate_query, Selected
  <1>3. ASSUME NEW r \in Range(NewRows), sql = [op |-> "insert", row |-> r]
        PROVE  Effect(sql) \in SUBSET Row
    BY <1>3, NewRowsAre DEF Effect
  <1>4. ASSUME NEW r \in Range(NewRows), sql = [op |-> "replace", row |-> r]
        PROVE  Effect(sql) \in SUBSET Row
    BY <1>4, NewRowsAre DEF Effect
  <1>5. ASSUME NEW i \in Indices, sql = Statement(i) PROVE Effect(sql) \in SUBSET Row
    BY <1>5, AfterIs, Survivors
  <1> QED BY <1>1, <1>2, <1>3, <1>4, <1>5 DEF Sql

LEMMA DataInitInv == ASSUME Init PROVE DataInv
  <1>1. /\ rows = FirstRows /\ base = [w \in Workers |-> NewBase] /\ work = [w \in Workers |-> Nothing]
    BY DEF Init, BaseInit
  <1>2. NewBase \in BaseRecord /\ NewBase.left = 0
    <2>1. NoSql \in Sql
      BY DEF Sql
    <2> QED BY <2>1 DEF BaseRecord, NewBase
  <1>3. DataTypes
    <2>1. rows \in SUBSET Row
      BY <1>1, RowsAssumption
    <2>2. base \in [Workers -> BaseRecord]
      BY <1>1, <1>2
    <2>3. \A w \in Workers : work[w].done \in SUBSET Indices /\ work[w].values \in Seq(Range(NewRows))
      <3> DEFINE R == Range(NewRows)
      <3>1. <<>> \in Seq(R)
        <4> HIDE DEF R
        <4> QED OBVIOUS
      <3> QED BY <1>1, <3>1, NothingIs
    <2> QED BY <2>1, <2>2, <2>3 DEF DataTypes
  <1>4. IdleInv
    BY <1>1, <1>2 DEF IdleInv
  <1>5. Intact(rows)
    BY <1>1, RowsAssumption DEF Intact
  <1>6. CascadeInv
    BY <1>1, NothingIs DEF CascadeInv, CascadeAt, Deleting
  <1> QED BY <1>3, <1>4, <1>5, <1>6 DEF DataInv

(* A step of one worker that leaves the rows alone.                        *)
LEMMA RowsStay ==
    ASSUME ThreadInv, DataInv, NEW w \in Workers, NEW t, NEW b \in BaseRecord,
           UNCHANGED <<rows, threads>>, base' = [base EXCEPT ![w] = b],
           \A v \in Workers : work'[v] = IF v = w THEN t ELSE work[v],
           \A v \in Workers \ {w} : pc'[v] = pc[v],
           t.done \in SUBSET Indices, t.values \in Seq(Range(NewRows)),
           pc'[w] # "task" => b.left = 0, b.left # 0 => ~b.active,
           t.job = "delete" =>
              /\ Root \notin t.done /\ b.sql = Statement(NextInfo(t.done)) /\ ~b.active
              /\ Cardinality(threads) = 1 => \A j \in t.done : Selects(rows, j) = {}
    PROVE  DataInv'
  <1>1. \A v \in Workers : base'[v] = IF v = w THEN b ELSE base[v]
    BY DEF DataInv, DataTypes
  <1>2. DataTypes'
    <2>1. base' \in [Workers -> BaseRecord]
      BY DEF DataInv, DataTypes
    <2>2. \A v \in Workers : /\ work'[v].done \in SUBSET Indices
                             /\ work'[v].values \in Seq(Range(NewRows))
      BY <1>1 DEF DataInv, DataTypes
    <2> QED BY <2>1, <2>2 DEF DataInv, DataTypes
  <1>3. IdleInv'
    BY <1>1 DEF DataInv, IdleInv
  <1>4. Intact(rows)'
    BY DEF DataInv, Intact
  <1>5. ASSUME NEW v \in Workers PROVE CascadeAt(v)'
    <2>1. CASE v = w
      BY <1>1, <2>1 DEF CascadeAt, Deleting
    <2>2. CASE v # w
      <3>1. work'[v] = work[v] /\ base'[v] = base[v] /\ CascadeAt(v)
        BY <1>1, <2>2 DEF DataInv, CascadeInv
      <3> QED BY <3>1 DEF CascadeAt, Deleting
    <2> QED BY <2>1, <2>2
  <1> QED BY <1>2, <1>3, <1>4, <1>5 DEF DataInv, CascadeInv

(* Every attempt: the statement was carried out once more or not, and an   *)
(* active query means that it was.                                         *)
LEMMA AttemptIs ==
    ASSUME DataInv, NEW w \in Workers, Attempt(w)
    PROVE  /\ base[w].left # 0 /\ base[w].sql \in Sql
           /\ base' \in [Workers -> BaseRecord]
           /\ \A v \in Workers \ {w} : base'[v] = base[v]
           /\ base'[w].sql = base[w].sql
           /\ base'[w].left # 0 => ~base'[w].active
           /\ rows' = rows \/ (Accepted(base[w].sql) /\ rows' = Effect(base[w].sql))
           /\ base'[w].active => rows' = Effect(base[w].sql)
  <1>1. base \in [Workers -> BaseRecord] /\ base[w] \in BaseRecord /\ base[w].sql \in Sql
    BY DEF DataInv, DataTypes, BaseRecord
  <1>2. base[w].left # 0 /\ ~base[w].active
    BY DEF Attempt, create_connection_fails, query_exec, query_error, Idle, DataInv, IdleInv
  <1>3. base[w].left - 1 \in 0 .. 3
    BY <1>1, <1>2 DEF BaseRecord
  <1>4. CASE create_connection_fails(w)
    <2> DEFINE b == [base[w] EXCEPT !.left = base[w].left - 1]
    <2>1. b \in BaseRecord /\ b.sql = base[w].sql /\ b.active = base[w].active
      BY <1>1, <1>3 DEF BaseRecord
    <2>2. base' = [base EXCEPT ![w] = b] /\ rows' = rows
      BY <1>4 DEF create_connection_fails
    <2> HIDE DEF b
    <2> QED BY <1>1, <1>2, <2>1, <2>2
  <1>5. CASE query_exec(w)
    <2> DEFINE b == [base[w] EXCEPT !.open = TRUE, !.active = TRUE, !.left = 0]
    <2>1. b \in BaseRecord /\ b.sql = base[w].sql /\ b.left = 0
      <3>1. ASSUME NEW o \in BOOLEAN, NEW a \in BOOLEAN, NEW n \in 0 .. 3
            PROVE  LET c == [base[w] EXCEPT !.open = o, !.active = a, !.left = n]
                   IN c \in BaseRecord /\ c.sql = base[w].sql /\ c.left = n
        BY <1>1 DEF BaseRecord
      <3>2. 0 \in 0 .. 3 /\ TRUE \in BOOLEAN
        OBVIOUS
      <3> QED BY <3>1, <3>2, Zenon
    <2>2. /\ base' = [base EXCEPT ![w] = b]
          /\ Accepted(base[w].sql) /\ rows' = Effect(base[w].sql)
      BY <1>1, <1>5 DEF query_exec
    <2> HIDE DEF b
    <2> QED BY <1>1, <1>2, <2>1, <2>2
  <1>6. CASE query_error(w)
    <2> DEFINE b == [close(base[w]) EXCEPT !.left = @ - 1]
    <2>1. close(base[w]) \in BaseRecord /\ close(base[w]).left = base[w].left
          /\ close(base[w]).sql = base[w].sql /\ close(base[w]).active = base[w].active
      BY <1>1, CalledIs
    <2>2. b \in BaseRecord /\ b.sql = base[w].sql /\ b.active = base[w].active
      BY <1>3, <2>1 DEF BaseRecord
    <2>3. base' = [base EXCEPT ![w] = b]
      BY <1>6, Zenon DEF query_error
    <2>4. rows' = rows \/ (Accepted(base[w].sql) /\ rows' = Effect(base[w].sql))
      BY <1>6 DEF query_error, MaybeExecuted
    <2> HIDE DEF b
    <2> QED BY <1>1, <1>2, <2>2, <2>3, <2>4
  <1> QED BY <1>4, <1>5, <1>6 DEF Attempt

LEMMA OneThread ==
    ASSUME ThreadInv, Cardinality(threads) = 1, NEW v \in threads, NEW w \in threads
    PROVE  v = w
  <1>1. IsFiniteSet(Workers)
    BY ThreadAssumption, FS_Interval DEF Workers
  <1>2. IsFiniteSet(threads)
    BY <1>1, FS_Subset DEF ThreadTypes
  <1> QED BY <1>2, FS_Singleton

LEMMA ExecuteDataInv ==
    ASSUME TwoLevels, ThreadInv, DataInv, NEW w \in Workers, Execute(w)
    PROVE  DataInv'
  <1>1. Attempt(w) /\ UNCHANGED <<threads, pc, work>>
    BY DEF Execute, threadVars
  <1>2. /\ base[w].left # 0 /\ base[w].sql \in Sql
        /\ base' \in [Workers -> BaseRecord]
        /\ \A v \in Workers \ {w} : base'[v] = base[v]
        /\ base'[w].sql = base[w].sql
        /\ base'[w].left # 0 => ~base'[w].active
        /\ rows' = rows \/ (Accepted(base[w].sql) /\ rows' = Effect(base[w].sql))
        /\ base'[w].active => rows' = Effect(base[w].sql)
    BY <1>1, AttemptIs
  <1>3. pc[w] = "task" /\ w \in threads
    BY <1>2 DEF DataInv, IdleInv, PlacesInv
  <1>4. DataTypes'
    <2>1. rows' \in SUBSET Row
      BY <1>2, EffectIs DEF DataInv, DataTypes
    <2> QED BY <1>1, <1>2, <2>1 DEF DataInv, DataTypes
  <1>5. IdleInv'
    BY <1>1, <1>2, <1>3 DEF DataInv, IdleInv
  <1>6. Intact(rows')
    BY <1>2 DEF DataInv, Accepted
  <1>7. ASSUME NEW v \in Workers PROVE CascadeAt(v)'
    <2> SUFFICES ASSUME Deleting(v)
                 PROVE  /\ Root \notin work[v].done
                        /\ base'[v].sql = Statement(NextInfo(work[v].done))
                        /\ Cardinality(threads) = 1 =>
                             /\ \A j \in work[v].done : Selects(rows', j) = {}
                             /\ base'[v].active => Selects(rows', NextInfo(work[v].done)) = {}
      BY <1>1 DEF CascadeAt, Deleting
    <2>1. /\ Root \notin work[v].done /\ work[v].done \in SUBSET Indices
          /\ base[v].sql = Statement(NextInfo(work[v].done))
          /\ Cardinality(threads) = 1 => \A j \in work[v].done : Selects(rows, j) = {}
      BY DEF DataInv, DataTypes, CascadeInv, CascadeAt
    <2>2. base'[v].sql = base[v].sql
      BY <1>2
    <2>3. ASSUME Cardinality(threads) = 1
          PROVE  /\ \A j \in work[v].done : Selects(rows', j) = {}
                 /\ base'[v].active => Selects(rows', NextInfo(work[v].done)) = {}
      <3>1. v \in threads
        BY NothingIs DEF PlacesInv, Deleting
      <3>2. v = w
        BY <1>3, <2>3, <3>1, OneThread
      <3> DEFINE i == NextInfo(work[v].done)
      <3>3. i \in Indices
        BY <2>1, NextInfoIs
      <3> HIDE DEF i
      <3>4. Effect(base[w].sql) = After(rows, i)
        BY <2>1, <3>2, <3>3, AfterIs DEF i
      <3>5. ASSUME NEW j \in work[v].done PROVE Selects(rows', j) = {}
        BY <1>2, <2>1, <2>3, <3>3, <3>4, GoneStays DEF DataInv, DataTypes
      <3>6. base'[v].active => Selects(rows', i) = {}
        BY <1>2, <3>2, <3>3, <3>4, GoneAfter DEF DataInv, DataTypes
      <3> QED BY <3>5, <3>6 DEF i
    <2> QED BY <2>1, <2>2, <2>3
  <1>8. CascadeInv'
    BY <1>7 DEF CascadeInv
  <1>9. Intact(rows)'
    BY <1>6 DEF Intact
  <1> QED BY <1>4, <1>5, <1>8, <1>9 DEF DataInv

LEMMA CallerDataInv == ASSUME ThreadInv, DataInv, Caller PROVE DataInv'
  <1>1. UNCHANGED <<rows, base, work, threads>>
    BY DEF Caller, stop, destroy, destroyed, add_task, add_nothing
  <1>2. \A w \in Workers : pc'[w] = "task" <=> pc[w] = "task"
    <2>1. CASE stop \/ destroy
      BY <2>1, Woken DEF stop, destroy, StopWakes
    <2>2. CASE destroyed
      BY <2>2 DEF destroyed
    <2>3. ASSUME NEW t \in Tasks, add_task(t) PROVE \A w \in Workers : pc'[w] = "task" <=> pc[w] = "task"
      BY <2>3, Woken DEF add_task
    <2>4. ASSUME NEW t \in Tasks, add_nothing(t) PROVE \A w \in Workers : pc'[w] = "task" <=> pc[w] = "task"
      BY <2>4 DEF add_nothing
    <2> QED BY <2>1, <2>2, <2>3, <2>4 DEF Caller
  <1>3. DataTypes' /\ IdleInv'
    BY <1>1, <1>2 DEF DataInv, DataTypes, IdleInv
  <1>4. CascadeInv' /\ Intact(rows)'
    BY <1>1 DEF DataInv, CascadeInv, CascadeAt, Deleting, Intact
  <1> QED BY <1>3, <1>4 DEF DataInv

LEMMA LoopDataInv == ASSUME ThreadInv, DataInv, NEW w \in Workers, Loop(w) PROVE DataInv'
  <1> DEFINE b == IF pc'[w] = "ended" THEN NewBase ELSE base[w]
  <1>1. /\ pc[w] \in {"test", "wait"}
        /\ \E p \in {"ended", "wait", "sleep"} : pc' = [pc EXCEPT ![w] = p]
        /\ UNCHANGED <<threads, rows, work>> /\ base' = [base EXCEPT ![w] = b]
    BY DEF Loop, test_break_flag, wait
  <1>2. /\ work[w] = Nothing /\ \A v \in Workers : work'[v] = IF v = w THEN Nothing ELSE work[v]
        /\ \A v \in Workers \ {w} : pc'[v] = pc[v]
    BY <1>1 DEF PlacesInv, ThreadTypes
  <1>3. base[w] \in BaseRecord /\ base[w].left = 0
    BY <1>1 DEF DataInv, DataTypes, IdleInv
  <1>4. b \in BaseRecord /\ b.left = 0
    <2>1. NoSql \in Sql
      BY DEF Sql
    <2>2. NewBase \in BaseRecord /\ NewBase.left = 0
      BY <1>3, <2>1, CalledIs
    <2> QED BY <1>3, <2>2
  <1>5. Nothing.done \in SUBSET Indices /\ Nothing.values \in Seq(Range(NewRows)) /\ Nothing.job # "delete"
    BY <1>2, NothingIs DEF DataInv, DataTypes
  <1> HIDE DEF b
  <1> QED BY <1>1, <1>2, <1>4, <1>5, RowsStay

(* A worker begins or goes on with a task and calls exec.                  *)
LEMMA CallsExec ==
    ASSUME TwoLevels, ThreadInv, DataInv, NEW w \in Workers, NEW t,
           UNCHANGED <<rows, threads>>,
           work' = [work EXCEPT ![w] = t], base' = [base EXCEPT ![w] = Called(@, NextSql(t))],
           \A v \in Workers \ {w} : pc'[v] = pc[v], pc'[w] = "task",
           t.done \in SUBSET Indices, t.values \in Seq(Range(NewRows)),
           t.job = "delete" =>
              /\ Root \notin t.done
              /\ Cardinality(threads) = 1 => \A j \in t.done : Selects(rows, j) = {}
    PROVE  DataInv'
  <1>1. NextSql(t) \in Sql /\ (t.job = "delete" => NextSql(t) = Statement(NextInfo(t.done)))
    BY NextSqlIs
  <1>2. base[w] \in BaseRecord
    BY DEF DataInv, DataTypes
  <1>3. PICK b \in BaseRecord : base' = [base EXCEPT ![w] = b] /\ b.sql = NextSql(t) /\ ~b.active
    <2>1. ~Called(base[w], NextSql(t)).active
      BY <1>1, <1>2, CalledIs
    <2> QED BY <1>1, <1>2, <2>1, CalledIs
  <1>4. \A v \in Workers : work'[v] = IF v = w THEN t ELSE work[v]
    BY DEF ThreadTypes
  <1>5. /\ pc'[w] # "task" => b.left = 0
        /\ b.left # 0 => ~b.active
        /\ t.done \in SUBSET Indices /\ t.values \in Seq(Range(NewRows))
    BY <1>3
  <1>6. t.job = "delete" =>
              /\ Root \notin t.done /\ b.sql = Statement(NextInfo(t.done)) /\ ~b.active
              /\ Cardinality(threads) = 1 => \A j \in t.done : Selects(rows, j) = {}
    BY <1>1, <1>3
  <1>7. /\ UNCHANGED <<rows, threads>> /\ base' = [base EXCEPT ![w] = b]
        /\ \A v \in Workers \ {w} : pc'[v] = pc[v]
    BY <1>3
  <1> QED BY <1>4, <1>5, <1>6, <1>7, RowsStay

LEMMA TakeQueryDataInv ==
    ASSUME TwoLevels, ThreadInv, DataInv, NEW w \in Workers, TakeQuery(w)
    PROVE  DataInv'
  <1>1. PICK n \in {0, Len(NewRows)}, job \in {"delete", "pending"} :
          LET t == [Nothing EXCEPT !.job = job, !.task = Head(data_queue),
                                   !.values = SubSeq(NewRows, 1, n)]
          IN Take(w, t) /\ base' = [base EXCEPT ![w] = Called(@, NextSql(t))]
    BY DEF TakeQuery
  <1> DEFINE t == [Nothing EXCEPT !.job = job, !.task = Head(data_queue),
                                  !.values = SubSeq(NewRows, 1, n)]
  <1>2. Take(w, t) /\ base' = [base EXCEPT ![w] = Called(@, NextSql(t))]
    BY <1>1
  <1>3. t.done = {} /\ t.values = SubSeq(NewRows, 1, n)
    BY TakenIs
  <1>4. SubSeq(NewRows, 1, n) \in Seq(Range(NewRows))
    <2> DEFINE R == Range(NewRows)
    <2>1. NewRows \in Seq(R)
      BY NewRowsAre
    <2> HIDE DEF R
    <2>2. SubSeq(NewRows, 1, n) \in Seq(R)
      BY <2>1
    <2> QED BY <2>2 DEF R
  <1> HIDE DEF t
  <1>5. /\ UNCHANGED <<rows, threads>> /\ work' = [work EXCEPT ![w] = t]
        /\ pc' = [pc EXCEPT ![w] = "task"]
    BY <1>2 DEF Take, take_task
  <1>6. pc'[w] = "task" /\ \A v \in Workers \ {w} : pc'[v] = pc[v]
    BY <1>5 DEF ThreadTypes
  <1> QED BY <1>2, <1>3, <1>4, <1>5, <1>6, CallsExec

LEMMA TakeCallbackDataInv ==
    ASSUME ThreadInv, DataInv, NEW w \in Workers, TakeCallback(w)
    PROVE  DataInv'
  <1> DEFINE t == [Nothing EXCEPT !.job = "callback", !.task = Head(data_queue)]
  <1>1. t.done = {} /\ t.values = <<>> /\ t.job = "callback"
    BY DEF Nothing
  <1>2. Take(w, t)
    BY DEF TakeCallback
  <1> HIDE DEF t
  <1>3. /\ UNCHANGED <<rows, threads>> /\ work' = [work EXCEPT ![w] = t]
        /\ pc[w] = "wait" /\ pc' = [pc EXCEPT ![w] = "task"]
    BY <1>2 DEF Take, take_task
  <1>4. /\ pc'[w] = "task" /\ \A v \in Workers \ {w} : pc'[v] = pc[v]
        /\ \A v \in Workers : work'[v] = IF v = w THEN t ELSE work[v]
    BY <1>3 DEF ThreadTypes
  <1>5. base[w] \in BaseRecord /\ base[w].left = 0
    BY <1>3 DEF DataInv, DataTypes, IdleInv
  <1>6. PICK b \in BaseRecord : base' = [base EXCEPT ![w] = b] /\ (b.left # 0 => ~b.active)
    <2>1. ASSUME NEW sql \in Operations, base' = [base EXCEPT ![w] = Called(@, sql)]
          PROVE  \E b \in BaseRecord : base' = [base EXCEPT ![w] = b] /\ (b.left # 0 => ~b.active)
      <3>1. sql \in Sql
        BY OperationsAre
      <3>2. Called(base[w], sql) \in BaseRecord /\ ~Called(base[w], sql).active
        BY <1>5, <3>1, CalledIs
      <3> QED BY <2>1, <3>2
    <2>2. ASSUME base' = [base EXCEPT ![w] = set_connection_info(@)]
          PROVE  \E b \in BaseRecord : base' = [base EXCEPT ![w] = b] /\ (b.left # 0 => ~b.active)
      <3>1. NoSql \in Sql
        BY DEF Sql
      <3>2. close(base[w]) \in BaseRecord /\ close(base[w]).left = 0
        BY <1>5, <3>1, CalledIs
      <3> QED BY <2>2, <3>2 DEF set_connection_info
    <2> QED BY <2>1, <2>2 DEF TakeCallback
  <1>7. t.values \in Seq(Range(NewRows))
    <2> DEFINE R == Range(NewRows)
    <2>1. <<>> \in Seq(R)
      <3> HIDE DEF R
      <3> QED OBVIOUS
    <2> QED BY <1>1, <2>1
  <1> QED BY <1>1, <1>3, <1>4, <1>6, <1>7, RowsStay

LEMMA DelGoesOnDataInv ==
    ASSUME TwoLevels, ThreadInv, DataInv, NEW w \in Workers, del_goes_on(w)
    PROVE  DataInv'
  <1> DEFINE d == work[w].done
             t == [work[w] EXCEPT !.done = d \cup {NextInfo(d)}]
  <1>1. /\ pc[w] = "task" /\ Deleting(w) /\ base[w].active /\ NextInfo(d) # Root
        /\ work' = [work EXCEPT ![w] = t] /\ base' = [base EXCEPT ![w] = Called(@, NextSql(t))]
        /\ UNCHANGED <<rows, threads, pc>>
    BY DEF del_goes_on, Returned, GoesOn, threadVars, Deleting
  <1>2. /\ Root \notin d /\ d \in SUBSET Indices
        /\ Cardinality(threads) = 1 =>
             (\A j \in d : Selects(rows, j) = {}) /\ Selects(rows, NextInfo(d)) = {}
    BY <1>1 DEF DataInv, DataTypes, CascadeInv, CascadeAt
  <1>3. t.done = d \cup {NextInfo(d)} /\ t.values = work[w].values
    BY DEF ThreadTypes, Fields
  <1>4. NextInfo(d) \in Indices
    BY <1>2, NextInfoIs
  <1>5. t.values \in Seq(Range(NewRows))
    BY <1>3 DEF DataInv, DataTypes
  <1> HIDE DEF d, t
  <1> QED BY <1>1, <1>2, <1>3, <1>4, <1>5, CallsExec

LEMMA EndsDataInv ==
    ASSUME ThreadInv, DataInv, NEW w \in Workers, NEW how, Ends(w, how)
    PROVE  DataInv'
  <1>1. /\ UNCHANGED <<rows, threads>> /\ work' = [work EXCEPT ![w] = Nothing]
        /\ base' = [base EXCEPT ![w] = Released(base[w])] /\ pc' = [pc EXCEPT ![w] = "test"]
    BY DEF Ends, task_ends
  <1>2. Released(base[w]) \in BaseRecord /\ Released(base[w]).left = 0
    <2>1. NoSql \in Sql
      BY DEF Sql
    <2> QED BY <2>1, CalledIs DEF DataInv, DataTypes
  <1>3. Nothing.done \in SUBSET Indices /\ Nothing.values \in Seq(Range(NewRows)) /\ Nothing.job # "delete"
    <2> DEFINE R == Range(NewRows)
    <2>1. <<>> \in Seq(R)
      <3> HIDE DEF R
      <3> QED OBVIOUS
    <2> QED BY <2>1, NothingIs
  <1>4. /\ \A v \in Workers \ {w} : pc'[v] = pc[v]
        /\ \A v \in Workers : work'[v] = IF v = w THEN Nothing ELSE work[v]
    BY <1>1 DEF ThreadTypes
  <1> QED BY <1>1, <1>2, <1>3, <1>4, RowsStay

LEMMA ProcessQueryDataInv ==
    ASSUME TwoLevels, ThreadInv, DataInv, NEW w \in Workers, process_query(w)
    PROVE  DataInv'
  <1> DEFINE t == [work[w] EXCEPT !.values = Tail(@)]
  <1>1. pc[w] = "task" /\ work[w].job = "pending"
    BY DEF process_query, Returned
  <1>2. CASE Ends(w, "ready")
    BY <1>2, EndsDataInv
  <1>3. CASE Len(work[w].values) > 1 /\ GoesOn(w, t)
    <2>1. /\ work' = [work EXCEPT ![w] = t] /\ base' = [base EXCEPT ![w] = Called(@, NextSql(t))]
          /\ UNCHANGED <<rows, threads, pc>>
      BY <1>3 DEF GoesOn, threadVars
    <2>2. t.done = work[w].done /\ t.values = Tail(work[w].values) /\ t.job = "pending"
      BY <1>1 DEF ThreadTypes, Fields
    <2>3. t.values \in Seq(Range(NewRows)) /\ t.done \in SUBSET Indices
      <3> DEFINE R == Range(NewRows)
      <3>1. work[w].values \in Seq(R)
        BY DEF DataInv, DataTypes
      <3> HIDE DEF R
      <3>2. Tail(work[w].values) \in Seq(R)
        BY <1>3, <3>1
      <3> QED BY <2>2, <3>2 DEF R, DataInv, DataTypes
    <2> HIDE DEF t
    <2> QED BY <1>1, <2>1, <2>2, <2>3, CallsExec
  <1> QED BY <1>2, <1>3 DEF process_query

LEMMA WorkerDataInv ==
    ASSUME TwoLevels, ThreadInv, DataInv, NEW w \in Workers, Worker(w)
    PROVE  DataInv'
  <1>1. CASE Loop(w)
    BY <1>1, LoopDataInv
  <1>2. CASE TakeQuery(w)
    BY <1>2, TakeQueryDataInv
  <1>3. CASE TakeCallback(w)
    BY <1>3, TakeCallbackDataInv
  <1>4. CASE Execute(w)
    BY <1>4, ExecuteDataInv
  <1>5. CASE del_goes_on(w)
    BY <1>5, DelGoesOnDataInv
  <1>6. CASE del_returns_true(w) \/ del_returns_false(w) \/ callback_returns(w) \/ callback_throws(w)
    BY <1>6, EndsDataInv DEF del_returns_true, del_returns_false, callback_returns, callback_throws
  <1>7. CASE process_query(w)
    BY <1>7, ProcessQueryDataInv
  <1> QED BY <1>1, <1>2, <1>3, <1>4, <1>5, <1>6, <1>7 DEF Worker

LEMMA DataNextInv == ASSUME TwoLevels, ThreadInv, DataInv, [Next]_vars PROVE DataInv'
  <1>1. CASE UNCHANGED vars
    <2>1. UNCHANGED <<rows, base, work, threads, pc>>
      BY <1>1 DEF vars, threadVars
    <2>2. DataTypes' /\ IdleInv'
      BY <2>1 DEF DataInv, DataTypes, IdleInv
    <2>3. CascadeInv' /\ Intact(rows)'
      BY <2>1 DEF DataInv, CascadeInv, CascadeAt, Deleting, Intact
    <2> QED BY <2>2, <2>3 DEF DataInv
  <1>2. CASE Caller
    BY <1>2, CallerDataInv
  <1>3. ASSUME NEW w \in Workers, Worker(w) PROVE DataInv'
    BY <1>3, WorkerDataInv
  <1> QED BY <1>1, <1>2, <1>3 DEF Next

(* The inductive invariant of the tasks and of what they do with the       *)
(* database, types included: no reference is ever without its row, what an *)
(* attempt may leave behind, and how far a cascade has come.               *)
THEOREM InvHolds == ASSUME TwoLevels PROVE Spec => [](ThreadInv /\ DataInv)
  <1>1. Init => ThreadInv /\ DataInv
    BY ThreadInitInv, DataInitInv
  <1>2. ThreadInv /\ DataInv /\ [Next]_vars => ThreadInv' /\ DataInv'
    BY ThreadNextInv, DataNextInv
  <1> QED BY <1>1, <1>2, PTL DEF Spec

-----------------------------------------------------------------------------
(* With the childs of an info gone, nothing refers to what it deletes.     *)
LEMMA NothingRefers ==
    ASSUME TwoLevels, NamesAll, NEW rs \in SUBSET Row, NEW i \in Indices,
           ~Skipped(i), ~SetsNull(i),
           \A j \in Childs(i) : Selects(rs, j) = {} \/ Skipped(j),
           NEW r \in rs, NEW p \in Selects(rs, i), p.table = Parent[r.table], p.id = r.ref
    PROVE  FALSE
  <1>1. p.table = Infos[i].table /\ p \in rs /\ r.table \in Tables
    BY RowIs DEF Selects
  <1>2. PICK j \in Childs(i) : Infos[j].table = r.table
    BY <1>1 DEF NamesAll, SetsNull
  <1>3. j \in Indices /\ j # Root /\ Infos[j].parent = i
    BY DEF Childs
  <1>4. CASE i = Root
    <2>1. ~Skipped(j)
      BY <1>3, <1>4, SkippedIs
    <2>2. r \in Selects(rs, j)
      BY <1>2, <1>3, <1>4 DEF Selects
    <2> QED BY <2>1, <2>2
  <1>5. CASE i # Root
    <2>1. Infos[i].parent = Root
      BY <1>2, <1>5, SkippedIs
    <2>2. ~Skipped(j)
      BY <1>3, <1>5, SkippedIs DEF SetsNull
    <2>3. p.ref = RowId
      BY <1>5, <2>1 DEF Selects
    <2>4. r \in Selects(rs, j)
      BY <1>1, <1>2, <1>3, <1>5, <2>3 DEF Selects
    <2> QED BY <2>2, <2>4
  <1> QED BY <1>4, <1>5

LEMMA StatementKeepsIntact ==
    ASSUME TwoLevels, NamesAll, NEW rs \in SUBSET Row, Intact(rs), NEW i \in Indices, ~Skipped(i),
           \A j \in Childs(i) : Selects(rs, j) = {} \/ Skipped(j)
    PROVE  Intact(After(rs, i))
  <1> SUFFICES ASSUME NEW r \in After(rs, i), r.ref # Null
               PROVE  \E q \in After(rs, i) : q.table = Parent[r.table] /\ q.id = r.ref
    BY DEF Intact
  <1>1. r \in rs \ Selects(rs, i)
    BY Survivors
  <1>2. PICK p \in rs : p.table = Parent[r.table] /\ p.id = r.ref
    BY <1>1 DEF Intact
  <1>3. CASE p \notin Selects(rs, i)
    BY <1>2, <1>3 DEF After
  <1>4. CASE p \in Selects(rs, i) /\ SetsNull(i)
    <2>1. [p EXCEPT !.ref = Null] \in After(rs, i)
      BY <1>4 DEF After
    <2> QED BY <1>2, <2>1, RowIs
  <1>5. CASE p \in Selects(rs, i) /\ ~SetsNull(i)
    BY <1>1, <1>2, <1>5, NothingRefers
  <1> QED BY <1>3, <1>4, <1>5

(* Delete_Row_Helper, for every set of tables and rows: as long as one     *)
(* thread uses the database and the infos name every table that refers to  *)
(* what is deleted, no statement of a cascade is rejected for a reference  *)
(* that is still there, whichever statements before it were repeated.      *)
THEOREM CascadeIsInOrder == ASSUME TwoLevels, NamesAll PROVE Spec => []CascadeInOrder
  <1>1. ThreadInv /\ DataInv => CascadeInOrder
    <2> SUFFICES ASSUME ThreadInv, DataInv, Cardinality(threads) = 1,
                        NEW w \in threads, Deleting(w)
                 PROVE  Accepted(base[w].sql)
      BY DEF CascadeInOrder
    <2>1. /\ Root \notin work[w].done /\ work[w].done \in SUBSET Indices
          /\ base[w].sql = Statement(NextInfo(work[w].done))
          /\ \A j \in work[w].done : Selects(rows, j) = {}
      BY DEF ThreadTypes, DataInv, DataTypes, CascadeInv, CascadeAt
    <2> DEFINE i == NextInfo(work[w].done)
    <2>2. i \in Indices /\ ~Skipped(i) /\ \A j \in Childs(i) : j \in work[w].done \/ Skipped(j)
      BY <2>1, NextInfoIs
    <2> HIDE DEF i
    <2>3. Intact(After(rows, i))
      BY <2>1, <2>2, StatementKeepsIntact DEF DataInv, DataTypes
    <2>4. Effect(Statement(i)) = After(rows, i) /\ Statement(i).op # "insert"
      BY <2>2, AfterIs, StatementIs
    <2> QED BY <2>1, <2>3, <2>4 DEF Accepted, i
  <1> QED BY <1>1, InvHolds, PTL

-----------------------------------------------------------------------------
(* What a statement selects depends on the row to delete.                  *)
LEMMA SelectedIsOwn ==
    ASSUME TwoLevels, rows \in SUBSET Row, Intact(rows), NEW i \in Indices, NEW r \in Selects(rows, i)
    PROVE  r \in Own
  <1> SUFFICES ASSUME NEW S, RootRow \subseteq S, Dependents(S) \subseteq S
               PROVE  r \in S
    BY DEF Own, Selects
  <1>1. r \in rows /\ r.table = Infos[i].table
    BY DEF Selects
  <1>2. CASE i = Root
    BY <1>1, <1>2 DEF Selects, RootRow
  <1>3. ASSUME NEW j \in Indices \ {Root}, Infos[j].parent = Root,
               NEW q \in rows, q.table = Infos[j].table, q.ref = RowId
        PROVE  q \in S
    <2>1. PICK p \in rows : p.table = Parent[q.table] /\ p.id = q.ref
      BY <1>3, RowIdIs DEF Intact
    <2>2. p \in RootRow
      BY <1>3, <2>1, InfosAre DEF RootRow
    <2>3. q \in Dependents(S)
      BY <2>1, <2>2 DEF Dependents
    <2> QED BY <2>3
  <1>4. CASE i # Root /\ Infos[i].parent = Root
    <2>1. r.ref = RowId
      BY <1>4 DEF Selects
    <2> QED BY <1>1, <1>3, <1>4, <2>1
  <1>5. CASE i # Root /\ Infos[i].parent # Root
    <2>1. PICK p \in rows : p.table = Infos[Infos[i].parent].table /\ p.ref = RowId /\ r.ref = p.id
      BY <1>5 DEF Selects
    <2>2. Infos[i].parent \in Indices \ {Root} /\ Infos[Infos[i].parent].parent = Root
      BY <1>5, InfosAre, SkippedIs
    <2>3. p \in S
      BY <1>3, <2>1, <2>2
    <2>4. r \in Dependents(S)
      BY <1>1, <1>5, <2>1, <2>3, InfosAre DEF Dependents
    <2> QED BY <2>4
  <1> QED BY <1>2, <1>4, <1>5

LEMMA KeptHasKey ==
    ASSUME KeptAreKept, NEW rs \in SUBSET Row, NEW i \in Indices,
           NEW r \in rs \ After(rs, i), r.table \in KeptTables
    PROVE  HasKey(After(rs, i), r)
  <1>1. r \in Selects(rs, i) /\ r.table = Infos[i].table
    BY DEF After, Selects
  <1>2. SetsNull(i)
    BY <1>1 DEF KeptAreKept, SetsNull
  <1>3. [r EXCEPT !.ref = Null] \in After(rs, i)
    BY <1>1, <1>2 DEF After
  <1> QED BY <1>3, RowIs DEF HasKey

(* The row of a cascade whose last statement was active, and which has not *)
(* yet returned: nobody brings it back.                                    *)
RootInv ==
    \A w \in Workers :
        Deleting(w) /\ base[w].active /\ NextInfo(work[w].done) = Root => Selects(rows, Root) = {}

LEMMA RootStaysGone ==
    ASSUME NotInsertedAgain, rows \in SUBSET Row, NEW sql \in Sql, Selects(rows, Root) = {}
    PROVE  Selects(Effect(sql), Root) = {}
  <1>1. \A r \in rows : ~(r.table = Infos[Root].table /\ r.id = RowId)
    BY DEF Selects
  <1>2. SUFFICES \A r \in Effect(sql) : ~(r.table = Infos[Root].table /\ r.id = RowId)
    BY DEF Selects
  <1>3. CASE sql \in {NoSql, [op |-> "read"]}
    BY <1>1, <1>3 DEF Effect, NoSql
  <1>4. CASE sql = truncate_query(Leaf)
    BY <1>1, <1>4 DEF Effect, truncate_query, Selected
  <1>5. ASSUME NEW q \in Range(NewRows),
               sql = [op |-> "insert", row |-> q] \/ sql = [op |-> "replace", row |-> q]
        PROVE  \A r \in Effect(sql) : ~(r.table = Infos[Root].table /\ r.id = RowId)
    <2>1. \A r \in Effect(sql) : r \in rows \/ r = q
      BY <1>5 DEF Effect
    <2> QED BY <1>1, <2>1 DEF NotInsertedAgain
  <1>6. ASSUME NEW i \in Indices, sql = Statement(i)
        PROVE  \A r \in Effect(sql) : ~(r.table = Infos[Root].table /\ r.id = RowId)
    BY <1>1, <1>6, AfterIs, Survivors
  <1> QED BY <1>3, <1>4, <1>5, <1>6 DEF Sql

(* Steps but for the attempts: no query becomes active.                    *)
LEMMA OtherSteps ==
    ASSUME TwoLevels, ThreadInv, DataInv, NEW w \in Workers, Worker(w), ~Execute(w)
    PROVE  /\ UNCHANGED rows
           /\ \A v \in Workers \ {w} : work'[v] = work[v] /\ base'[v] = base[v]
           /\ ~(Deleting(w)' /\ base'[w].active)
  <1>1. base \in [Workers -> BaseRecord] /\ DOMAIN work = Workers
    BY DEF ThreadTypes, DataInv, DataTypes
  <1>2. CASE Loop(w)
    <2>1. UNCHANGED <<rows, work>> /\ pc[w] # "task" /\ \E b : base' = [base EXCEPT ![w] = b]
      BY <1>2 DEF Loop, test_break_flag, wait
    <2>2. work[w].job # "delete"
      BY <2>1, NothingIs DEF PlacesInv
    <2> QED BY <1>1, <2>1, <2>2 DEF Deleting
  <1>3. ASSUME NEW t, UNCHANGED rows, work' = [work EXCEPT ![w] = t],
               base' = [base EXCEPT ![w] = Called(@, NextSql(t))]
        PROVE  /\ UNCHANGED rows
               /\ \A v \in Workers \ {w} : work'[v] = work[v] /\ base'[v] = base[v]
               /\ ~(Deleting(w)' /\ base'[w].active)
    <2>1. base'[w] = Called(base[w], NextSql(t)) /\ base[w] \in BaseRecord
      BY <1>1, <1>3
    <2>2. base'[w].active = FALSE
      BY <2>1 DEF Called, BaseRecord
    <2> QED BY <1>1, <1>3, <2>2
  <1>4. CASE TakeQuery(w)
    <2>1. \E t : /\ UNCHANGED rows /\ work' = [work EXCEPT ![w] = t]
                 /\ base' = [base EXCEPT ![w] = Called(@, NextSql(t))]
      BY <1>4 DEF TakeQuery, Take
    <2> QED BY <1>3, <2>1
  <1>5. CASE TakeCallback(w)
    <2> DEFINE t == [Nothing EXCEPT !.job = "callback", !.task = Head(data_queue)]
    <2>1. /\ UNCHANGED rows /\ work' = [work EXCEPT ![w] = t] /\ \E b : base' = [base EXCEPT ![w] = b]
      BY <1>5 DEF TakeCallback, Take
    <2>2. t.job = "callback"
      BY DEF Nothing
    <2> HIDE DEF t
    <2> QED BY <1>1, <2>1, <2>2 DEF Deleting
  <1>6. CASE del_goes_on(w) \/ (process_query(w) /\ ~Ends(w, "ready"))
    <2>1. \E t : /\ UNCHANGED rows /\ work' = [work EXCEPT ![w] = t]
                 /\ base' = [base EXCEPT ![w] = Called(@, NextSql(t))]
      BY <1>6 DEF del_goes_on, process_query, GoesOn
    <2> QED BY <1>3, <2>1
  <1>7. ASSUME NEW how, Ends(w, how)
        PROVE  /\ UNCHANGED rows
               /\ \A v \in Workers \ {w} : work'[v] = work[v] /\ base'[v] = base[v]
               /\ ~(Deleting(w)' /\ base'[w].active)
    <2>1. UNCHANGED rows /\ work' = [work EXCEPT ![w] = Nothing] /\ \E b : base' = [base EXCEPT ![w] = b]
      BY <1>7 DEF Ends
    <2> QED BY <1>1, <2>1, NothingIs DEF Deleting
  <1>8. CASE \/ del_returns_true(w) \/ del_returns_false(w) \/ callback_returns(w)
             \/ callback_throws(w) \/ (process_query(w) /\ Ends(w, "ready"))
    <2>1. \E how : Ends(w, how)
      BY <1>8 DEF del_returns_true, del_returns_false, callback_returns, callback_throws
    <2> QED BY <1>7, <2>1
  <1> QED BY <1>2, <1>4, <1>5, <1>6, <1>8 DEF Worker

LEMMA RootNextInv ==
    ASSUME TwoLevels, NotInsertedAgain, ThreadInv, DataInv, RootInv, [Next]_vars
    PROVE  RootInv'
  <1>1. CASE UNCHANGED <<rows, base, work>>
    BY <1>1 DEF RootInv, Deleting
  <1>2. ASSUME NEW w \in Workers, Worker(w), ~Execute(w) PROVE RootInv'
    <2>1. /\ UNCHANGED rows
          /\ \A v \in Workers \ {w} : work'[v] = work[v] /\ base'[v] = base[v]
          /\ ~(Deleting(w)' /\ base'[w].active)
      BY <1>2, OtherSteps
    <2> QED BY <2>1 DEF RootInv, Deleting
  <1>3. ASSUME NEW w \in Workers, Execute(w) PROVE RootInv'
    <2>1. Attempt(w) /\ UNCHANGED work
      BY <1>3 DEF Execute
    <2>2. /\ base[w].sql \in Sql /\ rows \in SUBSET Row
          /\ \A v \in Workers \ {w} : base'[v] = base[v]
          /\ rows' = rows \/ rows' = Effect(base[w].sql)
          /\ base'[w].active => rows' = Effect(base[w].sql)
      BY <2>1, AttemptIs DEF DataInv, DataTypes
    <2> SUFFICES ASSUME NEW v \in Workers, Deleting(v), base'[v].active, NextInfo(work[v].done) = Root
                 PROVE  Selects(rows', Root) = {}
      BY <2>1 DEF RootInv, Deleting
    <2>3. CASE v = w
      <3>1. base[w].sql = Statement(Root)
        BY <2>3 DEF DataInv, CascadeInv, CascadeAt
      <3>2. rows' = After(rows, Root)
        BY <2>2, <2>3, <3>1, AfterIs, InfosAre
      <3> QED BY <2>2, <3>2, GoneAfter, InfosAre
    <2>4. CASE v # w
      <3>1. Selects(rows, Root) = {}
        BY <2>2, <2>4 DEF RootInv
      <3> QED BY <2>2, <3>1, RootStaysGone
    <2> QED BY <2>3, <2>4
  <1>4. CASE UNCHANGED vars
    BY <1>1, <1>4 DEF vars
  <1>5. CASE Caller
    BY <1>1, <1>5 DEF Caller
  <1> QED BY <1>2, <1>3, <1>4, <1>5 DEF Next

(* A step of a cascade that changes the rows is a statement of it.         *)
LEMMA CascadeStep ==
    ASSUME TwoLevels, ThreadInv, DataInv, [Next]_vars, NEW w \in Workers, Deleting(w),
           rows' # rows, base'[w] # base[w]
    PROVE  \E i \in Indices : rows' = After(rows, i)
  <1>1. PICK v \in Workers : Worker(v)
    BY DEF Next, Caller, vars
  <1>2. Execute(v)
    BY <1>1, OtherSteps
  <1>3. Attempt(v)
    BY <1>2 DEF Execute
  <1>4. v = w /\ rows' = Effect(base[v].sql)
    BY <1>3, AttemptIs
  <1>5. /\ Root \notin work[w].done /\ work[w].done \in SUBSET Indices
        /\ base[w].sql = Statement(NextInfo(work[w].done))
    BY DEF DataInv, DataTypes, CascadeInv, CascadeAt
  <1>6. NextInfo(work[w].done) \in Indices
    BY <1>5, NextInfoIs
  <1> QED BY <1>4, <1>5, <1>6, AfterIs

(* Delete_Row_Helper with any number of threads on the database: a cascade *)
(* removes or changes nothing but the rows that depend on its row, keeps   *)
(* the rows of the tables that are set to null, and when del returns true  *)
(* the row is gone, provided that nobody inserts it again.                 *)
THEOREM CascadeIsExact ==
    ASSUME TwoLevels, KeptAreKept, NotInsertedAgain PROVE Spec => CascadeExact
  <1> DEFINE Inv == ThreadInv /\ DataInv /\ RootInv
             Exact == \A w \in Workers : Deleting(w) =>
                        /\ rows' # rows /\ base'[w] # base[w] =>
                             /\ rows \ rows' \subseteq Own
                             /\ \A r \in rows \ rows' : r.table \in KeptTables => HasKey(rows', r)
                        /\ RootDeleted(w) => RootRow = {}
  <1>1. Init => Inv
    BY ThreadInitInv, DataInitInv, NothingIs DEF RootInv, Init, Deleting
  <1>2. Inv /\ [Next]_vars => Inv'
    BY ThreadNextInv, DataNextInv, RootNextInv
  <1>3. Inv /\ [Next]_vars => Exact
    <2> SUFFICES ASSUME Inv, [Next]_vars, NEW w \in Workers, Deleting(w)
                 PROVE  /\ rows' # rows /\ base'[w] # base[w] =>
                             /\ rows \ rows' \subseteq Own
                             /\ \A r \in rows \ rows' : r.table \in KeptTables => HasKey(rows', r)
                        /\ RootDeleted(w) => RootRow = {}
      OBVIOUS
    <2>1. rows \in SUBSET Row /\ Intact(rows)
      BY DEF DataInv, DataTypes
    <2>2. ASSUME rows' # rows, base'[w] # base[w]
          PROVE  /\ rows \ rows' \subseteq Own
                 /\ \A r \in rows \ rows' : r.table \in KeptTables => HasKey(rows', r)
      <3>1. PICK i \in Indices : rows' = After(rows, i)
        BY <2>2, CascadeStep
      <3>2. rows \ rows' \subseteq Selects(rows, i)
        BY <3>1 DEF After
      <3> QED BY <2>1, <3>1, <3>2, SelectedIsOwn, KeptHasKey
    <2>3. RootDeleted(w) => RootRow = {}
      <3>1. RootDeleted(w) => Selects(rows, Root) = {}
        BY DEF RootDeleted, RootInv
      <3> QED BY <3>1 DEF RootRow, Selects
    <2> QED BY <2>2, <2>3
  <1>4. Inv /\ [Next]_vars => [Exact]_vars
    BY <1>3
  <1> HIDE DEF Inv, Exact
  <1>5. Spec => [][Exact]_vars
    BY <1>1, <1>2, <1>4, PTL DEF Spec
  <1> QED BY <1>5 DEF CascadeExact, Exact
=============================================================================
