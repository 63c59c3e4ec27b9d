------------------------------- MODULE School -------------------------------
(***************************************************************************)
(* old-school: the JSON-over-TCP school server.  One handler goroutine per *)
(* connection runs the five methods against one SQLite database whose pool *)
(* has a single connection (storage.go:54), so a statement waits while a   *)
(* transaction holds it, and between two statements of a handler that      *)
(* opened no transaction every other handler may run.                      *)
(*                                                                         *)
(* People and schools are their autoincrement ids; a class is its row.     *)
(* Any statement may fail.  The code answers that with an error, but for a *)
(* list whose rows stop coming: rows.Err() is never asked, and the rows    *)
(* read so far are the answer.                                             *)
(***************************************************************************)
EXTENDS Naturals, Sequences

CONSTANTS Clients,      \* connections a client may open
          NoClient,     \* the pool's connection is free
          MaxSchools, MaxPeople, MaxClasses,  \* bounds on the rows of a table
          MaxRequests,  \* bound on the requests of all clients together
          MaxStarts     \* bound on the calls of Start

ASSUME SchoolAssumption == /\ NoClient \notin Clients
                           /\ {MaxSchools, MaxPeople, MaxClasses} \subseteq Nat
                           /\ {MaxRequests, MaxStarts} \subseteq Nat

VARIABLES once,      \* dbOnce has run
          db,        \* s.db is set
          listening, \* s.listener is open
          crashed,   \* a handler used a nil s.db
          starts, requests,                    \* counters for the bounds
          schools, people, classes, enrolled,  \* the committed tables
          pending,   \* rows of the open transaction
          owner,     \* who holds the single connection across statements
          handler    \* per connection: where handleConn is, its request, its answer

tables == <<schools, people, classes, enrolled>>
lifecycle == <<once, db, listening, starts>>
vars == <<lifecycle, crashed, requests, tables, pending, owner, handler>>

(***************************************************************************)
(* Requests that pass validation.  An id may name no row.                  *)
(***************************************************************************)
Add == [method: {"add"}, person: 1..MaxPeople, class: 1..MaxClasses]
Request == [method: {"school", "newPerson"}]
             \cup [method: {"class"}, school: 1..MaxSchools, person: 1..MaxPeople]
             \cup Add
             \cup [method: {"whoami"}, person: 1..MaxPeople]

First == [school |-> "insertSchool", newPerson |-> "insertPerson",
          class |-> "findSchool", add |-> "begin", whoami |-> "findPerson"]

OnPool == {"insertSchool", "insertPerson", "findSchool", "findTeacher",
           "isStudent", "insertClass", "begin", "list", "findPerson",
           "taught", "attended"}
InTransaction == {"findStudent", "findClass", "isTeacher", "otherSchool",
                  "enrol", "commit"}

Taught(p) == {k \in DOMAIN classes : classes[k].teacher = p}
Attended(p) == {k \in DOMAIN classes : <<k, p>> \in enrolled}

Closed == [at |-> "none"]
Ready == [at |-> "idle"]
\* The classes field of the answer is Person.Classes; a refusal has none.
Answered(req, ok, ids) == [at |-> "idle", req |-> req, ok |-> ok, ids |-> ids]

(***************************************************************************)
(* Every variable stays in its type: rows refer to rows that exist, the    *)
(* connection is held by the handler inside a transaction and by no other, *)
(* and rows are pending only while somebody holds it.                      *)
(***************************************************************************)
TypeOK ==
  /\ {once, db, listening, crashed} \subseteq BOOLEAN
  /\ db => once
  /\ starts \in 0..MaxStarts /\ requests \in 0..MaxRequests
  /\ schools \in 0..MaxSchools /\ people \in 0..MaxPeople
  /\ Len(classes) <= MaxClasses
  /\ \A k \in DOMAIN classes : /\ classes[k].school \in 1..schools
                               /\ classes[k].teacher \in 1..people
  /\ enrolled \cup pending \subseteq (DOMAIN classes) \X (1..people)
  /\ owner \in Clients \cup {NoClient}
  /\ \A c \in Clients : /\ handler[c].at \in {"none", "idle"} \cup OnPool \cup InTransaction
                        /\ (handler[c].at \in InTransaction) <=> (owner = c)
  /\ pending # {} => owner # NoClient

Init ==
  /\ once = FALSE /\ db = FALSE /\ listening = FALSE /\ crashed = FALSE
  /\ starts = 0 /\ requests = 0
  /\ schools = 0 /\ people = 0 /\ classes = <<>> /\ enrolled = {}
  /\ pending = {} /\ owner = NoClient
  /\ handler = [c \in Clients |-> Closed]

(***************************************************************************)
(* Start, Stop and the connections.  Only the first Start initialises the  *)
(* database; when that fails sync.Once has still run, and a later Start    *)
(* gets a nil error and listens without a database.  The port may be taken.*)
(***************************************************************************)
InitDB(ok) == /\ once' = TRUE
              /\ db' = (db \/ (~once /\ ok))

Listens(ok) == once \/ ok

Start(ok, portFree) ==
  /\ ~listening /\ starts < MaxStarts /\ ~crashed
  /\ starts' = starts + 1
  /\ InitDB(ok)
  /\ listening' = (portFree /\ Listens(ok))
  /\ UNCHANGED <<crashed, requests, tables, pending, owner, handler>>

\* Open connections are kept.
Stop ==
  /\ listening /\ ~crashed
  /\ listening' = FALSE
  /\ UNCHANGED <<once, db, starts, crashed, requests, tables, pending, owner, handler>>

Goto(c, state) == handler' = [handler EXCEPT ![c] = state]

Accept(c) ==
  /\ listening /\ ~crashed /\ handler[c] = Closed
  /\ Goto(c, Ready)
  /\ UNCHANGED <<lifecycle, crashed, requests, tables, pending, owner>>

\* A client that vanishes during a request is noticed only here, at the next
\* Decode, because the error of Encode is ignored.
Disconnect(c) ==
  /\ handler[c].at = "idle" /\ ~crashed
  /\ Goto(c, Closed)
  /\ UNCHANGED <<lifecycle, crashed, requests, tables, pending, owner>>

Room(method) == CASE method = "school" -> schools < MaxSchools
                  [] method = "newPerson" -> people < MaxPeople
                  [] method = "class" -> Len(classes) < MaxClasses
                  [] OTHER -> TRUE

Receive(c) ==
  /\ handler[c].at = "idle" /\ requests < MaxRequests /\ ~crashed
  /\ \E req \in Request :
       /\ Room(req.method)
       /\ Goto(c, [at |-> First[req.method], req |-> req])
  /\ requests' = requests + 1
  /\ UNCHANGED <<lifecycle, crashed, tables, pending, owner>>

\* An unknown method or a payload that fails validation: no statement runs.
Refuse(c) ==
  /\ handler[c].at = "idle" /\ requests < MaxRequests /\ ~crashed
  /\ requests' = requests + 1
  /\ Goto(c, Ready)
  /\ UNCHANGED <<lifecycle, crashed, tables, pending, owner>>

(***************************************************************************)
(* Statements.  OnFree runs one on the pool, which needs the connection    *)
(* free; InTx runs one on the connection the handler's transaction holds.  *)
(***************************************************************************)
Taken(c) == c

\* A slip: an early return that forgets the Rollback.
ReleasedNot == owner
Released == NoClient

OnFree(c, at) == /\ handler[c].at = at /\ owner = NoClient /\ db /\ ~crashed
                 /\ UNCHANGED <<lifecycle, crashed, requests, pending>>
InTx(c, at) == /\ handler[c].at = at /\ owner = Taken(c) /\ ~crashed
               /\ UNCHANGED <<lifecycle, crashed, requests, tables>>

Next1(c, at) == Goto(c, [handler[c] EXCEPT !.at = at])
Reply(c, ok, ids) == Goto(c, Answered(handler[c].req, ok, ids))

\* A statement of the checks: go on or refuse.
Check(c, holds, at) == IF holds THEN Next1(c, at) ELSE Reply(c, FALSE, {})

InsertSchool(c) ==
  /\ OnFree(c, "insertSchool")
  /\ IF schools < MaxSchools
     THEN schools' = schools + 1 /\ Reply(c, TRUE, {})
     ELSE UNCHANGED schools /\ Reply(c, FALSE, {})
  /\ UNCHANGED <<people, classes, enrolled, owner>>

InsertPerson(c) ==
  /\ OnFree(c, "insertPerson")
  /\ IF people < MaxPeople
     THEN people' = people + 1 /\ Reply(c, TRUE, {})
     ELSE UNCHANGED people /\ Reply(c, FALSE, {})
  /\ UNCHANGED <<schools, classes, enrolled, owner>>

\* handleCreateClass: four statements, no transaction.
FindSchool(c) ==
  /\ OnFree(c, "findSchool")
  /\ Check(c, handler[c].req.school <= schools, "findTeacher")
  /\ UNCHANGED <<tables, owner>>

FindTeacher(c) ==
  /\ OnFree(c, "findTeacher")
  /\ Check(c, handler[c].req.person <= people, "isStudent")
  /\ UNCHANGED <<tables, owner>>

IsStudent(c) ==
  /\ OnFree(c, "isStudent")
  /\ Check(c, Attended(handler[c].req.person) = {}, "insertClass")
  /\ UNCHANGED <<tables, owner>>

InsertClass(c) ==
  /\ OnFree(c, "insertClass")
  /\ IF Len(classes) < MaxClasses
     THEN /\ classes' = Append(classes, [school |-> handler[c].req.school,
                                         teacher |-> handler[c].req.person])
          /\ Reply(c, TRUE, {})
     ELSE UNCHANGED classes /\ Reply(c, FALSE, {})
  /\ UNCHANGED <<schools, people, enrolled, owner>>

(***************************************************************************)
(* handleAddStudentToClass: a transaction, then a separate query for the   *)
(* answer.  Every early return runs the deferred Rollback.                 *)
(***************************************************************************)
Begin(c) ==
  /\ OnFree(c, "begin")
  /\ owner' = Taken(c)
  /\ Next1(c, "findStudent")
  /\ UNCHANGED tables

Rollback == owner' = Released /\ pending' = {}
CheckTx(c, holds, at) ==
  IF holds THEN Next1(c, at) /\ UNCHANGED <<owner, pending>>
           ELSE Reply(c, FALSE, {}) /\ Rollback

FindStudent(c) ==
  InTx(c, "findStudent") /\ CheckTx(c, handler[c].req.person <= people, "findClass")

FindClass(c) ==
  InTx(c, "findClass") /\ CheckTx(c, handler[c].req.class \in DOMAIN classes, "isTeacher")

IsTeacher(c) ==
  InTx(c, "isTeacher") /\ CheckTx(c, Taught(handler[c].req.person) = {}, "otherSchool")

\* A slip: `=` for `<>` in the query.
ElsewhereSame(p, k) == {j \in Attended(p) : classes[j].school = classes[k].school}
Elsewhere(p, k) == {j \in Attended(p) : classes[j].school # classes[k].school}

OtherSchool(c) ==
  /\ InTx(c, "otherSchool")
  /\ CheckTx(c, Elsewhere(handler[c].req.person, handler[c].req.class) = {}, "enrol")

\* The primary key refuses a pair that is already there.
Enrol(c) ==
  LET row == <<handler[c].req.class, handler[c].req.person>>
  IN  /\ InTx(c, "enrol")
      /\ \/ row \in enrolled /\ Reply(c, FALSE, {}) /\ Rollback
         \/ /\ row \notin enrolled
            /\ pending' = {row} /\ Next1(c, "commit") /\ UNCHANGED owner

\* A slip: no Commit, so the deferred Rollback drops the row.
CommittedNone == enrolled
Committed == enrolled \cup pending

Commit(c) ==
  /\ handler[c].at = "commit" /\ owner = Taken(c) /\ ~crashed
  /\ enrolled' = Committed
  /\ Rollback
  /\ Next1(c, "list")
  /\ UNCHANGED <<lifecycle, crashed, requests, schools, people, classes>>

\* After a failed Commit the deferred Rollback does nothing, the transaction
\* being done for database/sql: the row is dropped, or is there all the same.
CommitFails(c) ==
  /\ handler[c].at = "commit" /\ owner = Taken(c) /\ ~crashed
  /\ enrolled' \in {enrolled, enrolled \cup pending}
  /\ owner' = NoClient /\ pending' = {}
  /\ Reply(c, FALSE, {})
  /\ UNCHANGED <<lifecycle, crashed, requests, schools, people, classes>>

\* What a loop over rows.Next() collects of ids in their order: all of them,
\* or the first ones when the query fails while it is read.
Read(ids) == {{j \in ids : j <= k} : k \in ids \cup {0}}

List(c) ==
  /\ OnFree(c, "list")
  /\ \E ids \in Read(Attended(handler[c].req.person)) : Reply(c, TRUE, ids)
  /\ UNCHANGED <<tables, owner>>

(***************************************************************************)
(* handleWhoAmI: three statements, no transaction.                         *)
(***************************************************************************)
FindPerson(c) ==
  /\ OnFree(c, "findPerson")
  /\ Check(c, handler[c].req.person <= people, "taught")
  /\ UNCHANGED <<tables, owner>>

TaughtBy(c) ==
  /\ OnFree(c, "taught")
  /\ \E ids \in Read(Taught(handler[c].req.person)) :
       IF ids # {} THEN Reply(c, TRUE, ids) ELSE Next1(c, "attended")
  /\ UNCHANGED <<tables, owner>>

AttendedBy(c) ==
  /\ OnFree(c, "attended")
  /\ \E ids \in Read(Attended(handler[c].req.person)) : Reply(c, TRUE, ids)
  /\ UNCHANGED <<tables, owner>>

(***************************************************************************)
(* A statement fails: the handler refuses and, in a transaction, rolls     *)
(* back (Read and CommitFails are the two failures that end otherwise).    *)
(* Without a database the statement is a nil dereference, which ends the   *)
(* process.                                                                *)
(***************************************************************************)
StatementFails(c) ==
  /\ db /\ ~crashed
  /\ \/ handler[c].at \in OnPool /\ owner = NoClient /\ UNCHANGED <<owner, pending>>
     \/ handler[c].at \in InTransaction \ {"commit"} /\ Rollback
  /\ Reply(c, FALSE, {})
  /\ UNCHANGED <<lifecycle, crashed, requests, tables>>

NilDatabase(c) ==
  /\ handler[c].at \in OnPool /\ ~db /\ ~crashed
  /\ crashed' = TRUE
  /\ UNCHANGED <<lifecycle, requests, tables, pending, owner, handler>>

Serve(c) ==
  \/ InsertSchool(c) \/ InsertPerson(c)
  \/ FindSchool(c) \/ FindTeacher(c) \/ IsStudent(c) \/ InsertClass(c)
  \/ Begin(c) \/ FindStudent(c) \/ FindClass(c) \/ IsTeacher(c)
  \/ OtherSchool(c) \/ Enrol(c) \/ Commit(c) \/ CommitFails(c) \/ List(c)
  \/ FindPerson(c) \/ TaughtBy(c) \/ AttendedBy(c)
  \/ StatementFails(c) \/ NilDatabase(c)

Next ==
  \/ \E ok, portFree \in BOOLEAN : Start(ok, portFree)
  \/ Stop
  \/ \E c \in Clients : Accept(c) \/ Disconnect(c) \/ Receive(c) \/ Refuse(c) \/ Serve(c)

Spec == Init /\ [][Next]_vars

-----------------------------------------------------------------------------
(***************************************************************************)
(* A student is enrolled in classes of one school only (README.md:42),     *)
(* whatever the requests of other connections do between the check and the *)
(* insert: the transaction holds the only connection.                      *)
(***************************************************************************)
OneSchoolPerStudent ==
  \A e, f \in enrolled : e[2] = f[2] => classes[e[1]].school = classes[f[1]].school

(***************************************************************************)
(* Whoever reports an initialisation that failed does not listen: a server *)
(* is open, has a connection or ends on a nil database only after Start    *)
(* was called again, when sync.Once has forgotten the error (storage.go:19)*)
(***************************************************************************)
FirstFailureReported ==
  (~db /\ (listening \/ crashed \/ \E c \in Clients : handler[c] # Closed)) => starts > 1

(***************************************************************************)
(* The invariant of the server: the connection has one owner, rows refer   *)
(* to rows that exist, a student goes to one school, and nobody is served  *)
(* without a database but after a second Start.                            *)
(***************************************************************************)
Inv == TypeOK /\ OneSchoolPerStudent /\ FirstFailureReported

(***************************************************************************)
(* An enrolment answered with success is in the database, although its     *)
(* list is read after the transaction, by a statement of its own that may  *)
(* break off: the list names classes of that student and of one school     *)
(* only, and misses the class joined only if it broke off before it.       *)
(***************************************************************************)
AnswerIsTrue ==
  \A c \in Clients :
    LET h == handler[c]
    IN  (h.at = "idle" /\ "req" \in DOMAIN h) =>
          ((h.req \in Add /\ h.ok) =>
             /\ <<h.req.class, h.req.person>> \in enrolled
             /\ h.ids \subseteq Attended(h.req.person)
             /\ \A k \in h.ids : classes[k].school = classes[h.req.class].school
             /\ h.req.class \in h.ids \/ \A k \in h.ids : k < h.req.class)

Busy == {c \in Clients : handler[c].at \notin {"none", "idle"}}

(***************************************************************************)
(* The handlers never all wait for the database's single connection: while *)
(* one has a request, one of them can run its next statement.  A query on  *)
(* the pool inside a transaction would wait for itself.                    *)
(***************************************************************************)
SomebodyCanRun == (Busy # {} /\ ~crashed) => \E c \in Busy : ENABLED Serve(c)

(***************************************************************************)
(* entity.go:46 "A person cannot be both teacher and student."             *)
(* CreateClass checks class_students and inserts in separate statements,   *)
(* so an enrolment may commit in between.                                  *)
(***************************************************************************)
NeverBoth == \A p \in 1..people : Taught(p) = {} \/ Attended(p) = {}
=============================================================================
