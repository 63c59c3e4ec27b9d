---------------------------- MODULE SchoolProofs ----------------------------
(***************************************************************************)
(* Proofs about old-school, for any clients, tables and requests: whatever *)
(* the handlers of other connections run between two statements of one, a  *)
(* student goes to one school and the success of an enrolment is true.     *)
(***************************************************************************)
EXTENDS School, SequenceTheorems, TLAPS

Class == [school : Nat, teacher : Nat]
Serving == OnPool \cup InTransaction
Answer == [at : {"idle"}, req : Request, ok : BOOLEAN, ids : SUBSET Nat]

Shape == /\ classes \in Seq(Class)
         /\ handler \in [Clients -> [at : {"none", "idle"}] \cup Answer
                                    \cup [at : Serving, req : Request]]

\* The statements of a request are those of its method.
Adding == {"begin", "list"} \cup InTransaction
Creating == {"findSchool", "findTeacher", "isStudent", "insertClass"}
Method(c) ==
  handler[c].at \in Serving =>
    handler[c].req.method \in IF handler[c].at \in Adding THEN {"add"}
                              ELSE IF handler[c].at \in Creating THEN {"class"}
                              ELSE {"school", "newPerson", "whoami"}

(* What a handler has checked, and nothing has undone: rows are only added *)
(* and, while a transaction holds the connection, no row is.               *)
Checked(c) ==
  LET at == handler[c].at
      req == handler[c].req
  IN  /\ at \in {"findTeacher", "isStudent", "insertClass"} => req.school <= schools
      /\ at \in {"isStudent", "insertClass", "findClass", "isTeacher", "otherSchool",
                 "enrol", "commit"} => req.person <= people
      /\ at \in {"isTeacher", "otherSchool", "enrol", "commit"} => req.class \in DOMAIN classes
      /\ at \in {"enrol", "commit"} => Elsewhere(req.person, req.class) = {}
      /\ at = "commit" => pending = {<<req.class, req.person>>}
      /\ at = "list" => <<req.class, req.person>> \in enrolled

\* What the answer to an enrolment says; classes and enrolments are only added.
Shows(c) ==
  LET h == handler[c]
  IN  (h.at = "idle" /\ "req" \in DOMAIN h) =>
        /\ h.ids \subseteq DOMAIN classes
        /\ (h.req.method = "add" /\ h.ok) =>
             /\ <<h.req.class, h.req.person>> \in enrolled
             /\ h.ids \subseteq Attended(h.req.person)
             /\ \A k \in h.ids : classes[k].school = classes[h.req.class].school
             /\ h.req.class \in h.ids \/ \A k \in h.ids : k < h.req.class

PendingInv == pending # {} => \E c \in Clients : handler[c].at = "commit"

ClientOK(c) == Method(c) /\ Checked(c) /\ Shows(c)

IInv == /\ TypeOK /\ Shape /\ PendingInv /\ OneSchoolPerStudent
        /\ \A c \in Clients : ClientOK(c)

-----------------------------------------------------------------------------
LEMMA InitOK == Init => IInv
<1> SUFFICES ASSUME Init PROVE IInv
  OBVIOUS
<1>1. classes \in Seq(Class) /\ Len(classes) = 0 /\ DOMAIN classes = {}
  BY EmptySeq, LenProperties DEF Init
<1>2. TypeOK
  <2>1. {once, db, listening, crashed} \subseteq BOOLEAN /\ (db => once)
    BY DEF Init
  <2>2. /\ starts \in 0..MaxStarts /\ requests \in 0..MaxRequests
        /\ schools \in 0..MaxSchools /\ people \in 0..MaxPeople /\ Len(classes) <= MaxClasses
    BY <1>1, SchoolAssumption DEF Init, SchoolAssumption
  <2>3. \A c \in Clients : handler[c].at = "none" /\ "none" \notin InTransaction
    BY DEF Init, Closed, InTransaction
  <2>4. owner = NoClient /\ NoClient \notin Clients
    BY SchoolAssumption DEF Init, SchoolAssumption
  <2> QED BY <1>1, <2>1, <2>2, <2>3, <2>4 DEF Init, TypeOK
<1>3. Shape
  BY <1>1 DEF Init, Shape, Closed
<1>4. PendingInv /\ OneSchoolPerStudent
  BY DEF Init, PendingInv, OneSchoolPerStudent
<1>5. ASSUME NEW c \in Clients PROVE ClientOK(c)
  BY DEF Init, Closed, ClientOK, Method, Checked, Shows, Serving, OnPool, InTransaction
<1> QED BY <1>2, <1>3, <1>4, <1>5 DEF IInv

\* Rows are never changed or removed.
Grows == /\ schools \in Nat /\ schools' \in Nat /\ schools <= schools'
         /\ people \in Nat /\ people' \in Nat /\ people <= people'
         /\ \A k \in DOMAIN classes : k \in DOMAIN classes' /\ classes'[k] = classes[k]
         /\ enrolled \subseteq enrolled'

LEMMA NothingNew ==
  ASSUME TypeOK, UNCHANGED tables
  PROVE  Grows
BY SchoolAssumption DEF TypeOK, tables, Grows, SchoolAssumption

(* What the others have checked stays checked: a handler in a transaction  *)
(* is not overtaken by a write, the checks of the rest only need rows.     *)
LEMMA Others ==
  ASSUME TypeOK, Shape, Grows, NEW d \in Clients, ClientOK(d), handler'[d] = handler[d],
         handler[d].at \in InTransaction => UNCHANGED <<classes, enrolled, pending>>
  PROVE  ClientOK(d)'
<1>1. Method(d)'
  BY DEF ClientOK, Method
<1>2. Checked(d)'
  <2> DEFINE at == handler[d].at
             req == handler[d].req
  <2>1. at \in Serving => req \in Request
    BY DEF Shape, Answer, Serving, OnPool, InTransaction
  <2>2. CASE at \in InTransaction
    <3>1. Elsewhere(req.person, req.class)' = Elsewhere(req.person, req.class)
      BY <2>2 DEF Elsewhere, Attended
    <3>2. req.person <= people => req.person <= people'
      <4>1. at \in Serving /\ at \in Adding
        BY <2>2 DEF Serving, Adding
      <4>2. req.method = "add"
        BY <4>1 DEF ClientOK, Method
      <4>3. req.person \in 1..MaxPeople
        BY <2>1, <4>1, <4>2 DEF Request, Add
      <4> QED BY <4>3, SchoolAssumption DEF Grows, SchoolAssumption
    <3> QED BY <2>2, <3>1, <3>2 DEF ClientOK, Checked, InTransaction
  <2>3. CASE at \in Creating
    <3>1. req.method = "class" /\ req \in Request
      BY <2>1, <2>3 DEF ClientOK, Method, Creating, Adding, Serving, OnPool, InTransaction
    <3>2. req.school \in Nat /\ req.person \in Nat
      BY <3>1, SchoolAssumption DEF Request, Add, SchoolAssumption
    <3> QED BY <2>3, <3>2 DEF ClientOK, Checked, Creating, Grows
  <2>4. CASE at \notin InTransaction \cup Creating
    BY <2>4 DEF ClientOK, Checked, Grows, InTransaction, Creating
  <2> QED BY <2>2, <2>3, <2>4
<1>3. Shows(d)'
  <2> DEFINE h == handler[d]
  <2> SUFFICES ASSUME h.at = "idle", "req" \in DOMAIN h
               PROVE  /\ h.ids \subseteq DOMAIN classes'
                      /\ (h.req.method = "add" /\ h.ok) =>
                           /\ <<h.req.class, h.req.person>> \in enrolled'
                           /\ h.ids \subseteq Attended(h.req.person)'
                           /\ \A k \in h.ids : classes'[k].school = classes'[h.req.class].school
                           /\ h.req.class \in h.ids \/ \A k \in h.ids : k < h.req.class
    BY DEF Shows
  <2>1. Shows(d) /\ h.ids \subseteq DOMAIN classes'
    BY DEF ClientOK, Shows, Grows
  <2>2. ASSUME h.req.method = "add", h.ok
        PROVE  /\ <<h.req.class, h.req.person>> \in enrolled'
               /\ h.ids \subseteq Attended(h.req.person)'
               /\ \A k \in h.ids : classes'[k].school = classes'[h.req.class].school
    <3>1. \A p : Attended(p) \subseteq Attended(p)'
      BY DEF Grows, Attended
    <3>2. <<h.req.class, h.req.person>> \in enrolled /\ h.req.class \in DOMAIN classes
      BY <2>1, <2>2 DEF Shows, TypeOK
    <3> QED BY <2>1, <2>2, <3>1, <3>2 DEF Shows, Grows
  <2> QED BY <2>1, <2>2 DEF Shows
<1> QED BY <1>1, <1>2, <1>3 DEF ClientOK

\* A refusal says nothing.
LEMMA RefusalOK ==
  ASSUME NEW c \in Clients, NEW req, handler'[c] = Answered(req, FALSE, {})
  PROVE  ClientOK(c)'
BY DEF Answered, ClientOK, Method, Checked, Shows, Serving, OnPool, InTransaction

-----------------------------------------------------------------------------
(* A step that writes no row and neither takes nor gives back the          *)
(* connection: it only has to be right about its own handler.              *)
LEMMA ReadStep ==
  ASSUME IInv, NEW c \in Clients, handler[c].at \notin InTransaction,
         NEW h \in [at : {"none", "idle"}] \cup Answer \cup [at : OnPool, req : Request],
         handler' = [handler EXCEPT ![c] = h],
         requests' \in 0..MaxRequests,
         UNCHANGED <<lifecycle, crashed, tables, pending, owner>>,
         ClientOK(c)'
  PROVE  IInv'
<1>0. TypeOK /\ Shape /\ PendingInv /\ OneSchoolPerStudent /\ Grows
  BY NothingNew DEF IInv
<1>1. /\ handler'[c] = h
      /\ \A d \in Clients : d # c => handler'[d] = handler[d]
  BY <1>0 DEF Shape
<1>2. h.at \in {"none", "idle"} \cup OnPool
  BY DEF Answer
<1>3. OnPool \cap InTransaction = {} /\ {"none", "idle"} \cap InTransaction = {}
  BY DEF OnPool, InTransaction
<1>4. TypeOK'
  <2>1. \A d \in Clients :
          /\ handler'[d].at \in {"none", "idle"} \cup OnPool \cup InTransaction
          /\ (handler'[d].at \in InTransaction) <=> (owner' = d)
    BY <1>0, <1>1, <1>2, <1>3 DEF TypeOK
  <2> QED BY <1>0, <2>1 DEF TypeOK, lifecycle, tables
<1>5. Shape'
  <2>1. h \in [at : {"none", "idle"}] \cup Answer \cup [at : Serving, req : Request]
    BY DEF Serving
  <2> QED BY <1>0, <2>1 DEF Shape, tables
<1>6. PendingInv'
  BY <1>0, <1>1 DEF PendingInv, InTransaction
<1>7. OneSchoolPerStudent'
  BY <1>0 DEF OneSchoolPerStudent, tables
<1>8. ASSUME NEW d \in Clients PROVE ClientOK(d)'
  <2>1. CASE d = c
    BY <2>1
  <2>2. CASE d # c
    BY <1>0, <1>1, <2>2, Others DEF IInv, tables
  <2> QED BY <2>1, <2>2
<1> QED BY <1>4, <1>5, <1>6, <1>7, <1>8 DEF IInv

(* A handler that holds the connection goes on, or gives it back.          *)
LEMMA TxStep ==
  ASSUME IInv, NEW c \in Clients, handler[c].at \in InTransaction,
         NEW h \in Answer \cup [at : InTransaction, req : Request],
         handler' = [handler EXCEPT ![c] = h],
         h.at \in InTransaction => owner' = c,
         h.at = "idle" => owner' = NoClient /\ pending' = {},
         pending' # {} => h.at = "commit",
         pending' \subseteq (DOMAIN classes) \X (1..people),
         UNCHANGED <<lifecycle, crashed, requests, tables>>,
         ClientOK(c)'
  PROVE  IInv'
<1>0. TypeOK /\ Shape /\ PendingInv /\ OneSchoolPerStudent /\ Grows /\ owner = c
  BY NothingNew DEF IInv, TypeOK
<1>1. /\ handler'[c] = h
      /\ \A d \in Clients : d # c => handler'[d] = handler[d]
  BY <1>0 DEF Shape
<1>2. h.at = "idle" \/ h.at \in InTransaction
  BY DEF Answer
<1>3. "idle" \notin InTransaction /\ "commit" \in InTransaction
  BY DEF InTransaction
<1>4. TypeOK'
  <2>1. \A d \in Clients :
          /\ handler'[d].at \in {"none", "idle"} \cup OnPool \cup InTransaction
          /\ (handler'[d].at \in InTransaction) <=> (owner' = d)
    BY <1>0, <1>1, <1>2, <1>3, SchoolAssumption DEF TypeOK, SchoolAssumption
  <2>2. owner' \in Clients \cup {NoClient} /\ (pending' # {} => owner' # NoClient)
    BY <1>2, <1>3, SchoolAssumption DEF SchoolAssumption
  <2> QED BY <1>0, <2>1, <2>2 DEF TypeOK, lifecycle, tables
<1>5. Shape'
  <2>1. h \in [at : {"none", "idle"}] \cup Answer \cup [at : Serving, req : Request]
    BY DEF Serving
  <2> QED BY <1>0, <2>1 DEF Shape, tables
<1>6. PendingInv'
  BY <1>1 DEF PendingInv
<1>7. OneSchoolPerStudent'
  BY <1>0 DEF OneSchoolPerStudent, tables
<1>8. ASSUME NEW d \in Clients PROVE ClientOK(d)'
  <2>1. CASE d = c
    BY <2>1
  <2>2. CASE d # c
    <3>1. handler[d].at \notin InTransaction
      BY <1>0, <2>2 DEF TypeOK
    <3> QED BY <1>0, <1>1, <2>2, <3>1, Others DEF IInv
  <2> QED BY <2>1, <2>2
<1> QED BY <1>4, <1>5, <1>6, <1>7, <1>8 DEF IInv

-----------------------------------------------------------------------------
\* A handler with a request, and what the next step makes of it.
LEMMA Served ==
  ASSUME IInv, NEW c \in Clients, handler[c].at \in Serving
  PROVE  /\ handler[c] \in [at : Serving, req : Request]
         /\ handler[c].req \in Request /\ Method(c) /\ Checked(c)
<1>1. "none" \notin Serving /\ "idle" \notin Serving
  BY DEF Serving, OnPool, InTransaction
<1> QED BY <1>1 DEF IInv, Shape, Answer, ClientOK

LEMMA Moves ==
  ASSUME IInv, NEW c \in Clients, handler[c].at \in Serving, NEW at, Next1(c, at)
  PROVE  handler' = [handler EXCEPT ![c] = [at |-> at, req |-> handler[c].req]]
<1>1. [handler[c] EXCEPT !.at = at] = [at |-> at, req |-> handler[c].req]
  BY Served
<1> QED BY <1>1 DEF Next1, Goto

LEMMA IsAnswer ==
  ASSUME NEW req \in Request, NEW ok \in BOOLEAN, NEW ids \in SUBSET Nat
  PROVE  Answered(req, ok, ids) \in Answer /\ Answered(req, ok, ids).at = "idle"
BY DEF Answered, Answer

LEMMA ConnectionOK ==
  ASSUME IInv, NEW c \in Clients, Accept(c) \/ Disconnect(c) \/ Refuse(c)
  PROVE  IInv'
<1>1. PICK h \in [at : {"none", "idle"}] : handler' = [handler EXCEPT ![c] = h]
  BY DEF Accept, Disconnect, Refuse, Goto, Closed, Ready
<1>2. handler[c].at \notin InTransaction
  BY DEF Accept, Disconnect, Refuse, Closed, InTransaction
<1>3. /\ requests' \in 0..MaxRequests
      /\ UNCHANGED <<lifecycle, crashed, tables, pending, owner>>
  BY SchoolAssumption DEF IInv, TypeOK, Accept, Disconnect, Refuse, SchoolAssumption
<1>4. ClientOK(c)'
  <2>1. handler'[c] = h
    BY <1>1 DEF IInv, Shape
  <2> QED BY <2>1
          DEF ClientOK, Method, Checked, Shows, Serving, OnPool, InTransaction
<1> QED BY <1>1, <1>2, <1>3, <1>4, ReadStep

LEMMA ReceiveOK ==
  ASSUME IInv, NEW c \in Clients, Receive(c)
  PROVE  IInv'
<1>1. PICK req \in Request :
        handler' = [handler EXCEPT ![c] = [at |-> First[req.method], req |-> req]]
  BY DEF Receive, Goto
<1> DEFINE h == [at |-> First[req.method], req |-> req]
<1>2. /\ req.method \in {"school", "newPerson", "class", "add", "whoami"}
      /\ First[req.method] =
           CASE req.method = "school" -> "insertSchool"
             [] req.method = "newPerson" -> "insertPerson"
             [] req.method = "class" -> "findSchool"
             [] req.method = "add" -> "begin"
             [] req.method = "whoami" -> "findPerson"
  BY DEF Request, Add, First
<1>3. h \in [at : OnPool, req : Request]
  BY <1>2 DEF OnPool
<1>4. handler'[c] = h
  BY <1>1 DEF IInv, Shape
<1>5. ClientOK(c)'
  BY <1>2, <1>4
  DEF ClientOK, Method, Checked, Shows, Serving, OnPool, InTransaction, Adding, Creating
<1>6. /\ handler[c].at \notin InTransaction /\ requests' \in 0..MaxRequests
      /\ UNCHANGED <<lifecycle, crashed, tables, pending, owner>>
  BY SchoolAssumption DEF IInv, TypeOK, Receive, SchoolAssumption, InTransaction
<1> QED BY <1>1, <1>3, <1>5, <1>6, ReadStep

-----------------------------------------------------------------------------
(* A statement on the pool refuses, answers, or goes on to another.        *)
LEMMA PoolReply ==
  ASSUME IInv, NEW c \in Clients, handler[c].at \in OnPool,
         NEW ok \in BOOLEAN, NEW ids \in SUBSET Nat, Reply(c, ok, ids),
         UNCHANGED <<lifecycle, crashed, requests, tables, pending, owner>>,
         Shows(c)'
  PROVE  IInv'
<1>1. handler[c].req \in Request /\ handler[c].at \notin InTransaction
  BY Served DEF Serving, OnPool, InTransaction
<1> DEFINE h == Answered(handler[c].req, ok, ids)
<1>2. h \in Answer /\ h.at = "idle"
  BY <1>1, IsAnswer
<1>3. handler' = [handler EXCEPT ![c] = h] /\ handler'[c] = h
  BY DEF Reply, Goto, IInv, Shape
<1>4. requests' \in 0..MaxRequests
  BY DEF IInv, TypeOK
<1>5. Method(c)' /\ Checked(c)'
  BY <1>2, <1>3 DEF Method, Checked, Serving, OnPool, InTransaction
<1> QED BY <1>1, <1>2, <1>3, <1>4, <1>5, ReadStep DEF ClientOK

LEMMA PoolRefusal ==
  ASSUME IInv, NEW c \in Clients, handler[c].at \in OnPool, Reply(c, FALSE, {}),
         UNCHANGED <<lifecycle, crashed, requests, tables, pending, owner>>
  PROVE  IInv'
<1>1. handler'[c] = Answered(handler[c].req, FALSE, {})
  BY DEF Reply, Goto, IInv, Shape
<1>2. Shows(c)'
  BY <1>1, RefusalOK DEF ClientOK
<1> QED BY <1>2, PoolReply

LEMMA PoolNext ==
  ASSUME IInv, NEW c \in Clients, handler[c].at \in OnPool, NEW at \in OnPool, Next1(c, at),
         UNCHANGED <<lifecycle, crashed, requests, tables, pending, owner>>,
         handler'[c] = [at |-> at, req |-> handler[c].req] => Method(c)' /\ Checked(c)'
  PROVE  IInv'
<1> DEFINE h == [at |-> at, req |-> handler[c].req]
<1>1. handler' = [handler EXCEPT ![c] = h] /\ handler'[c] = h
  BY Moves DEF IInv, Shape, Serving
<1>2. h \in [at : OnPool, req : Request] /\ handler[c].at \notin InTransaction
  BY Served DEF Serving, OnPool, InTransaction
<1>3. ClientOK(c)' /\ requests' \in 0..MaxRequests
  BY <1>1 DEF ClientOK, Shows, OnPool, IInv, TypeOK
<1> QED BY <1>1, <1>2, <1>3, ReadStep

LEMMA FindSchoolOK ==
  ASSUME IInv, NEW c \in Clients, FindSchool(c)
  PROVE  IInv'
<1>1. /\ handler[c].at = "findSchool" /\ handler[c].at \in OnPool
      /\ UNCHANGED <<lifecycle, crashed, requests, tables, pending, owner>>
  BY DEF FindSchool, OnFree, OnPool
<1>2. Method(c) /\ Checked(c)
  BY <1>1, Served DEF Serving
<1>3. CASE handler[c].req.school <= schools /\ Next1(c, "findTeacher")
  <2>1. handler'[c] = [at |-> "findTeacher", req |-> handler[c].req] => Method(c)' /\ Checked(c)'
    BY <1>1, <1>2, <1>3
    DEF Method, Checked, tables, Serving, OnPool, InTransaction, Adding, Creating
  <2> QED BY <1>1, <1>3, <2>1, PoolNext DEF OnPool
<1>4. CASE Reply(c, FALSE, {})
  BY <1>1, <1>4, PoolRefusal
<1> QED BY <1>3, <1>4 DEF FindSchool, Check

LEMMA FindTeacherOK ==
  ASSUME IInv, NEW c \in Clients, FindTeacher(c)
  PROVE  IInv'
<1>1. /\ handler[c].at = "findTeacher" /\ handler[c].at \in OnPool
      /\ UNCHANGED <<lifecycle, crashed, requests, tables, pending, owner>>
  BY DEF FindTeacher, OnFree, OnPool
<1>2. Method(c) /\ Checked(c)
  BY <1>1, Served DEF Serving
<1>3. CASE handler[c].req.person <= people /\ Next1(c, "isStudent")
  <2>1. handler'[c] = [at |-> "isStudent", req |-> handler[c].req] => Method(c)' /\ Checked(c)'
    BY <1>1, <1>2, <1>3
    DEF Method, Checked, tables, Serving, OnPool, InTransaction, Adding, Creating
  <2> QED BY <1>1, <1>3, <2>1, PoolNext DEF OnPool
<1>4. CASE Reply(c, FALSE, {})
  BY <1>1, <1>4, PoolRefusal
<1> QED BY <1>3, <1>4 DEF FindTeacher, Check

LEMMA IsStudentOK ==
  ASSUME IInv, NEW c \in Clients, IsStudent(c)
  PROVE  IInv'
<1>1. /\ handler[c].at = "isStudent" /\ handler[c].at \in OnPool
      /\ UNCHANGED <<lifecycle, crashed, requests, tables, pending, owner>>
  BY DEF IsStudent, OnFree, OnPool
<1>2. Method(c) /\ Checked(c)
  BY <1>1, Served DEF Serving
<1>3. CASE Next1(c, "insertClass")
  <2>1. handler'[c] = [at |-> "insertClass", req |-> handler[c].req] => Method(c)' /\ Checked(c)'
    BY <1>1, <1>2, <1>3
    DEF Method, Checked, tables, Serving, OnPool, InTransaction, Adding, Creating
  <2> QED BY <1>1, <1>3, <2>1, PoolNext DEF OnPool
<1>4. CASE Reply(c, FALSE, {})
  BY <1>1, <1>4, PoolRefusal
<1> QED BY <1>3, <1>4 DEF IsStudent, Check

\* An answer to another method than add claims nothing of a school.
LEMMA WhoAmIOK ==
  ASSUME IInv, NEW c \in Clients, FindPerson(c) \/ TaughtBy(c) \/ AttendedBy(c)
  PROVE  IInv'
<1> DEFINE req == handler[c].req
<1>1. /\ handler[c].at \in {"findPerson", "taught", "attended"} /\ handler[c].at \in OnPool
      /\ UNCHANGED <<lifecycle, crashed, requests, tables, pending, owner>>
  BY DEF FindPerson, TaughtBy, AttendedBy, OnFree, OnPool
<1>2. /\ Method(c) /\ req.method \in {"school", "newPerson", "whoami"}
  BY <1>1, Served DEF Serving, Method, Adding, Creating, InTransaction
<1>3. ASSUME NEW at \in {"taught", "attended"}, Next1(c, at) PROVE IInv'
  <2>1. handler'[c] = [at |-> at, req |-> req] => Method(c)' /\ Checked(c)'
    BY <1>2 DEF Method, Checked, Serving, OnPool, InTransaction, Adding, Creating
  <2>2. at \in OnPool
    BY DEF OnPool
  <2> QED BY <1>1, <1>3, <2>1, <2>2, PoolNext
<1>4. ASSUME NEW ids \in SUBSET (DOMAIN classes), Reply(c, TRUE, ids) PROVE IInv'
  <2>1. ids \in SUBSET Nat
    <3>1. DOMAIN classes \subseteq Nat
      BY LenProperties DEF IInv, Shape
    <3> QED BY <3>1
  <2>2. handler'[c] = Answered(req, TRUE, ids)
    BY <1>4 DEF Reply, Goto, IInv, Shape
  <2>3. Shows(c)'
    BY <1>1, <1>2, <2>2 DEF Shows, Answered, tables
  <2> QED BY <1>1, <1>4, <2>1, <2>3, PoolReply
<1>5. ASSUME NEW p
      PROVE  \A ids \in Read(Taught(p)) \cup Read(Attended(p)) : ids \subseteq DOMAIN classes
  BY DEF Taught, Attended, Read
<1>6. CASE Reply(c, FALSE, {})
  BY <1>1, <1>6, PoolRefusal
<1> QED BY <1>3, <1>4, <1>5, <1>6 DEF FindPerson, TaughtBy, AttendedBy, Check

(* The list is read after Commit, as far as it can be read: the classes of *)
(* one school, that of the class just joined.                              *)
LEMMA ListOK ==
  ASSUME IInv, NEW c \in Clients, List(c)
  PROVE  IInv'
<1> DEFINE req == handler[c].req
           all == Attended(req.person)
<1>0. PICK ids \in Read(all) : Reply(c, TRUE, ids)
  BY DEF List
<1>1. /\ handler[c].at = "list" /\ handler[c].at \in OnPool /\ Reply(c, TRUE, ids)
      /\ UNCHANGED <<lifecycle, crashed, requests, tables, pending, owner>>
  BY <1>0 DEF List, OnFree, OnPool
<1>2. <<req.class, req.person>> \in enrolled
  BY <1>1, Served DEF Serving, Checked
<1>3. req.class \in DOMAIN classes
  BY <1>2 DEF IInv, TypeOK
<1>4. ids \subseteq all /\ ids \subseteq DOMAIN classes
  BY <1>0 DEF Attended, Read
<1>5. req.class \in ids \/ \A k \in ids : k < req.class
  <2>1. all \subseteq Nat /\ req.class \in all
    BY <1>2, <1>3, LenProperties DEF Attended, IInv, Shape
  <2>2. PICK top \in all \cup {0} : ids = {j \in all : j <= top}
    BY <1>0 DEF Read
  <2> QED BY <2>1, <2>2
<1>6. ASSUME NEW k \in ids PROVE classes[k].school = classes[req.class].school
  <2>1. <<k, req.person>> \in enrolled
    BY <1>4 DEF Attended
  <2>2. classes[<<k, req.person>>[1]].school = classes[<<req.class, req.person>>[1]].school
    BY <1>2, <2>1 DEF IInv, OneSchoolPerStudent
  <2> QED BY <2>2
<1>7. handler'[c] = Answered(req, TRUE, ids)
  BY <1>1 DEF Reply, Goto, IInv, Shape
<1>8. Shows(c)'
  <2>1. req.method = "add"
    BY <1>1, Served DEF Serving, Method, Adding
  <2> QED BY <1>1, <1>2, <1>4, <1>6, <1>7, <1>5, <2>1 DEF Shows, Answered, tables, Attended
<1>9. ids \in SUBSET Nat
  BY <1>4, LenProperties DEF IInv, Shape
<1> QED BY <1>1, <1>8, <1>9, PoolReply

-----------------------------------------------------------------------------
(* An insert on the pool: no transaction is open, so nobody relies on a    *)
(* row not being there.                                                    *)
LEMMA InsertStep ==
  ASSUME IInv, NEW c \in Clients, handler[c].at \in OnPool, owner = NoClient,
         NEW h \in Answer, handler' = [handler EXCEPT ![c] = h],
         Grows, schools' <= MaxSchools, people' <= MaxPeople,
         classes' \in Seq(Class), Len(classes') <= MaxClasses,
         \A k \in DOMAIN classes' : /\ classes'[k].school \in 1..schools'
                                   /\ classes'[k].teacher \in 1..people',
         UNCHANGED <<lifecycle, crashed, requests, enrolled, pending, owner>>,
         ClientOK(c)'
  PROVE  IInv'
<1>0. TypeOK /\ Shape /\ PendingInv /\ OneSchoolPerStudent
  BY DEF IInv
<1>1. /\ handler'[c] = h /\ h.at = "idle"
      /\ \A d \in Clients : d # c => handler'[d] = handler[d]
  BY <1>0 DEF Shape, Answer
<1>2. \A d \in Clients : handler[d].at \notin InTransaction
  BY <1>0, SchoolAssumption DEF TypeOK, SchoolAssumption
<1>3. TypeOK'
  <2>1. \A d \in Clients :
          /\ handler'[d].at \in {"none", "idle"} \cup OnPool \cup InTransaction
          /\ handler'[d].at \notin InTransaction /\ owner' # d
    BY <1>0, <1>1, <1>2, SchoolAssumption DEF TypeOK, SchoolAssumption, InTransaction
  <2>2. schools' \in 0..MaxSchools /\ people' \in 0..MaxPeople
    BY SchoolAssumption DEF Grows, SchoolAssumption
  <2>3. enrolled' \cup pending' \subseteq (DOMAIN classes') \X (1..people')
    <3>1. 1..people \subseteq 1..people' /\ DOMAIN classes \subseteq DOMAIN classes'
      BY DEF Grows
    <3> QED BY <1>0, <3>1 DEF TypeOK
  <2> QED BY <1>0, <2>1, <2>2, <2>3 DEF TypeOK, lifecycle
<1>4. Shape'
  BY <1>0 DEF Shape
<1>5. PendingInv'
  BY <1>0, <1>2 DEF PendingInv, InTransaction
<1>6. OneSchoolPerStudent'
  <2>1. \A e \in enrolled : e[1] \in DOMAIN classes
    BY <1>0 DEF TypeOK
  <2> QED BY <1>0, <2>1 DEF OneSchoolPerStudent, Grows
<1>7. ASSUME NEW d \in Clients PROVE ClientOK(d)'
  <2>1. CASE d = c
    BY <2>1
  <2>2. CASE d # c
    BY <1>0, <1>1, <1>2, <2>2, Others DEF IInv
  <2> QED BY <2>1, <2>2
<1> QED BY <1>3, <1>4, <1>5, <1>6, <1>7 DEF IInv

LEMMA InsertOK ==
  ASSUME IInv, NEW c \in Clients, InsertSchool(c) \/ InsertPerson(c) \/ InsertClass(c)
  PROVE  IInv'
<1> DEFINE req == handler[c].req
<1>1. /\ handler[c].at \in {"insertSchool", "insertPerson", "insertClass"}
      /\ handler[c].at \in OnPool /\ owner = NoClient
      /\ UNCHANGED <<lifecycle, crashed, requests, enrolled, pending, owner>>
  BY DEF InsertSchool, InsertPerson, InsertClass, OnFree, OnPool
<1>2. req \in Request /\ Method(c) /\ Checked(c) /\ req.method # "add"
  BY <1>1, Served DEF Serving, Method, Adding, Creating, InTransaction
<1>3. CASE Reply(c, FALSE, {}) /\ UNCHANGED tables
  BY <1>1, <1>3, PoolRefusal
<1> DEFINE Schooled == /\ schools < MaxSchools /\ schools' = schools + 1
                       /\ UNCHANGED <<people, classes>>
           Peopled == /\ people < MaxPeople /\ people' = people + 1
                      /\ UNCHANGED <<schools, classes>>
           Classed == /\ Len(classes) < MaxClasses
                      /\ classes' = Append(classes, [school |-> req.school,
                                                     teacher |-> req.person])
                      /\ UNCHANGED <<schools, people>> /\ handler[c].at = "insertClass"
<1>4. CASE Reply(c, TRUE, {}) /\ (Schooled \/ Peopled \/ Classed)
  <2> DEFINE h == Answered(req, TRUE, {})
  <2>1. handler' = [handler EXCEPT ![c] = h] /\ handler'[c] = h /\ h \in Answer
    BY <1>2, <1>4, IsAnswer DEF Reply, Goto, IInv, Shape
  <2>2. ClientOK(c)'
    BY <1>2, <2>1 DEF Answered, ClientOK, Method, Checked, Shows, Serving, OnPool, InTransaction
  <2>3. /\ schools \in Nat /\ schools <= MaxSchools /\ people \in Nat /\ people <= MaxPeople
        /\ classes \in Seq(Class) /\ Len(classes) <= MaxClasses
        /\ Len(classes) \in Nat /\ DOMAIN classes = 1..Len(classes)
        /\ \A k \in DOMAIN classes : /\ classes[k].school \in 1..schools
                                     /\ classes[k].teacher \in 1..people
    BY LenProperties, SchoolAssumption DEF IInv, TypeOK, Shape, SchoolAssumption
  <2>4. CASE Schooled
    <3>1. schools' = schools + 1 /\ schools' <= MaxSchools /\ UNCHANGED <<people, classes>>
      BY <2>3, <2>4, SchoolAssumption DEF SchoolAssumption
    <3>2. Grows /\ \A k \in DOMAIN classes' : /\ classes'[k].school \in 1..schools'
                                              /\ classes'[k].teacher \in 1..people'
      BY <1>1, <2>3, <3>1 DEF Grows
    <3> QED BY <1>1, <2>1, <2>2, <2>3, <3>1, <3>2, InsertStep
  <2>5. CASE Peopled
    <3>1. people' = people + 1 /\ people' <= MaxPeople /\ UNCHANGED <<schools, classes>>
      BY <2>3, <2>5, SchoolAssumption DEF SchoolAssumption
    <3>2. Grows /\ \A k \in DOMAIN classes' : /\ classes'[k].school \in 1..schools'
                                              /\ classes'[k].teacher \in 1..people'
      BY <1>1, <2>3, <3>1 DEF Grows
    <3> QED BY <1>1, <2>1, <2>2, <2>3, <3>1, <3>2, InsertStep
  <2>6. CASE Classed
    <3> DEFINE class == [school |-> req.school, teacher |-> req.person]
    <3>1. /\ classes' = Append(classes, class) /\ Len(classes) < MaxClasses
          /\ UNCHANGED <<schools, people>> /\ handler[c].at = "insertClass"
      BY <2>6
    <3>2. req.school \in 1..schools /\ req.person \in 1..people
      <4>1. req.method = "class"
        BY <1>2, <3>1 DEF Method, Serving, OnPool, Adding, Creating, InTransaction
      <4>2. req.school \in Nat \ {0} /\ req.person \in Nat \ {0}
        BY <1>2, <4>1, SchoolAssumption DEF Request, Add, SchoolAssumption
      <4> QED BY <1>2, <2>3, <3>1, <4>2 DEF Checked
    <3>3. class \in Class /\ class.school \in 1..schools /\ class.teacher \in 1..people
      BY <2>3, <3>2 DEF Class
    <3> HIDE DEF class
    <3>4. /\ classes' \in Seq(Class) /\ Len(classes') = Len(classes) + 1
          /\ DOMAIN classes' = 1..Len(classes) + 1
          /\ \A k \in 1..Len(classes) : classes'[k] = classes[k]
          /\ classes'[Len(classes) + 1] = class
      BY <2>3, <3>1, <3>3, AppendProperties, LenProperties
    <3>5. Len(classes') <= MaxClasses
      BY <2>3, <3>1, <3>4, SchoolAssumption DEF SchoolAssumption
    <3>6. ASSUME NEW k \in DOMAIN classes'
          PROVE  classes'[k].school \in 1..schools' /\ classes'[k].teacher \in 1..people'
      <4>1. CASE k \in 1..Len(classes)
        BY <2>3, <3>1, <3>4, <4>1
      <4>2. CASE k = Len(classes) + 1
        BY <3>1, <3>3, <3>4, <4>2
      <4> QED BY <2>3, <3>4, <4>1, <4>2
    <3>7. Grows
      BY <1>1, <2>3, <3>1, <3>4 DEF Grows
    <3> QED BY <1>1, <2>1, <2>2, <2>3, <3>1, <3>4, <3>5, <3>6, <3>7, InsertStep
  <2> QED BY <1>4, <2>4, <2>5, <2>6
<1>5. InsertSchool(c) => \/ Reply(c, FALSE, {}) /\ UNCHANGED tables
                         \/ Reply(c, TRUE, {}) /\ Schooled
  BY DEF InsertSchool, tables
<1>6. InsertPerson(c) => \/ Reply(c, FALSE, {}) /\ UNCHANGED tables
                         \/ Reply(c, TRUE, {}) /\ Peopled
  BY DEF InsertPerson, tables
<1>7. InsertClass(c) => \/ Reply(c, FALSE, {}) /\ UNCHANGED tables
                        \/ Reply(c, TRUE, {}) /\ Classed
  BY DEF InsertClass, tables, OnFree
<1> HIDE DEF Schooled, Peopled, Classed
<1> QED BY <1>3, <1>4, <1>5, <1>6, <1>7

-----------------------------------------------------------------------------
(* The connection was free: nobody was in a transaction, nothing pending.  *)
LEMMA BeginOK ==
  ASSUME IInv, NEW c \in Clients, Begin(c)
  PROVE  IInv'
<1>0. TypeOK /\ Shape /\ PendingInv /\ OneSchoolPerStudent /\ Grows
  BY NothingNew DEF IInv, Begin
<1>1. /\ handler[c].at = "begin" /\ handler[c].at \in Serving
      /\ owner = NoClient /\ owner' = c /\ Next1(c, "findStudent")
      /\ UNCHANGED <<lifecycle, crashed, requests, tables, pending>>
  BY DEF Begin, OnFree, Taken, Serving, OnPool
<1> DEFINE h == [at |-> "findStudent", req |-> handler[c].req]
<1>2. /\ h \in [at : Serving, req : Request] /\ Method(c)
      /\ handler' = [handler EXCEPT ![c] = h] /\ handler'[c] = h
      /\ \A d \in Clients : d # c => handler'[d] = handler[d]
  BY <1>0, <1>1, Served, Moves DEF Shape, Serving, InTransaction
<1>3. pending = {} /\ \A d \in Clients : handler[d].at \notin InTransaction
  BY <1>0, <1>1, SchoolAssumption DEF TypeOK, SchoolAssumption
<1>4. TypeOK'
  <2>1. \A d \in Clients :
          /\ handler'[d].at \in {"none", "idle"} \cup OnPool \cup InTransaction
          /\ (handler'[d].at \in InTransaction) <=> (owner' = d)
    BY <1>0, <1>1, <1>2, <1>3 DEF TypeOK, InTransaction
  <2> QED BY <1>0, <1>1, <1>3, <2>1 DEF TypeOK, lifecycle, tables
<1>5. Shape' /\ PendingInv' /\ OneSchoolPerStudent'
  BY <1>0, <1>1, <1>2, <1>3 DEF Shape, PendingInv, OneSchoolPerStudent, tables
<1>6. ClientOK(c)'
  BY <1>1, <1>2
  DEF ClientOK, Method, Checked, Shows, Serving, OnPool, InTransaction, Adding, Creating
<1>7. ASSUME NEW d \in Clients PROVE ClientOK(d)'
  BY <1>0, <1>2, <1>3, <1>6, Others DEF IInv
<1> QED BY <1>4, <1>5, <1>7 DEF IInv

LEMMA TxRefusal ==
  ASSUME IInv, NEW c \in Clients, handler[c].at \in InTransaction, Reply(c, FALSE, {}), Rollback,
         UNCHANGED <<lifecycle, crashed, requests, tables>>
  PROVE  IInv'
<1> DEFINE h == Answered(handler[c].req, FALSE, {})
<1>1. h \in Answer /\ h.at = "idle"
  BY Served, IsAnswer DEF Serving
<1>2. handler' = [handler EXCEPT ![c] = h] /\ handler'[c] = h
  BY DEF Reply, Goto, IInv, Shape
<1>3. ClientOK(c)'
  BY <1>2, RefusalOK
<1>4. h.at \notin InTransaction
  BY <1>1 DEF InTransaction
<1> QED BY <1>1, <1>2, <1>3, <1>4, TxStep DEF Rollback, Released

\* A check of the transaction held: nothing is pending yet.
LEMMA TxNext ==
  ASSUME IInv, NEW c \in Clients, handler[c].at \in InTransaction \ {"commit"},
         NEW at \in InTransaction \ {"commit"}, Next1(c, at),
         UNCHANGED <<lifecycle, crashed, requests, tables, pending, owner>>,
         handler'[c] = [at |-> at, req |-> handler[c].req] => Checked(c)'
  PROVE  IInv'
<1> DEFINE h == [at |-> at, req |-> handler[c].req]
<1>1. handler' = [handler EXCEPT ![c] = h] /\ handler'[c] = h
  BY Moves DEF IInv, Shape, Serving
<1>2. h \in [at : InTransaction, req : Request] /\ Method(c)
  BY Served DEF Serving
<1>3. ClientOK(c)'
  BY <1>1, <1>2 DEF ClientOK, Shows, Method, Serving, Adding, InTransaction
<1>4. owner = c /\ pending = {} /\ h.at # "idle"
  BY DEF IInv, TypeOK, PendingInv, InTransaction
<1> QED BY <1>1, <1>2, <1>3, <1>4, TxStep

LEMMA CheckTxOK ==
  ASSUME IInv, NEW c \in Clients,
         FindStudent(c) \/ FindClass(c) \/ IsTeacher(c) \/ OtherSchool(c)
  PROVE  IInv'
<1> DEFINE req == handler[c].req
           State(at) == [at |-> at, req |-> req]
<1>1. /\ handler[c].at \in {"findStudent", "findClass", "isTeacher", "otherSchool"}
      /\ handler[c].at \in InTransaction \ {"commit"} /\ handler[c].at \in Serving
      /\ UNCHANGED <<lifecycle, crashed, requests, tables>>
  BY DEF FindStudent, FindClass, IsTeacher, OtherSchool, InTx, InTransaction, Serving
<1>2. Checked(c)
  BY <1>1, Served
<1>3. CASE Reply(c, FALSE, {}) /\ Rollback
  BY <1>1, <1>3, TxRefusal
<1> DEFINE Goes(at) == Next1(c, at) /\ UNCHANGED <<owner, pending>>
<1>4. ASSUME NEW at \in {"findClass", "isTeacher", "otherSchool", "enrol"}, Goes(at),
             handler'[c] = State(at) => Checked(c)'
      PROVE  IInv'
  <2>1. at \in InTransaction \ {"commit"}
    BY DEF InTransaction
  <2> QED BY <1>1, <1>4, <2>1, TxNext
<1>5. CASE FindStudent(c)
  <2>1. CASE req.person <= people /\ Goes("findClass")
    <3>1. handler'[c] = State("findClass") => Checked(c)'
      BY <1>1, <2>1 DEF Checked, tables
    <3> QED BY <1>4, <2>1, <3>1
  <2> QED BY <1>3, <1>5, <2>1 DEF FindStudent, CheckTx
<1>6. CASE FindClass(c)
  <2>1. CASE req.class \in DOMAIN classes /\ Goes("isTeacher")
    <3>1. handler'[c] = State("isTeacher") => Checked(c)'
      BY <1>1, <1>2, <1>6, <2>1 DEF Checked, tables, FindClass, InTx
    <3> QED BY <1>4, <2>1, <3>1
  <2> QED BY <1>3, <1>6, <2>1 DEF FindClass, CheckTx
<1>7. CASE IsTeacher(c)
  <2>1. CASE Goes("otherSchool")
    <3>1. handler'[c] = State("otherSchool") => Checked(c)'
      BY <1>1, <1>2, <1>7 DEF Checked, tables, IsTeacher, InTx
    <3> QED BY <1>4, <2>1, <3>1
  <2> QED BY <1>3, <1>7, <2>1 DEF IsTeacher, CheckTx
<1>8. CASE OtherSchool(c)
  <2>1. CASE Elsewhere(req.person, req.class) = {} /\ Goes("enrol")
    <3>1. handler'[c] = State("enrol") => Checked(c)'
      BY <1>1, <1>2, <1>8, <2>1 DEF Checked, tables, OtherSchool, InTx, Elsewhere, Attended
    <3> QED BY <1>4, <2>1, <3>1
  <2> QED BY <1>3, <1>8, <2>1 DEF OtherSchool, CheckTx
<1> QED BY <1>5, <1>6, <1>7, <1>8

LEMMA EnrolOK ==
  ASSUME IInv, NEW c \in Clients, Enrol(c)
  PROVE  IInv'
<1> DEFINE req == handler[c].req
           row == <<req.class, req.person>>
           h == [at |-> "commit", req |-> req]
<1>1. /\ handler[c].at = "enrol" /\ handler[c].at \in InTransaction /\ owner = c
      /\ handler[c].at \in Serving /\ UNCHANGED <<lifecycle, crashed, requests, tables>>
  BY DEF Enrol, InTx, Taken, InTransaction, Serving
<1>2. req \in Request /\ req.method = "add" /\ Checked(c)
  BY <1>1, Served DEF Method, Adding
<1>3. CASE Reply(c, FALSE, {}) /\ Rollback
  BY <1>1, <1>3, TxRefusal
<1>4. CASE pending' = {row} /\ Next1(c, "commit") /\ UNCHANGED owner
  <2>1. handler' = [handler EXCEPT ![c] = h] /\ handler'[c] = h
    BY <1>1, <1>4, Moves DEF IInv, Shape
  <2>2. h \in [at : InTransaction, req : Request]
    BY <1>2 DEF InTransaction
  <2>3. req.class \in DOMAIN classes /\ req.person \in 1..people
    <3>1. req.person \in Nat \ {0} /\ people \in Nat
      BY <1>2, SchoolAssumption DEF Request, Add, SchoolAssumption, IInv, TypeOK
    <3>2. req.person <= people /\ req.class \in DOMAIN classes
      BY <1>1, <1>2 DEF Checked
    <3> QED BY <3>1, <3>2
  <2>4. Method(c)' /\ Shows(c)'
    BY <1>2, <2>1 DEF Method, Shows, Adding, InTransaction
  <2>5. Checked(c)'
    BY <1>1, <1>2, <1>4, <2>1 DEF Checked, tables, Elsewhere, Attended
  <2>6. pending' \subseteq (DOMAIN classes) \X (1..people)
    BY <1>4, <2>3
  <2> QED BY <1>1, <1>4, <2>1, <2>2, <2>4, <2>5, <2>6, TxStep DEF ClientOK
<1> QED BY <1>3, <1>4 DEF Enrol

(* The transaction ends, with its row or without: the answer of the last   *)
(* check still holds.                                                      *)
LEMMA CommitStep ==
  ASSUME IInv, NEW c \in Clients, handler[c].at = "commit",
         NEW h \in Answer \cup [at : {"list"}, req : Request],
         handler' = [handler EXCEPT ![c] = h],
         owner' = NoClient, pending' = {},
         enrolled' \in {enrolled, enrolled \cup pending},
         UNCHANGED <<lifecycle, crashed, requests, schools, people, classes>>,
         ClientOK(c)'
  PROVE  IInv'
<1> DEFINE req == handler[c].req
           row == <<req.class, req.person>>
<1>0. TypeOK /\ Shape /\ PendingInv /\ OneSchoolPerStudent
  BY DEF IInv
<1>1. handler[c].at \in Serving /\ owner = c
  BY <1>0 DEF TypeOK, Serving, InTransaction
<1>2. Checked(c)
  BY <1>1, Served
<1>3. pending = {row} /\ Elsewhere(req.person, req.class) = {} /\ req.class \in DOMAIN classes
  BY <1>2 DEF Checked
<1>4. /\ handler'[c] = h /\ h.at \in {"idle", "list"}
      /\ \A d \in Clients : d # c => handler'[d] = handler[d]
  BY <1>0 DEF Shape, Answer
<1>5. \A d \in Clients : d # c => handler[d].at \notin InTransaction
  BY <1>0, <1>1 DEF TypeOK
<1>6. Grows
  BY <1>0, SchoolAssumption DEF TypeOK, Grows, SchoolAssumption
<1>7. TypeOK'
  <2>1. \A d \in Clients :
          /\ handler'[d].at \in {"none", "idle"} \cup OnPool \cup InTransaction
          /\ handler'[d].at \notin InTransaction /\ owner' # d
    BY <1>0, <1>4, <1>5, SchoolAssumption DEF TypeOK, OnPool, InTransaction, SchoolAssumption
  <2>2. enrolled' \cup pending' \subseteq (DOMAIN classes') \X (1..people')
    BY <1>0 DEF TypeOK
  <2> QED BY <1>0, <2>1, <2>2 DEF TypeOK, lifecycle
<1>8. Shape' /\ PendingInv'
  <2>1. h \in [at : {"none", "idle"}] \cup Answer \cup [at : Serving, req : Request]
    BY DEF Serving, OnPool
  <2> QED BY <1>0, <2>1 DEF Shape, PendingInv
<1>9. OneSchoolPerStudent'
  <2>1. ASSUME NEW e \in enrolled, e[2] = req.person
        PROVE  classes[e[1]].school = classes[req.class].school
    <3>1. e \in (DOMAIN classes) \X (1..people)
      BY <1>0 DEF TypeOK
    <3>2. e[1] \in DOMAIN classes /\ <<e[1], req.person>> \in enrolled
      BY <2>1, <3>1
    <3>3. e[1] \in Attended(req.person)
      BY <3>2 DEF Attended
    <3> QED BY <1>3, <3>3 DEF Elsewhere
  <2>2. row[1] = req.class /\ row[2] = req.person
    OBVIOUS
  <2> HIDE DEF row
  <2>3. ASSUME NEW e \in enrolled \cup {row}, NEW f \in enrolled \cup {row}, e[2] = f[2]
        PROVE  classes[e[1]].school = classes[f[1]].school
    BY <1>0, <2>1, <2>2, <2>3 DEF OneSchoolPerStudent
  <2>4. enrolled' \subseteq enrolled \cup {row}
    BY <1>3
  <2> QED BY <2>3, <2>4 DEF OneSchoolPerStudent
<1>11. ASSUME NEW d \in Clients PROVE ClientOK(d)'
  BY <1>0, <1>4, <1>5, <1>6, Others DEF IInv
<1> QED BY <1>7, <1>8, <1>9, <1>11 DEF IInv

LEMMA CommitOK ==
  ASSUME IInv, NEW c \in Clients, Commit(c)
  PROVE  IInv'
<1> DEFINE req == handler[c].req
           h == [at |-> "list", req |-> req]
<1>1. /\ handler[c].at = "commit" /\ handler[c].at \in Serving
      /\ enrolled' = enrolled \cup pending /\ owner' = NoClient /\ pending' = {}
      /\ UNCHANGED <<lifecycle, crashed, requests, schools, people, classes>>
  BY DEF Commit, Committed, Rollback, Released, Serving, InTransaction
<1>2. req \in Request /\ req.method = "add" /\ Checked(c)
  BY <1>1, Served DEF Method, Adding, InTransaction
<1>3. handler' = [handler EXCEPT ![c] = h] /\ handler'[c] = h
  BY <1>1, Moves DEF Commit, IInv, Shape
<1>4. ClientOK(c)'
  <2>1. <<req.class, req.person>> \in enrolled'
    BY <1>1, <1>2 DEF Checked
  <2> QED BY <1>2, <1>3, <2>1
          DEF ClientOK, Method, Checked, Shows, Serving, OnPool, InTransaction, Adding
<1>5. h \in Answer \cup [at : {"list"}, req : Request]
  BY <1>2
<1> QED BY <1>1, <1>3, <1>4, <1>5, CommitStep

LEMMA CommitFailsOK ==
  ASSUME IInv, NEW c \in Clients, CommitFails(c)
  PROVE  IInv'
<1> DEFINE h == Answered(handler[c].req, FALSE, {})
<1>1. /\ handler[c].at = "commit" /\ owner' = NoClient /\ pending' = {}
      /\ enrolled' \in {enrolled, enrolled \cup pending}
      /\ UNCHANGED <<lifecycle, crashed, requests, schools, people, classes>>
  BY DEF CommitFails
<1>2. h \in Answer
  BY <1>1, Served, IsAnswer DEF Serving, InTransaction
<1>3. handler' = [handler EXCEPT ![c] = h] /\ handler'[c] = h
  BY DEF CommitFails, Reply, Goto, IInv, Shape
<1>4. ClientOK(c)'
  BY <1>3, RefusalOK
<1> QED BY <1>1, <1>2, <1>3, <1>4, CommitStep

LEMMA FailureOK ==
  ASSUME IInv, NEW c \in Clients, StatementFails(c)
  PROVE  IInv'
<1>1. CASE handler[c].at \in OnPool /\ UNCHANGED <<owner, pending>>
  BY <1>1, PoolRefusal DEF StatementFails
<1>2. CASE handler[c].at \in InTransaction \ {"commit"} /\ Rollback
  BY <1>2, TxRefusal DEF StatementFails
<1> QED BY <1>1, <1>2 DEF StatementFails

\* The process's own state; no handler, no row.
LEMMA ProcessOK ==
  ASSUME IInv, UNCHANGED <<tables, pending, owner, handler>>,
         {once', db', listening', crashed'} \subseteq BOOLEAN, db' => once',
         starts' \in 0..MaxStarts, requests' \in 0..MaxRequests
  PROVE  IInv'
<1>1. TypeOK'
  BY DEF IInv, TypeOK, tables
<1>2. Shape' /\ PendingInv' /\ OneSchoolPerStudent'
  BY DEF IInv, Shape, PendingInv, OneSchoolPerStudent, tables
<1>3. ASSUME NEW d \in Clients PROVE ClientOK(d)'
  <2>1. Grows /\ TypeOK /\ Shape /\ ClientOK(d)
    BY NothingNew DEF IInv
  <2> QED BY <2>1, Others DEF tables
<1> QED BY <1>1, <1>2, <1>3 DEF IInv

LEMMA StartOK ==
  ASSUME IInv, NEW ok \in BOOLEAN, NEW portFree \in BOOLEAN, Start(ok, portFree)
  PROVE  IInv'
<1>1. {once', db', listening', crashed'} \subseteq BOOLEAN /\ (db' => once')
  BY DEF IInv, TypeOK, Start, InitDB, Listens
<1>2. starts' \in 0..MaxStarts /\ requests' \in 0..MaxRequests
  BY SchoolAssumption DEF IInv, TypeOK, Start, SchoolAssumption
<1> QED BY <1>1, <1>2, ProcessOK DEF Start

LEMMA StopOK ==
  ASSUME IInv, Stop \/ (\E c \in Clients : NilDatabase(c)) \/ UNCHANGED vars
  PROVE  IInv'
<1> DEFINE Booleans == once \in BOOLEAN /\ db \in BOOLEAN /\ listening \in BOOLEAN
                       /\ crashed \in BOOLEAN
<1>0. Booleans /\ (db => once)
  BY DEF IInv, TypeOK
<1>1. Booleans' /\ (db' => once')
  <2>1. CASE Stop
    BY <1>0, <2>1 DEF Stop
  <2>2. CASE \E c \in Clients : NilDatabase(c)
    BY <1>0, <2>2 DEF NilDatabase, lifecycle
  <2>3. CASE UNCHANGED vars
    BY <1>0, <2>3 DEF vars, lifecycle
  <2> QED BY <2>1, <2>2, <2>3
<1>2. /\ starts' \in 0..MaxStarts /\ requests' \in 0..MaxRequests
      /\ UNCHANGED <<tables, pending, owner, handler>>
  BY DEF IInv, TypeOK, Stop, NilDatabase, vars, lifecycle
<1>3. {once', db', listening', crashed'} \subseteq BOOLEAN
  BY <1>1
<1> QED BY <1>1, <1>2, <1>3, ProcessOK

-----------------------------------------------------------------------------
LEMMA Preserved == IInv /\ [Next]_vars => IInv'
<1> SUFFICES ASSUME IInv, [Next]_vars PROVE IInv'
  OBVIOUS
<1>1. ASSUME NEW c \in Clients, Accept(c) \/ Disconnect(c) \/ Receive(c) \/ Refuse(c)
      PROVE  IInv'
  BY <1>1, ConnectionOK, ReceiveOK
<1>2. ASSUME NEW c \in Clients, Serve(c) PROVE IInv'
  BY <1>2, InsertOK, FindSchoolOK, FindTeacherOK, IsStudentOK, BeginOK, CheckTxOK, EnrolOK,
     CommitOK, CommitFailsOK, ListOK, WhoAmIOK, FailureOK, StopOK DEF Serve
<1> QED BY <1>1, <1>2, StartOK, StopOK DEF Next

LEMMA Inductive == Spec => []IInv
BY InitOK, Preserved, PTL DEF Spec

(* The database is set by the first Start or never, and who is served      *)
(* without it came through a later one.                                    *)
StartInv ==
  /\ once => starts >= 1
  /\ crashed => ~db
  /\ FirstFailureReported

LEMMA StartInvStart == Init => StartInv
BY DEF Init, StartInv, FirstFailureReported

LEMMA StartInvStep == IInv /\ StartInv /\ [Next]_vars => StartInv'
<1> SUFFICES ASSUME IInv, StartInv, [Next]_vars PROVE StartInv'
  OBVIOUS
<1>1. starts \in Nat /\ (db => once) /\ once \in BOOLEAN /\ db \in BOOLEAN
  BY SchoolAssumption DEF IInv, TypeOK, SchoolAssumption
<1>2. ASSUME NEW ok \in BOOLEAN, NEW portFree \in BOOLEAN, Start(ok, portFree) PROVE StartInv'
  <2>1. /\ starts' = starts + 1 /\ once' = TRUE /\ db' = (db \/ (~once /\ ok)) /\ ~crashed
        /\ crashed' = crashed /\ handler' = handler /\ listening' = (portFree /\ (once \/ ok))
    BY <1>2 DEF Start, InitDB, Listens
  <2>2. listening' /\ ~db' => starts >= 1
    BY <1>1, <2>1 DEF StartInv
  <2>3. ~db' /\ (\E c \in Clients : handler[c] # Closed) => starts > 1
    BY <1>1, <2>1 DEF StartInv, FirstFailureReported
  <2> QED BY <1>1, <2>1, <2>2, <2>3 DEF StartInv, FirstFailureReported
<1>3. CASE Stop \/ UNCHANGED vars
  BY <1>3 DEF Stop, vars, lifecycle, StartInv, FirstFailureReported
<1>4. ASSUME NEW c \in Clients, Accept(c) PROVE StartInv'
  BY <1>4 DEF Accept, lifecycle, StartInv, FirstFailureReported
<1>5. ASSUME NEW c \in Clients, NilDatabase(c) PROVE StartInv'
  <2>1. handler[c] # Closed
    BY <1>5 DEF NilDatabase, Closed, OnPool
  <2> QED BY <1>5, <2>1 DEF NilDatabase, lifecycle, StartInv, FirstFailureReported
<1>6. ASSUME NEW c \in Clients, handler[c].at # "none", UNCHANGED <<lifecycle, crashed>>
      PROVE  StartInv'
  <2>1. handler[c] # Closed
    BY <1>6 DEF Closed
  <2> QED BY <1>6, <2>1 DEF lifecycle, StartInv, FirstFailureReported
<1>7. ASSUME NEW c \in Clients, Disconnect(c) \/ Receive(c) \/ Refuse(c) PROVE StartInv'
  BY <1>6, <1>7 DEF Disconnect, Receive, Refuse
<1>8. ASSUME NEW c \in Clients, Serve(c), ~NilDatabase(c) PROVE StartInv'
  <2>1. handler[c].at # "none" /\ UNCHANGED <<lifecycle, crashed>>
    BY <1>8 DEF Serve, OnFree, InTx, InsertSchool, InsertPerson, FindSchool, FindTeacher,
       IsStudent, InsertClass, Begin, FindStudent, FindClass, IsTeacher, OtherSchool, Enrol,
       Commit, CommitFails, List, FindPerson, TaughtBy, AttendedBy, StatementFails, OnPool, InTransaction
  <2> QED BY <1>6, <2>1
<1> QED BY <1>2, <1>3, <1>4, <1>5, <1>7, <1>8 DEF Next

(***************************************************************************)
(* For any number of connections and requests: rows refer to rows that     *)
(* exist, the single connection of the pool has at most one owner, a       *)
(* student goes to one school (handlers.go:335-511), because the check and *)
(* the insert of an enrolment share a transaction, and only a second Start *)
(* serves without a database (storage.go:19).                              *)
(***************************************************************************)
THEOREM SchoolInvariant == Spec => []Inv
<1>1. IInv /\ StartInv => Inv
  BY DEF IInv, StartInv, Inv
<1> QED BY <1>1, Inductive, StartInvStart, StartInvStep, PTL DEF Spec

(***************************************************************************)
(* An enrolment answered with success is in the table, however the         *)
(* requests of other connections run between its transaction and its list  *)
(* (handlers.go:335-549); the list names classes of the one school only,   *)
(* and misses the class joined only if it broke off before it.             *)
(***************************************************************************)
THEOREM AnswersAreTrue == Spec => []AnswerIsTrue
<1>1. IInv => AnswerIsTrue
  <2> SUFFICES ASSUME IInv, NEW c \in Clients, handler[c].at = "idle",
                      "req" \in DOMAIN handler[c], handler[c].req \in Add, handler[c].ok
               PROVE  LET h == handler[c]
                      IN  /\ <<h.req.class, h.req.person>> \in enrolled
                          /\ h.ids \subseteq Attended(h.req.person)
                          /\ \A k \in h.ids : classes[k].school = classes[h.req.class].school
                          /\ h.req.class \in h.ids \/ \A k \in h.ids : k < h.req.class
    BY DEF AnswerIsTrue
  <2>1. handler[c].req.method = "add"
    BY DEF Add
  <2> QED BY <2>1 DEF IInv, ClientOK, Shows
<1> QED BY <1>1, Inductive, PTL

(***************************************************************************)
(* Nobody waits for himself: a handler waits only for the pool's single    *)
(* connection, which then another handler holds for its transaction, and   *)
(* that handler's next statement runs on the connection it holds           *)
(* (handlers.go:335-511).  For a busy handler of a server that has not     *)
(* crashed MayRun(c) is when a step of Serve(c) is possible, so this is    *)
(* SomebodyCanRun without ENABLED, for any number of connections.          *)
(***************************************************************************)
MayRun(c) == IF handler[c].at \in InTransaction THEN owner = c ELSE owner = NoClient \/ ~db

THEOREM NobodyWaitsForHimself ==
  Spec => [](\A c \in Busy : MayRun(c) \/ \E d \in Busy \ {c} : owner = d /\ MayRun(d))
<1>1. ASSUME IInv, NEW c \in Busy, ~MayRun(c)
      PROVE  \E d \in Busy \ {c} : owner = d /\ MayRun(d)
  <2>1. c \in Clients /\ handler[c].at \notin InTransaction /\ owner \in Clients
    BY <1>1 DEF IInv, TypeOK, Busy, MayRun
  <2>2. handler[owner].at \in InTransaction /\ owner # c
    BY <1>1, <2>1 DEF IInv, TypeOK
  <2>3. owner \in Busy \ {c} /\ MayRun(owner)
    BY <2>1, <2>2 DEF Busy, MayRun, InTransaction
  <2> QED BY <2>3
<1>2. IInv => \A c \in Busy : MayRun(c) \/ \E d \in Busy \ {c} : owner = d /\ MayRun(d)
  BY <1>1
<1> QED BY <1>2, Inductive, PTL
=============================================================================
