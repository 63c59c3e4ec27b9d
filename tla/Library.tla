------------------------------- MODULE Library ------------------------------
(***************************************************************************)
(* online-library: HTTP handlers, one goroutine per request, that look a   *)
(* book up in a map and then store, change or delete it, with no lock.     *)
(***************************************************************************)
EXTENDS FiniteSets

CONSTANTS Books, Readers  (* the keys title|author; clients, one request   *)
                          (* of each at a time                             *)

VARIABLES
  books,       (* Server.books: "absent", "in" the library or "out"        *)
  handler,     (* reader -> its handler's method, book and next map access *)
  up,          (* the process runs                                         *)
  overlappedBooks, (* history: books with two requests at a time           *)
  ledger,      (* history: the books' state as the answers tell it         *)
  disputed     (* history: answers that the ledger contradicts             *)

libraryVars == <<books, handler, up, overlappedBooks, ledger, disputed>>

Methods == {"POST", "GET", "BORROW", "RETURN", "DELETE"}
NoRequest == [next |-> "nothing"]

LibraryInit ==
  /\ books = [b \in Books |-> "absent"]
  /\ handler = [r \in Readers |-> NoRequest]
  /\ up = TRUE
  /\ overlappedBooks = {} /\ ledger = books /\ disputed = {}

Busy(b) == \E r \in Readers : handler[r] # NoRequest /\ handler[r].book = b

(* A request that passes the checks of its fields: "PUT" is split by the   *)
(* value of borrow.                                                        *)
Request(r, method, b) ==
  /\ up /\ handler[r] = NoRequest
  /\ handler' = [handler EXCEPT ![r] = [method |-> method, book |-> b, next |-> "read"]]
  /\ overlappedBooks' = overlappedBooks \cup (IF Busy(b) THEN {b} ELSE {})
  /\ UNCHANGED <<books, up, ledger, disputed>>

-----------------------------------------------------------------------------
(* What each method does with a book in a state: the lookup refuses it or  *)
(* lets the handler go on to write; a GET is answered at once.             *)

Refused(method, state) ==
  CASE method = "POST"   -> state # "absent"
    [] method = "BORROW" -> state # "in"
    [] method = "RETURN" -> state # "out"
    [] method = "DELETE" -> state = "absent"
    [] method = "GET"    -> state # "in"

(* The slip: the copy of the book is changed and not stored.               *)
NotStored(method, b) == IF method \in {"BORROW", "RETURN"} THEN books[b]
                        ELSE IF method = "POST" THEN "in" ELSE "absent"
Written(method, b) ==
  CASE method \in {"POST", "RETURN"} -> "in"
    [] method = "BORROW"             -> "out"
    [] method = "DELETE"             -> "absent"

(* The ledger is kept by the answers alone: success changes a book's state *)
(* as it says, and an answer is disputed when it does not fit.             *)
Entry(method, state) ==
  CASE method \in {"POST", "RETURN"} -> "in"
    [] method = "BORROW"             -> "out"
    [] method = "DELETE"             -> "absent"
    [] OTHER                         -> state
Fits(method, success, state) ==
  CASE method = "POST"   -> success = (state = "absent")
    [] method = "DELETE" -> success = (state # "absent")
    [] method = "RETURN" -> success = (state = "out")
    [] OTHER             -> success = (state = "in")

Answer(r, success) ==
  LET b == handler[r].book
      method == handler[r].method
  IN /\ handler' = [handler EXCEPT ![r] = NoRequest]
     /\ ledger' = IF success THEN [ledger EXCEPT ![b] = Entry(method, @)] ELSE ledger
     /\ disputed' = IF Fits(method, success, ledger[b]) THEN disputed
                    ELSE disputed \cup {b}
     /\ UNCHANGED <<up, overlappedBooks>>

Read(r) ==
  /\ up /\ handler[r].next = "read"
  /\ LET refused == Refused(handler[r].method, books[handler[r].book]) IN
     IF refused \/ handler[r].method = "GET"
     THEN Answer(r, ~refused)
     ELSE /\ handler' = [handler EXCEPT ![r].next = "write"]
          /\ UNCHANGED <<up, overlappedBooks, ledger, disputed>>
  /\ UNCHANGED books

Write(r) ==
  /\ up /\ handler[r].next = "write"
  /\ LET b == handler[r].book IN
     books' = [books EXCEPT ![b] = Written(handler[r].method, b)]
  /\ Answer(r, TRUE)

(* The runtime kills a process that it finds writing a map while another   *)
(* goroutine reads or writes it, whatever the keys.                        *)
ConcurrentMapAccess ==
  /\ up
  /\ \E r, s \in Readers : r # s /\ handler[r].next = "write" /\ handler[s].next # "nothing"
  /\ up' = FALSE
  /\ handler' = [r \in Readers |-> NoRequest]
  /\ UNCHANGED <<books, overlappedBooks, ledger, disputed>>

LibraryNext ==
  \/ \E r \in Readers, method \in Methods, b \in Books : Request(r, method, b)
  \/ \E r \in Readers : Read(r) \/ Write(r)
  \/ ConcurrentMapAccess

LibrarySpec == LibraryInit /\ [][LibraryNext]_libraryVars

-----------------------------------------------------------------------------
(* Every variable stays in its type.                                       *)
LibraryTypeOK ==
  /\ books \in [Books -> {"absent", "in", "out"}]
  /\ \A r \in Readers : handler[r] = NoRequest \/ handler[r].book \in Books
  /\ overlappedBooks \cup disputed \subseteq Books

(* As long as no two requests for one book have overlapped, whatever goes  *)
(* on for other books, every answer about it is the one that the answers   *)
(* given before call for, and the map is as they say.                      *)
AnswersAgree ==
  \A b \in Books \ overlappedBooks :
    /\ b \notin disputed
    /\ books[b] = ledger[b]
=============================================================================
