--------------------------- MODULE ServerLifecycle --------------------------
(***************************************************************************)
(* The goroutines of the message broker and how they end                   *)
(* (message-broker/server/server.go): the accept loop of Run, one handler  *)
(* per connection, one dispatcher per topic, and Stop, which is called by  *)
(* the embedding program or by a shutdown request.  What a dispatcher      *)
(* sends, and in which order, is the subject of Topic; here it matters     *)
(* only that it writes to subscribers and may block on one.                *)
(***************************************************************************)
EXTENDS Integers, FiniteSets

CONSTANTS
  Conns,   (* connections that peers open                                  *)
  Topics,  (* topic names that requests mention                            *)
  NoTopic, (* not a topic name                                             *)
  NoConn   (* not a connection                                             *)

ASSUME LifecycleAssumption ==
  /\ IsFiniteSet(Conns) /\ IsFiniteSet(Topics)
  /\ NoTopic \notin Topics /\ NoConn \notin Conns

VARIABLES
  runpc,     (* where Run is                                               *)
  accepted,  (* the local conn of Run                                      *)
  lnStored,  (* Server.ln is not nil                                       *)
  lnOpen,    (* the listener is open                                       *)
  conn,      (* state of each connection                                   *)
  clients,   (* Server.clients                                             *)
  hpc,       (* where the handler goroutine of each connection is          *)
  want,      (* the topic of the request being handled                     *)
  subs,      (* Client.subs: the topics it has subscribed to               *)
  leaving,   (* removeClient's snapshot of them, less those left           *)
  topics,    (* keys of Server.topics                                      *)
  started,   (* history: dispatchers started per topic                     *)
  subscribers, (* Topic.subscribers                                        *)
  token,     (* Topic.notify holds a token                                 *)
  tpc,       (* where the dispatcher of each topic is                      *)
  recips,    (* its snapshot of the subscribers, less those written to     *)
  cur,       (* the connection it is writing to                            *)
  stopCh,    (* Server.stopCh is closed                                    *)
  stoppc,    (* where the body of Stop, run once, is                       *)
  toClose,   (* its snapshot of Server.clients                             *)
  wg,        (* the counter of Server.wg                                   *)
  late       (* history: connections registered after that snapshot        *)

runVars == <<runpc, accepted, lnStored, lnOpen>>
connVars == <<conn, clients, late>>
membership == <<subs, leaving>>
handlerVars == <<hpc, want, membership>>
topicVars == <<topics, started, subscribers, token>>
dispatcherVars == <<tpc, recips, cur>>
stopVars == <<stopCh, stoppc, toClose>>
vars == <<runVars, connVars, handlerVars, topicVars, dispatcherVars, stopVars, wg>>

Init ==
  /\ runpc = "listen"
  /\ accepted = NoConn
  /\ lnStored = FALSE
  /\ lnOpen = FALSE
  /\ conn = [c \in Conns |-> "none"]
  /\ clients = {}
  /\ hpc = [c \in Conns |-> "none"]
  /\ want = [c \in Conns |-> NoTopic]
  /\ subs = [c \in Conns |-> {}]
  /\ leaving = [c \in Conns |-> {}]
  /\ topics = {}
  /\ started = [t \in Topics |-> 0]
  /\ subscribers = [t \in Topics |-> {}]
  /\ token = [t \in Topics |-> FALSE]
  /\ tpc = [t \in Topics |-> "none"]
  /\ recips = [t \in Topics |-> {}]
  /\ cur = [t \in Topics |-> NoConn]
  /\ stopCh = FALSE
  /\ stoppc = "idle"
  /\ toClose = {}
  /\ wg = 0
  /\ late = {}

-----------------------------------------------------------------------------
(* Run.                                                                    *)

Listen ==
  /\ runpc = "listen"
  /\ lnOpen' = TRUE
  /\ runpc' = "store"
  /\ UNCHANGED <<accepted, lnStored, connVars, handlerVars, topicVars, dispatcherVars,
                 stopVars, wg>>

ListenFails ==
  /\ runpc = "listen"
  /\ runpc' = "returned"
  /\ UNCHANGED <<accepted, lnStored, lnOpen, connVars, handlerVars, topicVars,
                 dispatcherVars, stopVars, wg>>

(* s.ln = ln, without synchronisation with Stop.                           *)
StoreListener ==
  /\ runpc = "store"
  /\ lnStored' = TRUE
  /\ runpc' = "accept"
  /\ UNCHANGED <<accepted, lnOpen, connVars, handlerVars, topicVars, dispatcherVars,
                 stopVars, wg>>

Accept(c) ==
  /\ runpc = "accept"
  /\ lnOpen
  /\ conn[c] = "none"
  /\ conn' = [conn EXCEPT ![c] = "open"]
  /\ accepted' = c
  /\ runpc' = "register"
  /\ UNCHANGED <<lnStored, lnOpen, clients, late, handlerVars, topicVars, dispatcherVars,
                 stopVars, wg>>

(* Accept fails on a closed listener, and may fail on an open one: every   *)
(* branch of the error handling returns, and the listener is left as it is.*)
AcceptError ==
  /\ runpc = "accept"
  /\ runpc' = "returned"
  /\ UNCHANGED <<accepted, lnStored, lnOpen, connVars, handlerVars, topicVars,
                 dispatcherVars, stopVars, wg>>

Register ==
  /\ runpc = "register"
  /\ clients' = clients \cup {accepted}
  /\ late' = IF stoppc \in {"closeConns", "wait", "done"} THEN late \cup {accepted} ELSE late
  /\ runpc' = "spawn"
  /\ UNCHANGED <<accepted, lnStored, lnOpen, conn, handlerVars, topicVars, dispatcherVars,
                 stopVars, wg>>

Spawn ==
  /\ runpc = "spawn"
  /\ wg' = wg + 1
  /\ hpc' = [hpc EXCEPT ![accepted] = "fresh"]
  /\ accepted' = NoConn
  /\ runpc' = "accept"
  /\ UNCHANGED <<lnStored, lnOpen, connVars, want, membership, topicVars, dispatcherVars, stopVars>>

-----------------------------------------------------------------------------
(* handleClient.  Decode fails on a connection the server has closed, but  *)
(* not before the requests that an earlier read left in the decoder's      *)
(* buffer are used up: a fresh handler has none.                           *)

Goto(c, label) == hpc' = [hpc EXCEPT ![c] = label]

Decoding(c) == hpc[c] \in {"fresh", "decode"}
Decodes(c) == hpc[c] = "decode" \/ (hpc[c] = "fresh" /\ conn[c] = "open")

(* A request for a topic goes through GetTopic first.                      *)
Request(c, t) ==
  /\ Decodes(c)
  /\ want' = [want EXCEPT ![c] = t]
  /\ Goto(c, "lookup")
  /\ UNCHANGED <<runVars, connVars, membership, topicVars, dispatcherVars, stopVars, wg>>

(* The read-locked fast path of GetTopic.                                  *)
Lookup(c) ==
  /\ hpc[c] = "lookup"
  /\ Goto(c, IF want[c] \in topics THEN "act" ELSE "create")
  /\ UNCHANGED <<runVars, connVars, want, membership, topicVars, dispatcherVars, stopVars, wg>>

(* Its write-locked slow path, which checks again.                         *)
StillMissingUnchecked(c) == TRUE
StillMissing(c) == want[c] \notin topics
StartDispatcher(c) ==
  /\ hpc[c] = "create"
  /\ StillMissing(c)
  /\ topics' = topics \cup {want[c]}
  /\ started' = [started EXCEPT ![want[c]] = @ + 1]
  /\ tpc' = [tpc EXCEPT ![want[c]] = "select"]
  /\ wg' = wg + 1
  /\ Goto(c, "act")
  /\ UNCHANGED <<runVars, connVars, want, membership, subscribers, token, recips, cur, stopVars>>

LostRace(c) ==
  /\ hpc[c] = "create"
  /\ ~StillMissing(c)
  /\ Goto(c, "act")
  /\ UNCHANGED <<runVars, connVars, want, membership, topicVars, dispatcherVars, stopVars, wg>>

(* The topic's registry under its lock, then c.subs, which only this       *)
(* handler uses.                                                           *)
Subscribe(c) ==
  /\ hpc[c] = "act"
  /\ subscribers' = [subscribers EXCEPT ![want[c]] = @ \cup {c}]
  /\ subs' = [subs EXCEPT ![c] = @ \cup {want[c]}]
  /\ Goto(c, "reply")
  /\ UNCHANGED <<runVars, connVars, want, leaving, topics, started, token, dispatcherVars,
                 stopVars, wg>>

Publish(c) ==
  /\ hpc[c] = "act"
  /\ token' = [token EXCEPT ![want[c]] = TRUE]
  /\ Goto(c, "reply")
  /\ UNCHANGED <<runVars, connVars, want, membership, topics, started, subscribers,
                 dispatcherVars, stopVars, wg>>

(* Unsubscribe does not create the topic.                                  *)
Unsubscribe(c, t) ==
  /\ Decodes(c)
  /\ subscribers' = [subscribers EXCEPT ![t] = @ \ {c}]
  /\ subs' = [subs EXCEPT ![c] = @ \ {t}]
  /\ Goto(c, "reply")
  /\ UNCHANGED <<runVars, connVars, want, leaving, topics, started, token, dispatcherVars,
                 stopVars, wg>>

(* Send returns when the peer makes room, or with an error when the        *)
(* connection is closed; until then the handler is blocked.                *)
Reply(c) ==
  /\ hpc[c] = "reply"
  /\ want' = [want EXCEPT ![c] = NoTopic]
  /\ Goto(c, "decode")
  /\ UNCHANGED <<runVars, connVars, membership, topicVars, dispatcherVars, stopVars, wg>>

(* Decode fails, or the request was close_connection.  A peer may go away  *)
(* at any time.                                                            *)
Leave(c) ==
  /\ Decoding(c)
  /\ Goto(c, "remove")
  /\ UNCHANGED <<runVars, connVars, want, membership, topicVars, dispatcherVars, stopVars, wg>>

(* shutdown: go s.Stop() and return.                                       *)
Shutdown(c) ==
  /\ Decodes(c)
  /\ Goto(c, "remove")
  /\ stoppc' = IF stoppc = "idle" THEN "closeCh" ELSE stoppc
  /\ UNCHANGED <<runVars, connVars, want, membership, topicVars, dispatcherVars, stopCh,
                 toClose, wg>>

(* removeClient: the registry first, then the topics of c.subs, whose      *)
(* range has no fixed order, one by one, then the connection.              *)
RemoveFromRegistry(c) ==
  /\ hpc[c] = "remove"
  /\ clients' = clients \ {c}
  /\ leaving' = [leaving EXCEPT ![c] = subs[c]]
  /\ subs' = [subs EXCEPT ![c] = {}]
  /\ Goto(c, "leaveTopics")
  /\ UNCHANGED <<runVars, conn, late, want, topicVars, dispatcherVars, stopVars, wg>>

LeaveTopic(c) ==
  /\ hpc[c] = "leaveTopics"
  /\ \E t \in leaving[c] :
       /\ subscribers' = [subscribers EXCEPT ![t] = @ \ {c}]
       /\ leaving' = [leaving EXCEPT ![c] = @ \ {t}]
  /\ UNCHANGED <<runVars, connVars, hpc, want, subs, topics, started, token, dispatcherVars,
                 stopVars, wg>>

HandlerDone(c) ==
  /\ hpc[c] = "leaveTopics"
  /\ leaving[c] = {}
  /\ conn' = [conn EXCEPT ![c] = "closed"]
  /\ wg' = wg - 1
  /\ Goto(c, "done")
  /\ UNCHANGED <<runVars, clients, late, want, membership, topicVars, dispatcherVars,
                 stopVars>>

-----------------------------------------------------------------------------
(* topicLoop.  A drain broadcasts any number of messages, each to a        *)
(* snapshot of the subscribers, whose range has no fixed order.            *)

Wake(t) ==
  /\ tpc[t] = "select"
  /\ token[t]
  /\ token' = [token EXCEPT ![t] = FALSE]
  /\ tpc' = [tpc EXCEPT ![t] = "drain"]
  /\ UNCHANGED <<runVars, connVars, handlerVars, topics, started, subscribers, recips, cur,
                 stopVars, wg>>

(* Pop a message and write it to the first of its recipients.              *)
Broadcast(t) ==
  /\ tpc[t] = "drain"
  /\ \E c \in subscribers[t] :
       /\ cur' = [cur EXCEPT ![t] = c]
       /\ recips' = [recips EXCEPT ![t] = subscribers[t] \ {c}]
  /\ tpc' = [tpc EXCEPT ![t] = "send"]
  /\ UNCHANGED <<runVars, connVars, handlerVars, topicVars, stopVars, wg>>

(* Send returned, with or without an error: on to the next recipient.      *)
SendDone(t) ==
  /\ tpc[t] = "send"
  /\ IF recips[t] = {}
     THEN /\ tpc' = [tpc EXCEPT ![t] = "drain"]
          /\ cur' = [cur EXCEPT ![t] = NoConn]
          /\ UNCHANGED recips
     ELSE /\ \E c \in recips[t] :
               /\ cur' = [cur EXCEPT ![t] = c]
               /\ recips' = [recips EXCEPT ![t] = @ \ {c}]
          /\ UNCHANGED tpc
  /\ UNCHANGED <<runVars, connVars, handlerVars, topicVars, stopVars, wg>>

(* The queue is empty.                                                     *)
Drained(t) ==
  /\ tpc[t] = "drain"
  /\ tpc' = [tpc EXCEPT ![t] = "select"]
  /\ UNCHANGED <<runVars, connVars, handlerVars, topicVars, recips, cur, stopVars, wg>>

ExitLoop(t) ==
  /\ tpc[t] = "select"
  /\ stopCh
  /\ tpc' = [tpc EXCEPT ![t] = "exited"]
  /\ wg' = wg - 1
  /\ UNCHANGED <<runVars, connVars, handlerVars, topicVars, recips, cur, stopVars>>

-----------------------------------------------------------------------------
(* Stop.                                                                   *)

CallStop ==
  /\ stoppc = "idle"
  /\ stoppc' = "closeCh"
  /\ UNCHANGED <<runVars, connVars, handlerVars, topicVars, dispatcherVars, stopCh,
                 toClose, wg>>

CloseStopCh ==
  /\ stoppc = "closeCh"
  /\ stopCh' = TRUE
  /\ stoppc' = "closeLn"
  /\ UNCHANGED <<runVars, connVars, handlerVars, topicVars, dispatcherVars, toClose, wg>>

(* if s.ln != nil: the listener stays open when Run has not stored it yet. *)
ListenerAfterStopIgnored == lnOpen
ListenerAfterStop == IF lnStored THEN FALSE ELSE lnOpen
CloseListener ==
  /\ stoppc = "closeLn"
  /\ lnOpen' = ListenerAfterStop
  /\ stoppc' = "snapshot"
  /\ UNCHANGED <<runpc, accepted, lnStored, connVars, handlerVars, topicVars,
                 dispatcherVars, stopCh, toClose, wg>>

RegisteredNone == {}
Registered == clients
SnapshotClients ==
  /\ stoppc = "snapshot"
  /\ toClose' = Registered
  /\ stoppc' = "closeConns"
  /\ UNCHANGED <<runVars, connVars, handlerVars, topicVars, dispatcherVars, stopCh, wg>>

CloseConn(c) ==
  /\ stoppc = "closeConns"
  /\ c \in toClose
  /\ conn' = [conn EXCEPT ![c] = "closed"]
  /\ toClose' = toClose \ {c}
  /\ UNCHANGED <<runVars, clients, late, handlerVars, topicVars, dispatcherVars, stopCh,
                 stoppc, wg>>

ConnsClosed ==
  /\ stoppc = "closeConns"
  /\ toClose = {}
  /\ stoppc' = "wait"
  /\ UNCHANGED <<runVars, connVars, handlerVars, topicVars, dispatcherVars, stopCh,
                 toClose, wg>>

AllDoneEarly == TRUE
AllDone == wg = 0
Wait ==
  /\ stoppc = "wait"
  /\ AllDone
  /\ stoppc' = "done"
  /\ UNCHANGED <<runVars, connVars, handlerVars, topicVars, dispatcherVars, stopCh,
                 toClose, wg>>

-----------------------------------------------------------------------------
RunStep == Listen \/ ListenFails \/ StoreListener \/ Register \/ Spawn

HandlerStep(c) ==
  \/ Lookup(c) \/ StartDispatcher(c) \/ LostRace(c) \/ Subscribe(c) \/ Publish(c)
  \/ RemoveFromRegistry(c) \/ LeaveTopic(c) \/ HandlerDone(c)

PeerStep(c) ==
  \/ Accept(c) \/ Reply(c) \/ Leave(c) \/ Shutdown(c)
  \/ \E t \in Topics : Request(c, t) \/ Unsubscribe(c, t)

LoopStep(t) == Wake(t) \/ Broadcast(t) \/ Drained(t) \/ ExitLoop(t)

StopStep ==
  \/ CloseStopCh \/ CloseListener \/ SnapshotClients \/ ConnsClosed \/ Wait
  \/ \E c \in Conns : CloseConn(c)

Next ==
  \/ RunStep \/ AcceptError
  \/ \E c \in Conns : HandlerStep(c) \/ PeerStep(c)
  \/ \E t \in Topics : LoopStep(t) \/ SendDone(t)
  \/ CallStop
  \/ StopStep

Spec == Init /\ [][Next]_vars

(* Runnable goroutines run.  A blocking read or write is only certain to   *)
(* return once its connection is closed; the decoder's buffer is finite, a *)
(* queue that is popped again and again gets empty, and the select of a    *)
(* dispatcher picks a closed stopCh sooner or later although tokens keep   *)
(* coming.                                                                 *)
Fairness ==
  /\ WF_vars(RunStep)
  /\ WF_vars(~lnOpen /\ AcceptError)
  /\ WF_vars(StopStep)
  /\ \A c \in Conns :
       /\ WF_vars(HandlerStep(c))
       /\ SF_vars(conn[c] = "closed" /\ Leave(c))
       /\ WF_vars(conn[c] = "closed" /\ Reply(c))
  /\ \A t \in Topics :
       /\ SF_vars(Drained(t))
       /\ SF_vars(ExitLoop(t))
       /\ WF_vars(tpc[t] = "send" /\ conn[cur[t]] = "closed" /\ SendDone(t))

FairSpec == Spec /\ Fairness

-----------------------------------------------------------------------------
(* Properties.                                                             *)

LiveHandlers == {c \in Conns : hpc[c] \notin {"none", "done"}}
LiveDispatchers == {t \in Topics : tpc[t] \notin {"none", "exited"}}

(* Every variable stays in its type.                                       *)
TypeOK ==
  /\ runpc \in {"listen", "store", "accept", "register", "spawn", "returned"}
  /\ accepted \in Conns \cup {NoConn}
  /\ lnStored \in BOOLEAN /\ lnOpen \in BOOLEAN /\ stopCh \in BOOLEAN
  /\ conn \in [Conns -> {"none", "open", "closed"}]
  /\ clients \subseteq Conns /\ toClose \subseteq Conns /\ late \subseteq Conns
  /\ hpc \in [Conns -> {"none", "fresh", "decode", "lookup", "create", "act", "reply", "remove",
                        "leaveTopics", "done"}]
  /\ want \in [Conns -> Topics \cup {NoTopic}]
  /\ topics \subseteq Topics
  /\ started \in [Topics -> Nat]
  /\ subs \in [Conns -> SUBSET Topics] /\ leaving \in [Conns -> SUBSET Topics]
  /\ subscribers \in [Topics -> SUBSET Conns]
  /\ token \in [Topics -> BOOLEAN]
  /\ tpc \in [Topics -> {"none", "select", "drain", "send", "exited"}]
  /\ recips \in [Topics -> SUBSET Conns]
  /\ cur \in [Topics -> Conns \cup {NoConn}]
  /\ stoppc \in {"idle", "closeCh", "closeLn", "snapshot", "closeConns", "wait", "done"}

(* The counter of the WaitGroup is exactly the number of handlers and      *)
(* dispatchers that have not ended.                                        *)
WaitGroupExact == wg = Cardinality(LiveHandlers) + Cardinality(LiveDispatchers)

(* However many requests race to create a topic, one dispatcher serves it: *)
(* two would deliver out of priority order (GetTopic's double check).      *)
OneDispatcher ==
  \A t \in Topics : started[t] = IF t \in topics THEN 1 ELSE 0

(* When Stop has returned, no dispatcher is left and no handler that can   *)
(* still read a request, unless a connection was registered behind the     *)
(* back of the snapshot.  A handler may be left: Run registers a           *)
(* connection before it adds the handler to wg.                            *)
StopSilences ==
  (stoppc = "done" /\ late = {}) =>
    /\ LiveDispatchers = {}
    /\ \A c \in LiveHandlers : conn[c] = "closed" /\ hpc[c] \in {"fresh", "remove", "leaveTopics"}

(* A handler that has ended left nothing behind: neither a registry entry, *)
(* nor a subscription, nor an open connection.                             *)
NothingLeftBehind ==
  \A c \in Conns : hpc[c] = "done" =>
    /\ c \notin clients
    /\ conn[c] = "closed"
    /\ \A t \in Topics : c \notin subscribers[t]

(* The invariant of a run of the server: exact accounting in wg, one       *)
(* dispatcher for a topic, and nothing left behind by a handler.           *)
Inv == TypeOK /\ WaitGroupExact /\ OneDispatcher /\ NothingLeftBehind

(* Stop, once called, returns, unless Run registers a connection behind    *)
(* the back of its snapshot.                                               *)
StopReturnsUnlessLate == stoppc # "idle" ~> (stoppc = "done" \/ late # {})

(* Run returns once Stop has found the listener.                           *)
RunReturns == (stoppc = "closeLn" /\ lnStored) ~> runpc = "returned"

(* The comment of Stop: it closes all client connections to unblock        *)
(* per-client Decode loops and waits for server goroutines to exit.        *)
StopReturns == stoppc # "idle" ~> stoppc = "done"
=============================================================================
