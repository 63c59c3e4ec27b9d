----------------------- MODULE ServerLifecycleProofs ------------------------
(***************************************************************************)
(* Theorems about ServerLifecycle, for any finite sets of connections and  *)
(* topics.                                                                 *)
(***************************************************************************)
EXTENDS ServerLifecycle, FiniteSetTheorems, TLAPS

USE DEF runVars, connVars, membership, handlerVars, topicVars, dispatcherVars, stopVars, Goto

-----------------------------------------------------------------------------
(* The inductive invariant.                                                *)

(* The connection Run is about to register or to serve has no handler, and *)
(* nobody takes it out of the registry before it has one.                  *)
RunInv ==
  /\ runpc \in {"register", "spawn"} =>
       accepted \in Conns /\ hpc[accepted] = "none" /\ conn[accepted] # "none"
  /\ runpc = "spawn" => accepted \in clients

(* Only accepted connections have handlers, only requests that name a      *)
(* topic reach GetTopic, and a topic has a dispatcher from its creation.   *)
HandlerInv ==
  /\ \A c \in Conns : conn[c] = "none" => hpc[c] = "none"
  /\ \A c \in Conns : hpc[c] \in {"lookup", "create", "act"} => want[c] \in Topics
  /\ \A t \in Topics : t \in topics <=> tpc[t] # "none"

(* What a handler has cleaned up stays clean until it ends: wherever it is *)
(* subscribed it knows of it, from c.subs or from its snapshot of that.    *)
LeaveInv ==
  \A c \in Conns :
    /\ hpc[c] \in {"leaveTopics", "done"} => c \notin clients /\ subs[c] = {}
    /\ hpc[c] # "leaveTopics" => leaving[c] = {}
    /\ \A t \in Topics : c \in subscribers[t] => t \in subs[c] \cup leaving[c]
    /\ hpc[c] = "done" => conn[c] = "closed"

(* A connection that Run holds since before the snapshot of Stop is in it, *)
(* so that Stop closes it before its handler runs.                         *)
SnapshotInv ==
  /\ stoppc \in {"wait", "done"} => toClose = {}
  /\ (stoppc \in {"closeConns", "wait", "done"} /\ late = {} /\ runpc = "spawn") =>
       accepted \in toClose \/ conn[accepted] = "closed"

IInv ==
  /\ TypeOK /\ WaitGroupExact /\ OneDispatcher
  /\ RunInv /\ HandlerInv /\ LeaveInv /\ SnapshotInv /\ StopSilences

LEMMA StepTypeOK == TypeOK /\ RunInv /\ HandlerInv /\ [Next]_vars => TypeOK'
  <1> SUFFICES ASSUME TypeOK, RunInv, HandlerInv, [Next]_vars PROVE TypeOK'
    OBVIOUS
  <1>1. ASSUME NEW t \in Topics, Wake(t) PROVE TypeOK'
    BY <1>1 DEF Wake, TypeOK
  <1>2. ASSUME NEW t \in Topics, Broadcast(t) PROVE TypeOK'
    BY <1>2 DEF Broadcast, TypeOK
  <1>3. ASSUME NEW t \in Topics, Drained(t) PROVE TypeOK'
    BY <1>3 DEF Drained, TypeOK
  <1>4. ASSUME NEW t \in Topics, ExitLoop(t) PROVE TypeOK'
    BY <1>4 DEF ExitLoop, TypeOK
  <1>5. ASSUME NEW t \in Topics, SendDone(t) PROVE TypeOK'
    BY <1>5 DEF SendDone, TypeOK
  <1>6. ASSUME NEW c \in Conns, NEW t \in Topics, Request(c, t) PROVE TypeOK'
    BY <1>6 DEF Request, Decodes, TypeOK
  <1>7. ASSUME NEW c \in Conns, NEW t \in Topics, Unsubscribe(c, t) PROVE TypeOK'
    BY <1>7 DEF Unsubscribe, Decodes, TypeOK
  <1>8. ASSUME NEW c \in Conns, Accept(c) PROVE TypeOK'
    BY <1>8 DEF Accept, TypeOK
  <1>9. ASSUME NEW c \in Conns, Reply(c) PROVE TypeOK'
    BY <1>9 DEF Reply, TypeOK
  <1>10. ASSUME NEW c \in Conns, Leave(c) PROVE TypeOK'
    BY <1>10 DEF Leave, Decoding, TypeOK
  <1>11. ASSUME NEW c \in Conns, Shutdown(c) PROVE TypeOK'
    BY <1>11 DEF Shutdown, Decodes, TypeOK
  <1>12. ASSUME NEW c \in Conns, Lookup(c) PROVE TypeOK'
    BY <1>12 DEF Lookup, TypeOK
  <1>13. ASSUME NEW c \in Conns, StartDispatcher(c) PROVE TypeOK'
    BY <1>13 DEF StartDispatcher, StillMissing, HandlerInv, TypeOK
  <1>14. ASSUME NEW c \in Conns, LostRace(c) PROVE TypeOK'
    BY <1>14 DEF LostRace, TypeOK
  <1>15. ASSUME NEW c \in Conns, Subscribe(c) PROVE TypeOK'
    <2>1. want[c] \in Topics /\ subscribers' = [subscribers EXCEPT ![want[c]] = @ \cup {c}]
      BY <1>15 DEF Subscribe, HandlerInv
    <2>2. subscribers' \in [Topics -> SUBSET Conns]
      BY <2>1 DEF TypeOK
    <2>3. hpc' = [hpc EXCEPT ![c] = "reply"]
      BY <1>15 DEF Subscribe
    <2> QED BY <1>15, <2>2, <2>3 DEF Subscribe, TypeOK
  <1>16. ASSUME NEW c \in Conns, Publish(c) PROVE TypeOK'
    BY <1>16 DEF Publish, TypeOK
  <1>17. ASSUME NEW c \in Conns, RemoveFromRegistry(c) PROVE TypeOK'
    BY <1>17 DEF RemoveFromRegistry, TypeOK
  <1>18. ASSUME NEW c \in Conns, LeaveTopic(c) PROVE TypeOK'
    BY <1>18 DEF LeaveTopic, TypeOK
  <1>19. ASSUME NEW c \in Conns, HandlerDone(c) PROVE TypeOK'
    BY <1>19 DEF HandlerDone, TypeOK
  <1>20. ASSUME NEW c \in Conns, CloseConn(c) PROVE TypeOK'
    BY <1>20 DEF CloseConn, TypeOK
  <1>21. CASE Listen
    BY <1>21 DEF Listen, TypeOK
  <1>22. CASE ListenFails
    BY <1>22 DEF ListenFails, TypeOK
  <1>23. CASE StoreListener
    BY <1>23 DEF StoreListener, TypeOK
  <1>24. CASE AcceptError
    BY <1>24 DEF AcceptError, TypeOK
  <1>25. CASE Register
    BY <1>25 DEF Register, RunInv, TypeOK
  <1>26. CASE Spawn
    BY <1>26 DEF Spawn, TypeOK
  <1>27. CASE CallStop
    BY <1>27 DEF CallStop, TypeOK
  <1>28. CASE CloseStopCh
    BY <1>28 DEF CloseStopCh, TypeOK
  <1>29. CASE CloseListener
    BY <1>29 DEF CloseListener, ListenerAfterStop, TypeOK
  <1>30. CASE SnapshotClients
    BY <1>30 DEF SnapshotClients, Registered, TypeOK
  <1>31. CASE ConnsClosed
    BY <1>31 DEF ConnsClosed, TypeOK
  <1>32. CASE Wait
    BY <1>32 DEF Wait, TypeOK
  <1>33. CASE UNCHANGED vars
    BY <1>33 DEF vars, TypeOK
  <1> QED BY <1>1, <1>2, <1>3, <1>4, <1>5, <1>6, <1>7, <1>8, <1>9, <1>10, <1>11, <1>12, <1>13, <1>14, <1>15, <1>16, <1>17, <1>18, <1>19, <1>20, <1>21, <1>22, <1>23, <1>24, <1>25, <1>26, <1>27, <1>28, <1>29, <1>30, <1>31, <1>32, <1>33 DEF RunStep, HandlerStep, PeerStep, LoopStep, StopStep, Next

-----------------------------------------------------------------------------
(* One dispatcher for a topic, and the places of Run and of the handlers.  *)

LEMMA StepOneDispatcher == TypeOK /\ OneDispatcher /\ HandlerInv /\ [Next]_vars => OneDispatcher'
  <1> SUFFICES ASSUME TypeOK, OneDispatcher, HandlerInv, [Next]_vars PROVE OneDispatcher'
    OBVIOUS
  <1>1. ASSUME NEW c \in Conns, StartDispatcher(c) PROVE OneDispatcher'
    <2>1. want[c] \in Topics /\ want[c] \notin topics
      BY <1>1 DEF StartDispatcher, StillMissing, HandlerInv
    <2>2. started[want[c]] = 0
      BY <2>1 DEF OneDispatcher
    <2> QED BY <1>1, <2>1, <2>2 DEF StartDispatcher, OneDispatcher, TypeOK
  <1>2. (\E c \in Conns : StartDispatcher(c)) \/ UNCHANGED <<topics, started>>
    BY DEF Next, vars, RunStep, HandlerStep, PeerStep, LoopStep, StopStep, Listen, ListenFails, StoreListener,
           AcceptError, Register, Spawn, Accept, Request, Lookup, LostRace, Subscribe, Publish,
           Unsubscribe, Reply, Leave, Shutdown, RemoveFromRegistry, LeaveTopic, HandlerDone,
           Wake, Broadcast, SendDone, Drained, ExitLoop, CallStop, CloseStopCh, CloseListener,
           SnapshotClients, CloseConn, ConnsClosed, Wait
  <1> QED BY <1>1, <1>2 DEF OneDispatcher


LEMMA StepRunInv == TypeOK /\ RunInv /\ HandlerInv /\ [Next]_vars => RunInv'
  <1> SUFFICES ASSUME TypeOK, RunInv, HandlerInv, [Next]_vars PROVE RunInv'
    OBVIOUS
  <1>1. ASSUME NEW t \in Topics, Wake(t) PROVE RunInv'
    BY <1>1 DEF Wake, TypeOK, RunInv, HandlerInv
  <1>2. ASSUME NEW t \in Topics, Broadcast(t) PROVE RunInv'
    BY <1>2 DEF Broadcast, TypeOK, RunInv, HandlerInv
  <1>3. ASSUME NEW t \in Topics, Drained(t) PROVE RunInv'
    BY <1>3 DEF Drained, TypeOK, RunInv, HandlerInv
  <1>4. ASSUME NEW t \in Topics, ExitLoop(t) PROVE RunInv'
    BY <1>4 DEF ExitLoop, TypeOK, RunInv, HandlerInv
  <1>5. ASSUME NEW t \in Topics, SendDone(t) PROVE RunInv'
    BY <1>5 DEF SendDone, TypeOK, RunInv, HandlerInv
  <1>6. ASSUME NEW c \in Conns, NEW t \in Topics, Request(c, t) PROVE RunInv'
    BY <1>6 DEF Request, Decodes, TypeOK, RunInv, HandlerInv
  <1>7. ASSUME NEW c \in Conns, NEW t \in Topics, Unsubscribe(c, t) PROVE RunInv'
    BY <1>7 DEF Unsubscribe, Decodes, TypeOK, RunInv, HandlerInv
  <1>8. ASSUME NEW c \in Conns, Accept(c) PROVE RunInv'
    BY <1>8 DEF Accept, TypeOK, RunInv, HandlerInv
  <1>9. ASSUME NEW c \in Conns, Reply(c) PROVE RunInv'
    BY <1>9 DEF Reply, TypeOK, RunInv, HandlerInv
  <1>10. ASSUME NEW c \in Conns, Leave(c) PROVE RunInv'
    BY <1>10 DEF Leave, Decoding, TypeOK, RunInv, HandlerInv
  <1>11. ASSUME NEW c \in Conns, Shutdown(c) PROVE RunInv'
    BY <1>11 DEF Shutdown, Decodes, TypeOK, RunInv, HandlerInv
  <1>12. ASSUME NEW c \in Conns, Lookup(c) PROVE RunInv'
    BY <1>12 DEF Lookup, TypeOK, RunInv, HandlerInv
  <1>13. ASSUME NEW c \in Conns, StartDispatcher(c) PROVE RunInv'
    BY <1>13 DEF StartDispatcher, StillMissing, TypeOK, RunInv, HandlerInv
  <1>14. ASSUME NEW c \in Conns, LostRace(c) PROVE RunInv'
    BY <1>14 DEF LostRace, TypeOK, RunInv, HandlerInv
  <1>15. ASSUME NEW c \in Conns, Subscribe(c) PROVE RunInv'
    BY <1>15 DEF Subscribe, TypeOK, RunInv, HandlerInv
  <1>16. ASSUME NEW c \in Conns, Publish(c) PROVE RunInv'
    BY <1>16 DEF Publish, TypeOK, RunInv, HandlerInv
  <1>17. ASSUME NEW c \in Conns, RemoveFromRegistry(c) PROVE RunInv'
    BY <1>17 DEF RemoveFromRegistry, TypeOK, RunInv, HandlerInv
  <1>18. ASSUME NEW c \in Conns, LeaveTopic(c) PROVE RunInv'
    BY <1>18 DEF LeaveTopic, TypeOK, RunInv, HandlerInv
  <1>19. ASSUME NEW c \in Conns, HandlerDone(c) PROVE RunInv'
    BY <1>19 DEF HandlerDone, TypeOK, RunInv, HandlerInv
  <1>20. ASSUME NEW c \in Conns, CloseConn(c) PROVE RunInv'
    BY <1>20 DEF CloseConn, TypeOK, RunInv, HandlerInv
  <1>21. CASE Listen
    BY <1>21 DEF Listen, TypeOK, RunInv, HandlerInv
  <1>22. CASE ListenFails
    BY <1>22 DEF ListenFails, TypeOK, RunInv, HandlerInv
  <1>23. CASE StoreListener
    BY <1>23 DEF StoreListener, TypeOK, RunInv, HandlerInv
  <1>24. CASE AcceptError
    BY <1>24 DEF AcceptError, TypeOK, RunInv, HandlerInv
  <1>25. CASE Register
    BY <1>25 DEF Register, TypeOK, RunInv, HandlerInv
  <1>26. CASE Spawn
    BY <1>26 DEF Spawn, TypeOK, RunInv, HandlerInv
  <1>27. CASE CallStop
    BY <1>27 DEF CallStop, TypeOK, RunInv, HandlerInv
  <1>28. CASE CloseStopCh
    BY <1>28 DEF CloseStopCh, TypeOK, RunInv, HandlerInv
  <1>29. CASE CloseListener
    BY <1>29 DEF CloseListener, ListenerAfterStop, TypeOK, RunInv, HandlerInv
  <1>30. CASE SnapshotClients
    BY <1>30 DEF SnapshotClients, Registered, TypeOK, RunInv, HandlerInv
  <1>31. CASE ConnsClosed
    BY <1>31 DEF ConnsClosed, TypeOK, RunInv, HandlerInv
  <1>32. CASE Wait
    BY <1>32 DEF Wait, TypeOK, RunInv, HandlerInv
  <1>33. CASE UNCHANGED vars
    BY <1>33 DEF vars, TypeOK, RunInv, HandlerInv
  <1> QED BY <1>1, <1>2, <1>3, <1>4, <1>5, <1>6, <1>7, <1>8, <1>9, <1>10, <1>11, <1>12, <1>13, <1>14, <1>15, <1>16, <1>17, <1>18, <1>19, <1>20, <1>21, <1>22, <1>23, <1>24, <1>25, <1>26, <1>27, <1>28, <1>29, <1>30, <1>31, <1>32, <1>33 DEF RunStep, HandlerStep, PeerStep, LoopStep, StopStep, Next

LEMMA StepHandlerInv == TypeOK /\ RunInv /\ HandlerInv /\ [Next]_vars => HandlerInv'
  <1> SUFFICES ASSUME TypeOK, RunInv, HandlerInv, [Next]_vars PROVE HandlerInv'
    OBVIOUS
  <1>1. ASSUME NEW t \in Topics, Wake(t) PROVE HandlerInv'
    BY <1>1 DEF Wake, TypeOK, RunInv, HandlerInv
  <1>2. ASSUME NEW t \in Topics, Broadcast(t) PROVE HandlerInv'
    BY <1>2 DEF Broadcast, TypeOK, RunInv, HandlerInv
  <1>3. ASSUME NEW t \in Topics, Drained(t) PROVE HandlerInv'
    BY <1>3 DEF Drained, TypeOK, RunInv, HandlerInv
  <1>4. ASSUME NEW t \in Topics, ExitLoop(t) PROVE HandlerInv'
    BY <1>4 DEF ExitLoop, TypeOK, RunInv, HandlerInv
  <1>5. ASSUME NEW t \in Topics, SendDone(t) PROVE HandlerInv'
    BY <1>5 DEF SendDone, TypeOK, RunInv, HandlerInv
  <1>6. ASSUME NEW c \in Conns, NEW t \in Topics, Request(c, t) PROVE HandlerInv'
    BY <1>6 DEF Request, Decodes, TypeOK, RunInv, HandlerInv
  <1>7. ASSUME NEW c \in Conns, NEW t \in Topics, Unsubscribe(c, t) PROVE HandlerInv'
    BY <1>7 DEF Unsubscribe, Decodes, TypeOK, RunInv, HandlerInv
  <1>8. ASSUME NEW c \in Conns, Accept(c) PROVE HandlerInv'
    BY <1>8 DEF Accept, TypeOK, RunInv, HandlerInv
  <1>9. ASSUME NEW c \in Conns, Reply(c) PROVE HandlerInv'
    BY <1>9 DEF Reply, TypeOK, RunInv, HandlerInv
  <1>10. ASSUME NEW c \in Conns, Leave(c) PROVE HandlerInv'
    BY <1>10 DEF Leave, Decoding, TypeOK, RunInv, HandlerInv
  <1>11. ASSUME NEW c \in Conns, Shutdown(c) PROVE HandlerInv'
    BY <1>11 DEF Shutdown, Decodes, TypeOK, RunInv, HandlerInv
  <1>12. ASSUME NEW c \in Conns, Lookup(c) PROVE HandlerInv'
    BY <1>12 DEF Lookup, TypeOK, RunInv, HandlerInv
  <1>13. ASSUME NEW c \in Conns, StartDispatcher(c) PROVE HandlerInv'
    BY <1>13 DEF StartDispatcher, StillMissing, TypeOK, RunInv, HandlerInv
  <1>14. ASSUME NEW c \in Conns, LostRace(c) PROVE HandlerInv'
    BY <1>14 DEF LostRace, TypeOK, RunInv, HandlerInv
  <1>15. ASSUME NEW c \in Conns, Subscribe(c) PROVE HandlerInv'
    BY <1>15 DEF Subscribe, TypeOK, RunInv, HandlerInv
  <1>16. ASSUME NEW c \in Conns, Publish(c) PROVE HandlerInv'
    BY <1>16 DEF Publish, TypeOK, RunInv, HandlerInv
  <1>17. ASSUME NEW c \in Conns, RemoveFromRegistry(c) PROVE HandlerInv'
    BY <1>17 DEF RemoveFromRegistry, TypeOK, RunInv, HandlerInv
  <1>18. ASSUME NEW c \in Conns, LeaveTopic(c) PROVE HandlerInv'
    BY <1>18 DEF LeaveTopic, TypeOK, RunInv, HandlerInv
  <1>19. ASSUME NEW c \in Conns, HandlerDone(c) PROVE HandlerInv'
    BY <1>19 DEF HandlerDone, TypeOK, RunInv, HandlerInv
  <1>20. ASSUME NEW c \in Conns, CloseConn(c) PROVE HandlerInv'
    BY <1>20 DEF CloseConn, TypeOK, RunInv, HandlerInv
  <1>21. CASE Listen
    BY <1>21 DEF Listen, TypeOK, RunInv, HandlerInv
  <1>22. CASE ListenFails
    BY <1>22 DEF ListenFails, TypeOK, RunInv, HandlerInv
  <1>23. CASE StoreListener
    BY <1>23 DEF StoreListener, TypeOK, RunInv, HandlerInv
  <1>24. CASE AcceptError
    BY <1>24 DEF AcceptError, TypeOK, RunInv, HandlerInv
  <1>25. CASE Register
    BY <1>25 DEF Register, TypeOK, RunInv, HandlerInv
  <1>26. CASE Spawn
    BY <1>26 DEF Spawn, TypeOK, RunInv, HandlerInv
  <1>27. CASE CallStop
    BY <1>27 DEF CallStop, TypeOK, RunInv, HandlerInv
  <1>28. CASE CloseStopCh
    BY <1>28 DEF CloseStopCh, TypeOK, RunInv, HandlerInv
  <1>29. CASE CloseListener
    BY <1>29 DEF CloseListener, ListenerAfterStop, TypeOK, RunInv, HandlerInv
  <1>30. CASE SnapshotClients
    BY <1>30 DEF SnapshotClients, Registered, TypeOK, RunInv, HandlerInv
  <1>31. CASE ConnsClosed
    BY <1>31 DEF ConnsClosed, TypeOK, RunInv, HandlerInv
  <1>32. CASE Wait
    BY <1>32 DEF Wait, TypeOK, RunInv, HandlerInv
  <1>33. CASE UNCHANGED vars
    BY <1>33 DEF vars, TypeOK, RunInv, HandlerInv
  <1> QED BY <1>1, <1>2, <1>3, <1>4, <1>5, <1>6, <1>7, <1>8, <1>9, <1>10, <1>11, <1>12, <1>13, <1>14, <1>15, <1>16, <1>17, <1>18, <1>19, <1>20, <1>21, <1>22, <1>23, <1>24, <1>25, <1>26, <1>27, <1>28, <1>29, <1>30, <1>31, <1>32, <1>33 DEF RunStep, HandlerStep, PeerStep, LoopStep, StopStep, Next

LEMMA StepLeaveInv == TypeOK /\ RunInv /\ LeaveInv /\ [Next]_vars => LeaveInv'
  <1> SUFFICES ASSUME TypeOK, RunInv, LeaveInv, [Next]_vars PROVE LeaveInv'
    OBVIOUS
  <1>1. ASSUME NEW t \in Topics, Wake(t) PROVE LeaveInv'
    BY <1>1 DEF Wake, TypeOK, RunInv, LeaveInv
  <1>2. ASSUME NEW t \in Topics, Broadcast(t) PROVE LeaveInv'
    BY <1>2 DEF Broadcast, TypeOK, RunInv, LeaveInv
  <1>3. ASSUME NEW t \in Topics, Drained(t) PROVE LeaveInv'
    BY <1>3 DEF Drained, TypeOK, RunInv, LeaveInv
  <1>4. ASSUME NEW t \in Topics, ExitLoop(t) PROVE LeaveInv'
    BY <1>4 DEF ExitLoop, TypeOK, RunInv, LeaveInv
  <1>5. ASSUME NEW t \in Topics, SendDone(t) PROVE LeaveInv'
    BY <1>5 DEF SendDone, TypeOK, RunInv, LeaveInv
  <1>6. ASSUME NEW c \in Conns, NEW t \in Topics, Request(c, t) PROVE LeaveInv'
    BY <1>6 DEF Request, Decodes, TypeOK, RunInv, LeaveInv
  <1>7. ASSUME NEW c \in Conns, NEW t \in Topics, Unsubscribe(c, t) PROVE LeaveInv'
    BY <1>7 DEF Unsubscribe, Decodes, TypeOK, RunInv, LeaveInv
  <1>8. ASSUME NEW c \in Conns, Accept(c) PROVE LeaveInv'
    BY <1>8 DEF Accept, TypeOK, RunInv, LeaveInv
  <1>9. ASSUME NEW c \in Conns, Reply(c) PROVE LeaveInv'
    BY <1>9 DEF Reply, TypeOK, RunInv, LeaveInv
  <1>10. ASSUME NEW c \in Conns, Leave(c) PROVE LeaveInv'
    BY <1>10 DEF Leave, Decoding, TypeOK, RunInv, LeaveInv
  <1>11. ASSUME NEW c \in Conns, Shutdown(c) PROVE LeaveInv'
    BY <1>11 DEF Shutdown, Decodes, TypeOK, RunInv, LeaveInv
  <1>12. ASSUME NEW c \in Conns, Lookup(c) PROVE LeaveInv'
    BY <1>12 DEF Lookup, TypeOK, RunInv, LeaveInv
  <1>13. ASSUME NEW c \in Conns, StartDispatcher(c) PROVE LeaveInv'
    BY <1>13 DEF StartDispatcher, StillMissing, TypeOK, RunInv, LeaveInv
  <1>14. ASSUME NEW c \in Conns, LostRace(c) PROVE LeaveInv'
    BY <1>14 DEF LostRace, TypeOK, RunInv, LeaveInv
  <1>15. ASSUME NEW c \in Conns, Subscribe(c) PROVE LeaveInv'
    BY <1>15 DEF Subscribe, TypeOK, RunInv, LeaveInv
  <1>16. ASSUME NEW c \in Conns, Publish(c) PROVE LeaveInv'
    BY <1>16 DEF Publish, TypeOK, RunInv, LeaveInv
  <1>17. ASSUME NEW c \in Conns, RemoveFromRegistry(c) PROVE LeaveInv'
    BY <1>17 DEF RemoveFromRegistry, TypeOK, RunInv, LeaveInv
  <1>18. ASSUME NEW c \in Conns, LeaveTopic(c) PROVE LeaveInv'
    BY <1>18 DEF LeaveTopic, TypeOK, RunInv, LeaveInv
  <1>19. ASSUME NEW c \in Conns, HandlerDone(c) PROVE LeaveInv'
    BY <1>19 DEF HandlerDone, TypeOK, RunInv, LeaveInv
  <1>20. ASSUME NEW c \in Conns, CloseConn(c) PROVE LeaveInv'
    BY <1>20 DEF CloseConn, TypeOK, RunInv, LeaveInv
  <1>21. CASE Listen
    BY <1>21 DEF Listen, TypeOK, RunInv, LeaveInv
  <1>22. CASE ListenFails
    BY <1>22 DEF ListenFails, TypeOK, RunInv, LeaveInv
  <1>23. CASE StoreListener
    BY <1>23 DEF StoreListener, TypeOK, RunInv, LeaveInv
  <1>24. CASE AcceptError
    BY <1>24 DEF AcceptError, TypeOK, RunInv, LeaveInv
  <1>25. CASE Register
    BY <1>25 DEF Register, TypeOK, RunInv, LeaveInv
  <1>26. CASE Spawn
    BY <1>26 DEF Spawn, TypeOK, RunInv, LeaveInv
  <1>27. CASE CallStop
    BY <1>27 DEF CallStop, TypeOK, RunInv, LeaveInv
  <1>28. CASE CloseStopCh
    BY <1>28 DEF CloseStopCh, TypeOK, RunInv, LeaveInv
  <1>29. CASE CloseListener
    BY <1>29 DEF CloseListener, ListenerAfterStop, TypeOK, RunInv, LeaveInv
  <1>30. CASE SnapshotClients
    BY <1>30 DEF SnapshotClients, Registered, TypeOK, RunInv, LeaveInv
  <1>31. CASE ConnsClosed
    BY <1>31 DEF ConnsClosed, TypeOK, RunInv, LeaveInv
  <1>32. CASE Wait
    BY <1>32 DEF Wait, TypeOK, RunInv, LeaveInv
  <1>33. CASE UNCHANGED vars
    BY <1>33 DEF vars, TypeOK, RunInv, LeaveInv
  <1> QED BY <1>1, <1>2, <1>3, <1>4, <1>5, <1>6, <1>7, <1>8, <1>9, <1>10, <1>11, <1>12, <1>13, <1>14, <1>15, <1>16, <1>17, <1>18, <1>19, <1>20, <1>21, <1>22, <1>23, <1>24, <1>25, <1>26, <1>27, <1>28, <1>29, <1>30, <1>31, <1>32, <1>33 DEF RunStep, HandlerStep, PeerStep, LoopStep, StopStep, Next

LEMMA StepSnapshotInv == TypeOK /\ RunInv /\ SnapshotInv /\ [Next]_vars => SnapshotInv'
  <1> SUFFICES ASSUME TypeOK, RunInv, SnapshotInv, [Next]_vars PROVE SnapshotInv'
    OBVIOUS
  <1>1. ASSUME NEW t \in Topics, Wake(t) PROVE SnapshotInv'
    BY <1>1 DEF Wake, TypeOK, RunInv, SnapshotInv
  <1>2. ASSUME NEW t \in Topics, Broadcast(t) PROVE SnapshotInv'
    BY <1>2 DEF Broadcast, TypeOK, RunInv, SnapshotInv
  <1>3. ASSUME NEW t \in Topics, Drained(t) PROVE SnapshotInv'
    BY <1>3 DEF Drained, TypeOK, RunInv, SnapshotInv
  <1>4. ASSUME NEW t \in Topics, ExitLoop(t) PROVE SnapshotInv'
    BY <1>4 DEF ExitLoop, TypeOK, RunInv, SnapshotInv
  <1>5. ASSUME NEW t \in Topics, SendDone(t) PROVE SnapshotInv'
    BY <1>5 DEF SendDone, TypeOK, RunInv, SnapshotInv
  <1>6. ASSUME NEW c \in Conns, NEW t \in Topics, Request(c, t) PROVE SnapshotInv'
    BY <1>6 DEF Request, Decodes, TypeOK, RunInv, SnapshotInv
  <1>7. ASSUME NEW c \in Conns, NEW t \in Topics, Unsubscribe(c, t) PROVE SnapshotInv'
    BY <1>7 DEF Unsubscribe, Decodes, TypeOK, RunInv, SnapshotInv
  <1>8. ASSUME NEW c \in Conns, Accept(c) PROVE SnapshotInv'
    BY <1>8 DEF Accept, TypeOK, RunInv, SnapshotInv
  <1>9. ASSUME NEW c \in Conns, Reply(c) PROVE SnapshotInv'
    BY <1>9 DEF Reply, TypeOK, RunInv, SnapshotInv
  <1>10. ASSUME NEW c \in Conns, Leave(c) PROVE SnapshotInv'
    BY <1>10 DEF Leave, Decoding, TypeOK, RunInv, SnapshotInv
  <1>11. ASSUME NEW c \in Conns, Shutdown(c) PROVE SnapshotInv'
    BY <1>11 DEF Shutdown, Decodes, TypeOK, RunInv, SnapshotInv
  <1>12. ASSUME NEW c \in Conns, Lookup(c) PROVE SnapshotInv'
    BY <1>12 DEF Lookup, TypeOK, RunInv, SnapshotInv
  <1>13. ASSUME NEW c \in Conns, StartDispatcher(c) PROVE SnapshotInv'
    BY <1>13 DEF StartDispatcher, StillMissing, TypeOK, RunInv, SnapshotInv
  <1>14. ASSUME NEW c \in Conns, LostRace(c) PROVE SnapshotInv'
    BY <1>14 DEF LostRace, TypeOK, RunInv, SnapshotInv
  <1>15. ASSUME NEW c \in Conns, Subscribe(c) PROVE SnapshotInv'
    BY <1>15 DEF Subscribe, TypeOK, RunInv, SnapshotInv
  <1>16. ASSUME NEW c \in Conns, Publish(c) PROVE SnapshotInv'
    BY <1>16 DEF Publish, TypeOK, RunInv, SnapshotInv
  <1>17. ASSUME NEW c \in Conns, RemoveFromRegistry(c) PROVE SnapshotInv'
    BY <1>17 DEF RemoveFromRegistry, TypeOK, RunInv, SnapshotInv
  <1>18. ASSUME NEW c \in Conns, LeaveTopic(c) PROVE SnapshotInv'
    BY <1>18 DEF LeaveTopic, TypeOK, RunInv, SnapshotInv
  <1>19. ASSUME NEW c \in Conns, HandlerDone(c) PROVE SnapshotInv'
    BY <1>19 DEF HandlerDone, TypeOK, RunInv, SnapshotInv
  <1>20. ASSUME NEW c \in Conns, CloseConn(c) PROVE SnapshotInv'
    BY <1>20 DEF CloseConn, TypeOK, RunInv, SnapshotInv
  <1>21. CASE Listen
    BY <1>21 DEF Listen, TypeOK, RunInv, SnapshotInv
  <1>22. CASE ListenFails
    BY <1>22 DEF ListenFails, TypeOK, RunInv, SnapshotInv
  <1>23. CASE StoreListener
    BY <1>23 DEF StoreListener, TypeOK, RunInv, SnapshotInv
  <1>24. CASE AcceptError
    BY <1>24 DEF AcceptError, TypeOK, RunInv, SnapshotInv
  <1>25. CASE Register
    BY <1>25 DEF Register, TypeOK, RunInv, SnapshotInv
  <1>26. CASE Spawn
    BY <1>26 DEF Spawn, TypeOK, RunInv, SnapshotInv
  <1>27. CASE CallStop
    BY <1>27 DEF CallStop, TypeOK, RunInv, SnapshotInv
  <1>28. CASE CloseStopCh
    BY <1>28 DEF CloseStopCh, TypeOK, RunInv, SnapshotInv
  <1>29. CASE CloseListener
    BY <1>29 DEF CloseListener, ListenerAfterStop, TypeOK, RunInv, SnapshotInv
  <1>30. CASE SnapshotClients
    BY <1>30 DEF SnapshotClients, Registered, TypeOK, RunInv, SnapshotInv
  <1>31. CASE ConnsClosed
    BY <1>31 DEF ConnsClosed, TypeOK, RunInv, SnapshotInv
  <1>32. CASE Wait
    BY <1>32 DEF Wait, TypeOK, RunInv, SnapshotInv
  <1>33. CASE UNCHANGED vars
    BY <1>33 DEF vars, TypeOK, RunInv, SnapshotInv
  <1> QED BY <1>1, <1>2, <1>3, <1>4, <1>5, <1>6, <1>7, <1>8, <1>9, <1>10, <1>11, <1>12, <1>13, <1>14, <1>15, <1>16, <1>17, <1>18, <1>19, <1>20, <1>21, <1>22, <1>23, <1>24, <1>25, <1>26, <1>27, <1>28, <1>29, <1>30, <1>31, <1>32, <1>33 DEF RunStep, HandlerStep, PeerStep, LoopStep, StopStep, Next

-----------------------------------------------------------------------------
(* The counter of the WaitGroup.  It changes with the set it counts: a     *)
(* handler or a dispatcher joins, or one of them leaves.                   *)

LEMMA FiniteLive ==
  /\ IsFiniteSet(LiveHandlers) /\ Cardinality(LiveHandlers) \in Nat
  /\ IsFiniteSet(LiveDispatchers) /\ Cardinality(LiveDispatchers) \in Nat
  BY LifecycleAssumption, FS_Subset, FS_CardinalityType DEF LiveHandlers, LiveDispatchers

LEMMA StepWaitGroup == TypeOK /\ WaitGroupExact /\ RunInv /\ HandlerInv /\ [Next]_vars => WaitGroupExact'
  <1> SUFFICES ASSUME TypeOK, WaitGroupExact, RunInv, HandlerInv, [Next]_vars PROVE WaitGroupExact'
    OBVIOUS
  <1>1. ASSUME NEW t \in Topics, Wake(t) PROVE WaitGroupExact'
    <2>1. LiveHandlers' = LiveHandlers /\ LiveDispatchers' = LiveDispatchers /\ wg' = wg
      BY <1>1 DEF Wake, LiveHandlers, LiveDispatchers, TypeOK
    <2> QED BY <2>1 DEF WaitGroupExact
  <1>2. ASSUME NEW t \in Topics, Broadcast(t) PROVE WaitGroupExact'
    <2>1. LiveHandlers' = LiveHandlers /\ LiveDispatchers' = LiveDispatchers /\ wg' = wg
      BY <1>2 DEF Broadcast, LiveHandlers, LiveDispatchers, TypeOK
    <2> QED BY <2>1 DEF WaitGroupExact
  <1>3. ASSUME NEW t \in Topics, Drained(t) PROVE WaitGroupExact'
    <2>1. LiveHandlers' = LiveHandlers /\ LiveDispatchers' = LiveDispatchers /\ wg' = wg
      BY <1>3 DEF Drained, LiveHandlers, LiveDispatchers, TypeOK
    <2> QED BY <2>1 DEF WaitGroupExact
  <1>4. ASSUME NEW t \in Topics, ExitLoop(t) PROVE WaitGroupExact'
    <2>1. tpc[t] = "select" /\ tpc' = [tpc EXCEPT ![t] = "exited"]
      BY <1>4 DEF ExitLoop
    <2>2. LiveDispatchers' = LiveDispatchers \ {t} /\ t \in LiveDispatchers
      BY <2>1 DEF LiveDispatchers, TypeOK
    <2>3. Cardinality(LiveDispatchers') = Cardinality(LiveDispatchers) - 1
      BY <2>2, FiniteLive, FS_RemoveElement
    <2>4. LiveHandlers' = LiveHandlers /\ wg' = wg - 1
      BY <1>4 DEF ExitLoop, LiveHandlers
    <2> QED BY <2>3, <2>4, FiniteLive DEF WaitGroupExact
  <1>5. ASSUME NEW t \in Topics, SendDone(t) PROVE WaitGroupExact'
    <2>1. LiveHandlers' = LiveHandlers /\ LiveDispatchers' = LiveDispatchers /\ wg' = wg
      BY <1>5 DEF SendDone, LiveHandlers, LiveDispatchers, TypeOK
    <2> QED BY <2>1 DEF WaitGroupExact
  <1>6. ASSUME NEW c \in Conns, NEW t \in Topics, Request(c, t) PROVE WaitGroupExact'
    <2>1. LiveHandlers' = LiveHandlers /\ LiveDispatchers' = LiveDispatchers /\ wg' = wg
      BY <1>6 DEF Request, Decodes, LiveHandlers, LiveDispatchers, TypeOK
    <2> QED BY <2>1 DEF WaitGroupExact
  <1>7. ASSUME NEW c \in Conns, NEW t \in Topics, Unsubscribe(c, t) PROVE WaitGroupExact'
    <2>1. LiveHandlers' = LiveHandlers /\ LiveDispatchers' = LiveDispatchers /\ wg' = wg
      BY <1>7 DEF Unsubscribe, Decodes, LiveHandlers, LiveDispatchers, TypeOK
    <2> QED BY <2>1 DEF WaitGroupExact
  <1>8. ASSUME NEW c \in Conns, Accept(c) PROVE WaitGroupExact'
    <2>1. LiveHandlers' = LiveHandlers /\ LiveDispatchers' = LiveDispatchers /\ wg' = wg
      BY <1>8 DEF Accept, LiveHandlers, LiveDispatchers, TypeOK
    <2> QED BY <2>1 DEF WaitGroupExact
  <1>9. ASSUME NEW c \in Conns, Reply(c) PROVE WaitGroupExact'
    <2>1. LiveHandlers' = LiveHandlers /\ LiveDispatchers' = LiveDispatchers /\ wg' = wg
      BY <1>9 DEF Reply, LiveHandlers, LiveDispatchers, TypeOK
    <2> QED BY <2>1 DEF WaitGroupExact
  <1>10. ASSUME NEW c \in Conns, Leave(c) PROVE WaitGroupExact'
    <2>1. LiveHandlers' = LiveHandlers /\ LiveDispatchers' = LiveDispatchers /\ wg' = wg
      BY <1>10 DEF Leave, Decoding, LiveHandlers, LiveDispatchers, TypeOK
    <2> QED BY <2>1 DEF WaitGroupExact
  <1>11. ASSUME NEW c \in Conns, Shutdown(c) PROVE WaitGroupExact'
    <2>1. LiveHandlers' = LiveHandlers /\ LiveDispatchers' = LiveDispatchers /\ wg' = wg
      BY <1>11 DEF Shutdown, Decodes, LiveHandlers, LiveDispatchers, TypeOK
    <2> QED BY <2>1 DEF WaitGroupExact
  <1>12. ASSUME NEW c \in Conns, Lookup(c) PROVE WaitGroupExact'
    <2>1. LiveHandlers' = LiveHandlers /\ LiveDispatchers' = LiveDispatchers /\ wg' = wg
      BY <1>12 DEF Lookup, LiveHandlers, LiveDispatchers, TypeOK
    <2> QED BY <2>1 DEF WaitGroupExact
  <1>13. ASSUME NEW c \in Conns, StartDispatcher(c) PROVE WaitGroupExact'
    <2> DEFINE t == want[c]
    <2>1. t \in Topics /\ tpc[t] = "none" /\ tpc' = [tpc EXCEPT ![t] = "select"]
      BY <1>13 DEF StartDispatcher, StillMissing, HandlerInv
    <2> HIDE DEF t
    <2>2. LiveDispatchers' = LiveDispatchers \cup {t} /\ t \notin LiveDispatchers
      BY <2>1 DEF LiveDispatchers, TypeOK
    <2>3. Cardinality(LiveDispatchers') = Cardinality(LiveDispatchers) + 1
      BY <2>2, FiniteLive, FS_AddElement
    <2>4. LiveHandlers' = LiveHandlers /\ wg' = wg + 1
      BY <1>13 DEF StartDispatcher, LiveHandlers, TypeOK
    <2> QED BY <2>3, <2>4, FiniteLive DEF WaitGroupExact
  <1>14. ASSUME NEW c \in Conns, LostRace(c) PROVE WaitGroupExact'
    <2>1. LiveHandlers' = LiveHandlers /\ LiveDispatchers' = LiveDispatchers /\ wg' = wg
      BY <1>14 DEF LostRace, LiveHandlers, LiveDispatchers, TypeOK
    <2> QED BY <2>1 DEF WaitGroupExact
  <1>15. ASSUME NEW c \in Conns, Subscribe(c) PROVE WaitGroupExact'
    <2>1. LiveHandlers' = LiveHandlers /\ LiveDispatchers' = LiveDispatchers /\ wg' = wg
      BY <1>15 DEF Subscribe, LiveHandlers, LiveDispatchers, TypeOK
    <2> QED BY <2>1 DEF WaitGroupExact
  <1>16. ASSUME NEW c \in Conns, Publish(c) PROVE WaitGroupExact'
    <2>1. LiveHandlers' = LiveHandlers /\ LiveDispatchers' = LiveDispatchers /\ wg' = wg
      BY <1>16 DEF Publish, LiveHandlers, LiveDispatchers, TypeOK
    <2> QED BY <2>1 DEF WaitGroupExact
  <1>17. ASSUME NEW c \in Conns, RemoveFromRegistry(c) PROVE WaitGroupExact'
    <2>1. LiveHandlers' = LiveHandlers /\ LiveDispatchers' = LiveDispatchers /\ wg' = wg
      BY <1>17 DEF RemoveFromRegistry, LiveHandlers, LiveDispatchers, TypeOK
    <2> QED BY <2>1 DEF WaitGroupExact
  <1>18. ASSUME NEW c \in Conns, LeaveTopic(c) PROVE WaitGroupExact'
    <2>1. LiveHandlers' = LiveHandlers /\ LiveDispatchers' = LiveDispatchers /\ wg' = wg
      BY <1>18 DEF LeaveTopic, LiveHandlers, LiveDispatchers, TypeOK
    <2> QED BY <2>1 DEF WaitGroupExact
  <1>19. ASSUME NEW c \in Conns, HandlerDone(c) PROVE WaitGroupExact'
    <2>1. hpc[c] = "leaveTopics" /\ hpc' = [hpc EXCEPT ![c] = "done"]
      BY <1>19 DEF HandlerDone
    <2>2. LiveHandlers' = LiveHandlers \ {c} /\ c \in LiveHandlers
      BY <2>1 DEF LiveHandlers, TypeOK
    <2>3. Cardinality(LiveHandlers') = Cardinality(LiveHandlers) - 1
      BY <2>2, FiniteLive, FS_RemoveElement
    <2>4. LiveDispatchers' = LiveDispatchers /\ wg' = wg - 1
      BY <1>19 DEF HandlerDone, LiveDispatchers
    <2> QED BY <2>3, <2>4, FiniteLive DEF WaitGroupExact
  <1>20. ASSUME NEW c \in Conns, CloseConn(c) PROVE WaitGroupExact'
    <2>1. LiveHandlers' = LiveHandlers /\ LiveDispatchers' = LiveDispatchers /\ wg' = wg
      BY <1>20 DEF CloseConn, LiveHandlers, LiveDispatchers, TypeOK
    <2> QED BY <2>1 DEF WaitGroupExact
  <1>21. CASE Listen
    <2>1. LiveHandlers' = LiveHandlers /\ LiveDispatchers' = LiveDispatchers /\ wg' = wg
      BY <1>21 DEF Listen, LiveHandlers, LiveDispatchers, TypeOK
    <2> QED BY <2>1 DEF WaitGroupExact
  <1>22. CASE ListenFails
    <2>1. LiveHandlers' = LiveHandlers /\ LiveDispatchers' = LiveDispatchers /\ wg' = wg
      BY <1>22 DEF ListenFails, LiveHandlers, LiveDispatchers, TypeOK
    <2> QED BY <2>1 DEF WaitGroupExact
  <1>23. CASE StoreListener
    <2>1. LiveHandlers' = LiveHandlers /\ LiveDispatchers' = LiveDispatchers /\ wg' = wg
      BY <1>23 DEF StoreListener, LiveHandlers, LiveDispatchers, TypeOK
    <2> QED BY <2>1 DEF WaitGroupExact
  <1>24. CASE AcceptError
    <2>1. LiveHandlers' = LiveHandlers /\ LiveDispatchers' = LiveDispatchers /\ wg' = wg
      BY <1>24 DEF AcceptError, LiveHandlers, LiveDispatchers, TypeOK
    <2> QED BY <2>1 DEF WaitGroupExact
  <1>25. CASE Register
    <2>1. LiveHandlers' = LiveHandlers /\ LiveDispatchers' = LiveDispatchers /\ wg' = wg
      BY <1>25 DEF Register, LiveHandlers, LiveDispatchers, TypeOK
    <2> QED BY <2>1 DEF WaitGroupExact
  <1>26. CASE Spawn
    <2>1. accepted \in Conns /\ hpc[accepted] = "none" /\ hpc' = [hpc EXCEPT ![accepted] = "fresh"]
      BY <1>26 DEF Spawn, RunInv
    <2>2. LiveHandlers' = LiveHandlers \cup {accepted} /\ accepted \notin LiveHandlers
      BY <2>1 DEF LiveHandlers, TypeOK
    <2>3. Cardinality(LiveHandlers') = Cardinality(LiveHandlers) + 1
      BY <2>2, FiniteLive, FS_AddElement
    <2>4. LiveDispatchers' = LiveDispatchers /\ wg' = wg + 1
      BY <1>26 DEF Spawn, LiveDispatchers
    <2> QED BY <2>3, <2>4, FiniteLive DEF WaitGroupExact
  <1>27. CASE CallStop
    <2>1. LiveHandlers' = LiveHandlers /\ LiveDispatchers' = LiveDispatchers /\ wg' = wg
      BY <1>27 DEF CallStop, LiveHandlers, LiveDispatchers, TypeOK
    <2> QED BY <2>1 DEF WaitGroupExact
  <1>28. CASE CloseStopCh
    <2>1. LiveHandlers' = LiveHandlers /\ LiveDispatchers' = LiveDispatchers /\ wg' = wg
      BY <1>28 DEF CloseStopCh, LiveHandlers, LiveDispatchers, TypeOK
    <2> QED BY <2>1 DEF WaitGroupExact
  <1>29. CASE CloseListener
    <2>1. LiveHandlers' = LiveHandlers /\ LiveDispatchers' = LiveDispatchers /\ wg' = wg
      BY <1>29 DEF CloseListener, ListenerAfterStop, LiveHandlers, LiveDispatchers, TypeOK
    <2> QED BY <2>1 DEF WaitGroupExact
  <1>30. CASE SnapshotClients
    <2>1. LiveHandlers' = LiveHandlers /\ LiveDispatchers' = LiveDispatchers /\ wg' = wg
      BY <1>30 DEF SnapshotClients, Registered, LiveHandlers, LiveDispatchers, TypeOK
    <2> QED BY <2>1 DEF WaitGroupExact
  <1>31. CASE ConnsClosed
    <2>1. LiveHandlers' = LiveHandlers /\ LiveDispatchers' = LiveDispatchers /\ wg' = wg
      BY <1>31 DEF ConnsClosed, LiveHandlers, LiveDispatchers, TypeOK
    <2> QED BY <2>1 DEF WaitGroupExact
  <1>32. CASE Wait
    <2>1. LiveHandlers' = LiveHandlers /\ LiveDispatchers' = LiveDispatchers /\ wg' = wg
      BY <1>32 DEF Wait, LiveHandlers, LiveDispatchers, TypeOK
    <2> QED BY <2>1 DEF WaitGroupExact
  <1>33. CASE UNCHANGED vars
    <2>1. LiveHandlers' = LiveHandlers /\ LiveDispatchers' = LiveDispatchers /\ wg' = wg
      BY <1>33 DEF vars, LiveHandlers, LiveDispatchers, TypeOK
    <2> QED BY <2>1 DEF WaitGroupExact
  <1> QED BY <1>1, <1>2, <1>3, <1>4, <1>5, <1>6, <1>7, <1>8, <1>9, <1>10, <1>11, <1>12, <1>13, <1>14, <1>15, <1>16, <1>17, <1>18, <1>19, <1>20, <1>21, <1>22, <1>23, <1>24, <1>25, <1>26, <1>27, <1>28, <1>29, <1>30, <1>31, <1>32, <1>33 DEF RunStep, HandlerStep, PeerStep, LoopStep, StopStep, Next

LEMMA StepSilences == TypeOK /\ WaitGroupExact /\ RunInv /\ SnapshotInv /\ StopSilences /\ [Next]_vars => StopSilences'
  <1> SUFFICES ASSUME TypeOK, WaitGroupExact, RunInv, SnapshotInv, StopSilences, [Next]_vars PROVE StopSilences'
    OBVIOUS
  <1>1. ASSUME NEW t \in Topics, Wake(t) PROVE StopSilences'
    BY <1>1 DEF Wake, StopSilences, LiveHandlers, LiveDispatchers, TypeOK, RunInv, SnapshotInv
  <1>2. ASSUME NEW t \in Topics, Broadcast(t) PROVE StopSilences'
    BY <1>2 DEF Broadcast, StopSilences, LiveHandlers, LiveDispatchers, TypeOK, RunInv, SnapshotInv
  <1>3. ASSUME NEW t \in Topics, Drained(t) PROVE StopSilences'
    BY <1>3 DEF Drained, StopSilences, LiveHandlers, LiveDispatchers, TypeOK, RunInv, SnapshotInv
  <1>4. ASSUME NEW t \in Topics, ExitLoop(t) PROVE StopSilences'
    BY <1>4 DEF ExitLoop, StopSilences, LiveHandlers, LiveDispatchers, TypeOK, RunInv, SnapshotInv
  <1>5. ASSUME NEW t \in Topics, SendDone(t) PROVE StopSilences'
    BY <1>5 DEF SendDone, StopSilences, LiveHandlers, LiveDispatchers, TypeOK, RunInv, SnapshotInv
  <1>6. ASSUME NEW c \in Conns, NEW t \in Topics, Request(c, t) PROVE StopSilences'
    BY <1>6 DEF Request, Decodes, StopSilences, LiveHandlers, LiveDispatchers, TypeOK, RunInv, SnapshotInv
  <1>7. ASSUME NEW c \in Conns, NEW t \in Topics, Unsubscribe(c, t) PROVE StopSilences'
    BY <1>7 DEF Unsubscribe, Decodes, StopSilences, LiveHandlers, LiveDispatchers, TypeOK, RunInv, SnapshotInv
  <1>8. ASSUME NEW c \in Conns, Accept(c) PROVE StopSilences'
    BY <1>8 DEF Accept, StopSilences, LiveHandlers, LiveDispatchers, TypeOK, RunInv, SnapshotInv
  <1>9. ASSUME NEW c \in Conns, Reply(c) PROVE StopSilences'
    BY <1>9 DEF Reply, StopSilences, LiveHandlers, LiveDispatchers, TypeOK, RunInv, SnapshotInv
  <1>10. ASSUME NEW c \in Conns, Leave(c) PROVE StopSilences'
    BY <1>10 DEF Leave, Decoding, StopSilences, LiveHandlers, LiveDispatchers, TypeOK, RunInv, SnapshotInv
  <1>11. ASSUME NEW c \in Conns, Shutdown(c) PROVE StopSilences'
    BY <1>11 DEF Shutdown, Decodes, StopSilences, LiveHandlers, LiveDispatchers, TypeOK, RunInv, SnapshotInv
  <1>12. ASSUME NEW c \in Conns, Lookup(c) PROVE StopSilences'
    BY <1>12 DEF Lookup, StopSilences, LiveHandlers, LiveDispatchers, TypeOK, RunInv, SnapshotInv
  <1>13. ASSUME NEW c \in Conns, StartDispatcher(c) PROVE StopSilences'
    BY <1>13 DEF StartDispatcher, StillMissing, StopSilences, LiveHandlers, LiveDispatchers, TypeOK, RunInv, SnapshotInv
  <1>14. ASSUME NEW c \in Conns, LostRace(c) PROVE StopSilences'
    BY <1>14 DEF LostRace, StopSilences, LiveHandlers, LiveDispatchers, TypeOK, RunInv, SnapshotInv
  <1>15. ASSUME NEW c \in Conns, Subscribe(c) PROVE StopSilences'
    BY <1>15 DEF Subscribe, StopSilences, LiveHandlers, LiveDispatchers, TypeOK, RunInv, SnapshotInv
  <1>16. ASSUME NEW c \in Conns, Publish(c) PROVE StopSilences'
    BY <1>16 DEF Publish, StopSilences, LiveHandlers, LiveDispatchers, TypeOK, RunInv, SnapshotInv
  <1>17. ASSUME NEW c \in Conns, RemoveFromRegistry(c) PROVE StopSilences'
    BY <1>17 DEF RemoveFromRegistry, StopSilences, LiveHandlers, LiveDispatchers, TypeOK, RunInv, SnapshotInv
  <1>18. ASSUME NEW c \in Conns, LeaveTopic(c) PROVE StopSilences'
    BY <1>18 DEF LeaveTopic, StopSilences, LiveHandlers, LiveDispatchers, TypeOK, RunInv, SnapshotInv
  <1>19. ASSUME NEW c \in Conns, HandlerDone(c) PROVE StopSilences'
    BY <1>19 DEF HandlerDone, StopSilences, LiveHandlers, LiveDispatchers, TypeOK, RunInv, SnapshotInv
  <1>20. ASSUME NEW c \in Conns, CloseConn(c) PROVE StopSilences'
    BY <1>20 DEF CloseConn, StopSilences, LiveHandlers, LiveDispatchers, TypeOK, RunInv, SnapshotInv
  <1>21. CASE Listen
    BY <1>21 DEF Listen, StopSilences, LiveHandlers, LiveDispatchers, TypeOK, RunInv, SnapshotInv
  <1>22. CASE ListenFails
    BY <1>22 DEF ListenFails, StopSilences, LiveHandlers, LiveDispatchers, TypeOK, RunInv, SnapshotInv
  <1>23. CASE StoreListener
    BY <1>23 DEF StoreListener, StopSilences, LiveHandlers, LiveDispatchers, TypeOK, RunInv, SnapshotInv
  <1>24. CASE AcceptError
    BY <1>24 DEF AcceptError, StopSilences, LiveHandlers, LiveDispatchers, TypeOK, RunInv, SnapshotInv
  <1>25. CASE Register
    BY <1>25 DEF Register, StopSilences, LiveHandlers, LiveDispatchers, TypeOK, RunInv, SnapshotInv
  <1>26. CASE Spawn
    BY <1>26 DEF Spawn, StopSilences, LiveHandlers, LiveDispatchers, TypeOK, RunInv, SnapshotInv
  <1>27. CASE CallStop
    BY <1>27 DEF CallStop, StopSilences, LiveHandlers, LiveDispatchers, TypeOK, RunInv, SnapshotInv
  <1>28. CASE CloseStopCh
    BY <1>28 DEF CloseStopCh, StopSilences, LiveHandlers, LiveDispatchers, TypeOK, RunInv, SnapshotInv
  <1>29. CASE CloseListener
    BY <1>29 DEF CloseListener, ListenerAfterStop, StopSilences, LiveHandlers, LiveDispatchers, TypeOK, RunInv, SnapshotInv
  <1>30. CASE SnapshotClients
    BY <1>30 DEF SnapshotClients, Registered, StopSilences, LiveHandlers, LiveDispatchers, TypeOK, RunInv, SnapshotInv
  <1>31. CASE ConnsClosed
    BY <1>31 DEF ConnsClosed, StopSilences, LiveHandlers, LiveDispatchers, TypeOK, RunInv, SnapshotInv
  <1>32. CASE Wait
    <2>1. wg = 0 /\ UNCHANGED <<hpc, tpc>>
      BY <1>32 DEF Wait, AllDone
    <2>2. Cardinality(LiveHandlers) = 0 /\ Cardinality(LiveDispatchers) = 0
      BY <2>1, FiniteLive DEF WaitGroupExact
    <2>3. LiveHandlers = {} /\ LiveDispatchers = {}
      BY <2>2, FiniteLive, FS_EmptySet
    <2>4. LiveHandlers' = {} /\ LiveDispatchers' = {}
      BY <2>1, <2>3 DEF LiveHandlers, LiveDispatchers
    <2> QED BY <2>4 DEF StopSilences
  <1>33. CASE UNCHANGED vars
    BY <1>33 DEF vars, StopSilences, LiveHandlers, LiveDispatchers, TypeOK, RunInv, SnapshotInv
  <1> QED BY <1>1, <1>2, <1>3, <1>4, <1>5, <1>6, <1>7, <1>8, <1>9, <1>10, <1>11, <1>12, <1>13, <1>14, <1>15, <1>16, <1>17, <1>18, <1>19, <1>20, <1>21, <1>22, <1>23, <1>24, <1>25, <1>26, <1>27, <1>28, <1>29, <1>30, <1>31, <1>32, <1>33 DEF RunStep, HandlerStep, PeerStep, LoopStep, StopStep, Next

-----------------------------------------------------------------------------
LEMMA InitIInv == Init => IInv
  <1> SUFFICES ASSUME Init PROVE IInv
    OBVIOUS
  <1>1. TypeOK /\ OneDispatcher
    BY DEF Init, TypeOK, OneDispatcher
  <1>2. RunInv /\ HandlerInv /\ LeaveInv /\ SnapshotInv /\ StopSilences
    BY DEF Init, RunInv, HandlerInv, LeaveInv, SnapshotInv, StopSilences
  <1>3. LiveHandlers = {} /\ LiveDispatchers = {} /\ wg = 0
    BY DEF Init, LiveHandlers, LiveDispatchers
  <1>4. WaitGroupExact
    BY <1>3, FS_EmptySet DEF WaitGroupExact
  <1> QED BY <1>1, <1>2, <1>4 DEF IInv

LEMMA Inductive == Spec => []IInv
  <1>1. IInv /\ [Next]_vars => IInv'
    BY StepTypeOK, StepWaitGroup, StepOneDispatcher, StepRunInv, StepHandlerInv, StepLeaveInv,
       StepSnapshotInv, StepSilences DEF IInv
  <1> QED BY InitIInv, <1>1, PTL DEF Spec

(* However many connections and topics there are and whenever Stop comes:  *)
(* the WaitGroup counts exactly the live handlers and dispatchers, a topic *)
(* has one dispatcher although requests race to create it, and a handler   *)
(* that has ended left nothing behind.                                     *)
THEOREM LifecycleInvariant == Spec => []Inv
  <1>1. IInv => Inv
    BY DEF IInv, Inv, LeaveInv, NothingLeftBehind
  <1> QED BY <1>1, Inductive, PTL

(* When Stop has returned nothing serves any more, except for connections  *)
(* registered behind its back: those accepted in time were all closed.     *)
THEOREM StopIsSilent == Spec => []StopSilences
  <1>1. IInv => StopSilences
    BY DEF IInv
  <1> QED BY <1>1, Inductive, PTL

(* A broker that has stopped stays so: unless a connection was registered  *)
(* behind its back, nobody is subscribed any more, and no later step of    *)
(* whatever still runs (Run, which may have a listener left, and the       *)
(* handlers it starts for closed connections) handles a request, creates a *)
(* topic, starts or wakes a dispatcher, or subscribes.                     *)
Stopped == stoppc = "done" /\ late = {}
ServesNothing == UNCHANGED <<want, topicVars, dispatcherVars>>

(* A handler is subscribed nowhere before its first request, and no        *)
(* handler is when Stop has returned.                                      *)
SubsInv ==
  \A t \in Topics : \A c \in subscribers[t] : ~Stopped /\ hpc[c] \notin {"none", "fresh"}

LEMMA StoppedHandlers ==
  ASSUME IInv, Stopped, NEW c \in Conns
  PROVE  ~Decodes(c) /\ hpc[c] \notin {"lookup", "create", "act", "reply"}
<1>1. hpc[c] \notin {"none", "done"} =>
        conn[c] = "closed" /\ hpc[c] \in {"fresh", "remove", "leaveTopics"}
  BY DEF IInv, StopSilences, Stopped, LiveHandlers
<1> QED BY <1>1 DEF Decodes

LEMMA StoppedStep ==
  ASSUME IInv, SubsInv, Stopped, Next
  PROVE  ServesNothing
<1>0. TypeOK /\ \A t \in Topics : subscribers[t] = {}
  BY DEF IInv, SubsInv
<1>1. ASSUME NEW c \in Conns, HandlerStep(c) PROVE ServesNothing
  <2>1. RemoveFromRegistry(c) \/ LeaveTopic(c) \/ HandlerDone(c)
    BY <1>1, StoppedHandlers
    DEF HandlerStep, Lookup, StartDispatcher, LostRace, Subscribe, Publish
  <2>2. LeaveTopic(c) => subscribers' = subscribers
    <3>1. ASSUME NEW t \in Topics PROVE [subscribers EXCEPT ![t] = @ \ {c}] = subscribers
      BY <1>0 DEF TypeOK
    <3>2. leaving[c] \subseteq Topics
      BY <1>0 DEF TypeOK
    <3> QED BY <3>1, <3>2 DEF LeaveTopic
  <2> QED BY <2>1, <2>2
          DEF RemoveFromRegistry, LeaveTopic, HandlerDone, ServesNothing
<1>2. ASSUME NEW c \in Conns, PeerStep(c) PROVE ServesNothing
  <2>1. Accept(c) \/ Leave(c)
    BY <1>2, StoppedHandlers DEF PeerStep, Reply, Shutdown, Request, Unsubscribe
  <2> QED BY <2>1 DEF Accept, Leave, ServesNothing
<1>3. ASSUME NEW t \in Topics, LoopStep(t) \/ SendDone(t) PROVE FALSE
  <2>1. tpc[t] \in {"none", "exited"}
    BY DEF IInv, StopSilences, Stopped, LiveDispatchers
  <2> QED BY <1>3, <2>1 DEF LoopStep, Wake, Broadcast, Drained, ExitLoop, SendDone
<1>4. CASE RunStep \/ AcceptError \/ CallStop \/ StopStep
  BY <1>4 DEF RunStep, Listen, ListenFails, StoreListener, AcceptError, Register, Spawn, CallStop,
              StopStep, CloseStopCh, CloseListener, SnapshotClients, ConnsClosed, Wait,
              CloseConn, ServesNothing
<1> QED BY <1>1, <1>2, <1>3, <1>4 DEF Next

(* Nobody becomes a subscriber but by Subscribe, nobody fresh but by Spawn.*)
LEMMA Subscribers ==
  ASSUME IInv, SubsInv, Next, NEW t \in Topics, NEW c \in subscribers'[t]
  PROVE  c \in Conns /\ hpc'[c] \notin {"none", "fresh"}
<1>0. TypeOK /\ RunInv
  BY DEF IInv
<1>1. ASSUME c \in subscribers[t],
             \/ hpc' = hpc
             \/ \E d \in Conns, label \in {"lookup", "act", "create", "reply", "decode", "remove",
                                         "leaveTopics", "done"} :
                  hpc' = [hpc EXCEPT ![d] = label]
      PROVE  c \in Conns /\ hpc'[c] \notin {"none", "fresh"}
  BY <1>0, <1>1 DEF SubsInv, TypeOK
<1>2. ASSUME NEW d \in Conns, HandlerStep(d) \/ PeerStep(d), ~Subscribe(d)
      PROVE  c \in Conns /\ hpc'[c] \notin {"none", "fresh"}
  <2>1. \/ hpc' = hpc
        \/ \E label \in {"lookup", "act", "create", "reply", "decode", "remove",
                          "leaveTopics", "done"} : hpc' = [hpc EXCEPT ![d] = label]
    BY <1>2 DEF HandlerStep, Lookup, StartDispatcher, LostRace, Publish, RemoveFromRegistry,
                LeaveTopic, HandlerDone, PeerStep, Accept, Reply, Leave, Shutdown, Request,
                Unsubscribe
  <2>2. c \in subscribers[t]
    <3>0. leaving[d] \subseteq Topics
      BY <1>0 DEF TypeOK
    <3>1. \/ subscribers' = subscribers
          \/ \E u \in Topics : subscribers' = [subscribers EXCEPT ![u] = @ \ {d}]
      BY <1>2, <3>0 DEF HandlerStep, Lookup, StartDispatcher, LostRace, Publish, RemoveFromRegistry,
                  LeaveTopic, HandlerDone, PeerStep, Accept, Reply, Leave, Shutdown, Request,
                  Unsubscribe
    <3> QED BY <1>0, <3>1 DEF TypeOK
  <2> QED BY <1>1, <2>1, <2>2
<1>3. ASSUME NEW d \in Conns, Subscribe(d)
      PROVE  c \in Conns /\ hpc'[c] \notin {"none", "fresh"}
  <2>1. hpc'[d] = "reply" /\ \A e \in Conns \ {d} : hpc'[e] = hpc[e]
    BY <1>0, <1>3 DEF Subscribe, TypeOK
  <2>2. c = d \/ c \in subscribers[t]
    BY <1>0, <1>3 DEF Subscribe, TypeOK
  <2> QED BY <1>0, <2>1, <2>2 DEF SubsInv, TypeOK
<1>4. ASSUME NEW u \in Topics, LoopStep(u) \/ SendDone(u)
      PROVE  c \in Conns /\ hpc'[c] \notin {"none", "fresh"}
  BY <1>1, <1>4 DEF LoopStep, Wake, Broadcast, Drained, ExitLoop, SendDone
<1>5. CASE Spawn
  <2>1. accepted \in Conns /\ hpc[accepted] = "none" /\ subscribers' = subscribers
    BY <1>0, <1>5 DEF Spawn, RunInv
  <2> QED BY <1>0, <1>5, <2>1 DEF Spawn, SubsInv, TypeOK
<1>6. CASE (RunStep /\ ~Spawn) \/ AcceptError \/ CallStop \/ StopStep
  BY <1>1, <1>6 DEF RunStep, Listen, ListenFails, StoreListener, AcceptError, Register, CallStop,
              StopStep, CloseStopCh, CloseListener, SnapshotClients, ConnsClosed, Wait, CloseConn
<1> QED BY <1>2, <1>3, <1>4, <1>5, <1>6 DEF Next

(* Stop returns from Wait and nowhere else.                                *)
LEMMA OnlyWaitEnds ==
  ASSUME Next
  PROVE  late \subseteq late' /\ (stoppc' = "done" => stoppc = "done" \/ Wait)
BY DEF Next, RunStep, Listen, ListenFails, StoreListener, AcceptError, Register, Spawn,
       HandlerStep, Lookup, StartDispatcher, LostRace, Subscribe, Publish,
       RemoveFromRegistry, LeaveTopic, HandlerDone,
       PeerStep, Accept, Reply, Leave, Shutdown, Request, Unsubscribe,
       LoopStep, Wake, Broadcast, Drained, ExitLoop, SendDone,
       CallStop, StopStep, CloseStopCh, CloseListener, SnapshotClients, ConnsClosed, Wait, CloseConn

(* Stop returns when no handler is left, so nobody is subscribed.          *)
LEMMA StepSubsInv == IInv /\ SubsInv /\ [Next]_vars => SubsInv'
<1>1. CASE UNCHANGED vars
  BY <1>1 DEF vars, SubsInv, Stopped
<1>2. ASSUME IInv, SubsInv, Next, NEW t \in Topics, NEW c \in subscribers'[t], Stopped'
      PROVE  FALSE
  <2>1. CASE Stopped
    <3>1. subscribers' = subscribers
      BY <1>2, <2>1, StoppedStep DEF ServesNothing
    <3> QED BY <1>2, <2>1, <3>1 DEF SubsInv
  <2>2. CASE ~Stopped
    <3>1. Wait
      BY <1>2, <2>2, OnlyWaitEnds DEF Stopped
    <3>2. LiveHandlers = {} /\ subscribers' = subscribers
      <4>1. Cardinality(LiveHandlers) = 0
        BY <1>2, <3>1, FiniteLive DEF Wait, AllDone, IInv, WaitGroupExact
      <4> QED BY <3>1, <4>1, FiniteLive, FS_EmptySet DEF Wait
    <3>3. c \in Conns /\ hpc[c] = "done"
      BY <1>2, <3>2 DEF IInv, TypeOK, LiveHandlers, SubsInv
    <3> QED BY <1>2, <3>2, <3>3 DEF IInv, LeaveInv
  <2> QED BY <2>1, <2>2
<1> QED BY <1>1, <1>2, Subscribers DEF SubsInv

THEOREM StoppedForGood ==
  Spec => [](Stopped => \A t \in Topics : subscribers[t] = {}) /\ [][Stopped => ServesNothing]_vars
<1>1. Init => SubsInv
  BY DEF Init, SubsInv
<1>2. Spec => []SubsInv
  BY <1>1, Inductive, StepSubsInv, PTL DEF Spec
<1>3. SubsInv => (Stopped => \A t \in Topics : subscribers[t] = {})
  BY DEF SubsInv
<1>4. IInv /\ SubsInv /\ [Next]_vars => [Stopped => ServesNothing]_vars
  BY StoppedStep
<1> QED BY <1>2, <1>3, <1>4, Inductive, PTL DEF Spec

-----------------------------------------------------------------------------
(* What can still hold up a goroutine is a peer that neither reads nor     *)
(* writes; not when the connection is closed, nor while it is closing.     *)
NeedsNoPeer(c) == conn[c] = "closed" \/ hpc[c] = "leaveTopics"

(* A handler is in the registry until it takes itself out of it, so the    *)
(* snapshot of Stop has all that have not; a dispatcher writes only to     *)
(* connections that have, or had, a handler.                               *)
PeerInv ==
  /\ stoppc \notin {"idle", "closeCh"} => stopCh
  /\ \A c \in Conns : hpc[c] \notin {"none", "leaveTopics", "done"} => c \in clients
  /\ \A t \in Topics : tpc[t] = "send" =>
       /\ cur[t] \in Conns /\ hpc[cur[t]] # "none"
       /\ \A c \in recips[t] : hpc[c] # "none"
  /\ (stoppc \in {"closeConns", "wait"} /\ late = {}) =>
       \A c \in Conns : hpc[c] # "none" => c \in toClose \/ NeedsNoPeer(c)

LEMMA StepPeerInv == IInv /\ SubsInv /\ PeerInv /\ [Next]_vars => PeerInv'
<1> SUFFICES ASSUME IInv, SubsInv, PeerInv, [Next]_vars PROVE PeerInv'
  OBVIOUS
<1>0. TypeOK /\ RunInv /\ HandlerInv /\ LeaveInv /\ SnapshotInv
  BY DEF IInv
<1>1. ASSUME NEW c \in Conns, HandlerStep(c) PROVE PeerInv'
  <2>1. CASE Lookup(c) \/ StartDispatcher(c) \/ LostRace(c) \/ Subscribe(c) \/ Publish(c)
    <3>1. /\ hpc[c] \in {"lookup", "create", "act"} /\ hpc'[c] \in {"create", "act", "reply"}
          /\ \A d \in Conns : d # c => hpc'[d] = hpc[d]
          /\ \A t \in Topics : tpc'[t] = "send" => tpc[t] = "send"
          /\ UNCHANGED <<stoppc, stopCh, clients, conn, late, toClose, cur, recips>>
      BY <1>0, <2>1 DEF Lookup, StartDispatcher, LostRace, Subscribe, Publish, TypeOK
    <3> QED BY <1>0, <3>1 DEF PeerInv, NeedsNoPeer, TypeOK
  <2>2. CASE RemoveFromRegistry(c)
    BY <1>0, <2>2 DEF RemoveFromRegistry, PeerInv, NeedsNoPeer, TypeOK
  <2>3. CASE LeaveTopic(c)
    BY <1>0, <2>3 DEF LeaveTopic, PeerInv, NeedsNoPeer, TypeOK
  <2>4. CASE HandlerDone(c)
    BY <1>0, <2>4 DEF HandlerDone, PeerInv, NeedsNoPeer, TypeOK
  <2> QED BY <1>1, <2>1, <2>2, <2>3, <2>4 DEF HandlerStep
<1>2. ASSUME NEW c \in Conns, Accept(c) PROVE PeerInv'
  <2>1. /\ hpc[c] = "none" /\ hpc' = hpc /\ \A d \in Conns : d # c => conn'[d] = conn[d]
        /\ UNCHANGED <<stoppc, stopCh, clients, late, toClose, tpc, cur, recips>>
    BY <1>0, <1>2 DEF Accept, HandlerInv, TypeOK
  <2> QED BY <1>0, <2>1 DEF PeerInv, NeedsNoPeer
<1>3. ASSUME NEW c \in Conns, PeerStep(c), ~Accept(c) PROVE PeerInv'
  <2>1. /\ hpc[c] \in {"fresh", "decode", "reply"} /\ hpc'[c] \in {"lookup", "reply", "decode", "remove"}
        /\ \A d \in Conns : d # c => hpc'[d] = hpc[d]
        /\ stoppc' = stoppc \/ stoppc' = "closeCh"
        /\ UNCHANGED <<stopCh, clients, conn, late, toClose, tpc, cur, recips>>
    BY <1>0, <1>3 DEF PeerStep, Reply, Leave, Shutdown, Request, Unsubscribe, Decoding, Decodes,
                      TypeOK
  <2> QED BY <1>0, <2>1 DEF PeerInv, NeedsNoPeer, TypeOK
<1>4. ASSUME NEW t \in Topics, LoopStep(t) \/ SendDone(t) PROVE PeerInv'
  <2>1. /\ UNCHANGED <<stoppc, stopCh, clients, conn, hpc, late, toClose>>
        /\ \A u \in Topics : u # t => UNCHANGED <<tpc[u], cur[u], recips[u]>>
    BY <1>0, <1>4 DEF LoopStep, Wake, Broadcast, Drained, ExitLoop, SendDone, TypeOK
  <2>2. tpc'[t] = "send" => /\ cur'[t] \in Conns /\ hpc[cur'[t]] # "none"
                            /\ \A c \in recips'[t] : hpc[c] # "none"
    <3>1. CASE Broadcast(t)
      <4>1. PICK c \in subscribers[t] : cur'[t] = c /\ recips'[t] = subscribers[t] \ {c}
        BY <1>0, <3>1 DEF Broadcast, TypeOK
      <4> QED BY <1>0, <4>1 DEF SubsInv, TypeOK
    <3>2. CASE SendDone(t)
      <4>1. tpc[t] = "send" /\ \A c \in recips[t] : c \in Conns /\ hpc[c] # "none"
        BY <1>0, <3>2 DEF SendDone, PeerInv, TypeOK
      <4> QED BY <1>0, <3>2, <4>1 DEF SendDone, TypeOK
    <3>3. CASE Wake(t) \/ Drained(t) \/ ExitLoop(t)
      BY <1>0, <3>3 DEF Wake, Drained, ExitLoop, TypeOK
    <3> QED BY <1>4, <3>1, <3>2, <3>3 DEF LoopStep
  <2>3. \A c \in Conns : NeedsNoPeer(c)' <=> NeedsNoPeer(c)
    BY <2>1 DEF NeedsNoPeer
  <2>4. \A u \in Topics : tpc'[u] = "send" =>
          /\ cur'[u] \in Conns /\ hpc[cur'[u]] # "none"
          /\ \A c \in recips'[u] : hpc[c] # "none"
    BY <2>1, <2>2 DEF PeerInv
  <2> QED BY <2>1, <2>3, <2>4 DEF PeerInv
<1>5. CASE Spawn
  <2>1. /\ accepted \in Conns /\ accepted \in clients
        /\ hpc'[accepted] = "fresh" /\ \A d \in Conns : d # accepted => hpc'[d] = hpc[d]
        /\ UNCHANGED <<stoppc, stopCh, clients, conn, late, toClose, tpc, cur, recips>>
    BY <1>0, <1>5 DEF Spawn, RunInv, TypeOK
  <2>2. (stoppc \in {"closeConns", "wait"} /\ late = {}) =>
          accepted \in toClose \/ conn[accepted] = "closed"
    BY <1>0, <1>5 DEF Spawn, SnapshotInv
  <2>3. hpc[accepted] = "none"
    BY <1>0, <1>5 DEF Spawn, RunInv
  <2>4. ASSUME stoppc \in {"closeConns", "wait"}, late = {}, NEW c \in Conns, hpc'[c] # "none"
        PROVE  c \in toClose \/ NeedsNoPeer(c)'
    BY <2>1, <2>2, <2>4 DEF PeerInv, NeedsNoPeer
  <2>5. \A t \in Topics : tpc[t] = "send" =>
          /\ cur[t] \in Conns /\ hpc'[cur[t]] # "none"
          /\ \A c \in recips[t] : hpc'[c] # "none"
    BY <1>0, <2>1 DEF PeerInv, TypeOK
  <2>6. \A c \in Conns : hpc'[c] \notin {"none", "leaveTopics", "done"} => c \in clients
    BY <2>1 DEF PeerInv
  <2> QED BY <2>1, <2>4, <2>5, <2>6 DEF PeerInv
<1>6. CASE Register
  BY <1>0, <1>6 DEF Register, PeerInv, NeedsNoPeer, TypeOK
<1>7. CASE Listen \/ ListenFails \/ StoreListener \/ AcceptError \/ CallStop \/ UNCHANGED vars
  BY <1>7 DEF Listen, ListenFails, StoreListener, AcceptError, CallStop, vars, PeerInv, NeedsNoPeer
<1>8. CASE StopStep
  <2>1. CASE CloseStopCh \/ CloseListener \/ ConnsClosed \/ Wait
    BY <2>1 DEF CloseStopCh, CloseListener, ConnsClosed, Wait, PeerInv, NeedsNoPeer
  <2>2. CASE SnapshotClients
    <3>1. \A c \in Conns : hpc[c] # "none" => c \in clients \/ NeedsNoPeer(c)
      BY <1>0 DEF PeerInv, NeedsNoPeer, LeaveInv
    <3> QED BY <2>2, <3>1 DEF SnapshotClients, Registered, PeerInv, NeedsNoPeer
  <2>3. ASSUME NEW c \in Conns, CloseConn(c) PROVE PeerInv'
    BY <1>0, <2>3 DEF CloseConn, PeerInv, NeedsNoPeer, TypeOK
  <2> QED BY <1>8, <2>1, <2>2, <2>3 DEF StopStep
<1> QED BY <1>1, <1>2, <1>3, <1>4, <1>5, <1>6, <1>7, <1>8 DEF Next, RunStep

(***************************************************************************)
(* While Stop waits, unless a connection was registered behind its back,   *)
(* no peer can hold it up: stopCh is closed, and every handler it waits    *)
(* for, and every connection that a dispatcher writes to, is closed or is  *)
(* being left (server.go:192, "closes all client connections to unblock    *)
(* per-client Decode loops"). StopReturnsUnlessLate rests on this.         *)
(***************************************************************************)
NoPeerHoldsUpStop ==
  (stoppc = "wait" /\ late = {}) =>
    /\ stopCh
    /\ \A c \in LiveHandlers : NeedsNoPeer(c)
    /\ \A t \in Topics : tpc[t] = "send" => NeedsNoPeer(cur[t])

THEOREM StopNeedsNoPeer == Spec => []NoPeerHoldsUpStop
<1>1. Init => SubsInv /\ PeerInv
  BY DEF Init, SubsInv, PeerInv
<1>2. IInv /\ PeerInv => NoPeerHoldsUpStop
  BY DEF IInv, SnapshotInv, PeerInv, NoPeerHoldsUpStop, LiveHandlers
<1> QED BY <1>1, <1>2, Inductive, StepSubsInv, StepPeerInv, PTL DEF Spec
=============================================================================
