--------------------------- MODULE SrtGroup_proofs ----------------------------
(***************************************************************************)
(* For every set of links and all delays: the types and locks of a group   *)
(* and its scheduler, that callbacks meet only a whole object, that        *)
(* nothing is left of a group that is gone, the pace of reconnections, and *)
(* that the scheduler implements Timer; then the safety that liveness      *)
(* rests on: the timer thread wakes in time, and no failure goes unnoted.  *)
(***************************************************************************)
EXTENDS SrtGroup, TLAPS

\* Before its constructor has ended, an object has no listeners.
NewInv == owner = "construct" => m_listeners = {}
TypeInv == TypeOK /\ NewInv

LEMMA InitType ==
  ASSUME Init PROVE TypeInv
<1> USE LinksAssumption, DelayAssumption, MaxDelayAssumption DEF Links
<1>1. SchedulerType
  <2>1. 0 \in 0..MaxDelay
    OBVIOUS
  <2>2. QED
    BY <2>1, Zenon DEF Init, SchedulerInit, SchedulerType
<1>2. /\ link \in [Links -> {"off", "connecting", "connected", "broken", "waiting", "lost"}]
      /\ callback \in [Links -> {"none", "find", "add"}]
      /\ when \in [Links -> 0..MaxDelay]
      /\ since \in [Links -> 0..ReconnectDelay]
      /\ \A l \in Links : callback[l] = "add" <=> registry_lock = l
  BY DEF Init
<1>3. /\ open \subseteq Epolls \cup Sockets
      /\ m_targets \subseteq Links /\ m_listeners \subseteq open \cap Links
      /\ thrown \in BOOLEAN /\ registered \in BOOLEAN
      /\ registry_lock \in Links \cup {None}
  BY DEF Init
<1>4. QED
  BY <1>1, <1>2, <1>3 DEF Init, TypeInv, NewInv, TypeOK

LEMMA TypeStep ==
  ASSUME TypeInv, [Next]_vars
  PROVE  TypeInv'
<1> USE LinksAssumption, DelayAssumption, MaxDelayAssumption
    DEF TypeInv, NewInv, TypeOK, SchedulerType, Entry, Links, Epolls, Sockets, Caller, Destructing, EndingMembers,
        schedulerVars, config, objectVars, registryVars, linkVars
<1>1. CASE Construct
  BY <1>1 DEF Construct, OwnerGoes
<1>2. CASE ConstructThrows
  <2>1. open' \subseteq Epolls \cup Sockets
    BY <1>2 DEF ConstructThrows
  <2>2. UNCHANGED <<m_mode, m_blocking_mode>> /\ m_listeners' = m_listeners /\ owner = "construct"
    BY <1>2 DEF ConstructThrows, OwnerGoes
  <2>3. m_listeners = {}
    BY <2>2
  <2>4. QED
    BY <1>2, <2>1, <2>2, <2>3 DEF ConstructThrows, OwnerGoes
<1>3. CASE Listen
  BY <1>3 DEF Listen, OwnerGoes
<1>4. CASE Accept
  BY <1>4 DEF Accept, OwnerGoes
<1>5. CASE AcceptAgain
  BY <1>5 DEF AcceptAgain, OwnerGoes
<1>6. CASE Connect
  BY <1>6 DEF Connect, OwnerGoes
<1>7. CASE ConnectReturns
  BY <1>7 DEF ConnectReturns, OwnerGoes
<1>8. CASE BeginDestructor
  BY <1>8 DEF BeginDestructor, StopScheduler
<1>9. CASE Unregister
  BY <1>9 DEF Unregister, OwnerGoes
<1>10. CASE ReleaseTargets
  BY <1>10 DEF ReleaseTargets, OwnerGoes
<1>11. CASE ReleaseListeners
  BY <1>11 DEF ReleaseListeners, OwnerGoes
<1>12. CASE CloseGroup
  BY <1>12 DEF CloseGroup, OwnerGoes
<1>13. CASE EndMembers
  BY <1>13 DEF EndMembers, OwnerGoes, StopScheduler
<1>14. CASE NotifyTimer
  BY <1>14 DEF NotifyTimer, OwnerGoes, NotifyScheduler, Notified
<1>15. CASE JoinTimer
  BY <1>15 DEF JoinTimer, OwnerGoes, JoinScheduler
<1>16. ASSUME NEW l \in Links, LinkUp(l) PROVE TypeInv'
  BY <1>16 DEF LinkUp
<1>17. ASSUME NEW l \in Links, LinkFails(l) PROVE TypeInv'
  BY <1>17 DEF LinkFails
<1>18. ASSUME NEW l \in Links, MemberComes(l) PROVE TypeInv'
  BY <1>18 DEF MemberComes
<1>19. ASSUME NEW l \in Links, MemberLeaves(l) PROVE TypeInv'
  BY <1>19 DEF MemberLeaves
<1>20. ASSUME NEW l \in Links, FindGroup(l) PROVE TypeInv'
  BY <1>20 DEF FindGroup
<1>21. ASSUME NEW l \in Links, GroupNotFound(l) PROVE TypeInv'
  BY <1>21 DEF GroupNotFound
<1>22. ASSUME NEW l \in Links, ScheduleTask(l) PROVE TypeInv'
  BY <1>22 DEF ScheduleTask, AddTask, Notified, MutexFree
<1>23. ASSUME NEW e \in todo, Reconnect(e) PROVE TypeInv'
  BY <1>23 DEF Reconnect, Run
<1>24. ASSUME NEW e \in todo, PrintMemberSocket(e) PROVE TypeInv'
  BY <1>24 DEF PrintMemberSocket, Run
<1>25. CASE Check /\ UNCHANGED <<config, owner, objectVars, registryVars, linkVars>>
  BY <1>25 DEF Check
<1>26. CASE ManageTasks /\ UNCHANGED <<config, owner, objectVars, registryVars, linkVars>>
  BY <1>26 DEF ManageTasks, Triggered
<1>27. CASE EraseTasks /\ UNCHANGED <<config, owner, objectVars, registryVars, linkVars>>
  BY <1>27 DEF EraseTasks
<1>28. CASE Look /\ UNCHANGED <<config, owner, objectVars, registryVars, linkVars>>
  BY <1>28 DEF Look
<1>29. CASE Wait /\ UNCHANGED <<config, owner, objectVars, registryVars, linkVars>>
  BY <1>29 DEF Wait
<1>30. CASE WaitUntil /\ UNCHANGED <<config, owner, objectVars, registryVars, linkVars>>
  BY <1>30 DEF WaitUntil
<1>31. CASE TimeOut /\ UNCHANGED <<config, owner, objectVars, registryVars, linkVars>>
  BY <1>31 DEF TimeOut
<1>32. CASE Spurious
  BY <1>32 DEF Spurious, SpuriousWakeUp, Notified
<1>33. CASE Tick
  BY <1>33 DEF Tick, PassTime, Elapsed, Earlier, Later
<1>34. CASE UNCHANGED vars
  BY <1>34 DEF vars
<1>35. QED
  BY <1>1, <1>2, <1>3, <1>4, <1>5, <1>6, <1>7, <1>8, <1>9, <1>10, <1>11, <1>12, <1>13, <1>14, <1>15, <1>16, <1>17, <1>18, <1>19, <1>20, <1>21, <1>22, <1>23, <1>24, <1>25, <1>26, <1>27, <1>28, <1>29, <1>30, <1>31, <1>32, <1>33, <1>34
  DEF Next, Use, Destroy, Libsrt, Callback, RunTask, TimerThread, TimerStep

-----------------------------------------------------------------------------
\* The registry holds the object while it is whole, and a callback is inside it
\* only then.  Before connect(), and when the constructor has thrown, nothing
\* has happened to the links.
Registered == {"connect", "connecting", "listen", "accept", "open", "unregister"}
Ending == EndingMembers \cup {"gone"}

ObjectInv ==
  /\ registered <=> owner \in Registered
  /\ \A l \in Links : callback[l] = "add" => registered
  /\ thrown => owner \in Ending
  /\ owner \in {"construct", "connect"} \/ thrown =>
       /\ tasks_ = {}
       /\ \A l \in Links : link[l] = "off" /\ callback[l] = "none"
  /\ owner \in {"connect", "connecting"} => Caller
  /\ owner \in {"listen", "accept"} => ~Caller

\* What the destructor has still to close.
EndInv ==
  /\ owner \in Registered \cup Destructing => open \subseteq Epolls \cup m_listeners \cup {Group}
  /\ owner \in Destructing => open \cap Epolls = {}
  /\ owner = "close" => m_listeners = {}
  /\ owner \in Ending /\ ~thrown => open = {}
  /\ owner \in Ending /\ Caller => \A l \in Links : link[l] = "off"
  /\ owner = "gone" => thread_ = "ended"

\* The tasks that have not run.  A link has one task at most, and while it has
\* one its callback is over; together with the time since the failure was
\* reported, the time left is never below the delay.
Unrun == tasks_ \ (due \ todo)

TaskInv ==
  /\ \A e, f \in tasks_ : e.task = f.task => e = f
  /\ \A e \in Unrun : callback[e.task] = "none"
  /\ Caller => \A e \in Unrun : /\ link[e.task] \in {"waiting", "off"}
                                /\ link[e.task] = "off" => Group \notin open
                                /\ e.left + since[e.task] >= ReconnectDelay
  /\ Caller => \A l \in Links : callback[l] = "add" => when[l] + since[l] >= ReconnectDelay

LEMMA ObjectStep ==
  ASSUME TypeInv, ObjectInv, [Next]_vars
  PROVE  ObjectInv'
<1> USE LinksAssumption
    DEF TypeInv, NewInv, ObjectInv, Registered, Ending, TypeOK, SchedulerType, Entry, Links, Epolls, Sockets, Caller, Destructing, EndingMembers,
        schedulerVars, config, objectVars, registryVars, linkVars
<1>1. CASE Construct
  BY <1>1 DEF Construct, OwnerGoes
<1>2. CASE ConstructThrows
  BY <1>2 DEF ConstructThrows, OwnerGoes
<1>3. CASE Listen
  BY <1>3 DEF Listen, OwnerGoes
<1>4. CASE Accept
  BY <1>4 DEF Accept, OwnerGoes
<1>5. CASE AcceptAgain
  BY <1>5 DEF AcceptAgain, OwnerGoes
<1>6. CASE Connect
  BY <1>6 DEF Connect, OwnerGoes
<1>7. CASE ConnectReturns
  BY <1>7 DEF ConnectReturns, OwnerGoes
<1>8. CASE BeginDestructor
  BY <1>8 DEF BeginDestructor, StopScheduler
<1>9. CASE Unregister
  BY <1>9 DEF Unregister, OwnerGoes
<1>10. CASE ReleaseTargets
  BY <1>10 DEF ReleaseTargets, OwnerGoes
<1>11. CASE ReleaseListeners
  BY <1>11 DEF ReleaseListeners, OwnerGoes
<1>12. CASE CloseGroup
  BY <1>12 DEF CloseGroup, OwnerGoes
<1>13. CASE EndMembers
  BY <1>13 DEF EndMembers, OwnerGoes, StopScheduler
<1>14. CASE NotifyTimer
  BY <1>14 DEF NotifyTimer, OwnerGoes, NotifyScheduler, Notified
<1>15. CASE JoinTimer
  BY <1>15 DEF JoinTimer, OwnerGoes, JoinScheduler
<1>16. ASSUME NEW l \in Links, LinkUp(l) PROVE ObjectInv'
  BY <1>16 DEF LinkUp
<1>17. ASSUME NEW l \in Links, LinkFails(l) PROVE ObjectInv'
  BY <1>17 DEF LinkFails
<1>18. ASSUME NEW l \in Links, MemberComes(l) PROVE ObjectInv'
  BY <1>18 DEF MemberComes
<1>19. ASSUME NEW l \in Links, MemberLeaves(l) PROVE ObjectInv'
  BY <1>19 DEF MemberLeaves
<1>20. ASSUME NEW l \in Links, FindGroup(l) PROVE ObjectInv'
  BY <1>20 DEF FindGroup
<1>21. ASSUME NEW l \in Links, GroupNotFound(l) PROVE ObjectInv'
  BY <1>21 DEF GroupNotFound
<1>22. ASSUME NEW l \in Links, ScheduleTask(l) PROVE ObjectInv'
  BY <1>22 DEF ScheduleTask, AddTask, Notified, MutexFree
<1>23. ASSUME NEW e \in todo, Reconnect(e) PROVE ObjectInv'
  BY <1>23 DEF Reconnect, Run
<1>24. ASSUME NEW e \in todo, PrintMemberSocket(e) PROVE ObjectInv'
  BY <1>24 DEF PrintMemberSocket, Run
<1>25. CASE Check /\ UNCHANGED <<config, owner, objectVars, registryVars, linkVars>>
  BY <1>25 DEF Check
<1>26. CASE ManageTasks /\ UNCHANGED <<config, owner, objectVars, registryVars, linkVars>>
  BY <1>26 DEF ManageTasks, Triggered
<1>27. CASE EraseTasks /\ UNCHANGED <<config, owner, objectVars, registryVars, linkVars>>
  BY <1>27 DEF EraseTasks
<1>28. CASE Look /\ UNCHANGED <<config, owner, objectVars, registryVars, linkVars>>
  BY <1>28 DEF Look
<1>29. CASE Wait /\ UNCHANGED <<config, owner, objectVars, registryVars, linkVars>>
  BY <1>29 DEF Wait
<1>30. CASE WaitUntil /\ UNCHANGED <<config, owner, objectVars, registryVars, linkVars>>
  BY <1>30 DEF WaitUntil
<1>31. CASE TimeOut /\ UNCHANGED <<config, owner, objectVars, registryVars, linkVars>>
  BY <1>31 DEF TimeOut
<1>32. CASE Spurious
  BY <1>32 DEF Spurious, SpuriousWakeUp, Notified
<1>33. CASE Tick
  BY <1>33 DEF Tick, PassTime, Elapsed, Earlier, Later
<1>34. CASE UNCHANGED vars
  BY <1>34 DEF vars
<1>35. QED
  BY <1>1, <1>2, <1>3, <1>4, <1>5, <1>6, <1>7, <1>8, <1>9, <1>10, <1>11, <1>12, <1>13, <1>14, <1>15, <1>16, <1>17, <1>18, <1>19, <1>20, <1>21, <1>22, <1>23, <1>24, <1>25, <1>26, <1>27, <1>28, <1>29, <1>30, <1>31, <1>32, <1>33, <1>34
  DEF Next, Use, Destroy, Libsrt, Callback, RunTask, TimerThread, TimerStep

LEMMA EndStep ==
  ASSUME TypeInv, ObjectInv, EndInv, [Next]_vars
  PROVE  EndInv'
<1> USE LinksAssumption
    DEF TypeInv, NewInv, ObjectInv, EndInv, Registered, Ending, TypeOK, SchedulerType, Entry, Links, Epolls, Sockets, Caller, Destructing, EndingMembers,
        schedulerVars, config, objectVars, registryVars, linkVars
<1>1. CASE Construct
  BY <1>1 DEF Construct, OwnerGoes
<1>2. CASE ConstructThrows
  BY <1>2 DEF ConstructThrows, OwnerGoes
<1>3. CASE Listen
  BY <1>3 DEF Listen, OwnerGoes
<1>4. CASE Accept
  BY <1>4 DEF Accept, OwnerGoes
<1>5. CASE AcceptAgain
  BY <1>5 DEF AcceptAgain, OwnerGoes
<1>6. CASE Connect
  BY <1>6 DEF Connect, OwnerGoes
<1>7. CASE ConnectReturns
  BY <1>7 DEF ConnectReturns, OwnerGoes
<1>8. CASE BeginDestructor
  BY <1>8 DEF BeginDestructor, StopScheduler
<1>9. CASE Unregister
  BY <1>9 DEF Unregister, OwnerGoes
<1>10. CASE ReleaseTargets
  BY <1>10 DEF ReleaseTargets, OwnerGoes
<1>11. CASE ReleaseListeners
  BY <1>11 DEF ReleaseListeners, OwnerGoes
<1>12. CASE CloseGroup
  BY <1>12 DEF CloseGroup, OwnerGoes
<1>13. CASE EndMembers
  BY <1>13 DEF EndMembers, OwnerGoes, StopScheduler
<1>14. CASE NotifyTimer
  BY <1>14 DEF NotifyTimer, OwnerGoes, NotifyScheduler, Notified
<1>15. CASE JoinTimer
  BY <1>15 DEF JoinTimer, OwnerGoes, JoinScheduler
<1>16. ASSUME NEW l \in Links, LinkUp(l) PROVE EndInv'
  BY <1>16 DEF LinkUp
<1>17. ASSUME NEW l \in Links, LinkFails(l) PROVE EndInv'
  BY <1>17 DEF LinkFails
<1>18. ASSUME NEW l \in Links, MemberComes(l) PROVE EndInv'
  BY <1>18 DEF MemberComes
<1>19. ASSUME NEW l \in Links, MemberLeaves(l) PROVE EndInv'
  BY <1>19 DEF MemberLeaves
<1>20. ASSUME NEW l \in Links, FindGroup(l) PROVE EndInv'
  BY <1>20 DEF FindGroup
<1>21. ASSUME NEW l \in Links, GroupNotFound(l) PROVE EndInv'
  BY <1>21 DEF GroupNotFound
<1>22. ASSUME NEW l \in Links, ScheduleTask(l) PROVE EndInv'
  BY <1>22 DEF ScheduleTask, AddTask, Notified, MutexFree
<1>23. ASSUME NEW e \in todo, Reconnect(e) PROVE EndInv'
  BY <1>23 DEF Reconnect, Run
<1>24. ASSUME NEW e \in todo, PrintMemberSocket(e) PROVE EndInv'
  BY <1>24 DEF PrintMemberSocket, Run
<1>25. CASE Check /\ UNCHANGED <<config, owner, objectVars, registryVars, linkVars>>
  BY <1>25 DEF Check
<1>26. CASE ManageTasks /\ UNCHANGED <<config, owner, objectVars, registryVars, linkVars>>
  BY <1>26 DEF ManageTasks, Triggered
<1>27. CASE EraseTasks /\ UNCHANGED <<config, owner, objectVars, registryVars, linkVars>>
  BY <1>27 DEF EraseTasks
<1>28. CASE Look /\ UNCHANGED <<config, owner, objectVars, registryVars, linkVars>>
  BY <1>28 DEF Look
<1>29. CASE Wait /\ UNCHANGED <<config, owner, objectVars, registryVars, linkVars>>
  BY <1>29 DEF Wait
<1>30. CASE WaitUntil /\ UNCHANGED <<config, owner, objectVars, registryVars, linkVars>>
  BY <1>30 DEF WaitUntil
<1>31. CASE TimeOut /\ UNCHANGED <<config, owner, objectVars, registryVars, linkVars>>
  BY <1>31 DEF TimeOut
<1>32. CASE Spurious
  BY <1>32 DEF Spurious, SpuriousWakeUp, Notified
<1>33. CASE Tick
  BY <1>33 DEF Tick, PassTime, Elapsed, Earlier, Later
<1>34. CASE UNCHANGED vars
  BY <1>34 DEF vars
<1>35. QED
  BY <1>1, <1>2, <1>3, <1>4, <1>5, <1>6, <1>7, <1>8, <1>9, <1>10, <1>11, <1>12, <1>13, <1>14, <1>15, <1>16, <1>17, <1>18, <1>19, <1>20, <1>21, <1>22, <1>23, <1>24, <1>25, <1>26, <1>27, <1>28, <1>29, <1>30, <1>31, <1>32, <1>33, <1>34
  DEF Next, Use, Destroy, Libsrt, Callback, RunTask, TimerThread, TimerStep

LEMMA TaskStep ==
  ASSUME TypeInv, ObjectInv, EndInv, TaskInv, [Next]_vars
  PROVE  TaskInv'
<1> USE LinksAssumption, DelayAssumption, MaxDelayAssumption
    DEF TypeInv, NewInv, ObjectInv, EndInv, TaskInv, Unrun, Registered, Ending, TypeOK, SchedulerType, Entry, Links, Epolls, Sockets, Caller, Destructing, EndingMembers,
        schedulerVars, config, objectVars, registryVars, linkVars
<1>1. CASE Construct
  BY <1>1 DEF Construct, OwnerGoes
<1>2. CASE ConstructThrows
  BY <1>2 DEF ConstructThrows, OwnerGoes
<1>3. CASE Listen
  BY <1>3 DEF Listen, OwnerGoes
<1>4. CASE Accept
  BY <1>4 DEF Accept, OwnerGoes
<1>5. CASE AcceptAgain
  BY <1>5 DEF AcceptAgain, OwnerGoes
<1>6. CASE Connect
  BY <1>6 DEF Connect, OwnerGoes
<1>7. CASE ConnectReturns
  BY <1>7 DEF ConnectReturns, OwnerGoes
<1>8. CASE BeginDestructor
  BY <1>8 DEF BeginDestructor, StopScheduler
<1>9. CASE Unregister
  BY <1>9 DEF Unregister, OwnerGoes
<1>10. CASE ReleaseTargets
  BY <1>10 DEF ReleaseTargets, OwnerGoes
<1>11. CASE ReleaseListeners
  BY <1>11 DEF ReleaseListeners, OwnerGoes
<1>12. CASE CloseGroup
  BY <1>12 DEF CloseGroup, OwnerGoes
<1>13. CASE EndMembers
  BY <1>13 DEF EndMembers, OwnerGoes, StopScheduler
<1>14. CASE NotifyTimer
  BY <1>14 DEF NotifyTimer, OwnerGoes, NotifyScheduler, Notified
<1>15. CASE JoinTimer
  BY <1>15 DEF JoinTimer, OwnerGoes, JoinScheduler
<1>16. ASSUME NEW l \in Links, LinkUp(l) PROVE TaskInv'
  BY <1>16 DEF LinkUp
<1>17. ASSUME NEW l \in Links, LinkFails(l) PROVE TaskInv'
  BY <1>17 DEF LinkFails
<1>18. ASSUME NEW l \in Links, MemberComes(l) PROVE TaskInv'
  BY <1>18 DEF MemberComes
<1>19. ASSUME NEW l \in Links, MemberLeaves(l) PROVE TaskInv'
  BY <1>19 DEF MemberLeaves
<1>20. ASSUME NEW l \in Links, FindGroup(l) PROVE TaskInv'
  BY <1>20 DEF FindGroup
<1>21. ASSUME NEW l \in Links, GroupNotFound(l) PROVE TaskInv'
  BY <1>21 DEF GroupNotFound
<1>22. ASSUME NEW l \in Links, ScheduleTask(l) PROVE TaskInv'
  BY <1>22 DEF ScheduleTask, AddTask, Notified, MutexFree
<1>23. ASSUME NEW e \in todo, Reconnect(e) PROVE TaskInv'
  BY <1>23 DEF Reconnect, Run
<1>24. ASSUME NEW e \in todo, PrintMemberSocket(e) PROVE TaskInv'
  BY <1>24 DEF PrintMemberSocket, Run
<1>25. CASE Check /\ UNCHANGED <<config, owner, objectVars, registryVars, linkVars>>
  BY <1>25 DEF Check
<1>26. CASE ManageTasks /\ UNCHANGED <<config, owner, objectVars, registryVars, linkVars>>
  BY <1>26 DEF ManageTasks, Triggered
<1>27. CASE EraseTasks /\ UNCHANGED <<config, owner, objectVars, registryVars, linkVars>>
  BY <1>27 DEF EraseTasks
<1>28. CASE Look /\ UNCHANGED <<config, owner, objectVars, registryVars, linkVars>>
  BY <1>28 DEF Look
<1>29. CASE Wait /\ UNCHANGED <<config, owner, objectVars, registryVars, linkVars>>
  BY <1>29 DEF Wait
<1>30. CASE WaitUntil /\ UNCHANGED <<config, owner, objectVars, registryVars, linkVars>>
  BY <1>30 DEF WaitUntil
<1>31. CASE TimeOut /\ UNCHANGED <<config, owner, objectVars, registryVars, linkVars>>
  BY <1>31 DEF TimeOut
<1>32. CASE Spurious
  BY <1>32 DEF Spurious, SpuriousWakeUp, Notified
<1>33. CASE Tick
  BY <1>33 DEF Tick, PassTime, Elapsed, Earlier, Later
<1>34. CASE UNCHANGED vars
  BY <1>34 DEF vars
<1>35. QED
  BY <1>1, <1>2, <1>3, <1>4, <1>5, <1>6, <1>7, <1>8, <1>9, <1>10, <1>11, <1>12, <1>13, <1>14, <1>15, <1>16, <1>17, <1>18, <1>19, <1>20, <1>21, <1>22, <1>23, <1>24, <1>25, <1>26, <1>27, <1>28, <1>29, <1>30, <1>31, <1>32, <1>33, <1>34
  DEF Next, Use, Destroy, Libsrt, Callback, RunTask, TimerThread, TimerStep

-----------------------------------------------------------------------------
IInv == TypeInv /\ ObjectInv /\ EndInv /\ TaskInv

LEMMA InitIInv ==
  ASSUME Init PROVE IInv
<1>1. TypeInv
  BY InitType
<1>2. ObjectInv /\ EndInv
  BY DEF Init, SchedulerInit, ObjectInv, EndInv, Registered, Ending, EndingMembers,
         Destructing, Caller, Links
<1>3. TaskInv
  BY DEF Init, SchedulerInit, TaskInv, Unrun, Links
<1>4. QED
  BY <1>1, <1>2, <1>3 DEF IInv

LEMMA InductiveInvariant == Spec => []IInv
<1>1. IInv /\ [Next]_vars => IInv'
  BY TypeStep, ObjectStep, EndStep, TaskStep DEF IInv
<1>2. QED
  BY InitIInv, <1>1, PTL DEF Spec

(***************************************************************************)
(* The types of the group and its scheduler; the registry is locked        *)
(* exactly by the callback that is inside the group, and manage_tasks has  *)
(* tasks in hand only under the lock (scheduler.hpp:114).                  *)
(***************************************************************************)
THEOREM TypeCorrect == Spec => []TypeOK
  BY InductiveInvariant, PTL DEF IInv, TypeInv

(***************************************************************************)
(* For any number of links: the callbacks of libsrt meet the object only   *)
(* while it is whole, because the destructor must get the lock of the      *)
(* registry before it releases anything (srt_socket_group.cpp:263).        *)
(***************************************************************************)
THEOREM CallbackSeesLiveGroupHolds == Spec => []CallbackSeesLiveGroup
<1>1. IInv => CallbackSeesLiveGroup
  BY DEF IInv, ObjectInv, Registered, CallbackSeesLiveGroup
<1>2. QED
  BY InductiveInvariant, <1>1, PTL

(***************************************************************************)
(* For any number of links: after the destructor (srt_socket_group.cpp:250) *)
(* nothing of the group is left, also if a task ran while it was closed.   *)
(***************************************************************************)
THEOREM NothingLeftHolds == Spec => []NothingLeft
<1>1. IInv => NothingLeft
  BY DEF IInv, EndInv, Ending, EndingMembers, NothingLeft
<1>2. QED
  BY InductiveInvariant, <1>1, PTL

-----------------------------------------------------------------------------
PaceStep == \A l \in Links : link[l] = "waiting" /\ link'[l] \in {"connecting", "lost"}
              => since[l] = ReconnectDelay

\* Only connfn takes a link out of "waiting" other than by closing it.
LEMMA StepKeepsPace ==
  ASSUME IInv, [Next]_vars
  PROVE  PaceStep
<1> USE DelayAssumption
    DEF PaceStep, IInv, TypeInv, ObjectInv, TaskInv, Unrun, TypeOK, SchedulerType, Entry, Links, Epolls, Sockets, Caller, Destructing, EndingMembers,
        schedulerVars, config, objectVars, registryVars, linkVars
<1>1. CASE Construct
  BY <1>1 DEF Construct, OwnerGoes
<1>2. CASE ConstructThrows
  BY <1>2 DEF ConstructThrows, OwnerGoes
<1>3. CASE Listen
  BY <1>3 DEF Listen, OwnerGoes
<1>4. CASE Accept
  BY <1>4 DEF Accept, OwnerGoes
<1>5. CASE AcceptAgain
  BY <1>5 DEF AcceptAgain, OwnerGoes
<1>6. CASE Connect
  BY <1>6 DEF Connect, OwnerGoes
<1>7. CASE ConnectReturns
  BY <1>7 DEF ConnectReturns, OwnerGoes
<1>8. CASE BeginDestructor
  BY <1>8 DEF BeginDestructor, StopScheduler
<1>9. CASE Unregister
  BY <1>9 DEF Unregister, OwnerGoes
<1>10. CASE ReleaseTargets
  BY <1>10 DEF ReleaseTargets, OwnerGoes
<1>11. CASE ReleaseListeners
  BY <1>11 DEF ReleaseListeners, OwnerGoes
<1>12. CASE CloseGroup
  BY <1>12 DEF CloseGroup, OwnerGoes
<1>13. CASE EndMembers
  BY <1>13 DEF EndMembers, OwnerGoes, StopScheduler
<1>14. CASE NotifyTimer
  BY <1>14 DEF NotifyTimer, OwnerGoes, NotifyScheduler, Notified
<1>15. CASE JoinTimer
  BY <1>15 DEF JoinTimer, OwnerGoes, JoinScheduler
<1>16. ASSUME NEW l \in Links, LinkUp(l) PROVE PaceStep
  BY <1>16 DEF LinkUp
<1>17. ASSUME NEW l \in Links, LinkFails(l) PROVE PaceStep
  BY <1>17 DEF LinkFails
<1>18. ASSUME NEW l \in Links, MemberComes(l) PROVE PaceStep
  BY <1>18 DEF MemberComes
<1>19. ASSUME NEW l \in Links, MemberLeaves(l) PROVE PaceStep
  BY <1>19 DEF MemberLeaves
<1>20. ASSUME NEW l \in Links, FindGroup(l) PROVE PaceStep
  BY <1>20 DEF FindGroup
<1>21. ASSUME NEW l \in Links, GroupNotFound(l) PROVE PaceStep
  BY <1>21 DEF GroupNotFound
<1>22. ASSUME NEW l \in Links, ScheduleTask(l) PROVE PaceStep
  BY <1>22 DEF ScheduleTask, AddTask, Notified, MutexFree
<1>23. ASSUME NEW e \in todo, Reconnect(e) PROVE PaceStep
  BY <1>23 DEF Reconnect, Run
<1>24. ASSUME NEW e \in todo, PrintMemberSocket(e) PROVE PaceStep
  BY <1>24 DEF PrintMemberSocket, Run
<1>25. CASE Check /\ UNCHANGED <<config, owner, objectVars, registryVars, linkVars>>
  BY <1>25 DEF Check
<1>26. CASE ManageTasks /\ UNCHANGED <<config, owner, objectVars, registryVars, linkVars>>
  BY <1>26 DEF ManageTasks, Triggered
<1>27. CASE EraseTasks /\ UNCHANGED <<config, owner, objectVars, registryVars, linkVars>>
  BY <1>27 DEF EraseTasks
<1>28. CASE Look /\ UNCHANGED <<config, owner, objectVars, registryVars, linkVars>>
  BY <1>28 DEF Look
<1>29. CASE Wait /\ UNCHANGED <<config, owner, objectVars, registryVars, linkVars>>
  BY <1>29 DEF Wait
<1>30. CASE WaitUntil /\ UNCHANGED <<config, owner, objectVars, registryVars, linkVars>>
  BY <1>30 DEF WaitUntil
<1>31. CASE TimeOut /\ UNCHANGED <<config, owner, objectVars, registryVars, linkVars>>
  BY <1>31 DEF TimeOut
<1>32. CASE Spurious
  BY <1>32 DEF Spurious, SpuriousWakeUp, Notified
<1>33. CASE Tick
  BY <1>33 DEF Tick, PassTime, Elapsed, Earlier, Later
<1>34. CASE UNCHANGED vars
  BY <1>34 DEF vars
<1>35. QED
  BY <1>1, <1>2, <1>3, <1>4, <1>5, <1>6, <1>7, <1>8, <1>9, <1>10, <1>11, <1>12, <1>13, <1>14, <1>15, <1>16, <1>17, <1>18, <1>19, <1>20, <1>21, <1>22, <1>23, <1>24, <1>25, <1>26, <1>27, <1>28, <1>29, <1>30, <1>31, <1>32, <1>33, <1>34
  DEF Next, Use, Destroy, Libsrt, Callback, RunTask, TimerThread, TimerStep

(***************************************************************************)
(* For all delays and any number of links: a member is connected again     *)
(* only when the delay has passed since its failure was reported           *)
(* (srt_socket_group.cpp:576).                                             *)
(***************************************************************************)
THEOREM ReconnectPaceHolds == Spec => ReconnectPace
<1>1. IInv /\ [Next]_vars => [PaceStep]_vars
  BY StepKeepsPace
<1>2. QED
  BY InductiveInvariant, <1>1, PTL DEF Spec, ReconnectPace, PaceStep

-----------------------------------------------------------------------------
asked == {l \in Links : callback[l] = "add"}
isGone == owner = "gone"

Idle == asked' = asked /\ Unrun' = Unrun /\ isGone' = isGone
TimerNext == Abstract!Ask \/ Abstract!Schedule \/ Abstract!Fire \/ Abstract!Pass \/ Abstract!Close
TimerOrIdle == TimerNext \/ Idle

\* Every step is one of the abstract timer, or changes nothing it knows of.
LEMMA StepIsTimer ==
  ASSUME IInv, [Next]_vars
  PROVE  TimerOrIdle
<1> USE LinksAssumption
    DEF TimerOrIdle, Idle, asked, isGone, Unrun, IInv, TypeInv, TypeOK, SchedulerType, Entry, Links, Epolls, Sockets, Caller, Destructing, EndingMembers,
        schedulerVars, config, objectVars, registryVars, linkVars
<1>1. CASE Construct
  BY <1>1 DEF Construct, OwnerGoes
<1>2. CASE ConstructThrows
  BY <1>2 DEF ConstructThrows, OwnerGoes
<1>3. CASE Listen
  BY <1>3 DEF Listen, OwnerGoes
<1>4. CASE Accept
  BY <1>4 DEF Accept, OwnerGoes
<1>5. CASE AcceptAgain
  BY <1>5 DEF AcceptAgain, OwnerGoes
<1>6. CASE Connect
  BY <1>6 DEF Connect, OwnerGoes
<1>7. CASE ConnectReturns
  BY <1>7 DEF ConnectReturns, OwnerGoes
<1>8. CASE BeginDestructor
  BY <1>8 DEF BeginDestructor, StopScheduler
<1>9. CASE Unregister
  BY <1>9 DEF Unregister, OwnerGoes
<1>10. CASE ReleaseTargets
  BY <1>10 DEF ReleaseTargets, OwnerGoes
<1>11. CASE ReleaseListeners
  BY <1>11 DEF ReleaseListeners, OwnerGoes
<1>12. CASE CloseGroup
  BY <1>12 DEF CloseGroup, OwnerGoes
<1>13. CASE EndMembers
  BY <1>13 DEF EndMembers, OwnerGoes, StopScheduler
<1>14. CASE NotifyTimer
  BY <1>14 DEF NotifyTimer, OwnerGoes, NotifyScheduler, Notified
<1>15. CASE JoinTimer
  <2>1. Abstract!Close
    BY <1>15 DEF JoinTimer, OwnerGoes, JoinScheduler, ObjectInv, Registered, Abstract!Close
  <2>2. QED
    BY <2>1 DEF TimerNext
<1>16. ASSUME NEW l \in Links, LinkUp(l) PROVE TimerOrIdle
  BY <1>16 DEF LinkUp
<1>17. ASSUME NEW l \in Links, LinkFails(l) PROVE TimerOrIdle
  BY <1>17 DEF LinkFails
<1>18. ASSUME NEW l \in Links, MemberComes(l) PROVE TimerOrIdle
  BY <1>18 DEF MemberComes
<1>19. ASSUME NEW l \in Links, MemberLeaves(l) PROVE TimerOrIdle
  BY <1>19 DEF MemberLeaves
<1>20. ASSUME NEW l \in Links, FindGroup(l) PROVE TimerOrIdle
  <2>1. Abstract!Ask
    BY <1>20 DEF FindGroup, Abstract!Ask, ObjectInv, Registered
  <2>2. QED
    BY <2>1 DEF TimerNext
<1>21. ASSUME NEW l \in Links, GroupNotFound(l) PROVE TimerOrIdle
  BY <1>21 DEF GroupNotFound
<1>22. ASSUME NEW l \in Links, ScheduleTask(l) PROVE TimerOrIdle
  <2>1. Abstract!Schedule
    BY <1>22 DEF ScheduleTask, AddTask, MutexFree, Abstract!Schedule
  <2>2. QED
    BY <2>1 DEF TimerNext
<1>23. ASSUME NEW e \in todo, Reconnect(e) PROVE TimerOrIdle
  <2>1. Abstract!Fire
    BY <1>23 DEF Reconnect, Run, Abstract!Fire
  <2>2. QED
    BY <2>1 DEF TimerNext
<1>24. ASSUME NEW e \in todo, PrintMemberSocket(e) PROVE TimerOrIdle
  <2>1. Abstract!Fire
    BY <1>24 DEF PrintMemberSocket, Run, Abstract!Fire
  <2>2. QED
    BY <2>1 DEF TimerNext
<1>25. CASE Check /\ UNCHANGED <<config, owner, objectVars, registryVars, linkVars>>
  BY <1>25 DEF Check
<1>26. CASE ManageTasks /\ UNCHANGED <<config, owner, objectVars, registryVars, linkVars>>
  BY <1>26 DEF ManageTasks, Triggered
<1>27. CASE EraseTasks /\ UNCHANGED <<config, owner, objectVars, registryVars, linkVars>>
  BY <1>27 DEF EraseTasks
<1>28. CASE Look /\ UNCHANGED <<config, owner, objectVars, registryVars, linkVars>>
  BY <1>28 DEF Look
<1>29. CASE Wait /\ UNCHANGED <<config, owner, objectVars, registryVars, linkVars>>
  BY <1>29 DEF Wait
<1>30. CASE WaitUntil /\ UNCHANGED <<config, owner, objectVars, registryVars, linkVars>>
  BY <1>30 DEF WaitUntil
<1>31. CASE TimeOut /\ UNCHANGED <<config, owner, objectVars, registryVars, linkVars>>
  BY <1>31 DEF TimeOut
<1>32. CASE Spurious
  BY <1>32 DEF Spurious, SpuriousWakeUp, Notified
<1>33. CASE Tick
  <2>1. Abstract!Pass
    BY <1>33 DEF Tick, PassTime, Elapsed, Earlier, TaskInv, Abstract!Pass, Abstract!Elapsed, Abstract!Earlier
  <2>2. QED
    BY <2>1 DEF TimerNext
<1>34. CASE UNCHANGED vars
  BY <1>34 DEF vars
<1>35. QED
  BY <1>1, <1>2, <1>3, <1>4, <1>5, <1>6, <1>7, <1>8, <1>9, <1>10, <1>11, <1>12, <1>13, <1>14, <1>15, <1>16, <1>17, <1>18, <1>19, <1>20, <1>21, <1>22, <1>23, <1>24, <1>25, <1>26, <1>27, <1>28, <1>29, <1>30, <1>31, <1>32, <1>33, <1>34
  DEF Next, Use, Destroy, Libsrt, Callback, RunTask, TimerThread, TimerStep

(***************************************************************************)
(* For any number of links and all delays: the scheduler of a group runs   *)
(* every task at most once and not before its time, and is destroyed only  *)
(* when no callback hands it a task (scheduler.hpp:107 to 131).            *)
(***************************************************************************)
THEOREM TimerRefinement == Spec => ImplementsTimer
<1>1. Init => Abstract!TimerInit
  BY DEF Init, SchedulerInit, Abstract!TimerInit
<1>2. IInv /\ [Next]_vars => [TimerNext]_Abstract!timerVars
  BY StepIsTimer DEF TimerOrIdle, Idle, asked, isGone, Unrun, Abstract!timerVars
<1>3. QED
  BY <1>1, <1>2, InductiveInvariant, PTL DEF Spec, ImplementsTimer, Abstract!TimerSpec, TimerNext

-----------------------------------------------------------------------------
(***************************************************************************)
(* Why the timer thread neither sleeps past a task nor past its end,       *)
(* although timer_loop looks at tasks_ without the lock and wait_until has *)
(* no predicate, so that a notification may come too early.  All tasks of  *)
(* a group have the same delay, and the lock of the registry lets their    *)
(* times be computed and added one after the other: a new task is never    *)
(* earlier than the ones that are there.                                   *)
(***************************************************************************)
Delay == IF Caller THEN ReconnectDelay ELSE PrintDelay

QueueInv ==
  /\ \A e \in tasks_ : e.left <= Delay
  /\ \A l \in Links : callback[l] = "add" =>
       /\ when[l] <= Delay
       /\ \A e \in tasks_ : e.left <= when[l]

SleepInv ==
  /\ thread_ = "asleep" => tasks_ = {}
  /\ thread_ \in {"until", "asleep_until"} => tasks_ # {} /\ \A e \in tasks_ : first <= e.left

\* ~scheduler has set done_ before it notifies.
StopInv ==
  /\ owner \in {"notify", "join"} => done_
  /\ owner = "join" => thread_ # "asleep"

WakeInv == QueueInv /\ SleepInv /\ StopInv

LEMMA Types ==
  ASSUME IInv
  PROVE  /\ \A e \in tasks_ : e.left \in Nat
         /\ \A l \in Links : when[l] \in Nat
         /\ first \in Nat /\ Delay \in Nat
BY MaxDelayAssumption, DelayAssumption
   DEF IInv, TypeInv, TypeOK, SchedulerType, Entry, Delay, Links

LEMMA InitWake == ASSUME Init PROVE WakeInv
BY DEF Init, SchedulerInit, WakeInv, QueueInv, SleepInv, StopInv, Links

\* The owner and libsrt leave the tasks alone.
LEMMA OwnerWake ==
  ASSUME IInv, WakeInv, Use \/ Destroy \/ \E l \in Links : Libsrt(l)
  PROVE  WakeInv'
<1>1. CASE EndMembers
  BY <1>1 DEF EndMembers, OwnerGoes, StopScheduler, objectVars, registryVars, linkVars, config,
              WakeInv, QueueInv, SleepInv, StopInv, Delay, Caller
<1>2. CASE NotifyTimer
  <2>1. /\ owner' = "join" /\ owner = "notify" /\ thread_' = Notified
        /\ UNCHANGED <<tasks_, first, done_, callback, when, m_mode>>
    BY <1>2 DEF NotifyTimer, OwnerGoes, NotifyScheduler, linkVars, config
  <2>2. /\ thread_' # "asleep"
        /\ thread_' \in {"until", "asleep_until"} => thread_ \in {"until", "asleep_until"}
    BY <2>1 DEF Notified
  <2> QED
    BY <2>1, <2>2 DEF WakeInv, QueueInv, SleepInv, StopInv, Delay, Caller
<1>3. CASE JoinTimer
  BY <1>3 DEF JoinTimer, OwnerGoes, JoinScheduler, linkVars, config,
              WakeInv, QueueInv, SleepInv, StopInv, Delay, Caller
<1>4. ASSUME NEW l \in Links, Libsrt(l) PROVE WakeInv'
  <2>1. /\ UNCHANGED <<tasks_, first, done_, thread_, owner, when, m_mode>>
        /\ callback' = callback \/ callback' = [callback EXCEPT ![l] = "find"]
    BY <1>4 DEF Libsrt, LinkUp, LinkFails, MemberComes, MemberLeaves, schedulerVars, config
  <2>2. \A k \in Links : callback'[k] = "add" => callback[k] = "add"
    BY <2>1 DEF IInv, TypeInv, TypeOK
  <2> QED
    BY <2>1, <2>2 DEF WakeInv, QueueInv, SleepInv, StopInv, Delay, Caller
<1>5. CASE Use \/ Unregister \/ ReleaseTargets \/ ReleaseListeners \/ CloseGroup \/ BeginDestructor
  <2>1. /\ UNCHANGED <<tasks_, first, thread_, callback, when, m_mode>>
        /\ owner' \notin {"notify", "join"}
    BY <1>5 DEF Use, Construct, ConstructThrows, Listen, Accept, AcceptAgain, Connect,
                ConnectReturns, Unregister, ReleaseTargets, ReleaseListeners, CloseGroup,
                BeginDestructor, StopScheduler, OwnerGoes, schedulerVars, config, linkVars
  <2> QED
    BY <2>1 DEF WakeInv, QueueInv, SleepInv, StopInv, Delay, Caller
<1> QED
  BY <1>1, <1>2, <1>3, <1>4, <1>5 DEF Destroy

\* A callback is alone inside the registry, so that its task comes last.
LEMMA CallbackWake ==
  ASSUME IInv, WakeInv, NEW l \in Links, Callback(l)
  PROVE  WakeInv'
<1>0. UNCHANGED <<first, done_, owner, m_mode>> /\ Delay' = Delay
  BY DEF Callback, FindGroup, GroupNotFound, ScheduleTask, AddTask, schedulerVars, config,
         Delay, Caller
<1>1. CASE FindGroup(l)
  <2>1. /\ UNCHANGED <<tasks_, thread_>>
        /\ callback' = [callback EXCEPT ![l] = "add"]
        /\ when' = [when EXCEPT ![l] = Delay]
    BY <1>1 DEF FindGroup, schedulerVars, Delay
  <2>2. when'[l] = Delay /\ \A k \in Links : k # l => callback'[k] = callback[k] /\ when'[k] = when[k]
    BY <2>1 DEF IInv, TypeInv, TypeOK
  <2>3. QueueInv'
    BY <1>0, <2>1, <2>2, Types DEF WakeInv, QueueInv
  <2> QED
    BY <1>0, <2>1, <2>3 DEF WakeInv, SleepInv, StopInv
<1>2. CASE GroupNotFound(l)
  <2>1. UNCHANGED <<tasks_, thread_, when>> /\ callback' = [callback EXCEPT ![l] = "none"]
    BY <1>2 DEF GroupNotFound, schedulerVars
  <2>2. \A k \in Links : callback'[k] = "add" => callback[k] = "add"
    BY <2>1
  <2> QED
    BY <1>0, <2>1, <2>2 DEF WakeInv, QueueInv, SleepInv, StopInv
<1>3. CASE ScheduleTask(l)
  <2> DEFINE e == [task |-> l, left |-> when[l]]
  <2>1. /\ callback[l] = "add" /\ callback' = [callback EXCEPT ![l] = "none"]
        /\ tasks_' = tasks_ \cup {e} /\ thread_' = Notified /\ when' = when
    BY <1>3 DEF ScheduleTask, AddTask
  <2>2. \A k \in Links : callback'[k] # "add"
    BY <2>1, LinksAssumption DEF IInv, TypeInv, TypeOK, Links
  <2>3. e.left = when[l] /\ when[l] <= Delay /\ \A f \in tasks_ : f.left <= when[l]
    BY <2>1 DEF WakeInv, QueueInv
  <2>4. QueueInv'
    <3>1. \A f \in tasks_' : f.left <= Delay
      BY <2>1, <2>3 DEF WakeInv, QueueInv
    <3> QED
      BY <1>0, <2>2, <3>1 DEF QueueInv
  <2>5. /\ thread_' # "asleep"
        /\ thread_' \in {"until", "asleep_until"} => thread_ \in {"until", "asleep_until"}
    BY <2>1 DEF Notified
  <2>6. SleepInv'
    <3> SUFFICES ASSUME thread_ \in {"until", "asleep_until"}
                 PROVE  tasks_' # {} /\ \A f \in tasks_' : first' <= f.left
      BY <2>5 DEF SleepInv
    <3>1. PICK g \in tasks_ : TRUE
      BY DEF WakeInv, SleepInv
    <3>2. first <= g.left /\ g.left <= when[l] /\ \A f \in tasks_ : first <= f.left
      BY <2>3 DEF WakeInv, SleepInv
    <3>3. first <= e.left
      BY <2>3, <3>2, Types
    <3> QED
      BY <1>0, <2>1, <3>1, <3>2, <3>3
  <2> QED
    BY <1>0, <2>4, <2>5, <2>6 DEF WakeInv, StopInv
<1> QED
  BY <1>1, <1>2, <1>3 DEF Callback

\* The timer thread decides to sleep with what it has seen, or with the
\* predicate of cv.wait.
LEMMA TimerWake ==
  ASSUME IInv, WakeInv, RunTask \/ TimerThread \/ Spurious
  PROVE  WakeInv'
<1>0. UNCHANGED <<done_, owner, m_mode, callback, when>> /\ Delay' = Delay
  BY DEF RunTask, Reconnect, PrintMemberSocket, Run, TimerThread, TimerStep, Check, ManageTasks,
         EraseTasks, Look, Wait, WaitUntil, TimeOut, Spurious, SpuriousWakeUp, config, linkVars,
         Delay, Caller
<1>1. tasks_' \subseteq tasks_
  BY DEF RunTask, Reconnect, PrintMemberSocket, Run, TimerThread, TimerStep, Check, ManageTasks,
         EraseTasks, Look, Wait, WaitUntil, TimeOut, Spurious, SpuriousWakeUp
<1>2. QueueInv'
  BY <1>0, <1>1 DEF WakeInv, QueueInv
<1>3. CASE Look
  <2>1. CASE tasks_ = {}
    BY <1>0, <1>2, <1>3, <2>1 DEF Look, WakeInv, SleepInv, StopInv
  <2>2. CASE tasks_ # {}
    <3>1. /\ thread_' = "until" /\ tasks_' = tasks_
          /\ \E e \in tasks_ : (\A f \in tasks_ : e.left <= f.left) /\ first' = e.left
      BY <1>3, <2>2 DEF Look
    <3> QED
      BY <1>0, <1>2, <2>2, <3>1 DEF WakeInv, SleepInv, StopInv
  <2> QED
    BY <2>1, <2>2
<1>4. CASE Wait
  <2>1. tasks_' = tasks_ /\ thread_' \in {"check", "asleep"}
        /\ (thread_' = "asleep" => tasks_ = {} /\ ~done_)
    BY <1>4 DEF Wait
  <2> QED
    BY <1>0, <1>2, <2>1 DEF WakeInv, SleepInv, StopInv
<1>5. CASE WaitUntil \/ Spurious
  <2>1. /\ UNCHANGED <<tasks_, first>> /\ thread_' # "asleep"
        /\ thread_' \in {"until", "asleep_until"} => thread_ \in {"until", "asleep_until"}
    BY <1>5 DEF WaitUntil, Spurious, SpuriousWakeUp, Notified
  <2> QED
    BY <1>0, <1>2, <2>1 DEF WakeInv, SleepInv, StopInv
<1>6. CASE RunTask
  <2>1. UNCHANGED <<tasks_, first, thread_>>
    BY <1>6 DEF RunTask, Reconnect, PrintMemberSocket, Run
  <2> QED
    BY <1>0, <1>2, <2>1 DEF WakeInv, SleepInv, StopInv
<1>7. CASE Check \/ ManageTasks \/ EraseTasks \/ TimeOut
  <2>1. thread_' \notin {"asleep", "until", "asleep_until"}
    BY <1>7 DEF Check, ManageTasks, EraseTasks, TimeOut
  <2> QED
    BY <1>0, <1>2, <2>1 DEF WakeInv, SleepInv, StopInv
<1> QED
  BY <1>3, <1>4, <1>5, <1>6, <1>7 DEF TimerThread, TimerStep

\* Time passes for all of them.
LEMMA TickWake ==
  ASSUME IInv, WakeInv, Tick
  PROVE  WakeInv'
<1>0. /\ UNCHANGED <<done_, owner, callback, thread_>> /\ Delay' = Delay
      /\ tasks_' = Elapsed(tasks_) /\ first' = Earlier(first)
      /\ when' = [l \in Links |-> Earlier(when[l])]
  BY DEF Tick, PassTime, config, Delay, Caller
<1>1. \A n, m \in Nat : n <= m => Earlier(n) <= Earlier(m) /\ Earlier(n) <= m
  BY DEF Earlier
<1>2. \A f \in tasks_' : \E e \in tasks_ : f.left = Earlier(e.left)
  BY <1>0 DEF Elapsed
<1>3. QueueInv'
  <2>1. \A f \in tasks_' : f.left <= Delay
    BY <1>1, <1>2, Types DEF WakeInv, QueueInv
  <2>2. ASSUME NEW l \in Links, callback[l] = "add"
        PROVE  when'[l] <= Delay /\ \A f \in tasks_' : f.left <= when'[l]
    <3>1. when[l] \in Nat /\ when[l] <= Delay /\ when'[l] = Earlier(when[l])
          /\ \A e \in tasks_ : e.left <= when[l]
      BY <1>0, <2>2, Types DEF WakeInv, QueueInv
    <3>2. when'[l] <= Delay
      BY <1>1, <3>1, Types
    <3>3. \A f \in tasks_' : f.left <= when'[l]
      BY <1>1, <1>2, <3>1, Types
    <3> QED
      BY <3>2, <3>3
  <2> QED
    BY <1>0, <2>1, <2>2 DEF QueueInv
<1>4. SleepInv'
  <2>1. tasks_ = {} <=> tasks_' = {}
    BY <1>0 DEF Elapsed
  <2>2. ASSUME \A e \in tasks_ : first <= e.left
        PROVE  \A f \in tasks_' : first' <= f.left
    BY <1>0, <1>1, <1>2, <2>2, Types
  <2> QED
    BY <1>0, <2>1, <2>2 DEF WakeInv, SleepInv
<1> QED
  BY <1>0, <1>3, <1>4 DEF WakeInv, StopInv

LEMMA WakeInvariant == Spec => []WakeInv
<1>1. IInv /\ WakeInv /\ [Next]_vars => WakeInv'
  <2> SUFFICES ASSUME IInv, WakeInv, [Next]_vars PROVE WakeInv'
    OBVIOUS
  <2>1. CASE UNCHANGED vars
    BY <2>1 DEF vars, schedulerVars, config, linkVars, WakeInv, QueueInv, SleepInv, StopInv,
                Delay, Caller
  <2> QED
    BY <2>1, OwnerWake, CallbackWake, TimerWake, TickWake DEF Next
<1> QED
  BY InitWake, <1>1, InductiveInvariant, PTL DEF Spec

\* The thread sleeps without a limit only while there is nothing to do and the
\* destructor has not notified it, and never beyond the time of a task.
WakesInTime ==
  /\ thread_ = "asleep" => tasks_ = {} /\ owner # "join"
  /\ thread_ = "asleep_until" => \A e \in tasks_ : first <= e.left

(***************************************************************************)
(* For any number of links and all delays: no notification that comes      *)
(* before the thread sleeps makes it miss a task or its end                *)
(* (scheduler.hpp:46, 86 to 104).                                          *)
(***************************************************************************)
THEOREM WakesInTimeHolds == Spec => []WakesInTime
<1>1. WakeInv => WakesInTime
  BY DEF WakeInv, SleepInv, StopInv, WakesInTime
<1> QED
  BY <1>1, WakeInvariant, PTL

-----------------------------------------------------------------------------
\* Where a failure is noted: in its callback while the group is registered, and
\* then in a task that has not run.
FailureNoted ==
  Caller =>
    \A l \in Links :
      /\ link[l] = "broken" => callback[l] # "none" \/ ~registered
      /\ link[l] = "waiting" => \E e \in Unrun : e.task = l

\* A caller's group socket is open until the destructor closes it.
GroupInv == Caller /\ owner \in Registered \cup Destructing => Group \in open

LEMMA GroupStep ==
  ASSUME IInv, GroupInv, [Next]_vars
  PROVE  GroupInv'
<1> USE DEF GroupInv, Registered, Destructing, Caller
<1>0. m_mode' = m_mode /\ Group \notin Links /\ Group \notin Epolls
  BY LinksAssumption
     DEF Next, Use, Construct, ConstructThrows, Listen, Accept, AcceptAgain, Connect,
         ConnectReturns, Destroy, BeginDestructor, Unregister, ReleaseTargets,
         ReleaseListeners, CloseGroup, EndMembers, NotifyTimer, JoinTimer, Libsrt, LinkUp,
         LinkFails, MemberComes, MemberLeaves, Callback, FindGroup, GroupNotFound,
         ScheduleTask, RunTask, Reconnect, PrintMemberSocket, TimerThread, Spurious, Tick,
         config, vars, Epolls
<1>1. CASE Construct
  BY <1>0, <1>1 DEF Construct, Sockets
<1>2. CASE ConstructThrows \/ CloseGroup
  BY <1>2 DEF ConstructThrows, CloseGroup, OwnerGoes
<1>3. CASE BeginDestructor
  BY <1>0, <1>3 DEF BeginDestructor
<1>4. CASE ReleaseListeners
  <2>1. m_listeners \subseteq Links
    BY DEF IInv, TypeInv, TypeOK
  <2> QED
    BY <1>0, <1>4, <2>1 DEF ReleaseListeners, OwnerGoes
<1>5. CASE Unregister \/ ReleaseTargets \/ EndMembers \/ NotifyTimer \/ JoinTimer
             \/ Listen \/ Accept \/ AcceptAgain \/ Connect \/ ConnectReturns
  BY <1>0, <1>5 DEF Unregister, ReleaseTargets, EndMembers, NotifyTimer, JoinTimer, Listen,
     Accept, AcceptAgain, Connect, ConnectReturns, OwnerGoes, objectVars
<1>6. CASE \/ \E l \in Links : Libsrt(l) \/ Callback(l)
           \/ RunTask \/ TimerThread \/ Spurious \/ Tick \/ UNCHANGED vars
  <2>1. open' = open /\ owner' = owner
    BY <1>6 DEF Libsrt, LinkUp, LinkFails, MemberComes, MemberLeaves, Callback, FindGroup,
       GroupNotFound, ScheduleTask, RunTask, Reconnect, PrintMemberSocket, TimerThread,
       Spurious, Tick, vars, objectVars
  <2> QED
    BY <1>0, <2>1
<1> QED
  BY <1>1, <1>2, <1>3, <1>4, <1>5, <1>6 DEF Next, Use, Destroy

\* Tick keeps the tasks, with less time left.
LEMMA ElapsedUnrun ==
  ASSUME IInv, Tick
  PROVE  \A e \in Unrun : \E f \in Unrun' : f.task = e.task
<1> SUFFICES ASSUME NEW e \in Unrun PROVE \E f \in Unrun' : f.task = e.task
  OBVIOUS
<1> DEFINE f == [task |-> e.task, left |-> Earlier(e.left)]
<1>1. tasks_' = Elapsed(tasks_) /\ due' = due /\ todo' = todo
  BY DEF Tick, PassTime
<1>2. f \in tasks_' /\ f.task = e.task
  BY <1>1 DEF Elapsed, Unrun
<1>3. f \notin due \ todo
  <2> SUFFICES ASSUME f \in due, f \notin todo PROVE FALSE
    OBVIOUS
  <2>1. f \in tasks_ /\ e \in tasks_
    BY DEF IInv, TypeInv, TypeOK, SchedulerType, Unrun
  <2>2. f = e
    BY <2>1 DEF IInv, TaskInv
  <2> QED
    BY <2>2 DEF Unrun
<1> QED
  BY <1>1, <1>2, <1>3 DEF Unrun

LEMMA NotedStep ==
  ASSUME IInv, GroupInv, FailureNoted, [Next]_vars
  PROVE  FailureNoted'
<1> SUFFICES ASSUME Caller, NEW l \in Links
             PROVE  /\ link'[l] = "broken" => callback'[l] # "none" \/ ~registered'
                    /\ link'[l] = "waiting" => \E e \in Unrun' : e.task = l
  <2>1. UNCHANGED m_mode
    BY DEF Next, Use, Construct, ConstructThrows, Listen, Accept, AcceptAgain, Connect,
           ConnectReturns, Destroy, BeginDestructor, Unregister, ReleaseTargets,
           ReleaseListeners, CloseGroup, EndMembers, NotifyTimer, JoinTimer, Libsrt, LinkUp,
           LinkFails, MemberComes, MemberLeaves, Callback, FindGroup, GroupNotFound,
           ScheduleTask, RunTask, Reconnect, PrintMemberSocket, TimerThread, Spurious, Tick,
           config, vars
  <2> QED
    BY <2>1 DEF FailureNoted, Caller
<1>0. /\ link[l] = "broken" => callback[l] # "none" \/ ~registered
      /\ link[l] = "waiting" => \E e \in Unrun : e.task = l
  BY DEF FailureNoted
<1>1. CASE Construct
  BY <1>1 DEF Construct, OwnerGoes, linkVars, IInv, ObjectInv
<1>2. CASE ConstructThrows \/ Listen \/ Accept \/ AcceptAgain \/ ConnectReturns
             \/ Unregister \/ ReleaseTargets \/ ReleaseListeners
  BY <1>0, <1>2 DEF ConstructThrows, Listen, Accept, AcceptAgain, ConnectReturns, Unregister,
     ReleaseTargets, ReleaseListeners, schedulerVars, linkVars, registryVars, Unrun
<1>3. CASE Connect
  <2>1. /\ link' = [k \in Links |-> IF k \in m_targets THEN "connecting" ELSE link[k]]
        /\ UNCHANGED <<schedulerVars, registryVars, callback>>
    BY <1>3 DEF Connect
  <2> QED
    BY <1>0, <2>1 DEF schedulerVars, registryVars, Unrun
<1>4. CASE BeginDestructor \/ EndMembers \/ NotifyTimer
  BY <1>0, <1>4 DEF BeginDestructor, EndMembers, NotifyTimer, StopScheduler, NotifyScheduler,
     linkVars, registryVars, Unrun
<1>5. CASE CloseGroup
  BY <1>5 DEF CloseGroup
<1>6. CASE JoinTimer
  <2>1. link[l] = "off"
    BY <1>6 DEF JoinTimer, OwnerGoes, IInv, EndInv, Ending, EndingMembers
  <2> QED
    BY <1>6, <2>1 DEF JoinTimer, linkVars
<1>7. ASSUME NEW k \in Links, Libsrt(k)
      PROVE  /\ link'[l] = "broken" => callback'[l] # "none" \/ ~registered'
             /\ link'[l] = "waiting" => \E e \in Unrun' : e.task = l
  <2>1. UNCHANGED <<schedulerVars, registryVars>>
    BY <1>7 DEF Libsrt, LinkUp, LinkFails, MemberComes, MemberLeaves
  <2>2. CASE k = l
    BY <1>0, <1>7, <2>1, <2>2 DEF Libsrt, LinkUp, LinkFails, MemberComes, MemberLeaves,
       IInv, TypeInv, TypeOK
  <2>3. CASE k # l
    <3>1. link'[l] = link[l] /\ callback'[l] = callback[l]
      BY <1>7, <2>3 DEF Libsrt, LinkUp, LinkFails, MemberComes, MemberLeaves,
         IInv, TypeInv, TypeOK
    <3> QED
      BY <1>0, <2>1, <3>1 DEF schedulerVars, registryVars, Unrun
  <2> QED
    BY <2>2, <2>3
<1>8. ASSUME NEW k \in Links, FindGroup(k) \/ GroupNotFound(k)
      PROVE  /\ link'[l] = "broken" => callback'[l] # "none" \/ ~registered'
             /\ link'[l] = "waiting" => \E e \in Unrun' : e.task = l
  <2>1. /\ UNCHANGED <<schedulerVars, link, registered>>
        /\ \/ callback' = [callback EXCEPT ![k] = "add"]
           \/ ~registered
    BY <1>8 DEF FindGroup, GroupNotFound, registryVars
  <2>2. callback[l] # "none" => callback'[l] # "none" \/ ~registered
    BY <2>1 DEF IInv, TypeInv, TypeOK
  <2> QED
    BY <1>0, <2>1, <2>2 DEF schedulerVars, Unrun
<1>9. ASSUME NEW k \in Links, ScheduleTask(k)
      PROVE  /\ link'[l] = "broken" => callback'[l] # "none" \/ ~registered'
             /\ link'[l] = "waiting" => \E e \in Unrun' : e.task = l
  <2> DEFINE e == [task |-> k, left |-> when[k]]
  <2>1. /\ thread_ # "run" /\ tasks_' = tasks_ \cup {e} /\ registered' = registered
        /\ callback' = [callback EXCEPT ![k] = "none"] /\ link' = [link EXCEPT ![k] = "waiting"]
        /\ due' = due /\ todo' = todo
    BY <1>9 DEF ScheduleTask, AddTask, MutexFree
  <2>2. due' = {} /\ due = {}
    BY <2>1 DEF IInv, TypeInv, TypeOK, SchedulerType
  <2>3. Unrun' = Unrun \cup {e}
    BY <2>1, <2>2 DEF Unrun
  <2>4. CASE k = l
    <3>1. link'[l] = "waiting"
      BY <2>1, <2>4 DEF IInv, TypeInv, TypeOK
    <3>2. e \in Unrun' /\ e.task = l
      BY <2>3, <2>4
    <3> QED
      BY <3>1, <3>2
  <2>5. CASE k # l
    <3>1. link'[l] = link[l] /\ callback'[l] = callback[l]
      BY <2>1, <2>5 DEF IInv, TypeInv, TypeOK
    <3> QED
      BY <1>0, <2>1, <2>3, <3>1
  <2> QED
    BY <2>4, <2>5
<1>10. ASSUME NEW e \in todo, Reconnect(e)
       PROVE  /\ link'[l] = "broken" => callback'[l] # "none" \/ ~registered'
              /\ link'[l] = "waiting" => \E f \in Unrun' : f.task = l
  <2>1. /\ UNCHANGED <<callback, registered, tasks_, due>> /\ todo' = todo \ {e}
        /\ IF Group \in open
             THEN \E result \in {"connecting", "lost"} : link' = [link EXCEPT ![e.task] = result]
             ELSE link' = link
    BY <1>10 DEF Reconnect, Run, registryVars
  <2>2. Unrun' = Unrun \ {e} /\ e \in Unrun
    BY <2>1 DEF Unrun, IInv, TypeInv, TypeOK, SchedulerType
  <2>3. e.task \in Links
    BY <2>2 DEF Unrun, IInv, TypeInv, TypeOK, SchedulerType, Entry, Links
  <2>4. CASE Group \in open
    <3>1. CASE e.task = l
      BY <2>1, <2>4, <3>1 DEF IInv, TypeInv, TypeOK
    <3>2. CASE e.task # l
      <4>1. link'[l] = link[l]
        BY <2>1, <2>4, <3>2 DEF IInv, TypeInv, TypeOK
      <4> QED
        BY <1>0, <2>1, <2>2, <3>2, <4>1
    <3> QED
      BY <3>1, <3>2
  <2>5. CASE Group \notin open
    <3>1. tasks_ # {}
      BY <2>2 DEF Unrun
    <3>2. owner \in Ending
      BY <2>5, <3>1 DEF GroupInv, IInv, ObjectInv, TypeInv, TypeOK, Registered, Ending,
                        Destructing, EndingMembers
    <3>3. link'[l] = "off"
      BY <2>1, <2>5, <3>2 DEF IInv, EndInv
    <3> QED
      BY <3>3
  <2> QED
    BY <2>4, <2>5
<1>11. CASE TimerThread \/ Spurious
  <2>1. UNCHANGED <<link, callback, registered>>
    BY <1>11 DEF TimerThread, Spurious, linkVars, registryVars
  <2>2. Unrun' = Unrun
    BY <1>11 DEF TimerThread, TimerStep, Check, ManageTasks, Triggered, EraseTasks, Look, Wait,
       WaitUntil, TimeOut, Spurious, SpuriousWakeUp, Unrun, IInv, TypeInv, TypeOK, SchedulerType
  <2> QED
    BY <1>0, <2>1, <2>2
<1>12. CASE Tick
  <2>1. UNCHANGED <<link, callback, registered>>
    BY <1>12 DEF Tick, registryVars
  <2> QED
    BY <1>0, <1>12, <2>1, ElapsedUnrun
<1>13. CASE UNCHANGED vars
  BY <1>0, <1>13 DEF vars, schedulerVars, linkVars, registryVars, Unrun
<1> QED
  BY <1>1, <1>2, <1>3, <1>4, <1>5, <1>6, <1>7, <1>8, <1>9, <1>10, <1>11, <1>12, <1>13
     DEF Next, Use, Destroy, Callback, RunTask, PrintMemberSocket

(***************************************************************************)
(* For any number of links: no failure is forgotten before its attempt.    *)
(* Until the group is unregistered the callback is on the way, and then    *)
(* there is a task that has not run (srt_socket_group.cpp:527 to 577).     *)
(***************************************************************************)
THEOREM FailureNotedHolds == Spec => []FailureNoted
<1>1. Init => FailureNoted /\ GroupInv
  BY DEF Init, FailureNoted, Links, GroupInv, Registered, Destructing
<1>2. IInv /\ GroupInv /\ FailureNoted /\ [Next]_vars => (GroupInv /\ FailureNoted)'
  BY NotedStep, GroupStep
<1> QED
  BY <1>1, <1>2, InductiveInvariant, PTL DEF Spec
=============================================================================
