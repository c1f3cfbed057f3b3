------------------------------ MODULE SrtGroup -------------------------------
(***************************************************************************)
(* socket::srt_group: a group of callers, whose members are reconnected    *)
(* when they fail, or a group of listeners (srt_socket_group.cpp), with    *)
(* its scheduler and the registry that protects it from late callbacks.    *)
(*                                                                         *)
(* The actors are the thread that owns the object (owner), the threads of  *)
(* libsrt that call back for a link, the timer thread of the scheduler,    *)
(* and libsrt itself, which is modelled from how the code uses it: links   *)
(* come up and break at any time, a failure of a caller's link and a new   *)
(* member of a listener are reported by a callback, and srt_connect_group  *)
(* returns without waiting for one.                                        *)
(*                                                                         *)
(* A link stands for its URI, its target with its token, its member socket *)
(* and the task a callback schedules for it.  After its destruction the    *)
(* object is not created again: a callback that is late finds no group.  A *)
(* group made by accept() has neither callbacks nor tasks, and is not      *)
(* modelled.                                                               *)
(***************************************************************************)
EXTENDS Scheduler

CONSTANTS
  ReconnectDelay,  \* one second
  PrintDelay,      \* 20 microseconds
  Group,           \* the group socket m_bind_socket
  EpollConnect,    \* m_epoll_connect
  EpollIo,         \* m_epoll_io
  None             \* nobody

Links == Tasks

ASSUME LinksAssumption ==
  /\ {None, Group, EpollConnect, EpollIo} \cap Links = {}
  /\ Group # EpollConnect /\ Group # EpollIo /\ EpollConnect # EpollIo
ASSUME DelayAssumption ==
  ReconnectDelay \in 1..MaxDelay /\ PrintDelay \in 0..MaxDelay

VARIABLES
  m_mode,          \* CALLER or LISTENER, from the URIs
  m_blocking_mode, \* from the URIs
  slot_reused,     \* whether the build reuses the stack slot of the loop
                   \* variable that on_connect_callback keeps a pointer to
  owner,           \* where the thread that owns the object is
  thrown,          \* the constructor has thrown
  open,            \* sockets and epolls that exist in libsrt
  m_targets,       \* the links in m_targets
  m_listeners,     \* the links in m_listeners
  registered,      \* g_group_registry holds the object
  registry_lock,   \* the callback that holds m_mtx of the registry, or None
  link,            \* what libsrt knows of each link
  callback,        \* where the callback of each link is
  when,            \* the time point schedule_in computed
  since            \* the time since the link was reported to have failed

config == <<m_mode, m_blocking_mode, slot_reused>>
objectVars == <<thrown, open, m_targets, m_listeners>>
registryVars == <<registered, registry_lock>>
linkVars == <<link, callback, when, since>>
vars == <<schedulerVars, config, owner, objectVars, registryVars, linkVars>>

Caller == m_mode = "CALLER"
Epolls == IF m_blocking_mode THEN {} ELSE {EpollConnect, EpollIo}
Sockets == IF Caller THEN {Group} ELSE Links

Destructing == {"unregister", "targets", "listeners", "close"}
EndingMembers == {"end", "notify", "join"}

TypeOK ==
  /\ SchedulerType
  /\ m_mode \in {"CALLER", "LISTENER"}
  /\ m_blocking_mode \in BOOLEAN /\ slot_reused \in BOOLEAN
  /\ owner \in {"construct", "connect", "connecting", "listen", "accept", "open", "gone"}
               \cup Destructing \cup EndingMembers
  /\ thrown \in BOOLEAN
  /\ open \subseteq Epolls \cup Sockets
  /\ m_targets \subseteq Links /\ m_listeners \subseteq open \cap Links
  /\ registered \in BOOLEAN
  /\ registry_lock \in Links \cup {None}
  /\ link \in [Links -> {"off", "connecting", "connected", "broken", "waiting", "lost"}]
  /\ callback \in [Links -> {"none", "find", "add"}]
  /\ when \in [Links -> 0..MaxDelay]
  /\ since \in [Links -> 0..ReconnectDelay]
  /\ \A l \in Links : callback[l] = "add" <=> registry_lock = l

Init ==
  /\ SchedulerInit
  /\ m_mode \in {"CALLER", "LISTENER"}
  /\ m_blocking_mode \in BOOLEAN /\ slot_reused \in BOOLEAN
  /\ owner = "construct"
  /\ thrown = FALSE /\ open = {} /\ m_targets = {} /\ m_listeners = {}
  /\ registered = FALSE /\ registry_lock = None
  /\ link = [l \in Links |-> "off"]
  /\ callback = [l \in Links |-> "none"]
  /\ when = [l \in Links |-> 0]
  /\ since = [l \in Links |-> 0]

-----------------------------------------------------------------------------
(* The life of the object.                                                 *)

OwnerGoes(from, to) == owner = from /\ owner' = to

\* The constructor: epolls, create_listeners or create_callers, and the registry.
Construct ==
  /\ OwnerGoes("construct", IF Caller THEN "connect" ELSE "listen")
  /\ registry_lock = None
  /\ open' = Epolls \cup Sockets
  /\ m_targets' = IF Caller THEN Links ELSE {}
  /\ m_listeners' = IF Caller THEN {} ELSE Links
  /\ registered' = TRUE
  /\ UNCHANGED <<schedulerVars, config, thrown, registry_lock, linkVars>>

\* A constructor that throws: what libsrt has created stays, only the members end.
ConstructThrows ==
  /\ OwnerGoes("construct", "end")
  /\ thrown' = TRUE
  /\ open' \in {created \in SUBSET (Epolls \cup Sockets) :
                  /\ created \cap Sockets # {} => Epolls \subseteq created
                  /\ EpollIo \in created => EpollConnect \in created}
  /\ UNCHANGED <<schedulerVars, config, m_targets, m_listeners, registryVars, linkVars>>

\* listen(): the callback is set, and the sockets listen.
Listen ==
  /\ OwnerGoes("listen", "accept")
  /\ UNCHANGED <<schedulerVars, config, objectVars, registryVars, linkVars>>

\* accept() returns a group for the members that have come, and is called again.
Accept ==
  /\ OwnerGoes("accept", "open")
  /\ \E l \in Links : link[l] = "connected"
  /\ UNCHANGED <<schedulerVars, config, objectVars, registryVars, linkVars>>

AcceptAgain ==
  /\ ~Caller
  /\ OwnerGoes("open", "accept")
  /\ UNCHANGED <<schedulerVars, config, objectVars, registryVars, linkVars>>

\* connect() calls srt_connect_group with all targets ...
Connect ==
  /\ OwnerGoes("connect", "connecting")
  /\ link' = [l \in Links |-> IF l \in m_targets THEN "connecting" ELSE link[l]]
  /\ UNCHANGED <<schedulerVars, config, objectVars, registryVars, callback, when, since>>

\* ... which in blocking mode returns when a member is connected.
ConnectReturns ==
  /\ OwnerGoes("connecting", "open")
  /\ m_blocking_mode => \E l \in Links : link[l] = "connected"
  /\ UNCHANGED <<schedulerVars, config, objectVars, registryVars, linkVars>>

\* The last pointer to the object is dropped, after its use or when listen(),
\* accept() or connect() has thrown.  The destructor stops the scheduler ...
BeginDestructor ==
  /\ owner \in {"open", "listen", "accept", "connecting"}
  /\ owner' = "unregister"
  /\ StopScheduler
  /\ open' = open \ Epolls
  /\ UNCHANGED <<config, thrown, m_targets, m_listeners, registryVars, linkVars>>

Unregister_NoLock ==
  /\ OwnerGoes("unregister", "targets")
  /\ registered' = FALSE
  /\ UNCHANGED <<schedulerVars, config, objectVars, registry_lock, linkVars>>

\* ... removes the object from the registry, whose lock a callback may hold ...
Unregister ==
  /\ OwnerGoes("unregister", "targets")
  /\ registry_lock = None
  /\ registered' = FALSE
  /\ UNCHANGED <<schedulerVars, config, objectVars, registry_lock, linkVars>>

\* ... release_targets() ...
ReleaseTargets ==
  /\ OwnerGoes("targets", "listeners")
  /\ m_targets' = {}
  /\ UNCHANGED <<schedulerVars, config, thrown, open, m_listeners, registryVars, linkVars>>

ReleaseListeners_ClearedFirst ==
  /\ OwnerGoes("listeners", "close")
  /\ m_listeners' = {}
  /\ open' = open \ m_listeners'
  /\ UNCHANGED <<schedulerVars, config, thrown, m_targets, registryVars, linkVars>>

\* ... release_listeners() ...
ReleaseListeners ==
  /\ OwnerGoes("listeners", "close")
  /\ open' = open \ m_listeners
  /\ m_listeners' = {}
  /\ UNCHANGED <<schedulerVars, config, thrown, m_targets, registryVars, linkVars>>

\* ... closes the group ...
CloseGroup ==
  /\ OwnerGoes("close", "end")
  /\ open' = open \ {Group}
  /\ link' = [l \in Links |-> "off"]
  /\ UNCHANGED <<schedulerVars, config, thrown, m_targets, m_listeners, registryVars, callback,
                 when, since>>

\* ... and destroys the scheduler, the last of the members.
EndMembers ==
  /\ OwnerGoes("end", "notify")
  /\ StopScheduler
  /\ UNCHANGED <<config, objectVars, registryVars, linkVars>>

NotifyTimer ==
  /\ OwnerGoes("notify", "join")
  /\ NotifyScheduler
  /\ UNCHANGED <<config, objectVars, registryVars, linkVars>>

JoinTimer ==
  /\ OwnerGoes("join", "gone")
  /\ JoinScheduler
  /\ UNCHANGED <<config, objectVars, registryVars, linkVars>>

-----------------------------------------------------------------------------
(* libsrt.                                                                 *)

\* A member of a caller group is connected.
LinkUp(l) ==
  /\ Caller /\ Group \in open /\ link[l] = "connecting"
  /\ link' = [link EXCEPT ![l] = "connected"]
  /\ UNCHANGED <<schedulerVars, config, owner, objectVars, registryVars, callback, when, since>>

\* A member could not connect, or is broken, and connect_callback_fn is called.
LinkFails(l) ==
  /\ Caller /\ Group \in open /\ link[l] \in {"connecting", "connected"}
  /\ callback[l] = "none"
  /\ link' = [link EXCEPT ![l] = "broken"]
  /\ callback' = [callback EXCEPT ![l] = "find"]
  /\ since' = [since EXCEPT ![l] = 0]
  /\ UNCHANGED <<schedulerVars, config, owner, objectVars, registryVars, when>>

\* A member connects to a listener, and listen_callback_fn is called.
MemberComes(l) ==
  /\ ~Caller /\ owner \in {"accept", "open"} /\ l \in open
  /\ link[l] = "off" /\ callback[l] = "none" /\ \A e \in tasks_ : e.task # l
  /\ link' = [link EXCEPT ![l] = "connected"]
  /\ callback' = [callback EXCEPT ![l] = "find"]
  /\ UNCHANGED <<schedulerVars, config, owner, objectVars, registryVars, when, since>>

MemberLeaves(l) ==
  /\ ~Caller /\ link[l] = "connected"
  /\ link' = [link EXCEPT ![l] = "off"]
  /\ UNCHANGED <<schedulerVars, config, owner, objectVars, registryVars, callback, when, since>>

-----------------------------------------------------------------------------
(* The callbacks, and the tasks they schedule.                             *)

\* scoped_lock finds the group; on_listen_callback or on_connect_callback
\* computes the time of its task while the registry stays locked.
FindGroup(l) ==
  /\ callback[l] = "find" /\ registry_lock = None
  /\ registered
  /\ registry_lock' = l
  /\ callback' = [callback EXCEPT ![l] = "add"]
  /\ when' = [when EXCEPT ![l] = IF Caller THEN ReconnectDelay ELSE PrintDelay]
  /\ UNCHANGED <<schedulerVars, config, owner, objectVars, registered, link, since>>

\* scoped_lock throws not_found: the group has already been destructed.
GroupNotFound(l) ==
  /\ callback[l] = "find" /\ registry_lock = None
  /\ ~registered
  /\ callback' = [callback EXCEPT ![l] = "none"]
  /\ UNCHANGED <<schedulerVars, config, owner, objectVars, registryVars, link, when, since>>

\* schedule_in, which waits for the mutex of the scheduler.
ScheduleTask(l) ==
  /\ callback[l] = "add"
  /\ AddTask(l, when[l])
  /\ registry_lock' = None
  /\ callback' = [callback EXCEPT ![l] = "none"]
  /\ link' = IF Caller THEN [link EXCEPT ![l] = "waiting"] ELSE link
  /\ UNCHANGED <<config, owner, objectVars, registered, when, since>>

\* connfn: one call of srt_connect_group, which starts to connect, or fails and
\* the link is given up: nothing calls it again.  It fails when the target,
\* copied from a loop variable that had ended, was no target any more, and
\* without effect when the group is closed.
Reconnect(e) ==
  /\ Caller
  /\ Run(e)
  /\ IF Group \in open
       THEN \E result \in {"connecting", "lost"} :
              /\ slot_reused => result = "lost"
              /\ link' = [link EXCEPT ![e.task] = result]
       ELSE link' = link
  /\ UNCHANGED <<config, owner, objectVars, registryVars, callback, when, since>>

\* print_member_socket only prints.
PrintMemberSocket(e) ==
  /\ ~Caller
  /\ Run(e)
  /\ UNCHANGED <<config, owner, objectVars, registryVars, linkVars>>

RunTask == \E e \in todo : Reconnect(e) \/ PrintMemberSocket(e)

TimerThread == TimerStep /\ UNCHANGED <<config, owner, objectVars, registryVars, linkVars>>

Spurious == SpuriousWakeUp /\ UNCHANGED <<config, owner, objectVars, registryVars, linkVars>>

Later(n) == IF n < ReconnectDelay THEN n + 1 ELSE n

Tick ==
  /\ PassTime
  /\ when' = [l \in Links |-> Earlier(when[l])]
  /\ since' = [l \in Links |-> Later(since[l])]
  /\ UNCHANGED <<config, owner, objectVars, registryVars, link, callback>>

-----------------------------------------------------------------------------
Destroy == BeginDestructor \/ Unregister \/ ReleaseTargets \/ ReleaseListeners \/ CloseGroup
             \/ EndMembers \/ NotifyTimer \/ JoinTimer
Use == Construct \/ ConstructThrows \/ Listen \/ Accept \/ AcceptAgain \/ Connect \/ ConnectReturns
Libsrt(l) == LinkUp(l) \/ LinkFails(l) \/ MemberComes(l) \/ MemberLeaves(l)
Callback(l) == FindGroup(l) \/ GroupNotFound(l) \/ ScheduleTask(l)

Next ==
  \/ Use \/ Destroy
  \/ \E l \in Links : Libsrt(l) \/ Callback(l)
  \/ RunTask \/ TimerThread \/ Spurious \/ Tick

Spec == Init /\ [][Next]_vars

\* Threads go on, also past a mutex that is free again and again, and time
\* passes.  Nothing is assumed of the network and of the owner's use of the group.
Fairness ==
  /\ WF_vars(TimerThread) /\ WF_vars(RunTask) /\ WF_vars(Tick)
  /\ WF_vars(ReleaseTargets) /\ WF_vars(ReleaseListeners) /\ WF_vars(CloseGroup)
  /\ WF_vars(EndMembers) /\ WF_vars(JoinTimer)
  /\ SF_vars(Unregister) /\ SF_vars(NotifyTimer)
  /\ \A l \in Links : SF_vars(Callback(l))

FairSpec == Spec /\ Fairness

-----------------------------------------------------------------------------
(* Properties.                                                             *)

\* A callback that is inside the group (from srt_socket_group.cpp:495 or 527 on)
\* finds the object whole: the destructor
\* has not begun to release targets, listeners and the scheduler.
CallbackSeesLiveGroup ==
  (\E l \in Links : callback[l] = "add")
    => owner \in {"connecting", "listen", "accept", "open", "unregister"}

\* When the object is gone its thread has ended, no task has connected a link
\* again, and what it had opened is closed, unless its constructor threw
\* (srt_socket_group.cpp:250, scheduler.hpp:46).
NothingLeft ==
  owner = "gone" =>
    /\ thread_ = "ended"
    /\ Caller => \A l \in Links : link[l] = "off"
    /\ open # {} => thrown

\* A member that failed is connected again not sooner than a second after its
\* failure was reported (srt_socket_group.cpp:576, scheduler.hpp:118).
ReconnectPace ==
  [][\A l \in Links : link[l] = "waiting" /\ link'[l] \in {"connecting", "lost"}
       => since[l] = ReconnectDelay]_vars

\* The scheduler of a group runs each task once and not before its time, and is
\* gone only when nobody hands it a task (scheduler.hpp:107 to 131): it is a Timer.
Abstract == INSTANCE Timer WITH asking <- {l \in Links : callback[l] = "add"},
                                pending <- tasks_ \ (due \ todo), closed <- owner = "gone"
ImplementsTimer == Abstract!TimerSpec

\* A destructor that has begun ends, whatever the timer thread and the
\* callbacks do (srt_socket_group.cpp:250, scheduler.hpp:46 and 86).
DestroyCompletes == owner \in Destructing \cup EndingMembers ~> owner = "gone"

\* Every failure that libsrt reports is answered by an attempt to connect the
\* link again, unless the group is destroyed before (srt_socket_group.cpp:527 to
\* 577, scheduler.hpp:107).  That is all: an attempt that srt_connect_group
\* refuses (561) leaves the link "lost", with no further attempt, and in a build
\* that reuses the stack slot (554) every attempt is refused.
FailedIsRetried ==
  \A l \in Links : link[l] = "broken" ~> link[l] \in {"connecting", "lost", "off"}
=============================================================================
