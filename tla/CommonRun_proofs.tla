-------------------------- MODULE CommonRun_proofs --------------------------
(***************************************************************************)
(* Proofs about CommonRun, for every set of ids, every set of command      *)
(* lines and every limit: type correctness, the safety invariants, and     *)
(* that the connection manager implements the pool of pipes of PipePool.   *)
(***************************************************************************)
EXTENDS CommonRun, FiniteSetTheorems, TLAPS

(***************************************************************************)
(* The inductive invariant behind the safety properties, in four parts.    *)
(***************************************************************************)

\* The pipes m_pipes counts as active.
Active == m_pipes \ m_to_close

\* No thread uses the id of a new connection until its pipe is launched.
ConnInv ==
  /\ main \in {"add", "launch"} => pipe[conn] \in Ended \cup {"none"}
  /\ main = "emplace" => pipe[conn] # "none"

\* Every thread that still uses concurrent_pipes is known there, as active
\* until its exit is registered, except the one main is about to emplace.
PipesInv ==
  /\ m_to_close \subseteq m_pipes
  /\ main \in {"start", "returned"} => m_pipes = {}
  /\ main = "destroy" => m_pipes = m_to_close
  /\ \A id \in Ids :
       /\ pipe[id] \in Processing => id \in Active \/ (main = "emplace" /\ id = conn)
       /\ pipe[id] = "returning" => id \in m_pipes \/ (main = "emplace" /\ id = conn)
       /\ pipe[id] = "none" => id \notin m_pipes

\* Until the next connection is emplaced there is room for it.
LimitInv ==
  /\ Cardinality(Active) <= cfg.concurrent_streams
  /\ main \in {"start", "open", "establish", "add", "launch", "emplace"} =>
       Cardinality(Active) < cfg.concurrent_streams
  /\ ~draining /\ main \notin {"destroy", "returned"} /\ cfg.max_conns > 0 =>
       conns_cnt < cfg.max_conns
  /\ main \in {"start", "open", "establish", "add", "launch", "emplace", "check", "full"} =>
       ~draining

\* The stats_writer holds only connections that are, or are about to be,
\* processed, and those whose pipe never reported its exit.
StatsInv ==
  \A id \in m_sock : \/ pipe[id] \in {"run", "exit", "failed"}
                     \/ main = "launch" /\ id = conn

IInv == TypeOK /\ ConnInv /\ PipesInv /\ LimitInv /\ StatsInv

-----------------------------------------------------------------------------
(* Type correctness.                                                       *)

(***************************************************************************)
(* The fields of a command line (conn_config) are what Config says.        *)
(***************************************************************************)
LEMMA CfgType ==
  ASSUME cfg \in Configs
  PROVE  /\ cfg.concurrent_streams \in Nat \ {0}
         /\ cfg.max_conns \in 0..ConnCap
         /\ cfg.max_conns \in Int
BY ConfigAssumption, CapAssumption DEF Config

(***************************************************************************)
(* Every step of common_run and of the pipes keeps the types.              *)
(***************************************************************************)
LEMMA TypeStep == TypeOK /\ [Next]_vars => TypeOK'
<1> SUFFICES ASSUME TypeOK, [Next]_vars PROVE TypeOK'
  OBVIOUS
<1> USE CapAssumption
<1>1. QED
  <2>1. CASE CreateStatsWriter
    BY <2>1 DEF CreateStatsWriter, TypeOK, MainStates, ListeningStates, poolState
  <2>2. CASE OpenSocket
    BY <2>2 DEF OpenSocket, TypeOK, MainStates, ListeningStates, poolState
  <2>3. CASE OpenSocketThrows
    BY <2>3 DEF OpenSocketThrows, TypeOK, MainStates, ListeningStates, poolState, LeaveLoop
  <2>4. CASE Establish
    BY <2>4 DEF Establish, TypeOK, MainStates, ListeningStates, poolState, SavedSocket
  <2>5. CASE EstablishThrows
    BY <2>5 DEF EstablishThrows, TypeOK, MainStates, ListeningStates, poolState, LeaveLoop
  <2>6. CASE AddSocket
    BY <2>6 DEF AddSocket, TypeOK, MainStates, ListeningStates, poolState
  <2>7. CASE LaunchPipe
    BY <2>7 DEF LaunchPipe, TypeOK, MainStates, ListeningStates, PipeStates, Processing
  <2>8. CASE EmplacePipe
    <3>1. conns_cnt' \in 0..ConnCap
      BY <2>8 DEF MaxReached, EmplacePipe, TypeOK
    <3>2. /\ main' \in {"drain", "check"}
          /\ draining' \in BOOLEAN
      BY <2>8 DEF MaxReached, EmplacePipe, TypeOK, LeaveLoop
    <3>3. QED
      BY <2>8, <3>1, <3>2 DEF MaxReached, EmplacePipe, TypeOK, MainStates
  <2>9. CASE CheckSize
    BY <2>9 DEF HasRoom, CheckSize, TypeOK, MainStates, ListeningStates, poolState, LeaveLoop, NextIteration
  <2>10. CASE WhileFull
    BY <2>10 DEF HasRoom, WhileFull, TypeOK, MainStates, ListeningStates, poolState, LeaveLoop, NextIteration
  <2>11. CASE BeginWait
    BY <2>11 DEF BeginWait, TypeOK, MainStates, ListeningStates
  <2>12. CASE WakeUp
    BY <2>12 DEF WakeUp, TypeOK, MainStates, ListeningStates, poolState
  <2>13. CASE SpuriousWakeUp
    BY <2>13 DEF SpuriousWakeUp, TypeOK, MainStates, ListeningStates, poolState
  <2>14. CASE Reap
    BY <2>14 DEF Closing, Reap, TypeOK, MainStates, ListeningStates
  <2>15. CASE WhileDraining
    BY <2>15 DEF WhileDraining, TypeOK, MainStates, ListeningStates, poolState
  <2>16. CASE Destroy
    BY <2>16 DEF Destroy, TypeOK, MainStates, ListeningStates
  <2>17. CASE OnINT_ForceExit
    BY <2>17 DEF OnINT_ForceExit, TypeOK, MainStates, ListeningStates, poolState
  <2>18. CASE Returned
    BY <2>18 DEF Returned, TypeOK, vars
  <2>19. ASSUME NEW id \in Ids, PipeEnds(id) PROVE TypeOK'
    BY <2>19 DEF PipeEnds, TypeOK, pipeUnchanged, PipeStates, Processing, Ended
  <2>20. ASSUME NEW id \in Ids, PipeThrows(id) PROVE TypeOK'
    BY <2>20 DEF PipeThrows, TypeOK, pipeUnchanged, PipeStates, Processing, Ended
  <2>21. ASSUME NEW id \in Ids, RemoveSocket(id) PROVE TypeOK'
    BY <2>21 DEF Removed, RemoveSocket, TypeOK, pipeUnchanged, PipeStates, Processing, Ended
  <2>22. ASSUME NEW id \in Ids, RegisterExit(id) PROVE TypeOK'
    BY <2>22 DEF Found, RegisterExit, TypeOK, pipeUnchanged, PipeStates, Processing, Ended
  <2>23. ASSUME NEW id \in Ids, MissExit(id) PROVE TypeOK'
    BY <2>23 DEF Found, MissExit, TypeOK, pipeUnchanged, PipeStates, Processing, Ended
  <2>24. ASSUME NEW id \in Ids, PipeReturns(id) PROVE TypeOK'
    BY <2>24 DEF PipeReturns, TypeOK, pipeUnchanged, PipeStates, Processing, Ended
  <2>25. CASE UNCHANGED vars
    BY <2>25 DEF vars, TypeOK
  <2>26. QED
    BY <2>1, <2>2, <2>3, <2>4, <2>5, <2>6, <2>7, <2>8, <2>9, <2>10, <2>11, <2>12, <2>13, <2>14, <2>15, <2>16, <2>17, <2>18, <2>19, <2>20, <2>21, <2>22, <2>23, <2>24, <2>25 DEF Next, MainStep, PipeStep

(***************************************************************************)
(* common_run starts with well-typed variables.                            *)
(***************************************************************************)
LEMMA InitType == Init => TypeOK
<1> SUFFICES ASSUME Init PROVE TypeOK
  OBVIOUS
<1>1. "none" \in PipeStates /\ 0 \in 0..ConnCap
  BY CapAssumption DEF PipeStates
<1>2. QED
  BY <1>1 DEF Init, TypeOK, MainStates, ListeningStates

(***************************************************************************)
(* The variables of common_run and concurrent_pipes always have their      *)
(* types.                                                                  *)
(***************************************************************************)
THEOREM TypeCorrect == Spec => []TypeOK
BY InitType, TypeStep, PTL DEF Spec

-----------------------------------------------------------------------------
(* The safety invariants.                                                  *)

(***************************************************************************)
(* concurrent_pipes::size, a difference of two cardinals, is the number of *)
(* active pipes as long as m_to_close is part of m_pipes.                  *)
(***************************************************************************)
LEMMA SizeIsActive ==
  ASSUME TypeOK, m_to_close \subseteq m_pipes
  PROVE  /\ IsFiniteSet(m_pipes)
         /\ IsFiniteSet(Active)
         /\ Cardinality(Active) \in Nat
         /\ size = Cardinality(Active)
         /\ size = 0 => m_pipes = m_to_close
<1>1. IsFiniteSet(m_pipes)
  BY IdsAssumption, FS_Subset DEF TypeOK
<1>2. IsFiniteSet(Active) /\ IsFiniteSet(m_to_close)
  BY <1>1, FS_Subset DEF Active
<1>3. /\ Cardinality(Active) \in Nat
      /\ Cardinality(m_pipes) \in Nat
      /\ Cardinality(m_to_close) \in Nat
  BY <1>1, <1>2, FS_CardinalityType
<1>4. m_pipes \cap m_to_close = m_to_close
  OBVIOUS
<1>5. Cardinality(Active) = Cardinality(m_pipes) - Cardinality(m_to_close)
  BY <1>1, <1>4, FS_Difference DEF Active
<1>6. size = 0 => m_pipes = m_to_close
  <2>1. size = 0 => Active = {}
    BY <1>2, <1>5, FS_EmptySet DEF size
  <2>2. QED
    BY <2>1 DEF Active
<1>7. QED
  BY <1>1, <1>2, <1>3, <1>5, <1>6 DEF size

(***************************************************************************)
(* accept() and connect() return a socket whose id no thread uses.         *)
(***************************************************************************)
LEMMA ConnStep == IInv /\ [Next]_vars => ConnInv'
<1> SUFFICES ASSUME IInv, [Next]_vars PROVE ConnInv'
  OBVIOUS
<1> USE DEF IInv
<1>1. CASE CreateStatsWriter
  BY <1>1 DEF CreateStatsWriter, poolState, ConnInv, TypeOK
<1>2. CASE OpenSocket
  BY <1>2 DEF OpenSocket, poolState, ConnInv, TypeOK
<1>3. CASE OpenSocketThrows
  BY <1>3 DEF OpenSocketThrows, poolState, LeaveLoop, ConnInv, TypeOK
<1>4. CASE Establish
  BY <1>4 DEF Establish, poolState, ConnInv, TypeOK, OpenIds, PipeStates
<1>5. CASE EstablishThrows
  BY <1>5 DEF EstablishThrows, poolState, LeaveLoop, ConnInv, TypeOK
<1>6. CASE AddSocket
  BY <1>6 DEF AddSocket, poolState, ConnInv, TypeOK
<1>7. CASE LaunchPipe
  BY <1>7 DEF LaunchPipe, ConnInv, TypeOK
<1>8. CASE EmplacePipe
  BY <1>8 DEF MaxReached, EmplacePipe, LeaveLoop, ConnInv, TypeOK
<1>9. CASE CheckSize
  BY <1>9 DEF HasRoom, CheckSize, poolState, LeaveLoop, NextIteration, ConnInv, TypeOK
<1>10. CASE WhileFull
  BY <1>10 DEF HasRoom, WhileFull, poolState, LeaveLoop, NextIteration, ConnInv, TypeOK
<1>11. CASE BeginWait
  BY <1>11 DEF BeginWait, ConnInv, TypeOK
<1>12. CASE WakeUp
  BY <1>12 DEF WakeUp, poolState, ConnInv, TypeOK
<1>13. CASE SpuriousWakeUp
  BY <1>13 DEF SpuriousWakeUp, poolState, ConnInv, TypeOK
<1>14. CASE Reap
  BY <1>14 DEF Closing, Reap, ConnInv, TypeOK
<1>15. CASE WhileDraining
  BY <1>15 DEF WhileDraining, poolState, ConnInv, TypeOK
<1>16. CASE Destroy
  BY <1>16 DEF Destroy, ConnInv, TypeOK
<1>17. CASE OnINT_ForceExit
  BY <1>17 DEF OnINT_ForceExit, poolState, ConnInv, TypeOK
<1>18. CASE Returned
  BY <1>18 DEF Returned, vars, ConnInv, TypeOK
<1>19. ASSUME NEW id \in Ids, PipeEnds(id) PROVE ConnInv'
  BY <1>19 DEF PipeEnds, pipeUnchanged, ConnInv, TypeOK, Ended
<1>20. ASSUME NEW id \in Ids, PipeThrows(id) PROVE ConnInv'
  BY <1>20 DEF PipeThrows, pipeUnchanged, ConnInv, TypeOK, Ended
<1>21. ASSUME NEW id \in Ids, RemoveSocket(id) PROVE ConnInv'
  BY <1>21 DEF Removed, RemoveSocket, pipeUnchanged, ConnInv, TypeOK, Ended
<1>22. ASSUME NEW id \in Ids, RegisterExit(id) PROVE ConnInv'
  BY <1>22 DEF Found, RegisterExit, pipeUnchanged, ConnInv, TypeOK, Ended
<1>23. ASSUME NEW id \in Ids, MissExit(id) PROVE ConnInv'
  BY <1>23 DEF Found, MissExit, pipeUnchanged, ConnInv, TypeOK, Ended
<1>24. ASSUME NEW id \in Ids, PipeReturns(id) PROVE ConnInv'
  BY <1>24 DEF PipeReturns, pipeUnchanged, ConnInv, TypeOK, Ended
<1>25. CASE UNCHANGED vars
  BY <1>25 DEF vars, ConnInv, TypeOK
<1>26. QED
  BY <1>1, <1>2, <1>3, <1>4, <1>5, <1>6, <1>7, <1>8, <1>9, <1>10, <1>11, <1>12, <1>13, <1>14, <1>15, <1>16, <1>17, <1>18, <1>19, <1>20, <1>21, <1>22, <1>23, <1>24, <1>25 DEF Next, MainStep, PipeStep

(***************************************************************************)
(* m_pipes and m_to_close know every thread that still uses them.          *)
(***************************************************************************)
LEMMA PipesStep == IInv /\ [Next]_vars => PipesInv'
<1> SUFFICES ASSUME IInv, [Next]_vars PROVE PipesInv'
  OBVIOUS
<1> USE DEF IInv, Active
<1>1. CASE CreateStatsWriter
  BY <1>1 DEF CreateStatsWriter, poolState, PipesInv, TypeOK, Processing
<1>2. CASE OpenSocket
  BY <1>2 DEF OpenSocket, poolState, PipesInv, TypeOK, Processing
<1>3. CASE OpenSocketThrows
  BY <1>3 DEF OpenSocketThrows, poolState, LeaveLoop, PipesInv, TypeOK, Processing
<1>4. CASE Establish
  BY <1>4 DEF Establish, poolState, PipesInv, TypeOK, Processing
<1>5. CASE EstablishThrows
  BY <1>5 DEF EstablishThrows, poolState, LeaveLoop, PipesInv, TypeOK, Processing
<1>6. CASE AddSocket
  BY <1>6 DEF AddSocket, poolState, PipesInv, TypeOK, Processing
<1>7. CASE LaunchPipe
  BY <1>7 DEF LaunchPipe, PipesInv, TypeOK, Processing, ConnInv, Ended
<1>8. CASE EmplacePipe
  BY <1>8 DEF MaxReached, EmplacePipe, LeaveLoop, PipesInv, TypeOK, Processing, ConnInv, Ended
<1>9. CASE CheckSize
  BY <1>9 DEF HasRoom, CheckSize, poolState, LeaveLoop, NextIteration, PipesInv, TypeOK, Processing
<1>10. CASE WhileFull
  BY <1>10 DEF HasRoom, WhileFull, poolState, LeaveLoop, NextIteration, PipesInv, TypeOK, Processing
<1>11. CASE BeginWait
  BY <1>11 DEF BeginWait, PipesInv, TypeOK, Processing
<1>12. CASE WakeUp
  BY <1>12 DEF WakeUp, poolState, PipesInv, TypeOK, Processing
<1>13. CASE SpuriousWakeUp
  BY <1>13 DEF SpuriousWakeUp, poolState, PipesInv, TypeOK, Processing
<1>14. CASE Reap
  BY <1>14 DEF Closing, Reap, PipesInv, TypeOK, Processing, Ended
<1>15. CASE WhileDraining
  BY <1>15, SizeIsActive DEF WhileDraining, poolState, PipesInv, TypeOK, Processing
<1>16. CASE Destroy
  BY <1>16 DEF Destroy, PipesInv, TypeOK, Processing, Ended
<1>17. CASE OnINT_ForceExit
  BY <1>17 DEF OnINT_ForceExit, poolState, PipesInv, TypeOK, Processing
<1>18. CASE Returned
  BY <1>18 DEF Returned, vars, PipesInv, TypeOK, Processing
<1>19. ASSUME NEW id \in Ids, PipeEnds(id) PROVE PipesInv'
  BY <1>19 DEF PipeEnds, pipeUnchanged, PipesInv, TypeOK, Processing
<1>20. ASSUME NEW id \in Ids, PipeThrows(id) PROVE PipesInv'
  BY <1>20 DEF PipeThrows, pipeUnchanged, PipesInv, TypeOK, Processing, Ended
<1>21. ASSUME NEW id \in Ids, RemoveSocket(id) PROVE PipesInv'
  BY <1>21 DEF Removed, RemoveSocket, pipeUnchanged, PipesInv, TypeOK, Processing
<1>22. ASSUME NEW id \in Ids, RegisterExit(id) PROVE PipesInv'
  BY <1>22 DEF Found, RegisterExit, pipeUnchanged, PipesInv, TypeOK, Processing, Ended
<1>23. ASSUME NEW id \in Ids, MissExit(id) PROVE PipesInv'
  BY <1>23 DEF Found, MissExit, pipeUnchanged, PipesInv, TypeOK, Processing
<1>24. ASSUME NEW id \in Ids, PipeReturns(id) PROVE PipesInv'
  BY <1>24 DEF PipeReturns, pipeUnchanged, PipesInv, TypeOK, Processing
<1>25. CASE UNCHANGED vars
  BY <1>25 DEF vars, PipesInv, TypeOK, Processing
<1>26. QED
  BY <1>1, <1>2, <1>3, <1>4, <1>5, <1>6, <1>7, <1>8, <1>9, <1>10, <1>11, <1>12, <1>13, <1>14, <1>15, <1>16, <1>17, <1>18, <1>19, <1>20, <1>21, <1>22, <1>23, <1>24, <1>25 DEF Next, MainStep, PipeStep

(***************************************************************************)
(* The stats_writer keeps no connection whose pipe has reported its exit.  *)
(***************************************************************************)
LEMMA StatsStep == IInv /\ [Next]_vars => StatsInv'
<1> SUFFICES ASSUME IInv, [Next]_vars PROVE StatsInv'
  OBVIOUS
<1> USE DEF IInv
<1>1. CASE CreateStatsWriter
  BY <1>1 DEF CreateStatsWriter, poolState, StatsInv, TypeOK
<1>2. CASE OpenSocket
  BY <1>2 DEF OpenSocket, poolState, StatsInv, TypeOK
<1>3. CASE OpenSocketThrows
  BY <1>3 DEF OpenSocketThrows, poolState, LeaveLoop, StatsInv, TypeOK
<1>4. CASE Establish
  BY <1>4 DEF Establish, poolState, StatsInv, TypeOK
<1>5. CASE EstablishThrows
  BY <1>5 DEF EstablishThrows, poolState, LeaveLoop, StatsInv, TypeOK
<1>6. CASE AddSocket
  BY <1>6 DEF AddSocket, poolState, StatsInv, TypeOK
<1>7. CASE LaunchPipe
  BY <1>7 DEF LaunchPipe, StatsInv, TypeOK
<1>8. CASE EmplacePipe
  BY <1>8 DEF MaxReached, EmplacePipe, LeaveLoop, StatsInv, TypeOK
<1>9. CASE CheckSize
  BY <1>9 DEF HasRoom, CheckSize, poolState, LeaveLoop, NextIteration, StatsInv, TypeOK
<1>10. CASE WhileFull
  BY <1>10 DEF HasRoom, WhileFull, poolState, LeaveLoop, NextIteration, StatsInv, TypeOK
<1>11. CASE BeginWait
  BY <1>11 DEF BeginWait, StatsInv, TypeOK
<1>12. CASE WakeUp
  BY <1>12 DEF WakeUp, poolState, StatsInv, TypeOK
<1>13. CASE SpuriousWakeUp
  BY <1>13 DEF SpuriousWakeUp, poolState, StatsInv, TypeOK
<1>14. CASE Reap
  BY <1>14 DEF Closing, Reap, StatsInv, TypeOK
<1>15. CASE WhileDraining
  BY <1>15 DEF WhileDraining, poolState, StatsInv, TypeOK
<1>16. CASE Destroy
  BY <1>16 DEF Destroy, StatsInv, TypeOK
<1>17. CASE OnINT_ForceExit
  BY <1>17 DEF OnINT_ForceExit, poolState, StatsInv, TypeOK
<1>18. CASE Returned
  BY <1>18 DEF Returned, vars, StatsInv, TypeOK
<1>19. ASSUME NEW id \in Ids, PipeEnds(id) PROVE StatsInv'
  BY <1>19 DEF PipeEnds, pipeUnchanged, StatsInv, TypeOK
<1>20. ASSUME NEW id \in Ids, PipeThrows(id) PROVE StatsInv'
  BY <1>20 DEF PipeThrows, pipeUnchanged, StatsInv, TypeOK
<1>21. ASSUME NEW id \in Ids, RemoveSocket(id) PROVE StatsInv'
  BY <1>21 DEF Removed, RemoveSocket, pipeUnchanged, StatsInv, TypeOK
<1>22. ASSUME NEW id \in Ids, RegisterExit(id) PROVE StatsInv'
  BY <1>22 DEF Found, RegisterExit, pipeUnchanged, StatsInv, TypeOK
<1>23. ASSUME NEW id \in Ids, MissExit(id) PROVE StatsInv'
  BY <1>23 DEF Found, MissExit, pipeUnchanged, StatsInv, TypeOK
<1>24. ASSUME NEW id \in Ids, PipeReturns(id) PROVE StatsInv'
  BY <1>24 DEF PipeReturns, pipeUnchanged, StatsInv, TypeOK
<1>25. CASE UNCHANGED vars
  BY <1>25 DEF vars, StatsInv, TypeOK
<1>26. QED
  BY <1>1, <1>2, <1>3, <1>4, <1>5, <1>6, <1>7, <1>8, <1>9, <1>10, <1>11, <1>12, <1>13, <1>14, <1>15, <1>16, <1>17, <1>18, <1>19, <1>20, <1>21, <1>22, <1>23, <1>24, <1>25 DEF Next, MainStep, PipeStep

(***************************************************************************)
(* Only emplace adds to the active pipes, and only one.                    *)
(***************************************************************************)
LEMMA ActiveStep ==
  ASSUME IInv, [Next]_vars
  PROVE  /\ Cardinality(Active) \in Nat
         /\ Cardinality(Active') \in Nat
         /\ Cardinality(Active') <= Cardinality(Active) + 1
         /\ \/ Cardinality(Active') <= Cardinality(Active)
            \/ main = "emplace" /\ main' \in {"drain", "check"}
<1>1. m_to_close \subseteq m_pipes
  BY DEF IInv, PipesInv
<1>2. IsFiniteSet(Active) /\ Cardinality(Active) \in Nat
  BY <1>1, SizeIsActive DEF IInv
<1>3. CASE EmplacePipe
  <2>1. Active' \subseteq Active \cup {conn}
    BY <1>3 DEF MaxReached, EmplacePipe, Active
  <2>2. /\ IsFiniteSet(Active \cup {conn})
        /\ Cardinality(Active \cup {conn}) <= Cardinality(Active) + 1
    BY <1>2, FS_AddElement
  <2>3. Cardinality(Active \cup {conn}) \in Nat
    BY <2>2, FS_CardinalityType
  <2>4. IsFiniteSet(Active') /\ Cardinality(Active') <= Cardinality(Active \cup {conn})
    BY <2>1, <2>2, FS_Subset
  <2>5. Cardinality(Active') \in Nat
    BY <2>4, FS_CardinalityType
  <2>6. main = "emplace" /\ main' \in {"drain", "check"}
    BY <1>3 DEF MaxReached, EmplacePipe, LeaveLoop
  <2>7. QED
    BY <1>2, <2>2, <2>3, <2>4, <2>5, <2>6
<1>4. CASE ~EmplacePipe
  <2>1. Active' \subseteq Active
    <3>1. CASE CreateStatsWriter
      BY <3>1 DEF CreateStatsWriter, poolState, Active
    <3>2. CASE OpenSocket
      BY <3>2 DEF OpenSocket, poolState, Active
    <3>3. CASE OpenSocketThrows
      BY <3>3 DEF OpenSocketThrows, poolState, LeaveLoop, Active
    <3>4. CASE Establish
      BY <3>4 DEF Establish, poolState, Active
    <3>5. CASE EstablishThrows
      BY <3>5 DEF EstablishThrows, poolState, LeaveLoop, Active
    <3>6. CASE AddSocket
      BY <3>6 DEF AddSocket, poolState, Active
    <3>7. CASE LaunchPipe
      BY <3>7 DEF LaunchPipe, Active
    <3>8. CASE EmplacePipe
      BY <1>4, <3>8
    <3>9. CASE CheckSize
      BY <3>9 DEF HasRoom, CheckSize, poolState, LeaveLoop, NextIteration, Active
    <3>10. CASE WhileFull
      BY <3>10 DEF HasRoom, WhileFull, poolState, LeaveLoop, NextIteration, Active
    <3>11. CASE BeginWait
      BY <3>11 DEF BeginWait, Active
    <3>12. CASE WakeUp
      BY <3>12 DEF WakeUp, poolState, Active
    <3>13. CASE SpuriousWakeUp
      BY <3>13 DEF SpuriousWakeUp, poolState, Active
    <3>14. CASE Reap
      BY <3>14 DEF Closing, Reap, Active
    <3>15. CASE WhileDraining
      BY <3>15 DEF WhileDraining, poolState, Active
    <3>16. CASE Destroy
      BY <3>16 DEF Destroy, Active
    <3>17. CASE OnINT_ForceExit
      BY <3>17 DEF OnINT_ForceExit, poolState, Active
    <3>18. CASE Returned
      BY <3>18 DEF Returned, vars, Active
    <3>19. ASSUME NEW id \in Ids, PipeEnds(id) PROVE Active' \subseteq Active
      BY <3>19 DEF PipeEnds, pipeUnchanged, Active
    <3>20. ASSUME NEW id \in Ids, PipeThrows(id) PROVE Active' \subseteq Active
      BY <3>20 DEF PipeThrows, pipeUnchanged, Active
    <3>21. ASSUME NEW id \in Ids, RemoveSocket(id) PROVE Active' \subseteq Active
      BY <3>21 DEF Removed, RemoveSocket, pipeUnchanged, Active
    <3>22. ASSUME NEW id \in Ids, RegisterExit(id) PROVE Active' \subseteq Active
      BY <3>22 DEF Found, RegisterExit, pipeUnchanged, Active
    <3>23. ASSUME NEW id \in Ids, MissExit(id) PROVE Active' \subseteq Active
      BY <3>23 DEF Found, MissExit, pipeUnchanged, Active
    <3>24. ASSUME NEW id \in Ids, PipeReturns(id) PROVE Active' \subseteq Active
      BY <3>24 DEF PipeReturns, pipeUnchanged, Active
    <3>25. CASE UNCHANGED vars
      BY <3>25 DEF vars, Active
    <3>26. QED
      BY <3>1, <3>2, <3>3, <3>4, <3>5, <3>6, <3>7, <3>8, <3>9, <3>10, <3>11, <3>12, <3>13, <3>14, <3>15, <3>16, <3>17, <3>18, <3>19, <3>20, <3>21, <3>22, <3>23, <3>24, <3>25 DEF Next, MainStep, PipeStep
  <2>2. IsFiniteSet(Active') /\ Cardinality(Active') <= Cardinality(Active)
    BY <1>2, <2>1, FS_Subset
  <2>3. Cardinality(Active') \in Nat
    BY <2>2, FS_CardinalityType
  <2>4. QED
    BY <1>2, <2>2, <2>3
<1>5. QED
  BY <1>3, <1>4

(***************************************************************************)
(* The limits of the command line are kept.                                *)
(***************************************************************************)
LEMMA LimitStep == IInv /\ [Next]_vars => LimitInv'
<1> SUFFICES ASSUME IInv, [Next]_vars PROVE LimitInv'
  OBVIOUS
<1> DEFINE a == Cardinality(Active)
           b == Cardinality(Active')
<1>a. /\ a \in Nat /\ b \in Nat /\ b <= a + 1
      /\ b <= a \/ (main = "emplace" /\ main' \in {"drain", "check"})
  BY ActiveStep
<1>b. /\ cfg.concurrent_streams \in Nat /\ cfg.max_conns \in Int
      /\ conns_cnt \in Int /\ size = a
      /\ cfg' = cfg
  <2>1. cfg' = cfg
    <3>1. CASE CreateStatsWriter
      BY <3>1 DEF CreateStatsWriter, poolState
    <3>2. CASE OpenSocket
      BY <3>2 DEF OpenSocket, poolState
    <3>3. CASE OpenSocketThrows
      BY <3>3 DEF OpenSocketThrows, poolState, LeaveLoop
    <3>4. CASE Establish
      BY <3>4 DEF Establish, poolState
    <3>5. CASE EstablishThrows
      BY <3>5 DEF EstablishThrows, poolState, LeaveLoop
    <3>6. CASE AddSocket
      BY <3>6 DEF AddSocket, poolState
    <3>7. CASE LaunchPipe
      BY <3>7 DEF LaunchPipe
    <3>8. CASE EmplacePipe
      BY <3>8 DEF MaxReached, EmplacePipe, LeaveLoop
    <3>9. CASE CheckSize
      BY <3>9 DEF HasRoom, CheckSize, poolState, LeaveLoop, NextIteration
    <3>10. CASE WhileFull
      BY <3>10 DEF HasRoom, WhileFull, poolState, LeaveLoop, NextIteration
    <3>11. CASE BeginWait
      BY <3>11 DEF BeginWait
    <3>12. CASE WakeUp
      BY <3>12 DEF WakeUp, poolState
    <3>13. CASE SpuriousWakeUp
      BY <3>13 DEF SpuriousWakeUp, poolState
    <3>14. CASE Reap
      BY <3>14 DEF Closing, Reap
    <3>15. CASE WhileDraining
      BY <3>15 DEF WhileDraining, poolState
    <3>16. CASE Destroy
      BY <3>16 DEF Destroy
    <3>17. CASE OnINT_ForceExit
      BY <3>17 DEF OnINT_ForceExit, poolState
    <3>18. CASE Returned
      BY <3>18 DEF Returned, vars
    <3>19. ASSUME NEW id \in Ids, PipeEnds(id) PROVE cfg' = cfg
      BY <3>19 DEF PipeEnds, pipeUnchanged
    <3>20. ASSUME NEW id \in Ids, PipeThrows(id) PROVE cfg' = cfg
      BY <3>20 DEF PipeThrows, pipeUnchanged
    <3>21. ASSUME NEW id \in Ids, RemoveSocket(id) PROVE cfg' = cfg
      BY <3>21 DEF Removed, RemoveSocket, pipeUnchanged
    <3>22. ASSUME NEW id \in Ids, RegisterExit(id) PROVE cfg' = cfg
      BY <3>22 DEF Found, RegisterExit, pipeUnchanged
    <3>23. ASSUME NEW id \in Ids, MissExit(id) PROVE cfg' = cfg
      BY <3>23 DEF Found, MissExit, pipeUnchanged
    <3>24. ASSUME NEW id \in Ids, PipeReturns(id) PROVE cfg' = cfg
      BY <3>24 DEF PipeReturns, pipeUnchanged
    <3>25. CASE UNCHANGED vars
      BY <3>25 DEF vars
    <3>26. QED
      BY <3>1, <3>2, <3>3, <3>4, <3>5, <3>6, <3>7, <3>8, <3>9, <3>10, <3>11, <3>12, <3>13, <3>14, <3>15, <3>16, <3>17, <3>18, <3>19, <3>20, <3>21, <3>22, <3>23, <3>24, <3>25 DEF Next, MainStep, PipeStep
  <2>2. QED
    BY <2>1, CfgType, SizeIsActive, CapAssumption DEF IInv, TypeOK, PipesInv
<1> HIDE DEF a, b
<1>1. CASE CreateStatsWriter
  BY <1>1, <1>a, <1>b DEF CreateStatsWriter, poolState, IInv, TypeOK, LimitInv, a, b
<1>2. CASE OpenSocket
  BY <1>2, <1>a, <1>b DEF OpenSocket, poolState, IInv, TypeOK, LimitInv, a, b
<1>3. CASE OpenSocketThrows
  BY <1>3, <1>a, <1>b DEF OpenSocketThrows, poolState, LeaveLoop, IInv, TypeOK, LimitInv, a, b
<1>4. CASE Establish
  BY <1>4, <1>a, <1>b DEF Establish, poolState, IInv, TypeOK, LimitInv, a, b
<1>5. CASE EstablishThrows
  BY <1>5, <1>a, <1>b DEF EstablishThrows, poolState, LeaveLoop, IInv, TypeOK, LimitInv, a, b
<1>6. CASE AddSocket
  BY <1>6, <1>a, <1>b DEF AddSocket, poolState, IInv, TypeOK, LimitInv, a, b
<1>7. CASE LaunchPipe
  BY <1>7, <1>a, <1>b DEF LaunchPipe, IInv, TypeOK, LimitInv, a, b
<1>8. CASE EmplacePipe
  BY <1>8, <1>a, <1>b DEF MaxReached, EmplacePipe, LeaveLoop, IInv, TypeOK, LimitInv, a, b
<1>9. CASE CheckSize
  BY <1>9, <1>a, <1>b DEF HasRoom, CheckSize, poolState, LeaveLoop, NextIteration, IInv, TypeOK, LimitInv, a, b
<1>10. CASE WhileFull
  BY <1>10, <1>a, <1>b DEF HasRoom, WhileFull, poolState, LeaveLoop, NextIteration, IInv, TypeOK, LimitInv, a, b
<1>11. CASE BeginWait
  BY <1>11, <1>a, <1>b DEF BeginWait, IInv, TypeOK, LimitInv, a, b
<1>12. CASE WakeUp
  BY <1>12, <1>a, <1>b DEF WakeUp, poolState, IInv, TypeOK, LimitInv, a, b
<1>13. CASE SpuriousWakeUp
  BY <1>13, <1>a, <1>b DEF SpuriousWakeUp, poolState, IInv, TypeOK, LimitInv, a, b
<1>14. CASE Reap
  BY <1>14, <1>a, <1>b DEF Closing, Reap, IInv, TypeOK, LimitInv, a, b
<1>15. CASE WhileDraining
  BY <1>15, <1>a, <1>b DEF WhileDraining, poolState, IInv, TypeOK, LimitInv, a, b
<1>16. CASE Destroy
  BY <1>16, <1>a, <1>b DEF Destroy, IInv, TypeOK, LimitInv, a, b
<1>17. CASE OnINT_ForceExit
  BY <1>17, <1>a, <1>b DEF OnINT_ForceExit, poolState, IInv, TypeOK, LimitInv, a, b
<1>18. CASE Returned
  BY <1>18, <1>a, <1>b DEF Returned, vars, IInv, TypeOK, LimitInv, a, b
<1>19. ASSUME NEW id \in Ids, PipeEnds(id) PROVE LimitInv'
  BY <1>19, <1>a, <1>b DEF PipeEnds, pipeUnchanged, IInv, TypeOK, LimitInv, a, b
<1>20. ASSUME NEW id \in Ids, PipeThrows(id) PROVE LimitInv'
  BY <1>20, <1>a, <1>b DEF PipeThrows, pipeUnchanged, IInv, TypeOK, LimitInv, a, b
<1>21. ASSUME NEW id \in Ids, RemoveSocket(id) PROVE LimitInv'
  BY <1>21, <1>a, <1>b DEF Removed, RemoveSocket, pipeUnchanged, IInv, TypeOK, LimitInv, a, b
<1>22. ASSUME NEW id \in Ids, RegisterExit(id) PROVE LimitInv'
  BY <1>22, <1>a, <1>b DEF Found, RegisterExit, pipeUnchanged, IInv, TypeOK, LimitInv, a, b
<1>23. ASSUME NEW id \in Ids, MissExit(id) PROVE LimitInv'
  BY <1>23, <1>a, <1>b DEF Found, MissExit, pipeUnchanged, IInv, TypeOK, LimitInv, a, b
<1>24. ASSUME NEW id \in Ids, PipeReturns(id) PROVE LimitInv'
  BY <1>24, <1>a, <1>b DEF PipeReturns, pipeUnchanged, IInv, TypeOK, LimitInv, a, b
<1>25. CASE UNCHANGED vars
  BY <1>25, <1>a, <1>b DEF vars, IInv, TypeOK, LimitInv, a, b
<1>26. QED
  BY <1>1, <1>2, <1>3, <1>4, <1>5, <1>6, <1>7, <1>8, <1>9, <1>10, <1>11, <1>12, <1>13, <1>14, <1>15, <1>16, <1>17, <1>18, <1>19, <1>20, <1>21, <1>22, <1>23, <1>24, <1>25 DEF Next, MainStep, PipeStep

(***************************************************************************)
(* The inductive invariant holds in every state of common_run.             *)
(***************************************************************************)
THEOREM InductiveInvariant == Spec => []IInv
<1>1. Init => IInv
  <2> SUFFICES ASSUME Init PROVE IInv
    OBVIOUS
  <2>1. TypeOK
    BY InitType
  <2>2. ConnInv /\ PipesInv /\ StatsInv
    BY DEF Init, ConnInv, PipesInv, StatsInv, Active, Processing
  <2>3. Active = {} /\ Cardinality(Active) = 0
    BY FS_EmptySet DEF Init, Active
  <2>4. cfg.concurrent_streams \in Nat \ {0} /\ cfg.max_conns \in Int
    BY <2>1, CfgType DEF TypeOK
  <2>5. LimitInv
    BY <2>3, <2>4 DEF Init, LimitInv
  <2>6. QED
    BY <2>1, <2>2, <2>5 DEF IInv
<1>2. IInv /\ [Next]_vars => IInv'
  BY TypeStep, ConnStep, PipesStep, LimitStep, StatsStep DEF IInv
<1>3. QED
  BY <1>1, <1>2, PTL DEF Spec

(***************************************************************************)
(* The pipes that process a connection are active ones, and the one main   *)
(* is about to emplace.                                                    *)
(***************************************************************************)
LEMMA LiveBound ==
  ASSUME IInv
  PROVE  /\ IsFiniteSet(Live)
         /\ Cardinality(Live) \in Nat
         /\ Cardinality(Live) <= cfg.concurrent_streams
         /\ main = "launch" => Cardinality(Live) < cfg.concurrent_streams
<1>1. /\ IsFiniteSet(Active) /\ Cardinality(Active) \in Nat
      /\ cfg.concurrent_streams \in Nat
  BY SizeIsActive, CfgType DEF IInv, PipesInv, TypeOK
<1>2. /\ IsFiniteSet(Active \cup {conn})
      /\ Cardinality(Active \cup {conn}) <= Cardinality(Active) + 1
  BY <1>1, FS_AddElement
<1>3. /\ Live \subseteq Active \cup {conn}
      /\ main # "emplace" => Live \subseteq Active
  BY DEF IInv, PipesInv, Live
<1>4. /\ IsFiniteSet(Live)
      /\ Cardinality(Live) <= Cardinality(Active \cup {conn})
      /\ main # "emplace" => Cardinality(Live) <= Cardinality(Active)
  BY <1>1, <1>2, <1>3, FS_Subset
<1>5. Cardinality(Live) \in Nat /\ Cardinality(Active \cup {conn}) \in Nat
  BY <1>2, <1>4, FS_CardinalityType
<1>6. CASE main = "emplace"
  <2>1. Cardinality(Active) < cfg.concurrent_streams
    BY <1>6 DEF IInv, LimitInv
  <2>2. QED
    BY <1>1, <1>2, <1>4, <1>5, <1>6, <2>1
<1>7. CASE main # "emplace"
  <2>1. /\ Cardinality(Active) <= cfg.concurrent_streams
        /\ main = "launch" => Cardinality(Active) < cfg.concurrent_streams
    BY DEF IInv, LimitInv
  <2>2. QED
    BY <1>1, <1>4, <1>5, <1>7, <2>1
<1>8. QED
  BY <1>6, <1>7

(***************************************************************************)
(* Never more than --concurrent-streams pipes process a connection.        *)
(***************************************************************************)
THEOREM StreamLimitHolds == Spec => []StreamLimit
<1>1. IInv => StreamLimit
  BY LiveBound DEF StreamLimit
<1>2. QED
  BY <1>1, InductiveInvariant, PTL

(***************************************************************************)
(* size() never wraps, and wait() joins no thread that needs its mutex.    *)
(***************************************************************************)
THEOREM ToCloseIsClosableHolds == Spec => []ToCloseIsClosable
<1>1. IInv => ToCloseIsClosable
  <2> SUFFICES ASSUME IInv PROVE ToCloseIsClosable
    OBVIOUS
  <2>1. ASSUME main = "reap", NEW id \in m_to_close
        PROVE  pipe[id] \in Ended \cup {"returning"}
    <3>1. id \in Ids /\ pipe[id] \in PipeStates
      BY <2>1 DEF IInv, TypeOK
    <3>2. pipe[id] \notin Processing /\ pipe[id] # "none"
      BY <2>1, <3>1 DEF IInv, PipesInv, Active
    <3>3. QED
      BY <3>1, <3>2 DEF PipeStates
  <2>2. QED
    BY <2>1 DEF ToCloseIsClosable, IInv, PipesInv
<1>2. QED
  BY <1>1, InductiveInvariant, PTL

(***************************************************************************)
(* The destructor of concurrent_pipes finds no thread that still needs the *)
(* mutex, and common_run returns only after every thread has ended.        *)
(***************************************************************************)
THEOREM NoUseAfterDestroyHolds == Spec => []NoUseAfterDestroy
<1>1. IInv => NoUseAfterDestroy
  BY DEF IInv, TypeOK, PipesInv, Active, NoUseAfterDestroy, PipeStates
<1>2. QED
  BY <1>1, InductiveInvariant, PTL

(***************************************************************************)
(* The stats_writer does not keep a processed connection open.             *)
(***************************************************************************)
THEOREM ClosedAfterProcessingHolds == Spec => []ClosedAfterProcessing
<1>1. IInv => ClosedAfterProcessing
  BY DEF IInv, StatsInv, ClosedAfterProcessing
<1>2. QED
  BY <1>1, InductiveInvariant, PTL

-----------------------------------------------------------------------------
(* Refinement.                                                             *)

\* A step that PipePool does not see.
Stutter ==
  UNCHANGED <<cfg.concurrent_streams, cfg.max_conns, Live, Launched,
              main \in {"destroy", "returned"}>>

PoolStep == Pool!PoolNext \/ Stutter

(***************************************************************************)
(* Every step of common_run and its pipes is a step of the pool or leaves  *)
(* the pool as it is.                                                      *)
(***************************************************************************)
LEMMA StepImplements == IInv /\ [Next]_vars => PoolStep
<1> SUFFICES ASSUME IInv, [Next]_vars PROVE PoolStep
  OBVIOUS
<1>1. CASE CreateStatsWriter
  <2>1. CASE main' = "open"
    BY <1>1, <2>1 DEF CreateStatsWriter, poolState, PoolStep, Stutter, Live, Launched
  <2>2. CASE main' = "returned"
    <3>1. Live = {}
      BY <1>1 DEF CreateStatsWriter, Live, IInv, PipesInv, Active
    <3>2. QED
      BY <1>1, <2>2, <3>1 DEF CreateStatsWriter, poolState, PoolStep, Live, Launched,
         Pool!PoolNext, Pool!Conclude
  <2>3. QED
    BY <1>1, <2>1, <2>2 DEF CreateStatsWriter
<1>2. CASE OpenSocket
  BY <1>2 DEF OpenSocket, poolState, PoolStep, Stutter, Live, Launched
<1>3. CASE OpenSocketThrows
  BY <1>3 DEF OpenSocketThrows, poolState, LeaveLoop, PoolStep, Stutter, Live, Launched
<1>4. CASE Establish
  BY <1>4 DEF Establish, poolState, PoolStep, Stutter, Live, Launched
<1>5. CASE EstablishThrows
  BY <1>5 DEF EstablishThrows, poolState, LeaveLoop, PoolStep, Stutter, Live, Launched
<1>6. CASE AddSocket
  BY <1>6 DEF AddSocket, poolState, PoolStep, Stutter, Live, Launched
<1>7. CASE LaunchPipe
  <2>1. /\ main = "launch" /\ main' = "emplace"
        /\ conn \in Ids /\ conn \notin Live
        /\ pipe' = [pipe EXCEPT ![conn] = "run"]
        /\ UNCHANGED <<cfg, conns_cnt>>
    BY <1>7 DEF LaunchPipe, IInv, TypeOK, ConnInv, Live, Processing, Ended
  <2>2. Live' = Live \cup {conn}
    BY <2>1 DEF Live, Processing, IInv, TypeOK
  <2>3. /\ Cardinality(Live) < cfg.concurrent_streams
        /\ cfg.max_conns > 0 => conns_cnt < cfg.max_conns
    BY <2>1, LiveBound DEF IInv, LimitInv
  <2>4. Launched = conns_cnt /\ Launched' = IF conns_cnt < ConnCap THEN conns_cnt + 1 ELSE conns_cnt
    BY <2>1 DEF Launched
  <2>5. Pool!Open(conn)
    <3>1. /\ ~(main \in {"destroy", "returned"})
          /\ (main \in {"destroy", "returned"})' = (main \in {"destroy", "returned"})
      BY <2>1
    <3>2. Launched' = IF Launched < ConnCap THEN Launched + 1 ELSE Launched
      BY <2>4
    <3>3. cfg.max_conns > 0 => Launched < cfg.max_conns
      BY <2>3, <2>4
    <3> DEFINE lim == [active |-> cfg.concurrent_streams, opened |-> cfg.max_conns]
    <3>4. /\ Cardinality(Live) < lim.active
          /\ lim.opened > 0 => Launched < lim.opened
          /\ lim' = lim
      BY <2>1, <2>3, <3>3
    <3>5. Pool!Cardinality(Live) = Cardinality(Live)
      BY Zenon DEF Pool!Cardinality, Cardinality
    <3>6. QED
      BY <2>1, <2>2, <3>1, <3>2, <3>4, <3>5, Zenon DEF Pool!Open
  <2>6. QED
    BY <2>1, <2>5 DEF PoolStep, Pool!PoolNext
<1>8. CASE EmplacePipe
  <2>1. /\ main = "emplace" /\ main' \in {"drain", "check"}
        /\ UNCHANGED <<cfg, pipe>>
        /\ conns_cnt' = IF conns_cnt < ConnCap THEN conns_cnt + 1 ELSE conns_cnt
    BY <1>8 DEF MaxReached, EmplacePipe, LeaveLoop
  <2>2. QED
    BY <2>1 DEF PoolStep, Stutter, Live, Launched
<1>9. CASE CheckSize
  BY <1>9 DEF HasRoom, CheckSize, poolState, LeaveLoop, NextIteration, PoolStep, Stutter, Live, Launched
<1>10. CASE WhileFull
  BY <1>10 DEF HasRoom, WhileFull, poolState, LeaveLoop, NextIteration, PoolStep, Stutter, Live, Launched
<1>11. CASE BeginWait
  BY <1>11 DEF BeginWait, PoolStep, Stutter, Live, Launched
<1>12. CASE WakeUp
  BY <1>12 DEF WakeUp, poolState, PoolStep, Stutter, Live, Launched
<1>13. CASE SpuriousWakeUp
  BY <1>13 DEF SpuriousWakeUp, poolState, PoolStep, Stutter, Live, Launched
<1>14. CASE Reap
  BY <1>14 DEF Closing, Reap, PoolStep, Stutter, Live, Launched
<1>15. CASE WhileDraining
  <2>1. CASE size # 0
    BY <1>15, <2>1 DEF WhileDraining, poolState, PoolStep, Stutter, Live, Launched
  <2>2. CASE size = 0
    <3>1. Live = {}
      BY <1>15, <2>2, SizeIsActive DEF WhileDraining, Live, IInv, PipesInv, Active
    <3>2. QED
      BY <1>15, <2>2, <3>1 DEF WhileDraining, poolState, PoolStep, Live, Launched,
         Pool!PoolNext, Pool!Conclude
  <2>3. QED
    BY <2>1, <2>2
<1>16. CASE Destroy
  BY <1>16 DEF Destroy, PoolStep, Stutter, Live, Launched
<1>17. CASE OnINT_ForceExit
  BY <1>17 DEF OnINT_ForceExit, poolState, PoolStep, Stutter, Live, Launched
<1>18. CASE Returned
  BY <1>18 DEF Returned, vars, PoolStep, Stutter, Live, Launched
<1>19. ASSUME NEW id \in Ids, PipeEnds(id) PROVE PoolStep
  <2>1. Live' = Live
    BY <1>19 DEF PipeEnds, Live, Processing, IInv, TypeOK
  <2>2. QED
    BY <1>19, <2>1 DEF PipeEnds, pipeUnchanged, PoolStep, Stutter, Launched
<1>20. ASSUME NEW id \in Ids, PipeThrows(id) PROVE PoolStep
  <2>1. Live' = Live \ {id} /\ id \in Live
    BY <1>20 DEF PipeThrows, Live, Processing, IInv, TypeOK
  <2>2. Pool!Finish(id)
    BY <1>20, <2>1 DEF PipeThrows, pipeUnchanged, Launched, Pool!Finish
  <2>3. QED
    BY <1>20, <2>2 DEF PoolStep, Pool!PoolNext
<1>21. ASSUME NEW id \in Ids, RemoveSocket(id) PROVE PoolStep
  <2>1. Live' = Live
    BY <1>21 DEF Removed, RemoveSocket, Live, Processing, IInv, TypeOK
  <2>2. QED
    BY <1>21, <2>1 DEF Removed, RemoveSocket, pipeUnchanged, PoolStep, Stutter, Launched
<1>22. ASSUME NEW id \in Ids, RegisterExit(id) PROVE PoolStep
  <2>1. Live' = Live \ {id} /\ id \in Live
    BY <1>22 DEF Found, RegisterExit, Live, Processing, IInv, TypeOK
  <2>2. Pool!Finish(id)
    BY <1>22, <2>1 DEF Found, RegisterExit, pipeUnchanged, Launched, Pool!Finish
  <2>3. QED
    BY <1>22, <2>2 DEF PoolStep, Pool!PoolNext
<1>23. ASSUME NEW id \in Ids, MissExit(id) PROVE PoolStep
  <2>1. Live' = Live \ {id} /\ id \in Live
    BY <1>23 DEF Found, MissExit, Live, Processing, IInv, TypeOK
  <2>2. Pool!Finish(id)
    BY <1>23, <2>1 DEF Found, MissExit, pipeUnchanged, Launched, Pool!Finish
  <2>3. QED
    BY <1>23, <2>2 DEF PoolStep, Pool!PoolNext
<1>24. ASSUME NEW id \in Ids, PipeReturns(id) PROVE PoolStep
  <2>1. Live' = Live
    BY <1>24 DEF PipeReturns, Live, Processing, IInv, TypeOK
  <2>2. QED
    BY <1>24, <2>1 DEF PipeReturns, pipeUnchanged, PoolStep, Stutter, Launched
<1>25. CASE UNCHANGED vars
  BY <1>25 DEF vars, PoolStep, Stutter, Live, Launched
<1>26. QED
  BY <1>1, <1>2, <1>3, <1>4, <1>5, <1>6, <1>7, <1>8, <1>9, <1>10, <1>11, <1>12, <1>13, <1>14, <1>15, <1>16, <1>17, <1>18, <1>19, <1>20, <1>21, <1>22, <1>23, <1>24, <1>25 DEF Next, MainStep, PipeStep

(***************************************************************************)
(* common_run, for every command line, implements the pool of pipes: the   *)
(* limits on concurrent streams and on connections, and no pipe left when  *)
(* it is over.                                                             *)
(***************************************************************************)
THEOREM PoolRefinement == Spec => ImplementsPool
<1>1. Init => Pool!PoolInit
  <2> SUFFICES ASSUME Init PROVE Pool!PoolInit
    OBVIOUS
  <2>1. /\ cfg.concurrent_streams \in Nat \ {0}
        /\ cfg.max_conns \in 0..ConnCap
    BY CfgType DEF Init
  <2>2. Live = {} /\ Launched = 0
    BY DEF Init, Live, Launched, Processing
  <2>3. QED
    BY <2>1, <2>2 DEF Init, Pool!PoolInit
<1>2. IInv /\ [Next]_vars => [Pool!PoolNext]_Pool!poolVars
  BY StepImplements DEF PoolStep, Stutter, Pool!poolVars
<1>3. QED
  BY <1>1, <1>2, InductiveInvariant, PTL DEF Spec, ImplementsPool, Pool!PoolSpec
=============================================================================
